SPECIFICATION FairSpec
CONSTANT Designs <- MCDesigns
INVARIANTS SettledBeforeEdge PanicMeansDivergence
PROPERTIES CallsReturn
\* A call that panics is the last one.
CHECK_DEADLOCK FALSE

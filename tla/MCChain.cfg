SPECIFICATION FairSpec
CONSTANT Designs <- MCChainDesigns
INVARIANTS PanicMeansDivergence
CHECK_DEADLOCK FALSE

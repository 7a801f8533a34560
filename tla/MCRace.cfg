SPECIFICATION WiredSpec
CONSTANT Designs <- MCDesigns
INVARIANTS AsleepIsRaceFree IsolatedIsRaceFree ReadsPreEdge TypeOK
\* A call that panics is the last one.
CHECK_DEADLOCK FALSE

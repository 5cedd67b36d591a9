\* What requirements and comments say of the Reassembler and the code does not keep.
\* Run with -continue: each invariant is violated.
SPECIFICATION Spec
CONSTANTS
    m1 = m1
    m2 = m2
    Messages = {m1, m2}
    KeyOf <- MCSameKey
    Size <- MCSize
    Timeout = 1
    Duplicates = TRUE
    Closes = {k1, k2}
    Gap = Gap
    MaxTime = 2
    MaxEmissions = 2
INVARIANTS
    NoGaps
    EmittedOnce
    CloseIdempotent
CHECK_DEADLOCK FALSE

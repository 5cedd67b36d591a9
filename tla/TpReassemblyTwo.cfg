\* Two messages with keys of their own: segments reordered, interleaved, lost and late.
SPECIFICATION Spec
CONSTANTS
    m1 = m1
    m2 = m2
    Messages = {m1, m2}
    KeyOf <- MCOwnKey
    Size <- MCSize
    Timeout = 1
    Duplicates = FALSE
    Closes = {}
    Gap = Gap
    MaxTime = 3
    MaxEmissions = 2
INVARIANTS
    WholeMessages
CHECK_DEADLOCK FALSE

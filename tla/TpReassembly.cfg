\* A message of three segments: reordered, repeated, lost and late; Close may come.
SPECIFICATION FairSpec
CONSTANTS
    m1 = m1
    m2 = m2
    Messages = {m2}
    KeyOf <- MCOwnKey
    Size <- MCSize
    Timeout = 1
    Duplicates = TRUE
    Closes = {k1}
    Gap = Gap
    MaxTime = 3
    MaxEmissions = 2
INVARIANTS
    WholeMessages
    JoinedInTime
    LateSegmentsRefused
PROPERTIES
    WindowsEnd
CHECK_DEADLOCK FALSE

SPECIFICATION Spec
CONSTANTS
    None = None
    maxFrameSize = 52
    MaxWritten = 3
    Messages <- MCMessages
    Garbage <- MCGarbage
    Configs <- MCConfigs
    Groups <- MCGroups
    Events <- MCEvents
    Foreign <- MCForeign
    Protected <- MCProtected
    DataIDs <- MCDataIDs
    Counters = {0, 14, 16, 255}
    MaxFlips <- MCMaxFlips
INVARIANTS
    InStep
    SdUnderstood
    DamageDetected
CHECK_DEADLOCK FALSE

CONSTANTS
    k1 = k1
    k2 = k2
    Keys <- MC_Keys
    Nets <- MC_Nets
    EmptyChoices <- MC_EmptyChoices
    MaxNodes = 2
    NodeNetwork = "skynet"
SPECIFICATION Spec
INVARIANTS
    TypeOK
    IntegrityAgrees
CHECK_DEADLOCK FALSE

CONSTANTS
    s1 = s1
    s2 = s2
    s3 = s3
    s4 = s4
    empty = empty
    SubTx <- MC_SubTx
    EmptyRoot = empty
    Blocks <- MC_Blocks
    Limits = {1, 2, 4}
    FUEL_LIMIT = 2
    ErrorFuel = 1
SPECIFICATION Spec
INVARIANTS
    TypeOK
    ExecutedTxsAtomic
    OneDebitPerTx
CHECK_DEADLOCK FALSE

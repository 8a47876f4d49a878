CONSTANTS
    t1 = t1
    t2 = t2
    t3 = t3
    Tx <- MC_Tx
    MaxHeight = 2
    CheckApart = TRUE
    BlockTxs <- MC_BlockTxs
SPECIFICATION Spec
INVARIANT ExecutedBlocksLeavePool

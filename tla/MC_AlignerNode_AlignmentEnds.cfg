CONSTANTS
    t1 = t1
    Tx <- MC_Tx
    MaxHeight = 2
    BlockTxs <- MC_BlockTxs
    MAX_ATTEMPTS = 3
    NetCap = 1
    ChanCap = 1
    MaxRounds = 1
SPECIFICATION FairSpec
PROPERTY
    AlignmentEnds

\* Two tasks compete for one wallet; or a wallet with six ids, two of them kept
\* back, is followed over two rows, with messages that take up to one unit of
\* time.
SPECIFICATION PoolSpec
CONSTANTS
    t1 = t1
    t2 = t2
    t3 = t3
    w1 = w1
    NoWallet = NoWallet
    Tasks = {t1, t2}
    Wallets = {w1}
    MaxShift = 1
    MaxBitnumber = 2
    BitnumberRange = 3
    Timeout = 2
    MaxDelay = 1
    MaxTime = 10
CHECK_DEADLOCK FALSE
INVARIANTS
    WalletInv
    ExclusiveInTime
    FreshId
    RefusedIsEarly

    

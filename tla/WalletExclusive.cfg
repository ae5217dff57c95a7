\* Two tasks, one wallet: a lock that expires while its task is at work.
SPECIFICATION PoolSpec
CONSTANTS
    t1 = t1
    t2 = t2
    t3 = t3
    w1 = w1
    NoWallet = NoWallet
    Tasks = {t1, t2}
    Wallets = {w1}
    MaxShift = 1
    MaxBitnumber = 2
    BitnumberRange = 3
    Timeout = 2
    MaxDelay = 1
    MaxTime = 1
CHECK_DEADLOCK FALSE
INVARIANT
    ExclusiveAccess

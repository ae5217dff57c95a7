\* Messages that reach the contract at once; rows that are reset as soon as
\* they may be.
SPECIFICATION PoolSpec
CONSTANTS
    t1 = t1
    t2 = t2
    t3 = t3
    w1 = w1
    NoWallet = NoWallet
    Tasks = {t1, t2}
    Wallets = {w1}
    MaxShift = 1
    MaxBitnumber = 2
    BitnumberRange = 3
    Timeout = 2
    MaxDelay = 0
    MaxTime = 10
CHECK_DEADLOCK FALSE
INVARIANT
    ResetIsSafe

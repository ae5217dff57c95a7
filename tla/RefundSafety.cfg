\* Two refunds that can be paid, one below the fee and one in tokens; two
\* workers that contend for one wallet, which may pay three times.
SPECIFICATION Spec
CONSTANTS
    r1 = r1
    r2 = r2
    small = small
    token = token
    w1 = w1
    w2 = w2
    x1 = x1
    None = None
    Refunds = {r1, r2, small, token}
    TokenRefunds = {token}
    SmallRefunds = {small}
    Workers = {w1, w2}
    Wallets = {x1}
    MaxSeq = 3
SYMMETRY Symmetry
INVARIANTS
    RefundInv
    PaidOnce
    RefundKept
    SequenceIsFree

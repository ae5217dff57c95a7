---------------------------- MODULE MCXrplRefund ----------------------------
(* Small instances of XrplRefund: refunds of every treatment, two workers.  *)
EXTENDS XrplRefund, TLC

CONSTANTS
    r1, r2, small, token,   \* refund tasks
    w1, w2, x1              \* workers and the wallet

Symmetry == Permutations(Workers) \cup Permutations({r1, r2})
=============================================================================

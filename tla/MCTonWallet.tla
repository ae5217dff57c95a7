---------------------------- MODULE MCTonWallet ----------------------------
(* Small instances of TonWallet and QueryIdReset: includer tasks compete    *)
(* for one wallet, or one wallet's query ids are followed in time, with a   *)
(* few query ids instead of 8192 * 1023.  The two modules share no state,   *)
(* so a behaviour has the steps of one of them.                             *)
EXTENDS TonWallet, QueryIdReset

CONSTANTS t1, t2, t3, w1

PoolVars == <<vars, resetVars>>
PoolInit == Init /\ ResetInit
PoolNext ==
    \/ ResetInit /\ Next /\ UNCHANGED resetVars
    \/ Init /\ ResetNext /\ UNCHANGED vars

\* The fairness of TonWallet.
PoolFairness ==
    /\ \A t \in Tasks : WF_PoolVars(stage[t] # "idle" /\ TaskStep(t) /\ UNCHANGED resetVars)
    /\ \A w \in Wallets : WF_PoolVars(LockExpires(w) /\ UNCHANGED resetVars)

PoolSpec == PoolInit /\ [][PoolNext]_PoolVars /\ PoolFairness
=============================================================================

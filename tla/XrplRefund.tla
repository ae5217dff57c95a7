----------------------------- MODULE XrplRefund -----------------------------
(***************************************************************************)
(* Gas refunds on XRPL: the Refund branch of the includer's workers        *)
(* (relayer_base/src/includer_worker.rs), the refund manager that checks,  *)
(* locks and builds (xrpl/src/refund_manager.rs), and broadcast_refund     *)
(* (xrpl/src/broadcaster.rs).                                              *)
(*                                                                         *)
(* The ledger is known by what a node answers: open transactions are the   *)
(* ones it applied or queued and that no validated ledger has; an account  *)
(* pays each sequence number once.  The includer's queue is seen as the    *)
(* copies of a refund task on the broker (module Queue has the rest).      *)
(***************************************************************************)
EXTENDS Integers

CONSTANTS
    Refunds,      \* refund tasks
    TokenRefunds, \* those with a token_id
    SmallRefunds, \* those whose amount does not cover the fee
    Workers,      \* concurrent deliveries
    Wallets,      \* refund_manager_addresses
    None,         \* no refund, no wallet
    MaxSeq        \* bound on a wallet's sequence numbers

ASSUME RefundAssumption ==
    /\ TokenRefunds \subseteq Refunds
    /\ SmallRefunds \subseteq Refunds
    /\ None \notin Refunds \cup Wallets
    /\ MaxSeq \in Nat

Payable == Refunds \ (TokenRefunds \cup SmallRefunds)

Tx == [refund : Refunds, wallet : Wallets, seq : Nat]

VARIABLES
    queue,    \* [Refunds -> Nat] copies of the task on the broker
    stage,    \* where each worker stands
    refund,   \* the task it works on
    wallet,   \* the wallet it has locked
    seq,      \* the sequence number its transaction is built with
    lock,     \* Redis: does the key includer_<address> exist?
    open,     \* submitted transactions, not validated
    ledger,   \* validated transactions
    dropped,  \* history: refunds of which the network gave up a payment
    overlooked, \* history: refunds that passed the check with a payment open
    overrun     \* history: wallets whose lock expired under a worker

workerVars == <<stage, refund, wallet, seq>>
chainVars == <<open, ledger, dropped>>
history == <<overlooked, overrun>>
vars == <<queue, workerVars, lock, chainVars, history>>

TypeOK ==
    /\ queue \in [Refunds -> Nat]
    /\ stage \in [Workers -> {"idle", "check", "lock", "build", "submit",
                              "post", "release_ok", "release_err"}]
    /\ refund \in [Workers -> Refunds \cup {None}]
    /\ wallet \in [Workers -> Wallets \cup {None}]
    /\ seq \in [Workers -> Nat]
    /\ lock \in [Wallets -> BOOLEAN]
    /\ open \in SUBSET Tx
    /\ ledger \in SUBSET Tx
    /\ dropped \in SUBSET Refunds
    /\ overlooked \in SUBSET Refunds
    /\ overrun \in SUBSET Wallets

Init ==
    /\ queue = [r \in Refunds |-> 1]
    /\ stage = [w \in Workers |-> "idle"]
    /\ refund = [w \in Workers |-> None]
    /\ wallet = [w \in Workers |-> None]
    /\ seq = [w \in Workers |-> 0]
    /\ lock = [x \in Wallets |-> FALSE]
    /\ open = {}
    /\ ledger = {}
    /\ dropped = {}
    /\ overlooked = {}
    /\ overrun = {}
-----------------------------------------------------------------------------
Goto(w, s) == stage' = [stage EXCEPT ![w] = s]

\* consume() is over, and the delivery with it.
Leave(w) ==
    /\ Goto(w, "idle")
    /\ refund' = [refund EXCEPT ![w] = None]
    /\ wallet' = [wallet EXCEPT ![w] = None]
    /\ seq' = [seq EXCEPT ![w] = 0]

\* consume() returned Ok: the delivery is acked.
Ack(w) ==
    /\ Leave(w)
    /\ UNCHANGED queue

\* consume() returned Err, or the process died: the task comes back.
Requeue(w) ==
    /\ Leave(w)
    /\ queue' = [queue EXCEPT ![refund[w]] = @ + 1]

\* The broker delivers again as soon as the channel of a failed or dead
\* consumer lets the task go.
Deliver(w, r) ==
    /\ stage[w] = "idle"
    /\ queue[r] > 0
    /\ queue' = [queue EXCEPT ![r] = @ - 1]
    /\ refund' = [refund EXCEPT ![w] = r]
    /\ Goto(w, "check")
    /\ UNCHANGED <<wallet, seq, lock, chainVars, history>>

\* Mutant: a refund_id that never matches its memo.
IsRefundProcessedNever(r) == FALSE

\* is_refund_processed: account_tx has validated transactions only.
IsRefundProcessed(r) == \E t \in ledger : t.refund = r

Check(w) ==
    /\ stage[w] = "check"
    /\ \/ /\ IsRefundProcessed(refund[w])
          /\ Ack(w)
          /\ UNCHANGED overlooked
       \/ /\ ~IsRefundProcessed(refund[w])
          /\ refund[w] \in TokenRefunds
          /\ Requeue(w)
          /\ UNCHANGED overlooked
       \/ /\ ~IsRefundProcessed(refund[w])
          /\ refund[w] \notin TokenRefunds
          /\ Goto(w, "lock")
          /\ overlooked' = overlooked \cup {t.refund : t \in {u \in open : u.refund = refund[w]}}
          /\ UNCHANGED <<queue, refund, wallet, seq>>
    /\ UNCHANGED <<lock, chainVars, overrun>>

\* Mutant: SET without NX.
GetWalletLockUnchecked(w, x) ==
    /\ stage[w] = "lock"
    /\ lock' = [lock EXCEPT ![x] = TRUE]
    /\ wallet' = [wallet EXCEPT ![w] = x]
    /\ Goto(w, "build")
    /\ UNCHANGED <<queue, refund, seq, chainVars, history>>

\* SET NX EX 60 answers OK for one of the wallets.
GetWalletLock(w, x) ==
    /\ stage[w] = "lock"
    /\ ~lock[x]
    /\ lock' = [lock EXCEPT ![x] = TRUE]
    /\ wallet' = [wallet EXCEPT ![w] = x]
    /\ Goto(w, "build")
    /\ UNCHANGED <<queue, refund, seq, chainVars, history>>

\* "No available wallet in pool", or an error of Redis, whose answer may have
\* been lost after it set a key.
NoWalletLock(w) ==
    /\ stage[w] = "lock"
    /\ \/ UNCHANGED lock
       \/ \E x \in Wallets : lock' = [lock EXCEPT ![x] = TRUE]
    /\ Requeue(w)
    /\ UNCHANGED <<chainVars, history>>

\* The account's next sequence number in the node's current ledger.
Used(x) == {t.seq : t \in {u \in open \cup ledger : u.wallet = x}}
IsCurrentSeq(x, n) == n \notin Used(x) /\ \A k \in 1..(n - 1) : k \in Used(x)

\* Mutant: the wallet is free for others while the transaction is signed.
BuildUnlocks(w, n) ==
    /\ stage[w] = "build"
    /\ refund[w] \notin SmallRefunds
    /\ IsCurrentSeq(wallet[w], n)
    /\ seq' = [seq EXCEPT ![w] = n]
    /\ lock' = [lock EXCEPT ![wallet[w]] = FALSE]
    /\ Goto(w, "submit")
    /\ UNCHANGED <<queue, refund, wallet, chainVars, history>>

\* build_and_sign_tx: prepare_transaction fills in the sequence and the fee.
Build(w, n) ==
    /\ stage[w] = "build"
    /\ refund[w] \notin SmallRefunds
    /\ IsCurrentSeq(wallet[w], n)
    /\ seq' = [seq EXCEPT ![w] = n]
    /\ Goto(w, "submit")
    /\ UNCHANGED <<queue, refund, wallet, lock, chainVars, history>>

\* "refund amount is not enough to cover tx fees".
BuildNothing(w) ==
    /\ stage[w] = "build"
    /\ refund[w] \in SmallRefunds
    /\ Goto(w, "release_ok")
    /\ UNCHANGED <<queue, refund, wallet, seq, lock, chainVars, history>>

\* An error of the node while checking or building; an error while building
\* leaves the wallet locked.
CheckOrBuildFails(w) ==
    /\ stage[w] \in {"check", "build"}
    /\ Requeue(w)
    /\ UNCHANGED <<lock, chainVars, history>>

BuiltTx(w) == [refund |-> refund[w], wallet |-> wallet[w], seq |-> seq[w]]

\* tesSUCCESS, or terQUEUED: the node has taken the transaction.  (A queued one
\* is also stored for the monitor, which watches it and submits nothing.)
SubmitOk(w) ==
    /\ stage[w] = "submit"
    /\ IsCurrentSeq(wallet[w], seq[w])
    /\ open' = open \cup {BuiltTx(w)}
    /\ Goto(w, "post")
    /\ UNCHANGED <<queue, refund, wallet, seq, lock, ledger, dropped, history>>

\* Mutant: the result of a refused transaction is not looked at.
SubmitErrIgnored(w) ==
    /\ stage[w] = "submit"
    /\ UNCHANGED open
    /\ Goto(w, "post")
    /\ UNCHANGED <<queue, refund, wallet, seq, lock, ledger, dropped, history>>

\* Any other result, or no answer: then the node may have taken it all the
\* same (call() submits again, and is told that the sequence is past).
SubmitErr(w) ==
    /\ stage[w] = "submit"
    /\ \/ UNCHANGED open
       \/ /\ IsCurrentSeq(wallet[w], seq[w])
          /\ open' = open \cup {BuiltTx(w)}
    /\ Goto(w, "release_err")
    /\ UNCHANGED <<queue, refund, wallet, seq, lock, ledger, dropped, history>>

\* The GAS_REFUNDED event; a failure is only logged.
PostEvents(w) ==
    /\ stage[w] = "post"
    /\ Goto(w, "release_ok")
    /\ UNCHANGED <<queue, refund, wallet, seq, lock, chainVars, history>>

\* release_wallet_lock: DEL.  An error of Redis (before or after it deleted
\* the key) makes the whole delivery fail, paid or not.
ReleaseWalletLock(w) ==
    /\ stage[w] \in {"release_ok", "release_err"}
    /\ \/ /\ lock' = [lock EXCEPT ![wallet[w]] = FALSE]
          /\ stage[w] = "release_ok"
          /\ Ack(w)
       \/ /\ \/ lock' = [lock EXCEPT ![wallet[w]] = FALSE]
             \/ UNCHANGED lock
          /\ Requeue(w)
    /\ UNCHANGED <<chainVars, history>>

\* The process of w dies; a request on its way may still reach the node.
Crash(w) ==
    /\ stage[w] # "idle"
    /\ \/ UNCHANGED open
       \/ /\ stage[w] = "submit"
          /\ IsCurrentSeq(wallet[w], seq[w])
          /\ open' = open \cup {BuiltTx(w)}
    /\ Requeue(w)
    /\ UNCHANGED <<lock, ledger, dropped, history>>
-----------------------------------------------------------------------------
(* Redis and the ledger.                                                   *)

Using(w, x) ==
    stage[w] \in {"build", "submit", "post", "release_ok", "release_err"} /\ wallet[w] = x

\* EX 60: the key expires, whether or not its worker is done (posting the
\* event alone may take four tries of 30 seconds).
LockExpires(x) ==
    /\ lock[x]
    /\ lock' = [lock EXCEPT ![x] = FALSE]
    /\ overrun' = IF \E w \in Workers : Using(w, x) THEN overrun \cup {x} ELSE overrun
    /\ UNCHANGED <<queue, workerVars, chainVars, overlooked>>

Validate(t) ==
    /\ t \in open
    /\ \A k \in 1..(t.seq - 1) :
          \E u \in ledger : u.wallet = t.wallet /\ u.seq = k
    /\ open' = open \ {t}
    /\ ledger' = ledger \cup {t}
    /\ UNCHANGED <<queue, workerVars, lock, dropped, history>>

\* A provisional result is not final: the network may give t up.
Drop(t) ==
    /\ t \in open
    /\ open' = open \ {t}
    /\ dropped' = dropped \cup {t.refund}
    /\ UNCHANGED <<queue, workerVars, lock, ledger, history>>
-----------------------------------------------------------------------------
WorkerStep(w) ==
    \/ \E r \in Refunds : Deliver(w, r)
    \/ Check(w)
    \/ \E x \in Wallets : GetWalletLock(w, x)
    \/ NoWalletLock(w)
    \/ \E n \in 1..MaxSeq : Build(w, n)
    \/ BuildNothing(w)
    \/ CheckOrBuildFails(w)
    \/ SubmitOk(w)
    \/ SubmitErr(w)
    \/ PostEvents(w)
    \/ ReleaseWalletLock(w)

Next ==
    \/ \E w \in Workers : WorkerStep(w) \/ Crash(w)
    \/ \E x \in Wallets : LockExpires(x)
    \/ \E t \in open : Validate(t) \/ Drop(t)

Spec == Init /\ [][Next]_vars
-----------------------------------------------------------------------------
PaymentsOf(r) == {t \in open \cup ledger : t.refund = r}

\* "Refund already processed": a refund is paid once, whatever fails between
\* the check, the payment, the release of the lock and the ack, and whoever
\* shares its wallet, unless a delivery of it was checked while an earlier
\* payment was submitted and not yet validated, which the check cannot see.
PaidOnce == \A r \in Refunds \ overlooked : \A t, u \in PaymentsOf(r) : t = u

\* A refund that can be paid is on the queue, in the hands of a worker, or
\* paid, unless the network gave up a payment of it after the node had taken
\* it (consume acks on a provisional result).
RefundKept ==
    \A r \in Payable :
        \/ queue[r] > 0
        \/ \E w \in Workers : refund[w] = r
        \/ PaymentsOf(r) # {}
        \/ r \in dropped

\* The lock is held from prepare_transaction to the submission, so nobody
\* else can have used the sequence number of a transaction about to be
\* submitted, unless the lock on the wallet has expired under a worker.
SequenceIsFree ==
    \A w \in Workers :
        stage[w] = "submit" /\ wallet[w] \notin overrun => seq[w] \notin Used(wallet[w])
-----------------------------------------------------------------------------
(* The inductive invariant.                                                *)

\* A task is on the broker or with one worker, never twice.
OneCopy ==
    /\ \A w \in Workers : refund[w] = None <=> stage[w] = "idle"
    /\ \A r \in Refunds : queue[r] \in {0, 1}
    /\ \A w \in Workers : \A r \in Refunds : refund[w] = r => queue[r] = 0
    /\ \A w, v \in Workers : refund[w] = refund[v] /\ refund[w] # None => w = v

\* A wallet is in use by one worker at a time, and then it is locked, as long
\* as no lock on it expired in use.
LockedInUse ==
    /\ \A w \in Workers :
          stage[w] \in {"build", "submit", "post", "release_ok", "release_err"}
              => wallet[w] \in Wallets
    /\ \A w \in Workers : \A x \in Wallets \ overrun : Using(w, x) => lock[x]
    /\ \A w, v \in Workers : \A x \in Wallets \ overrun :
          Using(w, x) /\ Using(v, x) => w = v

\* A task that passed the check has no payment but one the check overlooked.
Unpaid ==
    \A w \in Workers :
        stage[w] \in {"lock", "build", "submit"} /\ refund[w] \notin overlooked
            => PaymentsOf(refund[w]) = {}

\* A worker acks what is paid, what the network gave up, or what was not to
\* be paid.
AckIsDeserved ==
    \A w \in Workers :
        stage[w] \in {"post", "release_ok"} =>
            \/ refund[w] \notin Payable
            \/ PaymentsOf(refund[w]) # {}
            \/ refund[w] \in dropped

RefundInv ==
    /\ TypeOK
    /\ OneCopy
    /\ LockedInUse
    /\ Unpaid
    /\ AckIsDeserved
    /\ PaidOnce
    /\ RefundKept
    /\ SequenceIsFree
=============================================================================

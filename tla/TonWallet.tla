----------------------------- MODULE TonWallet -----------------------------
(***************************************************************************)
(* The TON broadcaster's pool of high-load wallets: concurrent includer    *)
(* tasks lock a wallet in Redis (ton/src/wallet_manager.rs,                *)
(* lock_manager.rs), take the wallet's next query id from Postgres         *)
(* (high_load_query_id_db_wrapper.rs, models/ton_wallet_query_id.rs), post *)
(* a message signed with that id and unlock the wallet (broadcaster.rs).   *)
(*                                                                         *)
(* A task is one call of broadcast_prover_message,                         *)
(* broadcast_execute_message or broadcast_refund_message; calls that       *)
(* return before they acquire a wallet touch nothing modelled here.        *)
(***************************************************************************)
EXTENDS HighLoadQueryId, FiniteSets

CONSTANTS
    Tasks,       \* includer tasks, of one process or of several
    Wallets,     \* the configured wallets
    NoWallet

ASSUME WalletAssumption == NoWallet \notin Wallets

\* get_query_id's answer when the wallet has no row that is still valid.
Expired == [shift |-> -1, bitnumber |-> -1]

VARIABLES
    stage,    \* where each task stands
    tried,    \* wallets acquire() found locked so far in this call
    wallet,   \* the wallet acquire() returned
    got,      \* what get_query_id returned
    id,       \* the id wrapper.next() returned
    lock,     \* Redis: does the key wallet_lock_<address> exist?
    row,      \* Postgres: the stored id of each wallet
    valid,    \* Postgres: the row exists and expires_at >= CURRENT_TIMESTAMP
    sent,     \* history: query ids posted since the row was last reset
    overrun   \* history: wallets whose lock expired under a task

taskVars == <<stage, tried, wallet, got, id>>
vars == <<taskVars, lock, row, valid, sent, overrun>>

TypeOK ==
    /\ stage \in [Tasks -> {"idle", "acquire", "read", "write", "post", "release"}]
    /\ tried \in [Tasks -> SUBSET Wallets]
    /\ wallet \in [Tasks -> Wallets \cup {NoWallet}]
    /\ got \in [Tasks -> QueryId \cup {Expired}]
    /\ id \in [Tasks -> QueryId]
    /\ lock \in [Wallets -> BOOLEAN]
    /\ row \in [Wallets -> QueryId]
    /\ valid \in [Wallets -> BOOLEAN]
    /\ sent \in [Wallets -> SUBSET Nat]
    /\ overrun \subseteq Wallets

\* t is between acquire() and release(), on wallet w.
Using(t, w) == stage[t] \in {"read", "write", "post", "release"} /\ wallet[t] = w

Goto(t, s) == stage' = [stage EXCEPT ![t] = s]

\* The call is over: its locals are gone.
Return(t) ==
    /\ Goto(t, "idle")
    /\ tried' = [tried EXCEPT ![t] = {}]
    /\ wallet' = [wallet EXCEPT ![t] = NoWallet]
    /\ got' = [got EXCEPT ![t] = Expired]
    /\ id' = [id EXCEPT ![t] = FirstId]

Init ==
    /\ stage = [t \in Tasks |-> "idle"]
    /\ tried = [t \in Tasks |-> {}]
    /\ wallet = [t \in Tasks |-> NoWallet]
    /\ got = [t \in Tasks |-> Expired]
    /\ id = [t \in Tasks |-> FirstId]
    /\ lock = [w \in Wallets |-> FALSE]
    /\ row = [w \in Wallets |-> FirstId]
    /\ valid = [w \in Wallets |-> FALSE]
    /\ sent = [w \in Wallets |-> {}]
    /\ overrun = {}
-----------------------------------------------------------------------------
(* WalletManager::acquire and RedisLockManager::lock.                      *)

Start(t) ==
    /\ stage[t] = "idle"
    /\ Goto(t, "acquire")
    /\ UNCHANGED <<tried, wallet, got, id, lock, row, valid, sent, overrun>>

\* Mutant: SET without NX.
LockAlways(t, w) ==
    /\ stage[t] = "acquire" /\ w \notin tried[t]
    /\ lock' = [lock EXCEPT ![w] = TRUE]
    /\ wallet' = [wallet EXCEPT ![t] = w]
    /\ Goto(t, "read")
    /\ UNCHANGED <<tried, got, id, row, valid, sent, overrun>>

\* SET NX EX 60 answers OK.
Lock(t, w) ==
    /\ stage[t] = "acquire" /\ w \notin tried[t]
    /\ ~lock[w]
    /\ lock' = [lock EXCEPT ![w] = TRUE]
    /\ wallet' = [wallet EXCEPT ![t] = w]
    /\ Goto(t, "read")
    /\ UNCHANGED <<tried, got, id, row, valid, sent, overrun>>

\* lock() is false: the key exists, or Redis failed; when only its answer was
\* lost the key may have been set, for nobody.
LockRefused(t, w) ==
    /\ stage[t] = "acquire" /\ w \notin tried[t]
    /\ tried' = [tried EXCEPT ![t] = @ \cup {w}]
    /\ \/ UNCHANGED lock
       \/ lock' = [lock EXCEPT ![w] = TRUE]
    /\ UNCHANGED <<stage, wallet, got, id, row, valid, sent, overrun>>

NoAvailableWallet(t) ==
    /\ stage[t] = "acquire" /\ tried[t] = Wallets
    /\ Return(t)
    /\ UNCHANGED <<lock, row, valid, sent, overrun>>
-----------------------------------------------------------------------------
(* HighLoadQueryIdDbWrapper::next, two statements that share no            *)
(* transaction, then TONBroadcaster::send_to_chain.                        *)

GetQueryId(t) ==
    /\ stage[t] = "read"
    /\ got' = [got EXCEPT ![t] = IF valid[wallet[t]] THEN row[wallet[t]] ELSE Expired]
    /\ Goto(t, "write")
    /\ UNCHANGED <<tried, wallet, id, lock, row, valid, sent, overrun>>

Absent(q) == q.shift < 0 \/ q.bitnumber < 0

\* The id to hand out after q was read.
Successor(q) == IF Absent(q) THEN FirstId ELSE NextId(q)
CanSucceed(q) == Absent(q) \/ (HasNext(q) /\ NextError(q) = "ok")

\* upsert_query_id: the row restarts with a new expiry.
UpsertQueryId(w, q) ==
    /\ row' = [row EXCEPT ![w] = q]
    /\ valid' = [valid EXCEPT ![w] = TRUE]
    /\ sent' = [sent EXCEPT ![w] = {}]

\* update_query_id has no condition on expires_at and leaves it alone.
UpdateQueryId(w, q) ==
    /\ row' = [row EXCEPT ![w] = q]
    /\ UNCHANGED <<valid, sent>>

\* Mutant: a failing update is ignored and the id is used all the same.
StoreQueryIdUnchecked(t) ==
    LET q == Successor(got[t])
    IN  /\ stage[t] = "write"
        /\ CanSucceed(got[t])
        /\ \/ IF QueryIdOf(q) = 0 THEN UpsertQueryId(wallet[t], q)
                                  ELSE UpdateQueryId(wallet[t], q)
           \/ UNCHANGED <<row, valid, sent>>
        /\ id' = [id EXCEPT ![t] = q]
        /\ Goto(t, "post")
        /\ UNCHANGED <<tried, wallet, got, lock, overrun>>

StoreQueryId(t) ==
    LET q == Successor(got[t])
    IN  /\ stage[t] = "write"
        /\ CanSucceed(got[t])
        /\ IF QueryIdOf(q) = 0 THEN UpsertQueryId(wallet[t], q)
                               ELSE UpdateQueryId(wallet[t], q)
        /\ id' = [id EXCEPT ![t] = q]
        /\ Goto(t, "post")
        /\ UNCHANGED <<tried, wallet, got, lock, overrun>>

\* NoNextQueryId or ConstructionError.
NoNextId(t) ==
    /\ stage[t] = "write"
    /\ ~CanSucceed(got[t])
    /\ Goto(t, "release")
    /\ UNCHANGED <<tried, wallet, got, id, lock, row, valid, sent, overrun>>

\* post_v3_message got the message to the node, whatever it answered.
Post(t) ==
    /\ stage[t] = "post"
    /\ sent' = [sent EXCEPT ![wallet[t]] = @ \cup {QueryIdOf(id[t])}]
    /\ Goto(t, "release")
    /\ UNCHANGED <<tried, wallet, got, id, lock, row, valid, overrun>>

\* An error on the way: building the message or its actions, a database
\* error, a request that never reached the node.  A statement whose answer
\* was lost has still written its row.
SendFails(t) ==
    /\ stage[t] \in {"read", "write", "post"}
    /\ \/ UNCHANGED <<row, valid, sent>>
       \/ /\ stage[t] = "write" /\ CanSucceed(got[t])
          /\ LET q == Successor(got[t])
             IN  IF QueryIdOf(q) = 0 THEN UpsertQueryId(wallet[t], q)
                                     ELSE UpdateQueryId(wallet[t], q)
    /\ Goto(t, "release")
    /\ UNCHANGED <<tried, wallet, got, id, lock, overrun>>

\* WalletManager::release: DEL, whoever set the key; its error is only logged.
Release(t) ==
    /\ stage[t] = "release"
    /\ \/ lock' = [lock EXCEPT ![wallet[t]] = FALSE]
       \/ UNCHANGED lock
    /\ Return(t)
    /\ UNCHANGED <<row, valid, sent, overrun>>
-----------------------------------------------------------------------------
(* What the task does not decide.                                          *)

\* The process of t dies; nothing unlocks the wallet.
Crash(t) ==
    /\ stage[t] # "idle"
    /\ Return(t)
    /\ UNCHANGED <<lock, row, valid, sent, overrun>>


\* The key is set with EX 60.
LockHasExpiry == TRUE

\* EX 60: Redis drops the key, whether or not a task is still broadcasting
\* (the client of the TON API makes up to 5 tries of 30 seconds).
LockExpires(w) ==
    /\ LockHasExpiry
    /\ lock[w]
    /\ lock' = [lock EXCEPT ![w] = FALSE]
    /\ overrun' = IF \E t \in Tasks : Using(t, w) THEN overrun \cup {w} ELSE overrun
    /\ UNCHANGED <<taskVars, row, valid, sent>>

\* expires_at passes, TIMEOUT_BUFFER_MULTIPLIER * timeout after the upsert.
RowExpires(w) ==
    /\ valid[w]
    /\ valid' = [valid EXCEPT ![w] = FALSE]
    /\ UNCHANGED <<taskVars, lock, row, sent, overrun>>
-----------------------------------------------------------------------------
TaskStep(t) ==
    \/ Start(t)
    \/ \E w \in Wallets : Lock(t, w) \/ LockRefused(t, w)
    \/ NoAvailableWallet(t)
    \/ GetQueryId(t)
    \/ StoreQueryId(t)
    \/ NoNextId(t)
    \/ Post(t)
    \/ SendFails(t)
    \/ Release(t)

Next ==
    \/ \E t \in Tasks : TaskStep(t) \/ Crash(t)
    \/ \E w \in Wallets : LockExpires(w) \/ RowExpires(w)

Spec == Init /\ [][Next]_vars

\* A started task is polled to its end, and Redis enforces the TTL.
Fairness ==
    /\ \A t \in Tasks : WF_vars(stage[t] # "idle" /\ TaskStep(t))
    /\ \A w \in Wallets : WF_vars(LockExpires(w))

FairSpec == Spec /\ Fairness
-----------------------------------------------------------------------------
\* wallet_manager.rs promises "safe and exclusive access to wallets": no two
\* tasks are between acquire() and release() on the same wallet.
ExclusiveAccess ==
    \A t, u \in Tasks : \A w \in Wallets :
        Using(t, w) /\ Using(u, w) => t = u

\* What the lock does give: two tasks share a wallet only after its lock has
\* expired under a task.  Failed and lost unlocks, locks set for nobody and
\* dying tasks do not take the wallet from its user.
ExclusiveInTime ==
    \A t, u \in Tasks : \A w \in Wallets \ overrun :
        Using(t, w) /\ Using(u, w) => t = u

\* wrapper.next() never hands out an id that was posted since the row was
\* reset, although it reads and writes in two statements, tasks fail, crash or
\* leave ids unused between them, and the row expires under them, unless a
\* task outlived its lock on the wallet: only the lock joins the statements.
FreshId ==
    \A t \in Tasks :
        stage[t] = "post" /\ wallet[t] \notin overrun => QueryIdOf(id[t]) \notin sent[wallet[t]]

\* The last two ids of the last shift, which next() keeps back
\* (EmergencyOverload), are never posted, even by tasks that overwrite each
\* other's row: a long run ends before them.
EmergencyIdsKept ==
    \A w \in Wallets : \A n \in sent[w] :
        n < QueryIdOf([shift |-> MaxShift, bitnumber |-> MaxBitnumber - 1])

-----------------------------------------------------------------------------
(* The inductive invariant.                                                *)

\* A wallet in use is locked, so no other task can lock it.
UsedIsLocked ==
    \A t \in Tasks : \A w \in Wallets \ overrun : Using(t, w) => lock[w]

UsingHasWallet ==
    \A t \in Tasks : stage[t] \in {"read", "write", "post", "release"} => wallet[t] \in Wallets

\* While t has the wallet its row does not move under it.
RowIsStable ==
    \A t \in Tasks : wallet[t] \notin overrun =>
        /\ stage[t] = "write" => got[t] \in {Expired, row[wallet[t]]}
        /\ stage[t] = "post" => id[t] = row[wallet[t]]

\* The stored id bounds the posted ids, and is itself not posted while a task
\* is about to post it.
RowBoundsSent ==
    \A w \in Wallets \ overrun : \A n \in sent[w] :
        /\ n <= QueryIdOf(row[w])
        /\ (\E t \in Tasks : stage[t] = "post" /\ wallet[t] = w) => n < QueryIdOf(row[w])

\* Ids that are stored, read or about to be posted stay short of the ids that
\* are kept back.
Short(q) == q.shift < MaxShift \/ q.bitnumber < MaxBitnumber - 1
ShortOfEmergency ==
    /\ \A w \in Wallets : Short(row[w])
    /\ \A t \in Tasks : Short(got[t]) /\ Short(id[t])

WalletInv ==
    /\ TypeOK
    /\ UsingHasWallet
    /\ UsedIsLocked
    /\ ExclusiveInTime
    /\ RowIsStable
    /\ RowBoundsSent
    /\ ShortOfEmergency
    /\ EmergencyIdsKept
=============================================================================

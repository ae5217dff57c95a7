--------------------------- MODULE XrplSubscriber ---------------------------
(***************************************************************************)
(* The XRPL subscriber: it polls the validated transactions of the         *)
(* multisig account above a ledger cursor, moves and stores the cursor,    *)
(* and then publishes the transactions one by one to the events queue.     *)
(* The future is dropped at whatever await a signal finds it.              *)
(***************************************************************************)
EXTENDS Integers, Sequences, FiniteSets

CONSTANTS
    Chain,          \* the account's transactions in ledger order: the ledger of each
    PageSize,       \* transactions in a page of account_tx
    MaxUpsets       \* bound: failed polls and stores, stops, and recoveries, together

ASSUME ChainAssumption ==
    /\ Chain \in Seq(Nat \ {0})
    /\ \A i, j \in DOMAIN Chain : i <= j => Chain[i] <= Chain[j]
    /\ PageSize \in Nat \ {0}
    /\ MaxUpsets \in Nat

VARIABLES
    validated,  \* the last validated ledger
    cursor,     \* latest_ledger of the running subscriber
    stored,     \* the height in the database, -1 when there is none
    poll,       \* where the subscriber is: idle, fetching, storing, publishing or down
    batch,      \* the transactions fetched and not yet published
    published,  \* how often each transaction was handed to the queue
    lost,       \* transactions dropped by a stop, at or below the stored cursor
    upsets

subscriberVars == <<validated, cursor, stored, poll, batch, published, lost, upsets>>

Transactions == DOMAIN Chain
Ledgers == {Chain[i] : i \in Transactions}
LastOf(S) == CHOOSE m \in S : \A n \in S : n <= m

\* What account_tx shows above a cursor.
Visible(above) == {i \in Transactions : above < Chain[i] /\ Chain[i] <= validated}

SubscriberInit ==
    /\ validated = 0
    /\ cursor = -1 /\ stored = -1
    /\ poll = "idle" /\ batch = {}
    /\ published = [i \in Transactions |-> 0]
    /\ lost = {}
    /\ upsets = 0

Upset == upsets < MaxUpsets /\ upsets' = upsets + 1

(* The XRP Ledger validates the next ledger that holds a transaction. *)
CloseLedger ==
    /\ \E n \in Ledgers :
        /\ n > validated
        /\ \A k \in Ledgers : k > validated => n <= k
        /\ validated' = n
    /\ UNCHANGED <<cursor, stored, poll, batch, published, lost, upsets>>

(* One page of get_transactions_for_account, from ledger latest_ledger + 1. *)
(* Without a further page the poll is over; an empty answer stores nothing. *)
Page == LET left == Visible(cursor) \ batch
        IN {i \in left : Cardinality({j \in left : j <= i}) <= PageSize}

FetchPage ==
    /\ poll \in {"idle", "fetching"}
    /\ batch' = batch \cup Page
    /\ poll' = IF Visible(cursor) \ batch' # {} THEN "fetching"
               ELSE IF batch' = {} THEN "idle" ELSE "storing"
    /\ UNCHANGED <<validated, cursor, stored, published, lost, upsets>>

(* A page still fails after the client's retries: the whole poll is an error. *)
FetchFails ==
    /\ poll \in {"idle", "fetching"}
    /\ Upset
    /\ batch' = {} /\ poll' = "idle"
    /\ UNCHANGED <<validated, cursor, stored, published, lost>>

\* Mutant: the cursor becomes the ledger that is validated by now.
StoreLatestLedgerNow ==
    /\ poll = "storing"
    /\ cursor' = validated /\ stored' = cursor'
    /\ poll' = "publishing"
    /\ UNCHANGED <<validated, batch, published, lost, upsets>>

(* The end of poll_account: the cursor becomes the greatest ledger of the   *)
(* answer and is stored; a failed store is only logged.                     *)
StoreLatestLedger ==
    /\ poll = "storing"
    /\ cursor' = LastOf({Chain[i] : i \in batch})
    /\ \/ stored' = cursor' /\ UNCHANGED upsets
       \/ Upset /\ UNCHANGED stored
    /\ poll' = "publishing"
    /\ UNCHANGED <<validated, batch, published, lost>>

(* The loop of work: one transaction is handed to the queue. *)
PublishNext(i) ==
    /\ poll = "publishing"
    /\ i \in batch /\ \A j \in batch : i <= j
    /\ published' = [published EXCEPT ![i] = @ + 1]
    /\ batch' = batch \ {i}
    /\ poll' = IF batch' = {} THEN "idle" ELSE "publishing"
    /\ UNCHANGED <<validated, cursor, stored, lost, upsets>>

(* SIGTERM or SIGINT wins the select: the batch in hand is dropped. *)
SubscriberStop ==
    /\ poll # "down" /\ Upset
    /\ lost' = lost \cup {i \in batch : Chain[i] <= stored}
    /\ batch' = {} /\ poll' = "down"
    /\ UNCHANGED <<validated, cursor, stored, published>>

(* XrplSubscriber::new reads the stored height. *)
SubscriberStart ==
    /\ poll = "down"
    /\ poll' = "idle" /\ cursor' = stored
    /\ UNCHANGED <<validated, stored, batch, published, lost, upsets>>

(* recover_txs: the recovery tool fetches one transaction by its hash and   *)
(* publishes it, whatever the subscriber did with it.                       *)
RecoverTx(i) ==
    /\ Upset
    /\ Chain[i] <= validated
    /\ published' = [published EXCEPT ![i] = @ + 1]
    /\ UNCHANGED <<validated, cursor, stored, poll, batch, lost>>

SubscriberNext ==
    \/ CloseLedger \/ FetchPage \/ FetchFails \/ StoreLatestLedger
    \/ SubscriberStop \/ SubscriberStart
    \/ \E i \in Transactions : PublishNext(i) \/ RecoverTx(i)

SubscriberSpec == SubscriberInit /\ [][SubscriberNext]_subscriberVars

(* The types of the cursors, the poll in hand and the publications. *)
SubscriberTypeOK ==
    /\ validated \in Ledgers \cup {0}
    /\ cursor \in Ledgers \cup {-1} /\ stored \in Ledgers \cup {-1}
    /\ poll \in {"idle", "fetching", "storing", "publishing", "down"}
    /\ batch \subseteq Transactions /\ lost \subseteq Transactions
    /\ published \in [Transactions -> Nat]
    /\ upsets \in 0..MaxUpsets

(* A validated transaction is above the cursor and will be polled, or in    *)
(* the batch in hand, or with the queue, or was dropped by a stop that came *)
(* after the cursor had been stored past it: no poll error, late page, new  *)
(* ledger, failed store or restart makes the cursor jump over it otherwise. *)
NoneSkipped ==
    \A i \in Transactions :
        Chain[i] <= validated =>
            \/ cursor < Chain[i]
            \/ poll = "down" /\ stored < Chain[i]
            \/ i \in batch
            \/ published[i] > 0
            \/ i \in lost

\* The transactions in hand, until the cursor moves past them, are validated
\* ones above it; idle and stopped subscribers hold none.
InHandAboveCursor ==
    /\ poll \in {"idle", "down"} => batch = {}
    /\ poll \in {"fetching", "storing"} => batch \subseteq Visible(cursor)

\* The answer that is about to move the cursor has no gap: whatever lies
\* between the cursor and one of its transactions is in it too.
AnswerHasNoGap ==
    poll = "storing" =>
        /\ batch # {}
        /\ \A i \in Transactions, j \in batch :
              cursor < Chain[i] /\ Chain[i] <= Chain[j] => i \in batch

\* The stored height never runs ahead of the cursor, so that a restart moves
\* the subscriber back, and the cursor never ahead of the ledger.
CursorsInOrder == stored <= cursor /\ cursor <= validated

(* What makes NoneSkipped inductive: the answer of a poll is complete up to *)
(* the cursor it sets, and the cursors lag behind the ledger in order.      *)
SubscriberInv ==
    SubscriberTypeOK /\ NoneSkipped /\ InHandAboveCursor /\ AnswerHasNoGap /\ CursorsInOrder
=============================================================================

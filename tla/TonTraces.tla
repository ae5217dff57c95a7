----------------------------- MODULE TonTraces ------------------------------
(***************************************************************************)
(* The TON subscriber process: one subscriber for the gateway account, one *)
(* for the gas service account, and the retry subscriber.  They decide by  *)
(* one table of traces, ton_traces, which of them publishes a trace: the   *)
(* one whose upsert changed the row and saw the trace complete.            *)
(***************************************************************************)
EXTENDS Integers, FiniteSets

CONSTANTS
    Traces,
    Accounts,       \* the accounts that are polled
    TouchedBy,      \* the accounts whose transactions a trace holds
    StartLt, EndLt, \* logical times of a whole trace
    Revisable,      \* complete traces that the API may show again with other transactions
    Limit,          \* traces in an answer of the API, and in a batch to retry: 100 in the code
    Retries,        \* retries of an incomplete trace, 5 in the code
    MaxUpsets       \* bound: database errors and stops of the process, together

Retry == "retry"
Subscribers == Accounts \cup {Retry}

ASSUME TracesAssumption ==
    /\ TouchedBy \in [Traces -> SUBSET Accounts]
    /\ StartLt \in [Traces -> Nat] /\ EndLt \in [Traces -> Nat]
    /\ \A t \in Traces : StartLt[t] <= EndLt[t]
    /\ Limit \in Nat \ {0} /\ Retries \in Nat /\ MaxUpsets \in Nat
    /\ Retry \notin Accounts /\ IsFiniteSet(Traces)

VARIABLES
    net,        \* what the TON API shows of a trace: hidden, or one of its versions
    row,        \* the trace's row in ton_traces: its version and its retries
    pc,         \* idle, storing, upserting, publishing or down
    cursor,     \* latest_lt of each account's subscriber
    stored,     \* latest_lt in the database
    batch,      \* traces fetched, with the version seen, and not yet upserted
    hand,       \* unseen_traces: to be published by this subscriber
    published,  \* how often a trace was handed to the events queue
    lost,       \* traces dropped by an error or a stop after the decision
    rewritten,  \* traces whose complete row was overwritten by another version
    upsets

vars == <<net, row, pc, cursor, stored, batch, hand, published, lost, rewritten, upsets>>

\* What an upsert tells apart: is_incomplete, and the transactions.
Versions == {"partial", "whole", "revised"}
Complete(v) == v \in {"whole", "revised"}
NoRow == [version |-> "none", retries |-> 0]
SeenEnd(t, v) == IF Complete(v) THEN EndLt[t] ELSE StartLt[t]
Latest(S) == CHOOSE m \in S : \A n \in S : n <= m
Upset == upsets < MaxUpsets /\ upsets' = upsets + 1

Init ==
    /\ net = [t \in Traces |-> "hidden"]
    /\ row = [t \in Traces |-> NoRow]
    /\ pc = [s \in Subscribers |-> "idle"]
    /\ cursor = [a \in Accounts |-> -1] /\ stored = [a \in Accounts |-> -1]
    /\ batch = [s \in Subscribers |-> {}] /\ hand = [s \in Subscribers |-> {}]
    /\ published = [t \in Traces |-> 0]
    /\ lost = {} /\ rewritten = {} /\ upsets = 0

(* The TON API shows a trace, completes one that was incomplete, and may    *)
(* change its mind about a complete one.                                    *)
ShowTrace(t) ==
    /\ \/ net[t] = "hidden" /\ \E v \in {"partial", "whole"} : net' = [net EXCEPT ![t] = v]
       \/ net[t] = "whole" /\ t \in Revisable /\ net' = [net EXCEPT ![t] = "revised"]
       \/ net[t] = "partial" /\ net' = [net EXCEPT ![t] = "whole"]
    /\ UNCHANGED <<row, pc, cursor, stored, batch, hand, published, lost, rewritten, upsets>>

\* The traces of an answer: all of them, or as many as the limit allows, and
\* which is not the caller's choice.  (All of them may come even when they are
\* more than the limit, so that few traces meet both cases.)
Limited(S) == {P \in SUBSET S : P # {} /\ (P = S \/ Cardinality(P) = Limit)}

(* get_traces_for_account from start_lt = latest_lt + 1. *)
Above(a) == {t \in Traces : a \in TouchedBy[t] /\ net[t] # "hidden" /\ StartLt[t] >= cursor[a] + 1}

PollAccount(a) ==
    /\ pc[a] = "idle"
    /\ \E page \in Limited(Above(a)) : batch' = [batch EXCEPT ![a] = {<<t, net[t]>> : t \in page}]
    /\ pc' = [pc EXCEPT ![a] = "storing"]
    /\ UNCHANGED <<net, row, cursor, stored, hand, published, lost, rewritten, upsets>>

(* The cursor becomes the greatest end_lt of the page, whatever the page    *)
(* left out; a failed store is only logged.                                 *)
StoreLatestHeight(a) ==
    /\ pc[a] = "storing"
    /\ cursor' = [cursor EXCEPT ![a] = Latest({SeenEnd(e[1], e[2]) : e \in batch[a]})]
    /\ \/ stored' = [stored EXCEPT ![a] = cursor'[a]] /\ UNCHANGED upsets
       \/ Upset /\ UNCHANGED stored
    /\ pc' = [pc EXCEPT ![a] = "upserting"]
    /\ UNCHANGED <<net, row, batch, hand, published, lost, rewritten>>

(* upsert_and_return_if_changed: the row as it becomes, and whether the     *)
(* statement returned one.  The retries of an existing row are kept.        *)
Upserted(t, v) == IF row[t] = NoRow THEN [version |-> v, retries |-> Retries]
                  ELSE [row[t] EXCEPT !.version = v]
\* Mutant: only a new row counts as a change.
ChangedNew(t, v) == row[t] = NoRow

\* Mutant: every upsert counts as a change.
ChangedAlways(t, v) == TRUE

Changed(t, v) == row[t].version # v

\* One trace of the page, in the loop of poll_account.
Take(s, e, new) ==
    /\ batch' = [batch EXCEPT ![s] = @ \ {e}]
    /\ hand' = [hand EXCEPT ![s] = @ \cup new]
    /\ pc' = [pc EXCEPT ![s] = IF batch'[s] # {} THEN "upserting"
                               ELSE IF hand'[s] # {} THEN "publishing" ELSE "idle"]

UpsertTrace(s, e) ==
    LET t == e[1]  v == e[2] IN
    /\ pc[s] = "upserting" /\ e \in batch[s]
    /\ s = Retry => Complete(v)
    /\ row' = [row EXCEPT ![t] = Upserted(t, v)]
    /\ Take(s, e, IF Changed(t, v) /\ Complete(v) THEN {t} ELSE {})
    /\ rewritten' = IF Complete(row[t].version) /\ row[t].version # v
                    THEN rewritten \cup {t} ELSE rewritten
    /\ UNCHANGED <<net, cursor, stored, published, lost, upsets>>

\* Mutant: the last retry is not used.
RetriableButLast == {t \in Traces : row[t].version = "partial" /\ row[t].retries > 1}

(* fetch_retry, and the traces it names as the API shows them. *)
Retriable == {t \in Traces : row[t].version = "partial" /\ row[t].retries > 0}

FetchRetry ==
    /\ pc[Retry] = "idle"
    /\ \E some \in Limited(Retriable) : batch' = [batch EXCEPT ![Retry] = {<<t, net[t]>> : t \in some}]
    /\ pc' = [pc EXCEPT ![Retry] = "upserting"]
    /\ UNCHANGED <<net, row, cursor, stored, hand, published, lost, rewritten, upsets>>

(* A trace that is still incomplete costs one retry. *)
DecreaseRetry(e) ==
    /\ pc[Retry] = "upserting" /\ e \in batch[Retry] /\ e[2] = "partial"
    /\ row' = [row EXCEPT ![e[1]].retries = @ - 1]
    /\ Take(Retry, e, {})
    /\ UNCHANGED <<net, cursor, stored, published, lost, rewritten, upsets>>

\* What is dropped with a subscriber's unfinished poll: what it was to publish,
\* and what lies at or below the cursor it will poll from and has no row.
Dropped(s, next) ==
    hand[s] \cup {t \in {e[1] : e \in batch[s]} :
                      s # Retry /\ row[t] = NoRow /\ StartLt[t] <= next}

(* A database error in the loop ends the poll with an error. *)
UpsertFails(s) ==
    /\ pc[s] = "upserting" /\ Upset
    /\ lost' = lost \cup Dropped(s, IF s = Retry THEN -1 ELSE cursor[s])
    /\ batch' = [batch EXCEPT ![s] = {}] /\ hand' = [hand EXCEPT ![s] = {}]
    /\ pc' = [pc EXCEPT ![s] = "idle"]
    /\ UNCHANGED <<net, row, cursor, stored, published, rewritten>>

(* Subscriber::work publishes the traces that poll_account returned. *)
PublishTrace(s, t) ==
    /\ pc[s] = "publishing" /\ t \in hand[s]
    /\ published' = [published EXCEPT ![t] = @ + 1]
    /\ hand' = [hand EXCEPT ![s] = @ \ {t}]
    /\ pc' = [pc EXCEPT ![s] = IF hand'[s] = {} THEN "idle" ELSE "publishing"]
    /\ UNCHANGED <<net, row, cursor, stored, batch, lost, rewritten, upsets>>

(* A signal aborts the three tasks wherever they are. *)
Stop ==
    /\ \E s \in Subscribers : pc[s] # "down"
    /\ Upset
    /\ lost' = lost \cup UNION {Dropped(s, IF s = Retry THEN -1 ELSE stored[s]) : s \in Subscribers}
    /\ pc' = [s \in Subscribers |-> "down"]
    /\ batch' = [s \in Subscribers |-> {}] /\ hand' = [s \in Subscribers |-> {}]
    /\ UNCHANGED <<net, row, cursor, stored, published, rewritten>>

(* TONSubscriber::new, for each account, reads the stored height. *)
Start ==
    /\ \A s \in Subscribers : pc[s] = "down"
    /\ pc' = [s \in Subscribers |-> "idle"]
    /\ cursor' = stored
    /\ UNCHANGED <<net, row, stored, batch, hand, published, lost, rewritten, upsets>>

Progress(s) ==
    \/ s \in Accounts /\ (PollAccount(s) \/ StoreLatestHeight(s))
    \/ s = Retry /\ (FetchRetry \/ \E e \in batch[s] : DecreaseRetry(e))
    \/ \E e \in batch[s] : UpsertTrace(s, e)
    \/ \E t \in hand[s] : PublishTrace(s, t)

Next ==
    \/ \E t \in Traces : ShowTrace(t)
    \/ \E s \in Subscribers : Progress(s) \/ UpsertFails(s)
    \/ Stop \/ Start

(* The three loops go on, and the deployment restarts the process; the      *)
(* network need not complete a trace in time.                               *)
Spec == /\ Init /\ [][Next]_vars
        /\ \A s \in Subscribers : WF_vars(Progress(s))
        /\ WF_vars(Start)

(* The types of the trace table, of the cursors and of what is in hand. *)
TypeOK ==
    /\ net \in [Traces -> Versions \cup {"hidden"}]
    /\ row \in [Traces -> [version : Versions \cup {"none"}, retries : 0..Retries]]
    /\ pc \in [Subscribers -> {"idle", "storing", "upserting", "publishing", "down"}]
    /\ cursor \in [Accounts -> Int] /\ stored \in [Accounts -> Int]
    /\ batch \in [Subscribers -> SUBSET (Traces \X Versions)]
    /\ hand \in [Subscribers -> SUBSET Traces]
    /\ published \in [Traces -> Nat]
    /\ lost \subseteq Traces /\ rewritten \subseteq Traces
    /\ upsets \in 0..MaxUpsets

InBatch(t) == \E s \in Subscribers : \E e \in batch[s] : e[1] = t

\* Another trace of the account, seen before, ends at or after the start of t.
Overtaken(t, a) ==
    \E u \in Traces \ {t} : /\ a \in TouchedBy[u] /\ StartLt[t] <= EndLt[u]
                            /\ row[u] # NoRow \/ InBatch(u) \/ u \in lost

(* A trace the API shows and no subscriber has recorded is still above the  *)
(* account's cursor, or in a page in hand, or was dropped with a page, or   *)
(* another trace of the account that ends at or after its start was seen    *)
(* first: the two overlap, or a page that reached its limit left t out.     *)
NoTraceSkipped ==
    \A t \in Traces : \A a \in TouchedBy[t] :
        net[t] # "hidden" /\ row[t] = NoRow =>
            \/ cursor[a] < StartLt[t]
            \/ pc[a] = "down" /\ stored[a] < StartLt[t]
            \/ InBatch(t) \/ t \in lost \/ Overtaken(t, a)

(* A row that says the trace is complete stands for a published trace, or   *)
(* for one that its only publisher still holds or has dropped: the one      *)
(* whose upsert changed the row is the only one to publish.                 *)
WholeRowHasPublisher ==
    \A t \in Traces :
        Complete(row[t].version) =>
            published[t] > 0 \/ t \in lost \/ \E s \in Subscribers : t \in hand[s]

(* Three subscribers and restarts publish a trace once, unless its complete *)
(* row was rewritten: by a late upsert of the incomplete version, or by one *)
(* with other transactions, which counts as a change and is published too.  *)
PublishedOnce ==
    \A t \in Traces \ rewritten :
        published[t] + Cardinality({s \in Subscribers : t \in hand[s]}) <= 1

(* A trace that is complete is published in the end, unless it was dropped, *)
(* skipped behind another trace that was seen first, or incomplete for all  *)
(* its retries.                                                             *)
CompleteIsPublished ==
    \A t \in Traces :
        Complete(net[t]) /\ TouchedBy[t] # {} ~>
            \/ published[t] > 0 \/ t \in lost
            \/ row[t] = NoRow /\ \E a \in TouchedBy[t] : Overtaken(t, a)
            \/ row[t].version = "partial" /\ row[t].retries = 0

-----------------------------------------------------------------------------
\* What makes the properties above inductive.

\* The retry subscriber holds each trace once, and the trace has a retry left.
RetriesInHand ==
    /\ \A e \in batch[Retry] : row[e[1]].version # "none" /\ row[e[1]].retries > 0
    /\ \A e, f \in batch[Retry] : e[1] = f[1] => e = f

\* What is recorded or in hand was shown by the API.
ShownFirst ==
    /\ \A t \in Traces : row[t] = NoRow \/ (row[t].version # "none" /\ net[t] # "hidden")
    /\ \A s \in Subscribers : \A e \in batch[s] : net[e[1]] # "hidden"

\* A page holds traces of its account, above the cursor until that has moved.
PageOfAccount ==
    \A a \in Accounts :
        /\ pc[a] \in {"idle", "publishing", "down"} => batch[a] = {}
        /\ pc[a] = "storing" => batch[a] # {}
        /\ pc[a] # "down" => stored[a] <= cursor[a]
        /\ \A e \in batch[a] :
              /\ a \in TouchedBy[e[1]]
              /\ pc[a] = "storing" => cursor[a] < StartLt[e[1]]
              /\ pc[a] = "upserting" => StartLt[e[1]] <= cursor[a]

\* Why a trace that starts at or below x may be behind the account's cursor x:
\* it, or a trace of the account that ends at or after its start, is recorded,
\* was dropped, or is in the account's page and will be dropped with it.
Covered(t, a, x) ==
    StartLt[t] <= x =>
        \E u \in Traces :
            /\ a \in TouchedBy[u] /\ StartLt[t] <= EndLt[u]
            /\ \/ row[u].version # "none" \/ u \in lost
               \/ StartLt[u] <= x /\ \E e \in batch[a] : e[1] = u

CursorCovers ==
    \A a \in Accounts, t \in Traces :
        Covered(t, a, stored[a]) /\ (pc[a] # "down" => Covered(t, a, cursor[a]))

\* An upsert finds a row that is not complete only if nobody was ever told to publish.
OnePublisher ==
    \A t \in Traces \ rewritten :
        /\ published[t] <= 1
        /\ ~ Complete(row[t].version) \/ published[t] = 1 => \A s \in Subscribers : t \notin hand[s]
        /\ ~ Complete(row[t].version) => published[t] = 0
        /\ \A s, r \in Subscribers : t \in hand[s] /\ t \in hand[r] => s = r

(* No trace falls between two subscribers: one that is not recorded is      *)
(* still to be fetched, and one recorded as complete has a publisher.       *)
TracesInv ==
    /\ TypeOK /\ NoTraceSkipped /\ WholeRowHasPublisher
    /\ RetriesInHand /\ ShownFirst /\ PageOfAccount /\ CursorCovers /\ OnePublisher
=============================================================================

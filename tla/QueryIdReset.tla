---------------------------- MODULE QueryIdReset ----------------------------
(***************************************************************************)
(* When a high-load wallet's query ids start again from the first one: the *)
(* expiry that HighLoadQueryIdDbWrapper::next gives the stored row, in     *)
(* time, against the replay protection of the wallet contract.  The        *)
(* contract is not part of the repository; its clean-up is the one that    *)
(* ton/src/high_load_query_id_db_wrapper.rs quotes.                        *)
(*                                                                         *)
(* One wallet, locked by one task at a time (module TonWallet).  Time is   *)
(* counted in seconds that stand for any unit smaller than the timeout.    *)
(***************************************************************************)
EXTENDS HighLoadQueryId

CONSTANTS
    Timeout,    \* the wallet's timeout, the same in the contract
    MaxDelay,   \* bound on the time from the database write to the contract
    MaxTime     \* bound on the clock

ASSUME ResetAssumption == Timeout \in Nat \ {0} /\ MaxDelay \in Nat /\ MaxTime \in Nat

VARIABLES
    now,
    stored,       \* the stored id
    started,      \* when the row was upserted; -1 before the first time
    expires,      \* its expires_at
    pending,      \* posted messages the contract has not seen: [id, at, row]
    queries,      \* contract: ids used since the last clean-up
    oldQueries,   \* contract: ids used in the period before
    lastClean,    \* contract: last_clean_time
    lastUse       \* history: the row and the time of each id's last accepted message

resetVars == <<now, stored, started, expires, pending, queries, oldQueries, lastClean, lastUse>>

ResetTypeOK ==
    /\ now \in 0..MaxTime
    /\ stored \in QueryId
    /\ started \in -1..now
    /\ expires \in -1..(MaxTime + 3 * Timeout)
    /\ pending \subseteq [id : QueryId, at : 0..now, row : 0..now]
    /\ queries \subseteq QueryId
    /\ oldQueries \subseteq QueryId
    /\ lastClean \in 0..now
    /\ lastUse \in [QueryId -> [row : -1..now, at : -1..now]]

ResetInit ==
    /\ now = 0
    /\ stored = FirstId
    /\ started = -1
    /\ expires = -1
    /\ pending = {}
    /\ queries = {}
    /\ oldQueries = {}
    /\ lastClean = 0
    /\ lastUse = [q \in QueryId |-> [row |-> -1, at |-> -1]]

\* Mutant: rows that expire after two timeouts.
ExpiryShort(timeout) == now + timeout * 2

\* upsert_query_id: CURRENT_TIMESTAMP + TIMEOUT_BUFFER_MULTIPLIER * timeout.
Expiry(timeout) == now + timeout * 3

\* wrapper.next() with no valid row: the first id, and a new expiry.
SendFirst ==
    /\ ~(expires >= now)
    /\ stored' = FirstId
    /\ started' = now
    /\ expires' = Expiry(Timeout)
    /\ pending' = pending \cup {[id |-> FirstId, at |-> now, row |-> now]}
    /\ UNCHANGED <<now, queries, oldQueries, lastClean, lastUse>>

\* wrapper.next() with a valid row: update_query_id leaves expires_at alone.
SendNext ==
    /\ expires >= now
    /\ HasNext(stored) /\ NextError(stored) = "ok"
    /\ stored' = NextId(stored)
    /\ pending' = pending \cup {[id |-> NextId(stored), at |-> now, row |-> started]}
    /\ UNCHANGED <<now, started, expires, queries, oldQueries, lastClean, lastUse>>

\* The contract's clean-up, when a message comes: the ids it then remembers.
Rotates == lastClean < now - Timeout
Recent == IF Rotates THEN {} ELSE queries
Older == IF ~Rotates THEN oldQueries
         ELSE IF lastClean < now - 2 * Timeout THEN {} ELSE queries

\* The contract takes m for a replay.
Refused(m) == m.id \in Recent \cup Older

\* The contract receives m: clean-up first, then the replay check, which
\* throws and so undoes the clean-up.
Receive(m) ==
    /\ m \in pending
    /\ pending' = pending \ {m}
    /\ \/ /\ Refused(m)
          /\ UNCHANGED <<queries, oldQueries, lastClean, lastUse>>
       \/ /\ ~Refused(m)
          /\ queries' = Recent \cup {m.id}
          /\ oldQueries' = Older
          /\ lastClean' = IF Rotates THEN now ELSE lastClean
          /\ lastUse' = [lastUse EXCEPT ![m.id] = [row |-> m.row, at |-> now]]
    /\ UNCHANGED <<now, stored, started, expires>>

\* m never gets there: the id was stored and the message not built, not
\* posted, or not included in time.
Lose(m) ==
    /\ m \in pending
    /\ pending' = pending \ {m}
    /\ UNCHANGED <<now, stored, started, expires, queries, oldQueries, lastClean, lastUse>>

Tick ==
    /\ now < MaxTime
    /\ \A m \in pending : now < m.at + MaxDelay
    /\ now' = now + 1
    /\ UNCHANGED <<stored, started, expires, pending, queries, oldQueries, lastClean, lastUse>>

ResetNext == SendFirst \/ SendNext \/ (\E m \in pending : Receive(m) \/ Lose(m)) \/ Tick

ResetSpec == ResetInit /\ [][ResetNext]_resetVars
-----------------------------------------------------------------------------
\* "It is only safe to reset query_id after 3 * timeout", and the table below
\* that has every id ready at t = 3T: a message of a row that was reset then
\* is not refused.
ResetIsSafe == \A m \in pending : ~Refused(m)

\* What three timeouts do give, for every id and whatever messages are delayed
\* or lost: the contract refuses a message only when its id comes at a younger
\* age of its row than the id's last use had in its own, earlier row; or when
\* a message of a later row overtook it.  A wallet that goes through its ids
\* no faster than in the row before is never refused.
RefusedIsEarly ==
    \A m \in pending : Refused(m) =>
        LET use == lastUse[m.id] IN
        \/ m.row < use.row
        \/ m.row > use.row /\ now - m.row < use.at - use.row
-----------------------------------------------------------------------------
(* What makes it inductive.                                                *)

\* The row expires three timeouts after its start.
RowLife == expires = IF started < 0 THEN -1 ELSE started + 3 * Timeout

\* The rows a message or a use can come from: the present one, with an id up
\* to the stored one, or one that had expired when the present one started.
OfRow(q, r) ==
    \/ r = started /\ started >= 0 /\ QueryIdOf(q) <= QueryIdOf(stored)
    \/ r + 3 * Timeout < started
    \/ r = -1
RowsInOrder ==
    /\ \A m \in pending : OfRow(m.id, m.row)
    /\ \A q \in QueryId : OfRow(q, lastUse[q].row)

\* Two different rows are more than three timeouts apart.
Apart(r, s) == r = s \/ r + 3 * Timeout < s \/ s + 3 * Timeout < r
RowsApart == \A m \in pending : lastUse[m.id].row >= 0 => Apart(m.row, lastUse[m.id].row)
PendingApart == \A m, n \in pending : Apart(m.row, n.row)

\* An id is used once in a row.
UsedOnce ==
    /\ \A m, n \in pending : m.id = n.id /\ m.row = n.row => m = n
    /\ \A m \in pending : m.row # lastUse[m.id].row

\* What the contract remembers was accepted after the last clean-up, or at
\* most two timeouts before it.
Remembered ==
    /\ \A q \in queries \cup oldQueries : lastUse[q].row >= 0
    /\ \A q \in queries : lastClean <= lastUse[q].at
    /\ \A q \in oldQueries : lastClean <= lastUse[q].at + 2 * Timeout

ResetInv ==
    /\ ResetTypeOK
    /\ RowLife /\ RowsInOrder /\ RowsApart /\ PendingApart /\ UsedOnce /\ Remembered
    /\ RefusedIsEarly
=============================================================================

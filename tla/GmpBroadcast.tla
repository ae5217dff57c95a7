---------------------------- MODULE GmpBroadcast ----------------------------
(***************************************************************************)
(* GmpApi::post_broadcast: the request, which the HTTP client repeats on a *)
(* transient error whether or not the GMP API acted on it, and the polling *)
(* for the broadcast's result.                                             *)
(***************************************************************************)
EXTENDS Integers, FiniteSets

CONSTANTS
    MaxRetries,     \* of RetryTransientMiddleware, 3 in the code
    WaitTime,       \* MAX_BROADCAST_WAIT_TIME_SECONDS
    PollInterval,   \* BROADCAST_POLL_INTERVAL_SECONDS
    MaxFaults       \* bound: failed polls and malformed answers

ASSUME BroadcastAssumption ==
    /\ MaxRetries \in Nat /\ WaitTime \in Nat /\ MaxFaults \in Nat
    /\ PollInterval \in Nat \ {0}

VARIABLES
    pc,         \* idle, send, poll or returned
    sends,      \* requests sent, the first included
    polls,      \* retries of get_broadcast_result
    axelar,     \* what became of each broadcast the GMP API accepted
    id,         \* the broadcastID that is polled; 0 is none
    answer,     \* what the caller gets
    lastSeen,   \* the status in the last answer to a poll
    dropped,    \* answers to the request that were lost
    faults

broadcastVars == <<pc, sends, polls, axelar, id, answer, lastSeen, dropped, faults>>

Ids == 1 .. MaxRetries + 1
Accepted == {b \in Ids : axelar[b] # "none"}

BroadcastInit ==
    /\ pc = "idle" /\ sends = 0 /\ polls = 0
    /\ axelar = [b \in Ids |-> "none"]
    /\ id = 0 /\ answer = "none" /\ lastSeen = "none" /\ dropped = 0 /\ faults = 0

Returns(a) == pc' = "returned" /\ answer' = a

PostBroadcast ==
    /\ pc = "idle" /\ pc' = "send"
    /\ UNCHANGED <<sends, polls, axelar, id, answer, lastSeen, dropped, faults>>

\* The GMP API accepts the request as its next broadcast.
Accept == axelar' = [axelar EXCEPT ![Cardinality(Accepted) + 1] = "RECEIVED"]

\* Mutant: a request whose answer cannot be read is sent again.
RequestAnsweredAgain ==
    /\ pc = "send" /\ sends' = sends + 1
    /\ \/ /\ Accept /\ id' = Cardinality(Accepted) + 1 /\ pc' = "poll"
          /\ UNCHANGED faults
       \/ faults < MaxFaults /\ faults' = faults + 1 /\ Accept /\ UNCHANGED <<pc, id>>
    /\ UNCHANGED <<polls, answer, lastSeen, dropped>>

(* The request is answered with a broadcastID, or with one that cannot be   *)
(* read although the broadcast was accepted, or with an error that is not   *)
(* retried.                                                                 *)
RequestAnswered ==
    /\ pc = "send" /\ sends' = sends + 1
    /\ \/ /\ Accept /\ id' = Cardinality(Accepted) + 1 /\ pc' = "poll"
          /\ UNCHANGED <<answer, faults>>
       \/ faults < MaxFaults /\ faults' = faults + 1 /\ Accept /\ Returns("error") /\ UNCHANGED id
       \/ Returns("error") /\ UNCHANGED <<axelar, id, faults>>
    /\ UNCHANGED <<polls, lastSeen, dropped>>

(* A timeout or a server error: the broadcast may have been accepted.  The  *)
(* client sends the request again until its retries are used up.            *)
RequestTransient ==
    /\ pc = "send" /\ sends' = sends + 1
    /\ \/ Accept /\ dropped' = dropped + 1
       \/ UNCHANGED <<axelar, dropped>>
    /\ IF sends < MaxRetries THEN UNCHANGED <<pc, answer>> ELSE Returns("error")
    /\ UNCHANGED <<polls, id, lastSeen, faults>>

(* One turn of the loop of get_broadcast_result. *)
PollTimesOut ==
    /\ pc = "poll" /\ polls > WaitTime \div PollInterval
    /\ Returns("timeout")
    /\ UNCHANGED <<sends, polls, axelar, id, lastSeen, dropped, faults>>

\* Mutant: a broadcast that failed is reported like one that succeeded.
PollResultFailed ==
    /\ pc = "poll" /\ polls <= WaitTime \div PollInterval
    /\ polls' = polls + 1 /\ lastSeen' = axelar[id]
    /\ \/ axelar[id] = "RECEIVED" /\ UNCHANGED <<pc, answer>>
       \/ axelar[id] \in {"SUCCESS", "FAILED"} /\ Returns("hash")
    /\ UNCHANGED <<sends, axelar, id, dropped, faults>>

PollResult ==
    /\ pc = "poll" /\ polls <= WaitTime \div PollInterval
    /\ polls' = polls + 1
    /\ \/ /\ lastSeen' = axelar[id]
          /\ \/ axelar[id] = "RECEIVED" /\ UNCHANGED <<pc, answer>>
             \/ axelar[id] = "SUCCESS" /\ Returns("hash")
             \/ axelar[id] = "FAILED" /\ Returns("status")
          /\ UNCHANGED faults
       \/ faults < MaxFaults /\ faults' = faults + 1 /\ Returns("error") /\ UNCHANGED lastSeen
    /\ UNCHANGED <<sends, axelar, id, dropped>>

(* Axelar includes the transaction of a broadcast, or refuses it. *)
AxelarSettles(b) ==
    /\ axelar[b] = "RECEIVED"
    /\ \E s \in {"SUCCESS", "FAILED"} : axelar' = [axelar EXCEPT ![b] = s]
    /\ UNCHANGED <<pc, sends, polls, id, answer, lastSeen, dropped, faults>>

ClientStep == PostBroadcast \/ RequestAnswered \/ RequestTransient \/ PollTimesOut \/ PollResult
BroadcastNext == ClientStep \/ \E b \in Ids : AxelarSettles(b)

(* The types of the request, of its polls and of the broadcasts. *)
BroadcastTypeOK ==
    /\ pc \in {"idle", "send", "poll", "returned"}
    /\ sends \in 0 .. MaxRetries + 1 /\ polls \in 0 .. WaitTime \div PollInterval + 1
    /\ axelar \in [Ids -> {"none", "RECEIVED", "SUCCESS", "FAILED"}]
    /\ id \in 0 .. MaxRetries + 1
    /\ answer \in {"none", "hash", "status", "timeout", "error"}
    /\ dropped \in Nat

(* A transaction hash is returned only for a broadcast that succeeded, and  *)
(* a refusal only for one that failed; the caller is told of a timeout only *)
(* when every poll found the broadcast pending, and it may still succeed.   *)
AnswerIsOutcome ==
    /\ answer = "hash" => axelar[id] = "SUCCESS"
    /\ answer = "status" => axelar[id] = "FAILED"
    /\ answer = "timeout" => polls = WaitTime \div PollInterval + 1 /\ lastSeen = "RECEIVED"

(* The same request becomes a second broadcast only after the answer to an  *)
(* earlier one was lost, and the one that is polled is the last.            *)
DuplicateOnlyAfterLoss ==
    /\ Cardinality(Accepted) <= dropped + 1
    /\ id # 0 => id = Cardinality(Accepted) /\ Cardinality(Accepted) = dropped + 1

\* The broadcasts of the request are numbered in the order of its sends.
AcceptedInOrder ==
    /\ Cardinality(Accepted) <= sends
    /\ \A b \in Ids : axelar[b] # "none" <=> b <= Cardinality(Accepted)

\* What each stage of the call knows of the broadcasts made so far.
StageKnows ==
    /\ pc \in {"idle", "send"} => sends <= MaxRetries /\ id = 0 /\ Cardinality(Accepted) = dropped
    /\ pc = "poll" => id > 0 /\ (polls > 0 => lastSeen = "RECEIVED")
    /\ pc \in {"idle", "send"} => polls = 0
    /\ answer # "none" => pc = "returned"
    /\ answer \in {"hash", "status"} => id > 0

(* post_broadcast returns, however long Axelar takes: the polls are counted *)
(* and the request's retries too.                                           *)
BroadcastReturns == pc = "send" ~> pc = "returned"
=============================================================================

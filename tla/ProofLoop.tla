----------------------------- MODULE ProofLoop -----------------------------
(***************************************************************************)
(* The way of one message to the XRP Ledger: the ingestor caches its       *)
(* payload and asks Axelar for a proof, the includer submits the signed    *)
(* transaction, and a failed submission goes through the construct_proof   *)
(* queue to the proof retrier, which asks for another proof, until         *)
(* failed_proof has counted enough failures.  Transactions that the node   *)
(* queued are watched by the queued-transaction monitor.                   *)
(*                                                                         *)
(* Every key and row belongs to one message, so one message is modelled;   *)
(* its proofs, their redeliveries and retries run concurrently.            *)
(***************************************************************************)
EXTENDS Integers, FiniteSets

CONSTANTS
    Proofs,         \* transactions the prover may sign for the message, 1, 2, ...
    Tickets,        \* prover transactions without a message (TicketCreate)
    Queueable,      \* bound: transactions the node may answer with terQUEUED
    Workers,        \* deliveries the includer works on at a time
    FailureLimit,   \* 10 in ProofRetrier::process_delivery
    MaxChecks,      \* MAX_RETRIES of the queued-transaction monitor
    MaxFaults       \* bound: crashes, expired counters, failed calls, together

ASSUME LoopAssumption ==
    /\ Proofs = 1 .. Cardinality(Proofs) /\ IsFiniteSet(Proofs) /\ Proofs # {}
    /\ Tickets \cap Proofs = {} /\ IsFiniteSet(Tickets)
    /\ Queueable \subseteq Proofs \cup Tickets
    /\ Workers \in Nat \ {0} /\ FailureLimit \in Nat \ {0}
    /\ MaxChecks \in Nat /\ MaxFaults \in Nat

Txs == Proofs \cup Tickets

VARIABLES
    step,       \* of each transaction's GatewayTx task in the includer
    ledger,     \* what became of the transaction at the node
    failures,   \* the failed_proof counter in Redis
    payload,    \* is the message in the payload cache
    retryBuf,   \* RetryConstructProof items in the includer's buffer
    retries,    \* those in the construct_proof queue, held ones included
    retrier,    \* idle, payload or ack
    taskBuf,    \* ConstructProof tasks in the retrier's buffer
    tasks,      \* those in the ingestor's queue, held ones included
    ingestor,   \* idle, request, report or ack
    sessions,   \* requests Axelar accepted and has not answered with a proof
    row, checks,\* xrpl_queued_transactions: status and retries
    listed,     \* rows the monitor has still to check in this round
    end,        \* how the message ended: accepted, declined, gaveUp, lost, unsigned
    passes, slips, forgotten, faults  \* counted for the properties and bounds

includerVars == <<step, failures, retryBuf>>
retrierVars == <<retrier, taskBuf, retries, passes>>
ingestorVars == <<ingestor, tasks, sessions>>
monitorVars == <<row, checks, listed>>
vars == <<includerVars, retrierVars, ingestorVars, monitorVars,
          ledger, payload, end, slips, forgotten, faults>>

Idle == {"none", "ready", "done"}
Held == {t \in Txs : step[t] \notin Idle}

(* A ConstructProof task is waiting, or transactions of the prover without  *)
(* a message are: they have only the includer's workers in common.          *)
Init ==
    /\ tasks \in {0, 1}
    /\ step = [t \in Txs |-> IF t \in Tickets /\ tasks = 0 THEN "ready" ELSE "none"]
    /\ ledger = [t \in Txs |-> "unknown"]
    /\ failures = 0 /\ payload = FALSE
    /\ retryBuf = 0 /\ retries = 0 /\ retrier = "idle"
    /\ taskBuf = 0 /\ ingestor = "idle" /\ sessions = 0
    /\ row = [t \in Txs |-> "none"] /\ checks = [t \in Txs |-> 0] /\ listed = {}
    /\ end = {} /\ passes = 0 /\ slips = 0 /\ forgotten = 0 /\ faults = 0

Fault == faults < MaxFaults /\ faults' = faults + 1
NoFault == UNCHANGED faults
Goto(t, s) == step' = [step EXCEPT ![t] = s]

(* Any error of the worker: on_delivery republishes the task. *)
Republish(t) == Goto(t, "ready")
-----------------------------------------------------------------------------
(* The ingestor: handle_construct_proof. *)

\* Mutant: a message whose payload is cached is not handled again.
StorePayloadOnce ==
    /\ ingestor = "idle" /\ tasks > 0 /\ ~payload
    /\ payload' = TRUE /\ ingestor' = "request"
    /\ UNCHANGED <<includerVars, retrierVars, monitorVars, tasks, sessions, ledger, end,
                   slips, forgotten, faults>>

StorePayload ==
    /\ ingestor = "idle" /\ tasks > 0
    /\ payload' = TRUE /\ ingestor' = "request"
    /\ UNCHANGED <<includerVars, retrierVars, monitorVars, tasks, sessions, ledger, end,
                   slips, forgotten, faults>>

NextProof == Cardinality({p \in Proofs : step[p] # "none"}) + 1

Validated == \E p \in Proofs : ledger[p] = "validated"

\* Mutant: a request that failed is acked, and not reported.
RequestProofAcked ==
    /\ ingestor = "request"
    /\ sessions' \in sessions .. Cardinality({p \in Proofs : step[p] = "none"})
    /\ ingestor' = "ack"
    /\ UNCHANGED <<includerVars, retrierVars, monitorVars, tasks, ledger, payload, end,
                   slips, forgotten, faults>>

(* post_broadcast: every Ok is taken for success, that of a broadcast which *)
(* timed out too; an Err is reported, unless it says that the payment has   *)
(* succeeded.  A POST that was repeated, or an Err after the broadcast was  *)
(* accepted, leaves one request more with Axelar than the answer tells.     *)
RequestProof ==
    /\ ingestor = "request"
    /\ sessions' \in sessions .. Cardinality({p \in Proofs : step[p] = "none"})
    /\ \/ (sessions' > sessions \/ Validated) /\ ingestor' = "ack"
       \/ ingestor' = "report"
    /\ UNCHANGED <<includerVars, retrierVars, monitorVars, tasks, ledger, payload, end,
                   slips, forgotten, faults>>

(* Axelar, external: the prover's signers finish a transaction, which comes *)
(* back as a GatewayTx task; or the broadcast fails after all, or the       *)
(* signing session expires, and nobody is told.                             *)
Sign ==
    /\ sessions > 0 /\ sessions' = sessions - 1
    /\ NextProof \in Proofs /\ Goto(NextProof, "ready")
    /\ UNCHANGED <<retrierVars, monitorVars, failures, retryBuf, ingestor, tasks, ledger, payload, end,
                   slips, forgotten, faults>>

SessionExpires ==
    /\ sessions > 0 /\ sessions' = sessions - 1
    /\ end' = end \cup {"unsigned"}
    /\ UNCHANGED <<includerVars, retrierVars, monitorVars, ingestor, tasks, ledger, payload,
                   slips, forgotten, faults>>

(* cannot_execute_message; when the event cannot be posted the task is      *)
(* republished.                                                             *)
ReportDeclined ==
    /\ ingestor = "report" /\ ingestor' = "idle"
    /\ \/ tasks' = tasks - 1 /\ end' = end \cup {"declined"} /\ NoFault
       \/ Fault /\ UNCHANGED <<tasks, end>>
    /\ UNCHANGED <<includerVars, retrierVars, monitorVars, sessions, ledger, payload, slips, forgotten>>

AckConstructProof ==
    /\ ingestor = "ack" /\ ingestor' = "idle" /\ tasks' = tasks - 1
    /\ UNCHANGED <<includerVars, retrierVars, monitorVars, sessions, ledger, payload, end,
                   slips, forgotten, faults>>

IngestorCrash ==
    /\ Fault /\ ingestor' = "idle"
    /\ UNCHANGED <<includerVars, retrierVars, monitorVars, tasks, sessions, ledger, payload, end,
                   slips, forgotten>>
-----------------------------------------------------------------------------
(* The includer: the GatewayTx branch of consume with the XRPL              *)
(* broadcaster.                                                             *)

Deliver(t) ==
    /\ step[t] = "ready" /\ Cardinality(Held) < Workers
    /\ Goto(t, "submit")
    /\ UNCHANGED <<retrierVars, ingestorVars, monitorVars, failures, retryBuf, ledger, payload, end,
                   slips, forgotten, faults>>

HasMessage(t) == t \notin Tickets

\* The status of the broadcast, and where consume goes with it.
StatusOk(t) == Goto(t, IF HasMessage(t) THEN "clear" ELSE "done")
log_and_return_error(t) == IF HasMessage(t) THEN Goto(t, "publish") ELSE Republish(t)

\* What the node may have done with a transaction that it did not refuse.
Applied(t) == ledger' = [ledger EXCEPT ![t] = IF @ = "validated" THEN @ ELSE "applied"]

(* The node does not answer, perhaps after it took the transaction. *)
SubmitFails(t) ==
    /\ step[t] = "submit" /\ Fault
    /\ Applied(t) \/ UNCHANGED ledger
    /\ Republish(t)
    /\ UNCHANGED <<retrierVars, ingestorVars, monitorVars, failures, retryBuf, payload, end, slips, forgotten>>

\* tes and tec.
SubmitApplied(t) ==
    /\ step[t] = "submit" /\ ledger[t] # "validated" /\ Applied(t)
    /\ StatusOk(t)
    /\ UNCHANGED <<retrierVars, ingestorVars, monitorVars, failures, retryBuf, payload, end,
                   slips, forgotten, faults>>

(* tef: a ticket's sequence number is past, or the transaction is looked up *)
(* and counts as sent when it is validated.                                 *)
SubmitTef(t) ==
    /\ step[t] = "submit"
    /\ \/ t \in Tickets /\ StatusOk(t) /\ NoFault
       \/ ledger[t] = "validated" /\ StatusOk(t) /\ NoFault
       \/ ledger[t] # "validated" /\ log_and_return_error(t) /\ NoFault
       \/ Fault /\ log_and_return_error(t)
    /\ UNCHANGED <<retrierVars, ingestorVars, monitorVars, failures, retryBuf, ledger, payload, end,
                   slips, forgotten>>

\* store_queued_transaction; a row that is there keeps its status and retries.
Stored(t) == row' = [row EXCEPT ![t] = IF @ = "none" THEN "Queued" ELSE @]

(* terQUEUED: a failure to store the row is logged. *)
SubmitQueued(t) ==
    /\ step[t] = "submit" /\ ledger[t] # "validated" /\ t \in Queueable
    /\ ledger' = [ledger EXCEPT ![t] = "queued"]
    /\ \/ Stored(t) /\ NoFault
       \/ Fault /\ UNCHANGED row
    /\ StatusOk(t)
    /\ UNCHANGED <<retrierVars, ingestorVars, failures, retryBuf, payload, end, slips, forgotten,
                   checks, listed>>

\* Any other answer.
SubmitRejected(t) ==
    /\ step[t] = "submit"
    /\ log_and_return_error(t)
    /\ UNCHANGED <<retrierVars, ingestorVars, monitorVars, failures, retryBuf, ledger, payload, end,
                   slips, forgotten, faults>>

\* Mutant: the payload is cleared whatever came of the broadcast.
PublishRetryClears(t) ==
    /\ step[t] = "publish" /\ retryBuf' = retryBuf + 1 /\ Goto(t, "incr")
    /\ payload' = FALSE
    /\ UNCHANGED <<retrierVars, ingestorVars, monitorVars, failures, ledger, end, slips, forgotten, faults>>

PublishRetry(t) ==
    /\ step[t] = "publish" /\ retryBuf' = retryBuf + 1 /\ Goto(t, "incr")
    /\ UNCHANGED <<retrierVars, ingestorVars, monitorVars, failures, ledger, payload, end,
                   slips, forgotten, faults>>

\* slips counts the retries that were published and not counted.
IncrFailures(t) ==
    /\ step[t] = "incr"
    /\ \/ failures' = failures + 1 /\ Goto(t, "expire") /\ NoFault /\ UNCHANGED slips
       \/ Fault /\ Republish(t) /\ slips' = slips + 1 /\ UNCHANGED failures
    /\ UNCHANGED <<retrierVars, ingestorVars, monitorVars, retryBuf, ledger, payload, end, forgotten>>

ExpireFailures(t) ==
    /\ step[t] = "expire"
    /\ \/ Goto(t, "report") /\ NoFault
       \/ Fault /\ Republish(t)
    /\ UNCHANGED <<retrierVars, ingestorVars, monitorVars, failures, retryBuf, ledger, payload, end,
                   slips, forgotten>>

(* cannot_execute_message, and the ack. *)
ReportFailure(t) ==
    /\ step[t] = "report"
    /\ \/ Goto(t, "done") /\ NoFault
       \/ Fault /\ Republish(t)
    /\ UNCHANGED <<retrierVars, ingestorVars, monitorVars, failures, retryBuf, ledger, payload, end,
                   slips, forgotten>>

(* The payload is cleared, and the task acked. *)
ClearPayload(t) ==
    /\ step[t] = "clear"
    /\ \/ payload' = FALSE /\ Goto(t, "done") /\ NoFault /\ end' = end \cup {"accepted"}
       \/ Fault /\ Republish(t) /\ UNCHANGED <<payload, end>>
    /\ UNCHANGED <<retrierVars, ingestorVars, monitorVars, failures, retryBuf, ledger, slips, forgotten>>

(* The buffer processor stores the item in the construct_proof queue. *)
FlushRetry ==
    /\ retryBuf > 0 /\ retryBuf' = retryBuf - 1 /\ retries' = retries + 1
    /\ UNCHANGED <<ingestorVars, monitorVars, step, failures, retrier, taskBuf, passes,
                   ledger, payload, end, slips, forgotten, faults>>

\* Deliveries are requeued; items in the buffer are gone.
IncluderCrash ==
    /\ Fault
    /\ step' = [t \in Txs |-> IF t \in Held THEN "ready" ELSE step[t]]
    /\ slips' = slips + Cardinality({t \in Txs : step[t] = "incr"})
    /\ retryBuf' = 0
    /\ end' = IF retryBuf > 0 THEN end \cup {"lost"} ELSE end
    /\ UNCHANGED <<retrierVars, ingestorVars, monitorVars, failures, ledger, payload, forgotten>>

\* Twelve hours after the last failure Redis forgets the counter.
FailuresExpire ==
    /\ failures > 0 /\ Fault /\ failures' = 0 /\ forgotten' = forgotten + failures
    /\ UNCHANGED <<retrierVars, ingestorVars, monitorVars, step, retryBuf, ledger, payload, end, slips>>
-----------------------------------------------------------------------------
(* The proof retrier, which takes one delivery after the other. *)

\* Mutant: one failure too many.
TooManyFailuresLate == failures > FailureLimit

TooManyFailures == failures >= FailureLimit

ReadFailures ==
    /\ retrier = "idle" /\ retries > 0
    /\ \/ /\ TooManyFailures  \* nack: the item is dead-lettered
          /\ retries' = retries - 1 /\ end' = end \cup {"gaveUp"} /\ UNCHANGED retrier
       \/ ~TooManyFailures /\ retrier' = "payload" /\ UNCHANGED <<retries, end>>
    /\ UNCHANGED <<includerVars, ingestorVars, monitorVars, taskBuf, passes, ledger, payload,
                   slips, forgotten, faults>>

(* Without a payload, or when the cache cannot be read, the item is         *)
(* republished.                                                             *)
FetchPayload ==
    /\ retrier = "payload"
    /\ \/ payload /\ taskBuf' = taskBuf + 1 /\ passes' = passes + 1 /\ retrier' = "ack" /\ NoFault
       \/ ~payload /\ retrier' = "idle" /\ NoFault /\ UNCHANGED <<taskBuf, passes>>
       \/ Fault /\ retrier' = "idle" /\ UNCHANGED <<taskBuf, passes>>
    /\ UNCHANGED <<includerVars, ingestorVars, monitorVars, retries, ledger, payload, end, slips, forgotten>>

AckRetry ==
    /\ retrier = "ack" /\ retrier' = "idle" /\ retries' = retries - 1
    /\ UNCHANGED <<includerVars, ingestorVars, monitorVars, taskBuf, passes, ledger, payload, end,
                   slips, forgotten, faults>>

FlushTask ==
    /\ taskBuf > 0 /\ taskBuf' = taskBuf - 1 /\ tasks' = tasks + 1
    /\ UNCHANGED <<includerVars, monitorVars, retrier, retries, passes, ingestor, sessions, ledger,
                   payload, end, slips, forgotten, faults>>

\* An item that was in hand passes again.
RetrierCrash ==
    /\ Fault /\ retrier' = "idle" /\ taskBuf' = 0
    /\ slips' = IF retrier = "ack" THEN slips + 1 ELSE slips
    /\ end' = IF taskBuf > 0 THEN end \cup {"lost"} ELSE end
    /\ UNCHANGED <<includerVars, ingestorVars, monitorVars, retries, passes, ledger, payload, forgotten>>
-----------------------------------------------------------------------------
(* The ledger takes or drops a transaction; the queued-transaction monitor. *)

Settle(t) ==
    /\ ledger[t] \in {"queued", "applied"}
    /\ \E s \in {"validated", "unknown"} : ledger' = [ledger EXCEPT ![t] = s]
    /\ UNCHANGED <<includerVars, retrierVars, ingestorVars, monitorVars, payload, end, slips, forgotten, faults>>

(* A row that was checked before is listed when ten seconds, doubled with   *)
(* each check, have passed since: when is left to chance.                   *)
ListQueued ==
    /\ listed = {} /\ listed' = {t \in Txs : row[t] = "Queued"} /\ listed' # {}
    /\ UNCHANGED <<includerVars, retrierVars, ingestorVars, row, checks, ledger, payload, end,
                   slips, forgotten, faults>>

\* What check_transaction_status may say; an error is always possible.
TxStatus(t) ==
    CASE ledger[t] = "validated" -> {"Confirmed", "error"}
      [] ledger[t] \in {"queued", "applied"} -> {"Queued", "error"}
      [] OTHER -> {"Dropped", "error"}

SetRow(t, s) == row' = [row EXCEPT ![t] = s] /\ UNCHANGED checks

\* Mutant: an unsuccessful check is not counted.
IncrementRetryNever(t) == UNCHANGED <<row, checks>>

IncrementRetry(t) == checks' = [checks EXCEPT ![t] = @ + 1] /\ UNCHANGED row

TooManyChecks(t) == checks[t] >= MaxChecks

CheckRow(t) ==
    /\ t \in listed
    /\ \/ /\ IF TooManyChecks(t)
             THEN SetRow(t, "Expired")
             ELSE \E s \in TxStatus(t) :
                     IF s \in {"Confirmed", "Dropped"} THEN SetRow(t, s) ELSE IncrementRetry(t)
          /\ listed' = listed \ {t} /\ NoFault
       \/ Fault /\ listed' = {} /\ UNCHANGED <<row, checks>>  \* the rest of the list waits
    /\ UNCHANGED <<includerVars, retrierVars, ingestorVars, ledger, payload, end, slips, forgotten>>
-----------------------------------------------------------------------------
IngestorStep == StorePayload \/ RequestProof \/ ReportDeclined \/ AckConstructProof
Submit(t) == SubmitApplied(t) \/ SubmitTef(t) \/ SubmitQueued(t) \/ SubmitRejected(t) \/ SubmitFails(t)
IncluderStep(t) ==
    Submit(t) \/ PublishRetry(t) \/ IncrFailures(t) \/ ExpireFailures(t) \/ ReportFailure(t) \/ ClearPayload(t)
RetrierStep == ReadFailures \/ FetchPayload \/ AckRetry
MonitorStep == ListQueued \/ \E t \in Txs : CheckRow(t)
AxelarStep == Sign \/ SessionExpires
Stops == IngestorCrash \/ IncluderCrash \/ RetrierCrash \/ FailuresExpire

Next ==
    \/ IngestorStep \/ AxelarStep \/ RetrierStep \/ MonitorStep \/ FlushRetry \/ FlushTask \/ Stops
    \/ \E t \in Txs : Deliver(t) \/ IncluderStep(t) \/ Settle(t)

(* Each process goes on with what it has in hand, takes deliveries as they  *)
(* come, and is restarted; the ledger and Axelar promise nothing.           *)
Fairness ==
    /\ WF_vars(IngestorStep) /\ WF_vars(RetrierStep) /\ WF_vars(MonitorStep)
    /\ WF_vars(FlushRetry) /\ WF_vars(FlushTask)
    /\ WF_vars(\E t \in Txs : Deliver(t) \/ IncluderStep(t))

Spec == Init /\ [][Next]_vars /\ Fairness
-----------------------------------------------------------------------------
(* The type invariant. *)
TypeOK ==
    /\ step \in [Txs -> Idle \cup {"submit", "publish", "incr", "expire", "report", "clear"}]
    /\ ledger \in [Txs -> {"unknown", "applied", "queued", "validated"}]
    /\ failures \in Nat /\ retryBuf \in Nat /\ retries \in Nat /\ taskBuf \in Nat /\ tasks \in Nat
    /\ sessions \in Nat /\ passes \in Nat /\ slips \in Nat /\ forgotten \in Nat
    /\ payload \in BOOLEAN
    /\ retrier \in {"idle", "payload", "ack"} /\ (retrier # "idle" => retries > 0)
    /\ ingestor \in {"idle", "request", "report", "ack"} /\ (ingestor # "idle" => tasks > 0)
    /\ row \in [Txs -> {"none", "Queued", "Confirmed", "Dropped", "Expired"}]
    /\ checks \in [Txs -> 0 .. MaxChecks] /\ listed \subseteq {t \in Txs : row[t] = "Queued"}
    /\ end \subseteq {"accepted", "declined", "gaveUp", "lost", "unsigned"} /\ faults \in 0 .. MaxFaults

\* The message has come to an end that somebody is told of, or its payment is
\* on the ledger.
Settled == end \cap {"accepted", "declined", "gaveUp"} # {} \/ Validated

\* The ends that nobody is told of: a crash emptied a buffer with a retry of
\* it, or Axelar accepted a request for a proof and did not sign one.
Abandoned == end \cap {"lost", "unsigned"} # {}

(* Once its payload is cached, a message is on its way, or with Axelar,     *)
(* until its transaction is taken by the node, its failure reported or its  *)
(* retry dead-lettered.  Two things forget it: a crash with a retry in the  *)
(* buffer, and a request that handle_construct_proof acked (a broadcast     *)
(* that timed out, a signing session that expired) and that came to         *)
(* nothing.                                                                 *)
NotForgotten ==
    payload =>
        \/ Settled \/ Abandoned \/ sessions > 0
        \/ tasks + taskBuf + retries + retryBuf > 0
        \/ \E p \in Proofs : step[p] \notin {"none", "done"}

(* A retry of a message that no node has taken finds its payload in the     *)
(* cache: the includer clears it only for a broadcast that was accepted.    *)
RetryPossible == retries + retryBuf > 0 /\ "accepted" \notin end => payload

(* The retrier asks for a new proof at most as often as the limit says,     *)
(* beyond the failures that Redis has forgotten and what is read before a   *)
(* failure is counted, although the includer publishes first and counts     *)
(* afterwards.                                                              *)
RetriesBounded == passes <= forgotten + FailureLimit + slips + Workers - 1

(* The table says Confirmed only of a validated transaction.                *)
ConfirmedIsValidated == \A t \in Txs : row[t] = "Confirmed" => ledger[t] = "validated"

(* The loop ends, even if every proof fails, provided that Axelar keeps no  *)
(* request for ever: nothing in the relayer waits for the proof it asked    *)
(* for.  A message that Axelar did not sign for ends without a report.      *)
Settles == []<>(sessions = 0) => (payload ~> Settled \/ Abandoned)

(* No row stays Queued, even if the node never answers the monitor.         *)
QueuedSettles == (\E t \in Txs : row[t] = "Queued") ~> (\A t \in Txs : row[t] # "Queued")

-----------------------------------------------------------------------------
\* What makes the properties above inductive.

\* Who has the message: a step that has handed it over no longer counts.
OnItsWay ==
    \/ sessions > 0
    \/ tasks > (IF ingestor = "ack" THEN 1 ELSE 0) \/ taskBuf > 0
    \/ retries > (IF retrier = "ack" THEN 1 ELSE 0) \/ retryBuf > 0
    \/ \E p \in Proofs : step[p] \in {"ready", "submit", "publish", "clear"}

HandedOver == payload => Settled \/ Abandoned \/ OnItsWay

\* From the request of a proof on, the payload is cached until a broadcast is accepted.
PayloadKept ==
    /\ "accepted" \notin end
    /\ retries + retryBuf > 0 \/ sessions > 0 \/ ingestor # "idle" \/ \E p \in Proofs : step[p] # "none"
    => payload

\* Retries that are published and not yet counted.
Uncounted == {t \in Txs : step[t] = "incr"}

\* Every retry, passed on or waiting, was counted, or will be, or slipped.
RetryBudget ==
    passes + retries + retryBuf <=
        forgotten + failures + slips + Cardinality(Uncounted) + (IF retrier = "ack" THEN 1 ELSE 0)

\* An item that was read below the limit is one that the bound still has room for.
ReadBelowLimit ==
    /\ RetriesBounded
    /\ retrier = "payload" => passes < forgotten + FailureLimit + slips + Workers - 1

WorkersBounded == Cardinality(Held) <= Workers

\* A ticket has no message to retry, and proofs are signed one after the other.
StepsInOrder ==
    /\ \A t \in Tickets : step[t] \in Idle \cup {"submit"}
    /\ \A p, q \in Proofs : p < q /\ step[q] # "none" => step[p] # "none"

(* A retry can be carried out, the table of queued transactions says        *)
(* Confirmed only of a validated one, and the message is handed from one    *)
(* process to the next with its payload and its retries accounted for.      *)
LoopInv ==
    /\ TypeOK /\ RetryPossible /\ ConfirmedIsValidated
    /\ HandedOver /\ PayloadKept /\ RetryBudget /\ ReadBelowLimit /\ WorkersBounded /\ StepsInOrder
=============================================================================

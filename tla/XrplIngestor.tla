---------------------------- MODULE XrplIngestor ----------------------------
(***************************************************************************)
(* The XRPL ingestor: what its workers do, await by await, with one ledger *)
(* transaction and the Amplifier tasks that follow from it, with one       *)
(* ConstructProof task, or with the retriable tasks of one message.        *)
(* Deliveries are at least once and two workers may hold copies of one     *)
(* item; every call to the database, the GMP API or the ledger may fail.   *)
(* The network side (the GMP API and the Axelar contracts) is external.    *)
(***************************************************************************)
EXTENDS Naturals, FiniteSets

CONSTANTS
    Workers,            \* deliveries handled at the same time
    Copies,             \* copies of one item the queue may hold, 1..n
    Shapes,             \* the ledger transactions considered
    Scale,              \* issued amounts are counted in units of 1/Scale of the token
    Unit,               \* 10^decimals of the deployed tokens
    StoredPrice,        \* drops for a token, of the tokens priced in the database
    DemoRate,           \* the same, of the tokens with a configured rate
    MAX_TASK_RETRIES,   \* retriable tasks answered per message, 5 in the code
    MaxDisturbances     \* bound: failed calls, bad answers, stops and duplicates, together

(***************************************************************************)
(* Ledger transactions: the type, the two accounts, the memos and the      *)
(* amounts, as far as handle_transaction and build_xrpl_message look.      *)
(***************************************************************************)
TxType == [type : {"Payment", "TicketCreate", "SignerListSet", "TrustSet", "OfferCreate"},
           account : {"multisig", "user"}, destination : {"multisig", "user"},
           memos : SUBSET {"type", "payload", "payload_hash", "gas_fee_amount",
                           "destination_chain", "destination_address", "msg_id",
                           "unsigned_tx_hash", "message_id", "source_chain"},
           message : {"transfer", "call", "add_gas", "add_reserves", "prover"},
           token : STRING, amount : Nat, gas : Nat, translates : BOOLEAN]

ASSUME IngestorAssumption ==
    /\ MAX_TASK_RETRIES \in Nat
    /\ Shapes # {} /\ Shapes \subseteq TxType
    /\ MaxDisturbances \in Nat
    /\ Scale \in Nat \ {0}
    /\ DOMAIN StoredPrice \cap DOMAIN DemoRate = {}
    /\ DOMAIN StoredPrice \cup DOMAIN DemoRate \subseteq DOMAIN Unit
    /\ \A token \in DOMAIN Unit : Unit[token] \in Nat \ {0}
    /\ \A token \in DOMAIN StoredPrice : StoredPrice[token] \in Nat
    /\ \A token \in DOMAIN DemoRate : DemoRate[token] \in Nat
    /\ Copies \subseteq Nat \ {0} /\ 1 \in Copies

VARIABLES
    flow,       \* what is followed: a ledger transaction, a proof, or retries
    tx,         \* the ledger transaction
    at,         \* where each copy of each item is
    work,       \* what each worker does
    row,        \* the transaction's row in xrpl_transactions
    axelar,     \* what Axelar has accepted: events and broadcasts
    quorum,     \* the status carried by the quorum_reached event
    retries,    \* the message's row in task_retries
    casts,      \* retry broadcasts that were sent
    uncounted,  \* why the retry counter may miss a broadcast
    gaveUp,     \* why the relayer has dropped something for good
    disturbances

ingestorVars == <<flow, tx, at, work, row, axelar, quorum, retries, casts,
                  uncounted, gaveUp, disturbances>>

subject == <<flow, tx>>
retryVars == <<retries, casts, uncounted>>

Items == {"tx", "verify", "quorum", "proof", "retry"}
Slots == Items \X Copies
Places == {"absent", "queued", "worker", "acked"}
EventNames == {"CALL", "GAS_CREDIT", "ITS", "MESSAGE_EXECUTED", "CANNOT_EXECUTE"}
Facts == EventNames \cup {"verified", "confirmed", "proof_built"}
NoSlot == <<"none", 0>>
Idle == [slot |-> NoSlot, pc |-> "idle", read |-> 0]

RecordedTypes == {"Payment", "TicketCreate", "SignerListSet", "TrustSet"}

Has(t, names) == names \subseteq t.memos

\* Payment to the multisig, prover transaction, or nothing to do.
Route(t) ==
    CASE t.type = "Payment" /\ t.destination = "multisig" ->
            IF t.memos = {} THEN "skip" ELSE "payment"
      [] t.type = "Payment" /\ t.destination # "multisig" /\ t.account = "multisig" -> "prover"
      [] t.type \in {"TicketCreate", "SignerListSet"} -> "prover"
      [] t.type = "TrustSet" /\ t.account = "multisig" -> "prover"
      [] OTHER -> "skip"

\* The memos payload and payload_hash: at most one, and each needs the GMP API.
PayloadMemos(t) == t.memos \cap {"payload", "payload_hash"}
AsksForPayload(t) == /\ t.message \in {"transfer", "call"}
                     /\ Cardinality(PayloadMemos(t)) = 1

HasDestination(t) == Has(t, {"destination_chain", "destination_address"})

TransferBuilds(t) == /\ Has(t, {"gas_fee_amount"}) /\ HasDestination(t)
                     /\ Cardinality(PayloadMemos(t)) <= 1
                     /\ t.gas <= t.amount

CallBuilds(t) == HasDestination(t) /\ Cardinality(PayloadMemos(t)) = 1

\* build_xrpl_message, apart from the failures of its calls.
Builds(t) ==
    /\ Has(t, {"type"})
    /\ CASE t.message = "transfer" -> TransferBuilds(t)
         [] t.message = "call" -> CallBuilds(t)
         [] t.message = "add_gas" -> Has(t, {"msg_id"})
         [] t.message = "add_reserves" -> t.token = "XRP"
         [] OTHER -> FALSE

GmpMessages == {"transfer", "call"}
IsGmp(t) == Route(t) = "payment" /\ Builds(t) /\ t.message \in GmpMessages

\* The events of a payment, in one batch.
Events(t) ==
    CASE t.message = "transfer" -> {"CALL", "GAS_CREDIT", "ITS"}
      [] t.message = "call" -> {"CALL", "GAS_CREDIT"}
      [] t.message = "add_gas" -> {"GAS_CREDIT"}
      [] OTHER -> {}

\* The gas fee is paid in the token of the payment: the whole of it, or what
\* the memo of a transfer says.
GasFeeWhole(t) == t.amount  \* Mutant: also of a transfer.

GasFee(t) == IF t.message = "transfer" THEN t.gas ELSE t.amount

TransferAmount(t) == t.amount - t.gas

\* The price in the database, or else the demo rate.
PriceOf(token) == IF token \in DOMAIN StoredPrice THEN StoredPrice[token] ELSE DemoRate[token]

convert_token_amount_to_drops(token, amount) == (amount * PriceOf(token)) \div Scale

CreditedDrops(t) ==
    IF t.token = "XRP" THEN GasFee(t) ELSE convert_token_amount_to_drops(t.token, GasFee(t))

\* token_spent, in the smallest unit of the token.
TokenSpent(t) ==
    IF t.token = "XRP" THEN TransferAmount(t) ELSE (TransferAmount(t) * Unit[t.token]) \div Scale

\* Events cannot be made of a token that is not deployed or has no price.
HasPrice(t) == t.token = "XRP" \/ t.token \in DOMAIN StoredPrice \cup DOMAIN DemoRate

IsProverPayment(t) == Route(t) = "prover" /\ t.type = "Payment"
NamesMessage(t) == Has(t, {"message_id", "source_chain"})

(***************************************************************************)
(* The row of xrpl_transactions.  Every update is unconditional and does   *)
(* nothing when there is no row; the upsert overwrites what is there.      *)
(***************************************************************************)
Statuses == <<"Detected", "Initialized", "Verified", "Routed">>
NoRow == [status |-> "none", set |-> {}]
FreshRow == [status |-> "Detected", set |-> {}]
Columns == {"verify_task", "verify_tx", "quorum_reached_task", "route_tx"}

Rank(r) == IF r = NoRow THEN 0 ELSE CHOOSE k \in 1..4 : Statuses[k] = r.status

SetStatus(s) == row' = IF row = NoRow THEN NoRow ELSE [row EXCEPT !.status = s]

\* Mutant: the whole row is written, with the status of a new one.
SetColumnOverwrites(c) ==
    row' = IF row = NoRow THEN NoRow ELSE [status |-> "Detected", set |-> row.set \cup {c}]

SetColumn(c) == row' = IF row = NoRow THEN NoRow ELSE [row EXCEPT !.set = @ \cup {c}]

(***************************************************************************)
(* Deliveries.                                                             *)
(***************************************************************************)
\* A retriable task that only asks for tickets has no message id.
RetrySteps == {"read_retries", "skip"}

FirstSteps(item) ==
    CASE item = "tx" -> IF tx.type \in RecordedTypes THEN {"find"} ELSE {"skip"}
      [] item = "verify" -> {"verify_task"}
      [] item = "quorum" -> {"quorum_task"}
      [] item = "proof" -> {"store_payload"}
      [] item = "retry" -> RetrySteps

Enqueue(slot) == at' = [at EXCEPT ![slot] = "queued"]

Deliver(w) ==
    /\ work[w] = Idle
    /\ \E slot \in Slots : \E pc \in FirstSteps(slot[1]) :
        /\ at[slot] = "queued"
        /\ at' = [at EXCEPT ![slot] = "worker"]
        /\ work' = [work EXCEPT ![w] = [slot |-> slot, pc |-> pc, read |-> 0]]
    /\ UNCHANGED <<subject, row, axelar, quorum, retryVars, gaveUp, disturbances>>

At(w, pc) == work[w].pc = pc
Goto(w, pc) == work' = [work EXCEPT ![w].pc = pc] /\ UNCHANGED at

\* The handler returned Ok: the delivery is acknowledged.
Ack(w) ==
    /\ at' = [at EXCEPT ![work[w].slot] = "acked"]
    /\ work' = [work EXCEPT ![w] = Idle]

\* The handler returned Err: the item is republished.  The broker never gets
\* the retry count (see Queue), so this has no limit.
Republish(w) ==
    /\ work' = [work EXCEPT ![w] = Idle]
    /\ Enqueue(work[w].slot)
    /\ UNCHANGED gaveUp

Disturbance == disturbances < MaxDisturbances /\ disturbances' = disturbances + 1

\* A call to the database, the ledger, or the GMP API fails: Err.  A broadcast
\* that is reported as failed may have been executed all the same; that of a
\* retriable task is then republished without its counter.
Effect(pc) ==
    CASE pc = "verify_cast" -> {"verified"}
      [] pc = "confirm" -> {"confirmed"}
      [] pc = "cannot_execute" -> {"CANNOT_EXECUTE"}
      [] pc = "executed" -> {"MESSAGE_EXECUTED"}
      [] OTHER -> {}

FallibleSteps ==
    {"find", "upsert", "translate", "initialized", "events", "post_events",
     "verify_task", "verify_cast", "verify_tx", "quorum_task", "verified", "confirm",
     "route_tx", "routed", "executed", "store_payload", "cannot_execute",
     "read_retries", "retry_cast", "save_retries"}

(* A call fails, with or without its effect, and the item is republished.   *)
(* A retry may have been broadcast although post_broadcast failed, by a     *)
(* FAILED status or a failed poll; it is not counted then.                  *)
CallFails(w) ==
    /\ work[w].pc \in FallibleSteps
    /\ Disturbance
    /\ Republish(w)
    /\ axelar' \in {axelar, axelar \cup Effect(work[w].pc)}
    /\ \/ /\ uncounted' = uncounted \cup (IF At(w, "save_retries") THEN {"not_saved"} ELSE {})
          /\ UNCHANGED casts
       \/ /\ At(w, "retry_cast")
          /\ uncounted' = uncounted \cup {"not_saved"}
          /\ casts' = casts + 1
    /\ UNCHANGED <<subject, row, quorum, retries>>

(***************************************************************************)
(* handle_transaction and the events of consume_transaction.               *)
(***************************************************************************)
AfterRow == CASE Route(tx) = "payment" -> "build"
              [] Route(tx) = "prover" -> "prover"
              [] OTHER -> "skip"

FindRow(w) ==
    /\ At(w, "find")
    /\ Goto(w, IF row = NoRow THEN "upsert" ELSE AfterRow)
    /\ UNCHANGED <<subject, row, axelar, quorum, retryVars, gaveUp, disturbances>>

UpsertRow(w) ==
    /\ At(w, "upsert")
    /\ row' = FreshRow
    /\ Goto(w, AfterRow)
    /\ UNCHANGED <<subject, axelar, quorum, retryVars, gaveUp, disturbances>>

Skip(w) ==
    /\ At(w, "skip")
    /\ Ack(w)
    /\ UNCHANGED <<subject, row, axelar, quorum, retryVars, gaveUp, disturbances>>

\* A message that cannot be built, and one whose payload cannot be stored or
\* fetched at this moment, are both dropped with a warning.
BuildFails(w) ==
    /\ At(w, "build")
    /\ \/ ~Builds(tx) /\ UNCHANGED <<gaveUp, disturbances>>
       \/ /\ Builds(tx) /\ AsksForPayload(tx)
          /\ Disturbance
          /\ gaveUp' = gaveUp \cup {"payload_error"}
    /\ Ack(w)
    /\ UNCHANGED <<subject, row, axelar, quorum, retryVars>>

BuildMessage(w) ==
    /\ At(w, "build") /\ Builds(tx)
    /\ Goto(w, CASE tx.message \in GmpMessages -> "translate"
                 [] tx.message = "add_gas" -> "events"
                 [] tx.message = "add_reserves" -> "verify_cast")
    /\ UNCHANGED <<subject, row, axelar, quorum, retryVars, gaveUp, disturbances>>

TranslateMessage(w) ==
    /\ At(w, "translate")
    /\ IF tx.translates THEN Goto(w, "initialized") ELSE Ack(w)
    /\ UNCHANGED <<subject, row, axelar, quorum, retryVars, gaveUp, disturbances>>

\* call_event_from_message sets the status whatever it was.
SetInitialized(w) ==
    /\ At(w, "initialized")
    /\ SetStatus("Initialized")
    /\ Goto(w, "events")
    /\ UNCHANGED <<subject, axelar, quorum, retryVars, gaveUp, disturbances>>

\* The token's id is asked for and the gas credit and the transfer are put into
\* events; added gas is verified before its event is posted.
MakeEvents(w) ==
    /\ At(w, "events")
    /\ IF ~HasPrice(tx)
       THEN Republish(w)
       ELSE /\ Goto(w, IF tx.message = "add_gas" THEN "verify_cast" ELSE "post_events")
            /\ UNCHANGED gaveUp
    /\ UNCHANGED <<subject, row, axelar, quorum, retryVars, disturbances>>

\* Mutant: the transaction is republished only when every event is retriable.
PostEventsPartly(w) ==
    /\ At(w, "post_events")
    /\ \E retriable \in SUBSET Events(tx) :
        /\ axelar' = axelar \cup (Events(tx) \ retriable)
        /\ IF retriable = {} THEN UNCHANGED disturbances ELSE Disturbance
        /\ IF retriable = Events(tx) THEN Republish(w) ELSE Ack(w) /\ UNCHANGED gaveUp
    /\ UNCHANGED <<subject, row, quorum, retryVars>>

\* The batch is posted: each event is accepted, refused for good, or refused
\* retriably; one retriable refusal republishes the transaction.
PostEvents(w) ==
    /\ At(w, "post_events")
    /\ \E retriable, refused \in SUBSET Events(tx) :
        /\ retriable \cap refused = {}
        /\ axelar' = axelar \cup (Events(tx) \ (retriable \cup refused))
        /\ IF retriable \cup refused = {} THEN UNCHANGED disturbances ELSE Disturbance
        /\ IF retriable # {}
           THEN Republish(w)
           ELSE /\ Ack(w)
                /\ gaveUp' = IF refused = {} THEN gaveUp ELSE gaveUp \cup {"refused"}
    /\ UNCHANGED <<subject, row, quorum, retryVars>>

\* handle_prover_tx: without its memo the transaction is an error, every time.
ProverTx(w) ==
    /\ At(w, "prover")
    /\ IF Has(tx, {"unsigned_tx_hash"})
       THEN Goto(w, "verify_cast") /\ UNCHANGED gaveUp
       ELSE Republish(w)
    /\ UNCHANGED <<subject, row, axelar, quorum, retryVars, disturbances>>

(***************************************************************************)
(* verify_message, handle_verify and handle_wasm_event.                    *)
(***************************************************************************)
\* A broadcast that outlasts the polling is reported as Ok("timeout").
Broadcast(fact) ==
    \/ axelar' = axelar \cup fact /\ UNCHANGED <<gaveUp, disturbances>>
    \/ /\ Disturbance
       /\ axelar' = axelar
       /\ gaveUp' = gaveUp \cup {"timeout"}

VerifyBroadcast(w) ==
    /\ At(w, "verify_cast")
    /\ Broadcast({"verified"})
    /\ Goto(w, "verify_tx")
    /\ UNCHANGED <<subject, row, quorum, retryVars>>

UpdateVerifyTx(w) ==
    /\ At(w, "verify_tx")
    /\ SetColumn("verify_tx")
    /\ IF work[w].slot[1] = "tx" /\ Route(tx) = "payment" /\ tx.message = "add_gas"
       THEN Goto(w, "post_events") ELSE Ack(w)
    /\ UNCHANGED <<subject, axelar, quorum, retryVars, gaveUp, disturbances>>

\* Mutant: the task is recorded, and nothing is broadcast.
UpdateVerifyTaskOnly(w) ==
    /\ At(w, "verify_task")
    /\ SetColumn("verify_task")
    /\ Ack(w)
    /\ UNCHANGED <<subject, axelar, quorum, retryVars, gaveUp, disturbances>>

UpdateVerifyTask(w) ==
    /\ At(w, "verify_task")
    /\ SetColumn("verify_task")
    /\ Goto(w, "verify_cast")
    /\ UNCHANGED <<subject, axelar, quorum, retryVars, gaveUp, disturbances>>

UpdateQuorumReachedTask(w) ==
    /\ At(w, "quorum_task")
    /\ SetColumn("quorum_reached_task")
    /\ IF quorum \in {"succeeded", "failed"}
       THEN Goto(w, "verified") /\ UNCHANGED gaveUp
       ELSE Ack(w) /\ gaveUp' = gaveUp \cup {"no_quorum"}
    /\ UNCHANGED <<subject, axelar, quorum, retryVars, disturbances>>

SetVerified(w) ==
    /\ At(w, "verified")
    /\ SetStatus("Verified")
    /\ Goto(w, "confirm")
    /\ UNCHANGED <<subject, axelar, quorum, retryVars, gaveUp, disturbances>>

\* Mutant: after "already confirmed" there is nothing left to do.
ConfirmBroadcastDone(w) ==
    /\ At(w, "confirm")
    /\ \/ Broadcast({"confirmed"}) /\ Goto(w, "route_tx")
       \/ /\ "confirmed" \in axelar
          /\ Ack(w) /\ UNCHANGED <<axelar, gaveUp, disturbances>>
    /\ UNCHANGED <<subject, row, quorum, retryVars>>

\* What is broadcast once there is a quorum: the contract and the message.
Request(contract, msg) == [contract |-> contract, msg |-> msg]
route_incoming_message_request == Request("chain_gateway", "RouteIncomingMessages")
confirm_prover_message_request == Request("chain_multisig_prover", "ConfirmProverMessage")
confirm_add_gas_message_request == Request("chain_gateway", "ConfirmAddGasMessages")
confirm_add_reserves_message_request == Request("chain_multisig_prover", "ConfirmAddReservesMessage")

ConfirmRequest(t) ==
    CASE Route(t) = "prover" -> confirm_prover_message_request
      [] t.message \in GmpMessages -> route_incoming_message_request
      [] t.message = "add_gas" -> confirm_add_gas_message_request
      [] t.message = "add_reserves" -> confirm_add_reserves_message_request

\* External: the contract that has a message of this kind.
Handles(request) ==
    \/ request.contract = "chain_gateway" /\ request.msg \in {"RouteIncomingMessages", "ConfirmAddGasMessages"}
    \/ /\ request.contract = "chain_multisig_prover"
       /\ request.msg \in {"ConfirmProverMessage", "ConfirmAddReservesMessage"}

\* The route or confirm request of the message's kind.  A message that Axelar
\* has confirmed before may be answered "already confirmed".
ConfirmBroadcast(w) ==
    /\ At(w, "confirm") /\ Handles(ConfirmRequest(tx))
    /\ \/ Broadcast({"confirmed"}) /\ Goto(w, "route_tx")
       \/ /\ "confirmed" \in axelar
          /\ Goto(w, "executed")
          /\ UNCHANGED <<axelar, gaveUp, disturbances>>
    /\ UNCHANGED <<subject, row, quorum, retryVars>>

UpdateRouteTx(w) ==
    /\ At(w, "route_tx")
    /\ SetColumn("route_tx")
    /\ Goto(w, "routed")
    /\ UNCHANGED <<subject, axelar, quorum, retryVars, gaveUp, disturbances>>

SetRouted(w) ==
    /\ At(w, "routed")
    /\ SetStatus("Routed")
    /\ Goto(w, "executed")
    /\ UNCHANGED <<subject, axelar, quorum, retryVars, gaveUp, disturbances>>

\* handle_successful_routing: a payment of the prover is reported executed, and
\* the handler fails unless the report is accepted.
ReportExecuted(w) ==
    /\ At(w, "executed")
    /\ IF ~IsProverPayment(tx)
       THEN Ack(w) /\ UNCHANGED <<axelar, gaveUp>>
       ELSE IF NamesMessage(tx)
            THEN /\ axelar' = axelar \cup {"MESSAGE_EXECUTED"}
                 /\ Ack(w) /\ UNCHANGED gaveUp
            ELSE Republish(w) /\ UNCHANGED axelar
    /\ UNCHANGED <<subject, row, quorum, retryVars, disturbances>>

(***************************************************************************)
(* handle_construct_proof and handle_retriable_task.                       *)
(***************************************************************************)
StorePayload(w) ==
    /\ At(w, "store_payload")
    /\ Goto(w, "construct")
    /\ UNCHANGED <<subject, row, axelar, quorum, retryVars, gaveUp, disturbances>>

ConstructProof(w) ==
    /\ At(w, "construct")
    /\ \/ Broadcast({"proof_built"}) /\ Ack(w)
       \/ /\ "proof_built" \in axelar       \* "payment for ... already succeeded"
          /\ Ack(w) /\ UNCHANGED <<axelar, gaveUp, disturbances>>
       \/ /\ Disturbance
          /\ axelar' \in {axelar, axelar \cup {"proof_built"}}
          /\ Goto(w, "cannot_execute") /\ UNCHANGED gaveUp
    /\ UNCHANGED <<subject, row, quorum, retryVars>>

CannotExecute(w) ==
    /\ At(w, "cannot_execute")
    /\ axelar' = axelar \cup {"CANNOT_EXECUTE"}
    /\ Ack(w)
    /\ UNCHANGED <<subject, row, quorum, retryVars, gaveUp, disturbances>>

RetryInHand(v) == work[v].pc \in {"retry_cast", "save_retries"}

ReadRetries(w) ==
    /\ At(w, "read_retries")
    /\ IF retries >= MAX_TASK_RETRIES
       THEN Republish(w)
       ELSE /\ work' = [work EXCEPT ![w].pc = "retry_cast", ![w].read = retries]
            /\ UNCHANGED <<at, gaveUp>>
    /\ uncounted' = uncounted \cup (IF \E v \in Workers : RetryInHand(v) THEN {"overlap"} ELSE {})
    /\ UNCHANGED <<subject, row, axelar, quorum, retries, casts, disturbances>>

RetryBroadcast(w) ==
    /\ At(w, "retry_cast")
    /\ casts' = casts + 1
    /\ Goto(w, "save_retries")
    /\ UNCHANGED <<subject, row, axelar, quorum, retries, uncounted, gaveUp, disturbances>>

UpsertRetries(w) ==
    /\ At(w, "save_retries")
    /\ retries' = work[w].read + 1
    /\ Ack(w)
    /\ UNCHANGED <<subject, row, axelar, quorum, casts, uncounted, gaveUp, disturbances>>

(***************************************************************************)
(* The process stops with a delivery in hand; the broker delivers it again.*)
(***************************************************************************)
WorkerStops(w) ==
    /\ work[w] # Idle
    /\ Disturbance
    /\ at' = [at EXCEPT ![work[w].slot] = "queued"]
    /\ work' = [work EXCEPT ![w] = Idle]
    /\ uncounted' = uncounted \cup (IF At(w, "save_retries") THEN {"not_saved"} ELSE {})
    /\ UNCHANGED <<subject, row, axelar, quorum, retries, casts, gaveUp>>

(***************************************************************************)
(* External: the Amplifier answers with tasks, the queue with duplicates.  *)
(***************************************************************************)
IssueTask(item, fact) ==
    /\ fact \in axelar
    /\ at[<<item, 1>>] = "absent"
    /\ Enqueue(<<item, 1>>)
    /\ quorum' \in (IF item = "quorum" THEN {"succeeded", "failed", "other"} ELSE {quorum})
    /\ UNCHANGED <<subject, work, row, axelar, retryVars, gaveUp, disturbances>>

IssueRetry(c) ==
    /\ flow = "retry"
    /\ at[<<"retry", c>>] = "absent"
    /\ Enqueue(<<"retry", c>>)
    /\ UNCHANGED <<subject, work, row, axelar, quorum, retryVars, gaveUp, disturbances>>

Duplicate(item) ==
    /\ Disturbance
    /\ at[<<item, 1>>] # "absent"
    /\ 2 \in Copies /\ at[<<item, 2>>] = "absent"
    /\ Enqueue(<<item, 2>>)
    /\ UNCHANGED <<subject, work, row, axelar, quorum, retryVars, gaveUp>>

WorkerStep(w) ==
    \/ Deliver(w) \/ FindRow(w) \/ UpsertRow(w) \/ Skip(w) \/ BuildFails(w) \/ BuildMessage(w)
    \/ TranslateMessage(w) \/ SetInitialized(w) \/ MakeEvents(w) \/ PostEvents(w)
    \/ ProverTx(w) \/ VerifyBroadcast(w) \/ UpdateVerifyTx(w) \/ UpdateVerifyTask(w)
    \/ UpdateQuorumReachedTask(w) \/ SetVerified(w) \/ ConfirmBroadcast(w)
    \/ UpdateRouteTx(w) \/ SetRouted(w) \/ ReportExecuted(w)
    \/ StorePayload(w) \/ ConstructProof(w) \/ CannotExecute(w)
    \/ ReadRetries(w) \/ RetryBroadcast(w) \/ UpsertRetries(w)

AxelarStep ==
    \/ IssueTask("verify", "CALL")
    \/ IssueTask("quorum", "verified")
    \/ \E c \in Copies : IssueRetry(c)

IngestorNext ==
    \/ \E w \in Workers : WorkerStep(w) \/ CallFails(w) \/ WorkerStops(w)
    \/ AxelarStep
    \/ \E item \in Items \ {"tx", "retry"} : Duplicate(item)

IngestorInit ==
    /\ \/ flow = "tx" /\ tx \in Shapes
       \/ flow \in {"proof", "retry"} /\ tx = CHOOSE t \in Shapes : TRUE
    /\ at = [slot \in Slots |-> IF flow = "proof" /\ slot = <<"proof", 1>> THEN "queued" ELSE "absent"]
    /\ work = [w \in Workers |-> Idle]
    /\ row = NoRow
    /\ axelar = {} /\ quorum = "none"
    /\ retries = 0 /\ casts = 0 /\ uncounted = {}
    /\ gaveUp = {}
    /\ disturbances = 0

\* What a worker does with an item of each kind.
StepsOf(item) ==
    CASE item = "tx" -> {"find", "upsert", "skip", "build", "translate", "initialized", "events",
                         "post_events", "prover", "verify_cast", "verify_tx"}
      [] item = "verify" -> {"verify_task", "verify_cast", "verify_tx"}
      [] item = "quorum" -> {"quorum_task", "verified", "confirm", "route_tx", "routed", "executed"}
      [] item = "proof" -> {"store_payload", "construct", "cannot_execute"}
      [] item = "retry" -> {"read_retries", "skip", "retry_cast", "save_retries"}

Steps == {"idle"} \cup UNION {StepsOf(item) : item \in Items}

Holds(w, item) == work[w].slot[1] = item

\* A worker is idle or does one of the steps of the item it holds.
DeliveriesOK ==
    /\ at \in [Slots -> Places]
    /\ work \in [Workers -> [slot : Slots \cup {NoSlot}, pc : Steps, read : Nat]]
    /\ \A w \in Workers :
          work[w] = Idle \/ (work[w].slot \in Slots /\ work[w].pc \in StepsOf(work[w].slot[1]))

\* The counter of a message stays within its limit.
RecordsOK ==
    /\ flow \in {"tx", "proof", "retry"} /\ tx \in Shapes
    /\ row \in {NoRow} \cup [status : {Statuses[k] : k \in 1..4}, set : SUBSET Columns]
    /\ axelar \subseteq Facts
    /\ quorum \in {"none", "succeeded", "failed", "other"}
    /\ retries \in 0..MAX_TASK_RETRIES /\ casts \in Nat
    /\ uncounted \subseteq {"overlap", "not_saved"}
    /\ gaveUp \subseteq {"payload_error", "refused", "timeout", "no_quorum"}
    /\ disturbances \in 0..MaxDisturbances

IngestorTypeOK == DeliveriesOK /\ RecordsOK

\* A delivery in work belongs to one worker.
OneHolder ==
    \A w \in Workers : work[w] # Idle =>
        /\ at[work[w].slot] = "worker"
        /\ \A v \in Workers : work[v].slot = work[w].slot => v = w

\* The Amplifier's tasks follow from what Axelar has been told.
TasksFollowFacts ==
    \A c \in Copies : /\ at[<<"verify", c>>] # "absent" => "CALL" \in axelar
                      /\ at[<<"quorum", c>>] # "absent" => "verified" \in axelar

\* Axelar is told of a transaction only when the transaction has its row.
RowBeforeFacts == "CALL" \in axelar \/ "verified" \in axelar => row # NoRow

\* The row is there when anything else is done with the transaction.
RowBeforeSteps ==
    \A w \in Workers : Holds(w, "tx") /\ work[w].pc \notin {"find", "upsert", "skip"} => row # NoRow

\* The subscriber, or the recovery, has published the transaction once.
OneCopy == \A c \in Copies \ {1} : at[<<"tx", c>>] = "absent"

\* One copy of a transaction finds its row before it writes it.
UpsertIsFirst == OneCopy => \A w \in Workers : At(w, "upsert") => row = NoRow

\* The handler of a quorum event records the task, then the route.
QuorumColumns ==
    OneCopy => \A w \in Workers :
        /\ work[w].pc \in {"verified", "confirm", "route_tx", "routed"} => "quorum_reached_task" \in row.set
        /\ At(w, "routed") => "route_tx" \in row.set

\* The steps of a transaction are those of its route and of its message.
StepsOfPayment ==
    \A w \in Workers : Holds(w, "tx") =>
        /\ At(w, "skip") => Route(tx) # "payment"
        /\ At(w, "prover") => Route(tx) = "prover"
        /\ work[w].pc \in {"build", "translate", "initialized", "events", "post_events"}
              => Route(tx) = "payment"
        /\ work[w].pc \in {"translate", "initialized", "events", "post_events"} => Builds(tx)
        /\ work[w].pc \in {"translate", "initialized"} => tx.message \in GmpMessages
        /\ work[w].pc \in {"verify_cast", "verify_tx"} /\ Route(tx) # "prover"
              => Route(tx) = "payment" /\ Builds(tx) /\ tx.message \in {"add_gas", "add_reserves"}

\* The counter that a worker is about to write is the one it has read, and the
\* broadcasts are the ones it counts, until two workers overlap or a write is
\* lost.
RetriesCounted ==
    /\ \A w \in Workers : RetryInHand(w) => work[w].read < MAX_TASK_RETRIES
    /\ uncounted = {} =>
        /\ \A v, w \in Workers : RetryInHand(v) /\ RetryInHand(w) => v = w
        /\ \A w \in Workers : RetryInHand(w) => work[w].read = retries
        /\ casts = retries + (IF \E w \in Workers : At(w, "save_retries") THEN 1 ELSE 0)

Finished(item) == \E c \in Copies : at[<<item, c>>] = "acked"

(* A payment whose delivery is acknowledged has all the events of its batch *)
(* with the GMP API, however the batch was split, refused or repeated on    *)
(* the way; the exceptions are an event refused for good and a payload call *)
(* that failed while the message was built, both recorded.                  *)
BatchComplete ==
    /\ flow = "tx" /\ Route(tx) = "payment" /\ Builds(tx)
    /\ tx.message \in GmpMessages => tx.translates
    /\ Finished("tx")
    /\ gaveUp \cap {"payload_error", "refused"} = {}
    => Events(tx) \subseteq axelar

(* What the events say of a payment adds up to no more than was paid, and   *)
(* the two truncations, of the gas in drops and of the transfer in units of *)
(* the token, lose less than one unit each, whatever the token's decimals   *)
(* and price.                                                               *)
AmountsAccounted ==
    flow = "tx" /\ "GAS_CREDIT" \in axelar =>
        LET xrp == tx.token = "XRP"
            price == IF xrp THEN Scale ELSE PriceOf(tx.token)
            unit == IF xrp THEN Scale ELSE Unit[tx.token]
            spent == IF "ITS" \in Events(tx) THEN TokenSpent(tx) ELSE 0
            worth(drops, units) == Scale * (units * price + drops * unit)
        IN  /\ worth(CreditedDrops(tx), spent) <= tx.amount * unit * price
            /\ tx.amount * unit * price < worth(CreditedDrops(tx) + 1, spent + 1)

(* A payment of the prover whose quorum event is acknowledged has been      *)
(* reported as executed: a report that fails after the confirmation is sent *)
(* again, although the second confirmation is answered "already confirmed". *)
ExecutedReported ==
    /\ flow = "tx" /\ IsProverPayment(tx)
    /\ Finished("quorum")
    /\ "no_quorum" \notin gaveUp
    => "MESSAGE_EXECUTED" \in axelar

(* A row that says Routed carries the task and the transaction that routed  *)
(* it, as long as one copy of the transaction is in circulation: a second   *)
(* copy between its find and its upsert erases them.                        *)
RoutedRowComplete ==
    row.status = "Routed" /\ OneCopy => {"quorum_reached_task", "route_tx"} \subseteq row.set

(* A ConstructProof task that is acknowledged left a proof or a             *)
(* CANNOT_EXECUTE event, unless the broadcast timed out.                    *)
ProofAnswered ==
    flow = "proof" /\ Finished("proof") /\ "timeout" \notin gaveUp
        => axelar \cap {"proof_built", "CANNOT_EXECUTE"} # {}

(* While the retriable tasks of a message are handled one at a time and     *)
(* every broadcast is followed by the write of the counter, at most         *)
(* MAX_TASK_RETRIES of them are broadcast, however many arrive and however  *)
(* often the refused ones are redelivered.  A broadcast that was reported   *)
(* as failed, a lost write and two workers on one message are not counted.  *)
RetryLimit == uncounted = {} => casts <= MAX_TASK_RETRIES

RowInv == RowBeforeFacts /\ RowBeforeSteps /\ UpsertIsFirst /\ QuorumColumns /\ RoutedRowComplete
Answered == ExecutedReported /\ ProofAnswered

IngestorInv ==
    /\ IngestorTypeOK /\ OneHolder
    /\ TasksFollowFacts /\ RowInv /\ StepsOfPayment /\ Answered
    /\ RetriesCounted /\ RetryLimit

\* Events are posted of payments that build, in tokens that have a price.
CreditIsPriced ==
    /\ "GAS_CREDIT" \in axelar => Builds(tx) /\ HasPrice(tx) /\ "GAS_CREDIT" \in Events(tx)
    /\ \A w \in Workers : At(w, "post_events") => HasPrice(tx)
    /\ \A w \in Workers :
          /\ Holds(w, "tx") /\ work[w].pc \in {"verify_cast", "verify_tx"}
          /\ Route(tx) = "payment" /\ tx.message = "add_gas"
          => HasPrice(tx)

\* A payment of the prover without the memos of its report fails for ever after
\* it is routed, and each attempt sets the row back to Verified.
Reportable == IsProverPayment(tx) => NamesMessage(tx)

(* Without failures, stops and duplicates the status of a transaction only  *)
(* advances, whatever the order in which the deliveries are handled, except *)
(* for a payment of the prover that cannot be reported.                     *)
StatusAdvances ==
    [][disturbances = 0 /\ OneCopy /\ Reportable => Rank(row) <= Rank(row')]_ingestorVars

\* Why the status advances: what comes later in the life of a transaction has
\* not happened while an earlier step is in hand.
StatusInOrder ==
    disturbances = 0 /\ OneCopy =>
        /\ \A c \in Copies \ {1} : at[<<"quorum", c>>] = "absent"
        /\ row.status \in {"Verified", "Routed"} => "verified" \in axelar
        /\ IsGmp(tx) /\ ("CALL" \in axelar \/ "verified" \in axelar) => at[<<"tx", 1>>] = "acked"
        /\ Reportable /\ row.status = "Routed" =>
              \/ at[<<"quorum", 1>>] = "acked"
              \/ \E w \in Workers : Holds(w, "quorum") /\ At(w, "executed")
=============================================================================

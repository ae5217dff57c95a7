----------------------------- MODULE TonParser ------------------------------
(***************************************************************************)
(* The TON ingestor: TraceParser turns the transactions of one trace into  *)
(* the events that the GMP API is told, with the gas the relayer's         *)
(* accounts spent on it, and the event ids are recorded with the trace.    *)
(* The transactions are scanned once, each taken by the first parser that  *)
(* matches; a parser that matches and cannot read its log fails the trace. *)
(***************************************************************************)
EXTENDS TonCells

CONSTANTS
    Gateway, GasService, Wallets,
    Price           \* USD prices, of "TON" and of the jettons that have one

ASSUME ParserAssumption ==
    /\ "TON" \in DOMAIN Price /\ \A c \in DOMAIN Price : Price[c] \in Nat \ {0}

VARIABLES
    stage,      \* idle, sent, unsent, parsing, recording, done or failed
    trace,      \* the transactions, in the order of transactions_order
    at,         \* the next transaction to scan; 0 is the trace as a whole
    parsers, calls, credits,    \* what create_parsers collects
    events,
    recorded    \* event summaries in the trace's row

parserVars == <<stage, trace, at, parsers, calls, credits, events, recorded>>

None == "none"

----------------------------------------------------------------------------
(* Gas *)

Ours == Wallets \cup {Gateway, GasService}

us_sending(tx, dest) == tx.account \in Ours /\ dest \notin Ours
us_receiving(tx, dest) == tx.account \notin Ours /\ dest \in Ours

MessageCost(tx, msg) ==
    (IF tx.account \in Ours THEN msg.fwd_fee ELSE 0)
    + (IF msg.destination = None THEN 0
       ELSE IF us_sending(tx, msg.destination) THEN msg.value
       ELSE IF us_receiving(tx, msg.destination) THEN -msg.value ELSE 0)

cost(txs) ==
    SumFunction([i \in DOMAIN txs |->
        (IF txs[i].account \in Ours THEN txs[i].total_fees ELSE 0)
        + SumFunction([j \in DOMAIN txs[i].out_msgs |-> MessageCost(txs[i], txs[i].out_msgs[j])])])

calc_message_gas(txs) == Max({cost(txs), 0})

\* The refund itself is no cost: it is the first message of the third transaction.
calc_message_gas_native_gas_refunded(txs) ==
    IF Len(txs) < 3 \/ txs[3].out_msgs = <<>> THEN 0
    ELSE Max({cost(txs) - txs[3].out_msgs[1].value, 0})

\* Rounds to the nearest, a half to the even.
Round(n, d) == LET q == n \div d  r == 2 * (n % d)
               IN  IF r > d \/ (r = d /\ q % 2 = 1) THEN q + 1 ELSE q

convert_jetton_to_native(minter, amount) == Round(amount * Price[minter], Price["TON"])

----------------------------------------------------------------------------
(* Matching.  Sequences start at 1, so out_msgs[0] of the code is here 1.   *)

is_log_emmitted(tx, op, i) ==
    tx.op = op /\ i \in DOMAIN tx.out_msgs /\ tx.out_msgs[i].destination = None

IsCallContract(tx) == tx.account = Gateway /\ is_log_emmitted(tx, "CALL_CONTRACT", 1)

IsMessageExecuted(tx) ==
    /\ tx.account = Gateway
    /\ \/ /\ is_log_emmitted(tx, "NULLIFIED_SUCCESSFULLY", 1)
          /\ 2 \in DOMAIN tx.out_msgs /\ tx.out_msgs[2].op = "GATEWAY_EXECUTE"
       \/ /\ ~is_log_emmitted(tx, "NULLIFIED_SUCCESSFULLY", 1)
          /\ is_log_emmitted(tx, "NULLIFIED_SUCCESSFULLY", 2)
          /\ tx.out_msgs[1].op = "GATEWAY_EXECUTE"

IsMessageApproved(tx) == tx.account = Gateway /\ is_log_emmitted(tx, "MESSAGE_APPROVED", 1)

IsNativeGasPaid(tx) ==
    /\ tx.account = GasService
    /\ \/ is_log_emmitted(tx, "PAY_NATIVE_GAS_FOR_CONTRACT_CALL", 1)
       \/ is_log_emmitted(tx, "PAY_GAS", 1)

IsNativeGasAdded(tx) == tx.account = GasService /\ is_log_emmitted(tx, "ADD_NATIVE_GAS", 1)

IsJettonGasAdded(tx) ==
    /\ tx.account = GasService /\ is_log_emmitted(tx, "USER_BALANCE_SUBTRACTED", 1)
    /\ JettonGasAdded(tx.out_msgs[1].body).ok

IsJettonGasPaid(tx) ==
    /\ tx.account = GasService /\ is_log_emmitted(tx, "USER_BALANCE_SUBTRACTED", 1)
    /\ JettonGasPaid(tx.out_msgs[1].body).ok

IsNativeGasRefunded(tx) == tx.account = GasService /\ is_log_emmitted(tx, "NATIVE_REFUND", 2)

IsExecuteInsufficientGas(txs) ==
    \/ /\ Len(txs) >= 3 /\ txs[3].account = Gateway
       /\ Len(txs[2].out_msgs) = 1 /\ txs[2].out_msgs[1].op = "RELAYER_EXECUTE"
       /\ txs[3].exit_code = 106
    \/ Len(txs) = 5 /\ txs[5].op = "NULLIFIED_SUCCESSFULLY" /\ txs[5].result_code = 37

\* The parsers in the order they are tried, and the log each reads.
Parsers(tx) == <<
    [kind |-> "CALL", match |-> IsCallContract(tx)],
    [kind |-> "MESSAGE_EXECUTED", match |-> IsMessageExecuted(tx)],
    [kind |-> "MESSAGE_APPROVED", match |-> IsMessageApproved(tx)],
    [kind |-> "NATIVE_PAID", match |-> IsNativeGasPaid(tx)],
    [kind |-> "NATIVE_ADDED", match |-> IsNativeGasAdded(tx)],
    [kind |-> "JETTON_ADDED", match |-> IsJettonGasAdded(tx)],
    [kind |-> "JETTON_PAID", match |-> IsJettonGasPaid(tx)],
    [kind |-> "REFUNDED", match |-> IsNativeGasRefunded(tx)]>>

Matching(tx) ==
    {Parsers(tx)[k].kind : k \in {k \in 1 .. 8 : /\ Parsers(tx)[k].match
                                                 /\ \A j \in 1 .. k - 1 : ~Parsers(tx)[j].match}}

Log(kind, tx) ==
    CASE kind = "CALL"             -> CallContract(tx.out_msgs[1].body)
      [] kind = "MESSAGE_EXECUTED" -> NullifiedSuccessfully(tx.body)
      [] kind = "MESSAGE_APPROVED" -> CCMessage(tx.out_msgs[1].body)
      [] kind = "NATIVE_PAID"      -> NativeGasPaid(tx.out_msgs[1].body)
      [] kind = "NATIVE_ADDED"     -> NativeGasAdded(tx.out_msgs[1].body)
      [] kind = "JETTON_ADDED"     -> JettonGasAdded(tx.out_msgs[1].body)
      [] kind = "JETTON_PAID"      -> JettonGasPaid(tx.out_msgs[1].body)
      [] kind = "REFUNDED"         -> NativeGasRefunded(tx.out_msgs[2].body)

\* Mutant: calls with different payloads have the same key.
KeyNoPayload(log) == <<log.destination_chain, log.destination_address>>

Key(log) == <<log.destination_chain, log.destination_address, log.payload_hash>>

----------------------------------------------------------------------------
(* create_parsers *)

ParserInit ==
    /\ stage = "idle" /\ trace = <<>> /\ at = 0
    /\ parsers = <<>> /\ calls = <<>> /\ credits = {}
    /\ events = <<>> /\ recorded = {}

Entry(kind, i, log) == [kind |-> kind, tx |-> i, log |-> log]

Abandon == stage' = "failed" /\ UNCHANGED <<trace, at, parsers, calls, credits, events, recorded>>

ScanTrace ==
    /\ stage = "parsing" /\ at = 0
    /\ LET log == RelayerExecuteWrapped(trace[1].out_msgs[1].body) IN
       IF ~IsExecuteInsufficientGas(trace)
       THEN at' = 1 /\ UNCHANGED <<stage, trace, parsers, calls, credits, events, recorded>>
       ELSE IF log.ok
       THEN /\ parsers' = Append(parsers, Entry("CANNOT_EXECUTE", 0, log)) /\ at' = 1
            /\ UNCHANGED <<stage, trace, calls, credits, events, recorded>>
       ELSE Abandon

\* A credit with the key of an earlier one takes its place.
InsertCredit(map, key, entry) == {c \in map : c.key # key} \cup {[key |-> key, parser |-> entry]}

Collect(kind, log) ==
    LET entry == Entry(kind, at, log) IN
    \/ kind = "CALL" /\ calls' = Append(calls, entry) /\ UNCHANGED <<parsers, credits>>
    \/ /\ kind \in {"NATIVE_PAID", "JETTON_PAID"}
       /\ credits' = InsertCredit(credits, Key(log), entry)
       /\ UNCHANGED <<parsers, calls>>
    \/ /\ kind \notin {"CALL", "NATIVE_PAID", "JETTON_PAID"}
       /\ parsers' = Append(parsers, entry) /\ UNCHANGED <<calls, credits>>

ScanTransaction ==
    /\ stage = "parsing" /\ at \in DOMAIN trace
    /\ \/ /\ Matching(trace[at]) = {}
          /\ at' = at + 1 /\ UNCHANGED <<stage, trace, parsers, calls, credits, events, recorded>>
       \/ \E kind \in Matching(trace[at]) :
             LET log == Log(kind, trace[at]) IN
             \/ ~log.ok /\ Abandon
             \/ /\ log.ok /\ Collect(kind, log)
                /\ at' = at + 1 /\ UNCHANGED <<stage, trace, events, recorded>>

----------------------------------------------------------------------------
(* The events *)

\* hash_to_message_id; a top-up or a refund names the message by its hash.
MessageId(hash) == <<"0x", hash>>

Event(type, id, message, amount) == [type |-> type, id |-> id, message |-> message, amount |-> amount]

CallEvent(p) == Event("CALL", p.tx, MessageId(trace[p.tx].hash), 0)

\* The payment, in TON.
NativePayment(p) == p.log.amount
JettonPayment(p) == convert_jetton_to_native(p.log.minter, p.log.amount)

Payment(p) == IF p.kind \in {"JETTON_PAID", "JETTON_ADDED"} THEN JettonPayment(p) ELSE NativePayment(p)

CreditEvent(p, message) == Event("GAS_CREDIT", p.tx, message, Payment(p))

ApprovedCount == Cardinality({i \in DOMAIN parsers : parsers[i].kind = "MESSAGE_APPROVED"})

CallEvents(i) ==
    LET p == calls[i]
        first == \A j \in 1 .. i - 1 : Key(calls[j].log) # Key(p.log)
        paid == {c \in credits : first /\ c.key = Key(p.log)}
    IN  <<CallEvent(p)>> \o [k \in 1 .. Cardinality(paid) |->
                                CreditEvent((CHOOSE c \in paid : TRUE).parser, CallEvent(p).message)]

Named(log) == <<log.message_id, log.source_chain>>

ApprovedEvent(p) ==
    Event("MESSAGE_APPROVED", p.tx, Named(p.log), calc_message_gas(trace) \div ApprovedCount)

\* Mutant: the cost of an execution is computed as that of a refund.
ExecutedEventRefund(p) ==
    Event("MESSAGE_EXECUTED", p.tx, Named(p.log), calc_message_gas_native_gas_refunded(trace))

ExecutedEvent(p) == Event("MESSAGE_EXECUTED", p.tx, Named(p.log), calc_message_gas(trace))

CannotExecuteEvent(p) == Event("CANNOT_EXECUTE", p.tx, Named(p.log), 0)

AddedEvent(p) == CreditEvent(p, MessageId(p.log.tx_hash))

RefundedEvent(p) ==
    Event("GAS_REFUNDED", p.tx, MessageId(p.log.tx_hash), calc_message_gas_native_gas_refunded(trace))

OtherEvent(p) ==
    CASE p.kind = "MESSAGE_APPROVED" -> ApprovedEvent(p)
      [] p.kind = "MESSAGE_EXECUTED" -> ExecutedEvent(p)
      [] p.kind = "CANNOT_EXECUTE"   -> CannotExecuteEvent(p)
      [] p.kind \in {"NATIVE_ADDED", "JETTON_ADDED"} -> AddedEvent(p)
      [] p.kind = "REFUNDED"         -> RefundedEvent(p)

\* A jetton without a price fails the trace, once its event is built: a
\* credit that no call claims is never converted.
Unpriced ==
    LET used == {c.parser : c \in {c \in credits : \E i \in DOMAIN calls : Key(calls[i].log) = c.key}}
                \cup {parsers[i] : i \in DOMAIN parsers}
    IN  \E p \in used : p.kind \in {"JETTON_PAID", "JETTON_ADDED"} /\ p.log.minter \notin DOMAIN Price

BuildEvents ==
    /\ stage = "parsing" /\ at = Len(trace) + 1
    /\ \/ Unpriced /\ Abandon
       \/ /\ ~Unpriced
          /\ events' = FlattenSeq([i \in DOMAIN calls |-> CallEvents(i)])
                       \o [i \in DOMAIN parsers |-> OtherEvent(parsers[i])]
          /\ stage' = "recording"
          /\ UNCHANGED <<trace, at, parsers, calls, credits, recorded>>

(* handle_transaction writes the summaries, when there are any, and returns *)
(* the events to be posted; a database error returns none.                  *)
UpdateEvents ==
    /\ stage = "recording"
    /\ \/ /\ recorded' = IF events = <<>> THEN recorded
                         ELSE {<<events[i].type, events[i].id>> : i \in DOMAIN events}
          /\ stage' = "done" /\ UNCHANGED <<trace, at, parsers, calls, credits, events>>
       \/ events # <<>> /\ Abandon

ParserStep == ScanTrace \/ ScanTransaction \/ BuildEvents \/ UpdateEvents

(* No jetton payment for a call is read as a top-up of another message,     *)
(* whatever the length and the leading bits of its amount, although both    *)
(* logs have the same operation code and the parser of top-ups is tried     *)
(* first.                                                                   *)
PaymentIsNoTopUp ==
    \A i \in DOMAIN trace : IsJettonGasPaid(trace[i]) =>
        /\ ~IsJettonGasAdded(trace[i])
        /\ \A len \in 0 .. 15, lead \in 0 .. 3 : ~AddedFitsPaid(len, lead)
=============================================================================

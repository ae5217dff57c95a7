------------------------------ MODULE TonRelay ------------------------------
(***************************************************************************)
(* One TON transaction from its cause to the events that report it: a      *)
(* user's calls and gas payments, or a task that the broadcaster turns     *)
(* into a message of its high-load wallet; the trace that the contracts    *)
(* make of it, which is all the relayer ever learns; and the parser's      *)
(* events.  The contracts are external, known by what the parser expects   *)
(* of their messages.                                                      *)
(***************************************************************************)
EXTENDS TonParser

CONSTANTS
    Acts,           \* what a user's transaction can hold
    MaxActs,        \* bound: of them in one trace
    Messages,       \* incoming messages
    Gas,            \* gas balances of a task
    Estimate,       \* the configured gas estimates
    Buffers         \* byte buffers to encode

ActOps == {"CALL_CONTRACT", "PAY_GAS", "PAY_NATIVE_GAS_FOR_CONTRACT_CALL", "ADD_NATIVE_GAS",
           "USER_BALANCE_SUBTRACTED"}
Bytes == 0 .. 255
EstimateFields == {"execute_base", "execute_payload", "execute_storage_slippage", "execute_send_min",
                   "approve_send", "highload_wallet_send", "native_gas_refund",
                   "native_gas_refund_storage_slippage"}

ASSUME RelayAssumption ==
    /\ Wallets # {} /\ IsFiniteSet(Wallets)
    /\ {None, "user", "approval", "app"} \cap Ours = {}
    /\ MaxActs \in Nat /\ Gas \subseteq Nat
    /\ Estimate \in [EstimateFields -> Nat]
    /\ \A b \in Buffers : b \in Seq(Bytes)
    /\ \A m \in Messages : {m.message_id, m.source_chain, m.source_address, m.destination_address,
                            m.destination_chain, m.payload} \subseteq Seq(Bytes)
    /\ \A act \in Acts : /\ act.op \in ActOps /\ act.topup \in BOOLEAN /\ act.amount \in Nat
                         /\ act.key \in Seq(Bytes) \X Seq(Bytes) \X Seq(Bytes)
                         /\ act.topup => act.op = "USER_BALANCE_SUBTRACTED"

VARIABLES
    job,            \* the cause
    sent,           \* the external message handed to the TON API
    includer        \* the result of the broadcast, and what became of the task

relayVars == <<parserVars, job, sent, includer>>

----------------------------------------------------------------------------
(* Gas estimates *)

execute_estimate(payload) ==
    Estimate.execute_base + Estimate.execute_payload * Len(payload) + Estimate.execute_storage_slippage
execute_send(payload) == Max({Estimate.execute_send_min, execute_estimate(payload)})
approve_send == Estimate.approve_send
highload_wallet_send(actions) == Estimate.highload_wallet_send * actions
native_gas_refund_estimate == Estimate.native_gas_refund + Estimate.native_gas_refund_storage_slippage
RefundDust == 1

----------------------------------------------------------------------------
(* The broadcaster; wallets and query ids are the subject of TonWallet.     *)

\* The broadcast ends without a message: refused for gas, or an error.
Ends(how) ==
    /\ stage' = "unsent"
    /\ includer' = [includer EXCEPT !.result = how]
    /\ UNCHANGED <<trace, at, parsers, calls, credits, events, recorded, sent>>

Wallet == CHOOSE w \in Wallets : TRUE

send_to_chain(action) ==
    /\ sent' = outgoing_message(action, 0, highload_wallet_send(1), Wallet)
    /\ stage' = "sent"
    /\ includer' = [includer EXCEPT !.result = "posting"]
    /\ UNCHANGED <<trace, at, parsers, calls, credits, events, recorded>>

broadcast_prover_message(blob) ==
    LET parsed == ApproveMessages(blob) IN
    IF ~parsed.ok \/ parsed.messages = <<>> THEN Ends("error")
    ELSE send_to_chain(OutAction(blob, approve_send, Gateway))

broadcast_execute_message(m, gas) ==
    IF ~m.decodes THEN Ends("error")
    ELSE IF gas < execute_estimate(m.payload) THEN Ends("gas")
    ELSE send_to_chain(OutAction(RelayerExecute(m, Wallet), execute_send(m.payload), Gateway))

broadcast_refund_message(hash, recipient, remaining, token) ==
    IF token THEN Ends("error")
    ELSE IF remaining < native_gas_refund_estimate THEN Ends("gas")
    ELSE send_to_chain(OutAction(NativeRefund(hash, recipient, remaining - native_gas_refund_estimate),
                                 RefundDust, GasService))

----------------------------------------------------------------------------
(* The contracts *)

Empty == Cell(<<>>, <<>>)
Fee == 2
FwdFee == 1
Tx(account, op, body, out) ==
    [account |-> account, hash |-> 0, op |-> op, body |-> body, out_msgs |-> out,
     total_fees |-> Fee, exit_code |-> 0, result_code |-> 0]
Out(dest, op, body, value) ==
    [destination |-> dest, op |-> op, body |-> body, value |-> value, fwd_fee |-> FwdFee]
LogOut(body) == Out(None, None, body, 0)
Hashed(txs) == [i \in DOMAIN txs |-> [txs[i] EXCEPT !.hash = i]]

\* The external message, and the wallet's transfer to itself that it holds.
WalletTxs(ext) ==
    LET transfer == ext.refs[1].refs[1].refs[1]
        action == transfer.refs[1].refs[1].refs[2]
    IN  <<Tx(Wallet, None, ext, <<Out(Wallet, "INTERNAL_TRANSFER", transfer.refs[1], Data(transfer, 1).value)>>),
          Tx(Wallet, "INTERNAL_TRANSFER", transfer.refs[1],
             <<Out(Data(action, 1).dest, Data(action.refs[1], 1), action.refs[1], Data(action, 1).value)>>)>>

Body(ext) == WalletTxs(ext)[2].out_msgs[1].body

\* relayer_execute: refused for gas, refused by the approval account, failed
\* in its action phase, which discards its messages, or executed.
Outcomes == {"short", "unapproved", "action", "executed", "executed_log_last"}
ExecuteTxs(body, outcome) ==
    LET nullified == Cell(<<Field("op", "NULLIFIED_SUCCESSFULLY")>>, body.refs[1].refs)
        ask == Tx(Gateway, "RELAYER_EXECUTE", body, <<Out("approval", "NULLIFY_IF_APPROVED", Empty, 9)>>)
        reply(op, b) == Tx("approval", "NULLIFY_IF_APPROVED", Empty, <<Out(Gateway, op, b, 5)>>)
        execute == Out("app", "GATEWAY_EXECUTE", Empty, 4)
        finish(out) == Tx(Gateway, "NULLIFIED_SUCCESSFULLY", nullified, out)
    IN  CASE outcome = "short" -> <<[Tx(Gateway, "RELAYER_EXECUTE", body, <<Out(Wallet, None, Empty, 6)>>)
                                        EXCEPT !.exit_code = 106],
                                    Tx(Wallet, None, Empty, <<>>)>>
          [] outcome = "unapproved" -> <<ask, reply(None, Empty), Tx(Gateway, None, Empty, <<>>)>>
          [] outcome = "action" -> <<ask, reply("NULLIFIED_SUCCESSFULLY", nullified),
                                     [finish(<<>>) EXCEPT !.result_code = 37]>>
          [] outcome = "executed" -> <<ask, reply("NULLIFIED_SUCCESSFULLY", nullified),
                                       finish(<<LogOut(Empty), execute>>), Tx("app", "GATEWAY_EXECUTE", Empty, <<>>)>>
          [] outcome = "executed_log_last" ->
                <<ask, reply("NULLIFIED_SUCCESSFULLY", nullified),
                  finish(<<execute, LogOut(Empty)>>), Tx("app", "GATEWAY_EXECUTE", Empty, <<>>)>>

Text(m) == <<build_cell_chain(m.message_id), build_cell_chain(m.source_chain), build_cell_chain(m.source_address)>>
Destination(m) == <<build_cell_chain(m.destination_address), build_cell_chain(m.destination_chain)>>
Hash(m) == <<Field("bits256", <<"hash", m.payload>>)>>

\* The prover's approval of a sequence of messages.
ApprovalBlob(ms) ==
    Cell(<<Field("op", "APPROVE_MESSAGES")>>,
         <<Empty, Cell(<<>>, [i \in DOMAIN ms |-> Cell(Hash(ms[i]), Text(ms[i]) \o <<Cell(<<>>, Destination(ms[i]))>>)])>>)

ApproveTxs(body, ms) ==
    <<Tx(Gateway, "APPROVE_MESSAGES", body, [i \in DOMAIN ms |-> Out("approval", "MESSAGE_APPROVE", Empty, 9)])>>
    \o [i \in DOMAIN ms |-> Tx("approval", "MESSAGE_APPROVE", Empty, <<Out(Gateway, "MESSAGE_APPROVED", Empty, 5)>>)]
    \o [i \in DOMAIN ms |-> Tx(Gateway, "MESSAGE_APPROVED", Empty,
                               <<LogOut(Cell(<<>>, Text(ms[i]) \o <<Cell(Hash(ms[i]), Destination(ms[i]))>>))>>)]

RefundTxs(body) ==
    <<Tx(GasService, "NATIVE_REFUND", body,
         <<Out(Data(body, 3), None, Empty, Data(body, 4)),
           LogOut(Cell(<<Field("bits256", Data(body, 2)), Field("address", Data(body, 3)),
                         Field("coins", Data(body, 4))>>, <<>>))>>),
      Tx(Data(body, 3), None, Empty, <<>>)>>

ActLog(act) ==
    LET who == Field("address", "user")
        amount == Field("coins", act.amount)
        k == act.key
        chain == build_cell_chain(k[1])  address == build_cell_chain(k[2])
    IN  CASE act.op = "CALL_CONTRACT" ->
                Cell(<<who, Field("bits256", k[3])>>, <<chain, address, build_cell_chain(k[3])>>)
          [] act.op \in {"PAY_GAS", "PAY_NATIVE_GAS_FOR_CONTRACT_CALL"} ->
                Cell(<<who, Field("bits256", k[3]), Field("bits256", act.amount)>>,
                     <<Cell(<<who>>, <<>>), chain, address>>)
          [] act.op = "ADD_NATIVE_GAS" ->
                Cell(<<Field("bits256", k[3]), who, Field("bits256", act.amount)>>, <<>>)
          [] act.op = "USER_BALANCE_SUBTRACTED" /\ act.topup ->
                Cell(<<Field("address", act.minter), who, amount, Field("bits256", k[3])>>,
                     <<Cell(<<who>>, <<>>)>>)
          [] act.op = "USER_BALANCE_SUBTRACTED" /\ ~act.topup ->
                Cell(<<Field("address", act.minter), amount, Field("bits256", k[3])>>,
                     <<Cell(<<who>>, <<>>), chain, address>>)

ActTx(act) == Tx(act.account, act.op, Empty, <<LogOut(ActLog(act))>>)

UserTxs(acts) ==
    <<Tx("user", None, Empty, [i \in DOMAIN acts |-> Out(acts[i].account, acts[i].op, Empty, 3)])>>
    \o [i \in DOMAIN acts |-> ActTx(acts[i])]

----------------------------------------------------------------------------
RelayInit ==
    /\ ParserInit
    /\ job = [kind |-> None] /\ sent = Empty
    /\ includer = [result |-> None, task |-> "held", told |-> {}]

UserTransacts ==
    /\ stage = "idle"
    /\ \E n \in 1 .. MaxActs, acts \in [1 .. MaxActs -> Acts] :
          /\ job' = [kind |-> "user", acts |-> SubSeq(acts, 1, n)]
          /\ trace' = Hashed(UserTxs(SubSeq(acts, 1, n)))
    /\ stage' = "parsing"
    /\ UNCHANGED <<at, parsers, calls, credits, events, recorded, sent, includer>>

ExecuteTask ==
    /\ stage = "idle"
    /\ \E m \in Messages, gas \in Gas, outcome \in Outcomes :
          /\ job' = [kind |-> "execute", message |-> m, outcome |-> outcome]
          /\ broadcast_execute_message(m, gas)

GatewayTxTask ==
    /\ stage = "idle"
    /\ \E ms \in SeqOf(Messages, 3) :
          /\ job' = [kind |-> "approve", messages |-> ms]
          /\ broadcast_prover_message(ApprovalBlob(ms))

RefundTask ==
    /\ stage = "idle"
    /\ \E gas \in Gas, token \in BOOLEAN :
          /\ job' = [kind |-> "refund", remaining |-> gas]
          /\ broadcast_refund_message(<<1>>, "user", gas, token)

(* The TON API accepts the message; or the call fails, and the chain may    *)
(* have the message all the same.                                           *)
PostAnswered ==
    /\ includer.result = "posting"
    /\ \/ includer' = [includer EXCEPT !.result = "ok"] /\ UNCHANGED stage
       \/ /\ includer' = [includer EXCEPT !.result = "rpc"]
          /\ stage' \in IF stage = "sent" THEN {"sent", "unsent"} ELSE {stage}
    /\ UNCHANGED <<trace, at, parsers, calls, credits, events, recorded, job, sent>>

ChainRuns ==
    /\ stage = "sent"
    /\ trace' = Hashed(WalletTxs(sent) \o
                       CASE job.kind = "execute" -> ExecuteTxs(Body(sent), job.outcome)
                         [] job.kind = "approve" -> ApproveTxs(Body(sent), job.messages)
                         [] job.kind = "refund"  -> RefundTxs(Body(sent)))
    /\ stage' = "parsing"
    /\ UNCHANGED <<at, parsers, calls, credits, events, recorded, job, sent, includer>>

----------------------------------------------------------------------------
(* What the includer does with the result of a broadcast.                   *)

\* The task is acknowledged or republished, and Axelar is told, or not, that
\* the message cannot be executed, and why.
Settle(task, told) ==
    /\ includer' = [includer EXCEPT !.task = task, !.told = told]
    /\ UNCHANGED <<parserVars, job, sent>>

ResultOf(kind) == job.kind = kind /\ includer.task = "held" /\ includer.result \in {"ok", "gas", "rpc", "error"}

\* Mutant: a report that fails is only logged.
ExecuteResultUnreported ==
    /\ ResultOf("execute")
    /\ \/ includer.result = "ok" /\ Settle("acked", {})
       \/ includer.result = "error" /\ Settle("republished", {})
       \/ includer.result = "gas" /\ \E told \in {{}, {"INSUFFICIENT_GAS"}} : Settle("acked", told)
       \/ includer.result = "rpc" /\ \E told \in {{}, {"ERROR"}} : Settle("republished", told)

\* A failed send is reported and tried again; so is a report that fails.
ExecuteResult ==
    /\ ResultOf("execute")
    /\ \/ includer.result = "ok" /\ Settle("acked", {})
       \/ includer.result = "error" /\ Settle("republished", {})
       \/ includer.result = "gas" /\ (Settle("acked", {"INSUFFICIENT_GAS"}) \/ Settle("republished", {}))
       \/ includer.result = "rpc" /\ \E told \in {{}, {"ERROR"}} : Settle("republished", told)

\* A failed send is reported and the proof constructed again; see ProofLoop.
GatewayTxResult ==
    /\ ResultOf("approve")
    /\ \/ includer.result = "ok" /\ Settle("acked", {})
       \/ includer.result = "rpc" /\ Settle("acked", {"ERROR"})
       \/ Settle("republished", {})

\* broadcast_refund_message returns Ok also when its send has failed.
RefundResult ==
    /\ ResultOf("refund")
    /\ Settle(IF includer.result = "error" THEN "republished" ELSE "acked", {})

RelayNext ==
    \/ UserTransacts \/ ExecuteTask \/ GatewayTxTask \/ RefundTask
    \/ PostAnswered \/ ExecuteResult \/ GatewayTxResult \/ RefundResult
    \/ ChainRuns
    \/ ParserStep /\ UNCHANGED <<job, sent, includer>>

RelaySpec == RelayInit /\ [][RelayNext]_relayVars

----------------------------------------------------------------------------
(* The collected parsers point into the part of the trace scanned so far,   *)
(* each transaction is collected once, and a key has one credit.            *)
RelayTypeOK ==
    /\ stage \in {"idle", "sent", "parsing", "recording", "done", "failed", "unsent"}
    /\ at \in 0 .. Len(trace) + 1
    /\ \A i \in DOMAIN parsers : parsers[i].tx \in 0 .. at - 1
    /\ \A i, j \in DOMAIN calls : i < j => calls[i].tx < calls[j].tx
    /\ \A c, d \in credits : c.key = d.key => c = d

EventsOf(type) == {events[i] : i \in {i \in DOMAIN events : events[i].type = type}}

\* The transactions of a user's trace come after the user's own.
ActsAt(account, ops) == {i \in DOMAIN job.acts : job.acts[i].op \in ops /\ job.acts[i].account = account}
UserCalls == ActsAt(Gateway, {"CALL_CONTRACT"})
UserPayments ==
    {i \in ActsAt(GasService, {"PAY_GAS", "PAY_NATIVE_GAS_FOR_CONTRACT_CALL", "USER_BALANCE_SUBTRACTED"}) :
        ~job.acts[i].topup}

(* A gas payment credits a call of its own trace that it was made for, one  *)
(* with its chain, address and payload hash, wherever in the trace the two  *)
(* are; it credits one call, with the amount in TON; and unless another     *)
(* payment has the same key it is not forgotten.                            *)
PaymentsCredited ==
    stage = "done" /\ job.kind = "user" =>
        \A i \in UserPayments :
            LET credit == {e \in EventsOf("GAS_CREDIT") : e.id = i + 1}
                made == {j \in UserCalls : job.acts[j].key = job.acts[i].key}
                alone == \A k \in UserPayments \ {i} : job.acts[k].key # job.acts[i].key
            IN  /\ Cardinality(credit) <= 1
                /\ \A e \in credit : /\ \E j \in made : e.message = MessageId(j + 1)
                                     /\ job.acts[i].op # "USER_BALANCE_SUBTRACTED" => e.amount = job.acts[i].amount
                /\ alone /\ made # {} => credit # {}

\* By how much the balance of an account changed, from its own view.
BalanceChange(a) ==
    SumFunction([i \in DOMAIN trace |->
        SumFunction([j \in DOMAIN trace[i].out_msgs |->
            LET msg == trace[i].out_msgs[j] IN
            (IF msg.destination = a THEN msg.value ELSE 0)
            - (IF trace[i].account = a THEN msg.fwd_fee + msg.value ELSE 0)])
        - (IF trace[i].account = a THEN trace[i].total_fees ELSE 0)])
Spent == -SumFunction([a \in Ours |-> BalanceChange(a)])

(* The cost reported for an executed message is what the relayer's wallets, *)
(* gateway and gas service are poorer by after the trace, transfers between *)
(* them not counted; it is never negative.                                  *)
ExecutionCost ==
    stage = "done" => \A e \in EventsOf("MESSAGE_EXECUTED") : e.amount = Max({Spent, 0})

(* The messages approved by one transaction are charged no more than it     *)
(* cost, and the division loses less than one unit for each.                *)
ApprovalCosts ==
    stage = "done" /\ EventsOf("MESSAGE_APPROVED") # {} =>
        LET charged == SumFunction([e \in EventsOf("MESSAGE_APPROVED") |-> e.amount])
        IN  charged <= Spent /\ Spent < charged + Cardinality(EventsOf("MESSAGE_APPROVED"))

(* A task that is acknowledged is with the chain, or Axelar has been told   *)
(* that its message cannot be executed; told for want of gas, it was never  *)
(* sent.  The exception is a refund, which is dropped when too little is    *)
(* left or when its send fails.                                             *)
NoTaskDropped ==
    /\ includer.task = "acked" /\ stage = "unsent" =>
          includer.told # {} \/ (job.kind = "refund" /\ includer.result \in {"gas", "rpc"})
    /\ "INSUFFICIENT_GAS" \in includer.told => sent = Empty /\ trace = <<>>

(* What a refund's sender is charged is what the refund cost beyond the     *)
(* refunded amount, and the user never receives more than was left.         *)
RefundCost ==
    stage = "done" /\ job.kind = "refund" =>
        /\ Cardinality(EventsOf("GAS_REFUNDED")) = 1
        /\ LET refunded == job.remaining - native_gas_refund_estimate IN
           \A e \in EventsOf("GAS_REFUNDED") : e.amount + refunded = Spent

(* The relayer recognises the outcome of its own transaction: a message it  *)
(* executed is reported once, as executed or as not executable, with the id *)
(* and the chain of the task, read through two layers of envelope; every    *)
(* message of an approval is reported approved, under its own id.           *)
OutcomeNamesTask ==
    stage = "done" =>
        /\ job.kind = "execute" =>
              LET m == <<job.message.message_id, job.message.source_chain>>
                  names(type) == {e.message : e \in EventsOf(type)}
              IN  /\ names("MESSAGE_EXECUTED") = IF job.outcome \in {"executed", "executed_log_last"} THEN {m} ELSE {}
                  /\ names("CANNOT_EXECUTE") = IF job.outcome \in {"short", "action"} THEN {m} ELSE {}
                  /\ Len(events) <= 1
        /\ job.kind = "approve" =>
              /\ {e.message : e \in EventsOf("MESSAGE_APPROVED")}
                    = {<<m.message_id, m.source_chain>> : m \in Range(job.messages)}
              /\ Len(events) = Len(job.messages)

(* The message that the broadcaster sends for an execution carries the      *)
(* task's payload and text, at every length up to and beyond the boundaries *)
(* of a cell.                                                               *)
EncodingReadBack ==
    stage = "sent" /\ job.kind = "execute" =>
        LET message == Body(sent).refs[1]
            m == job.message
        IN  /\ cell_to_buffer(message.refs[1]) = m.message_id
            /\ cell_to_buffer(message.refs[4].refs[1]) = m.payload
            /\ cell_to_buffer(message.refs[4].refs[3]) = m.destination_chain
            /\ BuffersRoundTrip(Buffers)

(* What the relayer charges for executions, approvals and refunds is what   *)
(* they cost it.                                                            *)
CostsCharged == ExecutionCost /\ ApprovalCosts /\ RefundCost

(* A task that is acknowledged is with the chain, or Axelar was told that   *)
(* it failed, or it is a refund that was dropped; and its trace is reported *)
(* once, under its id, if the outcome is one that a parser knows.  (The     *)
(* trace of an execution that was not approved has no event.)               *)
TasksAnswered == RelayTypeOK /\ NoTaskDropped /\ OutcomeNamesTask

(* What the relayer encodes is read back unchanged, and of the two logs     *)
(* with one operation code neither is read as the other.                    *)
MessagesReadBack == EncodingReadBack /\ PaymentIsNoTopUp
=============================================================================

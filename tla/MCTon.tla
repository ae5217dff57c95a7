------------------------------- MODULE MCTon -------------------------------
(* Small instances of TonTraces and TonRelay.  The two share no state, so a *)
(* behaviour has the steps of one of them.                                  *)
(*                                                                          *)
(* TonTraces: two traces, one of both accounts and one of the gateway       *)
(* alone.  TonRelay: two calls whose keys differ only in the payload hash,  *)
(* payments for each in TON and in a jetton with and without a price,       *)
(* top-ups, a log that cannot be read and a contract that imitates the      *)
(* gateway; messages with a text of one cell and of two, and payloads that  *)
(* are not text.                                                            *)
EXTENDS TonTraces, TonRelay, TLC

CONSTANTS t1, t2, gateway, gas_service

tonVars == <<vars, relayVars>>
TonInit == Init /\ RelayInit
TonNext ==
    \/ RelayInit /\ Next /\ UNCHANGED relayVars
    \/ Init /\ RelayNext /\ UNCHANGED vars

\* The fairness of TonTraces.
TonFairness ==
    /\ \A s \in Subscribers : WF_tonVars(Progress(s) /\ UNCHANGED relayVars)
    /\ WF_tonVars(Start /\ UNCHANGED relayVars)

TonSpec == TonInit /\ [][TonNext]_tonVars /\ TonFairness

MCTouchedBy == t1 :> {gateway, gas_service} @@ t2 :> {gateway}
MCStartLt == t1 :> 1 @@ t2 :> 3
MCEndLt == t1 :> 2 @@ t2 :> 4

k1 == <<<<1>>, <<2, 3, 4>>, <<7>>>>
k2 == <<<<1>>, <<2, 3, 4>>, <<8>>>>
kBad == <<<<BadUtf8>>, <<2>>, <<7>>>>

Act(account, op, key) ==
    [account |-> account, op |-> op, key |-> key, amount |-> 5, minter |-> "jetton", topup |-> FALSE]

MCActs ==
    {Act("gateway", "CALL_CONTRACT", k) : k \in {k1, k2, kBad}}
    \cup {Act("gas_service", "PAY_GAS", k) : k \in {k1, k2}}
    \cup {Act("gas_service", "PAY_NATIVE_GAS_FOR_CONTRACT_CALL", k1),
          Act("gas_service", "USER_BALANCE_SUBTRACTED", k1),
          Act("gas_service", "ADD_NATIVE_GAS", k1),
          [Act("gas_service", "USER_BALANCE_SUBTRACTED", k1) EXCEPT !.topup = TRUE],
          [Act("gas_service", "USER_BALANCE_SUBTRACTED", k2) EXCEPT !.minter = "unpriced"],
          Act("imitation", "CALL_CONTRACT", k1)}

Message(id, payload) ==
    [message_id |-> id, source_chain |-> <<9>>, source_address |-> <<3, 4>>, destination_address |-> <<5>>,
     destination_chain |-> <<6, 6, 6>>, payload |-> payload, decodes |-> TRUE]

MCMessages == {Message(<<1>>, <<>>), Message(<<1, 2, 3>>, <<BadUtf8, 0, 1, 2>>),
               [Message(<<2>>, <<1>>) EXCEPT !.source_chain = <<9, 9>>, !.decodes = FALSE]}

MCPrice == "TON" :> 4 @@ "jetton" :> 6

MCEstimate ==
    [execute_base |-> 3, execute_payload |-> 1, execute_storage_slippage |-> 1, execute_send_min |-> 6,
     approve_send |-> 20, highload_wallet_send |-> 2, native_gas_refund |-> 3,
     native_gas_refund_storage_slippage |-> 1]

MCBuffers == UNION {[1 .. n -> 0 .. 1] : n \in 0 .. 7}
=============================================================================

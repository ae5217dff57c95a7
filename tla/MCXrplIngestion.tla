--------------------------- MODULE MCXrplIngestion --------------------------
(* Small instances of the XRPL subscriber and ingestor. *)
EXTENDS XrplIngestion, TLC

MCChain == <<1, 2>>
MCCopies == {1, 2}

Tx(type, account, destination, memos, message, token, amount, gas, translates) ==
    [type |-> type, account |-> account, destination |-> destination, memos |-> memos,
     message |-> message, token |-> token, amount |-> amount, gas |-> gas,
     translates |-> translates]

Payment(memos, message, gas) ==
    Tx("Payment", "user", "multisig", memos, message, "XRP", 2, gas, TRUE)

TransferMemos == {"type", "gas_fee_amount", "destination_chain", "destination_address"}

\* Issued amounts are more precise than a token unit, and prices are odd.
MCUnit == "priced" :> 4 @@ "demo" :> 1 @@ "unpriced" :> 10
MCStoredPrice == "priced" :> 7
MCDemoRate == "demo" :> 5

\* Every kind of message, and every way in which one is skipped or dropped.
MCShapes ==
    {Payment(TransferMemos \cup {"payload"}, "transfer", 1),
     Payment(TransferMemos \cup {"payload", "payload_hash"}, "transfer", 1),
     Payment(TransferMemos, "transfer", 3),
     [Payment(TransferMemos, "transfer", 2) EXCEPT !.translates = FALSE],
     [Payment(TransferMemos, "transfer", 3) EXCEPT !.token = "priced", !.amount = 8],
     Payment(TransferMemos \cup {"payload_hash"}, "call", 0),
     [Payment(TransferMemos \cup {"payload"}, "call", 0) EXCEPT !.token = "unpriced"],
     Payment(TransferMemos, "call", 0),
     [Payment({"type", "msg_id"}, "add_gas", 0) EXCEPT !.token = "demo", !.amount = 7],
     Payment({"type"}, "add_reserves", 0),
     [Payment({"type"}, "add_reserves", 0) EXCEPT !.token = "priced"],
     Payment({}, "transfer", 0),
     Tx("Payment", "multisig", "user", {"unsigned_tx_hash", "message_id", "source_chain"},
        "prover", "XRP", 2, 0, TRUE),
     Tx("Payment", "multisig", "user", {"unsigned_tx_hash"}, "prover", "XRP", 2, 0, TRUE),
     Tx("Payment", "multisig", "user", {}, "prover", "XRP", 2, 0, TRUE),
     Tx("TicketCreate", "multisig", "multisig", {"unsigned_tx_hash"}, "prover", "XRP", 0, 0, TRUE),
     Tx("TrustSet", "user", "multisig", {}, "prover", "XRP", 0, 0, TRUE),
     Tx("OfferCreate", "user", "user", {}, "prover", "XRP", 0, 0, TRUE)}

=============================================================================

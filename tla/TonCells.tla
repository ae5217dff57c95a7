------------------------------ MODULE TonCells ------------------------------
(***************************************************************************)
(* The cells of TON messages: the bodies the broadcaster builds, the       *)
(* envelope its high-load wallet sends them in, and the bodies the         *)
(* transaction parser reads.  A cell is a sequence of typed fields and a   *)
(* sequence of references; a load fails on a field of another type and on  *)
(* a missing field or reference.  Text and payloads are sequences of       *)
(* bytes, kept in chains of cells.                                         *)
(***************************************************************************)
EXTENDS Integers, SequencesExt

CONSTANT BytesPerCell   \* 96 in the code

ASSUME CellsAssumption == BytesPerCell \in Nat \ {0}

BadUtf8 == 255          \* the one byte of the model that is not UTF-8

Field(type, value) == [type |-> type, value |-> value]
Cell(data, refs) == [data |-> data, refs |-> refs]
Fails == [ok |-> FALSE]

\* A parser loads fields of these types in this order, and n references.
Loads(cell, types, n) ==
    /\ Len(cell.data) >= Len(types) /\ Len(cell.refs) >= n
    /\ \A i \in DOMAIN types : cell.data[i].type = types[i]
Data(cell, i) == cell.data[i].value

----------------------------------------------------------------------------
(* Buffers.  A chain of cells is the sequence of its cells, each with its   *)
(* bytes: the first reference of a cell is the next cell of the chain.       *)

\* How many cells a buffer takes; an empty one takes an empty cell.
CellsFor(buffer) == IF buffer = <<>> THEN 1 ELSE (Len(buffer) - 1) \div BytesPerCell + 1

build_cell_chain(buffer) ==
    [k \in 1 .. CellsFor(buffer) |->
        SubSeq(buffer, (k - 1) * BytesPerCell + 1, Min({k * BytesPerCell, Len(buffer)}))]

\* At most BytesPerCell bytes of a cell are read.
BytesRead(cell) == SubSeq(cell, 1, Min({BytesPerCell, Len(cell)}))

\* Mutant: only the first cell is read.
cell_to_buffer_first(chain) == BytesRead(chain[1])

\* A cell is read, then its first reference.
cell_to_buffer(chain) == FlattenSeq([k \in DOMAIN chain |-> BytesRead(chain[k])])

\* cell_to_string is cell_to_buffer and a check for UTF-8.
IsString(chain) == \A i \in DOMAIN cell_to_buffer(chain) : cell_to_buffer(chain)[i] # BadUtf8

----------------------------------------------------------------------------
(* Messages the relayer builds *)

RelayerExecute(m, wallet) ==
    LET inner == Cell(<<Field("bits256", <<"hash", m.payload>>)>>,
                      <<build_cell_chain(m.payload), build_cell_chain(m.destination_address),
                        build_cell_chain(m.destination_chain)>>)
        message == Cell(<<>>, <<build_cell_chain(m.message_id), build_cell_chain(m.source_chain),
                                build_cell_chain(m.source_address), inner>>)
    IN  Cell(<<Field("op", "RELAYER_EXECUTE"), Field("address", wallet)>>, <<message>>)

NativeRefund(tx_hash, address, amount) ==
    Cell(<<Field("op", "NATIVE_REFUND"), Field("bits256", tx_hash), Field("address", address),
           Field("coins", amount)>>, <<>>)

\* out_action: an internal message that refers to its body.
OutAction(body, value, dest) ==
    Cell(<<Field("info", [dest |-> dest, value |-> value])>>, <<body>>)

\* An OutList of one action refers to the list before it and to the message.
internal_transfer_body(action, query_id) ==
    LET out_list == Cell(<<Field("mode", "IGNORE_ERRORS")>>, <<Cell(<<>>, <<>>), action>>)
    IN  Cell(<<Field("op", "INTERNAL_TRANSFER"), Field("u64", query_id)>>, <<out_list>>)

internal_transfer_message_cell(body, value, wallet) == OutAction(body, value, wallet)

message_inner(message, query_id) == Cell(<<Field("query_id", query_id)>>, <<message>>)

sign_external_body(body) == Cell(<<Field("signature", Data(body, 1))>>, <<body>>)

wrap_signed_body(signed, wallet) == Cell(<<Field("ext_in", wallet)>>, <<signed>>)

outgoing_message(action, query_id, value, wallet) ==
    LET transfer == internal_transfer_message_cell(internal_transfer_body(action, query_id), value, wallet)
    IN  wrap_signed_body(sign_external_body(message_inner(transfer, query_id)), wallet)

----------------------------------------------------------------------------
(* Messages the parser reads *)

CallContract(c) ==
    IF Loads(c, <<"address", "bits256">>, 3) /\ IsString(c.refs[1]) /\ IsString(c.refs[2])
    THEN [ok |-> TRUE, destination_chain |-> cell_to_buffer(c.refs[1]),
          destination_address |-> cell_to_buffer(c.refs[2]), payload |-> cell_to_buffer(c.refs[3]),
          payload_hash |-> Data(c, 2)]
    ELSE Fails

NativeGasPaid(c) ==
    IF /\ Loads(c, <<"address", "bits256", "bits256">>, 3) /\ Loads(c.refs[1], <<"address">>, 0)
       /\ IsString(c.refs[2]) /\ IsString(c.refs[3])
    THEN [ok |-> TRUE, payload_hash |-> Data(c, 2), amount |-> Data(c, 3),
          destination_chain |-> cell_to_buffer(c.refs[2]),
          destination_address |-> cell_to_buffer(c.refs[3])]
    ELSE Fails

JettonGasPaid(c) ==
    IF /\ Loads(c, <<"address", "coins", "bits256">>, 3) /\ Loads(c.refs[1], <<"address">>, 0)
       /\ IsString(c.refs[2]) /\ IsString(c.refs[3])
    THEN [ok |-> TRUE, minter |-> Data(c, 1), amount |-> Data(c, 2), payload_hash |-> Data(c, 3),
          destination_chain |-> cell_to_buffer(c.refs[2]),
          destination_address |-> cell_to_buffer(c.refs[3])]
    ELSE Fails

JettonGasAdded(c) ==
    IF Loads(c, <<"address", "address", "coins", "bits256">>, 1) /\ Loads(c.refs[1], <<"address">>, 0)
    THEN [ok |-> TRUE, minter |-> Data(c, 1), amount |-> Data(c, 3), tx_hash |-> Data(c, 4)]
    ELSE Fails

(* The bits behind it: the loads of JettonGasAdded on the body of a payment *)
(* find coins, of len bytes, where a sender should be.  load_address takes  *)
(* two bits for the absent address and 267 for a standard one; lead is the  *)
(* pair of bits after the length; coins and a hash must still be there.     *)
AddedFitsPaid(len, lead) ==
    LET left(taken, bytes) == 4 + 8 * len + 256 - taken - 4 - 8 * bytes
    IN  \/ len \div 4 = 0 /\ left(2, (len % 4) * 4 + lead) >= 256
        \/ len \div 4 = 2 /\ \E bytes \in 0 .. 15 : left(267, bytes) >= 256

NativeGasAdded(c) ==
    IF Loads(c, <<"bits256", "address", "bits256">>, 0)
    THEN [ok |-> TRUE, tx_hash |-> Data(c, 1), amount |-> Data(c, 3)]
    ELSE Fails

NativeGasRefunded(c) ==
    IF Loads(c, <<"bits256", "address", "coins">>, 0)
    THEN [ok |-> TRUE, tx_hash |-> Data(c, 1), amount |-> Data(c, 3)]
    ELSE Fails

NullifiedSuccessfully(c) ==
    IF /\ Loads(c, <<"op">>, 4) /\ Data(c, 1) = "NULLIFIED_SUCCESSFULLY"
       /\ \A i \in 1 .. 3 : IsString(c.refs[i])
       /\ Loads(c.refs[4], <<>>, 3) /\ IsString(c.refs[4].refs[3])
    THEN [ok |-> TRUE, message_id |-> cell_to_buffer(c.refs[1]),
          source_chain |-> cell_to_buffer(c.refs[2])]
    ELSE Fails

\* AddressBytes: the length of a destination address, 32 in the code.
AddressBytes == 1

CCMessage(c) ==
    IF /\ Loads(c, <<>>, 4) /\ \A i \in 1 .. 3 : IsString(c.refs[i])
       /\ Loads(c.refs[4], <<"bits256">>, 2)
       /\ Len(cell_to_buffer(c.refs[4].refs[1])) = AddressBytes /\ IsString(c.refs[4].refs[2])
    THEN [ok |-> TRUE, message_id |-> cell_to_buffer(c.refs[1]),
          source_chain |-> cell_to_buffer(c.refs[2]),
          payload_hash |-> Data(c.refs[4], 1)]
    ELSE Fails

\* The message an internal transfer to the gateway carries: the second
\* reference of the action list, its body, and the body's message.
RelayerExecuteWrapped(c) ==
    LET Has(d, n) == Len(d.refs) >= n
        list == c.refs[1]
        body == list.refs[2].refs[1]
        message == body.refs[1]
    IN  IF /\ Has(c, 1) /\ Has(list, 2) /\ Has(list.refs[2], 1) /\ Has(body, 1) /\ Has(message, 2)
           /\ IsString(message.refs[1]) /\ IsString(message.refs[2])
        THEN [ok |-> TRUE, message_id |-> cell_to_buffer(message.refs[1]),
              source_chain |-> cell_to_buffer(message.refs[2])]
        ELSE Fails

\* One message of an approval.
parse_approve_messages(c) ==
    IF /\ Loads(c, <<"bits256">>, 4) /\ \A i \in 1 .. 3 : IsString(c.refs[i])
       /\ Loads(c.refs[4], <<>>, 2) /\ IsString(c.refs[4].refs[2])
    THEN [ok |-> TRUE, message_id |-> cell_to_buffer(c.refs[1]),
          source_chain |-> cell_to_buffer(c.refs[2]), payload_hash |-> Data(c, 1)]
    ELSE Fails

\* The prover's blob: a proof, and a dictionary whose values are messages.
\* One that does not parse fails the blob.
ApproveMessages(c) ==
    IF /\ Loads(c, <<"op">>, 2) /\ Data(c, 1) = "APPROVE_MESSAGES"
       /\ \A i \in DOMAIN c.refs[2].refs : parse_approve_messages(c.refs[2].refs[i]).ok
    THEN [ok |-> TRUE, messages |-> [i \in DOMAIN c.refs[2].refs |->
                                        parse_approve_messages(c.refs[2].refs[i])]]
    ELSE Fails

----------------------------------------------------------------------------
(* What is written to a chain of cells is read back, whatever its length:   *)
(* build_cell_chain splits at BYTES_PER_CELL and cell_to_buffer goes from   *)
(* cell to cell, each of which may be full, partial or empty.               *)
BuffersRoundTrip(buffers) ==
    \A b \in buffers : cell_to_buffer(build_cell_chain(b)) = b
=============================================================================

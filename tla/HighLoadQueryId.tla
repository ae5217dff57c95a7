-------------------------- MODULE HighLoadQueryId --------------------------
(***************************************************************************)
(* The query ids of a high-load wallet (ton/src/high_load_query_id.rs): a  *)
(* shift and a bit number, sent to the wallet contract as one integer.     *)
(***************************************************************************)
EXTENDS Integers

CONSTANTS
    MaxShift,        \* MAX_SHIFT, 8191
    MaxBitnumber,    \* MAX_BITNUMBER, 1022
    BitnumberRange   \* 2 ^ BITNUMBER_SIZE, 1024

ASSUME QueryIdAssumption ==
    /\ MaxShift \in Nat
    /\ MaxBitnumber \in Nat /\ MaxBitnumber >= 2
    /\ BitnumberRange \in Nat
    /\ MaxBitnumber < BitnumberRange

\* What from_shift_and_bitnumber accepts.
QueryId == [shift : 0..MaxShift, bitnumber : 0..MaxBitnumber]

FirstId == [shift |-> 0, bitnumber |-> 0]

\* query_id(): (shift << BITNUMBER_SIZE) + bitnumber.
QueryIdOf(q) == q.shift * BitnumberRange + q.bitnumber

\* The error next() returns, or "ok".
NextError(q) ==
    IF q.shift = MaxShift /\ q.bitnumber + 1 = MaxBitnumber - 1
    THEN "EmergencyOverload"
    ELSE IF q.bitnumber + 1 > MaxBitnumber /\ q.shift + 1 > MaxShift
         THEN "ShiftOverflow"
         ELSE "ok"

\* Mutant: the bit number rolls over one too late.
NextIdLateRollover(q) ==
    IF q.bitnumber > MaxBitnumber
    THEN [shift |-> q.shift + 1, bitnumber |-> 0]
    ELSE [shift |-> q.shift, bitnumber |-> q.bitnumber + 1]

\* The id next() returns when it returns one.
NextId(q) ==
    IF q.bitnumber + 1 > MaxBitnumber
    THEN [shift |-> q.shift + 1, bitnumber |-> 0]
    ELSE [shift |-> q.shift, bitnumber |-> q.bitnumber + 1]

HasNext(q) == ~(q.bitnumber >= MaxBitnumber - 1 /\ q.shift = MaxShift)
=============================================================================

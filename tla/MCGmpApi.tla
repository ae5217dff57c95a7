------------------------------ MODULE MCGmpApi ------------------------------
(* Two workers, of which the second posts an event of the first again. *)
EXTENDS GmpApi

CONSTANTS w1, w2, e1, e2, t1, t2

MCBatches == [w \in {w1, w2} |-> IF w = w1 THEN <<e1, e2>> ELSE <<e2>>]
=============================================================================

---------------------------- MODULE MCProofLoop ----------------------------
(* Two proofs of a message, or two ticket creations.                        *)
EXTENDS ProofLoop

MCProofs == 1 .. 2
=============================================================================

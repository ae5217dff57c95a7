--------------------------- MODULE MCDistributor ---------------------------
(* Small instances of Distributor: a few tasks of every treatment, pages of  *)
(* two.                                                                      *)
EXTENDS Distributor

\* One task of each treatment: for the ingestor, a refund (they are switched
\* off), one that does not parse, for the includer.
MCKindOf == <<"Verify", "Refund", "Verify", "GatewayTx">>
=============================================================================

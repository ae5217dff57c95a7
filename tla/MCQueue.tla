------------------------------ MODULE MCQueue ------------------------------
(* Small instances of Queue: one producer (a distributor or subscriber),    *)
(* one consumer (an includer or ingestor), one or two items.                *)
EXTENDS Queue

CONSTANTS
    dist, incl,   \* the processes
    a, b          \* the items
=============================================================================

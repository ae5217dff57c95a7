-------------------------- MODULE AtLeastOnceQueue --------------------------
(***************************************************************************)
(* What a relayer queue promises about the items handed to publish(): an   *)
(* item is volatile while only a process's memory holds it, durable once   *)
(* the broker does, and a durable item is kept until a worker is done with *)
(* it.  Two things take it out of the broker's hands before that: an       *)
(* operator who drops it from the dead-letter queue, and, for an item the  *)
(* workers find irrelevant, the forced requeue, which passes through the   *)
(* consumer's memory.                                                      *)
(***************************************************************************)
CONSTANTS Items, Misrouted

VARIABLES
    status,     \* [Items -> Status]
    discarded   \* the items an operator dropped at some time

Status == {"new", "volatile", "durable", "done", "gone"}

Init ==
    /\ status \in [Items -> {"new", "durable"}]
    /\ discarded = {}

\* The status of i goes from old to new, with dropped the items discarded by
\* the end of the step.
Allowed(i, old, new, dropped) ==
    \/ old = new
    \/ old = "new" /\ new \in {"volatile", "gone"}
    \/ old = "volatile" /\ new \in {"durable", "gone"}
    \/ old = "durable" /\ new = "done"
    \/ old = "durable" /\ new = "volatile" /\ i \in Misrouted
    \/ old \in {"volatile", "durable", "gone"} /\ i \in dropped /\ new # "new"

Next ==
    /\ status' \in [Items -> Status]
    /\ discarded \subseteq discarded'
    /\ discarded' \subseteq Items
    /\ \A i \in Items : Allowed(i, status[i], status'[i], discarded')

Spec == Init /\ [][Next]_<<status, discarded>>
=============================================================================

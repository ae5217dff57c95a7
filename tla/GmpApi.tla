------------------------------- MODULE GmpApi -------------------------------
(***************************************************************************)
(* The client of the GMP API as the workers see it: the audit decorator    *)
(* passes broadcasts through and audits events and tasks.  Broadcasts and  *)
(* audited calls share no state, so a behaviour makes calls of one kind.   *)
(***************************************************************************)
EXTENDS GmpBroadcast, GmpAudit

vars == <<broadcastVars, auditVars>>

Init == BroadcastInit /\ AuditInit

Audited == fetched # {} \/ dbFaults > 0 \/ calls > 0

Next ==
    \/ ~Audited /\ BroadcastNext /\ UNCHANGED auditVars
    \/ pc = "idle" /\ AuditNext /\ UNCHANGED broadcastVars

(* A call that was started runs on, and so does a spawned write: they wait  *)
(* only for HTTP answers, which are timed out, and for the database.        *)
Fairness ==
    /\ WF_vars(ClientStep /\ pc # "idle" /\ UNCHANGED auditVars)
    /\ \A w \in Workers : WF_vars(WorkerStep(w) /\ UNCHANGED broadcastVars)
    /\ WF_vars(SpawnedWrite /\ UNCHANGED broadcastVars)

Spec == Init /\ [][Next]_vars /\ Fairness

(* The type invariant of the client and of the audit. *)
TypeOK == BroadcastTypeOK /\ AuditTypeOK

(* The audit is true to the calls: an event is on record before it is       *)
(* posted, and a response on record was given for that event.  The parts    *)
(* below them make this inductive, with what a broadcast knows of itself.   *)
AuditInv ==
    /\ TypeOK /\ AuditedBeforePosted /\ ResponseIsOwn
    /\ InsertedFirst /\ PendingIsOwn
    /\ AcceptedInOrder /\ StageKnows

(* A broadcast that was started comes back to its caller, and the audit of  *)
(* a call is completed after it.                                            *)
CallsComplete == BroadcastReturns /\ AuditCatchesUp
=============================================================================

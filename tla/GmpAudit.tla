------------------------------ MODULE GmpAudit ------------------------------
(***************************************************************************)
(* GmpApiDbAuditDecorator: events are written to gmp_events before they    *)
(* are posted; the GMP API's answers are written afterwards by tasks that  *)
(* nobody waits for, its errors before the call returns.  Workers post     *)
(* concurrently, and a retried item posts its events again, which adds     *)
(* rows: a response is written to every row of its event.  Fetched tasks   *)
(* are written by spawned tasks as well.                                   *)
(***************************************************************************)
EXTENDS Integers, Sequences, FiniteSets, Functions

CONSTANTS
    Workers,
    Batches,        \* the batches of events that the workers post, by worker
    Tasks,          \* the tasks of one page
    Malformed,      \* those of them that parse_task cannot read
    MaxCalls,       \* bound: calls of post_events, retries of a batch included
    MaxDbFaults     \* bound: failed writes and stops of the process, together

Events == UNION {Range(Batches[w]) : w \in Workers}

ASSUME AuditAssumption ==
    /\ DOMAIN Batches = Workers
    /\ \A w \in Workers : Batches[w] \in Seq(Events) /\ Len(Batches[w]) > 0
    /\ Malformed \subseteq Tasks /\ MaxCalls \in Nat /\ MaxDbFaults \in Nat

VARIABLES
    stage,      \* of each worker: idle, insert, call, save or done
    next,       \* the next event of its batch to write
    calls,      \* calls made
    rows,       \* the responses in the rows of an event, in order of insertion
    spawned,    \* writes that nobody waits for
    received,   \* events that reached the GMP API
    given,      \* answers the relayer got for an event
    unanswered, \* history: events that the last answer to a call left out
    fetched,    \* tasks returned by get_tasks_action
    taskRows,   \* tasks in gmp_tasks
    unsaved,    \* events and tasks with a write that failed or was dropped
    dbFaults

auditVars == <<stage, next, calls, rows, spawned, received, given, unanswered, fetched, taskRows, unsaved, dbFaults>>

None == "none"
Answers == {"ACCEPTED", "RETRY", "error"}

AuditInit ==
    /\ stage = [w \in Workers |-> "idle"] /\ next = [w \in Workers |-> 1]
    /\ calls = 0
    /\ rows = [e \in Events |-> <<>>]
    /\ spawned = {} /\ received = {} /\ given = {} /\ unanswered = {}
    /\ fetched = {} /\ taskRows = {}
    /\ unsaved = {} /\ dbFaults = 0

DbFault(x) == dbFaults < MaxDbFaults /\ dbFaults' = dbFaults + 1 /\ unsaved' = unsaved \cup x
NoFault == UNCHANGED <<unsaved, dbFaults>>

StartPost(w) ==
    /\ stage[w] \in {"idle", "failed"} /\ calls < MaxCalls
    /\ stage' = [stage EXCEPT ![w] = "insert"] /\ next' = [next EXCEPT ![w] = 1]
    /\ calls' = calls + 1
    /\ UNCHANGED <<rows, spawned, received, given, unanswered, fetched, taskRows, unsaved, dbFaults>>

\* On to the next event of the batch, or to what follows the last.
Advance(w, then) ==
    /\ next' = [next EXCEPT ![w] = IF @ < Len(Batches[w]) THEN @ + 1 ELSE 1]
    /\ stage' = [stage EXCEPT ![w] = IF next[w] < Len(Batches[w]) THEN @ ELSE then]

(* insert_event; a failed insert is logged. *)
InsertEvent(w) ==
    /\ stage[w] = "insert"
    /\ LET e == Batches[w][next[w]] IN
       \/ rows' = [rows EXCEPT ![e] = Append(@, None)] /\ NoFault
       \/ DbFault({e}) /\ UNCHANGED rows
    /\ Advance(w, "call")
    /\ UNCHANGED <<calls, spawned, received, given, unanswered, fetched, taskRows>>

(* update_event_response writes to all rows with the event's id. *)
Updated(e, response) == [rows EXCEPT ![e] = [i \in DOMAIN @ |-> response]]

(* The GMP API answers with results that name their event by an index.      *)
(* Nothing checks that there is one for each event: an index may be out of  *)
(* bounds, which is logged, come twice, or be left out.  A result with an   *)
(* index of the batch is written by a spawned task.                         *)
Results(w) == [index : 1 .. Len(Batches[w]) + 1, status : {"ACCEPTED", "RETRY"}]
\* Mutant: every result is written to the first event.
EventOfFirst(w, index) == Batches[w][1]

EventOf(w, index) == Batches[w][index]

PostOk(w) ==
    /\ stage[w] = "call"
    /\ \E results \in SUBSET Results(w) :
          LET named == {r \in results : r.index \in DOMAIN Batches[w]} IN
          /\ spawned' = spawned \cup
                {[event |-> EventOf(w, r.index), response |-> r.status] : r \in named}
          /\ given' = given \cup {<<Batches[w][r.index], r.status>> : r \in named}
          /\ unanswered' = (unanswered \cup Range(Batches[w])) \ {Batches[w][r.index] : r \in named}
          /\ stage' = [stage EXCEPT ![w] = IF \E r \in results : r.status = "RETRY"
                                           THEN "failed" ELSE "done"]
    /\ received' = received \cup Range(Batches[w])
    /\ UNCHANGED <<next, calls, rows, fetched, taskRows, unsaved, dbFaults>>

(* The request fails, before or after the events arrived; the error is      *)
(* written for every event before the call returns it.                      *)
PostErr(w) ==
    /\ stage[w] = "call"
    /\ stage' = [stage EXCEPT ![w] = "save"]
    /\ given' = given \cup {<<Batches[w][i], "error">> : i \in DOMAIN Batches[w]}
    /\ unanswered' = unanswered \ Range(Batches[w])
    /\ received' \in {received, received \cup Range(Batches[w])}
    /\ UNCHANGED <<next, calls, rows, spawned, fetched, taskRows, unsaved, dbFaults>>

\* Mutant: the error is written for the first event only.
SaveErrorFirst(w) ==
    /\ stage[w] = "save" /\ stage' = [stage EXCEPT ![w] = "failed"]
    /\ rows' = Updated(Batches[w][1], "error")
    /\ UNCHANGED <<next, calls, spawned, received, given, unanswered, fetched, taskRows, unsaved, dbFaults>>

SaveError(w) ==
    /\ stage[w] = "save"
    /\ LET e == Batches[w][next[w]] IN
       \/ rows' = Updated(e, "error") /\ NoFault
       \/ DbFault({e}) /\ UNCHANGED rows
    /\ Advance(w, "failed")
    /\ UNCHANGED <<calls, spawned, received, given, unanswered, fetched, taskRows>>

WriteResponse(s) ==
    /\ s \in spawned /\ spawned' = spawned \ {s}
    /\ \/ rows' = Updated(s.event, s.response) /\ NoFault
       \/ DbFault({s.event}) /\ UNCHANGED rows
    /\ UNCHANGED <<stage, next, calls, received, given, unanswered, fetched, taskRows>>

(* get_tasks_action: tasks that cannot be read are left out. *)
Parsed == Tasks \ Malformed

GetTasksAction ==
    /\ fetched = {} /\ fetched' = Parsed
    /\ UNCHANGED <<stage, next, calls, rows, spawned, received, given, unanswered, taskRows, unsaved, dbFaults>>

InsertTask(t) ==
    /\ t \in fetched \ (taskRows \cup unsaved)
    /\ \/ taskRows' = taskRows \cup {t} /\ NoFault
       \/ DbFault({t}) /\ UNCHANGED taskRows
    /\ UNCHANGED <<stage, next, calls, rows, spawned, received, given, unanswered, fetched>>

(* The process stops: the spawned writes are lost, the calls too. *)
Posting(w) == stage[w] \in {"insert", "call", "save"}

ProcessStops ==
    /\ DbFault({s.event : s \in spawned} \cup (fetched \ taskRows)
               \cup UNION {Range(Batches[w]) : w \in {w \in Workers : Posting(w)}})
    /\ spawned' = {}
    /\ stage' = [w \in Workers |-> IF stage[w] \in {"done", "idle"} THEN stage[w] ELSE "failed"]
    /\ UNCHANGED <<next, calls, rows, received, given, unanswered, fetched, taskRows>>

WorkerStep(w) == InsertEvent(w) \/ PostOk(w) \/ PostErr(w) \/ SaveError(w)
SpawnedWrite == (\E s \in spawned : WriteResponse(s)) \/ (\E t \in Tasks : InsertTask(t))

AuditNext ==
    \/ \E w \in Workers : StartPost(w) \/ WorkerStep(w)
    \/ SpawnedWrite
    \/ GetTasksAction
    \/ ProcessStops

(* The types of the calls and rows; a task that cannot be read is not passed on. *)
AuditTypeOK ==
    /\ stage \in [Workers -> {"idle", "insert", "call", "save", "failed", "done"}]
    /\ next \in [Workers -> Nat] /\ \A w \in Workers : next[w] \in DOMAIN Batches[w]
    /\ calls \in 0 .. MaxCalls /\ dbFaults \in 0 .. MaxDbFaults
    /\ rows \in [Events -> Seq(Answers \cup {None})]
    /\ spawned \subseteq [event : Events, response : Answers] /\ given \subseteq Events \X Answers
    /\ unanswered \subseteq Events
    /\ received \subseteq Events /\ taskRows \subseteq fetched /\ fetched \subseteq Tasks \ Malformed

OnRecord(e) == rows[e] # <<>> \/ e \in unsaved

(* An event that reached the GMP API has a row, so that it can be inspected *)
(* whatever came of the call, unless its insert failed.                     *)
AuditedBeforePosted == \A e \in received : OnRecord(e)

(* A response in the audit table is one the relayer was given for that      *)
(* event, however the results were ordered and whichever call wrote last.   *)
ResponseIsOwn ==
    \A e \in Events : \A i \in DOMAIN rows[e] : rows[e][i] # None => <<e, rows[e][i]>> \in given

\* A worker calls when every event of its batch was inserted, or tried.
InsertedFirst ==
    \A w \in Workers : \A i \in DOMAIN Batches[w] :
        stage[w] = "call" \/ (stage[w] = "insert" /\ i < next[w]) => OnRecord(Batches[w][i])

\* What is still to be written was given for its event.
PendingIsOwn ==
    /\ \A s \in spawned : <<s.event, s.response>> \in given
    /\ \A w \in Workers : \A i \in DOMAIN Batches[w] :
          stage[w] = "save" => <<Batches[w][i], "error">> \in given

(* The audit catches up with what the relayer was told: every row of an     *)
(* event gets a response and every fetched task a row, whether the call     *)
(* succeeded or not, unless a write failed, the process was stopped, or the *)
(* GMP API's answer has no result for the event: its row then stays without *)
(* a response, and nobody notices.                                          *)
AuditCatchesUp ==
    /\ \A e \in Events :
          rows[e] # <<>> ~> e \in unsaved \cup unanswered \/ \A i \in DOMAIN rows[e] : rows[e][i] # None
    /\ \A t \in Tasks : t \in fetched ~> t \in taskRows \cup unsaved
=============================================================================

----------------------------- MODULE Distributor -----------------------------
(***************************************************************************)
(* The distributor (relayer_base/src/distributor.rs): pages through the    *)
(* tasks of the GMP API, remembers how far it got in Postgres and          *)
(* publishes each task to the includer's or the ingestor's queue.  The     *)
(* same code runs in a second process, with a context (a cursor) of its    *)
(* own, to replay a range of tasks                                         *)
(* (xrpl/src/bin/recovery/xrpl_task_recovery.rs).                          *)
(*                                                                         *)
(* Task ids are numbered in the API's order.  A queue is seen from its     *)
(* publisher: tasks in the process's buffer, tasks the broker confirmed    *)
(* (module Queue has the rest).                                            *)
(***************************************************************************)
EXTENDS Integers, FiniteSets

CONSTANTS
    NumTasks,         \* bound on the tasks the API ever has
    PageSize,         \* tasks in one answer of the API, at most
    KindOf,           \* [1..NumTasks -> task kinds]
    Unparsable,       \* tasks parse_task rejects
    IncluderKinds,    \* supported_includer_tasks
    IngestorKinds,    \* supported_ingestor_tasks
    RefundsEnabled,   \* refunds_enabled
    RecoveryKinds,    \* tasks_filter of the recovery settings
    From, To,         \* from_task_id and to_task_id of the recovery settings
    MaxStops          \* bound on signals and crashes

Tasks == 1..NumTasks
Runners == {"default", "task_recovery"}

ASSUME DistributorAssumption ==
    /\ NumTasks \in Nat
    /\ PageSize \in Nat \ {0}
    /\ Unparsable \subseteq Tasks
    /\ RefundsEnabled \in BOOLEAN
    /\ From \in 0..NumTasks
    /\ To \in Nat
    /\ MaxStops \in Nat

VARIABLES
    feed,       \* the API has the tasks 1..feed
    run,        \* where each process stands
    last,       \* last_task_id (0: none)
    end,        \* the page being worked on ends here
    cursor,     \* Postgres: the stored task id of each context
    buffer,     \* tasks in the buffers of the process's queues
    enqueued,   \* tasks the broker confirmed
    lost,       \* history: tasks the default distributor, and the recovery
                \* since it was started, dropped when they stopped
    stops       \* history: for the bound MaxStops

vars == <<feed, run, last, end, cursor, buffer, enqueued, lost, stops>>

TypeOK ==
    /\ feed \in 0..NumTasks
    /\ run \in [Runners -> {"down", "poll", "work", "publish", "closing",
                          "aborting", "done"}]
    /\ last \in [Runners -> 0..NumTasks]
    /\ end \in [Runners -> 0..NumTasks]
    /\ cursor \in [Runners -> 0..NumTasks]
    /\ buffer \in [Runners -> SUBSET Tasks]
    /\ enqueued \in SUBSET Tasks
    /\ lost \in [Runners -> SUBSET Tasks]
    /\ stops \in 0..MaxStops

\* Only the recovery process has a tasks_filter.
PassesFilter(r, t) == r = "task_recovery" => KindOf[t] \in RecoveryKinds

\* Does work() publish t, to one queue or the other, rather than drop it?
Routed(r, t) ==
    /\ PassesFilter(r, t)
    /\ KindOf[t] = "Refund" => RefundsEnabled
    /\ KindOf[t] \in IncluderKinds \cup IngestorKinds

\* What work() still has to go through: get_tasks_action leaves out the tasks
\* it cannot parse.
Page(r) == {t \in (last[r] + 1)..end[r] : t \notin Unparsable}

\* Where a process starts: Distributor::new, new_with_recovery_settings.
Start(r) == IF r = "task_recovery" THEN From ELSE cursor[r]

Init ==
    /\ feed = 0
    /\ run = [r \in Runners |-> "down"]
    /\ last = [r \in Runners |-> 0]
    /\ end = [r \in Runners |-> 0]
    /\ cursor = [r \in Runners |-> 0]
    /\ buffer = [r \in Runners |-> {}]
    /\ enqueued = {}
    /\ lost = [r \in Runners |-> {}]
    /\ stops = 0
-----------------------------------------------------------------------------
NewTask ==
    /\ feed < NumTasks
    /\ feed' = feed + 1
    /\ UNCHANGED <<run, last, end, cursor, buffer, enqueued, lost, stops>>

\* The recovery stores its start, so that its context begins there.
Launch(r) ==
    /\ run[r] = "down"
    /\ run' = [run EXCEPT ![r] = "poll"]
    /\ last' = [last EXCEPT ![r] = Start(r)]
    /\ end' = [end EXCEPT ![r] = Start(r)]
    /\ cursor' = [cursor EXCEPT ![r] = Start(r)]
    /\ lost' = [lost EXCEPT ![r] = IF r = "task_recovery" THEN {} ELSE @]
    /\ UNCHANGED <<feed, buffer, enqueued, stops>>

\* Mutant: one task that does not parse fails the whole page.
GetTasksStrict(r) ==
    /\ run[r] = "poll"
    /\ \E e \in last[r]..feed :
          /\ e <= last[r] + PageSize
          /\ e = feed \/ e = last[r] + PageSize
          /\ (last[r] + 1)..e \cap Unparsable = {}
          /\ end' = [end EXCEPT ![r] = e]
    /\ run' = [run EXCEPT ![r] = "work"]
    /\ UNCHANGED <<feed, last, cursor, buffer, enqueued, lost, stops>>

\* get_tasks_action(last_task_id): the first page after last_task_id.
GetTasks(r) ==
    /\ run[r] = "poll"
    /\ \E e \in last[r]..feed :
          /\ e <= last[r] + PageSize
          /\ e = feed \/ e = last[r] + PageSize
          /\ end' = [end EXCEPT ![r] = e]
    /\ run' = [run EXCEPT ![r] = "work"]
    /\ UNCHANGED <<feed, last, cursor, buffer, enqueued, lost, stops>>

\* Mutant: the cursor moves to the end of the page.
TakeTaskSkips(r, t) ==
    /\ run[r] = "work"
    /\ t \in Page(r) /\ \A u \in Page(r) : t <= u
    /\ last' = [last EXCEPT ![r] = end[r]]
    /\ cursor' = [cursor EXCEPT ![r] = end[r]]
    /\ run' = [run EXCEPT ![r] = IF Routed(r, t) THEN "publish" ELSE "work"]
    /\ UNCHANGED <<feed, end, buffer, enqueued, lost, stops>>

\* The next task of the page: last_task_id is set and stored (a failure is
\* only logged) before anything is published.
TakeTask(r, t) ==
    /\ run[r] = "work"
    /\ t \in Page(r) /\ \A u \in Page(r) : t <= u
    /\ last' = [last EXCEPT ![r] = t]
    /\ \/ cursor' = [cursor EXCEPT ![r] = t]
       \/ UNCHANGED cursor
    /\ run' = [run EXCEPT ![r] = IF Routed(r, t) THEN "publish" ELSE "work"]
    /\ UNCHANGED <<feed, end, buffer, enqueued, lost, stops>>

Publish(r) ==
    /\ run[r] = "publish"
    /\ buffer' = [buffer EXCEPT ![r] = @ \cup {last[r]}]
    /\ run' = [run EXCEPT ![r] = "work"]
    /\ UNCHANGED <<feed, last, end, cursor, enqueued, lost, stops>>

\* Mutant: the recovery ends with the first page that is not empty.
PageDoneEarly(r) ==
    /\ run[r] = "work" /\ Page(r) = {}
    /\ run' = [run EXCEPT ![r] =
                 IF r = "task_recovery" /\ last[r] > From THEN "closing" ELSE "poll"]
    /\ UNCHANGED <<feed, last, end, cursor, buffer, enqueued, lost, stops>>

\* The page is done: run() polls again after two seconds, run_recovery() is
\* done when to_task_id was in a page.  It is in a page exactly when the
\* process went past it: To parses and is after From, or never shows up.
PageDone(r) ==
    /\ run[r] = "work" /\ Page(r) = {}
    /\ run' = [run EXCEPT ![r] =
                 IF /\ r = "task_recovery"
                    /\ From < To /\ To <= last[r] /\ To \notin Unparsable
                 THEN "closing" ELSE "poll"]
    /\ UNCHANGED <<feed, last, end, cursor, buffer, enqueued, lost, stops>>

\* The buffer processor gets a task confirmed.
Confirm(r, t) ==
    /\ t \in buffer[r]
    /\ buffer' = [buffer EXCEPT ![r] = @ \ {t}]
    /\ enqueued' = enqueued \cup {t}
    /\ UNCHANGED <<feed, run, last, end, cursor, lost, stops>>
-----------------------------------------------------------------------------
\* The task that is stored as done and not published yet.
Current(r) == IF run[r] = "publish" THEN {last[r]} ELSE {}

\* SIGINT or SIGTERM: main's select! drops the run() future where it stands.
Signal(r) ==
    /\ run[r] \in {"poll", "work", "publish"}
    /\ stops < MaxStops
    /\ stops' = stops + 1
    /\ lost' = [lost EXCEPT ![r] = @ \cup Current(r)]
    /\ run' = [run EXCEPT ![r] = "aborting"]
    /\ UNCHANGED <<feed, last, end, cursor, buffer, enqueued>>

\* Queue::close() waits five seconds for the buffer; what is left then goes.
Exit(r) ==
    /\ run[r] \in {"closing", "aborting"}
    /\ lost' = [lost EXCEPT ![r] = @ \cup buffer[r]]
    /\ buffer' = [buffer EXCEPT ![r] = {}]
    /\ run' = [run EXCEPT ![r] = IF run[r] = "closing" THEN "done" ELSE "down"]
    /\ UNCHANGED <<feed, last, end, cursor, enqueued, stops>>

Crash(r) ==
    /\ run[r] \in {"poll", "work", "publish", "closing", "aborting"}
    /\ stops < MaxStops
    /\ stops' = stops + 1
    /\ lost' = [lost EXCEPT ![r] = @ \cup Current(r) \cup buffer[r]]
    /\ buffer' = [buffer EXCEPT ![r] = {}]
    /\ run' = [run EXCEPT ![r] = "down"]
    /\ UNCHANGED <<feed, last, end, cursor, enqueued>>
-----------------------------------------------------------------------------
Step(r) ==
    \/ Launch(r)
    \/ GetTasks(r)
    \/ \E t \in Tasks : TakeTask(r, t)
    \/ Publish(r)
    \/ PageDone(r)
    \/ Exit(r)

Next ==
    \/ NewTask
    \/ \E r \in Runners :
          \/ Step(r)
          \/ \E t \in Tasks : Confirm(r, t)
          \/ Signal(r)
          \/ Crash(r)

Spec == Init /\ [][Next]_vars

\* The processes keep running (systemd restarts them) and the broker confirms.
FairSpec ==
    /\ Spec
    /\ WF_vars(Step("default"))
    /\ \A t \in Tasks : WF_vars(Confirm("default", t))
-----------------------------------------------------------------------------
Wanted(r) == {t \in Tasks : t \notin Unparsable /\ Routed(r, t)}

Running(r) == run[r] \in {"poll", "work", "publish", "closing", "aborting"}
Accounted(r) == enqueued \cup buffer[r] \cup lost[r] \cup Current(r)

\* A process goes past no task it should publish: up to last_task_id each one
\* is with the broker, in a buffer, being published, or was dropped by a
\* process that stopped.  Pages, tasks left out and restarts from a stored id
\* skip nothing (Distributor::work, new).
NoTaskSkipped ==
    \A r \in Runners : \A t \in Wanted(r) :
        /\ Running(r)
        /\ r = "default" \/ From < t
        /\ t <= last[r]
        => t \in Accounted(r)

\* The strengthening a restart needs: the stored id is as good as the one in
\* memory.
CursorAccounted ==
    \A t \in Wanted("default") :
        t <= cursor["default"] => t \in Accounted("default")

\* There is a task to publish whenever one is being published.
HasCurrent == \A r \in Runners : Current(r) \subseteq Tasks

DistributorInv == TypeOK /\ HasCurrent /\ NoTaskSkipped /\ CursorAccounted

\* A recovery that was not interrupted has put every wanted task of its range
\* back on the queues, those the distributor lost included, except what a
\* forced close dropped (run_recovery).
RecoveryCovers ==
    run["task_recovery"] = "done" =>
        \A t \in Wanted("task_recovery") :
            From < t /\ t <= To => t \in enqueued \cup lost["task_recovery"]

\* A recovery that is about to stop by itself went past the end of its range.
PastRange ==
    run["task_recovery"] = "closing" => To <= last["task_recovery"]

RecoveryInv == PastRange /\ RecoveryCovers

\* Every task of the API is published sometime, or was lost when the process
\* stopped: tasks that do not parse, tasks that are not supported and failing
\* cursor writes do not hold the others up (get_tasks_action, work, run).
TasksKeepFlowing ==
    \A t \in Wanted("default") :
        t <= feed ~> t \in enqueued \cup lost["default"]

=============================================================================

------------------------- MODULE DistributorProofs -------------------------
(***************************************************************************)
(* Proof that the distributor skips no task, for every sequence of tasks,  *)
(* page size, filter and number of restarts.                               *)
(***************************************************************************)
EXTENDS Distributor, TLAPS

\* Every step keeps the invariant: a task is passed over only by taking the
\* smallest one left in the page, and a restart resumes at an id up to which
\* everything is accounted for.
LEMMA DistributorStep ==
    ASSUME DistributorInv, [Next]_vars
    PROVE  DistributorInv'
<1> USE DistributorAssumption DEF DistributorInv, Tasks
<1>1. ASSUME NewTask
      PROVE  DistributorInv'
  <2>1. TypeOK'
    BY <1>1 DEF NewTask, TypeOK
  <2>2. NoTaskSkipped'
    BY <1>1
       DEF NewTask, NoTaskSkipped, CursorAccounted, TypeOK, Accounted,
           Current, Running, Wanted, Runners
  <2>3. CursorAccounted'
    BY <1>1
       DEF NewTask, NoTaskSkipped, CursorAccounted, TypeOK, Accounted,
           Current, Running, Wanted, Runners
  <2>4. HasCurrent'
    BY <1>1, <2>1 DEF NewTask, HasCurrent, Current, TypeOK, Runners
  <2> QED
    BY <2>1, <2>2, <2>3, <2>4
<1>2. ASSUME NEW r \in Runners, Launch(r)
      PROVE  DistributorInv'
  <2>1. TypeOK'
    BY <1>2 DEF Launch, Start, TypeOK, Runners
  <2>2. NoTaskSkipped'
    BY <1>2
       DEF Launch, Start, NoTaskSkipped, CursorAccounted, TypeOK, Accounted,
           Current, Running, Wanted, Runners
  <2>3. CursorAccounted'
    BY <1>2
       DEF Launch, Start, NoTaskSkipped, CursorAccounted, TypeOK, Accounted,
           Current, Running, Wanted, Runners
  <2>4. HasCurrent'
    BY <1>2, <2>1 DEF Launch, HasCurrent, Current, TypeOK, Runners
  <2> QED
    BY <2>1, <2>2, <2>3, <2>4
<1>3. ASSUME NEW r \in Runners, GetTasks(r)
      PROVE  DistributorInv'
  <2>1. TypeOK'
    BY <1>3 DEF GetTasks, TypeOK
  <2>2. NoTaskSkipped'
    BY <1>3
       DEF GetTasks, NoTaskSkipped, CursorAccounted, TypeOK, Accounted,
           Current, Running, Wanted, Runners
  <2>3. CursorAccounted'
    BY <1>3
       DEF GetTasks, NoTaskSkipped, CursorAccounted, TypeOK, Accounted,
           Current, Running, Wanted, Runners
  <2>4. HasCurrent'
    BY <1>3, <2>1 DEF GetTasks, HasCurrent, Current, TypeOK, Runners
  <2> QED
    BY <2>1, <2>2, <2>3, <2>4
<1>4. ASSUME NEW r \in Runners, NEW t \in Tasks, TakeTask(r, t)
      PROVE  DistributorInv'
  <2>1. TypeOK'
    BY <1>4 DEF TakeTask, Page, TypeOK
  <2>2. NoTaskSkipped'
    BY <1>4
       DEF TakeTask, Page, NoTaskSkipped, CursorAccounted, TypeOK, Accounted,
           Current, Running, Wanted, Runners
  <2>3. CursorAccounted'
    BY <1>4
       DEF TakeTask, Page, NoTaskSkipped, CursorAccounted, TypeOK, Accounted,
           Current, Running, Wanted, Runners
  <2>4. HasCurrent'
    BY <1>4, <2>1 DEF TakeTask, HasCurrent, Current, TypeOK, Runners
  <2> QED
    BY <2>1, <2>2, <2>3, <2>4
<1>5. ASSUME NEW r \in Runners, Publish(r)
      PROVE  DistributorInv'
  <2>1. TypeOK'
    BY <1>5 DEF Publish, TypeOK, HasCurrent, Current
  <2>2. NoTaskSkipped'
    BY <1>5
       DEF Publish, NoTaskSkipped, CursorAccounted, TypeOK, Accounted,
           Current, Running, Wanted, Runners
  <2>3. CursorAccounted'
    BY <1>5
       DEF Publish, NoTaskSkipped, CursorAccounted, TypeOK, Accounted,
           Current, Running, Wanted, Runners
  <2>4. HasCurrent'
    BY <1>5, <2>1 DEF Publish, HasCurrent, Current, TypeOK, Runners
  <2> QED
    BY <2>1, <2>2, <2>3, <2>4
<1>6. ASSUME NEW r \in Runners, PageDone(r)
      PROVE  DistributorInv'
  <2>1. TypeOK'
    BY <1>6 DEF PageDone, TypeOK
  <2>2. NoTaskSkipped'
    BY <1>6
       DEF PageDone, NoTaskSkipped, CursorAccounted, TypeOK, Accounted,
           Current, Running, Wanted, Runners
  <2>3. CursorAccounted'
    BY <1>6
       DEF PageDone, NoTaskSkipped, CursorAccounted, TypeOK, Accounted,
           Current, Running, Wanted, Runners
  <2>4. HasCurrent'
    BY <1>6, <2>1 DEF PageDone, HasCurrent, Current, TypeOK, Runners
  <2> QED
    BY <2>1, <2>2, <2>3, <2>4
<1>7. ASSUME NEW r \in Runners, Exit(r)
      PROVE  DistributorInv'
  <2>1. TypeOK'
    BY <1>7 DEF Exit, TypeOK
  <2>2. NoTaskSkipped'
    BY <1>7
       DEF Exit, NoTaskSkipped, CursorAccounted, TypeOK, Accounted, Current,
           Running, Wanted, Runners
  <2>3. CursorAccounted'
    BY <1>7
       DEF Exit, NoTaskSkipped, CursorAccounted, TypeOK, Accounted, Current,
           Running, Wanted, Runners
  <2>4. HasCurrent'
    BY <1>7, <2>1 DEF Exit, HasCurrent, Current, TypeOK, Runners
  <2> QED
    BY <2>1, <2>2, <2>3, <2>4
<1>8. ASSUME NEW r \in Runners, NEW t \in Tasks, Confirm(r, t)
      PROVE  DistributorInv'
  <2>1. TypeOK'
    BY <1>8 DEF Confirm, TypeOK
  <2>2. NoTaskSkipped'
    BY <1>8
       DEF Confirm, NoTaskSkipped, CursorAccounted, TypeOK, Accounted,
           Current, Running, Wanted, Runners
  <2>3. CursorAccounted'
    BY <1>8
       DEF Confirm, NoTaskSkipped, CursorAccounted, TypeOK, Accounted,
           Current, Running, Wanted, Runners
  <2>4. HasCurrent'
    BY <1>8, <2>1 DEF Confirm, HasCurrent, Current, TypeOK, Runners
  <2> QED
    BY <2>1, <2>2, <2>3, <2>4
<1>9. ASSUME NEW r \in Runners, Signal(r)
      PROVE  DistributorInv'
  <2>1. TypeOK'
    BY <1>9 DEF Signal, TypeOK, HasCurrent, Current
  <2>2. NoTaskSkipped'
    BY <1>9
       DEF Signal, NoTaskSkipped, CursorAccounted, TypeOK, Accounted, Current,
           Running, Wanted, Runners
  <2>3. CursorAccounted'
    BY <1>9
       DEF Signal, NoTaskSkipped, CursorAccounted, TypeOK, Accounted, Current,
           Running, Wanted, Runners
  <2>4. HasCurrent'
    BY <1>9, <2>1 DEF Signal, HasCurrent, Current, TypeOK, Runners
  <2> QED
    BY <2>1, <2>2, <2>3, <2>4
<1>10. ASSUME NEW r \in Runners, Crash(r)
      PROVE  DistributorInv'
  <2>1. TypeOK'
    BY <1>10 DEF Crash, TypeOK, HasCurrent, Current
  <2>2. NoTaskSkipped'
    BY <1>10
       DEF Crash, NoTaskSkipped, CursorAccounted, TypeOK, Accounted, Current,
           Running, Wanted, Runners
  <2>3. CursorAccounted'
    BY <1>10
       DEF Crash, NoTaskSkipped, CursorAccounted, TypeOK, Accounted, Current,
           Running, Wanted, Runners
  <2>4. HasCurrent'
    BY <1>10, <2>1 DEF Crash, HasCurrent, Current, TypeOK, Runners
  <2> QED
    BY <2>1, <2>2, <2>3, <2>4
<1>11. CASE UNCHANGED vars
  BY <1>11
     DEF vars, TypeOK, HasCurrent, NoTaskSkipped, CursorAccounted, Accounted,
         Current, Running
<1> QED
  BY <1>1, <1>2, <1>3, <1>4, <1>5, <1>6, <1>7, <1>8, <1>9, <1>10, <1>11
     DEF Next, Step

LEMMA DistributorStart == Init => DistributorInv
BY DistributorAssumption
DEF Init, DistributorInv, TypeOK, HasCurrent, NoTaskSkipped, CursorAccounted,
    Accounted, Current, Running, Wanted, Tasks, Runners

\* Distributor::work skips no task: up to last_task_id each task it should
\* publish is on a queue, in a buffer, being published, or was dropped by a
\* process that stopped.
THEOREM DistributorSkipsNothing == Spec => []NoTaskSkipped
<1>1. DistributorInv /\ [Next]_vars => DistributorInv'
  BY DistributorStep
<1>2. DistributorInv => NoTaskSkipped
  BY DEF DistributorInv
<1> QED
  BY DistributorStart, <1>1, <1>2, PTL DEF Spec
-----------------------------------------------------------------------------
\* Only the end of a page past to_task_id ends a recovery, and what its
\* buffers still hold when it exits is on record; a recovery that is done is
\* not started again, so what it covered stays covered.
LEMMA RecoveryStep ==
    ASSUME DistributorInv, RecoveryInv, [Next]_vars
    PROVE  RecoveryInv'
<1> DEFINE R == "task_recovery"
<1> USE DistributorAssumption DEF RecoveryInv
<1>0. TypeOK /\ NoTaskSkipped /\ R \in Runners
  BY DEF DistributorInv, Runners
<1>1. ASSUME NEW r \in Runners, PageDone(r)
      PROVE  RecoveryInv'
  <2>1. PastRange'
    BY <1>0, <1>1 DEF PageDone, PastRange, TypeOK
  <2>2. RecoveryCovers'
    BY <1>0, <1>1 DEF PageDone, RecoveryCovers, TypeOK
  <2> QED
    BY <2>1, <2>2
<1>2. ASSUME NEW r \in Runners, Exit(r)
      PROVE  RecoveryInv'
  <2>1. PastRange'
    BY <1>0, <1>2 DEF Exit, PastRange, TypeOK
  <2>2. CASE r = R /\ run[R] = "closing"
    <3>1. To <= last[R] /\ Running(R) /\ Current(R) = {}
      BY <1>0, <2>2 DEF PastRange, Running, Current
    <3>2. ASSUME NEW t \in Wanted(R), From < t, t <= To
          PROVE  t \in enqueued \cup buffer[R] \cup lost[R]
      <4>1. t \in Int /\ last[R] \in Int
        BY <1>0, <3>2 DEF Wanted, Tasks, TypeOK
      <4>2. t <= last[R]
        BY <3>1, <3>2, <4>1
      <4>3. t \in Accounted(R)
        BY <1>0, <3>1, <3>2, <4>2 DEF NoTaskSkipped
      <4> QED
        BY <3>1, <4>3 DEF Accounted
    <3>3. lost'[R] = lost[R] \cup buffer[R] /\ enqueued' = enqueued
      BY <1>0, <1>2, <2>2 DEF Exit, TypeOK
    <3> QED
      BY <2>1, <3>2, <3>3 DEF RecoveryCovers
  <2>3. CASE ~(r = R /\ run[R] = "closing")
    <3>1. RecoveryCovers'
      BY <1>0, <1>2, <2>3 DEF Exit, RecoveryCovers, TypeOK
    <3> QED
      BY <2>1, <3>1
  <2> QED
    BY <2>2, <2>3
<1>3. ASSUME NEW r \in Runners, Launch(r)
      PROVE  RecoveryInv'
  BY <1>0, <1>3 DEF Launch, PastRange, RecoveryCovers, TypeOK
<1>4. ASSUME NEW r \in Runners, GetTasks(r)
      PROVE  RecoveryInv'
  BY <1>0, <1>4 DEF GetTasks, PastRange, RecoveryCovers, TypeOK
<1>5. ASSUME NEW r \in Runners, NEW t \in Tasks, TakeTask(r, t)
      PROVE  RecoveryInv'
  BY <1>0, <1>5 DEF TakeTask, PastRange, RecoveryCovers, TypeOK
<1>6. ASSUME NEW r \in Runners, Publish(r)
      PROVE  RecoveryInv'
  BY <1>0, <1>6 DEF Publish, PastRange, RecoveryCovers, TypeOK
<1>7. ASSUME NEW r \in Runners, NEW t \in Tasks, Confirm(r, t)
      PROVE  RecoveryInv'
  BY <1>0, <1>7 DEF Confirm, PastRange, RecoveryCovers, TypeOK
<1>8. ASSUME NEW r \in Runners, Signal(r)
      PROVE  RecoveryInv'
  BY <1>0, <1>8 DEF Signal, PastRange, RecoveryCovers, TypeOK
<1>9. ASSUME NEW r \in Runners, Crash(r)
      PROVE  RecoveryInv'
  BY <1>0, <1>9 DEF Crash, PastRange, RecoveryCovers, TypeOK
<1>10. CASE NewTask
  BY <1>10 DEF NewTask, PastRange, RecoveryCovers
<1>11. CASE UNCHANGED vars
  BY <1>11 DEF vars, PastRange, RecoveryCovers
<1> QED
  BY <1>1, <1>2, <1>3, <1>4, <1>5, <1>6, <1>7, <1>8, <1>9, <1>10, <1>11
     DEF Next, Step

\* run_recovery replays its whole range: when it stops by itself, every task
\* between from_task_id and to_task_id that passes its filter is on a queue or
\* was dropped by the forced close, over any pages and earlier interruptions.
THEOREM RecoveryIsComplete == Spec => []RecoveryCovers
<1>1. Init => RecoveryInv
  BY DEF Init, RecoveryInv, PastRange, RecoveryCovers, Runners
<1>2. DistributorInv /\ [Next]_vars => DistributorInv'
  BY DistributorStep
<1>3. DistributorInv /\ RecoveryInv /\ [Next]_vars => RecoveryInv'
  BY RecoveryStep
<1>4. RecoveryInv => RecoveryCovers
  BY DEF RecoveryInv
<1> QED
  BY DistributorStart, <1>1, <1>2, <1>3, <1>4, PTL DEF Spec
=============================================================================

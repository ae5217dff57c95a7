---------------------------- MODULE QueueProofs ----------------------------
(***************************************************************************)
(* Queue keeps QueueInv for every set of items and processes, every        *)
(* prefetch count, buffer size, retry limit and number of faults; it       *)
(* implements AtLeastOnceQueue; and without faults it makes no duplicate.  *)
(***************************************************************************)
EXTENDS Queue, FiniteSetTheorems, TLAPS

\* The delivery slots are finitely many, so unacked deliveries can be counted.
LEMMA SlotsFinite == IsFiniteSet(Slots)
  <1>1. IsFiniteSet(1..NumWorkers)
    BY FS_Interval, QueueAssumption
  <1>2. QED
    BY <1>1, FS_Product, QueueAssumption DEF Slots

\* What requeueing p's unacked deliveries does to the main queue: nothing is
\* taken from it and every live delivery of p is back on it.
LEMMA RequeuedFacts ==
  ASSUME TypeOK, NEW p \in Procs
  PROVE  /\ Requeued(p) \in [Msg -> Nat]
         /\ \A m \in Msg : Requeued(p)[m] >= main[m]
         /\ \A s \in SlotsOf(p) :
               Busy(s) /\ task[s].live => Requeued(p)[task[s].msg] > 0
  <1> DEFINE Back(m) == {s \in SlotsOf(p) : Busy(s) /\ task[s].live /\ task[s].msg = m}
  <1>1. \A m : IsFiniteSet(Back(m))
    BY SlotsFinite, FS_Subset DEF SlotsOf
  <1>2. \A m : Cardinality(Back(m)) \in Nat
    BY <1>1, FS_CardinalityType
  <1>3. \A m \in Msg : Requeued(p)[m] = main[m] + Cardinality(Back(m))
    BY DEF Requeued
  <1>4. \A m \in Msg : main[m] \in Nat
    BY DEF TypeOK
  <1>5. Requeued(p) = [m \in Msg |-> main[m] + Cardinality(Back(m))]
    BY DEF Requeued
  <1>6. Requeued(p) \in [Msg -> Nat]
    <2> HIDE DEF Back
    <2> QED BY <1>2, <1>4, <1>5
  <1>7. \A m \in Msg : Requeued(p)[m] >= main[m]
    <2> HIDE DEF Back
    <2> QED BY <1>2, <1>3, <1>4
  <1>8. ASSUME NEW s \in SlotsOf(p), Busy(s), task[s].live
        PROVE  Requeued(p)[task[s].msg] > 0
    <2>1. task[s].msg \in Msg
      BY <1>8 DEF TypeOK, Busy, Task, None, SlotsOf
    <2>2. s \in Back(task[s].msg)
      BY <1>8
    <2>3. Cardinality(Back(task[s].msg)) # 0
      BY <1>1, <2>2, FS_EmptySet
    <2> HIDE DEF Back
    <2>4. QED
      BY <1>2, <1>3, <1>4, <2>1, <2>3
  <1>9. QED
    BY <1>6, <1>7, <1>8

\* A busy slot holds a well-formed delivery.
LEMMA BusyTask ==
  ASSUME TypeOK, NEW s \in Slots, Busy(s)
  PROVE  /\ task[s] \in Task
         /\ task[s].msg \in Msg
         /\ ItemAt(s) \in Items
         /\ task[s].live \in BOOLEAN
  BY DEF TypeOK, Busy, ItemAt, Task, None, Msg

\* Bags stay bags.
LEMMA BagOps ==
  ASSUME NEW S, NEW bag \in [S -> Nat], NEW x \in S
  PROVE  /\ Put(bag, x) \in [S -> Nat]
         /\ Put(bag, x)[x] > 0
         /\ \A y \in S : Put(bag, x)[y] >= bag[y]
         /\ bag[x] > 0 => Take(bag, x) \in [S -> Nat]
         /\ \A y \in S \ {x} : Take(bag, x)[y] = bag[y]
  BY DEF Put, Take

LEMMA MsgFacts ==
  /\ \A i \in Items : Fresh(i) \in Msg /\ Fresh(i).item = i
  /\ \A m \in Msg : m.item \in Items
  BY QueueAssumption DEF Fresh, Msg

LEMMA RetryCopyFacts ==
  ASSUME TypeOK, NEW s \in Slots, Busy(s)
  PROVE  RetryCopy(s) \in Msg /\ RetryCopy(s).item = ItemAt(s)
  BY BusyTask, QueueAssumption DEF RetryCopy, SentRetry, Msg

\* Moving a task to another stage changes its stage only.
LEMMA GotoFacts ==
  ASSUME TypeOK, NEW s \in Slots, Busy(s),
         NEW stage \in {"process", "ack", "force_ack", "republish", "reject",
                        "ack_republished"},
         Goto(s, stage)
  PROVE  /\ task' \in [Slots -> Task \cup {None}]
         /\ \A t \in Slots \ {s} : task'[t] = task[t]
         /\ task'[s].stage = stage
         /\ task'[s].msg = task[s].msg
         /\ task'[s].live = task[s].live
  <1>1. task[s] \in Task
    BY BusyTask
  <1>2. [task[s] EXCEPT !.stage = stage] \in Task
    BY <1>1 DEF Task
  <1>3. task' = [task EXCEPT ![s] = [task[s] EXCEPT !.stage = stage]]
    BY DEF Goto
  <1>4. [task[s] EXCEPT !.stage = stage].stage = stage
    BY <1>1 DEF Task
  <1>5. QED
    BY <1>1, <1>2, <1>3, <1>4 DEF TypeOK, Task

LEMMA FinishFacts ==
  ASSUME TypeOK, NEW s \in Slots, Finish(s)
  PROVE  /\ task' \in [Slots -> Task \cup {None}]
         /\ task'[s] = None
         /\ \A t \in Slots \ {s} : task'[t] = task[t]
  BY DEF Finish, TypeOK

LEMMA StaleFacts ==
  ASSUME TypeOK, NEW p \in Procs
  PROVE  /\ Stale(p) \in [Slots -> Task \cup {None}]
         /\ \A t \in Slots : t[1] # p => Stale(p)[t] = task[t]
         /\ \A t \in Slots : Stale(p)[t].stage = task[t].stage
         /\ \A t \in Slots : Busy(t) => Stale(p)[t].msg = task[t].msg
  <1>1. ASSUME NEW t \in Slots, t[1] = p, Busy(t)
        PROVE  /\ [task[t] EXCEPT !.live = FALSE] \in Task
               /\ [task[t] EXCEPT !.live = FALSE].stage = task[t].stage
               /\ [task[t] EXCEPT !.live = FALSE].msg = task[t].msg
    BY <1>1, BusyTask DEF Task
  <1>2. \A t \in Slots : task[t] \in Task \cup {None}
    BY DEF TypeOK
  <1>3. QED
    BY <1>1, <1>2 DEF Stale
-----------------------------------------------------------------------------
LEMMA InitInv == Init => QueueInv
  <1> SUFFICES ASSUME Init PROVE QueueInv
    OBVIOUS
  <1>1. PICK legacy \in SUBSET Msg :
            /\ main = [m \in Msg |-> IF m \in legacy THEN 1 ELSE 0]
            /\ published = {m.item : m \in legacy}
            /\ reached = {m.item : m \in legacy}
    BY DEF Init
  <1>2. TypeOK
    BY <1>1, QueueAssumption DEF Init, TypeOK, Msg
  <1>3. HeldWhilePublishing
    BY DEF Init, HeldWhilePublishing
  <1>4. ForcedIsMisrouted
    BY DEF Init, ForcedIsMisrouted, At, None
  <1>5. AtLeastOnce
    <2> SUFFICES ASSUME NEW i \in reached PROVE Firm(i)
      BY DEF AtLeastOnce
    <2>1. PICK m \in legacy : m.item = i
      BY <1>1
    <2>2. QED
      BY <1>1, <2>1 DEF Firm
  <1>6. MisroutedNotRetried /\ DeliveredIsKept
    BY DEF Init, MisroutedNotRetried, DeliveredIsKept, Busy, None
  <1>7. OnlyPublished
    <2>1. \A i \in Items : ~InMemory(i)
      BY DEF Init, InMemory, InMemoryOf, Elements, Pending
    <2>2. \A i \in Items : Firm(i) => i \in published
      BY <1>1 DEF Init, Firm, None
    <2>3. QED
      BY <2>1, <2>2 DEF Init, OnlyPublished
  <1>8. NoSilentLoss
    BY <1>1 DEF NoSilentLoss, Firm
  <1>9. QED
    BY <1>2, <1>3, <1>4, <1>5, <1>6, <1>7, <1>8 DEF QueueInv

\* Every step keeps the types, given that the processor holds an item when it
\* publishes one.
LEMMA TypeStep ==
  ASSUME TypeOK, HeldWhilePublishing, [Next]_vars
  PROVE  TypeOK'
  <1> USE QueueAssumption DEF TypeOK, procVars, taskVars, brokerVars, history
  <1>1. ASSUME NEW p \in Procs, NEW i \in Items, Publish(p, i) PROVE TypeOK'
    <2>1. Append(buffer[p], i) \in Seq(Items)
      OBVIOUS
    <2>2. QED
      BY <1>1, <2>1 DEF Publish, Send
  <1>2. ASSUME NEW p \in Procs, BufferRecv(p) PROVE TypeOK'
    BY <1>2 DEF BufferRecv
  <1>3. ASSUME NEW p \in Procs, BufferPublishOk(p) PROVE TypeOK'
    <2>1. held[p][1] \in Items
      BY <1>3 DEF BufferPublishOk, HeldWhilePublishing
    <2>2. main' \in [Msg -> Nat]
      BY <1>3, <2>1, BagOps, MsgFacts DEF BufferPublishOk
    <2>3. QED
      BY <1>3, <2>1, <2>2 DEF BufferPublishOk, LoopEnd
  <1>4. ASSUME NEW p \in Procs, BufferPublishErr(p) PROVE TypeOK'
    BY <1>4 DEF BufferPublishErr
  <1>5. ASSUME NEW p \in Procs, BufferPublishUnconfirmed(p) PROVE TypeOK'
    <2>1. held[p][1] \in Items
      BY <1>5 DEF BufferPublishUnconfirmed, HeldWhilePublishing
    <2>2. main' \in [Msg -> Nat]
      BY <1>5, <2>1, BagOps, MsgFacts, RequeuedFacts DEF BufferPublishUnconfirmed
    <2>3. task' \in [Slots -> Task \cup {None}]
      BY <1>5, StaleFacts DEF BufferPublishUnconfirmed, LoseConnection
    <2>4. QED
      BY <1>5, <2>2, <2>3 DEF BufferPublishUnconfirmed, LoseConnection
  <1>6. ASSUME NEW p \in Procs, Rebuffer(p) PROVE TypeOK'
    BY <1>6 DEF Rebuffer, LoopEnd, HeldWhilePublishing
  <1>7. ASSUME NEW p \in Procs, BufferCancelled(p) PROVE TypeOK'
    BY <1>7 DEF BufferCancelled, Elements
  <1>8. ASSUME NEW p \in Procs, Close(p) PROVE TypeOK'
    BY <1>8 DEF Close
  <1>9. ASSUME NEW p \in Procs, CloseReturns(p) PROVE TypeOK'
    BY <1>9 DEF CloseReturns
  <1>10. ASSUME NEW p \in Procs, Exit(p) PROVE TypeOK'
    BY <1>10, RequeuedFacts DEF Exit, Stop, InMemoryOf, Elements, Pending
  <1>11. ASSUME NEW p \in Procs, Crash(p) PROVE TypeOK'
    BY <1>11, RequeuedFacts DEF Crash, Stop, InMemoryOf, Elements, Pending
  <1>12. ASSUME NEW p \in Procs, Restart(p) PROVE TypeOK'
    BY <1>12 DEF Restart
  <1>13. ASSUME NEW p \in Procs, ConnectionLost(p) PROVE TypeOK'
    <2>1. main' \in [Msg -> Nat]
      BY <1>13, RequeuedFacts DEF ConnectionLost
    <2>2. task' \in [Slots -> Task \cup {None}]
      BY <1>13, StaleFacts DEF ConnectionLost, LoseConnection
    <2>3. QED
      BY <1>13, <2>1, <2>2 DEF ConnectionLost, LoseConnection
  <1>14. ASSUME NEW p \in Procs, Reconnect(p) PROVE TypeOK'
    BY <1>14 DEF Reconnect
  <1>15. ASSUME NEW c \in Consumers, StopConsuming(c) PROVE TypeOK'
    BY <1>15 DEF StopConsuming
  <1>16. ASSUME NEW c \in Consumers, NEW i \in Items, ForcePublish(c, i) PROVE TypeOK'
    <2>1. Append(buffer[c], i) \in Seq(Items)
      BY DEF Procs
    <2>2. Take(forced[c], i) \in [Items -> Nat]
      BY <1>16, BagOps DEF ForcePublish
    <2>3. forced' \in [Consumers -> [Items -> Nat]]
      BY <1>16, <2>2 DEF ForcePublish
    <2>4. QED
      BY <1>16, <2>1, <2>3 DEF ForcePublish, Send, Procs
  <1>17. ASSUME NEW s \in Slots, NEW m \in Msg, Deliver(s, m) PROVE TypeOK'
    <2>1. main' \in [Msg -> Nat]
      BY <1>17, BagOps DEF Deliver
    <2>2. [stage |-> "process", msg |-> m, live |-> TRUE] \in Task
      BY DEF Task
    <2>3. QED
      BY <1>17, <2>1, <2>2 DEF Deliver
  <1>18. ASSUME NEW s \in Slots, Succeed(s) PROVE TypeOK'
    <2>1. Busy(s) /\ ItemAt(s) \in Items
      BY <1>18, BusyTask DEF Succeed, At, Busy
    <2>2. task' \in [Slots -> Task \cup {None}]
      BY <1>18, <2>1, GotoFacts DEF Succeed
    <2>3. QED
      BY <1>18, <2>1, <2>2 DEF Succeed
  <1>19. ASSUME NEW s \in Slots, Fail(s) PROVE TypeOK'
    <2>1. Busy(s) /\ ItemAt(s) \in Items
      BY <1>19, BusyTask DEF Fail, At, Busy
    <2>2. task' \in [Slots -> Task \cup {None}]
      BY <1>19, <2>1, GotoFacts DEF Fail
    <2>3. QED
      BY <1>19, <2>1, <2>2 DEF Fail
  <1>20. ASSUME NEW s \in Slots, Irrelevant(s) PROVE TypeOK'
    <2>1. Busy(s) /\ ItemAt(s) \in Items
      BY <1>20, BusyTask DEF Irrelevant, At, Busy
    <2>2. task' \in [Slots -> Task \cup {None}]
      BY <1>20, <2>1, GotoFacts DEF Irrelevant
    <2>3. QED
      BY <1>20, <2>1, <2>2 DEF Irrelevant
  <1>21. ASSUME NEW s \in Slots, GiveUp(s) PROVE TypeOK'
    <2>1. Busy(s) /\ ItemAt(s) \in Items
      BY <1>21, BusyTask DEF GiveUp, At, Busy
    <2>2. task' \in [Slots -> Task \cup {None}]
      BY <1>21, <2>1, GotoFacts DEF GiveUp
    <2>3. QED
      BY <1>21, <2>1, <2>2 DEF GiveUp
  <1>22. ASSUME NEW s \in Slots, Ack(s) PROVE TypeOK'
    BY <1>22, FinishFacts DEF Ack
  <1>23. ASSUME NEW s \in Slots, ForceAck(s) PROVE TypeOK'
    <2>1. Busy(s) /\ ItemAt(s) \in Items /\ s[1] \in Consumers
      BY <1>23, BusyTask DEF ForceAck, At, Busy, Slots
    <2>2. forced' \in [Consumers -> [Items -> Nat]]
      BY <1>23, <2>1, BagOps DEF ForceAck
    <2>3. QED
      BY <1>23, <2>2, FinishFacts DEF ForceAck
  <1>24. ASSUME NEW s \in Slots, Reject(s) PROVE TypeOK'
    <2>1. Busy(s) /\ task[s].msg \in Msg
      BY <1>24, BusyTask DEF Reject, At, Busy
    <2>2. dlq' \in [Msg -> Nat]
      BY <1>24, <2>1, BagOps DEF Reject, DeadLetter
    <2>3. QED
      BY <1>24, <2>2, FinishFacts DEF Reject, DeadLetter
  <1>25. ASSUME NEW s \in Slots, RepublishExhausted(s) PROVE TypeOK'
    <2>1. Busy(s) /\ task[s].msg \in Msg
      BY <1>25, BusyTask DEF RepublishExhausted, At, Busy
    <2>2. dlq' \in [Msg -> Nat]
      BY <1>25, <2>1, BagOps DEF RepublishExhausted, DeadLetter
    <2>3. QED
      BY <1>25, <2>2, FinishFacts DEF RepublishExhausted, DeadLetter
  <1>26. ASSUME NEW s \in Slots, RepublishOk(s) PROVE TypeOK'
    <2>1. Busy(s)
      BY <1>26 DEF RepublishOk, At, Busy
    <2>2. retryq' \in [Msg -> Nat]
      BY <1>26, <2>1, BagOps, RetryCopyFacts DEF RepublishOk
    <2>3. task' \in [Slots -> Task \cup {None}]
      BY <1>26, <2>1, GotoFacts DEF RepublishOk
    <2>4. QED
      BY <1>26, <2>2, <2>3 DEF RepublishOk
  <1>27. ASSUME NEW s \in Slots, RepublishErr(s) PROVE TypeOK'
    <2>1. Busy(s) /\ task[s].msg \in Msg
      BY <1>27, BusyTask DEF RepublishErr, At, Busy
    <2>2. main' \in [Msg -> Nat]
      BY <1>27, <2>1, BagOps DEF RepublishErr
    <2>3. QED
      BY <1>27, <2>2, FinishFacts DEF RepublishErr
  <1>28. ASSUME NEW s \in Slots, RepublishUnconfirmed(s) PROVE TypeOK'
    <2>1. Busy(s) /\ s[1] \in Consumers /\ s[1] \in Procs
      BY <1>28 DEF RepublishUnconfirmed, At, Busy, Slots, Procs
    <2>2. retryq' \in [Msg -> Nat]
      BY <1>28, <2>1, BagOps, RetryCopyFacts DEF RepublishUnconfirmed
    <2>3. main' \in [Msg -> Nat]
      BY <1>28, <2>1, RequeuedFacts DEF RepublishUnconfirmed
    <2>4. task' \in [Slots -> Task \cup {None}]
      BY <1>28, <2>1, StaleFacts DEF RepublishUnconfirmed
    <2>5. QED
      BY <1>28, <2>1, <2>2, <2>3, <2>4 DEF RepublishUnconfirmed
  <1>29. ASSUME NEW m \in Msg, RetryExpires(m) PROVE TypeOK'
    <2>1. main' \in [Msg -> Nat] /\ retryq' \in [Msg -> Nat]
      BY <1>29, BagOps, MsgFacts DEF RetryExpires
    <2>2. QED
      BY <1>29, <2>1 DEF RetryExpires
  <1>30. ASSUME NEW m \in Msg, DlqRecover(m) PROVE TypeOK'
    <2>1. main' \in [Msg -> Nat]
      BY <1>30, BagOps, MsgFacts DEF DlqRecover
    <2>2. dlq' \in [Msg -> Nat]
      BY <1>30 DEF Put, Take, DlqRecover
    <2>3. QED
      BY <1>30, <2>1, <2>2 DEF DlqRecover
  <1>31. ASSUME NEW m \in Msg, DlqDrop(m) PROVE TypeOK'
    <2>1. dlq' \in [Msg -> Nat] /\ m.item \in Items
      BY <1>31, BagOps, MsgFacts DEF DlqDrop
    <2>2. QED
      BY <1>31, <2>1 DEF DlqDrop
  <1>32. CASE UNCHANGED vars
    BY <1>32 DEF vars
  <1>33. QED
    BY <1>1, <1>2, <1>3, <1>4, <1>5, <1>6, <1>7, <1>8, <1>9, <1>10, <1>11, <1>12, <1>13, <1>14, <1>15, <1>16, <1>17, <1>18, <1>19, <1>20, <1>21, <1>22, <1>23, <1>24, <1>25, <1>26, <1>27, <1>28, <1>29, <1>30, <1>31, <1>32
    DEF Next, ProcessStep, ConsumerStep, TaskStep, BrokerStep

\* The processor holds one item exactly while it publishes or re-buffers.
LEMMA HeldStep ==
  ASSUME TypeOK, HeldWhilePublishing, [Next]_vars
  PROVE  HeldWhilePublishing'
  <1> USE DEF HeldWhilePublishing, TypeOK, procVars, taskVars, brokerVars, history
  <1>1. ASSUME NEW p \in Procs, NEW i \in Items, Publish(p, i) PROVE HeldWhilePublishing'
    BY <1>1 DEF Publish
  <1>2. ASSUME NEW p \in Procs, BufferRecv(p) PROVE HeldWhilePublishing'
    BY <1>2 DEF BufferRecv
  <1>3. ASSUME NEW p \in Procs, BufferPublishOk(p) PROVE HeldWhilePublishing'
    BY <1>3 DEF BufferPublishOk, LoopEnd
  <1>4. ASSUME NEW p \in Procs, BufferPublishErr(p) PROVE HeldWhilePublishing'
    BY <1>4 DEF BufferPublishErr
  <1>5. ASSUME NEW p \in Procs, BufferPublishUnconfirmed(p) PROVE HeldWhilePublishing'
    BY <1>5 DEF BufferPublishUnconfirmed
  <1>6. ASSUME NEW p \in Procs, Rebuffer(p) PROVE HeldWhilePublishing'
    BY <1>6 DEF Rebuffer, LoopEnd
  <1>7. ASSUME NEW p \in Procs, BufferCancelled(p) PROVE HeldWhilePublishing'
    BY <1>7 DEF BufferCancelled
  <1>8. ASSUME NEW p \in Procs, Close(p) PROVE HeldWhilePublishing'
    BY <1>8 DEF Close
  <1>9. ASSUME NEW p \in Procs, CloseReturns(p) PROVE HeldWhilePublishing'
    BY <1>9 DEF CloseReturns
  <1>10. ASSUME NEW p \in Procs, Exit(p) PROVE HeldWhilePublishing'
    BY <1>10 DEF Exit, Stop
  <1>11. ASSUME NEW p \in Procs, Crash(p) PROVE HeldWhilePublishing'
    BY <1>11 DEF Crash, Stop
  <1>12. ASSUME NEW p \in Procs, Restart(p) PROVE HeldWhilePublishing'
    BY <1>12 DEF Restart
  <1>13. ASSUME NEW p \in Procs, ConnectionLost(p) PROVE HeldWhilePublishing'
    BY <1>13 DEF ConnectionLost
  <1>14. ASSUME NEW p \in Procs, Reconnect(p) PROVE HeldWhilePublishing'
    BY <1>14 DEF Reconnect
  <1>15. ASSUME NEW c \in Consumers, StopConsuming(c) PROVE HeldWhilePublishing'
    BY <1>15 DEF StopConsuming
  <1>16. ASSUME NEW c \in Consumers, NEW i \in Items, ForcePublish(c, i) PROVE HeldWhilePublishing'
    BY <1>16 DEF ForcePublish
  <1>17. ASSUME NEW s \in Slots, NEW m \in Msg, Deliver(s, m) PROVE HeldWhilePublishing'
    BY <1>17 DEF Deliver
  <1>18. ASSUME NEW s \in Slots, Succeed(s) PROVE HeldWhilePublishing'
    BY <1>18 DEF Succeed
  <1>19. ASSUME NEW s \in Slots, Fail(s) PROVE HeldWhilePublishing'
    BY <1>19 DEF Fail
  <1>20. ASSUME NEW s \in Slots, Irrelevant(s) PROVE HeldWhilePublishing'
    BY <1>20 DEF Irrelevant
  <1>21. ASSUME NEW s \in Slots, GiveUp(s) PROVE HeldWhilePublishing'
    BY <1>21 DEF GiveUp
  <1>22. ASSUME NEW s \in Slots, Ack(s) PROVE HeldWhilePublishing'
    BY <1>22 DEF Ack
  <1>23. ASSUME NEW s \in Slots, ForceAck(s) PROVE HeldWhilePublishing'
    BY <1>23 DEF ForceAck
  <1>24. ASSUME NEW s \in Slots, Reject(s) PROVE HeldWhilePublishing'
    BY <1>24 DEF Reject, DeadLetter
  <1>25. ASSUME NEW s \in Slots, RepublishExhausted(s) PROVE HeldWhilePublishing'
    BY <1>25 DEF RepublishExhausted, DeadLetter
  <1>26. ASSUME NEW s \in Slots, RepublishOk(s) PROVE HeldWhilePublishing'
    BY <1>26 DEF RepublishOk
  <1>27. ASSUME NEW s \in Slots, RepublishErr(s) PROVE HeldWhilePublishing'
    BY <1>27 DEF RepublishErr
  <1>28. ASSUME NEW s \in Slots, RepublishUnconfirmed(s) PROVE HeldWhilePublishing'
    BY <1>28 DEF RepublishUnconfirmed
  <1>29. ASSUME NEW m \in Msg, RetryExpires(m) PROVE HeldWhilePublishing'
    BY <1>29 DEF RetryExpires
  <1>30. ASSUME NEW m \in Msg, DlqRecover(m) PROVE HeldWhilePublishing'
    BY <1>30 DEF DlqRecover
  <1>31. ASSUME NEW m \in Msg, DlqDrop(m) PROVE HeldWhilePublishing'
    BY <1>31 DEF DlqDrop
  <1>32. CASE UNCHANGED vars
    BY <1>32 DEF vars
  <1>33. QED
    BY <1>1, <1>2, <1>3, <1>4, <1>5, <1>6, <1>7, <1>8, <1>9, <1>10, <1>11, <1>12, <1>13, <1>14, <1>15, <1>16, <1>17, <1>18, <1>19, <1>20, <1>21, <1>22, <1>23, <1>24, <1>25, <1>26, <1>27, <1>28, <1>29, <1>30, <1>31, <1>32
    DEF Next, ProcessStep, ConsumerStep, TaskStep, BrokerStep

\* What a step does to the delivery tasks: a busy one was busy with the same
\* message, or is a new delivery, and only items found irrelevant take the path
\* of the forced requeue, and no other.
TasksKept ==
  /\ ForcedIsMisrouted' /\ MisroutedNotRetried'
  /\ \A t \in Slots :
        Busy(t)' => \/ Busy(t) /\ task'[t].msg = task[t].msg
                    \/ task'[t].stage = "process" /\ task'[t].live

\* Every step keeps to that.
LEMMA ForcedStep ==
  ASSUME TypeOK, ForcedIsMisrouted, MisroutedNotRetried, [Next]_vars
  PROVE  TasksKept
  <1> USE DEF TasksKept, ForcedIsMisrouted, MisroutedNotRetried, Busy, At, ItemAt, procVars, taskVars, brokerVars, history
  <1>1. ASSUME NEW p \in Procs, NEW i \in Items, Publish(p, i) PROVE TasksKept
    BY <1>1 DEF Publish
  <1>2. ASSUME NEW p \in Procs, BufferRecv(p) PROVE TasksKept
    BY <1>2 DEF BufferRecv
  <1>3. ASSUME NEW p \in Procs, BufferPublishOk(p) PROVE TasksKept
    BY <1>3 DEF BufferPublishOk
  <1>4. ASSUME NEW p \in Procs, BufferPublishErr(p) PROVE TasksKept
    BY <1>4 DEF BufferPublishErr
  <1>5. ASSUME NEW p \in Procs, BufferPublishUnconfirmed(p) PROVE TasksKept
    BY <1>5, StaleFacts DEF BufferPublishUnconfirmed, LoseConnection, Busy
  <1>6. ASSUME NEW p \in Procs, Rebuffer(p) PROVE TasksKept
    BY <1>6 DEF Rebuffer
  <1>7. ASSUME NEW p \in Procs, BufferCancelled(p) PROVE TasksKept
    BY <1>7 DEF BufferCancelled
  <1>8. ASSUME NEW p \in Procs, Close(p) PROVE TasksKept
    BY <1>8 DEF Close
  <1>9. ASSUME NEW p \in Procs, CloseReturns(p) PROVE TasksKept
    BY <1>9 DEF CloseReturns
  <1>10. ASSUME NEW p \in Procs, Exit(p) PROVE TasksKept
    BY <1>10 DEF Exit, Stop, None
  <1>11. ASSUME NEW p \in Procs, Crash(p) PROVE TasksKept
    BY <1>11 DEF Crash, Stop, None
  <1>12. ASSUME NEW p \in Procs, Restart(p) PROVE TasksKept
    BY <1>12 DEF Restart
  <1>13. ASSUME NEW p \in Procs, ConnectionLost(p) PROVE TasksKept
    BY <1>13, StaleFacts DEF ConnectionLost, LoseConnection, Busy
  <1>14. ASSUME NEW p \in Procs, Reconnect(p) PROVE TasksKept
    BY <1>14 DEF Reconnect
  <1>15. ASSUME NEW c \in Consumers, StopConsuming(c) PROVE TasksKept
    BY <1>15 DEF StopConsuming
  <1>16. ASSUME NEW c \in Consumers, NEW i \in Items, ForcePublish(c, i) PROVE TasksKept
    BY <1>16 DEF ForcePublish
  <1>17. ASSUME NEW s \in Slots, NEW m \in Msg, Deliver(s, m) PROVE TasksKept
    BY <1>17 DEF Deliver, TypeOK
  <1>18. ASSUME NEW s \in Slots, Succeed(s) PROVE TasksKept
    <2>1. Busy(s)
      BY <1>18 DEF Succeed, At, Busy
    <2>2. QED
      BY <1>18, <2>1, GotoFacts DEF Succeed
  <1>19. ASSUME NEW s \in Slots, Fail(s) PROVE TasksKept
    <2>1. Busy(s)
      BY <1>19 DEF Fail, At, Busy
    <2>2. QED
      BY <1>19, <2>1, GotoFacts DEF Fail
  <1>20. ASSUME NEW s \in Slots, Irrelevant(s) PROVE TasksKept
    <2>1. Busy(s)
      BY <1>20 DEF Irrelevant, At, Busy
    <2>2. QED
      BY <1>20, <2>1, GotoFacts DEF Irrelevant
  <1>21. ASSUME NEW s \in Slots, GiveUp(s) PROVE TasksKept
    <2>1. Busy(s)
      BY <1>21 DEF GiveUp, At, Busy
    <2>2. QED
      BY <1>21, <2>1, GotoFacts DEF GiveUp
  <1>22. ASSUME NEW s \in Slots, Ack(s) PROVE TasksKept
    BY <1>22, FinishFacts DEF Ack, None
  <1>23. ASSUME NEW s \in Slots, ForceAck(s) PROVE TasksKept
    BY <1>23, FinishFacts DEF ForceAck, None
  <1>24. ASSUME NEW s \in Slots, Reject(s) PROVE TasksKept
    BY <1>24, FinishFacts DEF Reject, None, DeadLetter
  <1>25. ASSUME NEW s \in Slots, RepublishExhausted(s) PROVE TasksKept
    BY <1>25, FinishFacts DEF RepublishExhausted, None, DeadLetter
  <1>26. ASSUME NEW s \in Slots, RepublishOk(s) PROVE TasksKept
    <2>1. Busy(s)
      BY <1>26 DEF RepublishOk, At, Busy
    <2>2. QED
      BY <1>26, <2>1, GotoFacts DEF RepublishOk
  <1>27. ASSUME NEW s \in Slots, RepublishErr(s) PROVE TasksKept
    BY <1>27, FinishFacts DEF RepublishErr, None
  <1>28. ASSUME NEW s \in Slots, RepublishUnconfirmed(s) PROVE TasksKept
    <2>1. s[1] \in Procs
      BY DEF Slots, Procs
    <2>2. QED
      BY <1>28, <2>1, StaleFacts DEF RepublishUnconfirmed, None, Busy
  <1>29. ASSUME NEW m \in Msg, RetryExpires(m) PROVE TasksKept
    BY <1>29 DEF RetryExpires
  <1>30. ASSUME NEW m \in Msg, DlqRecover(m) PROVE TasksKept
    BY <1>30 DEF DlqRecover
  <1>31. ASSUME NEW m \in Msg, DlqDrop(m) PROVE TasksKept
    BY <1>31 DEF DlqDrop
  <1>32. CASE UNCHANGED vars
    BY <1>32 DEF vars
  <1>33. QED
    BY <1>1, <1>2, <1>3, <1>4, <1>5, <1>6, <1>7, <1>8, <1>9, <1>10, <1>11, <1>12, <1>13, <1>14, <1>15, <1>16, <1>17, <1>18, <1>19, <1>20, <1>21, <1>22, <1>23, <1>24, <1>25, <1>26, <1>27, <1>28, <1>29, <1>30, <1>31, <1>32
    DEF Next, ProcessStep, ConsumerStep, TaskStep, BrokerStep

-----------------------------------------------------------------------------
(* What a step does to the copies of one item *)

\* A durable copy goes only when the item is done or dropped, or when a forced
\* requeue takes it into memory; it comes from another copy of the item.
FirmKept(i) ==
  Firm(i) => Firm(i)' \/ i \in done' \cup discarded' \/ (i \in Misrouted /\ InMemory(i)')
FirmFrom(i) ==
  Firm(i)' => Firm(i) \/ InMemory(i) \/ i \in done \cup discarded

\* A copy in memory goes only to the broker or with its process, which is
\* recorded as a loss; it comes from publish(), or from another copy.
MemoryKept(i) == InMemory(i) => InMemory(i)' \/ Firm(i)' \/ i \in lost'
MemoryFrom(i) == InMemory(i)' => InMemory(i) \/ Firm(i) \/ i \in published' \ published

\* A copy on a queue, or in a live delivery that is still to be settled.
Unsettled == {"process", "force_ack", "republish", "reject"}

LEMMA FirmTask ==
  ASSUME NEW s \in Slots, task[s].stage \in Unsettled, task[s].live
  PROVE  Firm(ItemAt(s))
  BY DEF Firm, Unsettled

LEMMA FirmMsg ==
  ASSUME NEW m \in Msg, main[m] > 0 \/ retryq[m] > 0 \/ dlq[m] > 0
  PROVE  Firm(m.item)
  BY DEF Firm

\* A requeued message was on the queue or in a live delivery of p.
LEMMA RequeuedFrom ==
  ASSUME TypeOK, NEW p \in Procs, NEW m \in Msg, Requeued(p)[m] > 0
  PROVE  main[m] > 0 \/ \E s \in SlotsOf(p) : Busy(s) /\ task[s].live /\ task[s].msg = m
  <1> DEFINE Back == {s \in SlotsOf(p) : Busy(s) /\ task[s].live /\ task[s].msg = m}
  <1>1. Requeued(p)[m] = main[m] + Cardinality(Back)
    BY DEF Requeued
  <1>2. CASE Back = {}
    <2>1. Cardinality(Back) = 0
      BY <1>2, FS_EmptySet
    <2>2. main[m] \in Nat
      BY DEF TypeOK
    <2> HIDE DEF Back
    <2>3. QED
      BY <1>1, <2>1, <2>2
  <1>3. CASE Back # {}
    BY <1>3
  <1>4. QED
    BY <1>2, <1>3

\* On a dead channel no delivery is live.
LEMMA StaleDead ==
  ASSUME TypeOK, NEW p \in Procs, NEW t \in Slots, t[1] = p
  PROVE  Stale(p)[t] = None \/ ~Stale(p)[t].live
  <1>1. CASE Busy(t)
    <2>1. task[t] \in Task
      BY <1>1, BusyTask
    <2>2. Stale(p)[t] = [task[t] EXCEPT !.live = FALSE]
      BY <1>1 DEF Stale
    <2>3. QED
      BY <2>1, <2>2 DEF Task
  <1>2. CASE ~Busy(t)
    <2>1. Stale(p)[t] = task[t]
      BY <1>2 DEF Stale
    <2>2. QED
      BY <1>2, <2>1 DEF Busy, TypeOK, Task
  <1>3. QED
    BY <1>1, <1>2

\* The item of a delivery that is live, or about to be republished, is known
\* to the broker by more than that delivery's last step.
LEMMA LiveIsKept ==
  ASSUME QueueInv, NEW s \in Slots, Busy(s), task[s].live \/ task[s].stage = "republish"
  PROVE  Firm(ItemAt(s)) \/ ItemAt(s) \in done \cup discarded
  <1>1. CASE ItemAt(s) \in Misrouted
    <2>1. task[s].stage \in {"process", "force_ack"}
      BY <1>1 DEF QueueInv, MisroutedNotRetried
    <2>2. QED
      BY <2>1, FirmTask DEF Unsettled
  <1>2. CASE ItemAt(s) \notin Misrouted
    BY <1>2 DEF QueueInv, DeliveredIsKept
  <1>3. QED
    BY <1>1, <1>2

\* A process that stops or loses its channel: its live deliveries are back on
\* the main queue.
LEMMA RequeueStep ==
  ASSUME QueueInv, NEW p \in Procs, NEW i \in Items,
         \A t \in Slots : t[1] # p => task'[t] = task[t],
         \A t \in Slots : t[1] = p => task'[t] = None \/ ~task'[t].live,
         \A m \in Msg : Requeued(p)[m] > 0 => main'[m] > 0,
         \A m \in Msg : main'[m] > 0 => Requeued(p)[m] > 0 \/ InMemory(m.item),
         \A m \in Msg : retryq[m] > 0 => retryq'[m] > 0,
         \A m \in Msg : retryq'[m] > 0 =>
                            retryq[m] > 0 \/ Firm(m.item) \/ m.item \in done \cup discarded,
         dlq' = dlq
  PROVE  FirmKept(i) /\ FirmFrom(i)
  <1>0. TypeOK
    BY DEF QueueInv
  <1>1. \A m \in Msg : main[m] > 0 => main'[m] > 0
    <2> SUFFICES ASSUME NEW m \in Msg, main[m] > 0 PROVE main'[m] > 0
      OBVIOUS
    <2>1. Requeued(p)[m] >= main[m] /\ main[m] \in Nat /\ Requeued(p)[m] \in Nat
      BY <1>0, RequeuedFacts DEF TypeOK
    <2>2. QED
      BY <2>1
  <1>2. Firm(i) => Firm(i)'
    <2> SUFFICES ASSUME Firm(i) PROVE Firm(i)'
      OBVIOUS
    <2>1. CASE \E m \in Msg : m.item = i /\ (main[m] > 0 \/ retryq[m] > 0 \/ dlq[m] > 0)
      BY <1>1, <2>1 DEF Firm
    <2>2. ASSUME NEW s \in Slots, task[s].stage \in Unsettled, task[s].live, ItemAt(s) = i
          PROVE  Firm(i)'
      <3>1. CASE s[1] # p
        BY <2>2, <3>1 DEF Firm, ItemAt, Unsettled
      <3>2. CASE s[1] = p
        <4>1. Busy(s) /\ s \in SlotsOf(p) /\ task[s].msg \in Msg
          BY <1>0, <2>2, <3>2, BusyTask DEF Busy, SlotsOf, Unsettled
        <4>2. main'[task[s].msg] > 0
          BY <1>0, <2>2, <4>1, RequeuedFacts
        <4>3. QED
          BY <2>2, <4>1, <4>2 DEF Firm, ItemAt
      <3>3. QED
        BY <3>1, <3>2
    <2>3. QED
      BY <2>1, <2>2 DEF Firm, Unsettled
  <1>3. FirmFrom(i)
    <2> SUFFICES ASSUME Firm(i)' PROVE Firm(i) \/ InMemory(i) \/ i \in done \cup discarded
      BY DEF FirmFrom
    <2>1. ASSUME NEW m \in Msg, m.item = i, main'[m] > 0
          PROVE  Firm(i) \/ InMemory(i) \/ i \in done \cup discarded
      <3>1. CASE Requeued(p)[m] > 0
        <4>1. CASE main[m] > 0
          BY <2>1, <4>1, FirmMsg
        <4>2. ASSUME NEW s \in SlotsOf(p), Busy(s), task[s].live, task[s].msg = m
              PROVE  Firm(i) \/ i \in done \cup discarded
          BY <2>1, <4>2, LiveIsKept DEF SlotsOf, ItemAt
        <4>3. QED
          BY <1>0, <3>1, <4>1, <4>2, RequeuedFrom
      <3>2. QED
        BY <2>1, <3>1
    <2>2. ASSUME NEW m \in Msg, m.item = i, retryq'[m] > 0 \/ dlq'[m] > 0
          PROVE  Firm(i) \/ i \in done \cup discarded
      BY <2>2, FirmMsg
    <2>3. ASSUME NEW s \in Slots, task'[s].stage \in Unsettled, task'[s].live, ItemAt(s)' = i
          PROVE  Firm(i)
      <3>1. s[1] # p
        BY <2>3 DEF None, Unsettled
      <3>2. QED
        BY <2>3, <3>1, FirmTask DEF ItemAt
    <2>4. QED
      BY <2>1, <2>2, <2>3 DEF Firm, Unsettled
  <1>4. QED
    BY <1>2, <1>3 DEF FirmKept

\* A step of one delivery task that leaves the other deliveries alone.
LEMMA OneTask ==
  ASSUME TypeOK, NEW s \in Slots, \A t \in Slots \ {s} : task'[t] = task[t], NEW i \in Items,
         \A m \in Msg : main[m] > 0 => main'[m] > 0 \/ (m.item = i => Firm(i)'),
         \A m \in Msg : retryq[m] > 0 => retryq'[m] > 0,
         \A m \in Msg : dlq[m] > 0 => dlq'[m] > 0,
         \A m \in Msg : m.item = i /\ (main'[m] > 0 \/ retryq'[m] > 0 \/ dlq'[m] > 0) =>
             Firm(i) \/ i \in done \cup discarded,
         task'[s].stage \in Unsettled /\ task'[s].live /\ task'[s].msg.item = i => Firm(i),
         task[s].stage \in Unsettled /\ task[s].live /\ ItemAt(s) = i =>
             Firm(i)' \/ i \in done' \cup discarded' \/ (i \in Misrouted /\ InMemory(i)')
  PROVE  FirmKept(i) /\ FirmFrom(i)
  <1>1. FirmKept(i)
    <2> SUFFICES ASSUME Firm(i)
                 PROVE  Firm(i)' \/ i \in done' \cup discarded' \/ (i \in Misrouted /\ InMemory(i)')
      BY DEF FirmKept
    <2>1. CASE \E m \in Msg : m.item = i /\ (main[m] > 0 \/ retryq[m] > 0 \/ dlq[m] > 0)
      <3>1. PICK m \in Msg : m.item = i /\ (main[m] > 0 \/ retryq[m] > 0 \/ dlq[m] > 0)
        BY <2>1
      <3>2. CASE main'[m] > 0 \/ retryq'[m] > 0 \/ dlq'[m] > 0
        BY <3>1, <3>2 DEF Firm
      <3>3. QED
        BY <3>1, <3>2
    <2>2. ASSUME NEW t \in Slots, task[t].stage \in Unsettled, task[t].live, ItemAt(t) = i
          PROVE  Firm(i)' \/ i \in done' \cup discarded' \/ (i \in Misrouted /\ InMemory(i)')
      <3>1. CASE t = s
        BY <2>2, <3>1
      <3>2. CASE t # s
        BY <2>2, <3>2 DEF Firm, ItemAt, Unsettled
      <3>3. QED
        BY <3>1, <3>2
    <2>3. QED
      BY <2>1, <2>2 DEF Firm, Unsettled
  <1>2. FirmFrom(i)
    <2> SUFFICES ASSUME Firm(i)' PROVE Firm(i) \/ InMemory(i) \/ i \in done \cup discarded
      BY DEF FirmFrom
    <2>1. CASE \E m \in Msg : m.item = i /\ (main'[m] > 0 \/ retryq'[m] > 0 \/ dlq'[m] > 0)
      BY <2>1
    <2>2. ASSUME NEW t \in Slots, task'[t].stage \in Unsettled, task'[t].live, task'[t].msg.item = i
          PROVE  Firm(i)
      <3>1. CASE t = s
        BY <2>2, <3>1
      <3>2. CASE t # s
        BY <2>2, <3>2, FirmTask DEF ItemAt
      <3>3. QED
        BY <3>1, <3>2
    <2>3. QED
      BY <2>1, <2>2 DEF Firm, ItemAt, Unsettled
  <1>3. QED
    BY <1>1, <1>2

\* Which messages a bag holds after one more or one less.
LEMMA BagSupport ==
  ASSUME NEW S, NEW bag \in [S -> Nat], NEW x \in S
  PROVE  /\ \A y \in S : Put(bag, x)[y] > 0 <=> y = x \/ bag[y] > 0
         /\ \A y \in S : Take(bag, x)[y] > 0 => bag[y] > 0
         /\ \A y \in S \ {x} : bag[y] > 0 => Take(bag, x)[y] > 0
  BY DEF Put, Take

\* The item a processor publishes or re-buffers is in its memory.
LEMMA HeldInMemory ==
  ASSUME QueueInv, NEW p \in Procs, bp[p] \in {"publish", "rebuffer"}
  PROVE  /\ held[p][1] \in Items /\ held[p][1] \in InMemoryOf(p) /\ InMemory(held[p][1])
         /\ held[p] = <<held[p][1]>>
  <1>1. held[p] \in Seq(Items) /\ Len(held[p]) = 1
    BY DEF QueueInv, TypeOK, HeldWhilePublishing
  <1>2. held[p][1] \in Items /\ 1 \in DOMAIN held[p] /\ held[p] = <<held[p][1]>>
    BY <1>1
  <1>3. held[p][1] \in InMemoryOf(p)
    BY <1>2 DEF InMemoryOf, Elements
  <1>4. QED
    BY <1>2, <1>3 DEF InMemory

\* No step takes the last durable copy of an item without its being processed,
\* discarded or requeued by force; none makes one from nothing.
LEMMA FirmStep ==
  ASSUME QueueInv, [Next]_vars, NEW i \in Items
  PROVE  FirmKept(i) /\ FirmFrom(i)
  <1> USE DEF procVars, taskVars, brokerVars, history
  <1>0. TypeOK /\ main \in [Msg -> Nat] /\ retryq \in [Msg -> Nat] /\ dlq \in [Msg -> Nat]
    BY DEF QueueInv, TypeOK
  <1>1. ASSUME UNCHANGED <<main, retryq, dlq, task>> PROVE FirmKept(i) /\ FirmFrom(i)
    BY <1>1 DEF FirmKept, FirmFrom, Firm, ItemAt
  <1>2. ASSUME NEW p \in Procs, ProcessStep(p) PROVE FirmKept(i) /\ FirmFrom(i)
    <2>1. CASE \/ \E j \in Items : Publish(p, j)
               \/ BufferRecv(p) \/ BufferPublishErr(p) \/ Rebuffer(p) \/ BufferCancelled(p)
               \/ Close(p) \/ CloseReturns(p) \/ Restart(p) \/ Reconnect(p)
      BY <1>1, <2>1 DEF Publish, BufferRecv, BufferPublishErr, Rebuffer, BufferCancelled, Close,
                        CloseReturns, Restart, Reconnect
    <2>2. CASE BufferPublishOk(p)
      <3>1. held[p][1] \in Items /\ InMemory(held[p][1])
        BY <2>2, HeldInMemory DEF BufferPublishOk
      <3>2. Fresh(held[p][1]) \in Msg /\ Fresh(held[p][1]).item = held[p][1]
        BY <3>1, MsgFacts
      <3>3. main' = Put(main, Fresh(held[p][1])) /\ UNCHANGED <<retryq, dlq, task>>
        BY <2>2 DEF BufferPublishOk
      <3>4. \A m \in Msg : main'[m] > 0 <=> m = Fresh(held[p][1]) \/ main[m] > 0
        BY <1>0, <3>2, <3>3, BagSupport
      <3>5. QED
        BY <3>1, <3>2, <3>3, <3>4 DEF FirmKept, FirmFrom, Firm, ItemAt
    <2>3. CASE Exit(p) \/ Crash(p)
      <3>1. /\ \A t \in Slots : t[1] # p => task'[t] = task[t]
            /\ \A t \in Slots : t[1] = p => task'[t] = None
            /\ main' = Requeued(p) /\ UNCHANGED <<retryq, dlq>>
        BY <2>3 DEF Exit, Crash, Stop
      <3>2. QED
        BY <3>1, RequeueStep
    <2>4. CASE ConnectionLost(p)
      <3>1. /\ task' = Stale(p) /\ main' = Requeued(p) /\ UNCHANGED <<retryq, dlq>>
        BY <2>4 DEF ConnectionLost, LoseConnection
      <3>2. QED
        BY <1>0, <3>1, StaleFacts, StaleDead, RequeueStep
    <2>5. CASE BufferPublishUnconfirmed(p)
      <3>1. held[p][1] \in Items /\ InMemory(held[p][1])
        BY <2>5, HeldInMemory DEF BufferPublishUnconfirmed
      <3>2. Fresh(held[p][1]) \in Msg /\ Fresh(held[p][1]).item = held[p][1]
        BY <3>1, MsgFacts
      <3>3. /\ task' = Stale(p) /\ main' = Put(Requeued(p), Fresh(held[p][1]))
            /\ UNCHANGED <<retryq, dlq>>
        BY <2>5 DEF BufferPublishUnconfirmed, LoseConnection
      <3>4. Requeued(p) \in [Msg -> Nat]
        BY <1>0, RequeuedFacts
      <3>5. \A m \in Msg : main'[m] > 0 <=> m = Fresh(held[p][1]) \/ Requeued(p)[m] > 0
        BY <3>2, <3>3, <3>4, BagSupport
      <3>6. QED
        BY <1>0, <3>1, <3>2, <3>3, <3>5, StaleFacts, StaleDead, RequeueStep
    <2>6. QED
      BY <1>2, <2>1, <2>2, <2>3, <2>4, <2>5 DEF ProcessStep
  <1>3. ASSUME NEW c \in Consumers, ConsumerStep(c) PROVE FirmKept(i) /\ FirmFrom(i)
    BY <1>1, <1>3 DEF ConsumerStep, StopConsuming, ForcePublish
  <1>4. ASSUME NEW s \in Slots, TaskStep(s) PROVE FirmKept(i) /\ FirmFrom(i)
    <2>1. ASSUME NEW m \in Msg, Deliver(s, m) PROVE FirmKept(i) /\ FirmFrom(i)
      <3>1. /\ task'[s].stage = "process" /\ task'[s].live /\ task'[s].msg = m
            /\ \A t \in Slots \ {s} : task'[t] = task[t]
        BY <1>0, <2>1 DEF Deliver, TypeOK
      <3>2. /\ main[m] > 0 /\ UNCHANGED <<retryq, dlq>>
            /\ \A n \in Msg : main'[n] > 0 => main[n] > 0
            /\ \A n \in Msg \ {m} : main[n] > 0 => main'[n] > 0
        BY <1>0, <2>1, BagSupport DEF Deliver
      <3>3. task[s].stage \notin Unsettled
        BY <2>1 DEF Deliver, Busy, Unsettled
      <3>4. Firm(m.item)'
        BY <3>1 DEF Firm, ItemAt
      <3>5. \A n \in Msg : main[n] > 0 => main'[n] > 0 \/ (n.item = i => Firm(i)')
        BY <3>2, <3>4
      <3>6. task'[s].stage \in Unsettled /\ task'[s].live /\ task'[s].msg.item = i => Firm(i)
        BY <3>1, <3>2, FirmMsg
      <3>7. \A n \in Msg : n.item = i /\ (main'[n] > 0 \/ retryq'[n] > 0 \/ dlq'[n] > 0) => Firm(i)
        BY <3>2, FirmMsg
      <3>8. QED
        BY <1>0, <3>1, <3>2, <3>3, <3>5, <3>6, <3>7, OneTask
    <2>2. ASSUME NEW stage \in {"ack", "force_ack", "republish", "reject"}, At(s, "process"),
                 Goto(s, stage), UNCHANGED <<main, retryq, dlq>>,
                 stage = "ack" => ItemAt(s) \in done'
          PROVE  FirmKept(i) /\ FirmFrom(i)
      <3>1. /\ \A t \in Slots \ {s} : task'[t] = task[t]
            /\ task'[s].stage = stage /\ task'[s].msg = task[s].msg /\ task'[s].live = task[s].live
        BY <1>0, <2>2, GotoFacts DEF At, Busy
      <3>2. task[s].stage \in Unsettled
        BY <2>2 DEF At, Unsettled
      <3>3. task'[s].live /\ task'[s].msg.item = i => Firm(i)
        BY <3>1, <3>2, FirmTask DEF ItemAt
      <3>4. task[s].live /\ ItemAt(s) = i => Firm(i)' \/ i \in done'
        BY <2>2, <3>1 DEF Firm, ItemAt
      <3>5. \A n \in Msg : n.item = i /\ (main'[n] > 0 \/ retryq'[n] > 0 \/ dlq'[n] > 0) => Firm(i)
        BY <2>2, FirmMsg
      <3>6. QED
        BY <1>0, <2>2, <3>1, <3>3, <3>4, <3>5, OneTask
    <2>3. CASE Succeed(s) \/ Fail(s) \/ Irrelevant(s) \/ GiveUp(s)
      BY <2>2, <2>3 DEF Succeed, Fail, Irrelevant, GiveUp
    <2>4. CASE Ack(s)
      <3>1. task[s].stage \notin Unsettled /\ UNCHANGED <<main, retryq, dlq>>
        BY <2>4 DEF Ack, Unsettled
      <3>2. task'[s] = None /\ \A t \in Slots \ {s} : task'[t] = task[t]
        BY <1>0, <2>4, FinishFacts DEF Ack
      <3>3. task'[s].stage \notin Unsettled
        BY <3>2 DEF None, Unsettled
      <3>4. \A n \in Msg : n.item = i /\ (main'[n] > 0 \/ retryq'[n] > 0 \/ dlq'[n] > 0) => Firm(i)
        BY <3>1, FirmMsg
      <3>5. QED
        BY <1>0, <3>1, <3>2, <3>3, <3>4, OneTask
    <2>5. CASE ForceAck(s)
      <3>1. At(s, "force_ack") /\ UNCHANGED <<main, retryq, dlq>>
        BY <2>5 DEF ForceAck
      <3>2. task'[s] = None /\ \A t \in Slots \ {s} : task'[t] = task[t]
        BY <1>0, <2>5, FinishFacts DEF ForceAck
      <3>3. task'[s].stage \notin Unsettled
        BY <3>2 DEF None, Unsettled
      <3>4. \A n \in Msg : n.item = i /\ (main'[n] > 0 \/ retryq'[n] > 0 \/ dlq'[n] > 0) => Firm(i)
        BY <3>1, FirmMsg
      <3>5. task[s].live /\ ItemAt(s) = i => i \in Misrouted /\ InMemory(i)'
        <4> SUFFICES ASSUME task[s].live, ItemAt(s) = i PROVE i \in Misrouted /\ InMemory(i)'
          OBVIOUS
        <4>1. i \in Misrouted
          BY <3>1 DEF QueueInv, ForcedIsMisrouted
        <4>2. s[1] \in Consumers /\ s[1] \in Procs
          BY DEF Slots, Procs
        <4>3. forced' = [forced EXCEPT ![s[1]] = Put(forced[s[1]], i)]
          BY <2>5 DEF ForceAck
        <4>4. forced[s[1]] \in [Items -> Nat] /\ forced'[s[1]] = Put(forced[s[1]], i)
          BY <1>0, <4>2, <4>3 DEF TypeOK
        <4>5. forced'[s[1]][i] > 0
          BY <4>4, BagSupport
        <4>6. QED
          BY <4>1, <4>2, <4>5 DEF InMemory, InMemoryOf, Pending
      <3>6. QED
        BY <1>0, <3>1, <3>2, <3>3, <3>4, <3>5, OneTask
    <2>6. CASE Reject(s) \/ RepublishExhausted(s)
      <3>1. task[s].stage \in Unsettled /\ DeadLetter(s)
        BY <2>6 DEF Reject, RepublishExhausted, At, Unsettled
      <3>2. task[s].msg \in Msg /\ UNCHANGED <<main, retryq>>
        BY <1>0, <3>1, BusyTask DEF Busy, Unsettled, DeadLetter
      <3>3. task'[s] = None /\ \A t \in Slots \ {s} : task'[t] = task[t]
        BY <1>0, <3>1, FinishFacts DEF DeadLetter
      <3>4. task'[s].stage \notin Unsettled
        BY <3>3 DEF None, Unsettled
      <3>5. /\ \A m \in Msg : dlq[m] > 0 => dlq'[m] > 0
            /\ \A m \in Msg : dlq'[m] > 0 => dlq[m] > 0 \/ (task[s].live /\ m = task[s].msg)
            /\ task[s].live => dlq'[task[s].msg] > 0
        BY <1>0, <3>1, <3>2, BagSupport DEF DeadLetter
      <3>6. \A n \in Msg : n.item = i /\ (main'[n] > 0 \/ retryq'[n] > 0 \/ dlq'[n] > 0) => Firm(i)
        BY <3>1, <3>2, <3>5, FirmMsg, FirmTask DEF ItemAt
      <3>7. task[s].live /\ ItemAt(s) = i => Firm(i)'
        BY <3>2, <3>5 DEF Firm, ItemAt
      <3>8. QED
        BY <1>0, <3>2, <3>3, <3>4, <3>5, <3>6, <3>7, OneTask
    <2>7. CASE RepublishOk(s)
      <3>1. At(s, "republish") /\ Busy(s) /\ UNCHANGED <<main, dlq>> /\ retryq' = Put(retryq, RetryCopy(s))
        BY <2>7 DEF RepublishOk, At, Busy
      <3>2. RetryCopy(s) \in Msg /\ RetryCopy(s).item = ItemAt(s)
        BY <1>0, <3>1, RetryCopyFacts
      <3>3. \A t \in Slots \ {s} : task'[t] = task[t]
        BY <1>0, <2>7, <3>1, GotoFacts DEF RepublishOk
      <3>4. task'[s].stage = "ack_republished"
        BY <1>0, <2>7, <3>1, GotoFacts DEF RepublishOk
      <3>5. \A m \in Msg : retryq'[m] > 0 <=> m = RetryCopy(s) \/ retryq[m] > 0
        BY <1>0, <3>1, <3>2, BagSupport
      <3>6. ItemAt(s) = i => Firm(i) \/ i \in done \cup discarded
        BY <3>1, LiveIsKept DEF At
      <3>7. \A n \in Msg : n.item = i /\ (main'[n] > 0 \/ retryq'[n] > 0 \/ dlq'[n] > 0) =>
                Firm(i) \/ i \in done \cup discarded
        BY <3>1, <3>2, <3>5, <3>6, FirmMsg
      <3>8. ItemAt(s) = i => Firm(i)'
        BY <3>2, <3>5 DEF Firm
      <3>9. task'[s].stage \notin Unsettled
        BY <3>4 DEF Unsettled
      <3>10. QED
        BY <1>0, <3>1, <3>3, <3>5, <3>7, <3>8, <3>9, OneTask
    <2>8. CASE RepublishErr(s)
      <3>1. At(s, "republish") /\ task[s].stage \in Unsettled /\ UNCHANGED <<retryq, dlq>>
        BY <2>8 DEF RepublishErr, At, Unsettled
      <3>2. task[s].msg \in Msg
        BY <1>0, <3>1, BusyTask DEF Busy, At
      <3>3. task'[s] = None /\ \A t \in Slots \ {s} : task'[t] = task[t]
        BY <1>0, <2>8, FinishFacts DEF RepublishErr
      <3>4. task'[s].stage \notin Unsettled
        BY <3>3 DEF None, Unsettled
      <3>5. /\ \A m \in Msg : main[m] > 0 => main'[m] > 0
            /\ \A m \in Msg : main'[m] > 0 => main[m] > 0 \/ (task[s].live /\ m = task[s].msg)
            /\ task[s].live => main'[task[s].msg] > 0
        BY <1>0, <2>8, <3>2, BagSupport DEF RepublishErr
      <3>6. \A n \in Msg : n.item = i /\ (main'[n] > 0 \/ retryq'[n] > 0 \/ dlq'[n] > 0) => Firm(i)
        BY <3>1, <3>2, <3>5, FirmMsg, FirmTask DEF ItemAt
      <3>7. task[s].live /\ ItemAt(s) = i => Firm(i)'
        BY <3>2, <3>5 DEF Firm, ItemAt
      <3>8. QED
        BY <1>0, <3>1, <3>3, <3>4, <3>5, <3>6, <3>7, OneTask
    <2>9. CASE RepublishUnconfirmed(s)
      <3>1. /\ At(s, "republish") /\ Busy(s) /\ s[1] \in Procs /\ UNCHANGED dlq
            /\ retryq' = Put(retryq, RetryCopy(s)) /\ main' = Requeued(s[1])
            /\ task' = [Stale(s[1]) EXCEPT ![s] = None]
        BY <2>9 DEF RepublishUnconfirmed, At, Busy, Slots, Procs
      <3>2. RetryCopy(s) \in Msg /\ RetryCopy(s).item = ItemAt(s)
        BY <1>0, <3>1, RetryCopyFacts
      <3>3. \A m \in Msg : retryq'[m] > 0 <=> m = RetryCopy(s) \/ retryq[m] > 0
        BY <1>0, <3>1, <3>2, BagSupport
      <3>4. Firm(ItemAt(s)) \/ ItemAt(s) \in done \cup discarded
        BY <3>1, LiveIsKept DEF At
      <3>5. /\ \A t \in Slots : t[1] # s[1] => task'[t] = task[t]
            /\ \A t \in Slots : t[1] = s[1] => task'[t] = None \/ ~task'[t].live
        BY <1>0, <3>1, StaleFacts, StaleDead
      <3>6. QED
        BY <3>1, <3>2, <3>3, <3>4, <3>5, RequeueStep
    <2>10. QED
      BY <1>4, <2>1, <2>3, <2>4, <2>5, <2>6, <2>7, <2>8, <2>9 DEF TaskStep
  <1>5. ASSUME NEW m \in Msg, BrokerStep(m) PROVE FirmKept(i) /\ FirmFrom(i)
    <2>1. CASE RetryExpires(m)
      <3>1. /\ retryq[m] > 0 /\ UNCHANGED <<dlq, task>>
            /\ \A n \in Msg : main'[n] > 0 <=> n = m \/ main[n] > 0
            /\ \A n \in Msg : retryq'[n] > 0 => retryq[n] > 0
            /\ \A n \in Msg \ {m} : retryq[n] > 0 => retryq'[n] > 0
        BY <1>0, <2>1, BagSupport DEF RetryExpires
      <3>2. QED
        BY <3>1 DEF FirmKept, FirmFrom, Firm, ItemAt
    <2>2. CASE DlqRecover(m)
      <3>1. Fresh(m.item) \in Msg /\ Fresh(m.item).item = m.item
        BY MsgFacts
      <3>2. \A n \in Msg : main'[n] > 0 <=> n = Fresh(m.item) \/ main[n] > 0
        BY <1>0, <2>2, <3>1, BagSupport DEF DlqRecover
      <3>3. /\ dlq[m] > 0 /\ UNCHANGED <<retryq, task>>
            /\ \A n \in Msg : dlq'[n] > 0 => dlq[n] > 0
            /\ \A n \in Msg \ {m} : dlq[n] > 0 => dlq'[n] > 0
        BY <1>0, <2>2, BagSupport DEF DlqRecover
      <3>4. QED
        BY <3>1, <3>2, <3>3 DEF FirmKept, FirmFrom, Firm, ItemAt
    <2>3. CASE DlqDrop(m)
      <3>1. /\ dlq[m] > 0 /\ UNCHANGED <<main, retryq, task>> /\ m.item \in discarded'
            /\ \A n \in Msg : dlq'[n] > 0 => dlq[n] > 0
            /\ \A n \in Msg \ {m} : dlq[n] > 0 => dlq'[n] > 0
        BY <1>0, <2>3, BagSupport DEF DlqDrop
      <3>2. QED
        BY <3>1 DEF FirmKept, FirmFrom, Firm, ItemAt
    <2>4. QED
      BY <1>5, <2>1, <2>2, <2>3 DEF BrokerStep
  <1>6. CASE UNCHANGED vars
    BY <1>1, <1>6 DEF vars
  <1>7. QED
    BY <1>2, <1>3, <1>4, <1>5, <1>6 DEF Next

\* The elements of a buffer after send() and recv().
LEMMA ElementsOps ==
  ASSUME NEW seq \in Seq(Items), NEW x \in Items
  PROVE  /\ Elements(Append(seq, x)) = Elements(seq) \cup {x}
         /\ seq # <<>> => Elements(seq) = {Head(seq)} \cup Elements(Tail(seq))
         /\ Elements(<<x>>) = {x} /\ Elements(<<>>) = {}
  <1>1. Elements(Append(seq, x)) = Elements(seq) \cup {x}
    <2>1. /\ DOMAIN Append(seq, x) = 1..(Len(seq) + 1) /\ DOMAIN seq = 1..Len(seq)
          /\ Append(seq, x)[Len(seq) + 1] = x /\ Len(seq) \in Nat
          /\ \A n \in 1..Len(seq) : Append(seq, x)[n] = seq[n]
      OBVIOUS
    <2>2. QED
      BY <2>1 DEF Elements
  <1>2. ASSUME seq # <<>> PROVE Elements(seq) = {Head(seq)} \cup Elements(Tail(seq))
    <2>1. /\ DOMAIN seq = 1..Len(seq) /\ Len(seq) \in Nat \ {0} /\ Head(seq) = seq[1]
          /\ DOMAIN Tail(seq) = 1..(Len(seq) - 1)
          /\ \A n \in 1..(Len(seq) - 1) : Tail(seq)[n] = seq[n + 1]
      BY <1>2
    <2>2. \A n \in 1..Len(seq) : n = 1 \/ n - 1 \in 1..(Len(seq) - 1)
      BY <2>1
    <2>3. Elements(seq) \subseteq {Head(seq)} \cup Elements(Tail(seq))
      <3> SUFFICES ASSUME NEW n \in 1..Len(seq), n # 1 PROVE seq[n] \in Elements(Tail(seq))
        BY <2>1 DEF Elements
      <3>1. n - 1 \in 1..(Len(seq) - 1) /\ Tail(seq)[n - 1] = seq[n]
        BY <2>1, <2>2
      <3>2. QED
        BY <2>1, <3>1 DEF Elements
    <2>4. {Head(seq)} \cup Elements(Tail(seq)) \subseteq Elements(seq)
      BY <2>1 DEF Elements
    <2>5. QED
      BY <2>3, <2>4
  <1>3. Elements(<<x>>) = {x} /\ Elements(<<>>) = {}
    BY DEF Elements
  <1>4. QED
    BY <1>1, <1>2, <1>3

\* A step that changes the memory of one process only.
LEMMA OneMemory ==
  ASSUME NEW p \in Procs, NEW i \in Items, \A q \in Procs \ {p} : InMemoryOf(q)' = InMemoryOf(q),
         i \in InMemoryOf(p) => i \in InMemoryOf(p)' \/ Firm(i)' \/ i \in lost',
         i \in InMemoryOf(p)' => i \in InMemoryOf(p) \/ Firm(i) \/ i \in published' \ published
  PROVE  MemoryKept(i) /\ MemoryFrom(i)
  BY DEF MemoryKept, MemoryFrom, InMemory

\* What send() does to the memory of its process.
LEMMA SendEffect ==
  ASSUME TypeOK, NEW p \in Procs, NEW j \in Items, Send(p, j)
  PROVE  /\ \A q \in Procs \ {p} : buffer'[q] = buffer[q]
         /\ \/ Elements(buffer'[p]) = Elements(buffer[p]) \cup {j} /\ lost' = lost
            \/ Elements(buffer'[p]) = Elements(buffer[p]) /\ lost' = lost \cup {j}
  <1>1. CASE buffer' = [buffer EXCEPT ![p] = Append(buffer[p], j)] /\ UNCHANGED lost
    <2>1. buffer[p] \in Seq(Items) /\ buffer'[p] = Append(buffer[p], j)
          /\ \A q \in Procs \ {p} : buffer'[q] = buffer[q]
      BY <1>1 DEF TypeOK
    <2>2. QED
      BY <1>1, <2>1, ElementsOps
  <1>2. CASE UNCHANGED buffer /\ lost' = lost \cup {j}
    BY <1>2
  <1>3. QED
    BY <1>1, <1>2 DEF Send

\* A copy in memory goes to the broker, or with its process; it comes from
\* publish() or from a delivery that is requeued by force.
LEMMA MemoryStep ==
  ASSUME QueueInv, [Next]_vars, NEW i \in Items
  PROVE  MemoryKept(i) /\ MemoryFrom(i)
  <1> USE DEF procVars, taskVars, brokerVars, history
  <1>0. /\ TypeOK /\ main \in [Msg -> Nat]
        /\ \A p \in Procs : buffer[p] \in Seq(Items) /\ held[p] \in Seq(Items)
    BY DEF QueueInv, TypeOK
  <1>1. ASSUME UNCHANGED <<buffer, held, forced>> PROVE MemoryKept(i) /\ MemoryFrom(i)
    BY <1>1 DEF MemoryKept, MemoryFrom, InMemory, InMemoryOf, Elements, Pending
  <1>2. ASSUME NEW p \in Procs, UNCHANGED forced,
               \A q \in Procs \ {p} : buffer'[q] = buffer[q] /\ held'[q] = held[q],
               i \in Elements(buffer[p]) \cup Elements(held[p]) =>
                   i \in Elements(buffer'[p]) \cup Elements(held'[p]) \/ Firm(i)' \/ i \in lost',
               i \in Elements(buffer'[p]) \cup Elements(held'[p]) =>
                   i \in Elements(buffer[p]) \cup Elements(held[p]) \/ i \in published' \ published
        PROVE  MemoryKept(i) /\ MemoryFrom(i)
    <2>1. \A q \in Procs \ {p} : InMemoryOf(q)' = InMemoryOf(q)
      BY <1>2 DEF InMemoryOf, Elements, Pending
    <2>2. InMemoryOf(p)' = Elements(buffer'[p]) \cup Elements(held'[p])
                               \cup (IF p \in Consumers THEN Pending(p) ELSE {})
      BY <1>2 DEF InMemoryOf, Elements, Pending
    <2>3. InMemoryOf(p) = Elements(buffer[p]) \cup Elements(held[p])
                               \cup (IF p \in Consumers THEN Pending(p) ELSE {})
      BY DEF InMemoryOf
    <2>4. QED
      BY <1>2, <2>1, <2>2, <2>3, OneMemory
  <1>3. ASSUME NEW p \in Procs, NEW j \in Items, Publish(p, j) PROVE MemoryKept(i) /\ MemoryFrom(i)
    <2>1. /\ Send(p, j) /\ UNCHANGED <<held, forced>> /\ published' = published \cup {j}
          /\ j \notin published
      BY <1>3 DEF Publish
    <2>2. /\ \A q \in Procs \ {p} : buffer'[q] = buffer[q]
          /\ \/ Elements(buffer'[p]) = Elements(buffer[p]) \cup {j}
             \/ Elements(buffer'[p]) = Elements(buffer[p])
      BY <1>0, <2>1, SendEffect
    <2>3. QED
      BY <1>2, <2>1, <2>2
  <1>4. ASSUME NEW p \in Procs, BufferRecv(p) PROVE MemoryKept(i) /\ MemoryFrom(i)
    <2>1. /\ held'[p] = <<Head(buffer[p])>> /\ buffer'[p] = Tail(buffer[p]) /\ UNCHANGED forced
          /\ \A q \in Procs \ {p} : buffer'[q] = buffer[q] /\ held'[q] = held[q]
          /\ buffer[p] # <<>>
      BY <1>4 DEF BufferRecv, QueueInv, TypeOK
    <2>2. Head(buffer[p]) \in Items
      BY <1>0, <2>1
    <2>3. /\ Elements(buffer[p]) = {Head(buffer[p])} \cup Elements(buffer'[p])
          /\ Elements(held'[p]) = {Head(buffer[p])}
      BY <1>0, <2>1, <2>2, ElementsOps
    <2>4. Elements(held[p]) = {}
      <3>1. Len(held[p]) = 0
        BY <1>4 DEF BufferRecv, QueueInv, HeldWhilePublishing
      <3>2. QED
        BY <1>0, <3>1 DEF Elements
    <2>5. QED
      BY <1>2, <2>1, <2>3, <2>4
  <1>5. ASSUME NEW p \in Procs, BufferPublishOk(p) PROVE MemoryKept(i) /\ MemoryFrom(i)
    <2>1. PICK j \in Items : held[p] = <<j>>
      BY <1>5, HeldInMemory DEF BufferPublishOk
    <2>2. Fresh(j) \in Msg /\ Fresh(j).item = j
      BY MsgFacts
    <2>3. main'[Fresh(j)] > 0
      BY <1>0, <1>5, <2>1, <2>2, BagSupport DEF BufferPublishOk
    <2>4. i = j => Firm(i)'
      BY <2>2, <2>3 DEF Firm
    <2>5. /\ held'[p] = <<>> /\ UNCHANGED <<buffer, forced>>
          /\ \A q \in Procs \ {p} : held'[q] = held[q]
      BY <1>5 DEF BufferPublishOk, QueueInv, TypeOK
    <2>6. Elements(held[p]) = {j} /\ Elements(held'[p]) = {}
      BY <1>0, <2>1, <2>5, ElementsOps
    <2>7. QED
      BY <1>2, <2>4, <2>5, <2>6
  <1>6. ASSUME NEW p \in Procs, Rebuffer(p) PROVE MemoryKept(i) /\ MemoryFrom(i)
    <2>1. PICK j \in Items : held[p] = <<j>>
      BY <1>6, HeldInMemory DEF Rebuffer
    <2>2. /\ held'[p] = <<>> /\ buffer'[p] = Append(buffer[p], j) /\ UNCHANGED forced
          /\ \A q \in Procs \ {p} : buffer'[q] = buffer[q] /\ held'[q] = held[q]
      BY <1>6, <2>1 DEF Rebuffer, QueueInv, TypeOK
    <2>3. Elements(held[p]) = {j} /\ Elements(held'[p]) = {}
      BY <1>0, <2>1, <2>2, ElementsOps
    <2>4. Elements(buffer'[p]) = Elements(buffer[p]) \cup {j}
      BY <1>0, <2>2, ElementsOps
    <2>5. QED
      BY <1>2, <2>2, <2>3, <2>4
  <1>7. ASSUME NEW p \in Procs, BufferCancelled(p) PROVE MemoryKept(i) /\ MemoryFrom(i)
    <2>1. /\ buffer'[p] = <<>> /\ UNCHANGED <<held, forced>> /\ Elements(buffer[p]) \subseteq lost'
          /\ \A q \in Procs \ {p} : buffer'[q] = buffer[q]
      BY <1>7 DEF BufferCancelled, QueueInv, TypeOK
    <2>2. Elements(buffer'[p]) = {}
      BY <1>0, <2>1, ElementsOps
    <2>3. QED
      BY <1>2, <2>1, <2>2
  <1>8. ASSUME NEW p \in Procs, Exit(p) \/ Crash(p) PROVE MemoryKept(i) /\ MemoryFrom(i)
    <2>1. Stop(p)
      BY <1>8 DEF Exit, Crash
    <2>2. /\ buffer'[p] = <<>> /\ held'[p] = <<>> /\ InMemoryOf(p) \subseteq lost'
          /\ \A q \in Procs \ {p} : buffer'[q] = buffer[q] /\ held'[q] = held[q]
          /\ \A c \in Consumers \ {p} : forced'[c] = forced[c]
          /\ p \in Consumers => forced'[p] = [j \in Items |-> 0]
      BY <2>1 DEF Stop, QueueInv, TypeOK
    <2>3. \A q \in Procs \ {p} : InMemoryOf(q)' = InMemoryOf(q)
      BY <2>2 DEF InMemoryOf, Elements, Pending
    <2>4. i \notin InMemoryOf(p)'
      BY <2>2 DEF InMemoryOf, Elements, Pending
    <2>5. QED
      BY <2>2, <2>3, <2>4, OneMemory
  <1>9. ASSUME NEW c \in Consumers, NEW j \in Items, ForcePublish(c, j)
        PROVE  MemoryKept(i) /\ MemoryFrom(i)
    <2>1. c \in Procs /\ Send(c, j) /\ forced[c][j] > 0 /\ UNCHANGED held
      BY <1>9 DEF ForcePublish, Procs
    <2>2. forced[c] \in [Items -> Nat] /\ forced'[c] = Take(forced[c], j)
          /\ \A d \in Consumers \ {c} : forced'[d] = forced[d]
      BY <1>9 DEF ForcePublish, QueueInv, TypeOK
    <2>3. /\ \A k \in Items : forced'[c][k] > 0 => forced[c][k] > 0
          /\ \A k \in Items \ {j} : forced[c][k] > 0 => forced'[c][k] > 0
      BY <2>2, BagSupport
    <2>4. /\ \A q \in Procs \ {c} : buffer'[q] = buffer[q]
          /\ \/ Elements(buffer'[c]) = Elements(buffer[c]) \cup {j} /\ lost' = lost
             \/ Elements(buffer'[c]) = Elements(buffer[c]) /\ lost' = lost \cup {j}
      BY <1>0, <2>1, SendEffect
    <2>5. \A q \in Procs \ {c} : InMemoryOf(q)' = InMemoryOf(q)
      BY <2>1, <2>2, <2>4 DEF InMemoryOf, Elements, Pending
    <2>6. /\ InMemoryOf(c) = Elements(buffer[c]) \cup Elements(held[c]) \cup Pending(c)
          /\ InMemoryOf(c)' = Elements(buffer'[c]) \cup Elements(held[c]) \cup Pending(c)'
      BY <2>1 DEF InMemoryOf, Elements
    <2>7. /\ Pending(c)' \subseteq Pending(c) /\ Pending(c) \ {j} \subseteq Pending(c)'
          /\ j \in Pending(c)
      BY <2>1, <2>3 DEF Pending
    <2>8. QED
      BY <2>1, <2>4, <2>5, <2>6, <2>7, OneMemory
  <1>10. ASSUME NEW s \in Slots, ForceAck(s) PROVE MemoryKept(i) /\ MemoryFrom(i)
    <2>1. s[1] \in Consumers /\ s[1] \in Procs /\ Busy(s) /\ UNCHANGED <<buffer, held>>
      BY <1>10 DEF ForceAck, At, Busy, Slots, Procs
    <2>2. ItemAt(s) \in Items
      BY <1>0, <2>1, BusyTask
    <2>3. CASE ~task[s].live
      BY <1>1, <1>10, <2>1, <2>3 DEF ForceAck
    <2>4. CASE task[s].live
      <3>1. /\ forced[s[1]] \in [Items -> Nat] /\ forced'[s[1]] = Put(forced[s[1]], ItemAt(s))
            /\ \A d \in Consumers \ {s[1]} : forced'[d] = forced[d]
        BY <1>10, <2>1, <2>4 DEF ForceAck, QueueInv, TypeOK
      <3>2. \A k \in Items : forced'[s[1]][k] > 0 <=> k = ItemAt(s) \/ forced[s[1]][k] > 0
        BY <2>2, <3>1, BagSupport
      <3>3. Firm(ItemAt(s))
        BY <1>10, <2>4, FirmTask DEF ForceAck, At, Unsettled
      <3>4. \A q \in Procs \ {s[1]} : InMemoryOf(q)' = InMemoryOf(q)
        BY <2>1, <3>1 DEF InMemoryOf, Elements, Pending
      <3>5. /\ InMemoryOf(s[1]) = Elements(buffer[s[1]]) \cup Elements(held[s[1]]) \cup Pending(s[1])
            /\ InMemoryOf(s[1])' = Elements(buffer[s[1]]) \cup Elements(held[s[1]]) \cup Pending(s[1])'
        BY <2>1 DEF InMemoryOf, Elements
      <3>6. Pending(s[1])' = Pending(s[1]) \cup {ItemAt(s)}
        BY <2>2, <3>2 DEF Pending
      <3>7. QED
        BY <2>1, <3>3, <3>4, <3>5, <3>6, OneMemory
    <2>5. QED
      BY <2>3, <2>4
  <1>11. ASSUME NEW p \in Procs, ProcessStep(p) PROVE MemoryKept(i) /\ MemoryFrom(i)
    <2>1. CASE \/ BufferPublishErr(p) \/ BufferPublishUnconfirmed(p) \/ Close(p) \/ CloseReturns(p)
               \/ Restart(p) \/ ConnectionLost(p) \/ Reconnect(p)
      BY <1>1, <2>1 DEF BufferPublishErr, BufferPublishUnconfirmed, Close, CloseReturns, Restart,
                        ConnectionLost, Reconnect
    <2>2. QED
      BY <1>3, <1>4, <1>5, <1>6, <1>7, <1>8, <1>11, <2>1 DEF ProcessStep
  <1>12. ASSUME NEW s \in Slots, TaskStep(s) PROVE MemoryKept(i) /\ MemoryFrom(i)
    <2>1. ForceAck(s) \/ UNCHANGED <<buffer, held, forced>>
      BY <1>12 DEF TaskStep, Deliver, Succeed, Fail, Irrelevant, GiveUp, Ack, Reject,
                   RepublishExhausted, DeadLetter, RepublishOk, RepublishErr, RepublishUnconfirmed
    <2>2. QED
      BY <1>1, <1>10, <2>1
  <1>13. ASSUME NEW m \in Msg, BrokerStep(m) PROVE MemoryKept(i) /\ MemoryFrom(i)
    BY <1>1, <1>13 DEF BrokerStep, RetryExpires, DlqRecover, DlqDrop
  <1>14. ASSUME NEW c \in Consumers, ConsumerStep(c) PROVE MemoryKept(i) /\ MemoryFrom(i)
    BY <1>1, <1>9, <1>14 DEF ConsumerStep, StopConsuming
  <1>15. CASE UNCHANGED vars
    BY <1>1, <1>15 DEF vars
  <1>16. QED
    BY <1>11, <1>12, <1>13, <1>14, <1>15 DEF Next

\* What a step adds to the histories: an item is done or dropped only if the
\* broker held it, confirmed only if it holds it then, and publish() leaves an
\* item in memory or logs that it is lost.
HistoryKept ==
  /\ done \subseteq done' /\ discarded \subseteq discarded' /\ lost \subseteq lost'
  /\ published \subseteq published' /\ discarded' \subseteq Items
  /\ \A i \in Items :
        /\ i \in done' \ done => Firm(i) \/ i \in discarded
        /\ i \in discarded' \ discarded => Firm(i)
        /\ i \in published' \ published => InMemory(i)' \/ i \in lost'
        /\ i \in reached' \ reached => Firm(i)'

LEMMA HistoryStep ==
  ASSUME QueueInv, [Next]_vars
  PROVE  HistoryKept
  <1> USE DEF procVars, taskVars, brokerVars, history
  <1>0. TypeOK /\ main \in [Msg -> Nat] /\ discarded \subseteq Items
    BY DEF QueueInv, TypeOK
  <1>1. ASSUME UNCHANGED <<done, discarded, published, reached>>, lost \subseteq lost'
        PROVE  HistoryKept
    BY <1>0, <1>1 DEF HistoryKept
  <1>2. ASSUME NEW p \in Procs, ProcessStep(p) PROVE HistoryKept
    <2>1. ASSUME NEW j \in Items, Publish(p, j) PROVE HistoryKept
      <3>1. /\ Send(p, j) /\ published' = published \cup {j} /\ UNCHANGED <<done, discarded, reached>>
        BY <2>1 DEF Publish
      <3>2. \/ Elements(buffer'[p]) = Elements(buffer[p]) \cup {j} /\ lost' = lost
            \/ lost' = lost \cup {j}
        BY <1>0, <3>1, SendEffect
      <3>3. j \in Elements(buffer'[p]) => j \in InMemoryOf(p)'
        BY DEF InMemoryOf, Elements
      <3>4. \A i \in Items : i \in published' \ published => InMemory(i)' \/ i \in lost'
        BY <3>1, <3>2, <3>3 DEF InMemory
      <3>5. QED
        BY <1>0, <3>1, <3>2, <3>4 DEF HistoryKept
    <2>2. CASE BufferPublishOk(p)
      <3>1. PICK j \in Items : held[p] = <<j>>
        BY <2>2, HeldInMemory DEF BufferPublishOk
      <3>2. Fresh(j) \in Msg /\ Fresh(j).item = j
        BY MsgFacts
      <3>3. main'[Fresh(j)] > 0
        BY <1>0, <2>2, <3>1, <3>2, BagSupport DEF BufferPublishOk
      <3>4. \A i \in Items : i = j => Firm(i)'
        BY <3>2, <3>3 DEF Firm
      <3>5. reached' = reached \cup {j} /\ UNCHANGED <<done, discarded, lost, published>>
        BY <2>2, <3>1 DEF BufferPublishOk
      <3>6. QED
        BY <1>0, <3>4, <3>5 DEF HistoryKept
    <2>3. CASE \/ BufferRecv(p) \/ BufferPublishErr(p) \/ BufferPublishUnconfirmed(p) \/ Rebuffer(p)
               \/ BufferCancelled(p) \/ Close(p) \/ CloseReturns(p) \/ Exit(p) \/ Crash(p)
               \/ Restart(p) \/ ConnectionLost(p) \/ Reconnect(p)
      <3>1. UNCHANGED <<done, discarded, published, reached>> /\ lost \subseteq lost'
        BY <2>3 DEF BufferRecv, BufferPublishErr, BufferPublishUnconfirmed, Rebuffer, BufferCancelled,
                    Close, CloseReturns, Exit, Crash, Stop, Restart, ConnectionLost, Reconnect
      <3>2. QED
        BY <1>1, <3>1
    <2>4. QED
      BY <1>2, <2>1, <2>2, <2>3 DEF ProcessStep
  <1>3. ASSUME NEW c \in Consumers, ConsumerStep(c) PROVE HistoryKept
    <2>1. UNCHANGED <<done, discarded, published, reached>> /\ lost \subseteq lost'
      BY <1>3 DEF ConsumerStep, StopConsuming, ForcePublish, Send
    <2>2. QED
      BY <1>1, <2>1
  <1>4. ASSUME NEW s \in Slots, TaskStep(s) PROVE HistoryKept
    <2>1. CASE Succeed(s)
      <3>1. /\ At(s, "process") /\ Busy(s) /\ ItemAt(s) \notin Misrouted /\ done' = done \cup {ItemAt(s)}
            /\ UNCHANGED <<discarded, published, reached, lost>>
        BY <2>1 DEF Succeed, At, Busy
      <3>2. ItemAt(s) \in done \cup discarded \/ Firm(ItemAt(s))
        BY <3>1 DEF QueueInv, DeliveredIsKept
      <3>3. QED
        BY <1>0, <3>1, <3>2 DEF HistoryKept
    <2>2. Succeed(s) \/ UNCHANGED <<done, discarded, published, reached, lost>>
      BY <1>4 DEF TaskStep, Deliver, Fail, Irrelevant, GiveUp, Ack, ForceAck, Reject,
                  RepublishExhausted, DeadLetter, RepublishOk, RepublishErr, RepublishUnconfirmed
    <2>3. QED
      BY <1>1, <2>1, <2>2
  <1>5. ASSUME NEW m \in Msg, BrokerStep(m) PROVE HistoryKept
    <2>1. CASE DlqDrop(m)
      <3>1. /\ dlq[m] > 0 /\ discarded' = discarded \cup {m.item}
            /\ UNCHANGED <<done, published, reached, lost>>
        BY <2>1 DEF DlqDrop
      <3>2. Firm(m.item) /\ m.item \in Items
        BY <3>1, FirmMsg, MsgFacts
      <3>3. QED
        BY <1>0, <3>1, <3>2 DEF HistoryKept
    <2>2. DlqDrop(m) \/ UNCHANGED <<done, discarded, published, reached, lost>>
      BY <1>5 DEF BrokerStep, RetryExpires, DlqRecover
    <2>3. QED
      BY <1>1, <2>1, <2>2
  <1>6. CASE UNCHANGED vars
    BY <1>1, <1>6 DEF vars
  <1>7. QED
    BY <1>2, <1>3, <1>4, <1>5, <1>6 DEF Next

\* The copies of the items and the histories of a step, and what follows for
\* the invariants that are about items.
LEMMA ItemsStep ==
  ASSUME QueueInv, [Next]_vars, TypeOK'
  PROVE  AtLeastOnce' /\ OnlyPublished' /\ DeliveredIsKept' /\ NoSilentLoss'
  <1>0. /\ TypeOK /\ AtLeastOnce /\ OnlyPublished /\ DeliveredIsKept /\ NoSilentLoss
        /\ reached \subseteq Items /\ published \subseteq Items
        /\ reached' \subseteq Items /\ published' \subseteq Items
    BY DEF QueueInv, TypeOK
  <1>1. /\ \A i \in Items : FirmKept(i) /\ FirmFrom(i)
        /\ \A i \in Items : MemoryKept(i) /\ MemoryFrom(i)
        /\ HistoryKept
    BY FirmStep, MemoryStep, HistoryStep
  <1>2. AtLeastOnce'
    <2> SUFFICES ASSUME NEW i \in reached' \ Misrouted PROVE i \in done' \cup discarded' \/ Firm(i)'
      BY DEF AtLeastOnce
    <2>1. CASE i \in reached
      BY <1>0, <1>1, <2>1 DEF AtLeastOnce, FirmKept, HistoryKept
    <2>2. CASE i \notin reached
      BY <1>0, <1>1, <2>2 DEF HistoryKept
    <2>3. QED
      BY <2>1, <2>2
  <1>3. OnlyPublished'
    <2> SUFFICES ASSUME NEW i \in Items, i \in done' \cup discarded' \/ Firm(i)' \/ InMemory(i)'
                 PROVE  i \in published'
      BY DEF OnlyPublished
    <2>1. i \in done \cup discarded \/ Firm(i) \/ InMemory(i) \/ i \in published'
      BY <1>1 DEF HistoryKept, FirmFrom, MemoryFrom
    <2>2. QED
      BY <1>0, <1>1, <2>1 DEF OnlyPublished, HistoryKept
  <1>4. DeliveredIsKept'
    <2> SUFFICES ASSUME NEW s \in Slots, Busy(s)'
                 PROVE  ItemAt(s)' \in done' \cup discarded' \cup Misrouted \/ Firm(ItemAt(s))'
      BY DEF DeliveredIsKept
    <2>1. ItemAt(s)' \in Items
      <3>1. task'[s] \in Task
        BY DEF TypeOK, Busy, None
      <3>2. QED
        BY <3>1 DEF ItemAt, Task, Msg
    <2>2. CASE Busy(s) /\ task'[s].msg = task[s].msg
      <3>1. ItemAt(s)' = ItemAt(s)
        BY <2>2 DEF ItemAt
      <3>2. PICK i \in Items : i = ItemAt(s) /\ i = ItemAt(s)'
        BY <2>1, <3>1
      <3>3. i \in done \cup discarded \cup Misrouted \/ Firm(i)
        BY <1>0, <2>2, <3>2 DEF DeliveredIsKept
      <3>4. i \in done' \cup discarded' \cup Misrouted \/ Firm(i)'
        BY <1>1, <3>3 DEF FirmKept, HistoryKept
      <3>5. QED
        BY <3>2, <3>4 DEF Firm
    <2>3. CASE task'[s].stage = "process" /\ task'[s].live
      BY <2>3 DEF Firm, ItemAt
    <2>4. QED
      BY <2>2, <2>3, ForcedStep DEF QueueInv, TasksKept
  <1>5. NoSilentLoss'
    <2> SUFFICES ASSUME NEW i \in published'
                 PROVE  i \in done' \cup discarded' \cup lost' \/ Firm(i)' \/ InMemory(i)'
      BY DEF NoSilentLoss
    <2>1. CASE i \in published
      BY <1>0, <1>1, <2>1 DEF NoSilentLoss, FirmKept, MemoryKept, HistoryKept
    <2>2. CASE i \notin published
      BY <1>0, <1>1, <2>2 DEF HistoryKept
    <2>3. QED
      BY <2>1, <2>2
  <1>6. QED
    BY <1>2, <1>3, <1>4, <1>5
-----------------------------------------------------------------------------
\* The inductive invariant: whatever the processes, the broker, the operator
\* and the faults do, Queue keeps its types, the shape of the buffer
\* processor and of forced requeues, a firm copy of every confirmed item, and
\* some copy of every published one.
THEOREM QueueInvariant == Spec => []QueueInv
  <1>1. QueueInv /\ [Next]_vars => QueueInv'
    <2> SUFFICES ASSUME QueueInv, [Next]_vars PROVE QueueInv'
      OBVIOUS
    <2>1. TypeOK'
      BY TypeStep DEF QueueInv
    <2>2. HeldWhilePublishing'
      BY HeldStep DEF QueueInv
    <2>3. ForcedIsMisrouted' /\ MisroutedNotRetried'
      BY ForcedStep DEF QueueInv, TasksKept
    <2>4. AtLeastOnce' /\ OnlyPublished' /\ DeliveredIsKept' /\ NoSilentLoss'
      BY <2>1, ItemsStep
    <2>5. QED
      BY <2>1, <2>2, <2>3, <2>4 DEF QueueInv
  <1>2. QED
    BY InitInv, <1>1, PTL DEF Spec

\* The state of the processes and of the broker is well typed.
THEOREM QueueTypeCorrect == Spec => []TypeOK
  <1>1. QueueInv => TypeOK
    BY DEF QueueInv
  <1>2. QED
    BY <1>1, QueueInvariant, PTL

\* An item the broker confirmed is never lost: it is firmly on the broker
\* until a worker succeeded with it or an operator dropped it.
THEOREM QueueAtLeastOnce == Spec => []AtLeastOnce
  <1>1. QueueInv => AtLeastOnce
    BY DEF QueueInv
  <1>2. QED
    BY <1>1, QueueInvariant, PTL

\* An item handed to publish() is never lost silently: it is processed,
\* dropped by an operator, on the broker or in a process's memory, unless a
\* process that stopped, cancelled or had closed its buffer dropped it.
THEOREM QueueNoSilentLoss == Spec => []NoSilentLoss
  <1>1. QueueInv => NoSilentLoss
    BY DEF QueueInv
  <1>2. QED
    BY <1>1, QueueInvariant, PTL
-----------------------------------------------------------------------------
(* The promise of the queue *)

\* The status of an item by where its copies are.
LEMMA StatusFacts ==
  ASSUME NEW i \in Items
  PROVE  /\ i \in done => ItemStatus[i] = "done"
         /\ i \notin done /\ Firm(i) => ItemStatus[i] = "durable"
         /\ i \notin done /\ ~Firm(i) /\ InMemory(i) => ItemStatus[i] = "volatile"
         /\ i \notin done /\ ~Firm(i) /\ ~InMemory(i) /\ i \in published => ItemStatus[i] = "gone"
         /\ i \notin done /\ ~Firm(i) /\ ~InMemory(i) /\ i \notin published => ItemStatus[i] = "new"
  BY DEF ItemStatus

\* Every initial state maps to an initial state of the promise: an item is new,
\* or durable from before.
LEMMA PromiseInit == Init => Promise!Init
  <1> SUFFICES ASSUME Init PROVE Promise!Init
    OBVIOUS
  <1>1. PICK legacy \in SUBSET Msg :
            /\ main = [m \in Msg |-> IF m \in legacy THEN 1 ELSE 0]
            /\ published = {m.item : m \in legacy}
    BY DEF Init
  <1>2. OnlyPublished
    BY InitInv DEF QueueInv
  <1>3. ASSUME NEW i \in Items PROVE ItemStatus[i] \in {"new", "durable"}
    <2>1. i \notin done
      BY DEF Init
    <2>2. i \in published => Firm(i)
      BY <1>1 DEF Firm
    <2>3. i \notin published => ~Firm(i) /\ ~InMemory(i)
      BY <1>2 DEF OnlyPublished
    <2>4. QED
      BY <2>1, <2>2, <2>3, StatusFacts
  <1>4. ItemStatus = [i \in Items |-> ItemStatus[i]]
    BY DEF ItemStatus
  <1>5. ItemStatus \in [Items -> {"new", "durable"}]
    BY <1>3, <1>4
  <1>6. QED
    BY <1>5 DEF Promise!Init, Init

\* Every step maps to a step of the promise, or to none.
LEMMA PromiseStep ==
  ASSUME QueueInv, QueueInv', [Next]_vars
  PROVE  Promise!Next
  <1>0. HistoryKept
    BY HistoryStep
  <1>1. ASSUME NEW i \in Items
        PROVE  /\ ItemStatus'[i] \in Promise!Status
               /\ Promise!Allowed(i, ItemStatus[i], ItemStatus'[i], discarded')
    <2>1. FirmKept(i) /\ FirmFrom(i) /\ MemoryFrom(i)
      BY FirmStep, MemoryStep
    <2>2. /\ i \in done \cup discarded \/ Firm(i) \/ InMemory(i) => i \in published
          /\ i \in done' \cup discarded' \/ Firm(i)' \/ InMemory(i)' => i \in published'
      BY DEF QueueInv, OnlyPublished
    <2>3. /\ i \in done => i \in done'
          /\ i \in discarded => i \in discarded'
          /\ i \in published => i \in published'
          /\ i \in done' /\ i \notin done => Firm(i) \/ i \in discarded
      BY <1>0 DEF HistoryKept
    <2>4. /\ i \in done' => ItemStatus'[i] = "done"
          /\ i \notin done' /\ Firm(i)' => ItemStatus'[i] = "durable"
          /\ i \notin done' /\ ~Firm(i)' /\ InMemory(i)' => ItemStatus'[i] = "volatile"
          /\ i \notin done' /\ ~Firm(i)' /\ ~InMemory(i)' /\ i \in published' => ItemStatus'[i] = "gone"
          /\ i \notin done' /\ ~Firm(i)' /\ ~InMemory(i)' /\ i \notin published' => ItemStatus'[i] = "new"
      BY DEF ItemStatus
    <2>5. ItemStatus'[i] \in Promise!Status
      BY <2>4 DEF Promise!Status
    <2>6. CASE i \in done
      BY <2>3, <2>4, <2>5, <2>6, StatusFacts DEF Promise!Allowed
    <2>7. CASE i \notin done /\ Firm(i)
      <3>1. ItemStatus[i] = "durable"
        BY <2>7, StatusFacts
      <3>2. i \in published'
        BY <2>2, <2>3, <2>7
      <3>3. QED
        BY <2>1, <2>4, <2>5, <2>7, <3>1, <3>2 DEF Promise!Allowed, FirmKept
    <2>8. CASE i \notin done /\ ~Firm(i) /\ InMemory(i)
      <3>1. ItemStatus[i] = "volatile"
        BY <2>8, StatusFacts
      <3>2. i \in published'
        BY <2>2, <2>3, <2>8
      <3>3. QED
        BY <2>3, <2>4, <2>5, <2>8, <3>1, <3>2 DEF Promise!Allowed
    <2>9. CASE i \notin done /\ ~Firm(i) /\ ~InMemory(i) /\ i \in published
      <3>1. ItemStatus[i] = "gone"
        BY <2>9, StatusFacts
      <3>2. i \in published'
        BY <2>3, <2>9
      <3>3. i \in discarded' \/ (i \notin done' /\ ~Firm(i)' /\ ~InMemory(i)')
        BY <2>1, <2>3, <2>9 DEF FirmFrom, MemoryFrom
      <3>4. QED
        BY <2>4, <2>5, <3>1, <3>2, <3>3 DEF Promise!Allowed
    <2>10. CASE i \notin done /\ ~Firm(i) /\ ~InMemory(i) /\ i \notin published
      <3>1. ItemStatus[i] = "new"
        BY <2>10, StatusFacts
      <3>2. i \notin done' /\ ~Firm(i)'
        BY <2>1, <2>2, <2>3, <2>10 DEF FirmFrom
      <3>3. QED
        BY <2>4, <2>5, <3>1, <3>2 DEF Promise!Allowed
    <2>11. QED
      BY <2>5, <2>6, <2>7, <2>8, <2>9, <2>10
  <1>2. ItemStatus' \in [Items -> Promise!Status]
    <2>1. ItemStatus' = [i \in Items |-> ItemStatus'[i]]
      BY DEF ItemStatus
    <2>2. QED
      BY <1>1, <2>1
  <1>3. QED
    BY <1>0, <1>1, <1>2 DEF Promise!Next, HistoryKept

\* The relayer's queue, with its buffers, retries, dead letters, restarts and
\* faults, implements the at-least-once queue that the rest of the relayer is
\* built on.
THEOREM QueueImplementsPromise == Spec => ImplementsPromise
  <1>1. QueueInv /\ QueueInv' /\ [Next]_vars => [Promise!Next]_<<ItemStatus, discarded>>
    BY PromiseStep
  <1>2. QED
    BY <1>1, PromiseInit, QueueInvariant, PTL DEF Spec, ImplementsPromise, Promise!Spec
-----------------------------------------------------------------------------
(* Counting copies: what the members of each kind of place are. *)

LEMMA StoredIs ==
  ASSUME NEW q, NEW bag, NEW i, NEW c
  PROVE  c \in StoredCopies(q, bag, i) <=>
            \E m \in Msg : m.item = i /\ \E n \in 1..bag[m] : c = <<q, m, n>>
  BY DEF StoredCopies

LEMMA BufferedIs ==
  ASSUME NEW q, NEW seqs, NEW i, NEW c
  PROVE  c \in BufferedCopies(q, seqs, i) <=>
            \E p \in Procs : \E n \in DOMAIN seqs[p] : seqs[p][n] = i /\ c = <<q, p, n>>
  BY DEF BufferedCopies

LEMMA ForcedIs ==
  ASSUME NEW counts, NEW i, NEW c
  PROVE  c \in ForcedCopies(counts, i) <=>
            \E p \in Consumers : \E n \in 1..counts[p][i] : c = <<"forced", p, n>>
  BY DEF ForcedCopies

LEMMA TaskIs ==
  ASSUME NEW tasks, NEW i, NEW c
  PROVE  c \in TaskCopies(tasks, i) <=>
            \E s \in Slots : /\ tasks[s].stage \in {"process", "force_ack", "republish", "reject"}
                             /\ tasks[s].msg.item = i
                             /\ c = <<"task", s, 1>>
  BY DEF TaskCopies

\* A message put on a queue is one more copy of its item, a message taken off
\* one less.
LEMMA StoredPut ==
  ASSUME NEW q, NEW bag \in [Msg -> Nat], NEW m \in Msg, NEW i
  PROVE  /\ m.item # i => StoredCopies(q, Put(bag, m), i) \subseteq StoredCopies(q, bag, i)
         /\ StoredCopies(q, Put(bag, m), i)
               \subseteq StoredCopies(q, bag, i) \cup {<<q, m, bag[m] + 1>>}
  <1> DEFINE after == Put(bag, m)
  <1>1. after[m] = bag[m] + 1 /\ \A x \in Msg \ {m} : after[x] = bag[x]
    BY DEF Put
  <1> HIDE DEF after
  <1>2. ASSUME NEW c \in StoredCopies(q, after, i)
        PROVE  c \in StoredCopies(q, bag, i) \/ (m.item = i /\ c = <<q, m, bag[m] + 1>>)
    <2>0. PICK x \in Msg : \E n \in 1..after[x] : x.item = i /\ c = <<q, x, n>>
      BY StoredIs
    <2>1. PICK n \in 1..after[x] : x.item = i /\ c = <<q, x, n>>
      BY <2>0
    <2>2. n \in 1..bag[x] \/ (x = m /\ n = bag[m] + 1)
      BY <1>1
    <2>3. QED
      BY <2>1, <2>2, StoredIs
  <1>3. QED
    BY <1>2 DEF after

LEMMA StoredTake ==
  ASSUME NEW q, NEW bag \in [Msg -> Nat], NEW m \in Msg, bag[m] > 0, NEW i
  PROVE  /\ StoredCopies(q, Take(bag, m), i)
               \subseteq StoredCopies(q, bag, i) \ {<<q, m, bag[m]>>}
         /\ <<q, m, bag[m]>> \in StoredCopies(q, bag, m.item)
  <1> DEFINE after == Take(bag, m)
  <1>1. after[m] = bag[m] - 1 /\ \A x \in Msg \ {m} : after[x] = bag[x]
    BY DEF Take
  <1> HIDE DEF after
  <1>2. ASSUME NEW c \in StoredCopies(q, after, i)
        PROVE  c \in StoredCopies(q, bag, i) /\ c # <<q, m, bag[m]>>
    <2>0. PICK x \in Msg : \E n \in 1..after[x] : x.item = i /\ c = <<q, x, n>>
      BY StoredIs
    <2>1. PICK n \in 1..after[x] : x.item = i /\ c = <<q, x, n>>
      BY <2>0
    <2>2. n \in 1..bag[x] /\ (x = m => n # bag[m])
      BY <1>1
    <2>3. QED
      BY <2>1, <2>2, StoredIs
  <1>3. bag[m] \in 1..bag[m]
    OBVIOUS
  <1>4. QED
    BY <1>2, <1>3, StoredIs DEF after

LEMMA ForcedPut ==
  ASSUME NEW counts \in [Consumers -> [Items -> Nat]], NEW p \in Consumers,
         NEW j \in Items, NEW i \in Items
  PROVE  LET after == [counts EXCEPT ![p] = Put(@, j)]
         IN  /\ j # i => ForcedCopies(after, i) \subseteq ForcedCopies(counts, i)
             /\ ForcedCopies(after, i)
                  \subseteq ForcedCopies(counts, i) \cup {<<"forced", p, counts[p][j] + 1>>}
  <1> DEFINE after == [counts EXCEPT ![p] = Put(@, j)]
  <1>1. /\ after[p][j] = counts[p][j] + 1
        /\ \A x \in Consumers : (x # p \/ i # j) => after[x][i] = counts[x][i]
    BY DEF Put
  <1> HIDE DEF after
  <1>2. ASSUME NEW c \in ForcedCopies(after, i)
        PROVE  c \in ForcedCopies(counts, i) \/ (i = j /\ c = <<"forced", p, counts[p][j] + 1>>)
    <2>0. PICK x \in Consumers : \E n \in 1..after[x][i] : c = <<"forced", x, n>>
      BY ForcedIs
    <2>1. PICK n \in 1..after[x][i] : c = <<"forced", x, n>>
      BY <2>0
    <2>2. n \in 1..counts[x][i] \/ (x = p /\ i = j /\ n = counts[p][j] + 1)
      BY <1>1
    <2>3. QED
      BY <2>1, <2>2, ForcedIs
  <1>3. QED
    BY <1>2 DEF after

LEMMA ForcedTake ==
  ASSUME NEW counts \in [Consumers -> [Items -> Nat]], NEW p \in Consumers,
         NEW j \in Items, counts[p][j] > 0, NEW i \in Items
  PROVE  LET after == [counts EXCEPT ![p] = Take(@, j)]
         IN  /\ j = i => ForcedCopies(after, i)
                           \subseteq ForcedCopies(counts, i) \ {<<"forced", p, counts[p][j]>>}
             /\ j # i => ForcedCopies(after, i) \subseteq ForcedCopies(counts, i)
             /\ <<"forced", p, counts[p][j]>> \in ForcedCopies(counts, j)
  <1> DEFINE after == [counts EXCEPT ![p] = Take(@, j)]
  <1>1. /\ after[p][j] = counts[p][j] - 1
        /\ \A x \in Consumers : (x # p \/ i # j) => after[x][i] = counts[x][i]
    BY DEF Take
  <1> HIDE DEF after
  <1>2. ASSUME NEW c \in ForcedCopies(after, i)
        PROVE  c \in ForcedCopies(counts, i) /\ (i = j => c # <<"forced", p, counts[p][j]>>)
    <2>0. PICK x \in Consumers : \E n \in 1..after[x][i] : c = <<"forced", x, n>>
      BY ForcedIs
    <2>1. PICK n \in 1..after[x][i] : c = <<"forced", x, n>>
      BY <2>0
    <2>2. n \in 1..counts[x][i] /\ (x = p /\ i = j => n # counts[p][j])
      BY <1>1
    <2>3. QED
      BY <2>1, <2>2, ForcedIs
  <1>3. counts[p][j] \in 1..counts[p][j]
    OBVIOUS
  <1>4. QED
    BY <1>2, <1>3, ForcedIs DEF after

\* An item appended to a buffer is one more copy; the others keep their place.
LEMMA BufferedAppend ==
  ASSUME NEW q, NEW seqs \in [Procs -> Seq(Items)], NEW p \in Procs,
         NEW j \in Items, NEW i \in Items
  PROVE  LET after == [seqs EXCEPT ![p] = Append(@, j)]
         IN  /\ j # i => BufferedCopies(q, after, i) \subseteq BufferedCopies(q, seqs, i)
             /\ BufferedCopies(q, after, i)
                  \subseteq BufferedCopies(q, seqs, i) \cup {<<q, p, Len(seqs[p]) + 1>>}
  <1> DEFINE after == [seqs EXCEPT ![p] = Append(@, j)]
  <1>0. seqs[p] \in Seq(Items)
    OBVIOUS
  <1>1. /\ after[p] = Append(seqs[p], j)
        /\ \A x \in Procs \ {p} : after[x] = seqs[x]
    OBVIOUS
  <1>2. ASSUME NEW n \in DOMAIN Append(seqs[p], j)
        PROVE  \/ n \in DOMAIN seqs[p] /\ Append(seqs[p], j)[n] = seqs[p][n]
               \/ n = Len(seqs[p]) + 1 /\ Append(seqs[p], j)[n] = j
    BY <1>0
  <1> HIDE DEF after
  <1>3. ASSUME NEW c \in BufferedCopies(q, after, i)
        PROVE  c \in BufferedCopies(q, seqs, i) \/ (i = j /\ c = <<q, p, Len(seqs[p]) + 1>>)
    <2>0. PICK x \in Procs : \E n \in DOMAIN after[x] : after[x][n] = i /\ c = <<q, x, n>>
      BY BufferedIs
    <2>1. PICK n \in DOMAIN after[x] : after[x][n] = i /\ c = <<q, x, n>>
      BY <2>0
    <2>2. CASE x = p
      BY <1>1, <1>2, <2>1, <2>2, BufferedIs
    <2>3. CASE x # p
      BY <1>1, <2>1, <2>3, BufferedIs
    <2>4. QED
      BY <2>2, <2>3
  <1>4. QED
    BY <1>3 DEF after

LEMMA BufferedEmptied ==
  ASSUME NEW q, NEW seqs \in [Procs -> Seq(Items)], NEW p \in Procs, NEW i
  PROVE  LET after == [seqs EXCEPT ![p] = <<>>]
         IN  BufferedCopies(q, after, i) \subseteq BufferedCopies(q, seqs, i) \ {<<q, p, 1>>}
  <1> DEFINE after == [seqs EXCEPT ![p] = <<>>]
  <1>1. after[p] = <<>> /\ \A x \in Procs \ {p} : after[x] = seqs[x]
    OBVIOUS
  <1>2. \A n : n \notin DOMAIN <<>>
    OBVIOUS
  <1> HIDE DEF after
  <1>3. ASSUME NEW c \in BufferedCopies(q, after, i)
        PROVE  c \in BufferedCopies(q, seqs, i) /\ c # <<q, p, 1>>
    <2>0. PICK x \in Procs : \E n \in DOMAIN after[x] : after[x][n] = i /\ c = <<q, x, n>>
      BY BufferedIs
    <2>1. PICK n \in DOMAIN after[x] : after[x][n] = i /\ c = <<q, x, n>>
      BY <2>0
    <2>2. x # p
      BY <1>1, <1>2
    <2>3. QED
      BY <1>1, <2>1, <2>2, BufferedIs
  <1>4. QED
    BY <1>3 DEF after

\* A delivery counts as a copy while its stage says it is still to be handled.
LEMMA TaskLeaves ==
  ASSUME NEW tasks, NEW after, NEW s \in Slots, NEW i,
         \A t \in Slots \ {s} : after[t] = tasks[t],
         after[s].stage \notin {"process", "force_ack", "republish", "reject"}
  PROVE  TaskCopies(after, i) \subseteq TaskCopies(tasks, i) \ {<<"task", s, 1>>}
  BY TaskIs

LEMMA TaskEnters ==
  ASSUME NEW tasks, NEW after, NEW s \in Slots, NEW i,
         \A t \in Slots \ {s} : after[t] = tasks[t]
  PROVE  /\ after[s].msg.item # i => TaskCopies(after, i) \subseteq TaskCopies(tasks, i)
         /\ TaskCopies(after, i) \subseteq TaskCopies(tasks, i) \cup {<<"task", s, 1>>}
  BY TaskIs

\* The places are told apart by their names.
LEMMA Places ==
  ASSUME NEW i, NEW x, NEW n
  PROVE  /\ \A bag, q, r : q # r => <<q, x, n>> \notin StoredCopies(r, bag, i)
         /\ \A seqs, q, r : q # r => <<q, x, n>> \notin BufferedCopies(r, seqs, i)
         /\ \A counts, q : q # "forced" => <<q, x, n>> \notin ForcedCopies(counts, i)
         /\ \A tasks, q : q # "task" => <<q, x, n>> \notin TaskCopies(tasks, i)
  BY StoredIs, BufferedIs, ForcedIs, TaskIs
-----------------------------------------------------------------------------
(* A step that moves, drops or keeps copies makes none. *)

LEMMA CopyMoved ==
  ASSUME OneCopyEach, done' = done, published \subseteq published',
         NEW k \in Items, NEW a \in Copies(k), NEW b,
         Copies(k)' \subseteq (Copies(k) \ {a}) \cup {b},
         \A j \in Items \ {k} : Copies(j)' \subseteq Copies(j)
  PROVE  OneCopyEach'
  <1>1. \A c \in Copies(k) : c = a
    BY DEF OneCopyEach
  <1>2. k \in published \ done
    BY DEF OneCopyEach
  <1>3. \A c \in Copies(k)' : c = b
    BY <1>1
  <1>4. \A c, d \in Copies(k)' : c = d
    BY <1>3
  <1>5. ASSUME NEW j \in Items \ {k}
        PROVE  /\ \A c, d \in Copies(j)' : c = d
               /\ Copies(j)' # {} => j \in published' \ done'
    BY DEF OneCopyEach
  <1> HIDE DEF Copies
  <1>6. QED
    BY <1>2, <1>4, <1>5 DEF OneCopyEach

LEMMA CopiesKept ==
  ASSUME OneCopyEach, done' = done, published \subseteq published',
         \A j \in Items : Copies(j)' \subseteq Copies(j)
  PROVE  OneCopyEach'
  BY DEF OneCopyEach

\* The first copy of an item: published now, and nowhere before.
LEMMA CopyMade ==
  ASSUME OneCopyEach, done' = done, NEW k \in Items, NEW b,
         k \notin published, k \notin done,
         published' = published \cup {k},
         Copies(k)' \subseteq Copies(k) \cup {b},
         \A j \in Items \ {k} : Copies(j)' \subseteq Copies(j)
  PROVE  OneCopyEach'
  <1>1. Copies(k) = {}
    BY DEF OneCopyEach
  <1>2. \A c, d \in Copies(k)' : c = d
    BY <1>1
  <1>3. ASSUME NEW j \in Items \ {k}
        PROVE  /\ \A c, d \in Copies(j)' : c = d
               /\ Copies(j)' # {} => j \in published' \ done'
    BY DEF OneCopyEach
  <1>4. QED
    BY <1>2, <1>3 DEF OneCopyEach

\* The last copy of an item, processed.
LEMMA CopyProcessed ==
  ASSUME OneCopyEach, NEW k \in Items, NEW a \in Copies(k),
         done' = done \cup {k}, published' = published,
         Copies(k)' \subseteq Copies(k) \ {a},
         \A j \in Items \ {k} : Copies(j)' \subseteq Copies(j)
  PROVE  OneCopyEach'
  <1>1. Copies(k)' = {}
    BY DEF OneCopyEach
  <1>2. ASSUME NEW j \in Items \ {k}
        PROVE  /\ \A c, d \in Copies(j)' : c = d
               /\ Copies(j)' # {} => j \in published' \ done'
    BY DEF OneCopyEach
  <1>3. QED
    BY <1>1, <1>2 DEF OneCopyEach

LEMMA CopiesUnchanged ==
  ASSUME OneCopyEach,
         UNCHANGED <<main, retryq, dlq, buffer, held, forced, task, done, published>>
  PROVE  OneCopyEach'
  <1>1. \A j \in Items : Copies(j)' = Copies(j)
    BY DEF Copies
  <1>2. QED
    BY <1>1, CopiesKept
-----------------------------------------------------------------------------
\* The places of a held item and of a delivered one.
LEMMA HeldIsCopy ==
  ASSUME QueueInv, NEW p \in Procs, bp[p] \in {"publish", "rebuffer"}
  PROVE  held[p][1] \in Items /\ <<"held", p, 1>> \in Copies(held[p][1])
  <1>1. held[p] \in Seq(Items) /\ Len(held[p]) = 1
    BY DEF QueueInv, TypeOK, HeldWhilePublishing
  <1>2. 1 \in DOMAIN held[p] /\ held[p][1] \in Items
    BY <1>1
  <1>3. QED
    BY <1>2, BufferedIs DEF Copies

LEMMA DeliveryIsCopy ==
  ASSUME QueueInv, NEW s \in Slots,
         task[s].stage \in {"process", "force_ack", "republish", "reject"}
  PROVE  ItemAt(s) \in Items /\ Busy(s) /\ <<"task", s, 1>> \in Copies(ItemAt(s))
  <1>1. Busy(s)
    BY DEF Busy
  <1>2. <<"task", s, 1>> \in TaskCopies(task, ItemAt(s))
    BY TaskIs DEF ItemAt
  <1>3. QED
    BY <1>1, <1>2, BusyTask DEF Copies, QueueInv

\* The buffer processor takes the head of its buffer: every copy behind it
\* moves up by one place.
LEMMA RecvMoves ==
  ASSUME QueueInv, OneCopyEach, NEW p \in Procs, BufferRecv(p)
  PROVE  OneCopyEach'
  <1> DEFINE From(c) == IF c = <<"held", p, 1>> THEN <<"buffer", p, 1>>
                        ELSE IF c[1] = "buffer" /\ c[2] = p THEN <<"buffer", p, c[3] + 1>>
                        ELSE c
  <1>1. /\ buffer[p] \in Seq(Items) /\ buffer[p] # <<>>
        /\ buffer' = [buffer EXCEPT ![p] = Tail(buffer[p])]
        /\ held' = [held EXCEPT ![p] = <<Head(buffer[p])>>]
        /\ buffer \in [Procs -> Seq(Items)] /\ held \in [Procs -> Seq(Items)]
    BY DEF QueueInv, TypeOK, BufferRecv
  <1>0. UNCHANGED <<main, retryq, dlq, forced, task, published, done>>
    BY DEF BufferRecv, taskVars, brokerVars, history
  <1>2. /\ \A x \in Procs \ {p} : buffer'[x] = buffer[x] /\ held'[x] = held[x]
        /\ buffer'[p] = Tail(buffer[p]) /\ held'[p] = <<Head(buffer[p])>>
    BY <1>1
  <1>3. \A n \in DOMAIN Tail(buffer[p]) :
            n \in Nat \ {0} /\ n + 1 \in DOMAIN buffer[p] /\ Tail(buffer[p])[n] = buffer[p][n + 1]
    BY <1>1
  <1>4. 1 \in DOMAIN buffer[p] /\ buffer[p][1] = Head(buffer[p])
    BY <1>1
  <1>5. \A n \in DOMAIN <<Head(buffer[p])>> : n = 1 /\ <<Head(buffer[p])>>[n] = buffer[p][1]
    BY <1>4
  <1>6. ASSUME NEW j \in Items, NEW c \in Copies(j)'
        PROVE  /\ From(c) \in Copies(j)
               /\ \/ c = <<"held", p, 1>>
                  \/ \E n \in Nat \ {0} : c = <<"buffer", p, n>>
                  \/ c[1] # "buffer" \/ c[2] # p
    <2>1. CASE c \in BufferedCopies("buffer", buffer', j)
      <3>1. PICK x \in Procs : \E n \in DOMAIN buffer'[x] : buffer'[x][n] = j /\ c = <<"buffer", x, n>>
        BY <2>1, BufferedIs
      <3>2. PICK n \in DOMAIN buffer'[x] : buffer'[x][n] = j /\ c = <<"buffer", x, n>>
        BY <3>1
      <3>3. c # <<"held", p, 1>> /\ c[1] = "buffer" /\ c[2] = x /\ c[3] = n
        BY <3>2
      <3>4. CASE x = p
        <4>1. From(c) = <<"buffer", p, n + 1>>
          BY <3>3, <3>4
        <4>2. n \in Nat \ {0} /\ n + 1 \in DOMAIN buffer[p] /\ buffer[p][n + 1] = j
          BY <1>2, <1>3, <3>2, <3>4
        <4>3. From(c) \in BufferedCopies("buffer", buffer, j)
          BY <4>1, <4>2, BufferedIs
        <4>4. QED
          BY <3>2, <3>4, <4>2, <4>3 DEF Copies
      <3>5. CASE x # p
        <4>1. From(c) = c
          BY <3>3, <3>5
        <4>2. c \in BufferedCopies("buffer", buffer, j)
          BY <1>2, <3>2, <3>5, BufferedIs
        <4>3. QED
          BY <3>3, <3>5, <4>1, <4>2 DEF Copies
      <3>6. QED
        BY <3>4, <3>5
    <2>2. CASE c \in BufferedCopies("held", held', j)
      <3>1. PICK x \in Procs : \E n \in DOMAIN held'[x] : held'[x][n] = j /\ c = <<"held", x, n>>
        BY <2>2, BufferedIs
      <3>2. PICK n \in DOMAIN held'[x] : held'[x][n] = j /\ c = <<"held", x, n>>
        BY <3>1
      <3>3. CASE x = p
        <4>1. n = 1 /\ buffer[p][1] = j
          BY <1>2, <1>5, <3>2, <3>3
        <4>2. From(c) = <<"buffer", p, 1>> /\ c = <<"held", p, 1>>
          BY <3>2, <3>3, <4>1
        <4>3. From(c) \in BufferedCopies("buffer", buffer, j)
          BY <1>4, <4>1, <4>2, BufferedIs
        <4>4. QED
          BY <4>2, <4>3 DEF Copies
      <3>4. CASE x # p
        <4>1. c[1] = "held" /\ c[2] = x
          BY <3>2
        <4>2. From(c) = c
          BY <3>4, <4>1
        <4>3. c \in BufferedCopies("held", held, j)
          BY <1>2, <3>2, <3>4, BufferedIs
        <4>4. QED
          BY <4>1, <4>2, <4>3 DEF Copies
      <3>5. QED
        BY <3>3, <3>4
    <2>3. CASE c \in StoredCopies("main", main, j) \cup StoredCopies("retry", retryq, j)
                       \cup StoredCopies("dead_letter", dlq, j)
                       \cup ForcedCopies(forced, j) \cup TaskCopies(task, j)
      <3>1. c[1] \notin {"buffer", "held"}
        BY <2>3, StoredIs, ForcedIs, TaskIs
      <3>2. From(c) = c
        BY <3>1
      <3>3. QED
        BY <2>3, <3>1, <3>2 DEF Copies
    <2>4. QED
      BY <1>0, <2>1, <2>2, <2>3 DEF Copies
  <1>7. ASSUME NEW j \in Items, NEW c \in Copies(j)', NEW d \in Copies(j)'
        PROVE  c = d
    <2>1. From(c) = From(d)
      BY <1>6 DEF OneCopyEach
    <2>2. QED
      BY <1>6, <2>1
  <1>8. ASSUME NEW j \in Items, Copies(j)' # {} PROVE j \in published' \ done'
    BY <1>0, <1>6, <1>8 DEF OneCopyEach
  <1>9. QED
    BY <1>7, <1>8 DEF OneCopyEach

\* Steps of a process.
LEMMA ProcessKeepsOne ==
  ASSUME QueueInv, OneCopyEach, NEW p \in Procs, ProcessStep(p), faults' = faults
  PROVE  OneCopyEach'
  <1> USE DEF procVars, taskVars, brokerVars, history
  <1>0. /\ TypeOK /\ main \in [Msg -> Nat] /\ faults \in Nat
        /\ buffer \in [Procs -> Seq(Items)] /\ held \in [Procs -> Seq(Items)]
    BY QueueAssumption DEF QueueInv, TypeOK
  <1>1. ASSUME NEW i \in Items, Publish(p, i) PROVE OneCopyEach'
    <2>1. /\ i \notin published /\ i \notin done
          /\ published' = published \cup {i} /\ done' = done
          /\ UNCHANGED <<main, retryq, dlq, held, forced, task>>
      BY <1>1 DEF Publish, QueueInv, OnlyPublished
    <2>2. CASE buffer' = [buffer EXCEPT ![p] = Append(@, i)]
      <3> DEFINE b == <<"buffer", p, Len(buffer[p]) + 1>>
      <3>1. \A j \in Items : BufferedCopies("buffer", buffer', j)
                              \subseteq BufferedCopies("buffer", buffer, j) \cup {b}
        BY <1>0, <2>2, BufferedAppend
      <3>2. \A j \in Items \ {i} : BufferedCopies("buffer", buffer', j)
                              \subseteq BufferedCopies("buffer", buffer, j)
        BY <1>0, <2>2, BufferedAppend
      <3> HIDE DEF b
      <3>3. Copies(i)' \subseteq Copies(i) \cup {b}
        BY <2>1, <3>1 DEF Copies
      <3>4. \A j \in Items \ {i} : Copies(j)' \subseteq Copies(j)
        BY <2>1, <3>2 DEF Copies
      <3>5. QED
        BY <2>1, <3>3, <3>4, CopyMade
    <2>3. CASE buffer' = buffer
      <3>1. \A j \in Items : Copies(j)' \subseteq Copies(j)
        BY <2>1, <2>3 DEF Copies
      <3>2. QED
        BY <2>1, <3>1, CopiesKept
    <2>4. QED
      BY <1>1, <2>2, <2>3 DEF Publish, Send
  <1>2. ASSUME BufferRecv(p) PROVE OneCopyEach'
    BY <1>2, RecvMoves
  <1>3. ASSUME BufferPublishOk(p) PROVE OneCopyEach'
    <2>1. PICK k \in Items : k = held[p][1]
      BY <1>3, HeldIsCopy DEF BufferPublishOk
    <2>2. PICK b : b = <<"main", Fresh(k), main[Fresh(k)] + 1>>
      OBVIOUS
    <2> DEFINE a == <<"held", p, 1>>
    <2>3. a \in Copies(k)
      BY <1>3, <2>1, HeldIsCopy DEF BufferPublishOk
    <2>4. main' = Put(main, Fresh(k)) /\ held' = [held EXCEPT ![p] = <<>>]
      BY <1>3, <2>1 DEF BufferPublishOk
    <2>5. UNCHANGED <<retryq, dlq, buffer, forced, task, done, published>>
      BY <1>3 DEF BufferPublishOk
    <2>6. Fresh(k) \in Msg /\ Fresh(k).item = k
      BY MsgFacts
    <2>7. ASSUME NEW j \in Items
          PROVE  /\ StoredCopies("main", main', j) \subseteq StoredCopies("main", main, j) \cup {b}
                 /\ j # k => StoredCopies("main", main', j) \subseteq StoredCopies("main", main, j)
      <3> HIDE DEF a
      <3> QED BY <1>0, <2>2, <2>4, <2>6, StoredPut
    <2>8. ASSUME NEW j \in Items
          PROVE  BufferedCopies("held", held', j) \subseteq BufferedCopies("held", held, j) \ {a}
      BY <1>0, <2>4, BufferedEmptied
    <2>9. /\ \A q, bag : q # "held" => a \notin StoredCopies(q, bag, k)
          /\ \A seqs : a \notin BufferedCopies("buffer", seqs, k)
          /\ \A counts : a \notin ForcedCopies(counts, k)
          /\ \A tasks : a \notin TaskCopies(tasks, k)
      BY Places
    <2> HIDE DEF a
    <2>10. Copies(k)' \subseteq (Copies(k) \ {a}) \cup {b}
      BY <2>5, <2>7, <2>8, <2>9 DEF Copies
    <2>11. \A j \in Items \ {k} : Copies(j)' \subseteq Copies(j)
      BY <2>5, <2>7, <2>8 DEF Copies
    <2>12. QED
      BY <2>3, <2>5, <2>10, <2>11, CopyMoved
  <1>4. ASSUME Rebuffer(p) PROVE OneCopyEach'
    <2>1. PICK k \in Items : k = held[p][1]
      BY <1>4, HeldIsCopy DEF Rebuffer
    <2>2. PICK b : b = <<"buffer", p, Len(buffer[p]) + 1>>
      OBVIOUS
    <2> DEFINE a == <<"held", p, 1>>
    <2>3. a \in Copies(k)
      BY <1>4, <2>1, HeldIsCopy DEF Rebuffer
    <2>4. /\ buffer' = [buffer EXCEPT ![p] = Append(@, k)]
          /\ held' = [held EXCEPT ![p] = <<>>]
      BY <1>4, <2>1 DEF Rebuffer
    <2>5. UNCHANGED <<main, retryq, dlq, forced, task, done, published>>
      BY <1>4 DEF Rebuffer
    <2>6. ASSUME NEW j \in Items
          PROVE  /\ BufferedCopies("buffer", buffer', j)
                      \subseteq BufferedCopies("buffer", buffer, j) \cup {b}
                 /\ j # k => BufferedCopies("buffer", buffer', j)
                                \subseteq BufferedCopies("buffer", buffer, j)
      <3> HIDE DEF a
      <3> QED BY <1>0, <2>2, <2>4, BufferedAppend
    <2>7. ASSUME NEW j \in Items
          PROVE  BufferedCopies("held", held', j) \subseteq BufferedCopies("held", held, j) \ {a}
      BY <1>0, <2>4, BufferedEmptied
    <2>8. /\ \A q, bag : q # "held" => a \notin StoredCopies(q, bag, k)
          /\ \A seqs : a \notin BufferedCopies("buffer", seqs, k)
          /\ \A counts : a \notin ForcedCopies(counts, k)
          /\ \A tasks : a \notin TaskCopies(tasks, k)
      BY Places
    <2> HIDE DEF a
    <2>9. Copies(k)' \subseteq (Copies(k) \ {a}) \cup {b}
      BY <2>5, <2>6, <2>7, <2>8 DEF Copies
    <2>10. \A j \in Items \ {k} : Copies(j)' \subseteq Copies(j)
      BY <2>5, <2>6, <2>7 DEF Copies
    <2>11. QED
      BY <2>3, <2>5, <2>9, <2>10, CopyMoved
  <1>5. ASSUME BufferCancelled(p) PROVE OneCopyEach'
    <2>1. /\ buffer' = [buffer EXCEPT ![p] = <<>>]
          /\ UNCHANGED <<main, retryq, dlq, held, forced, task, done, published>>
      BY <1>5 DEF BufferCancelled
    <2>2. \A j \in Items : BufferedCopies("buffer", buffer', j)
                              \subseteq BufferedCopies("buffer", buffer, j)
      BY <1>0, <2>1, BufferedEmptied
    <2>3. \A j \in Items : Copies(j)' \subseteq Copies(j)
      BY <2>1, <2>2 DEF Copies
    <2>4. QED
      BY <2>1, <2>3, CopiesKept
  <1>6. ASSUME Exit(p) PROVE OneCopyEach'
    <2>1. /\ buffer' = [buffer EXCEPT ![p] = <<>>]
          /\ held' = [held EXCEPT ![p] = <<>>]
          /\ task' = [s \in Slots |-> IF s[1] = p THEN None ELSE task[s]]
          /\ forced' = [c \in Consumers |->
                          IF c = p THEN [i \in Items |-> 0] ELSE forced[c]]
          /\ main' = Requeued(p)
      BY <1>6 DEF Exit, Stop
    <2>0. UNCHANGED <<retryq, dlq, done, published>>
      BY <1>6 DEF Exit, Stop
    <2>2. \A s \in SlotsOf(p) : ~Busy(s)
      BY <1>6 DEF Exit, SlotsOf, Slots
    <2>3. \A m \in Msg : {s \in SlotsOf(p) : Busy(s) /\ task[s].live /\ task[s].msg = m} = {}
      BY <2>2
    <2>4. \A m \in Msg : main'[m] = main[m] + Cardinality({})
      BY <2>1, <2>3 DEF Requeued
    <2>5. main' \in [Msg -> Nat]
      BY <1>0, <2>1, RequeuedFacts
    <2>6. main' = main
      BY <1>0, <2>4, <2>5, FS_EmptySet
    <2>7. \A j \in Items : TaskCopies(task', j) \subseteq TaskCopies(task, j)
      BY <2>1, TaskIs DEF None
    <2>8. \A j \in Items : ForcedCopies(forced', j) \subseteq ForcedCopies(forced, j)
      <3> SUFFICES ASSUME NEW j \in Items, NEW c \in ForcedCopies(forced', j)
                   PROVE  c \in ForcedCopies(forced, j)
        OBVIOUS
      <3>1. PICK x \in Consumers : \E n \in 1..forced'[x][j] : c = <<"forced", x, n>>
        BY ForcedIs
      <3>2. x # p
        BY <2>1, <3>1
      <3>3. forced'[x] = forced[x]
        BY <2>1, <3>2
      <3>4. QED
        BY <3>1, <3>3, ForcedIs
    <2>9. \A j \in Items : /\ BufferedCopies("buffer", buffer', j)
                                \subseteq BufferedCopies("buffer", buffer, j)
                           /\ BufferedCopies("held", held', j)
                                \subseteq BufferedCopies("held", held, j)
      BY <1>0, <2>1, BufferedEmptied
    <2>10. \A j \in Items : Copies(j)' \subseteq Copies(j)
      BY <2>0, <2>6, <2>7, <2>8, <2>9 DEF Copies
    <2>11. QED
      BY <2>0, <2>10, CopiesKept
  <1>7. ASSUME \/ BufferPublishErr(p) \/ Close(p) \/ CloseReturns(p)
               \/ Restart(p) \/ Reconnect(p)
        PROVE  OneCopyEach'
    BY <1>7, CopiesUnchanged
       DEF BufferPublishErr, Close, CloseReturns, Restart, Reconnect
  <1>8. ~(BufferPublishUnconfirmed(p) \/ Crash(p) \/ ConnectionLost(p))
    BY <1>0 DEF BufferPublishUnconfirmed, Crash, ConnectionLost, LoseConnection
  <1>9. QED
    BY <1>1, <1>2, <1>3, <1>4, <1>5, <1>6, <1>7, <1>8 DEF ProcessStep

\* Steps of a delivery task.
LEMMA TaskKeepsOne ==
  ASSUME QueueInv, OneCopyEach, NEW s \in Slots, TaskStep(s), faults' = faults
  PROVE  OneCopyEach'
  <1> USE DEF procVars, brokerVars, history
  <1>0. /\ TypeOK /\ main \in [Msg -> Nat] /\ dlq \in [Msg -> Nat] /\ retryq \in [Msg -> Nat]
        /\ forced \in [Consumers -> [Items -> Nat]] /\ faults \in Nat /\ s[1] \in Consumers
    BY QueueAssumption DEF QueueInv, TypeOK, Slots
  <1> DEFINE a == <<"task", s, 1>>
  <1>1. ASSUME NEW i \in Items
        PROVE  /\ \A q, bag : q # "task" => a \notin StoredCopies(q, bag, i)
               /\ \A q, seqs : q # "task" => a \notin BufferedCopies(q, seqs, i)
               /\ \A counts : a \notin ForcedCopies(counts, i)
    BY Places
  \* The task ends, or has republished its message: its copy is gone.
  <1>2. ASSUME task'[s].stage \notin {"process", "force_ack", "republish", "reject"},
               \A t \in Slots \ {s} : task'[t] = task[t]
        PROVE  \A j \in Items : TaskCopies(task', j) \subseteq TaskCopies(task, j) \ {a}
    BY <1>2, TaskLeaves
  <1>3. ASSUME NEW m \in Msg, Deliver(s, m) PROVE OneCopyEach'
    <2>1. PICK k \in Items : k = m.item
      BY MsgFacts
    <2>2. PICK o : o = <<"main", m, main[m]>>
      OBVIOUS
    <2>3. /\ UNCHANGED <<buffer, held, forced, retryq, dlq, done, published>>
          /\ main[m] > 0 /\ main' = Take(main, m)
      BY <1>3 DEF Deliver
    <2>4. task'[s].msg.item = k /\ \A t \in Slots \ {s} : task'[t] = task[t]
      BY <1>0, <1>3, <2>1 DEF Deliver, TypeOK
    <2>5. /\ \A j \in Items : StoredCopies("main", main', j) \subseteq StoredCopies("main", main, j) \ {o}
          /\ o \in StoredCopies("main", main, k)
      BY <1>0, <2>1, <2>2, <2>3, StoredTake
    <2>6. /\ \A j \in Items : TaskCopies(task', j) \subseteq TaskCopies(task, j) \cup {a}
          /\ \A j \in Items \ {k} : TaskCopies(task', j) \subseteq TaskCopies(task, j)
      BY <2>4, TaskEnters
    <2>7. /\ \A q, bag : q # "main" => o \notin StoredCopies(q, bag, k)
          /\ \A q, seqs : q # "main" => o \notin BufferedCopies(q, seqs, k)
          /\ \A counts : o \notin ForcedCopies(counts, k)
          /\ \A tasks : o \notin TaskCopies(tasks, k)
      BY <2>2, Places
    <2> HIDE DEF a
    <2>8. o \in Copies(k) /\ Copies(k)' \subseteq (Copies(k) \ {o}) \cup {a}
      BY <2>3, <2>5, <2>6, <2>7 DEF Copies
    <2>9. \A j \in Items \ {k} : Copies(j)' \subseteq Copies(j)
      BY <2>3, <2>5, <2>6 DEF Copies
    <2>10. QED
      BY <2>3, <2>8, <2>9, CopyMoved
  <1>4. ASSUME Succeed(s) PROVE OneCopyEach'
    <2>1. PICK k \in Items : k = ItemAt(s) /\ a \in Copies(k)
      BY <1>4, DeliveryIsCopy DEF Succeed, At
    <2>2. /\ UNCHANGED <<buffer, held, forced, main, retryq, dlq, published>>
          /\ done' = done \cup {k}
      BY <1>4, <2>1 DEF Succeed
    <2>3. Busy(s)
      BY <1>4 DEF Succeed, At, Busy
    <2>4. \A j \in Items : TaskCopies(task', j) \subseteq TaskCopies(task, j) \ {a}
      BY <1>0, <1>2, <1>4, <2>3, GotoFacts DEF Succeed
    <2> HIDE DEF a
    <2>5. Copies(k)' \subseteq Copies(k) \ {a}
      BY <1>1, <2>2, <2>4 DEF Copies
    <2>6. \A j \in Items \ {k} : Copies(j)' \subseteq Copies(j)
      BY <2>2, <2>4 DEF Copies
    <2>7. QED
      BY <2>1, <2>2, <2>5, <2>6, CopyProcessed
  <1>5. ASSUME Fail(s) \/ Irrelevant(s) \/ GiveUp(s) PROVE OneCopyEach'
    <2>1. UNCHANGED <<buffer, held, forced, main, retryq, dlq, done, published>>
      BY <1>5 DEF Fail, Irrelevant, GiveUp
    <2>2. Busy(s) /\ At(s, "process")
      BY <1>5 DEF Fail, Irrelevant, GiveUp, At, Busy
    <2>3. /\ \A t \in Slots \ {s} : task'[t] = task[t]
          /\ task'[s].msg = task[s].msg
      BY <1>0, <1>5, <2>2, GotoFacts DEF Fail, Irrelevant, GiveUp
    <2>4. \A j \in Items : TaskCopies(task', j) \subseteq TaskCopies(task, j)
      BY <2>2, <2>3, TaskIs DEF At
    <2>5. \A j \in Items : Copies(j)' \subseteq Copies(j)
      BY <2>1, <2>4 DEF Copies
    <2>6. QED
      BY <2>1, <2>5, CopiesKept
  <1>6. ASSUME Finish(s)
        PROVE  \A j \in Items : TaskCopies(task', j) \subseteq TaskCopies(task, j) \ {a}
    <2>1. task'[s].stage = "idle" /\ \A t \in Slots \ {s} : task'[t] = task[t]
      BY <1>0, <1>6, FinishFacts DEF None
    <2>2. QED
      BY <1>2, <2>1
  <1>7. ASSUME Ack(s) PROVE OneCopyEach'
    <2>1. UNCHANGED <<buffer, held, forced, main, retryq, dlq, done, published>>
      BY <1>7 DEF Ack
    <2>2. \A j \in Items : TaskCopies(task', j) \subseteq TaskCopies(task, j)
      BY <1>6, <1>7 DEF Ack
    <2>3. \A j \in Items : Copies(j)' \subseteq Copies(j)
      BY <2>1, <2>2 DEF Copies
    <2>4. QED
      BY <2>1, <2>3, CopiesKept
  <1>8. ASSUME ForceAck(s) PROVE OneCopyEach'
    <2>1. PICK k \in Items : k = ItemAt(s) /\ a \in Copies(k)
      BY <1>8, DeliveryIsCopy DEF ForceAck, At
    <2>2. PICK b : b = <<"forced", s[1], forced[s[1]][k] + 1>>
      OBVIOUS
    <2>3. UNCHANGED <<buffer, held, main, retryq, dlq, done, published>>
      BY <1>8 DEF ForceAck
    <2>4. \A j \in Items : TaskCopies(task', j) \subseteq TaskCopies(task, j) \ {a}
      BY <1>6, <1>8 DEF ForceAck
    <2>5. forced' = forced \/ forced' = [forced EXCEPT ![s[1]] = Put(@, k)]
      BY <1>8, <2>1 DEF ForceAck
    <2>6. ASSUME NEW j \in Items
          PROVE  /\ ForcedCopies(forced', j) \subseteq ForcedCopies(forced, j) \cup {b}
                 /\ j # k => ForcedCopies(forced', j) \subseteq ForcedCopies(forced, j)
      BY <1>0, <2>2, <2>5, ForcedPut
    <2> HIDE DEF a
    <2>7. Copies(k)' \subseteq (Copies(k) \ {a}) \cup {b}
      BY <1>1, <2>3, <2>4, <2>6 DEF Copies
    <2>8. \A j \in Items \ {k} : Copies(j)' \subseteq Copies(j)
      BY <2>3, <2>4, <2>6 DEF Copies
    <2>9. QED
      BY <2>1, <2>3, <2>7, <2>8, CopyMoved
  <1>9. ASSUME Reject(s) \/ RepublishExhausted(s) PROVE OneCopyEach'
    <2>1. PICK k \in Items : k = ItemAt(s) /\ a \in Copies(k)
      BY <1>9, DeliveryIsCopy DEF Reject, RepublishExhausted, At
    <2>2. PICK m \in Msg : m = task[s].msg /\ m.item = k
      BY <1>0, <1>9, <2>1, BusyTask DEF Reject, RepublishExhausted, At, Busy, ItemAt
    <2>3. PICK b : b = <<"dead_letter", m, dlq[m] + 1>>
      OBVIOUS
    <2>4. UNCHANGED <<buffer, held, forced, main, retryq, done, published>>
      BY <1>9 DEF Reject, RepublishExhausted, DeadLetter
    <2>5. \A j \in Items : TaskCopies(task', j) \subseteq TaskCopies(task, j) \ {a}
      BY <1>6, <1>9 DEF Reject, RepublishExhausted, DeadLetter
    <2>6. dlq' = dlq \/ dlq' = Put(dlq, m)
      BY <1>9, <2>2 DEF Reject, RepublishExhausted, DeadLetter
    <2>7. ASSUME NEW j \in Items
          PROVE  /\ StoredCopies("dead_letter", dlq', j)
                      \subseteq StoredCopies("dead_letter", dlq, j) \cup {b}
                 /\ j # k => StoredCopies("dead_letter", dlq', j)
                                \subseteq StoredCopies("dead_letter", dlq, j)
      BY <1>0, <2>2, <2>3, <2>6, StoredPut
    <2> HIDE DEF a
    <2>8. Copies(k)' \subseteq (Copies(k) \ {a}) \cup {b}
      BY <1>1, <2>4, <2>5, <2>7 DEF Copies
    <2>9. \A j \in Items \ {k} : Copies(j)' \subseteq Copies(j)
      BY <2>4, <2>5, <2>7 DEF Copies
    <2>10. QED
      BY <2>1, <2>4, <2>8, <2>9, CopyMoved
  <1>10. ASSUME RepublishOk(s) PROVE OneCopyEach'
    <2>1. PICK k \in Items : k = ItemAt(s) /\ a \in Copies(k)
      BY <1>10, DeliveryIsCopy DEF RepublishOk, At
    <2>2. Busy(s)
      BY <1>10 DEF RepublishOk, At, Busy
    <2>3. PICK m \in Msg : m = RetryCopy(s) /\ m.item = k
      BY <1>0, <2>1, <2>2, RetryCopyFacts
    <2>4. PICK b : b = <<"retry", m, retryq[m] + 1>>
      OBVIOUS
    <2>5. UNCHANGED <<buffer, held, forced, main, dlq, done, published>>
      BY <1>10 DEF RepublishOk
    <2>6. \A j \in Items : TaskCopies(task', j) \subseteq TaskCopies(task, j) \ {a}
      BY <1>0, <1>2, <1>10, <2>2, GotoFacts DEF RepublishOk
    <2>7. retryq' = Put(retryq, m)
      BY <1>10, <2>3 DEF RepublishOk
    <2>8. ASSUME NEW j \in Items
          PROVE  /\ StoredCopies("retry", retryq', j)
                      \subseteq StoredCopies("retry", retryq, j) \cup {b}
                 /\ j # k => StoredCopies("retry", retryq', j)
                                \subseteq StoredCopies("retry", retryq, j)
      BY <1>0, <2>3, <2>4, <2>7, StoredPut
    <2> HIDE DEF a
    <2>9. Copies(k)' \subseteq (Copies(k) \ {a}) \cup {b}
      BY <1>1, <2>5, <2>6, <2>8 DEF Copies
    <2>10. \A j \in Items \ {k} : Copies(j)' \subseteq Copies(j)
      BY <2>5, <2>6, <2>8 DEF Copies
    <2>11. QED
      BY <2>1, <2>5, <2>9, <2>10, CopyMoved
  <1>11. ASSUME RepublishErr(s) PROVE OneCopyEach'
    <2>1. PICK k \in Items : k = ItemAt(s) /\ a \in Copies(k)
      BY <1>11, DeliveryIsCopy DEF RepublishErr, At
    <2>2. PICK m \in Msg : m = task[s].msg /\ m.item = k
      BY <1>0, <1>11, <2>1, BusyTask DEF RepublishErr, At, Busy, ItemAt
    <2>3. PICK b : b = <<"main", m, main[m] + 1>>
      OBVIOUS
    <2>4. UNCHANGED <<buffer, held, forced, retryq, dlq, done, published>>
      BY <1>11 DEF RepublishErr
    <2>5. \A j \in Items : TaskCopies(task', j) \subseteq TaskCopies(task, j) \ {a}
      BY <1>6, <1>11 DEF RepublishErr
    <2>6. main' = main \/ main' = Put(main, m)
      BY <1>11, <2>2 DEF RepublishErr
    <2>7. ASSUME NEW j \in Items
          PROVE  /\ StoredCopies("main", main', j) \subseteq StoredCopies("main", main, j) \cup {b}
                 /\ j # k => StoredCopies("main", main', j) \subseteq StoredCopies("main", main, j)
      BY <1>0, <2>2, <2>3, <2>6, StoredPut
    <2> HIDE DEF a
    <2>8. Copies(k)' \subseteq (Copies(k) \ {a}) \cup {b}
      BY <1>1, <2>4, <2>5, <2>7 DEF Copies
    <2>9. \A j \in Items \ {k} : Copies(j)' \subseteq Copies(j)
      BY <2>4, <2>5, <2>7 DEF Copies
    <2>10. QED
      BY <2>1, <2>4, <2>8, <2>9, CopyMoved
  <1>12. ~RepublishUnconfirmed(s)
    BY <1>0 DEF RepublishUnconfirmed
  <1>13. QED
    BY <1>3, <1>4, <1>5, <1>7, <1>8, <1>9, <1>10, <1>11, <1>12 DEF TaskStep

\* Steps of a consuming process outside its tasks.
LEMMA ConsumerKeepsOne ==
  ASSUME QueueInv, OneCopyEach, NEW p \in Consumers, ConsumerStep(p)
  PROVE  OneCopyEach'
  <1>0. /\ p \in Procs /\ buffer \in [Procs -> Seq(Items)]
        /\ forced \in [Consumers -> [Items -> Nat]]
    BY DEF QueueInv, TypeOK, Procs
  <1>1. ASSUME StopConsuming(p) PROVE OneCopyEach'
    BY <1>1, CopiesUnchanged DEF StopConsuming, procVars, brokerVars, history
  <1>2. ASSUME NEW k \in Items, ForcePublish(p, k) PROVE OneCopyEach'
    <2>1. PICK a : a = <<"forced", p, forced[p][k]>>
      OBVIOUS
    <2>2. PICK b : b = <<"buffer", p, Len(buffer[p]) + 1>>
      OBVIOUS
    <2>3. UNCHANGED <<held, task, main, retryq, dlq, done, published>>
      BY <1>2 DEF ForcePublish, brokerVars
    <2>4. /\ forced[p][k] > 0 /\ forced' = [forced EXCEPT ![p] = Take(@, k)]
          /\ (buffer' = buffer \/ buffer' = [buffer EXCEPT ![p] = Append(@, k)])
      BY <1>2 DEF ForcePublish, Send
    <2>5. ASSUME NEW j \in Items
          PROVE  /\ j = k => ForcedCopies(forced', j) \subseteq ForcedCopies(forced, j) \ {a}
                 /\ j # k => ForcedCopies(forced', j) \subseteq ForcedCopies(forced, j)
      BY <1>0, <2>1, <2>4, ForcedTake
    <2>6. a \in Copies(k)
      <3>1. a \in ForcedCopies(forced, k)
        BY <1>0, <2>1, <2>4, ForcedTake
      <3>2. QED
        BY <3>1 DEF Copies
    <2>7. ASSUME NEW j \in Items
          PROVE  /\ BufferedCopies("buffer", buffer', j)
                      \subseteq BufferedCopies("buffer", buffer, j) \cup {b}
                 /\ j # k => BufferedCopies("buffer", buffer', j)
                                \subseteq BufferedCopies("buffer", buffer, j)
      BY <1>0, <2>2, <2>4, BufferedAppend
    <2>8. /\ \A q, bag : q # "forced" => a \notin StoredCopies(q, bag, k)
          /\ \A q, seqs : q # "forced" => a \notin BufferedCopies(q, seqs, k)
          /\ \A tasks : a \notin TaskCopies(tasks, k)
      BY <2>1, Places
    <2>9. Copies(k)' \subseteq (Copies(k) \ {a}) \cup {b}
      BY <2>3, <2>5, <2>7, <2>8 DEF Copies
    <2>10. \A j \in Items \ {k} : Copies(j)' \subseteq Copies(j)
      BY <2>3, <2>5, <2>7 DEF Copies
    <2>11. QED
      BY <2>3, <2>6, <2>9, <2>10, CopyMoved
  <1>3. QED
    BY <1>1, <1>2 DEF ConsumerStep

\* Steps of the broker and of the operator.
LEMMA BrokerKeepsOne ==
  ASSUME QueueInv, OneCopyEach, NEW m \in Msg, BrokerStep(m), faults' = faults
  PROVE  OneCopyEach'
  <1> USE DEF procVars, taskVars, history
  <1>0. /\ main \in [Msg -> Nat] /\ dlq \in [Msg -> Nat] /\ retryq \in [Msg -> Nat]
        /\ faults \in Nat
    BY QueueAssumption DEF QueueInv, TypeOK
  <1>1. PICK k \in Items : k = m.item
    BY MsgFacts
  <1>2. Fresh(k) \in Msg /\ Fresh(k).item = k
    BY MsgFacts
  <1>3. ASSUME RetryExpires(m) PROVE OneCopyEach'
    <2>1. PICK a : a = <<"retry", m, retryq[m]>>
      OBVIOUS
    <2>2. PICK b : b = <<"main", m, main[m] + 1>>
      OBVIOUS
    <2>3. UNCHANGED <<buffer, held, forced, task, dlq, done, published>>
      BY <1>3 DEF RetryExpires
    <2>4. retryq[m] > 0 /\ retryq' = Take(retryq, m) /\ main' = Put(main, m)
      BY <1>3 DEF RetryExpires
    <2>5. ASSUME NEW j \in Items
          PROVE  StoredCopies("retry", retryq', j) \subseteq StoredCopies("retry", retryq, j) \ {a}
      BY <1>0, <2>1, <2>4, StoredTake
    <2>6. a \in StoredCopies("retry", retryq, k)
      BY <1>0, <1>1, <2>1, <2>4, StoredTake
    <2>7. ASSUME NEW j \in Items
          PROVE  /\ StoredCopies("main", main', j) \subseteq StoredCopies("main", main, j) \cup {b}
                 /\ j # k => StoredCopies("main", main', j) \subseteq StoredCopies("main", main, j)
      BY <1>0, <1>1, <2>2, <2>4, StoredPut
    <2>8. /\ \A q, bag : q # "retry" => a \notin StoredCopies(q, bag, k)
          /\ \A q, seqs : q # "retry" => a \notin BufferedCopies(q, seqs, k)
          /\ \A counts : a \notin ForcedCopies(counts, k)
          /\ \A tasks : a \notin TaskCopies(tasks, k)
      BY <2>1, Places
    <2>9. a \in Copies(k) /\ Copies(k)' \subseteq (Copies(k) \ {a}) \cup {b}
      BY <2>3, <2>5, <2>6, <2>7, <2>8 DEF Copies
    <2>10. \A j \in Items \ {k} : Copies(j)' \subseteq Copies(j)
      BY <2>3, <2>5, <2>7 DEF Copies
    <2>11. QED
      BY <2>3, <2>9, <2>10, CopyMoved
  <1>4. ASSUME DlqRecover(m) PROVE OneCopyEach'
    <2>1. PICK a : a = <<"dead_letter", m, dlq[m]>>
      OBVIOUS
    <2>2. PICK b : b = <<"main", Fresh(k), main[Fresh(k)] + 1>>
      OBVIOUS
    <2>3. UNCHANGED <<buffer, held, forced, task, retryq, done, published>>
      BY <1>4 DEF DlqRecover
    <2>4. dlq[m] > 0 /\ dlq' = Take(dlq, m) /\ main' = Put(main, Fresh(k))
      BY <1>0, <1>1, <1>4 DEF DlqRecover
    <2>5. ASSUME NEW j \in Items
          PROVE  StoredCopies("dead_letter", dlq', j)
                    \subseteq StoredCopies("dead_letter", dlq, j) \ {a}
      BY <1>0, <2>1, <2>4, StoredTake
    <2>6. a \in StoredCopies("dead_letter", dlq, k)
      BY <1>0, <1>1, <2>1, <2>4, StoredTake
    <2>7. ASSUME NEW j \in Items
          PROVE  /\ StoredCopies("main", main', j) \subseteq StoredCopies("main", main, j) \cup {b}
                 /\ j # k => StoredCopies("main", main', j) \subseteq StoredCopies("main", main, j)
      BY <1>0, <1>2, <2>2, <2>4, StoredPut
    <2>8. /\ \A q, bag : q # "dead_letter" => a \notin StoredCopies(q, bag, k)
          /\ \A q, seqs : q # "dead_letter" => a \notin BufferedCopies(q, seqs, k)
          /\ \A counts : a \notin ForcedCopies(counts, k)
          /\ \A tasks : a \notin TaskCopies(tasks, k)
      BY <2>1, Places
    <2>9. a \in Copies(k) /\ Copies(k)' \subseteq (Copies(k) \ {a}) \cup {b}
      BY <2>3, <2>5, <2>6, <2>7, <2>8 DEF Copies
    <2>10. \A j \in Items \ {k} : Copies(j)' \subseteq Copies(j)
      BY <2>3, <2>5, <2>7 DEF Copies
    <2>11. QED
      BY <2>3, <2>9, <2>10, CopyMoved
  <1>5. ASSUME DlqDrop(m) PROVE OneCopyEach'
    <2>1. UNCHANGED <<buffer, held, forced, task, main, retryq, done, published>>
      BY <1>5 DEF DlqDrop
    <2>2. dlq[m] > 0 /\ dlq' = Take(dlq, m)
      BY <1>5 DEF DlqDrop
    <2>3. ASSUME NEW j \in Items
          PROVE  StoredCopies("dead_letter", dlq', j) \subseteq StoredCopies("dead_letter", dlq, j)
      BY <1>0, <2>2, StoredTake
    <2>4. \A j \in Items : Copies(j)' \subseteq Copies(j)
      BY <2>1, <2>3 DEF Copies
    <2>5. QED
      BY <2>1, <2>4, CopiesKept
  <1>6. QED
    BY <1>3, <1>4, <1>5 DEF BrokerStep

\* Faults are only ever counted up.
LEMMA FaultsCount ==
  ASSUME [Next]_vars
  PROVE  faults' = faults \/ faults' = faults + 1
  <1> USE DEF procVars, taskVars, brokerVars, history
  <1>1. ASSUME NEW p \in Procs, ProcessStep(p) PROVE faults' = faults \/ faults' = faults + 1
    BY <1>1 DEF ProcessStep, Publish, BufferRecv, BufferPublishOk, BufferPublishErr,
         BufferPublishUnconfirmed, Rebuffer, BufferCancelled, Close, CloseReturns,
         Exit, Crash, Restart, ConnectionLost, LoseConnection, Reconnect
  <1>2. ASSUME NEW c \in Consumers, ConsumerStep(c) PROVE faults' = faults
    BY <1>2 DEF ConsumerStep, StopConsuming, ForcePublish
  <1>3. ASSUME NEW s \in Slots, TaskStep(s) PROVE faults' = faults \/ faults' = faults + 1
    BY <1>3 DEF TaskStep, Deliver, Succeed, Fail, Irrelevant, GiveUp, Ack, ForceAck,
         Reject, RepublishExhausted, DeadLetter, RepublishOk, RepublishErr, RepublishUnconfirmed
  <1>4. ASSUME NEW m \in Msg, BrokerStep(m) PROVE faults' = faults \/ faults' = faults + 1
    BY <1>4 DEF BrokerStep, RetryExpires, DlqRecover, DlqDrop
  <1>5. QED
    BY <1>1, <1>2, <1>3, <1>4 DEF Next, vars

\* At start an item has at most the one copy an older release left behind.
LEMMA InitOneCopy == Init => OneCopyEach
  <1> SUFFICES ASSUME Init PROVE OneCopyEach
    OBVIOUS
  <1>1. PICK legacy \in SUBSET Msg :
            /\ \A m1, m2 \in legacy : m1 = m2
            /\ main = [m \in Msg |-> IF m \in legacy THEN 1 ELSE 0]
            /\ published = {m.item : m \in legacy}
    BY DEF Init
  <1>2. ASSUME NEW i \in Items, NEW c \in Copies(i)
        PROVE  \E m \in legacy : m.item = i /\ c = <<"main", m, 1>>
    <2>1. c \notin StoredCopies("retry", retryq, i) \cup StoredCopies("dead_letter", dlq, i)
      <3>1. \A m \in Msg : retryq[m] = 0 /\ dlq[m] = 0
        BY DEF Init
      <3>2. QED
        BY <3>1, StoredIs
    <2>2. c \notin BufferedCopies("buffer", buffer, i) \cup BufferedCopies("held", held, i)
      <3>1. \A p \in Procs : buffer[p] = <<>> /\ held[p] = <<>>
        BY DEF Init
      <3>2. QED
        BY <3>1, BufferedIs
    <2>3. c \notin ForcedCopies(forced, i)
      <3>1. \A p \in Consumers : forced[p][i] = 0
        BY DEF Init
      <3>2. QED
        BY <3>1, ForcedIs
    <2>4. c \notin TaskCopies(task, i)
      <3>1. \A s \in Slots : task[s].stage = "idle"
        BY DEF Init, None
      <3>2. QED
        BY <3>1, TaskIs
    <2>5. c \in StoredCopies("main", main, i)
      BY <2>1, <2>2, <2>3, <2>4 DEF Copies
    <2>6. PICK m \in Msg : m.item = i /\ \E n \in 1..main[m] : c = <<"main", m, n>>
      BY <2>5, StoredIs
    <2>7. m \in legacy /\ main[m] = 1
      BY <1>1, <2>6
    <2>8. QED
      BY <2>6, <2>7
  <1>3. done = {}
    BY DEF Init
  <1>4. QED
    BY <1>1, <1>2, <1>3 DEF OneCopyEach

\* Without a fault, whatever publications fail, tasks are retried, misrouted
\* or rejected, processes close and restart and operators recover, no item is
\* ever in two places, and none that was processed is to be processed again.
THEOREM QueueNoDuplicates == Spec => []NoDuplicatesWithoutFaults
  <1>1. Init => NoDuplicatesWithoutFaults
    BY InitOneCopy DEF NoDuplicatesWithoutFaults
  <1>2. QueueInv /\ NoDuplicatesWithoutFaults /\ [Next]_vars => NoDuplicatesWithoutFaults'
    <2> SUFFICES ASSUME QueueInv, NoDuplicatesWithoutFaults, [Next]_vars, faults' = 0
                 PROVE  OneCopyEach'
      BY DEF NoDuplicatesWithoutFaults
    <2>1. faults \in Nat
      BY QueueAssumption DEF QueueInv, TypeOK
    <2>2. faults' = faults \/ faults' = faults + 1
      BY FaultsCount
    <2>3. OneCopyEach /\ faults' = faults
      BY <2>1, <2>2 DEF NoDuplicatesWithoutFaults
    <2>4. CASE UNCHANGED vars
      BY <2>3, <2>4, CopiesUnchanged DEF vars, procVars, taskVars, brokerVars, history
    <2>5. CASE Next
      BY <2>3, <2>5, ProcessKeepsOne, ConsumerKeepsOne, TaskKeepsOne, BrokerKeepsOne DEF Next
    <2>6. QED
      BY <2>4, <2>5
  <1>3. QED
    BY <1>1, <1>2, QueueInvariant, PTL DEF Spec
=============================================================================

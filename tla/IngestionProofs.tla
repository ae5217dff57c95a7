--------------------------- MODULE IngestionProofs --------------------------
(***************************************************************************)
(* Proofs about the XRPL subscriber composed with the XRPL ingestor, for   *)
(* every chain, page size, set of transactions, number of workers, retry   *)
(* limit and number of faults: the subscriber skips no transaction, the    *)
(* ingestor's records agree with what Axelar was told, an acknowledged     *)
(* payment has its events, its amounts add up, and its status advances.    *)
(***************************************************************************)
EXTENDS XrplIngestion, WellFoundedInduction, TLAPS

\* A nonempty set of naturals with an upper bound has a greatest element.
LEMMA GreatestExists ==
    ASSUME NEW S, S \subseteq Nat, S # {}, NEW b \in Nat, \A n \in S : n <= b
    PROVE  \E m \in S : \A n \in S : n <= m
<1> DEFINE T == {b - n : n \in S}
<1>1. T \subseteq Nat
  OBVIOUS
<1>2. T # {}
  <2>1. PICK s \in S : TRUE
    OBVIOUS
  <2>2. b - s \in T
    OBVIOUS
  <2> QED
    BY <2>2
<1>3. PICK x \in T : \A y \in T : ~ (<<y, x>> \in OpToRel(<, Nat))
  <2> HIDE DEF T
  <2> QED
    BY <1>1, <1>2, NatLessThanWellFounded, WFMin, Zenon
<1>4. \A y \in T : ~ (y < x)
  <2> HIDE DEF T
  <2> QED
    BY <1>1, <1>3 DEF OpToRel
<1>5. PICK m \in S : x = b - m
  OBVIOUS
<1>6. ASSUME NEW n \in S
      PROVE  n <= m
  <2>1. b - n \in T
    OBVIOUS
  <2>2. ~ (b - n < b - m)
    BY <1>4, <1>5, <2>1
  <2> QED
    BY <2>2
<1> QED
  BY <1>6

\* The cursor after a poll is the greatest ledger of the answer.
LEMMA LastOfAnswer ==
    ASSUME NEW B, B \subseteq Transactions, B # {}, NEW b \in Nat, \A i \in B : Chain[i] <= b
    PROVE  \E j \in B : /\ LastOf({Chain[i] : i \in B}) = Chain[j]
                        /\ \A i \in B : Chain[i] <= Chain[j]
<1> USE ChainAssumption DEF Transactions
<1> DEFINE S == {Chain[i] : i \in B}
<1>1. S \subseteq Nat /\ S # {} /\ \A n \in S : n <= b
  OBVIOUS
<1>2. \E m \in S : \A n \in S : n <= m
  <2> HIDE DEF S
  <2> QED
    BY <1>1, GreatestExists
<1>3. LastOf(S) \in S /\ \A n \in S : n <= LastOf(S)
  <2> HIDE DEF S
  <2> QED
    BY <1>2 DEF LastOf
<1>4. PICK j \in B : LastOf(S) = Chain[j]
  BY <1>3
<1>5. \A i \in B : Chain[i] <= Chain[j]
  BY <1>3, <1>4
<1> QED
  BY <1>4, <1>5

\* Ledger numbers are naturals, and cursors integers.
LEMMA LedgerTypes ==
    ASSUME SubscriberTypeOK
    PROVE  /\ \A i \in Transactions : Chain[i] \in Nat \ {0}
           /\ validated \in Nat /\ cursor \in Int /\ stored \in Int
BY ChainAssumption DEF SubscriberTypeOK, Ledgers, Transactions

\* Every step of the subscriber keeps its invariant.
LEMMA SubscriberStepInv ==
    ASSUME SubscriberInv, [SubscriberNext]_subscriberVars
    PROVE  SubscriberInv'
<1>0. SubscriberTypeOK /\ NoneSkipped /\ InHandAboveCursor /\ AnswerHasNoGap /\ CursorsInOrder
  BY DEF SubscriberInv
<1> DEFINE Parts == /\ SubscriberTypeOK' /\ NoneSkipped' /\ InHandAboveCursor'
                    /\ AnswerHasNoGap' /\ CursorsInOrder'
<1> USE LedgerTypes, <1>0
<1>1. ASSUME CloseLedger
      PROVE  SubscriberInv'
  <2>1. PICK n \in Ledgers : n > validated /\ validated' = n
                             /\ \A k \in Ledgers : k > validated => n <= k
    BY <1>1 DEF CloseLedger
  <2> USE <1>1, <2>1 DEF CloseLedger
  <2>2. SubscriberTypeOK'
    BY DEF SubscriberTypeOK, Ledgers
  <2>3. n \in Nat
    BY DEF Ledgers
  <2>4. NoneSkipped'
    <3> SUFFICES ASSUME NEW i \in Transactions, Chain[i] <= n
                 PROVE  (\/ cursor < Chain[i]
                         \/ poll = "down" /\ stored < Chain[i]
                         \/ i \in batch
                         \/ published[i] > 0
                         \/ i \in lost)
      BY DEF NoneSkipped
    <3>1. CASE Chain[i] <= validated
      BY <3>1 DEF NoneSkipped
    <3>2. CASE Chain[i] > validated
      BY <3>2, <2>3 DEF CursorsInOrder
    <3> QED
      BY <3>1, <3>2
  <2>5. InHandAboveCursor'
    BY <2>3 DEF InHandAboveCursor, Visible
  <2>6. AnswerHasNoGap' /\ CursorsInOrder'
    BY <2>3 DEF AnswerHasNoGap, CursorsInOrder
  <2> QED
    BY <2>2, <2>4, <2>5, <2>6 DEF SubscriberInv
<1>2. ASSUME FetchPage
      PROVE  SubscriberInv'
  <2> USE <1>2 DEF FetchPage
  <2>1. SubscriberTypeOK'
    BY DEF SubscriberTypeOK, Page, Visible
  <2>2. NoneSkipped'
    BY DEF NoneSkipped
  <2>3. batch' \subseteq Visible(cursor)
    BY DEF InHandAboveCursor, Page
  <2>4. InHandAboveCursor'
    BY <2>3 DEF InHandAboveCursor, Visible
  <2>5. AnswerHasNoGap'
    BY <2>3 DEF AnswerHasNoGap, Visible
  <2>6. CursorsInOrder'
    BY DEF CursorsInOrder
  <2> QED
    BY <2>1, <2>2, <2>4, <2>5, <2>6 DEF SubscriberInv
<1>3. ASSUME FetchFails
      PROVE  SubscriberInv'
  <2> USE <1>3 DEF FetchFails
  <2>1. SubscriberTypeOK'
    BY ChainAssumption DEF SubscriberTypeOK, Upset
  <2>2. NoneSkipped'
    BY DEF NoneSkipped, InHandAboveCursor, Visible
  <2>3. InHandAboveCursor' /\ AnswerHasNoGap' /\ CursorsInOrder'
    BY DEF InHandAboveCursor, AnswerHasNoGap, CursorsInOrder
  <2> QED
    BY <2>1, <2>2, <2>3 DEF SubscriberInv
<1>4. ASSUME StoreLatestLedger
      PROVE  SubscriberInv'
  <2> USE <1>4 DEF StoreLatestLedger
  <2>1. batch \subseteq Transactions /\ batch # {} /\ batch \subseteq Visible(cursor)
    BY DEF SubscriberTypeOK, AnswerHasNoGap, InHandAboveCursor
  <2>2. PICK j \in batch : cursor' = Chain[j] /\ \A i \in batch : Chain[i] <= Chain[j]
    <3>1. \A i \in batch : Chain[i] <= validated
      BY <2>1 DEF Visible
    <3> QED
      BY <2>1, <3>1, LastOfAnswer
  <2>3. j \in Transactions /\ cursor < cursor' /\ cursor' <= validated
    BY <2>1, <2>2 DEF Visible
  <2>4. SubscriberTypeOK'
    <3>1. cursor' \in Ledgers /\ stored' \in {cursor', stored}
      BY <2>2, <2>3 DEF Ledgers
    <3>2. upsets' \in 0..MaxUpsets
      BY ChainAssumption DEF SubscriberTypeOK, Upset
    <3> QED
      BY <3>1, <3>2 DEF SubscriberTypeOK, Ledgers
  <2>5. NoneSkipped'
    <3> SUFFICES ASSUME NEW i \in Transactions, Chain[i] <= validated, Chain[i] <= cursor'
                 PROVE  i \in batch \/ published[i] > 0 \/ i \in lost
      BY <2>2, <2>3 DEF NoneSkipped
    <3>1. CASE cursor < Chain[i]
      BY <3>1, <2>2 DEF AnswerHasNoGap
    <3>2. CASE ~ (cursor < Chain[i])
      BY <3>2 DEF NoneSkipped
    <3> QED
      BY <3>1, <3>2
  <2>6. InHandAboveCursor' /\ AnswerHasNoGap'
    BY DEF InHandAboveCursor, AnswerHasNoGap
  <2>7. CursorsInOrder'
    BY <2>2, <2>3 DEF CursorsInOrder
  <2> QED
    BY <2>4, <2>5, <2>6, <2>7 DEF SubscriberInv
<1>5. ASSUME SubscriberStop
      PROVE  SubscriberInv'
  <2> USE <1>5 DEF SubscriberStop
  <2>1. SubscriberTypeOK'
    BY ChainAssumption DEF SubscriberTypeOK, Upset
  <2>2. NoneSkipped'
    BY DEF NoneSkipped, SubscriberTypeOK
  <2>3. InHandAboveCursor' /\ AnswerHasNoGap' /\ CursorsInOrder'
    BY DEF InHandAboveCursor, AnswerHasNoGap, CursorsInOrder
  <2> QED
    BY <2>1, <2>2, <2>3 DEF SubscriberInv
<1>6. ASSUME SubscriberStart
      PROVE  SubscriberInv'
  <2> USE <1>6 DEF SubscriberStart
  <2>1. SubscriberTypeOK'
    BY DEF SubscriberTypeOK
  <2>2. NoneSkipped'
    BY DEF NoneSkipped, InHandAboveCursor, CursorsInOrder
  <2>3. InHandAboveCursor' /\ AnswerHasNoGap' /\ CursorsInOrder'
    BY DEF InHandAboveCursor, AnswerHasNoGap, CursorsInOrder
  <2> QED
    BY <2>1, <2>2, <2>3 DEF SubscriberInv
<1>7. ASSUME NEW i \in Transactions, PublishNext(i)
      PROVE  SubscriberInv'
  <2> USE <1>7 DEF PublishNext
  <2>1. SubscriberTypeOK'
    BY DEF SubscriberTypeOK
  <2>2. NoneSkipped'
    BY DEF NoneSkipped, SubscriberTypeOK
  <2>3. InHandAboveCursor' /\ AnswerHasNoGap' /\ CursorsInOrder'
    BY DEF InHandAboveCursor, AnswerHasNoGap, CursorsInOrder
  <2> QED
    BY <2>1, <2>2, <2>3 DEF SubscriberInv
<1>8. ASSUME NEW i \in Transactions, RecoverTx(i)
      PROVE  SubscriberInv'
  <2> USE <1>8 DEF RecoverTx
  <2>1. SubscriberTypeOK'
    BY ChainAssumption DEF SubscriberTypeOK, Upset
  <2>2. NoneSkipped'
    BY DEF NoneSkipped, SubscriberTypeOK
  <2>3. InHandAboveCursor' /\ AnswerHasNoGap' /\ CursorsInOrder'
    BY DEF InHandAboveCursor, AnswerHasNoGap, CursorsInOrder, Visible
  <2> QED
    BY <2>1, <2>2, <2>3 DEF SubscriberInv
<1>9. ASSUME UNCHANGED subscriberVars
      PROVE  SubscriberInv'
  BY <1>9 DEF subscriberVars, SubscriberInv, SubscriberTypeOK, NoneSkipped, InHandAboveCursor,
              AnswerHasNoGap, CursorsInOrder, Visible
<1> QED
  BY <1>1, <1>2, <1>3, <1>4, <1>5, <1>6, <1>7, <1>8, <1>9 DEF SubscriberNext

LEMMA SubscriberInitInv ==
    ASSUME SubscriberInit
    PROVE  SubscriberInv
<1>1. \A i \in Transactions : Chain[i] \in Nat \ {0}
  BY ChainAssumption DEF Transactions
<1> QED
  BY <1>1, ChainAssumption
     DEF SubscriberInit, SubscriberInv, SubscriberTypeOK, NoneSkipped, InHandAboveCursor,
         AnswerHasNoGap, CursorsInOrder, Visible

\* A step of the composition is a step of the subscriber, or leaves it alone.
LEMMA StepOfSubscriber ==
    ASSUME [Next]_vars
    PROVE  [SubscriberNext]_subscriberVars
<1>1. ASSUME SubscriberStep
      PROVE  SubscriberNext
  BY <1>1 DEF SubscriberStep, SubscriberNext, Publication
<1>2. ASSUME IngestorStep
      PROVE  UNCHANGED subscriberVars
  BY <1>2 DEF IngestorStep
<1>3. ASSUME UNCHANGED vars
      PROVE  UNCHANGED subscriberVars
  BY <1>3 DEF vars
<1> QED
  BY <1>1, <1>2, <1>3 DEF Next

(* The subscriber composed with the ingestor skips no transaction: the      *)
(* cursor that poll_account moves and stores passes a validated transaction *)
(* only when it is in hand, with the queue, or dropped by a stop.           *)
THEOREM SubscriberSkipsNothing == Spec => []NoneSkipped
<1>1. Init => SubscriberInv
  BY SubscriberInitInv DEF Init
<1>2. SubscriberInv /\ [Next]_vars => SubscriberInv'
  BY SubscriberStepInv, StepOfSubscriber
<1>3. SubscriberInv => NoneSkipped
  BY DEF SubscriberInv
<1> QED
  BY <1>1, <1>2, <1>3, PTL DEF Spec

LEMMA LeastExists ==
    ASSUME NEW S, S \subseteq Nat, S # {}
    PROVE  \E m \in S : \A n \in S : m <= n
<1>1. PICK x \in S : \A y \in S : ~ (<<y, x>> \in OpToRel(<, Nat))
  BY NatLessThanWellFounded, WFMin, Zenon
<1>2. \A y \in S : ~ (y < x)
  BY <1>1 DEF OpToRel
<1> QED
  BY <1>2
-----------------------------------------------------------------------------
(***************************************************************************)
(* The ingestor: how deliveries move.                                      *)
(***************************************************************************)
LEMMA IdleFacts ==
    /\ NoSlot \notin Slots /\ NoSlot[1] = "none"
    /\ Idle.slot = NoSlot /\ Idle.pc = "idle" /\ Idle.read = 0
    /\ Idle \in [slot : Slots \cup {NoSlot}, pc : Steps, read : Nat]
BY DEF NoSlot, Slots, Items, Idle, Steps

\* The steps of each kind of item.
LEMMA StepItems ==
    ASSUME NEW item \in Items, NEW pc \in StepsOf(item)
    PROVE  /\ pc \in Steps /\ pc # "idle"
           /\ pc \in {"find", "upsert", "build", "translate", "initialized", "events",
                      "post_events", "prover"} => item = "tx"
           /\ pc \in {"verify_cast", "verify_tx"} => item \in {"tx", "verify"}
           /\ pc = "verify_task" => item = "verify"
           /\ pc \in {"quorum_task", "verified", "confirm", "route_tx", "routed", "executed"}
                => item = "quorum"
           /\ pc \in {"store_payload", "construct", "cannot_execute"} => item = "proof"
           /\ pc \in {"read_retries", "retry_cast", "save_retries"} => item = "retry"
           /\ pc = "skip" => item \in {"tx", "retry"}
<1>1. pc \in Steps
  BY DEF Steps
<1> QED
  BY <1>1 DEF StepsOf, Items

\* A worker that is at some step holds an item of that step.
LEMMA BusyFacts ==
    ASSUME DeliveriesOK, NEW w \in Workers, work[w].pc # "idle"
    PROVE  /\ work[w] # Idle
           /\ work[w].slot \in Slots /\ work[w].slot[1] \in Items
           /\ work[w].pc \in StepsOf(work[w].slot[1])
BY IdleFacts DEF DeliveriesOK, Slots

\* A worker moves on with the item it holds.
Moved(w, pc) ==
    /\ UNCHANGED at
    /\ work'[w].slot = work[w].slot /\ work'[w].pc = pc /\ work'[w].read = work[w].read
    /\ \A v \in Workers \ {w} : work'[v] = work[v]

\* A worker puts its item down.
Freed(w, place) ==
    /\ work'[w] = Idle
    /\ \A v \in Workers \ {w} : work'[v] = work[v]
    /\ at'[work[w].slot] = place
    /\ \A slot \in Slots \ {work[w].slot} : at'[slot] = at[slot]

LEMMA GotoMoves ==
    ASSUME DeliveriesOK, OneHolder, NEW w \in Workers, work[w].pc # "idle",
           NEW pc \in StepsOf(work[w].slot[1]), Goto(w, pc)
    PROVE  Moved(w, pc) /\ DeliveriesOK' /\ OneHolder'
<1>0. /\ work[w] # Idle /\ work[w].slot \in Slots
      /\ pc \in Steps /\ pc # "idle"
  BY BusyFacts, StepItems
<1>1. Moved(w, pc)
  BY DEF Goto, Moved, DeliveriesOK
<1>2. work' \in [Workers -> [slot : Slots \cup {NoSlot}, pc : Steps, read : Nat]]
  BY <1>0 DEF Goto, DeliveriesOK
<1>3. work'[w] # Idle /\ \A v \in Workers : work'[v].slot = work[v].slot
  BY <1>0, <1>1, IdleFacts DEF Moved
<1>4. DeliveriesOK'
  <2>1. at' \in [Slots -> Places]
    BY <1>1 DEF Moved, DeliveriesOK
  <2>2. \A v \in Workers : \/ work'[v] = Idle
                           \/ work'[v].slot \in Slots /\ work'[v].pc \in StepsOf(work'[v].slot[1])
    BY <1>0, <1>1 DEF Moved, DeliveriesOK
  <2> QED
    BY <1>2, <2>1, <2>2 DEF DeliveriesOK
<1>5. OneHolder'
  BY <1>0, <1>1, <1>3 DEF OneHolder, Moved
<1> QED
  BY <1>1, <1>4, <1>5

LEMMA PutDown ==
    ASSUME DeliveriesOK, OneHolder, NEW w \in Workers, work[w].pc # "idle", NEW place \in Places,
           work' = [work EXCEPT ![w] = Idle], at' = [at EXCEPT ![work[w].slot] = place]
    PROVE  Freed(w, place) /\ DeliveriesOK' /\ OneHolder'
<1>0. work[w] # Idle /\ work[w].slot \in Slots
  BY BusyFacts
<1>1. Freed(w, place)
  BY <1>0 DEF Freed, DeliveriesOK
<1>2. DeliveriesOK'
  <2>1. work' \in [Workers -> [slot : Slots \cup {NoSlot}, pc : Steps, read : Nat]]
    BY IdleFacts DEF DeliveriesOK
  <2>2. at' \in [Slots -> Places]
    BY DEF DeliveriesOK
  <2>3. \A v \in Workers : \/ work'[v] = Idle
                           \/ work'[v].slot \in Slots /\ work'[v].pc \in StepsOf(work'[v].slot[1])
    BY <1>1 DEF Freed, DeliveriesOK
  <2> QED
    BY <2>1, <2>2, <2>3 DEF DeliveriesOK
<1>3. OneHolder'
  <2> SUFFICES ASSUME NEW v \in Workers, work'[v] # Idle
               PROVE  /\ at'[work'[v].slot] = "worker"
                      /\ \A u \in Workers : work'[u].slot = work'[v].slot => u = v
    BY DEF OneHolder
  <2>1. v # w /\ work'[v] = work[v] /\ work[v] # Idle
    BY <1>1 DEF Freed
  <2>2. work[v].slot \in Slots /\ work[v].slot # work[w].slot /\ at[work[v].slot] = "worker"
    BY <2>1 DEF OneHolder, DeliveriesOK
  <2>3. at'[work[v].slot] = "worker"
    BY <1>1, <2>2 DEF Freed
  <2>4. ASSUME NEW u \in Workers, work'[u].slot = work'[v].slot
        PROVE  u = v
    <3>1. u # w
      BY <1>1, <2>1, <2>2, <2>4, IdleFacts DEF Freed
    <3> QED
      BY <1>1, <2>1, <2>4, <3>1 DEF OneHolder, Freed
  <2> QED
    BY <2>1, <2>3, <2>4
<1> QED
  BY <1>1, <1>2, <1>3

LEMMA AckFrees ==
    ASSUME DeliveriesOK, OneHolder, NEW w \in Workers, work[w].pc # "idle", Ack(w)
    PROVE  Freed(w, "acked") /\ DeliveriesOK' /\ OneHolder'
<1>1. "acked" \in Places
  BY DEF Places
<1> QED
  BY <1>1, PutDown DEF Ack

LEMMA RepublishFrees ==
    ASSUME DeliveriesOK, OneHolder, NEW w \in Workers, work[w].pc # "idle", Republish(w)
    PROVE  Freed(w, "queued") /\ DeliveriesOK' /\ OneHolder'
<1>1. "queued" \in Places
  BY DEF Places
<1> QED
  BY <1>1, PutDown DEF Republish, Enqueue

\* An item comes to the queue, in a slot that was not in use.
LEMMA Arrival ==
    ASSUME DeliveriesOK, OneHolder, NEW slot \in Slots, at[slot] = "absent", UNCHANGED work,
           Enqueue(slot)
    PROVE  /\ at'[slot] = "queued" /\ \A s \in Slots \ {slot} : at'[s] = at[s]
           /\ DeliveriesOK' /\ OneHolder'
<1>1. DeliveriesOK'
  BY DEF DeliveriesOK, Places, Enqueue
<1>2. OneHolder'
  BY DEF OneHolder, DeliveriesOK, Enqueue
<1>3. at'[slot] = "queued" /\ \A s \in Slots \ {slot} : at'[s] = at[s]
  BY DEF DeliveriesOK, Enqueue
<1> QED
  BY <1>1, <1>2, <1>3

\* A worker takes an item up; a step of the item is its first.
LEMMA DeliverTakes ==
    ASSUME DeliveriesOK, OneHolder, NEW w \in Workers, Deliver(w)
    PROVE  /\ \E slot \in Slots :
                /\ at[slot] = "queued" /\ at'[slot] = "worker"
                /\ \A s \in Slots \ {slot} : at'[s] = at[s]
                /\ work'[w].slot = slot /\ work'[w].pc \in FirstSteps(slot[1])
           /\ \A v \in Workers \ {w} : work'[v] = work[v]
           /\ DeliveriesOK' /\ OneHolder'
<1>0. PICK slot \in Slots : \E pc \in FirstSteps(slot[1]) :
        /\ at[slot] = "queued"
        /\ at' = [at EXCEPT ![slot] = "worker"]
        /\ work' = [work EXCEPT ![w] = [slot |-> slot, pc |-> pc, read |-> 0]]
  BY DEF Deliver
<1>1. PICK pc \in FirstSteps(slot[1]) :
        /\ at[slot] = "queued"
        /\ at' = [at EXCEPT ![slot] = "worker"]
        /\ work' = [work EXCEPT ![w] = [slot |-> slot, pc |-> pc, read |-> 0]]
  BY <1>0
<1>2. pc \in StepsOf(slot[1]) /\ pc \in Steps
  <2>1. slot[1] \in Items
    BY DEF Slots
  <2>2. pc \in StepsOf(slot[1])
    BY <2>1 DEF FirstSteps, StepsOf, Items, RetrySteps
  <2> QED
    BY <2>1, <2>2, StepItems
<1>3. /\ work'[w] = [slot |-> slot, pc |-> pc, read |-> 0]
      /\ \A v \in Workers \ {w} : work'[v] = work[v]
      /\ at'[slot] = "worker" /\ \A s \in Slots \ {slot} : at'[s] = at[s]
  BY <1>1 DEF DeliveriesOK
<1>4. work' \in [Workers -> [slot : Slots \cup {NoSlot}, pc : Steps, read : Nat]]
  BY <1>1, <1>2 DEF DeliveriesOK
<1>5. at' \in [Slots -> Places]
  BY <1>1 DEF DeliveriesOK, Places
<1>6. DeliveriesOK'
  <2>1. \A v \in Workers : \/ work'[v] = Idle
                           \/ work'[v].slot \in Slots /\ work'[v].pc \in StepsOf(work'[v].slot[1])
    BY <1>2, <1>3 DEF DeliveriesOK
  <2> QED
    BY <1>4, <1>5, <2>1 DEF DeliveriesOK
<1>7. OneHolder'
  <2> SUFFICES ASSUME NEW v \in Workers, work'[v] # Idle
               PROVE  /\ at'[work'[v].slot] = "worker"
                      /\ \A u \in Workers : work'[u].slot = work'[v].slot => u = v
    BY DEF OneHolder
  <2>1. \A u \in Workers : u # w => work[u].slot # slot
    BY <1>1, IdleFacts DEF OneHolder, DeliveriesOK
  <2>2. CASE v = w
    BY <1>1, <1>3, <2>1, <2>2 DEF DeliveriesOK
  <2>3. CASE v # w
    <3>1. work'[v] = work[v] /\ work[v] # Idle /\ work[v].slot \in Slots /\ work[v].slot # slot
      BY <1>3, <2>1, <2>3 DEF DeliveriesOK
    <3>2. at'[work[v].slot] = "worker"
      BY <1>3, <3>1 DEF OneHolder
    <3> QED
      BY <1>3, <2>3, <3>1, <3>2 DEF OneHolder
  <2> QED
    BY <2>2, <2>3
<1>8. work'[w].slot = slot /\ work'[w].pc \in FirstSteps(slot[1])
  BY <1>3
<1> QED
  BY <1>1, <1>3, <1>6, <1>7, <1>8

\* How each step of a worker moves the item it holds.
LEMMA StepMoves ==
    ASSUME DeliveriesOK, RecordsOK, OneHolder, NEW w \in Workers
    PROVE
      /\ WorkerStep(w) \/ CallFails(w) \/ WorkerStops(w) => DeliveriesOK' /\ OneHolder'
      /\ FindRow(w) =>
            /\ Holds(w, "tx") /\ At(w, "find")
            /\ Moved(w, IF row = NoRow THEN "upsert" ELSE AfterRow)
      /\ UpsertRow(w) =>
            /\ Holds(w, "tx") /\ At(w, "upsert")
            /\ Moved(w, AfterRow)
      /\ Skip(w) =>
            /\ work[w].slot[1] \in {"tx", "retry"} /\ At(w, "skip")
            /\ Freed(w, "acked")
      /\ BuildFails(w) =>
            /\ Holds(w, "tx") /\ At(w, "build")
            /\ Freed(w, "acked")
      /\ BuildMessage(w) =>
            /\ Holds(w, "tx") /\ At(w, "build")
            /\ \/ Moved(w, "translate") /\ tx.message \in GmpMessages
               \/ Moved(w, "events") /\ tx.message = "add_gas"
               \/ Moved(w, "verify_cast") /\ tx.message = "add_reserves"
      /\ TranslateMessage(w) =>
            /\ Holds(w, "tx") /\ At(w, "translate")
            /\ \/ Moved(w, "initialized") /\ tx.translates
               \/ Freed(w, "acked") /\ ~tx.translates
      /\ SetInitialized(w) =>
            /\ Holds(w, "tx") /\ At(w, "initialized")
            /\ Moved(w, "events")
      /\ MakeEvents(w) =>
            /\ Holds(w, "tx") /\ At(w, "events")
            /\ \/ Freed(w, "queued") /\ ~HasPrice(tx)
               \/ Moved(w, "verify_cast") /\ HasPrice(tx) /\ tx.message = "add_gas"
               \/ Moved(w, "post_events") /\ HasPrice(tx) /\ tx.message # "add_gas"
      /\ PostEvents(w) =>
            /\ Holds(w, "tx") /\ At(w, "post_events")
            /\ \/ Freed(w, "queued")
               \/ Freed(w, "acked")
      /\ ProverTx(w) =>
            /\ Holds(w, "tx") /\ At(w, "prover")
            /\ \/ Moved(w, "verify_cast")
               \/ Freed(w, "queued")
      /\ VerifyBroadcast(w) =>
            /\ work[w].slot[1] \in {"tx", "verify"} /\ At(w, "verify_cast")
            /\ Moved(w, "verify_tx")
      /\ UpdateVerifyTx(w) =>
            /\ work[w].slot[1] \in {"tx", "verify"} /\ At(w, "verify_tx")
            /\ \/ Moved(w, "post_events") /\ Holds(w, "tx") /\ Route(tx) = "payment" /\ tx.message = "add_gas"
               \/ Freed(w, "acked") /\ ~(Holds(w, "tx") /\ Route(tx) = "payment" /\ tx.message = "add_gas")
      /\ UpdateVerifyTask(w) =>
            /\ Holds(w, "verify") /\ At(w, "verify_task")
            /\ Moved(w, "verify_cast")
      /\ UpdateQuorumReachedTask(w) =>
            /\ Holds(w, "quorum") /\ At(w, "quorum_task")
            /\ \/ Moved(w, "verified")
               \/ Freed(w, "acked") /\ gaveUp' = gaveUp \cup {"no_quorum"}
      /\ SetVerified(w) =>
            /\ Holds(w, "quorum") /\ At(w, "verified")
            /\ Moved(w, "confirm")
      /\ ConfirmBroadcast(w) =>
            /\ Holds(w, "quorum") /\ At(w, "confirm")
            /\ \/ Moved(w, "route_tx")
               \/ Moved(w, "executed")
      /\ UpdateRouteTx(w) =>
            /\ Holds(w, "quorum") /\ At(w, "route_tx")
            /\ Moved(w, "routed")
      /\ SetRouted(w) =>
            /\ Holds(w, "quorum") /\ At(w, "routed")
            /\ Moved(w, "executed")
      /\ ReportExecuted(w) =>
            /\ Holds(w, "quorum") /\ At(w, "executed")
            /\ \/ Freed(w, "acked") /\ (IsProverPayment(tx) => "MESSAGE_EXECUTED" \in axelar')
               \/ Freed(w, "queued") /\ ~Reportable
      /\ StorePayload(w) =>
            /\ Holds(w, "proof") /\ At(w, "store_payload")
            /\ Moved(w, "construct")
      /\ ConstructProof(w) =>
            /\ Holds(w, "proof") /\ At(w, "construct")
            /\ \/ Freed(w, "acked") /\ ("proof_built" \in axelar' \/ "timeout" \in gaveUp')
               \/ Moved(w, "cannot_execute")
      /\ CannotExecute(w) =>
            /\ Holds(w, "proof") /\ At(w, "cannot_execute")
            /\ Freed(w, "acked") /\ "CANNOT_EXECUTE" \in axelar'
      /\ RetryBroadcast(w) =>
            /\ Holds(w, "retry") /\ At(w, "retry_cast")
            /\ Moved(w, "save_retries")
      /\ UpsertRetries(w) =>
            /\ Holds(w, "retry") /\ At(w, "save_retries")
            /\ Freed(w, "acked")
      /\ CallFails(w) =>
            /\ Freed(w, "queued")
      /\ WorkerStops(w) =>
            /\ Freed(w, "queued")
      /\ ReadRetries(w) =>
            /\ Holds(w, "retry") /\ At(w, "read_retries")
            /\ \/ Freed(w, "queued") /\ retries >= MAX_TASK_RETRIES
               \/ /\ ~(retries >= MAX_TASK_RETRIES) /\ UNCHANGED at
                  /\ work'[w] = [slot |-> work[w].slot, pc |-> "retry_cast", read |-> retries]
                  /\ \A v \in Workers \ {w} : work'[v] = work[v]
<1>1. ASSUME FindRow(w)
     PROVE  /\ DeliveriesOK' /\ OneHolder'
            /\ Holds(w, "tx") /\ At(w, "find")
            /\ Moved(w, IF row = NoRow THEN "upsert" ELSE AfterRow)
  <2>1. /\ work[w].pc = "find" /\ work[w].pc # "idle"
        /\ work[w].slot[1] \in Items /\ work[w].pc \in StepsOf(work[w].slot[1])
    BY <1>1, BusyFacts DEF FindRow, At
  <2>2. Holds(w, "tx")
    BY <2>1, StepItems DEF Holds
  <2> QED
    BY <1>1, <2>1, <2>2, GotoMoves DEF FindRow, At, Holds, StepsOf, Items, AfterRow
<1>2. ASSUME UpsertRow(w)
     PROVE  /\ DeliveriesOK' /\ OneHolder'
            /\ Holds(w, "tx") /\ At(w, "upsert")
            /\ Moved(w, AfterRow)
  <2>1. /\ work[w].pc = "upsert" /\ work[w].pc # "idle"
        /\ work[w].slot[1] \in Items /\ work[w].pc \in StepsOf(work[w].slot[1])
    BY <1>2, BusyFacts DEF UpsertRow, At
  <2>2. Holds(w, "tx")
    BY <2>1, StepItems DEF Holds
  <2> QED
    BY <1>2, <2>1, <2>2, GotoMoves DEF UpsertRow, At, Holds, StepsOf, Items, AfterRow
<1>3. ASSUME Skip(w)
     PROVE  /\ DeliveriesOK' /\ OneHolder'
            /\ work[w].slot[1] \in {"tx", "retry"} /\ At(w, "skip")
            /\ Freed(w, "acked")
  <2>1. /\ work[w].pc = "skip" /\ work[w].pc # "idle"
        /\ work[w].slot[1] \in Items /\ work[w].pc \in StepsOf(work[w].slot[1])
    BY <1>3, BusyFacts DEF Skip, At
  <2>2. work[w].slot[1] \in {"tx", "retry"}
    BY <2>1, StepItems DEF Holds
  <2> QED
    BY <1>3, <2>1, <2>2, AckFrees DEF Skip, At
<1>4. ASSUME BuildFails(w)
     PROVE  /\ DeliveriesOK' /\ OneHolder'
            /\ Holds(w, "tx") /\ At(w, "build")
            /\ Freed(w, "acked")
  <2>1. /\ work[w].pc = "build" /\ work[w].pc # "idle"
        /\ work[w].slot[1] \in Items /\ work[w].pc \in StepsOf(work[w].slot[1])
    BY <1>4, BusyFacts DEF BuildFails, At
  <2>2. Holds(w, "tx")
    BY <2>1, StepItems DEF Holds
  <2> QED
    BY <1>4, <2>1, <2>2, AckFrees DEF BuildFails, At
<1>5. ASSUME BuildMessage(w)
     PROVE  /\ DeliveriesOK' /\ OneHolder'
            /\ Holds(w, "tx") /\ At(w, "build")
            /\ \/ Moved(w, "translate") /\ tx.message \in GmpMessages
               \/ Moved(w, "events") /\ tx.message = "add_gas"
               \/ Moved(w, "verify_cast") /\ tx.message = "add_reserves"
  <2>1. /\ work[w].pc = "build" /\ work[w].pc # "idle"
        /\ work[w].slot[1] \in Items /\ work[w].pc \in StepsOf(work[w].slot[1])
    BY <1>5, BusyFacts DEF BuildMessage, At
  <2>2. Holds(w, "tx")
    BY <2>1, StepItems DEF Holds
  <2> QED
    BY <1>5, <2>1, <2>2, GotoMoves DEF BuildMessage, At, Holds, StepsOf, Items, Builds, GmpMessages
<1>6. ASSUME TranslateMessage(w)
     PROVE  /\ DeliveriesOK' /\ OneHolder'
            /\ Holds(w, "tx") /\ At(w, "translate")
            /\ \/ Moved(w, "initialized") /\ tx.translates
               \/ Freed(w, "acked") /\ ~tx.translates
  <2>1. /\ work[w].pc = "translate" /\ work[w].pc # "idle"
        /\ work[w].slot[1] \in Items /\ work[w].pc \in StepsOf(work[w].slot[1])
    BY <1>6, BusyFacts DEF TranslateMessage, At
  <2>2. Holds(w, "tx")
    BY <2>1, StepItems DEF Holds
  <2> QED
    BY <1>6, <2>1, <2>2, GotoMoves, AckFrees DEF TranslateMessage, At, Holds, StepsOf, Items
<1>7. ASSUME SetInitialized(w)
     PROVE  /\ DeliveriesOK' /\ OneHolder'
            /\ Holds(w, "tx") /\ At(w, "initialized")
            /\ Moved(w, "events")
  <2>1. /\ work[w].pc = "initialized" /\ work[w].pc # "idle"
        /\ work[w].slot[1] \in Items /\ work[w].pc \in StepsOf(work[w].slot[1])
    BY <1>7, BusyFacts DEF SetInitialized, At
  <2>2. Holds(w, "tx")
    BY <2>1, StepItems DEF Holds
  <2> QED
    BY <1>7, <2>1, <2>2, GotoMoves DEF SetInitialized, At, Holds, StepsOf, Items
<1>8. ASSUME MakeEvents(w)
     PROVE  /\ DeliveriesOK' /\ OneHolder'
            /\ Holds(w, "tx") /\ At(w, "events")
            /\ \/ Freed(w, "queued") /\ ~HasPrice(tx)
               \/ Moved(w, "verify_cast") /\ HasPrice(tx) /\ tx.message = "add_gas"
               \/ Moved(w, "post_events") /\ HasPrice(tx) /\ tx.message # "add_gas"
  <2>1. /\ work[w].pc = "events" /\ work[w].pc # "idle"
        /\ work[w].slot[1] \in Items /\ work[w].pc \in StepsOf(work[w].slot[1])
    BY <1>8, BusyFacts DEF MakeEvents, At
  <2>2. Holds(w, "tx")
    BY <2>1, StepItems DEF Holds
  <2> QED
    BY <1>8, <2>1, <2>2, GotoMoves, RepublishFrees DEF MakeEvents, At, Holds, StepsOf, Items
<1>9. ASSUME PostEvents(w)
     PROVE  /\ DeliveriesOK' /\ OneHolder'
            /\ Holds(w, "tx") /\ At(w, "post_events")
            /\ \/ Freed(w, "queued")
               \/ Freed(w, "acked")
  <2>1. /\ work[w].pc = "post_events" /\ work[w].pc # "idle"
        /\ work[w].slot[1] \in Items /\ work[w].pc \in StepsOf(work[w].slot[1])
    BY <1>9, BusyFacts DEF PostEvents, At
  <2>2. Holds(w, "tx")
    BY <2>1, StepItems DEF Holds
  <2> QED
    BY <1>9, <2>1, <2>2, AckFrees, RepublishFrees DEF PostEvents, At
<1>10. ASSUME ProverTx(w)
     PROVE  /\ DeliveriesOK' /\ OneHolder'
            /\ Holds(w, "tx") /\ At(w, "prover")
            /\ \/ Moved(w, "verify_cast")
               \/ Freed(w, "queued")
  <2>1. /\ work[w].pc = "prover" /\ work[w].pc # "idle"
        /\ work[w].slot[1] \in Items /\ work[w].pc \in StepsOf(work[w].slot[1])
    BY <1>10, BusyFacts DEF ProverTx, At
  <2>2. Holds(w, "tx")
    BY <2>1, StepItems DEF Holds
  <2> QED
    BY <1>10, <2>1, <2>2, GotoMoves, RepublishFrees DEF ProverTx, At, Holds, StepsOf, Items
<1>11. ASSUME VerifyBroadcast(w)
     PROVE  /\ DeliveriesOK' /\ OneHolder'
            /\ work[w].slot[1] \in {"tx", "verify"} /\ At(w, "verify_cast")
            /\ Moved(w, "verify_tx")
  <2>1. /\ work[w].pc = "verify_cast" /\ work[w].pc # "idle"
        /\ work[w].slot[1] \in Items /\ work[w].pc \in StepsOf(work[w].slot[1])
    BY <1>11, BusyFacts DEF VerifyBroadcast, At
  <2>2. work[w].slot[1] \in {"tx", "verify"}
    BY <2>1, StepItems DEF Holds
  <2> QED
    BY <1>11, <2>1, <2>2, GotoMoves DEF VerifyBroadcast, At, Holds, StepsOf, Items
<1>12. ASSUME UpdateVerifyTx(w)
     PROVE  /\ DeliveriesOK' /\ OneHolder'
            /\ work[w].slot[1] \in {"tx", "verify"} /\ At(w, "verify_tx")
            /\ \/ Moved(w, "post_events") /\ Holds(w, "tx") /\ Route(tx) = "payment" /\ tx.message = "add_gas"
               \/ Freed(w, "acked") /\ ~(Holds(w, "tx") /\ Route(tx) = "payment" /\ tx.message = "add_gas")
  <2>1. /\ work[w].pc = "verify_tx" /\ work[w].pc # "idle"
        /\ work[w].slot[1] \in Items /\ work[w].pc \in StepsOf(work[w].slot[1])
    BY <1>12, BusyFacts DEF UpdateVerifyTx, At
  <2>2. work[w].slot[1] \in {"tx", "verify"}
    BY <2>1, StepItems DEF Holds
  <2> QED
    BY <1>12, <2>1, <2>2, GotoMoves, AckFrees DEF UpdateVerifyTx, At, Holds, StepsOf, Items
<1>13. ASSUME UpdateVerifyTask(w)
     PROVE  /\ DeliveriesOK' /\ OneHolder'
            /\ Holds(w, "verify") /\ At(w, "verify_task")
            /\ Moved(w, "verify_cast")
  <2>1. /\ work[w].pc = "verify_task" /\ work[w].pc # "idle"
        /\ work[w].slot[1] \in Items /\ work[w].pc \in StepsOf(work[w].slot[1])
    BY <1>13, BusyFacts DEF UpdateVerifyTask, At
  <2>2. Holds(w, "verify")
    BY <2>1, StepItems DEF Holds
  <2> QED
    BY <1>13, <2>1, <2>2, GotoMoves DEF UpdateVerifyTask, At, Holds, StepsOf, Items
<1>14. ASSUME UpdateQuorumReachedTask(w)
     PROVE  /\ DeliveriesOK' /\ OneHolder'
            /\ Holds(w, "quorum") /\ At(w, "quorum_task")
            /\ \/ Moved(w, "verified")
               \/ Freed(w, "acked") /\ gaveUp' = gaveUp \cup {"no_quorum"}
  <2>1. /\ work[w].pc = "quorum_task" /\ work[w].pc # "idle"
        /\ work[w].slot[1] \in Items /\ work[w].pc \in StepsOf(work[w].slot[1])
    BY <1>14, BusyFacts DEF UpdateQuorumReachedTask, At
  <2>2. Holds(w, "quorum")
    BY <2>1, StepItems DEF Holds
  <2> QED
    BY <1>14, <2>1, <2>2, GotoMoves, AckFrees DEF UpdateQuorumReachedTask, At, Holds, StepsOf, Items
<1>15. ASSUME SetVerified(w)
     PROVE  /\ DeliveriesOK' /\ OneHolder'
            /\ Holds(w, "quorum") /\ At(w, "verified")
            /\ Moved(w, "confirm")
  <2>1. /\ work[w].pc = "verified" /\ work[w].pc # "idle"
        /\ work[w].slot[1] \in Items /\ work[w].pc \in StepsOf(work[w].slot[1])
    BY <1>15, BusyFacts DEF SetVerified, At
  <2>2. Holds(w, "quorum")
    BY <2>1, StepItems DEF Holds
  <2> QED
    BY <1>15, <2>1, <2>2, GotoMoves DEF SetVerified, At, Holds, StepsOf, Items
<1>16. ASSUME ConfirmBroadcast(w)
     PROVE  /\ DeliveriesOK' /\ OneHolder'
            /\ Holds(w, "quorum") /\ At(w, "confirm")
            /\ \/ Moved(w, "route_tx")
               \/ Moved(w, "executed")
  <2>1. /\ work[w].pc = "confirm" /\ work[w].pc # "idle"
        /\ work[w].slot[1] \in Items /\ work[w].pc \in StepsOf(work[w].slot[1])
    BY <1>16, BusyFacts DEF ConfirmBroadcast, At
  <2>2. Holds(w, "quorum")
    BY <2>1, StepItems DEF Holds
  <2> QED
    BY <1>16, <2>1, <2>2, GotoMoves DEF ConfirmBroadcast, At, Holds, StepsOf, Items
<1>17. ASSUME UpdateRouteTx(w)
     PROVE  /\ DeliveriesOK' /\ OneHolder'
            /\ Holds(w, "quorum") /\ At(w, "route_tx")
            /\ Moved(w, "routed")
  <2>1. /\ work[w].pc = "route_tx" /\ work[w].pc # "idle"
        /\ work[w].slot[1] \in Items /\ work[w].pc \in StepsOf(work[w].slot[1])
    BY <1>17, BusyFacts DEF UpdateRouteTx, At
  <2>2. Holds(w, "quorum")
    BY <2>1, StepItems DEF Holds
  <2> QED
    BY <1>17, <2>1, <2>2, GotoMoves DEF UpdateRouteTx, At, Holds, StepsOf, Items
<1>18. ASSUME SetRouted(w)
     PROVE  /\ DeliveriesOK' /\ OneHolder'
            /\ Holds(w, "quorum") /\ At(w, "routed")
            /\ Moved(w, "executed")
  <2>1. /\ work[w].pc = "routed" /\ work[w].pc # "idle"
        /\ work[w].slot[1] \in Items /\ work[w].pc \in StepsOf(work[w].slot[1])
    BY <1>18, BusyFacts DEF SetRouted, At
  <2>2. Holds(w, "quorum")
    BY <2>1, StepItems DEF Holds
  <2> QED
    BY <1>18, <2>1, <2>2, GotoMoves DEF SetRouted, At, Holds, StepsOf, Items
<1>19. ASSUME ReportExecuted(w)
     PROVE  /\ DeliveriesOK' /\ OneHolder'
            /\ Holds(w, "quorum") /\ At(w, "executed")
            /\ \/ Freed(w, "acked") /\ (IsProverPayment(tx) => "MESSAGE_EXECUTED" \in axelar')
               \/ Freed(w, "queued") /\ ~Reportable
  <2>1. /\ work[w].pc = "executed" /\ work[w].pc # "idle"
        /\ work[w].slot[1] \in Items /\ work[w].pc \in StepsOf(work[w].slot[1])
    BY <1>19, BusyFacts DEF ReportExecuted, At
  <2>2. Holds(w, "quorum")
    BY <2>1, StepItems DEF Holds
  <2> QED
    BY <1>19, <2>1, <2>2, AckFrees, RepublishFrees DEF ReportExecuted, At, Reportable
<1>20. ASSUME StorePayload(w)
     PROVE  /\ DeliveriesOK' /\ OneHolder'
            /\ Holds(w, "proof") /\ At(w, "store_payload")
            /\ Moved(w, "construct")
  <2>1. /\ work[w].pc = "store_payload" /\ work[w].pc # "idle"
        /\ work[w].slot[1] \in Items /\ work[w].pc \in StepsOf(work[w].slot[1])
    BY <1>20, BusyFacts DEF StorePayload, At
  <2>2. Holds(w, "proof")
    BY <2>1, StepItems DEF Holds
  <2> QED
    BY <1>20, <2>1, <2>2, GotoMoves DEF StorePayload, At, Holds, StepsOf, Items
<1>21. ASSUME ConstructProof(w)
     PROVE  /\ DeliveriesOK' /\ OneHolder'
            /\ Holds(w, "proof") /\ At(w, "construct")
            /\ \/ Freed(w, "acked") /\ ("proof_built" \in axelar' \/ "timeout" \in gaveUp')
               \/ Moved(w, "cannot_execute")
  <2>1. /\ work[w].pc = "construct" /\ work[w].pc # "idle"
        /\ work[w].slot[1] \in Items /\ work[w].pc \in StepsOf(work[w].slot[1])
    BY <1>21, BusyFacts DEF ConstructProof, At
  <2>2. Holds(w, "proof")
    BY <2>1, StepItems DEF Holds
  <2> QED
    BY <1>21, <2>1, <2>2, GotoMoves, AckFrees DEF ConstructProof, At, Holds, StepsOf, Items, Broadcast
<1>22. ASSUME CannotExecute(w)
     PROVE  /\ DeliveriesOK' /\ OneHolder'
            /\ Holds(w, "proof") /\ At(w, "cannot_execute")
            /\ Freed(w, "acked") /\ "CANNOT_EXECUTE" \in axelar'
  <2>1. /\ work[w].pc = "cannot_execute" /\ work[w].pc # "idle"
        /\ work[w].slot[1] \in Items /\ work[w].pc \in StepsOf(work[w].slot[1])
    BY <1>22, BusyFacts DEF CannotExecute, At
  <2>2. Holds(w, "proof")
    BY <2>1, StepItems DEF Holds
  <2> QED
    BY <1>22, <2>1, <2>2, AckFrees DEF CannotExecute, At
<1>23. ASSUME RetryBroadcast(w)
     PROVE  /\ DeliveriesOK' /\ OneHolder'
            /\ Holds(w, "retry") /\ At(w, "retry_cast")
            /\ Moved(w, "save_retries")
  <2>1. /\ work[w].pc = "retry_cast" /\ work[w].pc # "idle"
        /\ work[w].slot[1] \in Items /\ work[w].pc \in StepsOf(work[w].slot[1])
    BY <1>23, BusyFacts DEF RetryBroadcast, At
  <2>2. Holds(w, "retry")
    BY <2>1, StepItems DEF Holds
  <2> QED
    BY <1>23, <2>1, <2>2, GotoMoves DEF RetryBroadcast, At, Holds, StepsOf, Items
<1>24. ASSUME UpsertRetries(w)
     PROVE  /\ DeliveriesOK' /\ OneHolder'
            /\ Holds(w, "retry") /\ At(w, "save_retries")
            /\ Freed(w, "acked")
  <2>1. /\ work[w].pc = "save_retries" /\ work[w].pc # "idle"
        /\ work[w].slot[1] \in Items /\ work[w].pc \in StepsOf(work[w].slot[1])
    BY <1>24, BusyFacts DEF UpsertRetries, At
  <2>2. Holds(w, "retry")
    BY <2>1, StepItems DEF Holds
  <2> QED
    BY <1>24, <2>1, <2>2, AckFrees DEF UpsertRetries, At
<1>25. ASSUME CallFails(w)
     PROVE  /\ DeliveriesOK' /\ OneHolder'
            /\ Freed(w, "queued")
  <2>1. work[w].pc # "idle"
    BY <1>25 DEF CallFails, FallibleSteps
  <2> QED
    BY <1>25, <2>1, RepublishFrees DEF CallFails
<1>26. ASSUME WorkerStops(w)
     PROVE  /\ DeliveriesOK' /\ OneHolder'
            /\ Freed(w, "queued")
  <2>1. work[w].pc # "idle"
    <3>1. work[w].slot[1] \in Items /\ work[w].pc \in StepsOf(work[w].slot[1])
      BY <1>26 DEF WorkerStops, DeliveriesOK, Slots
    <3> QED
      BY <3>1, StepItems
  <2>2. "queued" \in Places
    BY DEF Places
  <2> QED
    BY <1>26, <2>1, <2>2, PutDown DEF WorkerStops
<1>27. ASSUME ReadRetries(w)
      PROVE /\ DeliveriesOK' /\ OneHolder'
            /\ Holds(w, "retry") /\ At(w, "read_retries")
            /\ \/ Freed(w, "queued") /\ retries >= MAX_TASK_RETRIES
               \/ /\ ~(retries >= MAX_TASK_RETRIES) /\ UNCHANGED at
                  /\ work'[w] = [slot |-> work[w].slot, pc |-> "retry_cast", read |-> retries]
                  /\ \A v \in Workers \ {w} : work'[v] = work[v]
  <2>1. /\ work[w].pc = "read_retries" /\ work[w].pc # "idle"
        /\ work[w].slot[1] \in Items /\ work[w].pc \in StepsOf(work[w].slot[1])
    BY <1>27, BusyFacts DEF ReadRetries, At
  <2>2. Holds(w, "retry")
    BY <2>1, StepItems DEF Holds
  <2>3. CASE retries >= MAX_TASK_RETRIES
    BY <1>27, <2>1, <2>2, <2>3, RepublishFrees DEF ReadRetries, At
  <2>4. CASE ~(retries >= MAX_TASK_RETRIES)
    <3>1. /\ UNCHANGED at
          /\ work'[w] = [slot |-> work[w].slot, pc |-> "retry_cast", read |-> retries]
          /\ \A v \in Workers \ {w} : work'[v] = work[v]
      BY <1>27, <2>4 DEF ReadRetries, DeliveriesOK
    <3>2. "retry_cast" \in StepsOf(work[w].slot[1]) /\ "retry_cast" \in Steps
      BY <2>1, <2>2, StepItems DEF Holds, StepsOf, Items
    <3>3. work' \in [Workers -> [slot : Slots \cup {NoSlot}, pc : Steps, read : Nat]]
      BY <1>27, <2>4, <3>2, IngestorAssumption DEF ReadRetries, DeliveriesOK, RecordsOK
    <3>4. work[w].slot \in Slots /\ work[w] # Idle
      BY <2>1, BusyFacts
    <3>5. DeliveriesOK'
      <4>1. \A v \in Workers : \/ work'[v] = Idle
                               \/ work'[v].slot \in Slots /\ work'[v].pc \in StepsOf(work'[v].slot[1])
        BY <3>1, <3>2, <3>4 DEF DeliveriesOK
      <4> QED
        BY <3>1, <3>3, <4>1 DEF DeliveriesOK
    <3>6. OneHolder'
      <4>1. work'[w].slot = work[w].slot
        BY <3>1
      <4>2. \A v \in Workers : work'[v].slot = work[v].slot
        BY <3>1, <4>1
      <4> QED
        BY <3>1, <3>4, <4>2 DEF OneHolder
    <3> QED
      BY <2>1, <2>2, <2>4, <3>1, <3>5, <3>6 DEF At
  <2> QED
    BY <2>2, <2>3, <2>4
<1>28. ASSUME Deliver(w)
      PROVE  DeliveriesOK' /\ OneHolder'
  BY <1>28, DeliverTakes
<1> QED
  BY <1>1, <1>2, <1>3, <1>4, <1>5, <1>6, <1>7, <1>8, <1>9, <1>10, <1>11, <1>12, <1>13, <1>14,
     <1>15, <1>16, <1>17, <1>18, <1>19, <1>20, <1>21, <1>22, <1>23, <1>24, <1>25, <1>26, <1>27,
     <1>28
     DEF WorkerStep

\* Records are only added to, and the followed subject stays.
Grows ==
    /\ UNCHANGED subject
    /\ axelar \subseteq axelar' /\ gaveUp \subseteq gaveUp' /\ uncounted \subseteq uncounted'
    /\ disturbances <= disturbances'
    /\ row # NoRow => row' # NoRow

\* A step that tells Axelar something, or fails to.
LEMMA RecordsTold ==
    ASSUME RecordsOK, UNCHANGED <<subject, row, quorum, retryVars>>,
           axelar \subseteq axelar', axelar' \subseteq Facts,
           UNCHANGED disturbances \/ Disturbance,
           gaveUp' \in {gaveUp, gaveUp \cup {"refused"}, gaveUp \cup {"timeout"}}
    PROVE  RecordsOK' /\ Grows
<1>1. disturbances' \in 0..MaxDisturbances /\ disturbances <= disturbances'
  BY IngestorAssumption DEF RecordsOK, Disturbance
<1>2. /\ gaveUp \subseteq gaveUp'
      /\ gaveUp' \subseteq {"payload_error", "refused", "timeout", "no_quorum"}
  BY DEF RecordsOK
<1> QED
  BY <1>1, <1>2 DEF RecordsOK, Grows, subject, retryVars

\* What each step does to the records.
LEMMA StepRecords ==
    ASSUME DeliveriesOK, RecordsOK, RetriesCounted, IngestorNext
    PROVE  RecordsOK' /\ Grows
<1> USE IngestorAssumption DEF RecordsOK, Grows, subject, retryVars
<1>1. ASSUME NEW w \in Workers, Deliver(w)
      PROVE  RecordsOK' /\ Grows
  BY <1>1 DEF Deliver
<1>2. ASSUME NEW w \in Workers, FindRow(w)
      PROVE  RecordsOK' /\ Grows
  BY <1>2 DEF FindRow
<1>3. ASSUME NEW w \in Workers, UpsertRow(w)
      PROVE  RecordsOK' /\ Grows
  BY <1>3 DEF UpsertRow, FreshRow, NoRow, Statuses
<1>4. ASSUME NEW w \in Workers, Skip(w)
      PROVE  RecordsOK' /\ Grows
  BY <1>4 DEF Skip
<1>5. ASSUME NEW w \in Workers, BuildFails(w)
      PROVE  RecordsOK' /\ Grows
  <2>1. /\ UNCHANGED <<subject, row, axelar, quorum, retryVars>>
        /\ \/ UNCHANGED <<gaveUp, disturbances>>
           \/ Disturbance /\ gaveUp' = gaveUp \cup {"payload_error"}
    BY <1>5 DEF BuildFails
  <2>2. disturbances' \in 0..MaxDisturbances /\ disturbances <= disturbances'
    BY <2>1 DEF Disturbance
  <2>3. /\ gaveUp \subseteq gaveUp'
        /\ gaveUp' \subseteq {"payload_error", "refused", "timeout", "no_quorum"}
    BY <2>1
  <2> QED
    BY <2>1, <2>2, <2>3
<1>6. ASSUME NEW w \in Workers, BuildMessage(w)
      PROVE  RecordsOK' /\ Grows
  BY <1>6 DEF BuildMessage
<1>7. ASSUME NEW w \in Workers, TranslateMessage(w)
      PROVE  RecordsOK' /\ Grows
  BY <1>7 DEF TranslateMessage
<1>8. ASSUME NEW w \in Workers, SetInitialized(w)
      PROVE  RecordsOK' /\ Grows
  BY <1>8 DEF SetInitialized, SetStatus, NoRow, Statuses
<1>9. ASSUME NEW w \in Workers, MakeEvents(w)
      PROVE  RecordsOK' /\ Grows
  BY <1>9 DEF MakeEvents, Republish, Goto, Enqueue
<1>10. ASSUME NEW w \in Workers, PostEvents(w)
      PROVE  RecordsOK' /\ Grows
  <2>1. /\ UNCHANGED <<subject, row, quorum, retryVars>>
        /\ axelar \subseteq axelar' /\ axelar' \subseteq Facts
        /\ UNCHANGED disturbances \/ Disturbance
        /\ gaveUp' \in {gaveUp, gaveUp \cup {"refused"}, gaveUp \cup {"timeout"}}
    BY <1>10 DEF PostEvents, Republish, Events, Facts, EventNames
  <2> QED
    BY <2>1, RecordsTold
<1>11. ASSUME NEW w \in Workers, ProverTx(w)
      PROVE  RecordsOK' /\ Grows
  BY <1>11 DEF ProverTx, Republish, Goto, Enqueue
<1>12. ASSUME NEW w \in Workers, VerifyBroadcast(w)
      PROVE  RecordsOK' /\ Grows
  <2>1. /\ UNCHANGED <<subject, row, quorum, retryVars>>
        /\ axelar \subseteq axelar' /\ axelar' \subseteq Facts
        /\ UNCHANGED disturbances \/ Disturbance
        /\ gaveUp' \in {gaveUp, gaveUp \cup {"refused"}, gaveUp \cup {"timeout"}}
    BY <1>12 DEF VerifyBroadcast, Broadcast, Facts
  <2> QED
    BY <2>1, RecordsTold
<1>13. ASSUME NEW w \in Workers, UpdateVerifyTx(w)
      PROVE  RecordsOK' /\ Grows
  BY <1>13 DEF UpdateVerifyTx, SetColumn, NoRow, Columns
<1>14. ASSUME NEW w \in Workers, UpdateVerifyTask(w)
      PROVE  RecordsOK' /\ Grows
  BY <1>14 DEF UpdateVerifyTask, SetColumn, NoRow, Columns
<1>15. ASSUME NEW w \in Workers, UpdateQuorumReachedTask(w)
      PROVE  RecordsOK' /\ Grows
  BY <1>15 DEF UpdateQuorumReachedTask, SetColumn, NoRow, Columns
<1>16. ASSUME NEW w \in Workers, SetVerified(w)
      PROVE  RecordsOK' /\ Grows
  BY <1>16 DEF SetVerified, SetStatus, NoRow, Statuses
<1>17. ASSUME NEW w \in Workers, ConfirmBroadcast(w)
      PROVE  RecordsOK' /\ Grows
  <2>1. /\ UNCHANGED <<subject, row, quorum, retryVars>>
        /\ axelar \subseteq axelar' /\ axelar' \subseteq Facts
        /\ UNCHANGED disturbances \/ Disturbance
        /\ gaveUp' \in {gaveUp, gaveUp \cup {"refused"}, gaveUp \cup {"timeout"}}
    BY <1>17 DEF ConfirmBroadcast, Broadcast, Facts
  <2> QED
    BY <2>1, RecordsTold
<1>18. ASSUME NEW w \in Workers, UpdateRouteTx(w)
      PROVE  RecordsOK' /\ Grows
  BY <1>18 DEF UpdateRouteTx, SetColumn, NoRow, Columns
<1>19. ASSUME NEW w \in Workers, SetRouted(w)
      PROVE  RecordsOK' /\ Grows
  BY <1>19 DEF SetRouted, SetStatus, NoRow, Statuses
<1>20. ASSUME NEW w \in Workers, ReportExecuted(w)
      PROVE  RecordsOK' /\ Grows
  <2>1. /\ UNCHANGED <<subject, row, quorum, retryVars, gaveUp, disturbances>>
        /\ axelar' \in {axelar, axelar \cup {"MESSAGE_EXECUTED"}}
    BY <1>20 DEF ReportExecuted, Republish
  <2> QED
    BY <2>1 DEF Facts, EventNames
<1>21. ASSUME NEW w \in Workers, StorePayload(w)
      PROVE  RecordsOK' /\ Grows
  BY <1>21 DEF StorePayload
<1>22. ASSUME NEW w \in Workers, ConstructProof(w)
      PROVE  RecordsOK' /\ Grows
  <2>1. /\ UNCHANGED <<subject, row, quorum, retryVars>>
        /\ axelar \subseteq axelar' /\ axelar' \subseteq Facts
        /\ UNCHANGED disturbances \/ Disturbance
        /\ gaveUp' \in {gaveUp, gaveUp \cup {"refused"}, gaveUp \cup {"timeout"}}
    BY <1>22 DEF ConstructProof, Broadcast, Facts
  <2> QED
    BY <2>1, RecordsTold
<1>23. ASSUME NEW w \in Workers, CannotExecute(w)
      PROVE  RecordsOK' /\ Grows
  BY <1>23 DEF CannotExecute, Facts, EventNames
<1>24. ASSUME NEW w \in Workers, ReadRetries(w)
      PROVE  RecordsOK' /\ Grows
  BY <1>24 DEF ReadRetries, Republish
<1>25. ASSUME NEW w \in Workers, RetryBroadcast(w)
      PROVE  RecordsOK' /\ Grows
  BY <1>25 DEF RetryBroadcast
<1>26. ASSUME NEW w \in Workers, UpsertRetries(w)
      PROVE  RecordsOK' /\ Grows
  BY <1>26 DEF UpsertRetries, At, RetryInHand, RetriesCounted, DeliveriesOK
<1>27. ASSUME NEW w \in Workers, CallFails(w)
      PROVE  RecordsOK' /\ Grows
  BY <1>27 DEF CallFails, Disturbance, Republish, Effect, Facts, EventNames
<1>28. ASSUME NEW w \in Workers, WorkerStops(w)
      PROVE  RecordsOK' /\ Grows
  BY <1>28 DEF WorkerStops, Disturbance
<1>29. ASSUME AxelarStep
      PROVE  RecordsOK' /\ Grows
  <2>1. /\ UNCHANGED <<subject, row, axelar, retryVars, gaveUp, disturbances>>
        /\ quorum' \in {quorum, "succeeded", "failed", "other"}
    BY <1>29 DEF AxelarStep, IssueTask, IssueRetry
  <2> QED
    BY <2>1
<1>30. ASSUME NEW item \in Items \ {"tx", "retry"}, Duplicate(item)
      PROVE  RecordsOK' /\ Grows
  BY <1>30 DEF Duplicate, Disturbance
<1> QED
  BY <1>1, <1>2, <1>3, <1>4, <1>5, <1>6, <1>7, <1>8, <1>9, <1>10, <1>11, <1>12, <1>13, <1>14,
     <1>15, <1>16, <1>17, <1>18, <1>19, <1>20, <1>21, <1>22, <1>23, <1>24, <1>25, <1>26, <1>27,
     <1>28, <1>29, <1>30
     DEF IngestorNext, WorkerStep
-----------------------------------------------------------------------------
(***************************************************************************)
(* The ingestor: what keeps each part of the invariant.                    *)
(***************************************************************************)
OthersKept(w) == \A v \in Workers \ {w} : work'[v] = work[v]
SameAbsent == \A slot \in Slots : at'[slot] = "absent" <=> at[slot] = "absent"
NoneAcked == \A slot \in Slots : at'[slot] = "acked" => at[slot] = "acked"

\* A worker that moves on or puts its item down brings nothing to the queue.
LEMMA MoveKeeps ==
    ASSUME DeliveriesOK, OneHolder, NEW w \in Workers, work[w].pc # "idle"
    PROVE  /\ \A pc : Moved(w, pc) => OthersKept(w) /\ SameAbsent /\ NoneAcked
           /\ Freed(w, "queued") => OthersKept(w) /\ SameAbsent /\ NoneAcked
           /\ Freed(w, "acked") => OthersKept(w) /\ SameAbsent
<1>1. work[w].slot \in Slots /\ at[work[w].slot] = "worker"
  BY BusyFacts DEF OneHolder
<1> QED
  BY <1>1 DEF Moved, Freed, OthersKept, SameAbsent, NoneAcked

\* Copies stay in circulation.
LEMMA OneCopyBefore ==
    ASSUME \A slot \in Slots : at'[slot] = "absent" => at[slot] = "absent", OneCopy'
    PROVE  OneCopy
<1>1. \A c \in Copies : <<"tx", c>> \in Slots
  BY DEF Slots, Items
<1> QED
  BY <1>1 DEF OneCopy

LEMMA TasksKept ==
    ASSUME TasksFollowFacts, Grows, SameAbsent
    PROVE  TasksFollowFacts'
<1>1. \A c \in Copies : <<"verify", c>> \in Slots /\ <<"quorum", c>> \in Slots
  BY DEF Slots, Items
<1> QED
  BY <1>1 DEF TasksFollowFacts, Grows, SameAbsent

\* The Amplifier's tasks are in work only for a transaction that has its row.
LEMMA TaskHasRow ==
    ASSUME DeliveriesOK, OneHolder, TasksFollowFacts, RowBeforeFacts, NEW w \in Workers,
           work[w].pc # "idle", Holds(w, "verify") \/ Holds(w, "quorum")
    PROVE  row # NoRow
<1>1. work[w].slot \in Slots /\ at[work[w].slot] = "worker"
  BY BusyFacts DEF OneHolder
<1>2. PICK c \in Copies : work[w].slot \in {<<"verify", c>>, <<"quorum", c>>}
  BY <1>1 DEF Holds, Slots
<1> QED
  BY <1>1, <1>2 DEF TasksFollowFacts, RowBeforeFacts

LEMMA RetriesKept ==
    ASSUME RetriesCounted, NEW w \in Workers, OthersKept(w), UNCHANGED retryVars,
           ~RetryInHand(w), ~RetryInHand(w)'
    PROVE  RetriesCounted'
<1>1. \A v \in Workers : RetryInHand(v)' => RetryInHand(v) /\ work'[v] = work[v]
  BY DEF RetryInHand, OthersKept
<1>2. ASSUME NEW v \in Workers
      PROVE  At(v, "save_retries")' <=> At(v, "save_retries")
  BY <1>2 DEF OthersKept, At, RetryInHand
<1>3. (\E v \in Workers : At(v, "save_retries"))' <=> (\E v \in Workers : At(v, "save_retries"))
  BY <1>2
<1>4. retries' = retries /\ casts' = casts /\ uncounted' = uncounted
  BY DEF retryVars
<1>5. \A v \in Workers : RetryInHand(v)' => work'[v].read < MAX_TASK_RETRIES
  BY <1>1 DEF RetriesCounted
<1>6. ASSUME uncounted = {}
      PROVE  /\ \A u, v \in Workers : RetryInHand(u)' /\ RetryInHand(v)' => u = v
             /\ \A v \in Workers : RetryInHand(v)' => work'[v].read = retries'
             /\ casts' = retries' + (IF \E v \in Workers : At(v, "save_retries")' THEN 1 ELSE 0)
  BY <1>1, <1>3, <1>4, <1>6 DEF RetriesCounted
<1> QED
  BY <1>4, <1>5, <1>6 DEF RetriesCounted

\* A row is not taken back and loses no column.
RowGrows == (row' = NoRow <=> row = NoRow) /\ row.set \subseteq row'.set

\* A row is made Routed when it is complete.
RoutedNow ==
    row'.status = "Routed" =>
        \/ row.status = "Routed"
        \/ OneCopy => {"quorum_reached_task", "route_tx"} \subseteq row'.set

\* What Axelar is told now concerns a transaction that has its row.
FactsHaveRow ==
    ("CALL" \in axelar' \/ "verified" \in axelar') =>
        ("CALL" \in axelar \/ "verified" \in axelar \/ row # NoRow)

\* The next step of a worker comes when the row is ready for it.
RowIsReady(w) ==
    /\ work'[w].slot[1] = "tx" /\ work'[w].pc \notin {"find", "upsert", "skip"} => row # NoRow
    /\ work'[w].pc = "upsert" => row = NoRow
    /\ OneCopy => /\ work'[w].pc \in {"verified", "confirm", "route_tx", "routed"}
                        => "quorum_reached_task" \in row'.set
                  /\ work'[w].pc = "routed" => "route_tx" \in row'.set

LEMMA RowsKept ==
    ASSUME RowInv, NEW w \in Workers, OthersKept(w), OneCopy' => OneCopy,
           RowGrows, RoutedNow, FactsHaveRow, RowIsReady(w)
    PROVE  RowInv'
<1> USE DEF RowInv, RoutedNow, FactsHaveRow, RowIsReady
<1>1. RowBeforeFacts'
  BY DEF RowBeforeFacts, RowGrows
<1>2. RowBeforeSteps'
  BY DEF RowBeforeSteps, RowGrows, OthersKept, Holds
<1>3. UpsertIsFirst'
  BY DEF UpsertIsFirst, RowGrows, OthersKept, At
<1>4. QuorumColumns'
  BY DEF QuorumColumns, RowGrows, OthersKept, At
<1>5. RoutedRowComplete'
  BY DEF RoutedRowComplete, RowGrows
<1> QED
  BY <1>1, <1>2, <1>3, <1>4, <1>5

LEMMA SameRow ==
    ASSUME UNCHANGED row
    PROVE  RowGrows /\ RoutedNow
BY DEF RowGrows, RoutedNow

LEMMA ColumnAdded ==
    ASSUME RecordsOK, NEW c, SetColumn(c)
    PROVE  RowGrows /\ RoutedNow /\ (row # NoRow => c \in row'.set)
BY DEF RecordsOK, SetColumn, RowGrows, RoutedNow, NoRow, Statuses

LEMMA StatusSet ==
    ASSUME RecordsOK, NEW s \in {"Initialized", "Verified", "Routed"}, SetStatus(s)
    PROVE  RowGrows /\ row'.set = row.set /\ (s # "Routed" => RoutedNow)
BY DEF RecordsOK, SetStatus, RowGrows, RoutedNow, NoRow, Statuses

LEMMA FreedIsReady ==
    ASSUME NEW w \in Workers, NEW place, Freed(w, place)
    PROVE  RowIsReady(w)
BY IdleFacts DEF Freed, RowIsReady

\* The steps of the transaction's worker fit the transaction, and so do the
\* events it posts.
StepFits(w) ==
    work'[w].slot[1] = "tx" =>
        /\ work'[w].pc = "skip" => Route(tx) # "payment"
        /\ work'[w].pc = "prover" => Route(tx) = "prover"
        /\ work'[w].pc \in {"build", "translate", "initialized", "events", "post_events"}
              => Route(tx) = "payment"
        /\ work'[w].pc \in {"translate", "initialized", "events", "post_events"} => Builds(tx)
        /\ work'[w].pc \in {"translate", "initialized"} => tx.message \in GmpMessages
        /\ work'[w].pc \in {"verify_cast", "verify_tx"} /\ Route(tx) # "prover"
              => Route(tx) = "payment" /\ Builds(tx) /\ tx.message \in {"add_gas", "add_reserves"}

LEMMA StepsKept ==
    ASSUME StepsOfPayment, NEW w \in Workers, OthersKept(w), UNCHANGED subject, StepFits(w)
    PROVE  StepsOfPayment'
<1>1. tx' = tx
  BY DEF subject
<1> QED
  BY <1>1 DEF StepsOfPayment, StepFits, OthersKept, Holds, At

\* Tasks that were answered stay answered; the one that is acknowledged now is.
LEMMA AnswersKept ==
    ASSUME Answered, Grows, NoneAcked
    PROVE  Answered'
<1>1. tx' = tx /\ flow' = flow
  BY DEF Grows, subject
<1>2. \A item \in Items : Finished(item)' => Finished(item)
  BY DEF NoneAcked, Finished, Slots
<1>3. ExecutedReported'
  BY <1>1, <1>2 DEF Answered, ExecutedReported, Grows, Items
<1>4. ProofAnswered'
  BY <1>1, <1>2 DEF Answered, ProofAnswered, Grows, Items
<1> QED
  BY <1>3, <1>4 DEF Answered

LEMMA AnswersAdded ==
    ASSUME DeliveriesOK, Answered, Grows, NEW w \in Workers, Freed(w, "acked"),
           Holds(w, "quorum") =>
               ("no_quorum" \in gaveUp' \/ (IsProverPayment(tx) => "MESSAGE_EXECUTED" \in axelar')),
           Holds(w, "proof") =>
               ("timeout" \in gaveUp' \/ "proof_built" \in axelar' \/ "CANNOT_EXECUTE" \in axelar')
    PROVE  Answered'
<1>1. tx' = tx /\ flow' = flow
  BY DEF Grows, subject
<1>2. ASSUME NEW item \in Items, Finished(item)', ~Finished(item)
      PROVE  Holds(w, item)
  <2>1. PICK c \in Copies : at'[<<item, c>>] = "acked"
    BY <1>2 DEF Finished
  <2>2. <<item, c>> \in Slots /\ at[<<item, c>>] # "acked"
    BY <1>2 DEF Finished, Slots
  <2>3. work[w].slot = <<item, c>>
    BY <2>1, <2>2 DEF Freed
  <2> QED
    BY <2>3 DEF Holds
<1>3. ExecutedReported'
  BY <1>1, <1>2 DEF Answered, ExecutedReported, Grows, Items
<1>4. ProofAnswered'
  BY <1>1, <1>2 DEF Answered, ProofAnswered, Grows, Items
<1> QED
  BY <1>3, <1>4 DEF Answered

IngestorParts ==
    /\ IngestorTypeOK /\ OneHolder
    /\ TasksFollowFacts /\ RowInv /\ StepsOfPayment /\ Answered
    /\ RetriesCounted

LEMMA WorkerKeeps ==
    ASSUME IngestorParts, NEW w \in Workers, WorkerStep(w) \/ CallFails(w) \/ WorkerStops(w)
    PROVE  IngestorParts'
<1> USE DEF IngestorParts, IngestorTypeOK
<1>a. DeliveriesOK' /\ OneHolder' /\ RecordsOK' /\ Grows
  BY StepMoves, StepRecords DEF IngestorNext
<1>b. tx' = tx /\ flow' = flow
  BY <1>a DEF Grows, subject
<1>1. CASE Deliver(w)
  <2>1. PICK slot \in Slots :
          /\ at[slot] = "queued" /\ at'[slot] = "worker"
          /\ \A s \in Slots \ {slot} : at'[s] = at[s]
          /\ work'[w].slot = slot /\ work'[w].pc \in FirstSteps(slot[1])
    BY <1>1, DeliverTakes
  <2>2. OthersKept(w) /\ SameAbsent /\ NoneAcked
    BY <1>1, <2>1, DeliverTakes DEF OthersKept, SameAbsent, NoneAcked
  <2>3. /\ work[w].pc = "idle"
        /\ UNCHANGED <<subject, row, axelar, quorum, retryVars, gaveUp, disturbances>>
    BY <1>1, IdleFacts DEF Deliver
  <2>4. /\ work'[w].pc \in {"find", "skip", "verify_task", "quorum_task", "store_payload", "read_retries"}
        /\ work'[w].slot[1] = "tx" =>
              /\ work'[w].pc \in {"find", "skip"}
              /\ work'[w].pc = "skip" => tx.type \notin RecordedTypes
    BY <2>1 DEF FirstSteps, RetrySteps, Slots, Items
  <2>5. RetriesCounted'
    BY <2>2, <2>3, <2>4, RetriesKept DEF RetryInHand
  <2>6. RowInv'
    <3>1. OneCopy' => OneCopy
      BY <2>2, OneCopyBefore DEF SameAbsent
    <3>2. RowGrows /\ RoutedNow /\ FactsHaveRow
      BY <2>3, SameRow DEF FactsHaveRow
    <3>3. RowIsReady(w)
      BY <2>4 DEF RowIsReady
    <3> QED
      BY <2>2, <3>1, <3>2, <3>3, RowsKept
  <2>7. StepsOfPayment'
    <3>1. tx.type \notin RecordedTypes => Route(tx) # "payment"
      BY DEF Route, RecordedTypes
    <3>2. StepFits(w)
      BY <2>4, <3>1 DEF StepFits
    <3> QED
      BY <2>2, <2>3, <3>2, StepsKept
  <2>8. Answered'
    BY <1>a, <2>2, AnswersKept
  <2> QED
    BY <1>a, <2>2, <2>5, <2>6, <2>7, <2>8, TasksKept
<1>2. CASE FindRow(w)
  <2>1. /\ Holds(w, "tx") /\ At(w, "find")
        /\ Moved(w, IF row = NoRow THEN "upsert" ELSE AfterRow)
    BY <1>2, StepMoves
  <2>2. work[w].pc # "idle"
    BY <2>1 DEF At
  <2>3. OthersKept(w) /\ SameAbsent
    BY <2>1, <2>2, MoveKeeps
  <2>4. RetriesCounted'
    BY <1>2, <2>1, <2>3, RetriesKept, IdleFacts DEF FindRow, RetryInHand, At, Moved, Freed, AfterRow
  <2>5. RowInv'
    <3>1. OneCopy' => OneCopy
      BY <2>3, OneCopyBefore DEF SameAbsent
    <3>2. RowGrows /\ RoutedNow
      BY <1>2, SameRow DEF FindRow
    <3>3. FactsHaveRow
      BY <1>2 DEF FindRow, FactsHaveRow
    <3>4. RowIsReady(w)
      BY <2>1 DEF RowIsReady, Moved, AfterRow
    <3> QED
      BY <2>3, <3>1, <3>2, <3>3, <3>4, RowsKept
  <2>6. StepsOfPayment'
    BY <1>a, <2>1, <2>3, StepsKept, IdleFacts
       DEF AfterRow, StepFits, StepsOfPayment, Grows, At, Holds, Moved, Freed
  <2>7. Answered'
    BY <1>a, <2>1, <2>2, AnswersKept, MoveKeeps
  <2> QED
    BY <1>a, <2>3, <2>4, <2>5, <2>6, <2>7, TasksKept
<1>3. CASE UpsertRow(w)
  <2>1. Holds(w, "tx") /\ At(w, "upsert") /\ Moved(w, AfterRow)
    BY <1>3, StepMoves
  <2>2. work[w].pc # "idle" /\ work[w].slot \in Slots /\ at[work[w].slot] = "worker"
    BY <2>1, BusyFacts DEF At, OneHolder
  <2>3. OthersKept(w) /\ SameAbsent
    BY <2>1, <2>2, MoveKeeps
  <2>4. RetriesCounted'
    BY <1>3, <2>1, <2>3, RetriesKept DEF UpsertRow, RetryInHand, At, Moved, AfterRow
  <2>5. RowInv'
    <3>1. row' = FreshRow /\ FreshRow # NoRow /\ row'.status = "Detected"
      BY <1>3 DEF UpsertRow, FreshRow, NoRow
    <3>2. work'[w].pc \in {"build", "prover", "skip"}
      BY <2>1 DEF Moved, AfterRow
    <3>3. ASSUME OneCopy', NEW v \in Workers, v # w
          PROVE  /\ work'[v].pc # "upsert"
                 /\ work'[v].pc \notin {"verified", "confirm", "route_tx", "routed"}
      <4>1. OneCopy /\ work'[v] = work[v]
        BY <2>3, <3>3, OneCopyBefore DEF SameAbsent, OthersKept
      <4>2. row = NoRow
        BY <2>1, <4>1 DEF RowInv, UpsertIsFirst
      <4>3. ASSUME work[v].pc = "upsert"
            PROVE  FALSE
        <5>1. /\ work[v].slot \in Slots /\ work[v].slot[1] = "tx"
              /\ at[work[v].slot] = "worker" /\ work[v] # Idle
          BY <4>3, BusyFacts, StepItems DEF OneHolder
        <5>2. work[v].slot = <<"tx", 1>> /\ work[w].slot = <<"tx", 1>>
          BY <2>1, <2>2, <4>1, <5>1 DEF OneCopy, Holds, Slots
        <5> QED
          BY <2>2, <3>3, <5>1, <5>2 DEF OneHolder
      <4>4. ASSUME work[v].pc \in {"verified", "confirm", "route_tx", "routed"}
            PROVE  FALSE
        <5>1. Holds(v, "quorum") /\ work[v].pc # "idle"
          BY <4>4, BusyFacts, StepItems DEF Holds
        <5> QED
          BY <4>2, <5>1, TaskHasRow DEF RowInv
      <4> QED
        BY <4>1, <4>3, <4>4
    <3>4. RowBeforeFacts' /\ RowBeforeSteps'
      BY <3>1 DEF RowBeforeFacts, RowBeforeSteps
    <3>5. UpsertIsFirst' /\ QuorumColumns'
      BY <3>2, <3>3 DEF UpsertIsFirst, QuorumColumns, At
    <3>6. RoutedRowComplete'
      BY <3>1 DEF RoutedRowComplete
    <3> QED
      BY <3>4, <3>5, <3>6 DEF RowInv
  <2>6. StepsOfPayment'
    BY <1>a, <2>1, <2>3, StepsKept DEF AfterRow, StepFits, Grows, Holds, Moved
  <2>7. Answered'
    BY <1>a, <2>1, <2>2, AnswersKept, MoveKeeps
  <2> QED
    BY <1>a, <2>3, <2>4, <2>5, <2>6, <2>7, TasksKept
<1>4. CASE Skip(w)
  <2>1. /\ work[w].slot[1] \in {"tx", "retry"} /\ At(w, "skip")
        /\ Freed(w, "acked")
    BY <1>4, StepMoves
  <2>2. work[w].pc # "idle"
    BY <2>1 DEF At
  <2>3. OthersKept(w) /\ SameAbsent
    BY <2>1, <2>2, MoveKeeps
  <2>4. RetriesCounted'
    BY <1>4, <2>1, <2>3, RetriesKept, IdleFacts DEF Skip, RetryInHand, At, Moved, Freed
  <2>5. RowInv'
    <3>1. OneCopy' => OneCopy
      BY <2>3, OneCopyBefore DEF SameAbsent
    <3>2. RowGrows /\ RoutedNow
      BY <1>4, SameRow DEF Skip
    <3>3. FactsHaveRow
      BY <1>4 DEF Skip, FactsHaveRow
    <3>4. RowIsReady(w)
      BY <2>1, FreedIsReady
    <3> QED
      BY <2>3, <3>1, <3>2, <3>3, <3>4, RowsKept
  <2>6. StepsOfPayment'
    BY <1>a, <2>1, <2>3, StepsKept, IdleFacts
       DEF StepFits, StepsOfPayment, Grows, At, Holds, Moved, Freed
  <2>7. Answered'
    BY <1>a, <2>1, <2>2, AnswersKept, AnswersAdded, MoveKeeps DEF Holds
  <2> QED
    BY <1>a, <2>3, <2>4, <2>5, <2>6, <2>7, TasksKept
<1>5. CASE BuildFails(w)
  <2>1. /\ Holds(w, "tx") /\ At(w, "build")
        /\ Freed(w, "acked")
    BY <1>5, StepMoves
  <2>2. work[w].pc # "idle"
    BY <2>1 DEF At
  <2>3. OthersKept(w) /\ SameAbsent
    BY <2>1, <2>2, MoveKeeps
  <2>4. RetriesCounted'
    BY <1>5, <2>1, <2>3, RetriesKept, IdleFacts DEF BuildFails, RetryInHand, At, Moved, Freed
  <2>5. RowInv'
    <3>1. OneCopy' => OneCopy
      BY <2>3, OneCopyBefore DEF SameAbsent
    <3>2. RowGrows /\ RoutedNow
      BY <1>5, SameRow DEF BuildFails
    <3>3. FactsHaveRow
      BY <1>5 DEF BuildFails, FactsHaveRow
    <3>4. RowIsReady(w)
      BY <2>1, FreedIsReady
    <3> QED
      BY <2>3, <3>1, <3>2, <3>3, <3>4, RowsKept
  <2>6. StepsOfPayment'
    BY <1>a, <2>1, <2>3, StepsKept, IdleFacts
       DEF StepFits, StepsOfPayment, Grows, At, Holds, Moved, Freed
  <2>7. Answered'
    BY <1>a, <2>1, <2>2, AnswersKept, AnswersAdded, MoveKeeps DEF Holds
  <2> QED
    BY <1>a, <2>3, <2>4, <2>5, <2>6, <2>7, TasksKept
<1>6. CASE BuildMessage(w)
  <2>1. /\ Holds(w, "tx") /\ At(w, "build")
        /\ \/ Moved(w, "translate") /\ tx.message \in GmpMessages
           \/ Moved(w, "events") /\ tx.message = "add_gas"
           \/ Moved(w, "verify_cast") /\ tx.message = "add_reserves"
    BY <1>6, StepMoves
  <2>2. work[w].pc # "idle"
    BY <2>1 DEF At
  <2>3. OthersKept(w) /\ SameAbsent
    BY <2>1, <2>2, MoveKeeps
  <2>4. RetriesCounted'
    BY <1>6, <2>1, <2>3, RetriesKept, IdleFacts DEF BuildMessage, RetryInHand, At, Moved, Freed
  <2>5. RowInv'
    <3>1. OneCopy' => OneCopy
      BY <2>3, OneCopyBefore DEF SameAbsent
    <3>2. RowGrows /\ RoutedNow
      BY <1>6, SameRow DEF BuildMessage
    <3>3. FactsHaveRow
      BY <1>6 DEF BuildMessage, FactsHaveRow
    <3>4. RowIsReady(w)
      BY <2>1, <3>2
         DEF RowIsReady, Moved, RowInv, RowBeforeSteps, QuorumColumns, RowGrows, At, Holds
    <3> QED
      BY <2>3, <3>1, <3>2, <3>3, <3>4, RowsKept
  <2>6. StepsOfPayment'
    BY <1>6, <1>a, <2>1, <2>3, StepsKept, IdleFacts
       DEF BuildMessage, GmpMessages, StepFits, StepsOfPayment, Grows, At, Holds, Moved, Freed
  <2>7. Answered'
    BY <1>a, <2>1, <2>2, AnswersKept, MoveKeeps
  <2> QED
    BY <1>a, <2>3, <2>4, <2>5, <2>6, <2>7, TasksKept
<1>7. CASE TranslateMessage(w)
  <2>1. /\ Holds(w, "tx") /\ At(w, "translate")
        /\ \/ Moved(w, "initialized") /\ tx.translates
           \/ Freed(w, "acked") /\ ~tx.translates
    BY <1>7, StepMoves
  <2>2. work[w].pc # "idle"
    BY <2>1 DEF At
  <2>3. OthersKept(w) /\ SameAbsent
    BY <2>1, <2>2, MoveKeeps
  <2>4. RetriesCounted'
    BY <1>7, <2>1, <2>3, RetriesKept, IdleFacts DEF TranslateMessage, RetryInHand, At, Moved, Freed
  <2>5. RowInv'
    <3>1. OneCopy' => OneCopy
      BY <2>3, OneCopyBefore DEF SameAbsent
    <3>2. RowGrows /\ RoutedNow
      BY <1>7, SameRow DEF TranslateMessage
    <3>3. FactsHaveRow
      BY <1>7 DEF TranslateMessage, FactsHaveRow
    <3>4. RowIsReady(w)
      BY <2>1, <3>2, FreedIsReady
         DEF RowIsReady, Moved, RowInv, RowBeforeSteps, QuorumColumns, RowGrows, At, Holds
    <3> QED
      BY <2>3, <3>1, <3>2, <3>3, <3>4, RowsKept
  <2>6. StepsOfPayment'
    BY <1>a, <2>1, <2>3, StepsKept, IdleFacts
       DEF StepFits, StepsOfPayment, Grows, At, Holds, Moved, Freed
  <2>7. Answered'
    BY <1>a, <2>1, <2>2, AnswersKept, AnswersAdded, MoveKeeps DEF Holds
  <2> QED
    BY <1>a, <2>3, <2>4, <2>5, <2>6, <2>7, TasksKept
<1>8. CASE SetInitialized(w)
  <2>1. /\ Holds(w, "tx") /\ At(w, "initialized")
        /\ Moved(w, "events")
    BY <1>8, StepMoves
  <2>2. work[w].pc # "idle"
    BY <2>1 DEF At
  <2>3. OthersKept(w) /\ SameAbsent
    BY <2>1, <2>2, MoveKeeps
  <2>4. RetriesCounted'
    BY <1>8, <2>1, <2>3, RetriesKept, IdleFacts DEF SetInitialized, RetryInHand, At, Moved, Freed
  <2>5. RowInv'
    <3>1. OneCopy' => OneCopy
      BY <2>3, OneCopyBefore DEF SameAbsent
    <3>2. RowGrows /\ RoutedNow /\ row'.set = row.set
      BY <1>8, StatusSet DEF SetInitialized
    <3>3. FactsHaveRow
      BY <1>8 DEF SetInitialized, FactsHaveRow
    <3>4. RowIsReady(w)
      BY <2>1, <3>2
         DEF RowIsReady, Moved, RowInv, RowBeforeSteps, QuorumColumns, RowGrows, At, Holds
    <3> QED
      BY <2>3, <3>1, <3>2, <3>3, <3>4, RowsKept
  <2>6. StepsOfPayment'
    BY <1>a, <2>1, <2>3, StepsKept, IdleFacts
       DEF StepFits, StepsOfPayment, Grows, At, Holds, Moved, Freed
  <2>7. Answered'
    BY <1>a, <2>1, <2>2, AnswersKept, MoveKeeps
  <2> QED
    BY <1>a, <2>3, <2>4, <2>5, <2>6, <2>7, TasksKept
<1>9. CASE MakeEvents(w)
  <2>1. /\ Holds(w, "tx") /\ At(w, "events")
        /\ \/ Freed(w, "queued") /\ ~HasPrice(tx)
           \/ Moved(w, "verify_cast") /\ HasPrice(tx) /\ tx.message = "add_gas"
           \/ Moved(w, "post_events") /\ HasPrice(tx) /\ tx.message # "add_gas"
    BY <1>9, StepMoves
  <2>2. work[w].pc # "idle"
    BY <2>1 DEF At
  <2>3. OthersKept(w) /\ SameAbsent
    BY <2>1, <2>2, MoveKeeps
  <2>4. RetriesCounted'
    BY <1>9, <2>1, <2>3, RetriesKept, IdleFacts DEF MakeEvents, RetryInHand, At, Moved, Freed
  <2>5. RowInv'
    <3>1. OneCopy' => OneCopy
      BY <2>3, OneCopyBefore DEF SameAbsent
    <3>2. RowGrows /\ RoutedNow
      BY <1>9, SameRow DEF MakeEvents
    <3>3. FactsHaveRow
      BY <1>9 DEF MakeEvents, FactsHaveRow
    <3>4. RowIsReady(w)
      BY <2>1, <3>2, FreedIsReady
         DEF RowIsReady, Moved, RowInv, RowBeforeSteps, QuorumColumns, RowGrows, At, Holds
    <3> QED
      BY <2>3, <3>1, <3>2, <3>3, <3>4, RowsKept
  <2>6. StepsOfPayment'
    BY <1>a, <2>1, <2>3, StepsKept, IdleFacts
       DEF StepFits, StepsOfPayment, Grows, At, Holds, Moved, Freed
  <2>7. Answered'
    BY <1>a, <2>1, <2>2, AnswersKept, MoveKeeps
  <2> QED
    BY <1>a, <2>3, <2>4, <2>5, <2>6, <2>7, TasksKept
<1>10. CASE PostEvents(w)
  <2>1. /\ Holds(w, "tx") /\ At(w, "post_events")
        /\ \/ Freed(w, "queued")
           \/ Freed(w, "acked")
    BY <1>10, StepMoves
  <2>2. work[w].pc # "idle"
    BY <2>1 DEF At
  <2>3. OthersKept(w) /\ SameAbsent
    BY <2>1, <2>2, MoveKeeps
  <2>4. RetriesCounted'
    BY <1>10, <2>1, <2>3, RetriesKept, IdleFacts DEF PostEvents, RetryInHand, At, Moved, Freed
  <2>5. RowInv'
    <3>1. OneCopy' => OneCopy
      BY <2>3, OneCopyBefore DEF SameAbsent
    <3>2. RowGrows /\ RoutedNow
      BY <1>10, SameRow DEF PostEvents
    <3>3. FactsHaveRow
      BY <2>1 DEF FactsHaveRow, RowInv, RowBeforeSteps, At, Holds
    <3>4. RowIsReady(w)
      BY <2>1, FreedIsReady
    <3> QED
      BY <2>3, <3>1, <3>2, <3>3, <3>4, RowsKept
  <2>6. StepsOfPayment'
    BY <1>a, <2>1, <2>3, StepsKept, IdleFacts
       DEF StepFits, StepsOfPayment, Grows, At, Holds, Moved, Freed
  <2>7. Answered'
    BY <1>a, <2>1, <2>2, AnswersKept, AnswersAdded, MoveKeeps DEF Holds
  <2> QED
    BY <1>a, <2>3, <2>4, <2>5, <2>6, <2>7, TasksKept
<1>11. CASE ProverTx(w)
  <2>1. /\ Holds(w, "tx") /\ At(w, "prover")
        /\ \/ Moved(w, "verify_cast")
           \/ Freed(w, "queued")
    BY <1>11, StepMoves
  <2>2. work[w].pc # "idle"
    BY <2>1 DEF At
  <2>3. OthersKept(w) /\ SameAbsent
    BY <2>1, <2>2, MoveKeeps
  <2>4. RetriesCounted'
    BY <1>11, <2>1, <2>3, RetriesKept, IdleFacts DEF ProverTx, RetryInHand, At, Moved, Freed
  <2>5. RowInv'
    <3>1. OneCopy' => OneCopy
      BY <2>3, OneCopyBefore DEF SameAbsent
    <3>2. RowGrows /\ RoutedNow
      BY <1>11, SameRow DEF ProverTx
    <3>3. FactsHaveRow
      BY <1>11 DEF ProverTx, FactsHaveRow
    <3>4. RowIsReady(w)
      BY <2>1, <3>2, FreedIsReady
         DEF RowIsReady, Moved, RowInv, RowBeforeSteps, QuorumColumns, RowGrows, At, Holds
    <3> QED
      BY <2>3, <3>1, <3>2, <3>3, <3>4, RowsKept
  <2>6. StepsOfPayment'
    BY <1>a, <2>1, <2>3, StepsKept, IdleFacts
       DEF StepFits, StepsOfPayment, Grows, At, Holds, Moved, Freed
  <2>7. Answered'
    BY <1>a, <2>1, <2>2, AnswersKept, MoveKeeps
  <2> QED
    BY <1>a, <2>3, <2>4, <2>5, <2>6, <2>7, TasksKept
<1>12. CASE VerifyBroadcast(w)
  <2>1. /\ work[w].slot[1] \in {"tx", "verify"} /\ At(w, "verify_cast")
        /\ Moved(w, "verify_tx")
    BY <1>12, StepMoves
  <2>2. work[w].pc # "idle"
    BY <2>1 DEF At
  <2>3. OthersKept(w) /\ SameAbsent
    BY <2>1, <2>2, MoveKeeps
  <2>4. RetriesCounted'
    BY <1>12, <2>1, <2>3, RetriesKept, IdleFacts DEF VerifyBroadcast, RetryInHand, At, Moved, Freed
  <2>5. RowInv'
    <3>1. OneCopy' => OneCopy
      BY <2>3, OneCopyBefore DEF SameAbsent
    <3>2. RowGrows /\ RoutedNow
      BY <1>12, SameRow DEF VerifyBroadcast
    <3>3. FactsHaveRow
      <4>1. row # NoRow
        BY <2>1, <2>2, TaskHasRow DEF RowInv, RowBeforeSteps, At, Holds
      <4> QED
        BY <4>1 DEF FactsHaveRow
    <3>4. RowIsReady(w)
      BY <2>1, <3>2
         DEF RowIsReady, Moved, RowInv, RowBeforeSteps, QuorumColumns, RowGrows, At, Holds
    <3> QED
      BY <2>3, <3>1, <3>2, <3>3, <3>4, RowsKept
  <2>6. StepsOfPayment'
    BY <1>a, <2>1, <2>3, StepsKept, IdleFacts
       DEF StepFits, StepsOfPayment, Grows, At, Holds, Moved, Freed
  <2>7. Answered'
    BY <1>a, <2>1, <2>2, AnswersKept, MoveKeeps
  <2> QED
    BY <1>a, <2>3, <2>4, <2>5, <2>6, <2>7, TasksKept
<1>13. CASE UpdateVerifyTx(w)
  <2>1. /\ work[w].slot[1] \in {"tx", "verify"} /\ At(w, "verify_tx")
        /\ \/ Moved(w, "post_events") /\ Holds(w, "tx") /\ Route(tx) = "payment" /\ tx.message = "add_gas"
           \/ Freed(w, "acked") /\ ~(Holds(w, "tx") /\ Route(tx) = "payment" /\ tx.message = "add_gas")
    BY <1>13, StepMoves
  <2>2. work[w].pc # "idle"
    BY <2>1 DEF At
  <2>3. OthersKept(w) /\ SameAbsent
    BY <2>1, <2>2, MoveKeeps
  <2>4. RetriesCounted'
    BY <1>13, <2>1, <2>3, RetriesKept, IdleFacts DEF UpdateVerifyTx, RetryInHand, At, Moved, Freed
  <2>5. RowInv'
    <3>1. OneCopy' => OneCopy
      BY <2>3, OneCopyBefore DEF SameAbsent
    <3>2. RowGrows /\ RoutedNow
      BY <1>13, ColumnAdded DEF UpdateVerifyTx
    <3>3. FactsHaveRow
      BY <1>13 DEF UpdateVerifyTx, FactsHaveRow
    <3>4. RowIsReady(w)
      BY <2>1, <3>2, FreedIsReady
         DEF RowIsReady, Moved, RowInv, RowBeforeSteps, QuorumColumns, RowGrows, At, Holds
    <3> QED
      BY <2>3, <3>1, <3>2, <3>3, <3>4, RowsKept
  <2>6. StepsOfPayment'
    BY <1>a, <2>1, <2>3, StepsKept, IdleFacts
       DEF StepFits, StepsOfPayment, Grows, At, Holds, Moved, Freed
  <2>7. Answered'
    BY <1>a, <2>1, <2>2, AnswersKept, AnswersAdded, MoveKeeps DEF Holds
  <2> QED
    BY <1>a, <2>3, <2>4, <2>5, <2>6, <2>7, TasksKept
<1>14. CASE UpdateVerifyTask(w)
  <2>1. /\ Holds(w, "verify") /\ At(w, "verify_task")
        /\ Moved(w, "verify_cast")
    BY <1>14, StepMoves
  <2>2. work[w].pc # "idle"
    BY <2>1 DEF At
  <2>3. OthersKept(w) /\ SameAbsent
    BY <2>1, <2>2, MoveKeeps
  <2>4. RetriesCounted'
    BY <1>14, <2>1, <2>3, RetriesKept, IdleFacts DEF UpdateVerifyTask, RetryInHand, At, Moved, Freed
  <2>5. RowInv'
    <3>1. OneCopy' => OneCopy
      BY <2>3, OneCopyBefore DEF SameAbsent
    <3>2. RowGrows /\ RoutedNow
      BY <1>14, ColumnAdded DEF UpdateVerifyTask
    <3>3. FactsHaveRow
      BY <1>14 DEF UpdateVerifyTask, FactsHaveRow
    <3>4. RowIsReady(w)
      BY <2>1 DEF RowIsReady, Moved, Holds
    <3> QED
      BY <2>3, <3>1, <3>2, <3>3, <3>4, RowsKept
  <2>6. StepsOfPayment'
    BY <1>a, <2>1, <2>3, StepsKept, IdleFacts
       DEF StepFits, StepsOfPayment, Grows, At, Holds, Moved, Freed
  <2>7. Answered'
    BY <1>a, <2>1, <2>2, AnswersKept, MoveKeeps
  <2> QED
    BY <1>a, <2>3, <2>4, <2>5, <2>6, <2>7, TasksKept
<1>15. CASE UpdateQuorumReachedTask(w)
  <2>1. /\ Holds(w, "quorum") /\ At(w, "quorum_task")
        /\ \/ Moved(w, "verified")
           \/ Freed(w, "acked") /\ gaveUp' = gaveUp \cup {"no_quorum"}
    BY <1>15, StepMoves
  <2>2. work[w].pc # "idle"
    BY <2>1 DEF At
  <2>3. OthersKept(w) /\ SameAbsent
    BY <2>1, <2>2, MoveKeeps
  <2>4. RetriesCounted'
    BY <1>15, <2>1, <2>3, RetriesKept, IdleFacts DEF UpdateQuorumReachedTask, RetryInHand, At, Moved, Freed
  <2>5. RowInv'
    <3>1. OneCopy' => OneCopy
      BY <2>3, OneCopyBefore DEF SameAbsent
    <3>2. RowGrows /\ RoutedNow
      BY <1>15, ColumnAdded DEF UpdateQuorumReachedTask
    <3>3. FactsHaveRow
      BY <1>15 DEF UpdateQuorumReachedTask, FactsHaveRow
    <3>4. RowIsReady(w)
      <4>1. "quorum_reached_task" \in row'.set
        BY <1>15, <2>1, <2>2, TaskHasRow, ColumnAdded DEF UpdateQuorumReachedTask, RowInv
      <4> QED
        BY <2>1, <4>1, FreedIsReady DEF RowIsReady, Moved, Holds
    <3> QED
      BY <2>3, <3>1, <3>2, <3>3, <3>4, RowsKept
  <2>6. StepsOfPayment'
    BY <1>a, <2>1, <2>3, StepsKept, IdleFacts
       DEF StepFits, StepsOfPayment, Grows, At, Holds, Moved, Freed
  <2>7. Answered'
    BY <1>a, <2>1, <2>2, AnswersKept, AnswersAdded, MoveKeeps DEF Holds
  <2> QED
    BY <1>a, <2>3, <2>4, <2>5, <2>6, <2>7, TasksKept
<1>16. CASE SetVerified(w)
  <2>1. /\ Holds(w, "quorum") /\ At(w, "verified")
        /\ Moved(w, "confirm")
    BY <1>16, StepMoves
  <2>2. work[w].pc # "idle"
    BY <2>1 DEF At
  <2>3. OthersKept(w) /\ SameAbsent
    BY <2>1, <2>2, MoveKeeps
  <2>4. RetriesCounted'
    BY <1>16, <2>1, <2>3, RetriesKept, IdleFacts DEF SetVerified, RetryInHand, At, Moved, Freed
  <2>5. RowInv'
    <3>1. OneCopy' => OneCopy
      BY <2>3, OneCopyBefore DEF SameAbsent
    <3>2. RowGrows /\ RoutedNow /\ row'.set = row.set
      BY <1>16, StatusSet DEF SetVerified
    <3>3. FactsHaveRow
      BY <1>16 DEF SetVerified, FactsHaveRow
    <3>4. RowIsReady(w)
      BY <2>1, <3>2
         DEF RowIsReady, Moved, RowInv, RowBeforeSteps, QuorumColumns, RowGrows, At, Holds
    <3> QED
      BY <2>3, <3>1, <3>2, <3>3, <3>4, RowsKept
  <2>6. StepsOfPayment'
    BY <1>a, <2>1, <2>3, StepsKept, IdleFacts
       DEF StepFits, StepsOfPayment, Grows, At, Holds, Moved, Freed
  <2>7. Answered'
    BY <1>a, <2>1, <2>2, AnswersKept, MoveKeeps
  <2> QED
    BY <1>a, <2>3, <2>4, <2>5, <2>6, <2>7, TasksKept
<1>17. CASE ConfirmBroadcast(w)
  <2>1. /\ Holds(w, "quorum") /\ At(w, "confirm")
        /\ \/ Moved(w, "route_tx")
           \/ Moved(w, "executed")
    BY <1>17, StepMoves
  <2>2. work[w].pc # "idle"
    BY <2>1 DEF At
  <2>3. OthersKept(w) /\ SameAbsent
    BY <2>1, <2>2, MoveKeeps
  <2>4. RetriesCounted'
    BY <1>17, <2>1, <2>3, RetriesKept, IdleFacts DEF ConfirmBroadcast, RetryInHand, At, Moved, Freed
  <2>5. RowInv'
    <3>1. OneCopy' => OneCopy
      BY <2>3, OneCopyBefore DEF SameAbsent
    <3>2. RowGrows /\ RoutedNow
      BY <1>17, SameRow DEF ConfirmBroadcast
    <3>3. FactsHaveRow
      BY <1>17 DEF ConfirmBroadcast, FactsHaveRow, Broadcast
    <3>4. RowIsReady(w)
      BY <2>1, <3>2
         DEF RowIsReady, Moved, RowInv, RowBeforeSteps, QuorumColumns, RowGrows, At, Holds
    <3> QED
      BY <2>3, <3>1, <3>2, <3>3, <3>4, RowsKept
  <2>6. StepsOfPayment'
    BY <1>a, <2>1, <2>3, StepsKept, IdleFacts
       DEF StepFits, StepsOfPayment, Grows, At, Holds, Moved, Freed
  <2>7. Answered'
    BY <1>a, <2>1, <2>2, AnswersKept, MoveKeeps
  <2> QED
    BY <1>a, <2>3, <2>4, <2>5, <2>6, <2>7, TasksKept
<1>18. CASE UpdateRouteTx(w)
  <2>1. /\ Holds(w, "quorum") /\ At(w, "route_tx")
        /\ Moved(w, "routed")
    BY <1>18, StepMoves
  <2>2. work[w].pc # "idle"
    BY <2>1 DEF At
  <2>3. OthersKept(w) /\ SameAbsent
    BY <2>1, <2>2, MoveKeeps
  <2>4. RetriesCounted'
    BY <1>18, <2>1, <2>3, RetriesKept, IdleFacts DEF UpdateRouteTx, RetryInHand, At, Moved, Freed
  <2>5. RowInv'
    <3>1. OneCopy' => OneCopy
      BY <2>3, OneCopyBefore DEF SameAbsent
    <3>2. RowGrows /\ RoutedNow
      BY <1>18, ColumnAdded DEF UpdateRouteTx
    <3>3. FactsHaveRow
      BY <1>18 DEF UpdateRouteTx, FactsHaveRow
    <3>4. RowIsReady(w)
      <4>1. "route_tx" \in row'.set
        BY <1>18, <2>1, <2>2, TaskHasRow, ColumnAdded DEF UpdateRouteTx, RowInv
      <4> QED
        BY <2>1, <3>2, <4>1
           DEF RowIsReady, Moved, RowInv, QuorumColumns, RowGrows, At, Holds
    <3> QED
      BY <2>3, <3>1, <3>2, <3>3, <3>4, RowsKept
  <2>6. StepsOfPayment'
    BY <1>a, <2>1, <2>3, StepsKept, IdleFacts
       DEF StepFits, StepsOfPayment, Grows, At, Holds, Moved, Freed
  <2>7. Answered'
    BY <1>a, <2>1, <2>2, AnswersKept, MoveKeeps
  <2> QED
    BY <1>a, <2>3, <2>4, <2>5, <2>6, <2>7, TasksKept
<1>19. CASE SetRouted(w)
  <2>1. /\ Holds(w, "quorum") /\ At(w, "routed")
        /\ Moved(w, "executed")
    BY <1>19, StepMoves
  <2>2. work[w].pc # "idle"
    BY <2>1 DEF At
  <2>3. OthersKept(w) /\ SameAbsent
    BY <2>1, <2>2, MoveKeeps
  <2>4. RetriesCounted'
    BY <1>19, <2>1, <2>3, RetriesKept, IdleFacts DEF SetRouted, RetryInHand, At, Moved, Freed
  <2>5. RowInv'
    <3>1. OneCopy' => OneCopy
      BY <2>3, OneCopyBefore DEF SameAbsent
    <3>2. RowGrows /\ RoutedNow
      BY <1>19, <2>1, StatusSet DEF SetRouted, At, RowInv, QuorumColumns, RoutedNow
    <3>3. FactsHaveRow
      BY <1>19 DEF SetRouted, FactsHaveRow
    <3>4. RowIsReady(w)
      BY <2>1, <3>2
         DEF RowIsReady, Moved, RowInv, RowBeforeSteps, QuorumColumns, RowGrows, At, Holds
    <3> QED
      BY <2>3, <3>1, <3>2, <3>3, <3>4, RowsKept
  <2>6. StepsOfPayment'
    BY <1>a, <2>1, <2>3, StepsKept, IdleFacts
       DEF StepFits, StepsOfPayment, Grows, At, Holds, Moved, Freed
  <2>7. Answered'
    BY <1>a, <2>1, <2>2, AnswersKept, MoveKeeps
  <2> QED
    BY <1>a, <2>3, <2>4, <2>5, <2>6, <2>7, TasksKept
<1>20. CASE ReportExecuted(w)
  <2>1. /\ Holds(w, "quorum") /\ At(w, "executed")
        /\ \/ Freed(w, "acked") /\ (IsProverPayment(tx) => "MESSAGE_EXECUTED" \in axelar')
           \/ Freed(w, "queued") /\ ~Reportable
    BY <1>20, StepMoves
  <2>2. work[w].pc # "idle"
    BY <2>1 DEF At
  <2>3. OthersKept(w) /\ SameAbsent
    BY <2>1, <2>2, MoveKeeps
  <2>4. RetriesCounted'
    BY <1>20, <2>1, <2>3, RetriesKept, IdleFacts DEF ReportExecuted, RetryInHand, At, Moved, Freed
  <2>5. RowInv'
    <3>1. OneCopy' => OneCopy
      BY <2>3, OneCopyBefore DEF SameAbsent
    <3>2. RowGrows /\ RoutedNow
      BY <1>20, SameRow DEF ReportExecuted
    <3>3. FactsHaveRow
      BY <1>20 DEF ReportExecuted, FactsHaveRow
    <3>4. RowIsReady(w)
      BY <2>1, FreedIsReady
    <3> QED
      BY <2>3, <3>1, <3>2, <3>3, <3>4, RowsKept
  <2>6. StepsOfPayment'
    BY <1>a, <2>1, <2>3, StepsKept, IdleFacts
       DEF StepFits, StepsOfPayment, Grows, At, Holds, Moved, Freed
  <2>7. Answered'
    BY <1>a, <2>1, <2>2, AnswersKept, AnswersAdded, MoveKeeps DEF Holds
  <2> QED
    BY <1>a, <2>3, <2>4, <2>5, <2>6, <2>7, TasksKept
<1>21. CASE StorePayload(w)
  <2>1. /\ Holds(w, "proof") /\ At(w, "store_payload")
        /\ Moved(w, "construct")
    BY <1>21, StepMoves
  <2>2. work[w].pc # "idle"
    BY <2>1 DEF At
  <2>3. OthersKept(w) /\ SameAbsent
    BY <2>1, <2>2, MoveKeeps
  <2>4. RetriesCounted'
    BY <1>21, <2>1, <2>3, RetriesKept, IdleFacts DEF StorePayload, RetryInHand, At, Moved, Freed
  <2>5. RowInv'
    <3>1. OneCopy' => OneCopy
      BY <2>3, OneCopyBefore DEF SameAbsent
    <3>2. RowGrows /\ RoutedNow
      BY <1>21, SameRow DEF StorePayload
    <3>3. FactsHaveRow
      BY <1>21 DEF StorePayload, FactsHaveRow
    <3>4. RowIsReady(w)
      BY <2>1, <3>2
         DEF RowIsReady, Moved, RowInv, RowBeforeSteps, QuorumColumns, RowGrows, At, Holds
    <3> QED
      BY <2>3, <3>1, <3>2, <3>3, <3>4, RowsKept
  <2>6. StepsOfPayment'
    BY <1>a, <2>1, <2>3, StepsKept, IdleFacts
       DEF StepFits, StepsOfPayment, Grows, At, Holds, Moved, Freed
  <2>7. Answered'
    BY <1>a, <2>1, <2>2, AnswersKept, MoveKeeps
  <2> QED
    BY <1>a, <2>3, <2>4, <2>5, <2>6, <2>7, TasksKept
<1>22. CASE ConstructProof(w)
  <2>1. /\ Holds(w, "proof") /\ At(w, "construct")
        /\ \/ Freed(w, "acked") /\ ("proof_built" \in axelar' \/ "timeout" \in gaveUp')
           \/ Moved(w, "cannot_execute")
    BY <1>22, StepMoves
  <2>2. work[w].pc # "idle"
    BY <2>1 DEF At
  <2>3. OthersKept(w) /\ SameAbsent
    BY <2>1, <2>2, MoveKeeps
  <2>4. RetriesCounted'
    BY <1>22, <2>1, <2>3, RetriesKept, IdleFacts DEF ConstructProof, RetryInHand, At, Moved, Freed
  <2>5. RowInv'
    <3>1. OneCopy' => OneCopy
      BY <2>3, OneCopyBefore DEF SameAbsent
    <3>2. RowGrows /\ RoutedNow
      BY <1>22, SameRow DEF ConstructProof
    <3>3. FactsHaveRow
      BY <1>22 DEF ConstructProof, FactsHaveRow, Broadcast
    <3>4. RowIsReady(w)
      BY <2>1, <3>2, FreedIsReady
         DEF RowIsReady, Moved, RowInv, RowBeforeSteps, QuorumColumns, RowGrows, At, Holds
    <3> QED
      BY <2>3, <3>1, <3>2, <3>3, <3>4, RowsKept
  <2>6. StepsOfPayment'
    BY <1>a, <2>1, <2>3, StepsKept, IdleFacts
       DEF StepFits, StepsOfPayment, Grows, At, Holds, Moved, Freed
  <2>7. Answered'
    BY <1>a, <2>1, <2>2, AnswersKept, AnswersAdded, MoveKeeps DEF Holds
  <2> QED
    BY <1>a, <2>3, <2>4, <2>5, <2>6, <2>7, TasksKept
<1>23. CASE CannotExecute(w)
  <2>1. /\ Holds(w, "proof") /\ At(w, "cannot_execute")
        /\ Freed(w, "acked") /\ "CANNOT_EXECUTE" \in axelar'
    BY <1>23, StepMoves
  <2>2. work[w].pc # "idle"
    BY <2>1 DEF At
  <2>3. OthersKept(w) /\ SameAbsent
    BY <2>1, <2>2, MoveKeeps
  <2>4. RetriesCounted'
    BY <1>23, <2>1, <2>3, RetriesKept, IdleFacts DEF CannotExecute, RetryInHand, At, Moved, Freed
  <2>5. RowInv'
    <3>1. OneCopy' => OneCopy
      BY <2>3, OneCopyBefore DEF SameAbsent
    <3>2. RowGrows /\ RoutedNow
      BY <1>23, SameRow DEF CannotExecute
    <3>3. FactsHaveRow
      BY <1>23 DEF CannotExecute, FactsHaveRow
    <3>4. RowIsReady(w)
      BY <2>1, FreedIsReady
    <3> QED
      BY <2>3, <3>1, <3>2, <3>3, <3>4, RowsKept
  <2>6. StepsOfPayment'
    BY <1>a, <2>1, <2>3, StepsKept, IdleFacts
       DEF StepFits, StepsOfPayment, Grows, At, Holds, Moved, Freed
  <2>7. Answered'
    BY <1>a, <2>1, <2>2, AnswersKept, AnswersAdded, MoveKeeps DEF Holds
  <2> QED
    BY <1>a, <2>3, <2>4, <2>5, <2>6, <2>7, TasksKept
<1>24. CASE RetryBroadcast(w)
  <2>1. /\ Holds(w, "retry") /\ At(w, "retry_cast")
        /\ Moved(w, "save_retries")
    BY <1>24, StepMoves
  <2>2. work[w].pc # "idle"
    BY <2>1 DEF At
  <2>3. OthersKept(w) /\ SameAbsent
    BY <2>1, <2>2, MoveKeeps
  <2>4. RetriesCounted'
    <3>1. retries' = retries /\ casts' = casts + 1 /\ uncounted' = uncounted
      BY <1>24 DEF RetryBroadcast
    <3>2. RetryInHand(w) /\ work'[w].pc = "save_retries" /\ work'[w].read = work[w].read
      BY <2>1 DEF RetryInHand, At, Moved
    <3>3. \A v \in Workers : RetryInHand(v)' => RetryInHand(v) /\ work'[v].read = work[v].read
      BY <2>3, <3>2 DEF RetryInHand, OthersKept
    <3>4. At(w, "save_retries")'
      BY <3>2 DEF At
    <3>5. ASSUME uncounted = {}
          PROVE  \A v \in Workers : ~At(v, "save_retries")
      BY <2>1, <3>2, <3>5 DEF RetriesCounted, RetryInHand, At
    <3>6. \A v \in Workers : RetryInHand(v)' => work'[v].read < MAX_TASK_RETRIES
      BY <3>3 DEF RetriesCounted
    <3>7. ASSUME uncounted' = {}
          PROVE  /\ \A u, v \in Workers : RetryInHand(u)' /\ RetryInHand(v)' => u = v
                 /\ \A v \in Workers : RetryInHand(v)' => work'[v].read = retries'
                 /\ casts' = retries' + (IF \E v \in Workers : At(v, "save_retries")' THEN 1 ELSE 0)
      BY <3>1, <3>3, <3>4, <3>5, <3>7 DEF RetriesCounted, RecordsOK
    <3> QED
      BY <3>6, <3>7 DEF RetriesCounted
  <2>5. RowInv'
    <3>1. OneCopy' => OneCopy
      BY <2>3, OneCopyBefore DEF SameAbsent
    <3>2. RowGrows /\ RoutedNow
      BY <1>24, SameRow DEF RetryBroadcast
    <3>3. FactsHaveRow
      BY <1>24 DEF RetryBroadcast, FactsHaveRow
    <3>4. RowIsReady(w)
      BY <2>1, <3>2
         DEF RowIsReady, Moved, RowInv, RowBeforeSteps, QuorumColumns, RowGrows, At, Holds
    <3> QED
      BY <2>3, <3>1, <3>2, <3>3, <3>4, RowsKept
  <2>6. StepsOfPayment'
    BY <1>a, <2>1, <2>3, StepsKept, IdleFacts
       DEF StepFits, StepsOfPayment, Grows, At, Holds, Moved, Freed
  <2>7. Answered'
    BY <1>a, <2>1, <2>2, AnswersKept, MoveKeeps
  <2> QED
    BY <1>a, <2>3, <2>4, <2>5, <2>6, <2>7, TasksKept
<1>25. CASE UpsertRetries(w)
  <2>1. /\ Holds(w, "retry") /\ At(w, "save_retries")
        /\ Freed(w, "acked")
    BY <1>25, StepMoves
  <2>2. work[w].pc # "idle"
    BY <2>1 DEF At
  <2>3. OthersKept(w) /\ SameAbsent
    BY <2>1, <2>2, MoveKeeps
  <2>4. RetriesCounted'
    <3>1. retries' = work[w].read + 1 /\ casts' = casts /\ uncounted' = uncounted
      BY <1>25 DEF UpsertRetries
    <3>2. RetryInHand(w) /\ At(w, "save_retries") /\ work'[w].pc = "idle"
      BY <2>1, IdleFacts DEF RetryInHand, At, Freed
    <3>3. \A v \in Workers : RetryInHand(v)' => RetryInHand(v) /\ v # w /\ work'[v] = work[v]
      BY <2>3, <3>2 DEF RetryInHand, OthersKept
    <3>4. \A v \in Workers : RetryInHand(v)' => work'[v].read < MAX_TASK_RETRIES
      BY <3>3 DEF RetriesCounted
    <3>5. ASSUME uncounted' = {}
          PROVE  /\ \A u, v \in Workers : RetryInHand(u)' /\ RetryInHand(v)' => u = v
                 /\ \A v \in Workers : RetryInHand(v)' => work'[v].read = retries'
                 /\ casts' = retries' + (IF \E v \in Workers : At(v, "save_retries")' THEN 1 ELSE 0)
      <4>1. \A v \in Workers : ~RetryInHand(v)'
        BY <3>1, <3>2, <3>3, <3>5 DEF RetriesCounted
      <4>2. \A v \in Workers : ~At(v, "save_retries")'
        BY <4>1 DEF RetryInHand, At
      <4>3. work[w].read = retries /\ casts = retries + 1
        BY <3>1, <3>2, <3>5 DEF RetriesCounted
      <4> QED
        BY <3>1, <4>1, <4>2, <4>3 DEF RecordsOK
    <3> QED
      BY <3>4, <3>5 DEF RetriesCounted
  <2>5. RowInv'
    <3>1. OneCopy' => OneCopy
      BY <2>3, OneCopyBefore DEF SameAbsent
    <3>2. RowGrows /\ RoutedNow
      BY <1>25, SameRow DEF UpsertRetries
    <3>3. FactsHaveRow
      BY <1>25 DEF UpsertRetries, FactsHaveRow
    <3>4. RowIsReady(w)
      BY <2>1, FreedIsReady
    <3> QED
      BY <2>3, <3>1, <3>2, <3>3, <3>4, RowsKept
  <2>6. StepsOfPayment'
    BY <1>a, <2>1, <2>3, StepsKept, IdleFacts
       DEF StepFits, StepsOfPayment, Grows, At, Holds, Moved, Freed
  <2>7. Answered'
    BY <1>a, <2>1, <2>2, AnswersKept, AnswersAdded, MoveKeeps DEF Holds
  <2> QED
    BY <1>a, <2>3, <2>4, <2>5, <2>6, <2>7, TasksKept
<1>26. CASE CallFails(w)
  <2>1. /\ Freed(w, "queued")
    BY <1>26, StepMoves
  <2>2. work[w].pc # "idle"
    BY <1>26 DEF CallFails, FallibleSteps
  <2>3. OthersKept(w) /\ SameAbsent
    BY <2>1, <2>2, MoveKeeps
  <2>4. RetriesCounted'
    <3>1. /\ retries' = retries
          /\ \/ /\ casts' = casts
                /\ uncounted' = uncounted \cup (IF At(w, "save_retries") THEN {"not_saved"} ELSE {})
             \/ uncounted' = uncounted \cup {"not_saved"}
      BY <1>26 DEF CallFails
    <3>2. work'[w].pc = "idle"
      BY <2>1, IdleFacts DEF Freed
    <3>3. \A v \in Workers : RetryInHand(v)' => RetryInHand(v) /\ work'[v] = work[v]
      BY <2>3, <3>2 DEF RetryInHand, OthersKept
    <3>4. \A v \in Workers : RetryInHand(v)' => work'[v].read < MAX_TASK_RETRIES
      BY <3>3 DEF RetriesCounted
    <3>5. ASSUME uncounted' = {}
          PROVE  /\ \A u, v \in Workers : RetryInHand(u)' /\ RetryInHand(v)' => u = v
                 /\ \A v \in Workers : RetryInHand(v)' => work'[v].read = retries'
                 /\ casts' = retries' + (IF \E v \in Workers : At(v, "save_retries")' THEN 1 ELSE 0)
      <4>1. uncounted = {} /\ ~At(w, "save_retries") /\ casts' = casts
        BY <3>1, <3>5
      <4>2. \A v \in Workers : At(v, "save_retries")' <=> At(v, "save_retries")
        BY <2>3, <3>2, <4>1 DEF At, OthersKept
      <4> QED
        BY <3>1, <3>3, <4>1, <4>2 DEF RetriesCounted
    <3> QED
      BY <3>4, <3>5 DEF RetriesCounted
  <2>5. RowInv'
    <3>1. OneCopy' => OneCopy
      BY <2>3, OneCopyBefore DEF SameAbsent
    <3>2. RowGrows /\ RoutedNow
      BY <1>26, SameRow DEF CallFails
    <3>3. FactsHaveRow
      <4>1. CASE At(w, "verify_cast")
        <5>1. work[w].slot[1] \in {"tx", "verify"}
          BY <2>2, <4>1, BusyFacts, StepItems DEF At
        <5>2. row # NoRow
          BY <2>2, <4>1, <5>1, TaskHasRow DEF RowInv, RowBeforeSteps, At, Holds
        <5> QED
          BY <5>2 DEF FactsHaveRow
      <4>2. CASE ~At(w, "verify_cast")
        BY <1>26, <4>2 DEF CallFails, Effect, FactsHaveRow, At
      <4> QED
        BY <4>1, <4>2
    <3>4. RowIsReady(w)
      BY <2>1, FreedIsReady
    <3> QED
      BY <2>3, <3>1, <3>2, <3>3, <3>4, RowsKept
  <2>6. StepsOfPayment'
    BY <1>a, <2>1, <2>3, StepsKept, IdleFacts
       DEF StepFits, StepsOfPayment, Grows, At, Holds, Moved, Freed
  <2>7. Answered'
    BY <1>a, <2>1, <2>2, AnswersKept, MoveKeeps
  <2> QED
    BY <1>a, <2>3, <2>4, <2>5, <2>6, <2>7, TasksKept
<1>27. CASE WorkerStops(w)
  <2>1. /\ Freed(w, "queued")
    BY <1>27, StepMoves
  <2>2. work[w].pc # "idle"
    BY <1>27, StepItems DEF WorkerStops, DeliveriesOK, Slots
  <2>3. OthersKept(w) /\ SameAbsent
    BY <2>1, <2>2, MoveKeeps
  <2>4. RetriesCounted'
    <3>1. retries' = retries /\ casts' = casts
          /\ uncounted' = uncounted \cup (IF At(w, "save_retries") THEN {"not_saved"} ELSE {})
      BY <1>27 DEF WorkerStops
    <3>2. work'[w].pc = "idle"
      BY <2>1, IdleFacts DEF Freed
    <3>3. \A v \in Workers : RetryInHand(v)' => RetryInHand(v) /\ work'[v] = work[v]
      BY <2>3, <3>2 DEF RetryInHand, OthersKept
    <3>4. \A v \in Workers : RetryInHand(v)' => work'[v].read < MAX_TASK_RETRIES
      BY <3>3 DEF RetriesCounted
    <3>5. ASSUME uncounted' = {}
          PROVE  /\ \A u, v \in Workers : RetryInHand(u)' /\ RetryInHand(v)' => u = v
                 /\ \A v \in Workers : RetryInHand(v)' => work'[v].read = retries'
                 /\ casts' = retries' + (IF \E v \in Workers : At(v, "save_retries")' THEN 1 ELSE 0)
      <4>1. uncounted = {} /\ ~At(w, "save_retries")
        BY <3>1, <3>5
      <4>2. \A v \in Workers : At(v, "save_retries")' <=> At(v, "save_retries")
        BY <2>3, <3>2, <4>1 DEF At, OthersKept
      <4> QED
        BY <3>1, <3>3, <4>1, <4>2 DEF RetriesCounted
    <3> QED
      BY <3>4, <3>5 DEF RetriesCounted
  <2>5. RowInv'
    <3>1. OneCopy' => OneCopy
      BY <2>3, OneCopyBefore DEF SameAbsent
    <3>2. RowGrows /\ RoutedNow
      BY <1>27, SameRow DEF WorkerStops
    <3>3. FactsHaveRow
      BY <1>27 DEF WorkerStops, FactsHaveRow
    <3>4. RowIsReady(w)
      BY <2>1, FreedIsReady
    <3> QED
      BY <2>3, <3>1, <3>2, <3>3, <3>4, RowsKept
  <2>6. StepsOfPayment'
    BY <1>a, <2>1, <2>3, StepsKept, IdleFacts
       DEF StepFits, StepsOfPayment, Grows, At, Holds, Moved, Freed
  <2>7. Answered'
    BY <1>a, <2>1, <2>2, AnswersKept, MoveKeeps
  <2> QED
    BY <1>a, <2>3, <2>4, <2>5, <2>6, <2>7, TasksKept
<1>28. CASE ReadRetries(w)
  <2>1. /\ Holds(w, "retry") /\ At(w, "read_retries")
        /\ \/ Freed(w, "queued") /\ retries >= MAX_TASK_RETRIES
           \/ /\ ~(retries >= MAX_TASK_RETRIES) /\ UNCHANGED at
              /\ work'[w] = [slot |-> work[w].slot, pc |-> "retry_cast", read |-> retries]
              /\ \A v \in Workers \ {w} : work'[v] = work[v]
    BY <1>28, StepMoves
  <2>2. work[w].pc # "idle"
    BY <2>1 DEF At
  <2>3. OthersKept(w) /\ SameAbsent /\ NoneAcked
    BY <2>1, <2>2, MoveKeeps DEF OthersKept, SameAbsent, NoneAcked
  <2>4. /\ work'[w].pc \in {"idle", "retry_cast"} /\ work'[w].slot[1] # "tx"
        /\ work'[w].pc = "retry_cast" => work'[w].read = retries /\ ~(retries >= MAX_TASK_RETRIES)
    BY <2>1, IdleFacts DEF Freed, Holds
  <2>5. RetriesCounted'
    <3>1. /\ retries' = retries /\ casts' = casts
          /\ uncounted' = uncounted \cup (IF \E v \in Workers : RetryInHand(v) THEN {"overlap"} ELSE {})
      BY <1>28 DEF ReadRetries
    <3>2. \A v \in Workers : At(v, "save_retries")' <=> At(v, "save_retries")
      BY <2>1, <2>3, <2>4 DEF At, OthersKept
    <3>3. \A v \in Workers : RetryInHand(v)' =>
            (v = w /\ work'[v].read = retries /\ retries < MAX_TASK_RETRIES)
            \/ (RetryInHand(v) /\ work'[v] = work[v])
      BY <2>3, <2>4, IngestorAssumption DEF RetryInHand, OthersKept, RecordsOK
    <3>4. \A v \in Workers : RetryInHand(v)' => work'[v].read < MAX_TASK_RETRIES
      BY <3>3 DEF RetriesCounted
    <3>5. ASSUME uncounted' = {}
          PROVE  /\ \A u, v \in Workers : RetryInHand(u)' /\ RetryInHand(v)' => u = v
                 /\ \A v \in Workers : RetryInHand(v)' => work'[v].read = retries'
                 /\ casts' = retries' + (IF \E v \in Workers : At(v, "save_retries")' THEN 1 ELSE 0)
      <4>1. uncounted = {} /\ \A v \in Workers : ~RetryInHand(v)
        BY <3>1, <3>5
      <4> QED
        BY <3>1, <3>2, <3>3, <4>1 DEF RetriesCounted
    <3> QED
      BY <3>4, <3>5 DEF RetriesCounted
  <2>6. RowInv'
    <3>1. OneCopy' => OneCopy
      BY <2>3, OneCopyBefore DEF SameAbsent
    <3>2. RowGrows /\ RoutedNow /\ FactsHaveRow
      BY <1>28, SameRow DEF ReadRetries, FactsHaveRow
    <3>3. RowIsReady(w)
      BY <2>4 DEF RowIsReady
    <3> QED
      BY <2>3, <3>1, <3>2, <3>3, RowsKept
  <2>7. StepsOfPayment'
    BY <1>a, <2>3, <2>4, StepsKept DEF StepFits, Grows
  <2>8. Answered'
    BY <1>a, <2>3, AnswersKept
  <2> QED
    BY <1>a, <2>3, <2>5, <2>6, <2>7, <2>8, TasksKept
<1> QED
  BY <1>1, <1>2, <1>3, <1>4, <1>5, <1>6, <1>7, <1>8, <1>9, <1>10, <1>11, <1>12, <1>13, <1>14,
     <1>15, <1>16, <1>17, <1>18, <1>19, <1>20, <1>21, <1>22, <1>23, <1>24, <1>25, <1>26, <1>27,
     <1>28
     DEF WorkerStep

LEMMA ArrivalKeeps ==
    ASSUME IngestorParts, NEW slot \in Slots, at[slot] = "absent", Enqueue(slot), Grows, RecordsOK',
           UNCHANGED <<work, row, axelar, gaveUp, retryVars>>,
           slot[1] = "verify" => "CALL" \in axelar,
           slot[1] = "quorum" => "verified" \in axelar
    PROVE  IngestorParts'
<1> USE DEF IngestorParts, IngestorTypeOK
<1>1. /\ at'[slot] = "queued" /\ \A s \in Slots \ {slot} : at'[s] = at[s]
      /\ DeliveriesOK' /\ OneHolder'
  BY Arrival
<1>2. tx' = tx /\ flow' = flow /\ work' = work /\ row' = row /\ axelar' = axelar
  BY DEF Grows, subject
<1>3. \A s \in Slots : at'[s] = "absent" => at[s] = "absent"
  BY <1>1
<1>4. NoneAcked
  BY <1>1 DEF NoneAcked
<1>5. TasksFollowFacts'
  <2>1. \A c \in Copies : <<"verify", c>> \in Slots /\ <<"quorum", c>> \in Slots
    BY DEF Slots, Items
  <2>2. \A c \in Copies : /\ slot = <<"verify", c>> => "CALL" \in axelar
                          /\ slot = <<"quorum", c>> => "verified" \in axelar
    OBVIOUS
  <2> QED
    BY <1>1, <1>2, <2>1, <2>2 DEF TasksFollowFacts
<1>6. RowInv'
  <2>1. OneCopy' => OneCopy
    BY <1>3, OneCopyBefore
  <2>2. RowBeforeFacts' /\ RowBeforeSteps'
    BY <1>2 DEF RowInv, RowBeforeFacts, RowBeforeSteps, Holds
  <2>3. UpsertIsFirst' /\ QuorumColumns' /\ RoutedRowComplete'
    BY <1>2, <2>1 DEF RowInv, UpsertIsFirst, QuorumColumns, RoutedRowComplete, At
  <2> QED
    BY <2>2, <2>3 DEF RowInv
<1>7. StepsOfPayment'
  BY <1>2 DEF StepsOfPayment, Holds, At
<1>8. Answered'
  BY <1>4, AnswersKept
<1>9. RetriesCounted'
  BY <1>2 DEF RetriesCounted, RetryInHand, At, retryVars
<1> QED
  BY <1>1, <1>5, <1>6, <1>7, <1>8, <1>9

\* The slots that tasks, retries and duplicates come to.
LEMMA ExternalArrives ==
    ASSUME \/ AxelarStep
           \/ \E item \in Items \ {"tx", "retry"} : Duplicate(item)
    PROVE  \E slot \in Slots :
             /\ at[slot] = "absent" /\ Enqueue(slot) /\ slot[1] # "tx"
             /\ UNCHANGED <<work, row, axelar, gaveUp, retryVars>>
             /\ \/ /\ AxelarStep /\ UNCHANGED disturbances
                   /\ slot[1] = "verify" => "CALL" \in axelar
                   /\ slot[1] = "quorum" => ("verified" \in axelar /\ slot = <<"quorum", 1>>)
                \/ /\ Disturbance /\ <<slot[1], 1>> \in Slots /\ at[<<slot[1], 1>>] # "absent"
<1> USE IngestorAssumption DEF Slots, Items
<1>1. CASE IssueTask("verify", "CALL")
  <2>1. <<"verify", 1>> \in Slots
    OBVIOUS
  <2> QED
    BY <1>1, <2>1 DEF IssueTask, AxelarStep
<1>2. CASE IssueTask("quorum", "verified")
  <2>1. <<"quorum", 1>> \in Slots
    OBVIOUS
  <2> QED
    BY <1>2, <2>1 DEF IssueTask, AxelarStep
<1>3. ASSUME NEW c \in Copies, IssueRetry(c)
      PROVE  \E slot \in Slots :
             /\ at[slot] = "absent" /\ Enqueue(slot) /\ slot[1] = "retry"
             /\ UNCHANGED <<work, row, axelar, gaveUp, retryVars, disturbances>>
  BY <1>3 DEF IssueRetry
<1>4. ASSUME NEW item \in Items \ {"tx", "retry"}, Duplicate(item)
      PROVE  \E slot \in Slots :
             /\ at[slot] = "absent" /\ Enqueue(slot) /\ slot[1] # "tx"
             /\ UNCHANGED <<work, row, axelar, gaveUp, retryVars>>
             /\ Disturbance /\ <<slot[1], 1>> \in Slots /\ at[<<slot[1], 1>>] # "absent"
  <2>1. <<item, 2>> \in Slots /\ <<item, 1>> \in Slots
    BY <1>4 DEF Duplicate
  <2> QED
    BY <1>4, <2>1 DEF Duplicate
<1> QED
  BY <1>1, <1>2, <1>3, <1>4 DEF AxelarStep

LEMMA IngestorKeeps ==
    ASSUME IngestorParts, IngestorNext
    PROVE  IngestorParts'
<1>1. ASSUME NEW w \in Workers, WorkerStep(w) \/ CallFails(w) \/ WorkerStops(w)
      PROVE  IngestorParts'
  BY <1>1, WorkerKeeps
<1>2. ASSUME AxelarStep \/ \E item \in Items \ {"tx", "retry"} : Duplicate(item)
      PROVE  IngestorParts'
  <2>1. RecordsOK' /\ Grows
    BY StepRecords DEF IngestorParts, IngestorTypeOK
  <2>2. PICK slot \in Slots :
          /\ at[slot] = "absent" /\ Enqueue(slot)
          /\ UNCHANGED <<work, row, axelar, gaveUp, retryVars>>
          /\ \/ /\ slot[1] = "verify" => "CALL" \in axelar
                /\ slot[1] = "quorum" => "verified" \in axelar
             \/ <<slot[1], 1>> \in Slots /\ at[<<slot[1], 1>>] # "absent"
    BY <1>2, ExternalArrives
  <2>3. /\ slot[1] = "verify" => "CALL" \in axelar
        /\ slot[1] = "quorum" => "verified" \in axelar
    BY <2>2, IngestorAssumption DEF IngestorParts, TasksFollowFacts
  <2> QED
    BY <2>1, <2>2, <2>3, ArrivalKeeps
<1> QED
  BY <1>1, <1>2 DEF IngestorNext

\* A publication of the followed transaction brings a copy of it to the queue.
LEMMA PublicationArrives ==
    ASSUME IngestorParts, NEW i, NEW action, Publication(i, action)
    PROVE  \/ UNCHANGED ingestorVars
           \/ /\ UNCHANGED <<subject, work, row, axelar, quorum, retryVars, gaveUp, disturbances>>
              /\ \E c \in Copies : at[<<"tx", c>>] = "absent" /\ Enqueue(<<"tx", c>>)
<1>1. CASE i = Followed
  <2>1. /\ \E c \in Copies : at[<<"tx", c>>] = "absent"
        /\ at' = [at EXCEPT ![<<"tx", NextCopy>>] = "queued"]
        /\ UNCHANGED <<subject, work, row, axelar, quorum, retryVars, gaveUp, disturbances>>
    BY <1>1 DEF Publication
  <2>2. NextCopy \in Copies /\ at[<<"tx", NextCopy>>] = "absent"
    <3> DEFINE free == {c \in Copies : at[<<"tx", c>>] = "absent"}
    <3>1. free \subseteq Nat /\ free # {}
      BY <2>1, IngestorAssumption
    <3>2. PICK c \in free : \A d \in free : c <= d
      BY <3>1, LeastExists
    <3>3. \E n \in Copies : /\ at[<<"tx", n>>] = "absent"
                            /\ \A d \in Copies : d < n => at[<<"tx", d>>] # "absent"
      <4>1. \A d \in Copies : d < c => at[<<"tx", d>>] # "absent"
        BY <3>1, <3>2, IngestorAssumption
      <4> QED
        BY <3>2, <4>1
    <3> QED
      BY <3>3 DEF NextCopy
  <2> QED
    BY <2>1, <2>2 DEF Enqueue
<1>2. CASE i # Followed
  BY <1>2 DEF Publication
<1> QED
  BY <1>1, <1>2

\* A step of the composition, as the ingestor sees it.
LEMMA StepOfIngestor ==
    ASSUME IngestorParts, [Next]_vars
    PROVE  \/ IngestorNext
           \/ UNCHANGED ingestorVars
           \/ /\ UNCHANGED <<subject, work, row, axelar, quorum, retryVars, gaveUp, disturbances>>
              /\ \E c \in Copies : at[<<"tx", c>>] = "absent" /\ Enqueue(<<"tx", c>>)
<1>1. ASSUME SubscriberStep
      PROVE  \/ UNCHANGED ingestorVars
             \/ /\ UNCHANGED <<subject, work, row, axelar, quorum, retryVars, gaveUp, disturbances>>
                /\ \E c \in Copies : at[<<"tx", c>>] = "absent" /\ Enqueue(<<"tx", c>>)
  <2>1. \/ UNCHANGED ingestorVars
        \/ \E i \in Transactions : Publication(i, PublishNext(i)) \/ Publication(i, RecoverTx(i))
    BY <1>1 DEF SubscriberStep
  <2>2. ASSUME NEW i \in Transactions, Publication(i, PublishNext(i)) \/ Publication(i, RecoverTx(i))
        PROVE  \E a \in BOOLEAN : Publication(i, a)
    BY <2>2 DEF Publication
  <2> QED
    BY <2>1, <2>2, PublicationArrives
<1> QED
  BY <1>1 DEF Next, IngestorStep, vars

LEMMA IngestorStepKeeps ==
    ASSUME IngestorParts, [Next]_vars
    PROVE  IngestorParts'
<1>1. CASE IngestorNext
  BY <1>1, IngestorKeeps
<1>2. CASE UNCHANGED ingestorVars
  BY <1>2 DEF ingestorVars, IngestorParts, IngestorTypeOK, DeliveriesOK, RecordsOK, OneHolder,
              TasksFollowFacts, RowInv, RowBeforeFacts, RowBeforeSteps, UpsertIsFirst,
              QuorumColumns, RoutedRowComplete, OneCopy, StepsOfPayment, Answered,
              ExecutedReported, ProofAnswered, Finished, RetriesCounted, RetryInHand, Holds, At
<1>3. ASSUME UNCHANGED <<subject, work, row, axelar, quorum, retryVars, gaveUp, disturbances>>,
             NEW c \in Copies, at[<<"tx", c>>] = "absent", Enqueue(<<"tx", c>>)
      PROVE  IngestorParts'
  <2>1. <<"tx", c>> \in Slots /\ <<"tx", c>>[1] = "tx"
    BY DEF Slots, Items
  <2>2. RecordsOK' /\ Grows
    BY <1>3, IngestorAssumption DEF IngestorParts, IngestorTypeOK, RecordsOK, Grows, retryVars, subject
  <2> QED
    BY <1>3, <2>1, <2>2, ArrivalKeeps
<1> QED
  BY <1>1, <1>2, <1>3, StepOfIngestor

LEMMA IngestorInitInv ==
    ASSUME IngestorInit
    PROVE  IngestorParts
<1> USE IngestorAssumption DEF IngestorInit
<1>1. \A w \in Workers : work[w] = Idle
  OBVIOUS
<1>2. DeliveriesOK
  BY IdleFacts DEF DeliveriesOK, Places, Idle
<1>3. RecordsOK
  BY DEF RecordsOK
<1>4. OneHolder
  BY <1>1 DEF OneHolder
<1>5. TasksFollowFacts
  <2>1. \A c \in Copies : at[<<"verify", c>>] = "absent" /\ at[<<"quorum", c>>] = "absent"
    BY DEF Slots, Items
  <2> QED
    BY <2>1 DEF TasksFollowFacts
<1>6. RowInv
  BY <1>1, IdleFacts DEF RowInv, RowBeforeFacts, RowBeforeSteps, UpsertIsFirst, QuorumColumns,
                         RoutedRowComplete, Holds, At, NoRow
<1>7. StepsOfPayment
  BY <1>1, IdleFacts DEF StepsOfPayment, Holds
<1>8. Answered
  <2>1. \A item \in Items : ~Finished(item)
    BY DEF Finished, Slots
  <2> QED
    BY <2>1 DEF Answered, ExecutedReported, ProofAnswered, Items
<1>9. RetriesCounted
  BY <1>1, IdleFacts DEF RetriesCounted, RetryInHand, At
<1> QED
  BY <1>2, <1>3, <1>4, <1>5, <1>6, <1>7, <1>8, <1>9 DEF IngestorParts, IngestorTypeOK

\* As long as every broadcast is counted, the counter's limit is theirs.
LEMMA CountedWithinLimit ==
    ASSUME IngestorParts
    PROVE  RetryLimit
<1> SUFFICES ASSUME uncounted = {}
             PROVE  casts <= MAX_TASK_RETRIES
  BY DEF RetryLimit
<1>1. casts = retries + (IF \E w \in Workers : At(w, "save_retries") THEN 1 ELSE 0)
  BY DEF IngestorParts, RetriesCounted
<1>2. retries \in Nat /\ retries <= MAX_TASK_RETRIES /\ MAX_TASK_RETRIES \in Nat
  BY IngestorAssumption DEF IngestorParts, IngestorTypeOK, RecordsOK
<1>3. CASE \E w \in Workers : At(w, "save_retries")
  <2>1. PICK w \in Workers : RetryInHand(w)
    BY <1>3 DEF At, RetryInHand
  <2>2. retries < MAX_TASK_RETRIES
    BY <2>1 DEF IngestorParts, RetriesCounted
  <2> QED
    BY <1>1, <1>2, <1>3, <2>2
<1>4. CASE ~ \E w \in Workers : At(w, "save_retries")
  BY <1>1, <1>2, <1>4
<1> QED
  BY <1>3, <1>4
-----------------------------------------------------------------------------
(***************************************************************************)
(* The events of a payment.                                                *)
(***************************************************************************)
LEMMA BatchKept ==
    ASSUME BatchComplete, Grows, Finished("tx")' => Finished("tx")
    PROVE  BatchComplete'
<1>1. tx' = tx /\ flow' = flow
  BY DEF Grows, subject
<1> QED
  BY <1>1 DEF BatchComplete, Grows

\* Only its own worker finishes the transaction.
LEMMA TxFinishedBy ==
    ASSUME DeliveriesOK, NEW w \in Workers, Finished("tx")', ~Finished("tx"),
           Freed(w, "acked") \/ NoneAcked
    PROVE  Freed(w, "acked") /\ Holds(w, "tx")
<1>1. PICK c \in Copies : at'[<<"tx", c>>] = "acked"
  BY DEF Finished
<1>2. <<"tx", c>> \in Slots /\ at[<<"tx", c>>] # "acked"
  BY DEF Finished, Slots, Items
<1>3. Freed(w, "acked") /\ work[w].slot = <<"tx", c>>
  BY <1>1, <1>2 DEF Freed, NoneAcked
<1> QED
  BY <1>3 DEF Holds

\* The steps that finish a transaction: a payment that builds and translates
\* is finished when its batch is posted, or it had no events.
LEMMA BatchWorker ==
    ASSUME IngestorParts, BatchComplete, NEW w \in Workers,
           WorkerStep(w) \/ CallFails(w) \/ WorkerStops(w)
    PROVE  BatchComplete'
<1> USE DEF IngestorParts, IngestorTypeOK
<1>a. DeliveriesOK /\ OneHolder /\ RecordsOK /\ Grows /\ tx' = tx /\ flow' = flow
  BY StepRecords DEF IngestorNext, Grows, subject
<1> SUFFICES ASSUME Route(tx) = "payment", Builds(tx), tx.message \in GmpMessages => tx.translates,
                    Finished("tx")', ~Finished("tx"),
                    "payload_error" \notin gaveUp', "refused" \notin gaveUp'
             PROVE  Events(tx) \subseteq axelar'
  BY <1>a, BatchKept DEF BatchComplete
<1>b. ASSUME Freed(w, "acked") \/ NoneAcked
      PROVE  Freed(w, "acked") /\ Holds(w, "tx")
  BY <1>a, <1>b, TxFinishedBy
<1>c. \A pc : Moved(w, pc) => NoneAcked
  BY DEF Moved, NoneAcked
<1>d. ASSUME Freed(w, "queued")
      PROVE  NoneAcked
  BY <1>d, <1>a DEF Freed, NoneAcked
<1>e. ASSUME NoneAcked
      PROVE  FALSE
  BY <1>e DEF NoneAcked, Finished, Slots, Items
<1>1. CASE Deliver(w)
  BY <1>1, <1>a, <1>e, DeliverTakes DEF NoneAcked
<1>2. CASE Skip(w)
  BY <1>2, <1>a, <1>b, StepMoves DEF StepsOfPayment
<1>3. CASE BuildFails(w)
  BY <1>3 DEF BuildFails
<1>4. CASE TranslateMessage(w)
  BY <1>4, <1>a, <1>c, <1>e, StepMoves DEF StepsOfPayment, At
<1>5. CASE PostEvents(w)
  <2>1. PICK retriable \in SUBSET Events(tx), refused \in SUBSET Events(tx) :
          /\ axelar' = axelar \cup (Events(tx) \ (retriable \cup refused))
          /\ IF retriable # {}
             THEN Republish(w)
             ELSE /\ Ack(w)
                  /\ gaveUp' = IF refused = {} THEN gaveUp ELSE gaveUp \cup {"refused"}
    BY <1>5 DEF PostEvents
  <2>2. work[w].pc # "idle"
    BY <1>5 DEF PostEvents, At
  <2>3. retriable = {}
    BY <1>a, <1>d, <1>e, <2>1, <2>2, RepublishFrees
  <2>4. refused = {}
    BY <2>1, <2>3
  <2> QED
    BY <2>1, <2>3, <2>4
<1>6. CASE UpdateVerifyTx(w)
  <2>1. /\ At(w, "verify_tx") /\ Freed(w, "acked") /\ Holds(w, "tx")
        /\ ~(Route(tx) = "payment" /\ tx.message = "add_gas")
    BY <1>6, <1>a, <1>b, <1>c, <1>e, StepMoves
  <2>2. tx.message = "add_reserves"
    BY <2>1 DEF StepsOfPayment, At
  <2> QED
    BY <2>2 DEF Events
<1>7. CASE UpdateQuorumReachedTask(w) \/ ReportExecuted(w)
  BY <1>7, <1>a, <1>b, <1>c, <1>d, <1>e, StepMoves DEF Holds
<1>8. CASE ConstructProof(w) \/ CannotExecute(w) \/ UpsertRetries(w)
  BY <1>8, <1>a, <1>b, <1>c, <1>e, StepMoves DEF Holds
<1>9. CASE ReadRetries(w)
  BY <1>9, <1>a, <1>d, <1>e, StepMoves DEF NoneAcked
<1>10. CASE CallFails(w) \/ WorkerStops(w)
  BY <1>10, <1>a, <1>d, <1>e, StepMoves
<1>11. CASE FindRow(w) \/ UpsertRow(w) \/ BuildMessage(w) \/ SetInitialized(w)
  BY <1>11, <1>a, <1>c, <1>e, StepMoves
<1>12. CASE MakeEvents(w) \/ ProverTx(w)
  BY <1>12, <1>a, <1>c, <1>d, <1>e, StepMoves
<1>13. CASE VerifyBroadcast(w) \/ UpdateVerifyTask(w) \/ SetVerified(w) \/ ConfirmBroadcast(w)
            \/ UpdateRouteTx(w) \/ SetRouted(w) \/ StorePayload(w) \/ RetryBroadcast(w)
  BY <1>13, <1>a, <1>c, <1>e, StepMoves
<1> QED
  BY <1>1, <1>2, <1>3, <1>4, <1>5, <1>6, <1>7, <1>8, <1>9, <1>10, <1>11, <1>12, <1>13
     DEF WorkerStep

LEMMA BatchStep ==
    ASSUME IngestorParts, BatchComplete, [Next]_vars
    PROVE  BatchComplete'
<1>1. ASSUME NEW w \in Workers, WorkerStep(w) \/ CallFails(w) \/ WorkerStops(w)
      PROVE  BatchComplete'
  BY <1>1, BatchWorker
<1>2. ASSUME NEW slot \in Slots, Enqueue(slot), UNCHANGED <<axelar, gaveUp>>, UNCHANGED subject
      PROVE  BatchComplete'
  <2>1. Finished("tx")' => Finished("tx")
    BY <1>2 DEF Enqueue, Finished, Slots, Items, IngestorParts, IngestorTypeOK, DeliveriesOK
  <2> QED
    BY <1>2, <2>1 DEF BatchComplete, subject
<1>3. CASE AxelarStep \/ \E item \in Items \ {"tx", "retry"} : Duplicate(item)
  <2>1. UNCHANGED subject
    BY <1>3 DEF AxelarStep, IssueTask, IssueRetry, Duplicate
  <2> QED
    BY <1>2, <1>3, <2>1, ExternalArrives
<1>4. CASE UNCHANGED ingestorVars
  BY <1>4 DEF ingestorVars, BatchComplete, Finished
<1>5. ASSUME UNCHANGED <<subject, work, row, axelar, quorum, retryVars, gaveUp, disturbances>>,
             NEW c \in Copies, Enqueue(<<"tx", c>>)
      PROVE  BatchComplete'
  <2>1. <<"tx", c>> \in Slots
    BY DEF Slots, Items
  <2> QED
    BY <1>2, <1>5, <2>1
<1> QED
  BY <1>1, <1>3, <1>4, <1>5, StepOfIngestor DEF IngestorNext
-----------------------------------------------------------------------------
(***************************************************************************)
(* What the events of a payment say.                                       *)
(***************************************************************************)
\* The next step of a worker fits the price of the payment.
PriceFits(w) ==
    /\ work'[w].pc = "post_events" => HasPrice(tx)
    /\ /\ work'[w].slot[1] = "tx" /\ work'[w].pc \in {"verify_cast", "verify_tx"}
       /\ Route(tx) = "payment" /\ tx.message = "add_gas"
       => HasPrice(tx)

LEMMA PriceKept ==
    ASSUME CreditIsPriced, NEW w \in Workers, OthersKept(w), UNCHANGED subject, PriceFits(w),
           "GAS_CREDIT" \in axelar' =>
               "GAS_CREDIT" \in axelar \/ (Builds(tx) /\ HasPrice(tx) /\ "GAS_CREDIT" \in Events(tx))
    PROVE  CreditIsPriced'
<1>1. tx' = tx
  BY DEF subject
<1> QED
  BY <1>1 DEF CreditIsPriced, PriceFits, OthersKept, Holds, At

LEMMA PriceWorker ==
    ASSUME IngestorParts, CreditIsPriced, NEW w \in Workers,
           WorkerStep(w) \/ CallFails(w) \/ WorkerStops(w)
    PROVE  CreditIsPriced'
<1> USE DEF IngestorParts, IngestorTypeOK
<1>a. DeliveriesOK /\ OneHolder /\ RecordsOK /\ UNCHANGED subject
  BY StepRecords DEF IngestorNext, Grows
<1>b. ASSUME NEW place, Freed(w, place)
      PROVE  OthersKept(w) /\ PriceFits(w)
  BY <1>b, IdleFacts DEF Freed, OthersKept, PriceFits
<1>c. ASSUME NEW pc, Moved(w, pc)
      PROVE  /\ OthersKept(w)
             /\ pc \notin {"post_events", "verify_cast", "verify_tx"} => PriceFits(w)
             /\ pc # "post_events" /\ ~Holds(w, "tx") => PriceFits(w)
             /\ HasPrice(tx) => PriceFits(w)
  BY <1>c DEF Moved, OthersKept, PriceFits, Holds
<1>1. CASE Deliver(w)
  <2>1. OthersKept(w) /\ UNCHANGED axelar
    BY <1>1, <1>a, DeliverTakes DEF OthersKept, Deliver
  <2>2. PICK slot \in Slots : work'[w].slot = slot /\ work'[w].pc \in FirstSteps(slot[1])
    BY <1>1, <1>a, DeliverTakes
  <2>3. PriceFits(w)
    BY <2>2 DEF FirstSteps, RetrySteps, Slots, Items, PriceFits
  <2> QED
    BY <1>a, <2>1, <2>3, PriceKept
<1>2. CASE PostEvents(w)
  <2>1. OthersKept(w) /\ PriceFits(w) /\ Holds(w, "tx") /\ At(w, "post_events")
    BY <1>2, <1>a, <1>b, StepMoves
  <2>2. Builds(tx) /\ HasPrice(tx)
    BY <2>1 DEF StepsOfPayment, CreditIsPriced, At
  <2>3. "GAS_CREDIT" \in axelar' => "GAS_CREDIT" \in axelar \/ "GAS_CREDIT" \in Events(tx)
    BY <1>2 DEF PostEvents
  <2> QED
    BY <1>a, <2>1, <2>2, <2>3, PriceKept
<1>3. CASE BuildMessage(w)
  <2>1. OthersKept(w) /\ PriceFits(w)
    BY <1>3, <1>a, <1>c, StepMoves DEF PriceFits, Moved
  <2> QED
    BY <1>a, <1>3, <2>1, PriceKept DEF BuildMessage
<1>4. CASE MakeEvents(w)
  <2>1. OthersKept(w) /\ PriceFits(w)
    BY <1>4, <1>a, <1>b, <1>c, StepMoves
  <2> QED
    BY <1>a, <1>4, <2>1, PriceKept DEF MakeEvents
<1>5. CASE ProverTx(w)
  <2>1. Route(tx) = "prover"
    BY <1>5, <1>a, StepMoves DEF StepsOfPayment
  <2>2. OthersKept(w) /\ PriceFits(w)
    BY <1>5, <1>a, <1>b, <1>c, <2>1, StepMoves DEF PriceFits, Moved
  <2> QED
    BY <1>a, <1>5, <2>2, PriceKept DEF ProverTx
<1>6. CASE VerifyBroadcast(w)
  <2>1. OthersKept(w) /\ PriceFits(w)
    BY <1>6, <1>a, <1>c, StepMoves DEF PriceFits, Moved, CreditIsPriced, At, Holds
  <2> QED
    BY <1>a, <1>6, <2>1, PriceKept DEF VerifyBroadcast, Broadcast
<1>7. CASE UpdateVerifyTx(w)
  <2>1. OthersKept(w) /\ PriceFits(w)
    BY <1>7, <1>a, <1>b, <1>c, StepMoves DEF PriceFits, Moved, CreditIsPriced, At, Holds
  <2> QED
    BY <1>a, <1>7, <2>1, PriceKept DEF UpdateVerifyTx
<1>8. CASE UpdateVerifyTask(w)
  <2>1. OthersKept(w) /\ PriceFits(w)
    <3>1. Moved(w, "verify_cast") /\ Holds(w, "verify")
      BY <1>8, <1>a, StepMoves
    <3> QED
      BY <1>c, <3>1 DEF Holds
  <2> QED
    BY <1>a, <1>8, <2>1, PriceKept DEF UpdateVerifyTask
<1>9. CASE ReadRetries(w)
  <2>1. OthersKept(w) /\ PriceFits(w)
    <3>1. CASE Freed(w, "queued")
      BY <1>b, <3>1
    <3>2. CASE ~Freed(w, "queued")
      <4>1. /\ work'[w] = [slot |-> work[w].slot, pc |-> "retry_cast", read |-> retries]
            /\ \A v \in Workers \ {w} : work'[v] = work[v]
        BY <1>9, <1>a, <3>2, StepMoves
      <4>2. work'[w].pc = "retry_cast"
        BY <4>1
      <4> QED
        BY <4>1, <4>2 DEF OthersKept, PriceFits
    <3> QED
      BY <3>1, <3>2
  <2> QED
    BY <1>a, <1>9, <2>1, PriceKept DEF ReadRetries
<1>10. CASE CallFails(w) \/ WorkerStops(w)
  <2>1. OthersKept(w) /\ PriceFits(w)
    BY <1>10, <1>a, <1>b, StepMoves
  <2>2. "GAS_CREDIT" \in axelar' => "GAS_CREDIT" \in axelar
    BY <1>10 DEF CallFails, WorkerStops, Effect
  <2> QED
    BY <1>a, <2>1, <2>2, PriceKept
<1>11. CASE FindRow(w) \/ UpsertRow(w)
  <2>1. OthersKept(w) /\ PriceFits(w)
    <3>1. PICK pc \in {"upsert", "build", "prover", "skip"} : Moved(w, pc)
      <4>1. AfterRow \in {"build", "prover", "skip"}
        BY DEF AfterRow
      <4>2. \/ Moved(w, IF row = NoRow THEN "upsert" ELSE AfterRow)
            \/ Moved(w, AfterRow)
        BY <1>11, <1>a, StepMoves
      <4> QED
        BY <4>1, <4>2
    <3> QED
      BY <1>c, <3>1
  <2> QED
    BY <1>a, <1>11, <2>1, PriceKept DEF FindRow, UpsertRow
<1>12. CASE Skip(w) \/ BuildFails(w) \/ TranslateMessage(w) \/ SetInitialized(w)
  <2>1. OthersKept(w) /\ PriceFits(w)
    <3>1. Freed(w, "acked") \/ Moved(w, "initialized") \/ Moved(w, "events")
      BY <1>12, <1>a, StepMoves
    <3> QED
      BY <1>b, <1>c, <3>1
  <2> QED
    BY <1>a, <1>12, <2>1, PriceKept DEF Skip, BuildFails, TranslateMessage, SetInitialized
<1>13. CASE UpdateQuorumReachedTask(w) \/ SetVerified(w) \/ ConfirmBroadcast(w) \/ UpdateRouteTx(w)
            \/ SetRouted(w) \/ ReportExecuted(w)
  <2>1. OthersKept(w) /\ PriceFits(w)
    <3>1. \/ Freed(w, "acked") \/ Freed(w, "queued") \/ Moved(w, "verified") \/ Moved(w, "confirm")
          \/ Moved(w, "route_tx") \/ Moved(w, "routed") \/ Moved(w, "executed")
      BY <1>13, <1>a, StepMoves
    <3> QED
      BY <1>b, <1>c, <3>1
  <2>2. "GAS_CREDIT" \in axelar' => "GAS_CREDIT" \in axelar
    BY <1>13 DEF UpdateQuorumReachedTask, SetVerified, ConfirmBroadcast, Broadcast, UpdateRouteTx,
                 SetRouted, ReportExecuted
  <2> QED
    BY <1>a, <2>1, <2>2, PriceKept
<1>14. CASE StorePayload(w) \/ ConstructProof(w) \/ CannotExecute(w) \/ RetryBroadcast(w)
            \/ UpsertRetries(w)
  <2>1. OthersKept(w) /\ PriceFits(w)
    <3>1. \/ Freed(w, "acked") \/ Moved(w, "construct") \/ Moved(w, "cannot_execute")
          \/ Moved(w, "save_retries")
      BY <1>14, <1>a, StepMoves
    <3> QED
      BY <1>b, <1>c, <3>1
  <2>2. "GAS_CREDIT" \in axelar' => "GAS_CREDIT" \in axelar
    BY <1>14 DEF StorePayload, ConstructProof, Broadcast, CannotExecute, RetryBroadcast, UpsertRetries
  <2> QED
    BY <1>a, <2>1, <2>2, PriceKept
<1> QED
  BY <1>1, <1>2, <1>3, <1>4, <1>5, <1>6, <1>7, <1>8, <1>9, <1>10, <1>11, <1>12, <1>13, <1>14
     DEF WorkerStep

LEMMA PriceStep ==
    ASSUME IngestorParts, CreditIsPriced, [Next]_vars
    PROVE  CreditIsPriced'
<1>1. ASSUME NEW w \in Workers, WorkerStep(w) \/ CallFails(w) \/ WorkerStops(w)
      PROVE  CreditIsPriced'
  BY <1>1, PriceWorker
<1>2. ASSUME UNCHANGED <<work, axelar, tx>>
      PROVE  CreditIsPriced'
  BY <1>2 DEF CreditIsPriced, Holds, At
<1>3. CASE AxelarStep \/ \E item \in Items \ {"tx", "retry"} : Duplicate(item)
  BY <1>2, <1>3 DEF AxelarStep, IssueTask, IssueRetry, Duplicate, subject
<1>4. CASE UNCHANGED ingestorVars
  BY <1>2, <1>4 DEF ingestorVars
<1>5. CASE UNCHANGED <<subject, work, row, axelar, quorum, retryVars, gaveUp, disturbances>>
  BY <1>2, <1>5 DEF subject
<1> QED
  BY <1>1, <1>3, <1>4, <1>5, StepOfIngestor DEF IngestorNext
-----------------------------------------------------------------------------
\* Multiplying both sides, and dividing with a remainder.
LEMMA TimesMonotone ==
    ASSUME NEW a \in Int, NEW b \in Int, NEW k \in Nat, a <= b
    PROVE  a * k <= b * k
OBVIOUS

LEMMA TimesStrict ==
    ASSUME NEW a \in Int, NEW b \in Int, NEW k \in Nat \ {0}, a < b
    PROVE  a * k < b * k
OBVIOUS

LEMMA QuotientBounds ==
    ASSUME NEW n \in Nat, NEW s \in Nat \ {0}
    PROVE  /\ n \div s \in Nat
           /\ s * (n \div s) <= n /\ n < s * ((n \div s) + 1)
OBVIOUS

\* The gas in drops and the transfer in units, each truncated, are worth what
\* was paid, less than one drop and one unit short.
LEMMA TruncationsBounded ==
    ASSUME NEW s \in Nat \ {0}, NEW p \in Nat, NEW u \in Nat \ {0}, NEW g \in Nat, NEW a \in Nat,
           NEW d \in Nat, NEW n \in Nat,
           s * d <= g * p, g * p < s * (d + 1),
           s * n <= a * u, a * u < s * (n + 1)
    PROVE  /\ s * (n * p + d * u) <= (a + g) * u * p
           /\ (a + g) * u * p < s * ((n + 1) * p + (d + 1) * u)
<1>1. (s * d) * u <= (g * p) * u /\ (g * p) * u < (s * (d + 1)) * u
  BY TimesMonotone, TimesStrict
<1>2. (s * n) * p <= (a * u) * p /\ (a * u) * p <= (s * (n + 1)) * p
  BY TimesMonotone
<1>3. s * (n * p + d * u) = (s * n) * p + (s * d) * u
  OBVIOUS
<1>4. s * ((n + 1) * p + (d + 1) * u) = (s * (n + 1)) * p + (s * (d + 1)) * u
  OBVIOUS
<1>5. (a + g) * u * p = (a * u) * p + (g * p) * u
  OBVIOUS
<1> QED
  BY <1>1, <1>2, <1>3, <1>4, <1>5

\* The credit and the transfer of a priced payment account for its amount.
LEMMA PricedIsAccounted ==
    ASSUME RecordsOK, CreditIsPriced
    PROVE  AmountsAccounted
<1> DEFINE xrp == tx.token = "XRP"
           price == IF xrp THEN Scale ELSE PriceOf(tx.token)
           unit == IF xrp THEN Scale ELSE Unit[tx.token]
           spent == IF "ITS" \in Events(tx) THEN TokenSpent(tx) ELSE 0
           gas == GasFee(tx)
           kept == IF "ITS" \in Events(tx) THEN TransferAmount(tx) ELSE 0
<1> SUFFICES ASSUME "GAS_CREDIT" \in axelar
             PROVE  /\ Scale * (spent * price + CreditedDrops(tx) * unit) <= tx.amount * unit * price
                    /\ tx.amount * unit * price
                         < Scale * ((spent + 1) * price + (CreditedDrops(tx) + 1) * unit)
  BY DEF AmountsAccounted
<1>1. Builds(tx) /\ HasPrice(tx) /\ "GAS_CREDIT" \in Events(tx)
  BY DEF CreditIsPriced
<1>2. tx.amount \in Nat /\ tx.gas \in Nat
  BY IngestorAssumption DEF RecordsOK, TxType
<1>3. Scale \in Nat \ {0}
  BY IngestorAssumption
<1>4. price \in Nat /\ unit \in Nat \ {0}
  BY <1>1, <1>3, IngestorAssumption DEF HasPrice, PriceOf
<1>5. "ITS" \in Events(tx) <=> tx.message = "transfer"
  BY <1>1 DEF Events
<1>6. gas \in Nat /\ kept \in Nat /\ kept + gas = tx.amount
  <2>1. CASE tx.message = "transfer"
    <3>1. tx.gas <= tx.amount
      BY <1>1, <2>1 DEF Builds, TransferBuilds
    <3> QED
      BY <1>2, <1>5, <2>1, <3>1 DEF GasFee, TransferAmount
  <2>2. CASE tx.message # "transfer"
    BY <1>2, <1>5, <2>2 DEF GasFee
  <2> QED
    BY <2>1, <2>2
<1>7. /\ CreditedDrops(tx) \in Nat
      /\ Scale * CreditedDrops(tx) <= gas * price /\ gas * price < Scale * (CreditedDrops(tx) + 1)
  <2>1. CASE xrp
    <3>1. CreditedDrops(tx) = gas /\ price = Scale
      BY <2>1 DEF CreditedDrops
    <3> HIDE DEF gas, price
    <3> QED
      BY <1>3, <1>6, <3>1
  <2>2. CASE ~xrp
    <3>1. CreditedDrops(tx) = (gas * price) \div Scale
      BY <2>2 DEF CreditedDrops, convert_token_amount_to_drops
    <3> HIDE DEF gas, price
    <3>2. gas * price \in Nat
      BY <1>4, <1>6
    <3> QED
      BY <1>3, <3>1, <3>2, QuotientBounds
  <2> QED
    BY <2>1, <2>2
<1>8. /\ spent \in Nat
      /\ Scale * spent <= kept * unit /\ kept * unit < Scale * (spent + 1)
  <2>1. CASE "ITS" \notin Events(tx)
    <3>1. spent = 0 /\ kept = 0
      BY <2>1
    <3> HIDE DEF spent, kept, unit
    <3> QED
      BY <1>3, <1>4, <3>1
  <2>2. CASE "ITS" \in Events(tx) /\ xrp
    <3>1. spent = kept /\ unit = Scale
      BY <2>2 DEF TokenSpent
    <3> HIDE DEF spent, kept, unit
    <3> QED
      BY <1>3, <1>6, <3>1
  <2>3. CASE "ITS" \in Events(tx) /\ ~xrp
    <3>1. spent = (kept * unit) \div Scale
      BY <2>3 DEF TokenSpent
    <3> HIDE DEF spent, kept, unit
    <3>2. kept * unit \in Nat
      BY <1>4, <1>6
    <3> QED
      BY <1>3, <3>1, <3>2, QuotientBounds
  <2> QED
    BY <2>1, <2>2, <2>3
<1> HIDE DEF spent, kept, unit, gas, price, xrp
<1> QED
  BY <1>3, <1>4, <1>6, <1>7, <1>8, TruncationsBounded
-----------------------------------------------------------------------------
(***************************************************************************)
(* The status of a transaction.                                            *)
(***************************************************************************)
AckedStay == \A slot \in Slots : at[slot] = "acked" => at'[slot] = "acked"

\* A row gets one of the last two statuses when the transaction is verified.
VerifiedFirst ==
    row'.status \in {"Verified", "Routed"} =>
        row.status \in {"Verified", "Routed"} \/ "verified" \in axelar

\* Axelar is told of a message by the last step of its transaction.
ToldLast ==
    IsGmp(tx) /\ ("CALL" \in axelar' \/ "verified" \in axelar') =>
        "CALL" \in axelar \/ "verified" \in axelar \/ at'[<<"tx", 1>>] = "acked"

\* A routed transaction is about to be reported, or has been.
RoutedLast(w) ==
    Reportable /\ row'.status = "Routed" =>
        \/ row.status = "Routed" /\ ~At(w, "executed")
        \/ work'[w].slot[1] = "quorum" /\ work'[w].pc = "executed"
        \/ at'[<<"quorum", 1>>] = "acked"

LEMMA OrderKept ==
    ASSUME StatusInOrder, RecordsOK, Grows, NEW w \in Workers, OthersKept(w), AckedStay,
           \A slot \in Slots : at'[slot] = "absent" => at[slot] = "absent",
           disturbances' = 0 /\ OneCopy =>
               /\ \A c \in Copies \ {1} : at'[<<"quorum", c>>] = "absent" <=> at[<<"quorum", c>>] = "absent"
               /\ VerifiedFirst /\ ToldLast /\ RoutedLast(w)
    PROVE  StatusInOrder'
<1> SUFFICES ASSUME disturbances' = 0, OneCopy'
             PROVE  /\ \A c \in Copies \ {1} : at'[<<"quorum", c>>] = "absent"
                    /\ row'.status \in {"Verified", "Routed"} => "verified" \in axelar'
                    /\ IsGmp(tx)' /\ ("CALL" \in axelar' \/ "verified" \in axelar') => at'[<<"tx", 1>>] = "acked"
                    /\ Reportable' /\ row'.status = "Routed" =>
                          \/ at'[<<"quorum", 1>>] = "acked"
                          \/ \E v \in Workers : work'[v].slot[1] = "quorum" /\ work'[v].pc = "executed"
  BY DEF StatusInOrder, Holds, At
<1>1. disturbances = 0 /\ OneCopy
  BY OneCopyBefore DEF Grows, RecordsOK
<1>2. VerifiedFirst /\ ToldLast /\ RoutedLast(w)
  BY <1>1
<1>3. tx' = tx
  BY DEF Grows, subject
<1>4. <<"tx", 1>> \in Slots /\ <<"quorum", 1>> \in Slots
  BY IngestorAssumption DEF Slots, Items
<1>5. \A c \in Copies \ {1} : at'[<<"quorum", c>>] = "absent"
  BY <1>1 DEF StatusInOrder
<1>6. row'.status \in {"Verified", "Routed"} => "verified" \in axelar'
  BY <1>1, <1>2 DEF StatusInOrder, VerifiedFirst, Grows
<1>7. IsGmp(tx)' /\ ("CALL" \in axelar' \/ "verified" \in axelar') => at'[<<"tx", 1>>] = "acked"
  BY <1>1, <1>2, <1>3, <1>4 DEF StatusInOrder, ToldLast, AckedStay
<1>8. ASSUME Reportable', row'.status = "Routed"
      PROVE  \/ at'[<<"quorum", 1>>] = "acked"
             \/ \E v \in Workers : work'[v].slot[1] = "quorum" /\ work'[v].pc = "executed"
  <2>1. Reportable
    BY <1>3, <1>8 DEF Reportable
  <2>2. CASE row.status = "Routed" /\ ~At(w, "executed")
    BY <1>1, <1>4, <2>1, <2>2 DEF StatusInOrder, AckedStay, OthersKept, At, Holds
  <2> QED
    BY <1>2, <1>8, <2>1, <2>2 DEF RoutedLast
<1> QED
  BY <1>5, <1>6, <1>7, <1>8

\* The slot a worker holds is in use, and is the only one of its kind when
\* nothing has been duplicated.
LEMMA HeldSlot ==
    ASSUME DeliveriesOK, OneHolder, NEW w \in Workers, work[w].pc # "idle"
    PROVE  /\ work[w].slot \in Slots /\ at[work[w].slot] = "worker"
           /\ OneCopy /\ Holds(w, "tx") => work[w].slot = <<"tx", 1>>
           /\ StatusInOrder /\ disturbances = 0 /\ OneCopy /\ Holds(w, "quorum")
                => work[w].slot = <<"quorum", 1>>
<1>1. work[w].slot \in Slots /\ at[work[w].slot] = "worker"
  BY BusyFacts DEF OneHolder
<1>2. PICK item \in Items, c \in Copies : work[w].slot = <<item, c>>
  BY <1>1 DEF Slots
<1>3. at[<<item, c>>] = "worker"
  BY <1>1, <1>2
<1>4. OneCopy /\ Holds(w, "tx") => work[w].slot = <<"tx", 1>>
  BY <1>2, <1>3 DEF OneCopy, Holds
<1>5. StatusInOrder /\ disturbances = 0 /\ OneCopy /\ Holds(w, "quorum")
         => work[w].slot = <<"quorum", 1>>
  BY <1>2, <1>3 DEF StatusInOrder, Holds
<1> QED
  BY <1>1, <1>4, <1>5

\* What a worker's step leaves as it was.
LEMMA MoveKeepsOrder ==
    ASSUME DeliveriesOK, OneHolder, NEW w \in Workers, work[w].pc # "idle",
           \/ \E pc : Moved(w, pc)
           \/ \E place \in Places \ {"absent"} : Freed(w, place)
    PROVE  OthersKept(w) /\ AckedStay /\ SameAbsent
<1>1. work[w].slot \in Slots /\ at[work[w].slot] = "worker"
  BY HeldSlot
<1>2. CASE \E pc : Moved(w, pc)
  BY <1>2 DEF Moved, OthersKept, AckedStay, SameAbsent
<1>3. ASSUME NEW place \in Places \ {"absent"}, Freed(w, place)
      PROVE  OthersKept(w) /\ AckedStay /\ SameAbsent
  BY <1>1, <1>3 DEF Freed, OthersKept, AckedStay, SameAbsent
<1> QED
  BY <1>2, <1>3

\* Most steps change neither the status nor what Axelar knows.
LEMMA QuietKept ==
    ASSUME StatusInOrder, RecordsOK, Grows, NEW w \in Workers,
           OthersKept(w) /\ AckedStay /\ SameAbsent,
           row'.status = row.status, ~At(w, "executed"),
           "CALL" \in axelar' => "CALL" \in axelar, "verified" \in axelar' => "verified" \in axelar
    PROVE  StatusInOrder'
<1>1. \A c \in Copies \ {1} : at'[<<"quorum", c>>] = "absent" <=> at[<<"quorum", c>>] = "absent"
  BY DEF SameAbsent, Slots, Items
<1>2. VerifiedFirst /\ ToldLast /\ RoutedLast(w)
  BY DEF VerifiedFirst, ToldLast, RoutedLast
<1> QED
  BY <1>1, <1>2, OrderKept DEF SameAbsent

LEMMA OrderWorker ==
    ASSUME IngestorParts, StatusInOrder, NEW w \in Workers,
           WorkerStep(w) \/ CallFails(w) \/ WorkerStops(w)
    PROVE  StatusInOrder'
<1> USE DEF IngestorParts, IngestorTypeOK
<1>a. DeliveriesOK /\ OneHolder /\ RecordsOK /\ Grows
  BY StepRecords DEF IngestorNext
<1>b. tx' = tx
  BY <1>a DEF Grows, subject
<1>c. ASSUME NEW pc, Moved(w, pc), work[w].pc # "idle"
      PROVE  OthersKept(w) /\ AckedStay /\ SameAbsent
  BY <1>a, <1>c, MoveKeepsOrder
<1>d. ASSUME NEW place \in {"queued", "acked"}, Freed(w, place), work[w].pc # "idle"
      PROVE  OthersKept(w) /\ AckedStay /\ SameAbsent
  BY <1>a, <1>d, MoveKeepsOrder DEF Places
<1>e. ASSUME SameAbsent
      PROVE  /\ \A slot \in Slots : at'[slot] = "absent" => at[slot] = "absent"
             /\ \A c \in Copies : at'[<<"quorum", c>>] = "absent" <=> at[<<"quorum", c>>] = "absent"
  BY <1>e DEF SameAbsent, Slots, Items
<1>f. ASSUME OthersKept(w) /\ AckedStay /\ SameAbsent, ~At(w, "executed"),
             UNCHANGED row \/ (\E column : SetColumn(column)),
             \/ UNCHANGED axelar
             \/ \E fact \in Facts \ {"CALL", "verified"} : axelar' = axelar \cup {fact}
      PROVE  StatusInOrder'
  <2>1. row'.status = row.status
    BY <1>f DEF SetColumn, NoRow, RecordsOK
  <2> QED
    BY <1>a, <1>f, <2>1, QuietKept
<1>1. CASE Deliver(w)
  <2>1. /\ OthersKept(w) /\ AckedStay /\ SameAbsent
        /\ ~At(w, "executed") /\ UNCHANGED <<row, axelar>>
    BY <1>1, <1>a, DeliverTakes, IdleFacts DEF OthersKept, AckedStay, SameAbsent, Deliver, At
  <2> QED
    BY <1>f, <2>1
<1>2. CASE FindRow(w) \/ Skip(w) \/ BuildFails(w) \/ BuildMessage(w) \/ TranslateMessage(w)
  <2>1. /\ work[w].pc # "idle" /\ ~At(w, "executed")
        /\ (\E pc : Moved(w, pc)) \/ Freed(w, "acked")
    BY <1>2, <1>a, StepMoves DEF At
  <2>2. UNCHANGED <<row, axelar>>
    BY <1>2 DEF FindRow, Skip, BuildFails, BuildMessage, TranslateMessage
  <2> QED
    BY <1>c, <1>d, <1>f, <2>1, <2>2
<1>3. CASE MakeEvents(w) \/ ProverTx(w) \/ StorePayload(w) \/ RetryBroadcast(w) \/ UpsertRetries(w)
  <2>1. /\ work[w].pc # "idle" /\ ~At(w, "executed")
        /\ (\E pc : Moved(w, pc)) \/ Freed(w, "acked") \/ Freed(w, "queued")
    BY <1>3, <1>a, StepMoves DEF At
  <2>2. UNCHANGED <<row, axelar>>
    BY <1>3 DEF MakeEvents, ProverTx, StorePayload, RetryBroadcast, UpsertRetries
  <2> QED
    BY <1>c, <1>d, <1>f, <2>1, <2>2
<1>4. CASE UpdateVerifyTx(w) \/ UpdateVerifyTask(w) \/ UpdateQuorumReachedTask(w) \/ UpdateRouteTx(w)
  <2>1. /\ work[w].pc # "idle" /\ ~At(w, "executed")
        /\ (\E pc : Moved(w, pc)) \/ Freed(w, "acked")
    BY <1>4, <1>a, StepMoves DEF At
  <2>2. UNCHANGED axelar /\ \E column : SetColumn(column)
    BY <1>4 DEF UpdateVerifyTx, UpdateVerifyTask, UpdateQuorumReachedTask, UpdateRouteTx
  <2> QED
    BY <1>c, <1>d, <1>f, <2>1, <2>2
<1>5. CASE ConfirmBroadcast(w) \/ ConstructProof(w) \/ CannotExecute(w)
  <2>1. /\ work[w].pc # "idle" /\ ~At(w, "executed")
        /\ (\E pc : Moved(w, pc)) \/ Freed(w, "acked")
    BY <1>5, <1>a, StepMoves DEF At
  <2>2. /\ UNCHANGED row
        /\ \/ UNCHANGED axelar
           \/ \E fact \in {"confirmed", "proof_built", "CANNOT_EXECUTE"} : axelar' = axelar \cup {fact}
    BY <1>5 DEF ConfirmBroadcast, ConstructProof, CannotExecute, Broadcast
  <2> QED
    BY <1>c, <1>d, <1>f, <2>1, <2>2 DEF Facts, EventNames
<1>6. CASE ReadRetries(w)
  <2>1. /\ work[w].pc # "idle" /\ ~At(w, "executed") /\ UNCHANGED <<row, axelar>>
    BY <1>6 DEF ReadRetries, At
  <2>2. CASE Freed(w, "queued")
    BY <1>d, <1>f, <2>1, <2>2
  <2>3. CASE ~Freed(w, "queued")
    <3>1. UNCHANGED at /\ \A v \in Workers \ {w} : work'[v] = work[v]
      BY <1>6, <1>a, <2>3, StepMoves
    <3>2. OthersKept(w) /\ AckedStay /\ SameAbsent
      BY <3>1 DEF OthersKept, AckedStay, SameAbsent
    <3> QED
      BY <1>f, <2>1, <3>2
  <2> QED
    BY <2>2, <2>3
<1>7. CASE UpsertRow(w) \/ SetInitialized(w)
  <2>1. work[w].pc # "idle" /\ \E pc : Moved(w, pc)
    BY <1>7, <1>a, StepMoves DEF At
  <2>2. row'.status \notin {"Verified", "Routed"} /\ UNCHANGED axelar
    BY <1>7, <1>a DEF UpsertRow, SetInitialized, SetStatus, FreshRow, NoRow, RecordsOK
  <2>3. OthersKept(w) /\ AckedStay /\ SameAbsent
    BY <1>c, <2>1
  <2>4. VerifiedFirst /\ ToldLast /\ RoutedLast(w)
    BY <2>2 DEF VerifiedFirst, ToldLast, RoutedLast
  <2> QED
    BY <1>a, <1>e, <2>3, <2>4, OrderKept
<1>8. CASE SetVerified(w) \/ SetRouted(w)
  <2>1. /\ work[w].pc # "idle" /\ Holds(w, "quorum")
        /\ \/ SetVerified(w) /\ Moved(w, "confirm")
           \/ SetRouted(w) /\ Moved(w, "executed")
    BY <1>8, <1>a, StepMoves DEF At
  <2>2. OthersKept(w) /\ AckedStay /\ SameAbsent
    BY <1>c, <2>1
  <2>3. "verified" \in axelar
    <3>1. work[w].slot \in Slots /\ at[work[w].slot] = "worker"
      BY <1>a, <2>1, HeldSlot
    <3>2. PICK c \in Copies : work[w].slot = <<"quorum", c>>
      BY <2>1, <3>1 DEF Holds, Slots
    <3> QED
      BY <3>1, <3>2 DEF TasksFollowFacts
  <2>4. VerifiedFirst /\ ToldLast
    BY <2>3 DEF VerifiedFirst, ToldLast
  <2>5. RoutedLast(w)
    <3>1. CASE SetVerified(w)
      <4>1. row'.status # "Routed"
        BY <1>a, <3>1 DEF SetVerified, SetStatus, NoRow, RecordsOK
      <4> QED
        BY <4>1 DEF RoutedLast
    <3>2. CASE Moved(w, "executed")
      BY <2>1, <3>2 DEF RoutedLast, Moved, Holds
    <3> QED
      BY <2>1, <3>1, <3>2
  <2> QED
    BY <1>a, <1>e, <2>2, <2>4, <2>5, OrderKept
<1>9. CASE VerifyBroadcast(w)
  <2>1. /\ work[w].pc # "idle" /\ work[w].slot[1] \in {"tx", "verify"} /\ At(w, "verify_cast")
        /\ Moved(w, "verify_tx")
    BY <1>9, <1>a, StepMoves DEF At
  <2>2. OthersKept(w) /\ AckedStay /\ SameAbsent
    BY <1>c, <2>1
  <2>3. UNCHANGED row /\ ("CALL" \in axelar' => "CALL" \in axelar)
    BY <1>9 DEF VerifyBroadcast, Broadcast
  <2>4. ToldLast
    <3>1. CASE Holds(w, "tx")
      <4>1. ~IsGmp(tx)
        BY <2>1, <3>1 DEF StepsOfPayment, IsGmp, GmpMessages, At
      <4> QED
        BY <4>1 DEF ToldLast
    <3>2. CASE Holds(w, "verify")
      <4>1. work[w].slot \in Slots /\ at[work[w].slot] = "worker"
        BY <1>a, <2>1, HeldSlot
      <4>2. PICK c \in Copies : work[w].slot = <<"verify", c>>
        BY <3>2, <4>1 DEF Holds, Slots
      <4>3. "CALL" \in axelar
        BY <4>1, <4>2 DEF TasksFollowFacts
      <4> QED
        BY <4>3 DEF ToldLast
    <3> QED
      BY <2>1, <3>1, <3>2 DEF Holds
  <2>5. VerifiedFirst /\ RoutedLast(w)
    BY <2>1, <2>3 DEF VerifiedFirst, RoutedLast, At
  <2> QED
    BY <1>a, <1>e, <2>2, <2>4, <2>5, OrderKept
<1>10. CASE PostEvents(w)
  <2>1. /\ work[w].pc # "idle" /\ Holds(w, "tx") /\ At(w, "post_events")
        /\ Freed(w, "queued") \/ Freed(w, "acked")
    BY <1>10, <1>a, StepMoves DEF At
  <2>2. OthersKept(w) /\ AckedStay /\ SameAbsent
    BY <1>d, <2>1
  <2>3. Freed(w, "acked") \/ Disturbance
    <3>1. PICK retriable \in SUBSET Events(tx), refused \in SUBSET Events(tx) :
            /\ IF retriable \cup refused = {} THEN UNCHANGED disturbances ELSE Disturbance
            /\ IF retriable # {} THEN Republish(w) ELSE Ack(w)
      BY <1>10 DEF PostEvents
    <3>2. CASE retriable # {}
      BY <1>10, <3>1, <3>2 DEF PostEvents
    <3>3. CASE retriable = {}
      BY <1>10, <1>a, <2>1, <3>1, <3>3, AckFrees DEF PostEvents
    <3> QED
      BY <3>2, <3>3
  <2>4. UNCHANGED row
    BY <1>10 DEF PostEvents
  <2>5. ASSUME disturbances' = 0, OneCopy
        PROVE  ToldLast
    <3>1. Freed(w, "acked")
      BY <1>a, <2>3, <2>5 DEF Disturbance, RecordsOK
    <3>2. work[w].slot = <<"tx", 1>>
      BY <1>a, <2>1, <2>5, HeldSlot
    <3> QED
      BY <3>1, <3>2 DEF ToldLast, Freed
  <2>6. VerifiedFirst /\ RoutedLast(w)
    BY <2>1, <2>4 DEF VerifiedFirst, RoutedLast, At
  <2> QED
    BY <1>a, <1>e, <2>2, <2>5, <2>6, OrderKept
<1>11. CASE ReportExecuted(w)
  <2>1. /\ work[w].pc # "idle" /\ Holds(w, "quorum") /\ At(w, "executed")
        /\ Freed(w, "acked") \/ (Freed(w, "queued") /\ ~Reportable)
    BY <1>11, <1>a, StepMoves DEF At
  <2>2. OthersKept(w) /\ AckedStay /\ SameAbsent
    BY <1>d, <2>1
  <2>3. /\ UNCHANGED <<row, disturbances>>
        /\ "CALL" \in axelar' => "CALL" \in axelar
        /\ "verified" \in axelar' => "verified" \in axelar
    BY <1>11 DEF ReportExecuted
  <2>4. VerifiedFirst /\ ToldLast
    BY <2>3 DEF VerifiedFirst, ToldLast
  <2>5. ASSUME disturbances' = 0, OneCopy
        PROVE  RoutedLast(w)
    <3>1. work[w].slot = <<"quorum", 1>>
      BY <1>a, <2>1, <2>3, <2>5, HeldSlot
    <3> QED
      BY <2>1, <3>1 DEF RoutedLast, Freed
  <2> QED
    BY <1>a, <1>e, <2>2, <2>4, <2>5, OrderKept
<1>12. CASE CallFails(w) \/ WorkerStops(w)
  <2>1. disturbances' # 0
    BY <1>12, <1>a DEF CallFails, WorkerStops, Disturbance, RecordsOK
  <2> QED
    BY <2>1 DEF StatusInOrder
<1> QED
  BY <1>1, <1>2, <1>3, <1>4, <1>5, <1>6, <1>7, <1>8, <1>9, <1>10, <1>11, <1>12 DEF WorkerStep

LEMMA OrderStep ==
    ASSUME IngestorParts, StatusInOrder, [Next]_vars
    PROVE  StatusInOrder'
<1>1. ASSUME NEW w \in Workers, WorkerStep(w) \/ CallFails(w) \/ WorkerStops(w)
      PROVE  StatusInOrder'
  BY <1>1, OrderWorker
<1>2. ASSUME NEW slot \in Slots, at[slot] = "absent", Enqueue(slot),
             slot[1] = "quorum" => slot = <<"quorum", 1>>,
             UNCHANGED <<tx, work, row, axelar, disturbances>>
      PROVE  StatusInOrder'
  <2>1. at'[slot] = "queued" /\ \A s \in Slots \ {slot} : at'[s] = at[s]
    BY <1>2 DEF Enqueue, IngestorParts, IngestorTypeOK, DeliveriesOK
  <2>2. OneCopy' => OneCopy
    BY <1>2, <2>1, OneCopyBefore
  <2>3. <<"tx", 1>> \in Slots /\ <<"quorum", 1>> \in Slots /\ \A c \in Copies : <<"quorum", c>> \in Slots
    BY IngestorAssumption DEF Slots, Items
  <2>4. ASSUME NEW c \in Copies \ {1}
        PROVE  at'[<<"quorum", c>>] = at[<<"quorum", c>>]
    BY <1>2, <2>1, <2>3
  <2>5. /\ at[<<"tx", 1>>] = "acked" => at'[<<"tx", 1>>] = "acked"
        /\ at[<<"quorum", 1>>] = "acked" => at'[<<"quorum", 1>>] = "acked"
    BY <1>2, <2>1, <2>3
  <2> QED
    BY <1>2, <2>2, <2>4, <2>5 DEF StatusInOrder, Reportable, Holds, At
<1>3. CASE AxelarStep
  <2>1. UNCHANGED tx
    BY <1>3 DEF AxelarStep, IssueTask, IssueRetry, subject
  <2>2. PICK slot \in Slots :
          /\ at[slot] = "absent" /\ Enqueue(slot)
          /\ UNCHANGED <<work, row, axelar>>
          /\ UNCHANGED disturbances
          /\ slot[1] = "quorum" => slot = <<"quorum", 1>>
    <3>1. \A item \in Items : <<item, 1>> \in Slots
      BY IngestorAssumption DEF Slots
    <3>2. CASE IssueTask("verify", "CALL")
      BY <3>1, <3>2 DEF IssueTask, Items
    <3>3. CASE IssueTask("quorum", "verified")
      BY <3>1, <3>3 DEF IssueTask, Items
    <3>4. ASSUME NEW c \in Copies, IssueRetry(c)
          PROVE  <<"retry", c>> \in Slots
      BY DEF Slots, Items
    <3> QED
      BY <1>3, <3>2, <3>3, <3>4 DEF AxelarStep, IssueRetry
  <2> QED
    BY <1>2, <2>1, <2>2
<1>4. ASSUME NEW item \in Items, Duplicate(item)
      PROVE  StatusInOrder'
  <2>1. disturbances' # 0
    BY <1>4 DEF Duplicate, Disturbance, IngestorParts, IngestorTypeOK, RecordsOK
  <2> QED
    BY <2>1 DEF StatusInOrder
<1>5. CASE UNCHANGED ingestorVars
  BY <1>5 DEF ingestorVars, StatusInOrder, OneCopy, Reportable, Holds, At
<1>6. ASSUME UNCHANGED <<subject, work, row, axelar, quorum, retryVars, gaveUp, disturbances>>,
             NEW c \in Copies, at[<<"tx", c>>] = "absent", Enqueue(<<"tx", c>>)
      PROVE  StatusInOrder'
  <2>1. <<"tx", c>> \in Slots
    BY DEF Slots, Items
  <2> QED
    BY <1>2, <1>6, <2>1 DEF subject
<1> QED
  BY <1>1, <1>3, <1>4, <1>5, <1>6, StepOfIngestor DEF IngestorNext

\* The rank of a row is the position of its status.
LEMMA RankOfStatus ==
    ASSUME NEW r \in [status : {Statuses[k] : k \in 1..4}, set : SUBSET Columns]
    PROVE  /\ Rank(r) \in 1..4 /\ Statuses[Rank(r)] = r.status
           /\ r.status \in {"Detected", "Initialized", "Verified", "Routed"}
           /\ r.status = "Detected" => Rank(r) = 1
           /\ r.status = "Initialized" => Rank(r) = 2
           /\ r.status = "Verified" => Rank(r) = 3
           /\ r.status = "Routed" => Rank(r) = 4
<1>1. PICK k \in 1..4 : r.status = Statuses[k]
  OBVIOUS
<1>2. r # NoRow
  BY <1>1 DEF NoRow, Statuses
<1>3. Rank(r) = CHOOSE n \in 1..4 : Statuses[n] = r.status
  BY <1>2 DEF Rank
<1>4. Rank(r) \in 1..4 /\ Statuses[Rank(r)] = r.status
  BY <1>1, <1>3
<1> QED
  BY <1>4 DEF Statuses

\* A status that is set is not behind the one that is there.
LEMMA StatusSetForward ==
    ASSUME RecordsOK, NEW s \in {"Initialized", "Verified", "Routed"}, SetStatus(s),
           s = "Initialized" => row.status \notin {"Verified", "Routed"},
           s = "Verified" => row.status # "Routed"
    PROVE  Rank(row) <= Rank(row')
<1>1. CASE row = NoRow
  BY <1>1 DEF SetStatus, Rank
<1>2. CASE row # NoRow
  <2>1. /\ row \in [status : {Statuses[k] : k \in 1..4}, set : SUBSET Columns]
        /\ row' = [row EXCEPT !.status = s]
    BY <1>2 DEF RecordsOK, SetStatus
  <2>2. row' \in [status : {Statuses[k] : k \in 1..4}, set : SUBSET Columns] /\ row'.status = s
    BY <2>1 DEF Statuses
  <2> QED
    BY <2>1, <2>2, RankOfStatus
<1> QED
  BY <1>1, <1>2

LEMMA StatusForward ==
    ASSUME IngestorParts, StatusInOrder, [Next]_vars, disturbances = 0, OneCopy, Reportable
    PROVE  Rank(row) <= Rank(row')
<1> USE DEF IngestorParts, IngestorTypeOK
<1>0. Rank(row) \in 0..4
  <2>1. CASE row = NoRow
    BY <2>1 DEF Rank
  <2>2. CASE row # NoRow
    BY <2>2, RankOfStatus DEF RecordsOK
  <2> QED
    BY <2>1, <2>2
<1>1. ASSUME UNCHANGED row
      PROVE  Rank(row) <= Rank(row')
  BY <1>0, <1>1
<1>2. ASSUME NEW column \in Columns, SetColumn(column)
      PROVE  Rank(row) <= Rank(row')
  <2>1. CASE row = NoRow
    BY <1>1, <1>2, <2>1 DEF SetColumn
  <2>2. CASE row # NoRow
    <3>1. /\ row \in [status : {Statuses[k] : k \in 1..4}, set : SUBSET Columns]
          /\ row' = [row EXCEPT !.set = @ \cup {column}]
      BY <1>2, <2>2 DEF RecordsOK, SetColumn
    <3>2. row' \in [status : {Statuses[k] : k \in 1..4}, set : SUBSET Columns] /\ row'.status = row.status
      BY <3>1
    <3> QED
      BY <3>1, <3>2, RankOfStatus
  <2> QED
    BY <2>1, <2>2
<1>3. ASSUME NEW w \in Workers, UpsertRow(w)
      PROVE  Rank(row) <= Rank(row')
  <2>1. row = NoRow
    BY <1>3 DEF UpsertRow, RowInv, UpsertIsFirst
  <2>2. FreshRow \in [status : {Statuses[k] : k \in 1..4}, set : SUBSET Columns] /\ FreshRow.status = "Detected"
    BY DEF FreshRow, Statuses
  <2>3. Rank(row) = 0 /\ Rank(row') = 1
    BY <1>3, <2>1, <2>2, RankOfStatus DEF UpsertRow, Rank
  <2> QED
    BY <2>3
<1>4. ASSUME NEW w \in Workers, SetInitialized(w)
      PROVE  Rank(row) <= Rank(row')
  <2>1. Holds(w, "tx") /\ At(w, "initialized") /\ work[w].pc # "idle"
    BY <1>4, StepMoves DEF At
  <2>2. IsGmp(tx)
    BY <2>1 DEF StepsOfPayment, IsGmp, At
  <2>3. at[<<"tx", 1>>] = "worker"
    BY <2>1, HeldSlot
  <2>4. row.status \notin {"Verified", "Routed"}
    BY <2>2, <2>3 DEF StatusInOrder
  <2> QED
    BY <1>4, <2>4, StatusSetForward DEF SetInitialized
<1>5. ASSUME NEW w \in Workers, SetVerified(w)
      PROVE  Rank(row) <= Rank(row')
  <2>1. Holds(w, "quorum") /\ At(w, "verified") /\ work[w].pc # "idle" /\ work[w] # Idle
    BY <1>5, StepMoves, IdleFacts DEF At
  <2>2. work[w].slot = <<"quorum", 1>> /\ at[<<"quorum", 1>>] = "worker"
    BY <2>1, HeldSlot
  <2>3. ASSUME NEW v \in Workers, Holds(v, "quorum"), At(v, "executed")
        PROVE  FALSE
    <3>1. work[v].slot = <<"quorum", 1>>
      BY <2>3, HeldSlot DEF At
    <3>2. v = w
      BY <2>1, <2>2, <3>1 DEF OneHolder
    <3> QED
      BY <2>1, <2>3, <3>2 DEF At
  <2>4. row.status # "Routed"
    BY <2>2, <2>3 DEF StatusInOrder
  <2> QED
    BY <1>5, <2>4, StatusSetForward DEF SetVerified
<1>6. ASSUME NEW w \in Workers, SetRouted(w)
      PROVE  Rank(row) <= Rank(row')
  BY <1>6, StatusSetForward DEF SetRouted
<1>7. ASSUME NEW w \in Workers, WorkerStep(w) \/ CallFails(w) \/ WorkerStops(w)
      PROVE  Rank(row) <= Rank(row')
  <2>1. CASE UpdateVerifyTx(w) \/ UpdateVerifyTask(w) \/ UpdateQuorumReachedTask(w) \/ UpdateRouteTx(w)
    BY <1>2, <2>1 DEF UpdateVerifyTx, UpdateVerifyTask, UpdateQuorumReachedTask, UpdateRouteTx, Columns
  <2>2. CASE Deliver(w) \/ FindRow(w) \/ Skip(w) \/ BuildFails(w) \/ BuildMessage(w)
             \/ TranslateMessage(w) \/ MakeEvents(w) \/ PostEvents(w) \/ ProverTx(w)
    BY <1>1, <2>2 DEF Deliver, FindRow, Skip, BuildFails, BuildMessage, TranslateMessage, MakeEvents,
                      PostEvents, ProverTx
  <2>3. CASE VerifyBroadcast(w) \/ ConfirmBroadcast(w) \/ ReportExecuted(w) \/ StorePayload(w)
             \/ ConstructProof(w) \/ CannotExecute(w) \/ ReadRetries(w) \/ RetryBroadcast(w)
             \/ UpsertRetries(w) \/ CallFails(w) \/ WorkerStops(w)
    BY <1>1, <2>3 DEF VerifyBroadcast, ConfirmBroadcast, ReportExecuted, StorePayload, ConstructProof,
                      CannotExecute, ReadRetries, RetryBroadcast, UpsertRetries, CallFails, WorkerStops
  <2> QED
    BY <1>3, <1>4, <1>5, <1>6, <1>7, <2>1, <2>2, <2>3 DEF WorkerStep
<1>8. CASE AxelarStep \/ \E item \in Items \ {"tx", "retry"} : Duplicate(item)
  BY <1>1, <1>8 DEF AxelarStep, IssueTask, IssueRetry, Duplicate
<1>9. CASE UNCHANGED ingestorVars
  BY <1>1, <1>9 DEF ingestorVars
<1> QED
  BY <1>1, <1>7, <1>8, <1>9, StepOfIngestor DEF IngestorNext
-----------------------------------------------------------------------------
(***************************************************************************)
(* The theorems about the composition.                                     *)
(***************************************************************************)
\* The parts of the invariant that carry the induction.
LEMMA InitialParts == Init => SubscriberInv /\ IngestorParts
BY SubscriberInitInv, IngestorInitInv DEF Init

LEMMA PartsInduct == SubscriberInv /\ IngestorParts /\ [Next]_vars => (SubscriberInv /\ IngestorParts)'
<1>1. SubscriberInv /\ [Next]_vars => SubscriberInv'
  BY SubscriberStepInv, StepOfSubscriber
<1> QED
  BY <1>1, IngestorStepKeeps

\* Nothing has been told, and no worker has begun.
LEMMA NothingYet ==
    ASSUME IngestorInit
    PROVE  BatchComplete /\ CreditIsPriced /\ StatusInOrder
<1> USE DEF IngestorInit
<1>1. \A w \in Workers : work[w].pc = "idle"
  BY IdleFacts
<1>2. \A c \in Copies : at[<<"tx", c>>] = "absent" /\ at[<<"quorum", c>>] = "absent"
  BY DEF Slots, Items
<1>3. BatchComplete
  BY <1>2 DEF BatchComplete, Finished
<1>4. CreditIsPriced
  BY <1>1 DEF CreditIsPriced, At
<1>5. StatusInOrder
  BY <1>2 DEF StatusInOrder, NoRow
<1> QED
  BY <1>3, <1>4, <1>5

(* The row of xrpl_transactions, what Axelar has been told and the counter  *)
(* of task_retries agree at every await of handle_transaction,              *)
(* handle_verify, handle_wasm_event, handle_construct_proof and             *)
(* handle_retriable_task: a Routed row carries its task and its route, an   *)
(* acknowledged quorum event of a prover payment was reported, an           *)
(* acknowledged ConstructProof task was answered, and the broadcasts of a   *)
(* message stay within MAX_TASK_RETRIES while its counter is not raced.     *)
THEOREM IngestionInvariant == Spec => []IngestionInv
<1>1. SubscriberInv /\ IngestorParts => IngestionInv
  BY CountedWithinLimit DEF IngestionInv, IngestorInv, IngestorParts
<1> QED
  BY <1>1, InitialParts, PartsInduct, PTL DEF Spec

(* A payment that consume_transaction acknowledges has all the events of    *)
(* its batch with the GMP API, however often the batch was refused in part  *)
(* and the delivery republished, for every number of workers and faults.    *)
THEOREM BatchIsComplete == Spec => []BatchComplete
<1>1. Init => BatchComplete
  BY NothingYet DEF Init
<1>2. IngestorParts /\ BatchComplete /\ [Next]_vars => BatchComplete'
  BY BatchStep
<1> QED
  BY <1>1, <1>2, InitialParts, PartsInduct, PTL DEF Spec

(* The gas credit and the transferred amount that payment_to_credit_event   *)
(* and token_spent report account for the payment, short of less than one   *)
(* drop and one unit, for every scale, price, number of decimals and        *)
(* amount.                                                                  *)
THEOREM AmountsAddUp == Spec => []AmountsAccounted
<1>1. Init => CreditIsPriced
  BY NothingYet DEF Init
<1>2. IngestorParts /\ CreditIsPriced /\ [Next]_vars => CreditIsPriced'
  BY PriceStep
<1>3. IngestorParts /\ CreditIsPriced => AmountsAccounted
  BY PricedIsAccounted DEF IngestorParts, IngestorTypeOK
<1> QED
  BY <1>1, <1>2, <1>3, InitialParts, PartsInduct, PTL DEF Spec

(* Without faults and second copies, update_status never moves the row of a *)
(* transaction back, in whatever order its delivery and the deliveries of   *)
(* its tasks are handled; a prover payment that cannot be reported is the   *)
(* exception.                                                               *)
THEOREM StatusOnlyAdvances == Spec => StatusAdvances
<1>1. Init => StatusInOrder
  BY NothingYet DEF Init
<1>2. IngestorParts /\ StatusInOrder /\ [Next]_vars => StatusInOrder'
  BY OrderStep
<1>3. IngestorParts /\ StatusInOrder /\ [Next]_vars
        => [disturbances = 0 /\ OneCopy /\ Reportable => Rank(row) <= Rank(row')]_ingestorVars
  BY StatusForward
<1> QED
  BY <1>1, <1>2, <1>3, InitialParts, PartsInduct, PTL DEF Spec, StatusAdvances
=============================================================================

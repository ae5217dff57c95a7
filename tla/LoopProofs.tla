----------------------------- MODULE LoopProofs -----------------------------
(***************************************************************************)
(* Proofs about the proof loop, for every number of proofs, ticket         *)
(* transactions, workers and faults, and every limit.                      *)
(***************************************************************************)
EXTENDS ProofLoop, FiniteSetTheorems, TLAPS

\* The sets the counters are compared with are finite.
LEMMA LoopFinite ==
    /\ IsFiniteSet(Txs)
    /\ IsFiniteSet(Held) /\ Cardinality(Held) \in Nat
    /\ IsFiniteSet(Uncounted) /\ Cardinality(Uncounted) \in Nat
<1>1. IsFiniteSet(Txs)
  BY LoopAssumption, FS_Union DEF Txs
<1>2. IsFiniteSet(Held) /\ IsFiniteSet(Uncounted)
  BY <1>1, FS_Subset DEF Held, Uncounted
<1> QED
  BY <1>1, <1>2, FS_CardinalityType

\* A published and uncounted retry is one in work.
LEMMA UncountedHeld == Cardinality(Uncounted) <= Cardinality(Held)
<1>1. Uncounted \subseteq Held
  BY DEF Uncounted, Held, Idle
<1> QED
  BY <1>1, LoopFinite, FS_Subset

\* The proof that Axelar signs next is one that was not signed before.
LEMMA NextProofIsNew ==
    ASSUME TypeOK, StepsInOrder, NextProof \in Proofs
    PROVE  step[NextProof] = "none"
<1> DEFINE Signed == {p \in Proofs : step[p] # "none"}
<1>1. Cardinality(Proofs) \in Nat
  BY LoopAssumption, FS_CardinalityType
<1>2. IsFiniteSet(Signed) /\ Cardinality(Signed) \in Nat
  BY LoopAssumption, FS_Subset, FS_CardinalityType
<1>3. SUFFICES ASSUME step[NextProof] # "none"
               PROVE  FALSE
  OBVIOUS
<1>4. NextProof = Cardinality(Signed) + 1
  BY DEF NextProof
<1>5. 1 .. NextProof \subseteq Signed
  <2> SUFFICES ASSUME NEW p \in 1 .. NextProof
               PROVE  p \in Signed
    OBVIOUS
  <2>1. p \in Proofs /\ NextProof \in Int
    BY <1>1, <1>2, <1>4, LoopAssumption
  <2>2. p < NextProof \/ p = NextProof
    BY <2>1
  <2> QED
    BY <1>3, <2>1, <2>2 DEF StepsInOrder
<1>6. Cardinality(1 .. NextProof) = NextProof
  BY <1>2, <1>4, FS_Interval
<1> HIDE DEF Signed
<1> QED
  BY <1>2, <1>4, <1>5, <1>6, FS_Subset

\* All proofs below the next one were signed.
LEMMA SignedBelowNext ==
    ASSUME TypeOK, StepsInOrder, NextProof \in Proofs, NEW p \in Proofs, p < NextProof
    PROVE  step[p] # "none"
<1> DEFINE Signed == {q \in Proofs : step[q] # "none"}
<1>1. Cardinality(Proofs) \in Nat
  BY LoopAssumption, FS_CardinalityType
<1>2. IsFiniteSet(Signed) /\ Cardinality(Signed) \in Nat
  BY LoopAssumption, FS_Subset, FS_CardinalityType
<1>3. NextProof = Cardinality(Signed) + 1
  BY DEF NextProof
<1>4. SUFFICES ASSUME step[p] = "none"
               PROVE  FALSE
  OBVIOUS
<1>5. p \in Nat /\ p \in 1 .. Cardinality(Signed)
  BY <1>1, <1>2, <1>3, LoopAssumption
<1>6. Signed \subseteq 1 .. (p - 1)
  <2> SUFFICES ASSUME NEW q \in Proofs, step[q] # "none"
               PROVE  q \in 1 .. (p - 1)
    OBVIOUS
  <2>1. q \in Nat /\ q >= 1
    BY <1>1, LoopAssumption
  <2>2. ~ (p < q) /\ p # q
    BY <1>4 DEF StepsInOrder
  <2> QED
    BY <1>5, <2>1, <2>2
<1>7. IsFiniteSet(1 .. (p - 1)) /\ Cardinality(1 .. (p - 1)) = p - 1
  <2>1. PICK b \in Int : b = p - 1 /\ b >= 0
    BY <1>5
  <2>2. IsFiniteSet(1 .. b) /\ Cardinality(1 .. b) = IF 1 > b THEN 0 ELSE b - 1 + 1
    BY FS_Interval
  <2>3. Cardinality(1 .. b) = b
    BY <2>1, <2>2
  <2> QED
    BY <2>1, <2>2, <2>3
<1> HIDE DEF Signed
<1>8. Cardinality(Signed) <= p - 1
  BY <1>6, <1>7, FS_Subset
<1> QED
  BY <1>2, <1>5, <1>8

\* What a step does to the deliveries in work and to the uncounted retries.
LEMMA StepMoves ==
    ASSUME TypeOK, NEW t \in Txs, NEW s, step' = [step EXCEPT ![t] = s]
    PROVE  /\ s \in Idle => Held' = Held \ {t}
           /\ s \notin Idle => Held' = Held \cup {t}
           /\ s = "incr" => Uncounted' = Uncounted \cup {t}
           /\ s # "incr" => Uncounted' = Uncounted \ {t}
BY DEF TypeOK, Held, Uncounted

\* A worker that goes on with its delivery, or gives it back, takes no other.
LEMMA StillBounded ==
    ASSUME TypeOK, WorkersBounded, NEW t \in Txs, NEW s, step' = [step EXCEPT ![t] = s],
           s \in Idle \/ step[t] \notin Idle
    PROVE  WorkersBounded'
<1>1. Held' \subseteq Held
  BY StepMoves DEF Held
<1>2. IsFiniteSet(Held') /\ Cardinality(Held') <= Cardinality(Held)
  BY <1>1, LoopFinite, FS_Subset
<1>3. Cardinality(Held') \in Nat
  BY <1>2, FS_CardinalityType
<1> QED
  BY <1>2, <1>3, LoopFinite, LoopAssumption DEF WorkersBounded

\* Steps outside publication and counting leave the number of uncounted retries.
LEMMA StillCounted ==
    ASSUME TypeOK, NEW t \in Txs, NEW s, step' = [step EXCEPT ![t] = s],
           s # "incr", step[t] # "incr"
    PROVE  Uncounted' = Uncounted
BY StepMoves DEF Uncounted

\* What every answer of the node to a submission has in common.
LEMMA SubmitMoves ==
    ASSUME TypeOK, NEW t \in Txs, Submit(t)
    PROVE  /\ step[t] = "submit"
           /\ \E s \in {"ready", "done", "clear", "publish"} :
                /\ step' = [step EXCEPT ![t] = s]
                /\ t \in Tickets => s \in {"ready", "done"}
                /\ t \notin Tickets => s # "done"
           /\ ledger' \in [Txs -> {"unknown", "applied", "queued", "validated"}]
           /\ \A u \in Txs : ledger[u] = "validated" => ledger'[u] = "validated"
           /\ row' \in [Txs -> {"none", "Queued", "Confirmed", "Dropped", "Expired"}]
           /\ \A u \in Txs : row[u] \in {"Queued", "Confirmed"} => row'[u] = row[u]
           /\ \A u \in Txs : row'[u] = "Confirmed" => row[u] = "Confirmed"
           /\ faults' \in 0 .. MaxFaults
           /\ UNCHANGED <<retrierVars, ingestorVars, failures, retryBuf, payload, end, slips, forgotten,
                          checks, listed>>
<1> USE LoopAssumption DEF TypeOK, monitorVars, Fault, NoFault, Goto, Republish, HasMessage, StatusOk,
        log_and_return_error
<1>1. CASE SubmitApplied(t)
  BY <1>1 DEF SubmitApplied, Applied
<1>2. CASE SubmitTef(t)
  BY <1>2 DEF SubmitTef
<1>3. CASE SubmitQueued(t)
  <2>1. \/ row' = row
        \/ row' = [row EXCEPT ![t] = IF row[t] = "none" THEN "Queued" ELSE row[t]]
    BY <1>3 DEF SubmitQueued, Stored
  <2>2. row' \in [Txs -> {"none", "Queued", "Confirmed", "Dropped", "Expired"}]
    BY <2>1
  <2>3. \A u \in Txs : row'[u] = row[u] \/ (row[u] = "none" /\ row'[u] = "Queued")
    BY <2>1
  <2>4. /\ ledger' \in [Txs -> {"unknown", "applied", "queued", "validated"}]
        /\ \A u \in Txs : ledger[u] = "validated" => ledger'[u] = "validated"
        /\ faults' \in 0 .. MaxFaults
    BY <1>3 DEF SubmitQueued
  <2> QED
    BY <1>3, <2>2, <2>3, <2>4 DEF SubmitQueued
<1>4. CASE SubmitRejected(t)
  BY <1>4 DEF SubmitRejected
<1>5. CASE SubmitFails(t)
  BY <1>5 DEF SubmitFails, Applied
<1> QED
  BY <1>1, <1>2, <1>3, <1>4, <1>5 DEF Submit

\* A retry finds its payload because the payload is kept.
LEMMA RetryFromKept == PayloadKept' => RetryPossible'
BY DEF PayloadKept, RetryPossible

\* Steps of the ingestor, of Axelar, of the retrier, of the monitor and of the ledger.
LEMMA OtherStepInv ==
    ASSUME LoopInv,
           \/ IngestorStep \/ AxelarStep \/ RetrierStep \/ MonitorStep \/ FlushRetry \/ FlushTask
           \/ IngestorCrash \/ RetrierCrash \/ FailuresExpire
           \/ \E t \in Txs : Settle(t)
    PROVE  LoopInv'
<1>0. /\ TypeOK /\ ConfirmedIsValidated /\ HandedOver /\ PayloadKept
      /\ RetryBudget /\ ReadBelowLimit /\ WorkersBounded /\ StepsInOrder
  BY DEF LoopInv
<1> USE <1>0, LoopAssumption, LoopFinite DEF includerVars, retrierVars, ingestorVars, monitorVars
<1>1. ASSUME StorePayload
      PROVE  LoopInv'
  <2> USE <1>1 DEF StorePayload
  <2>1. TypeOK'
    BY DEF TypeOK
  <2>2. ConfirmedIsValidated'
    BY DEF TypeOK, ConfirmedIsValidated
  <2>3. HandedOver'
    BY DEF TypeOK, HandedOver, OnItsWay, Settled, Abandoned, Validated
  <2>4. PayloadKept'
    BY DEF TypeOK, PayloadKept
  <2>5. RetryBudget'
    <3>1. Uncounted' = Uncounted
      BY DEF Uncounted
    <3> QED
      BY <3>1 DEF TypeOK, RetryBudget
  <2>6. ReadBelowLimit'
    BY DEF TypeOK, ReadBelowLimit, RetriesBounded
  <2>7. WorkersBounded' /\ StepsInOrder'
    BY DEF WorkersBounded, StepsInOrder, Held
  <2> QED
    BY <2>1, <2>2, <2>3, <2>4, <2>5, <2>6, <2>7, RetryFromKept DEF LoopInv
<1>2. ASSUME RequestProof
      PROVE  LoopInv'
  <2> USE <1>2 DEF RequestProof
  <2>1. TypeOK'
    <3>1. Cardinality({p \in Proofs : step[p] = "none"}) \in Nat
      BY FS_Subset, FS_CardinalityType
    <3>2. sessions' \in Nat
      BY <3>1 DEF TypeOK
    <3> QED
      BY <3>2 DEF TypeOK
  <2>2. ConfirmedIsValidated'
    BY DEF TypeOK, ConfirmedIsValidated
  <2>3. HandedOver'
    <3>1. sessions' >= sessions /\ sessions' \in Nat
      BY <2>1 DEF TypeOK
    <3>2. (Settled => Settled') /\ (Abandoned => Abandoned') /\ (Validated => Settled')
      BY DEF Settled, Abandoned, Validated
    <3>3. CASE ingestor' = "ack" /\ sessions' > sessions
      BY <3>1, <3>3 DEF TypeOK, HandedOver, OnItsWay
    <3>4. CASE Validated
      BY <3>2, <3>4 DEF HandedOver
    <3>5. CASE ingestor' = "report"
      BY <3>5 DEF TypeOK, HandedOver, OnItsWay
    <3> QED
      BY <3>3, <3>4, <3>5
  <2>4. PayloadKept'
    BY DEF TypeOK, PayloadKept
  <2>5. RetryBudget'
    <3>1. Uncounted' = Uncounted
      BY DEF Uncounted
    <3> QED
      BY <3>1 DEF TypeOK, RetryBudget
  <2>6. ReadBelowLimit'
    BY DEF TypeOK, ReadBelowLimit, RetriesBounded
  <2>7. WorkersBounded' /\ StepsInOrder'
    BY DEF WorkersBounded, StepsInOrder, Held
  <2> QED
    BY <2>1, <2>2, <2>3, <2>4, <2>5, <2>6, <2>7, RetryFromKept DEF LoopInv
<1>3. ASSUME ReportDeclined
      PROVE  LoopInv'
  <2> USE <1>3 DEF ReportDeclined, Fault, NoFault
  <2>1. TypeOK'
    <3>1. end' \subseteq {"accepted", "declined", "gaveUp", "lost", "unsigned"}
      BY DEF TypeOK
    <3>2. tasks' \in Nat /\ retries' \in Nat /\ faults' \in 0 .. MaxFaults
      BY DEF TypeOK
    <3> QED
      BY <3>1, <3>2 DEF TypeOK
  <2>2. ConfirmedIsValidated'
    BY DEF TypeOK, ConfirmedIsValidated
  <2>3. HandedOver'
    BY DEF TypeOK, HandedOver, OnItsWay, Settled, Abandoned, Validated
  <2>4. PayloadKept'
    BY DEF TypeOK, PayloadKept
  <2>5. RetryBudget'
    <3>1. Uncounted' = Uncounted
      BY DEF Uncounted
    <3> QED
      BY <3>1 DEF TypeOK, RetryBudget
  <2>6. ReadBelowLimit'
    BY DEF TypeOK, ReadBelowLimit, RetriesBounded
  <2>7. WorkersBounded' /\ StepsInOrder'
    BY DEF WorkersBounded, StepsInOrder, Held
  <2> QED
    BY <2>1, <2>2, <2>3, <2>4, <2>5, <2>6, <2>7, RetryFromKept DEF LoopInv
<1>4. ASSUME AckConstructProof
      PROVE  LoopInv'
  <2> USE <1>4 DEF AckConstructProof
  <2>1. TypeOK'
    BY DEF TypeOK
  <2>2. ConfirmedIsValidated'
    BY DEF TypeOK, ConfirmedIsValidated
  <2>3. HandedOver'
    BY DEF TypeOK, HandedOver, OnItsWay, Settled, Abandoned, Validated
  <2>4. PayloadKept'
    BY DEF TypeOK, PayloadKept
  <2>5. RetryBudget'
    <3>1. Uncounted' = Uncounted
      BY DEF Uncounted
    <3> QED
      BY <3>1 DEF TypeOK, RetryBudget
  <2>6. ReadBelowLimit'
    BY DEF TypeOK, ReadBelowLimit, RetriesBounded
  <2>7. WorkersBounded' /\ StepsInOrder'
    BY DEF WorkersBounded, StepsInOrder, Held
  <2> QED
    BY <2>1, <2>2, <2>3, <2>4, <2>5, <2>6, <2>7, RetryFromKept DEF LoopInv
<1>5. ASSUME IngestorCrash
      PROVE  LoopInv'
  <2> USE <1>5 DEF IngestorCrash, Fault
  <2>1. TypeOK'
    BY DEF TypeOK
  <2>2. ConfirmedIsValidated'
    BY DEF TypeOK, ConfirmedIsValidated
  <2>3. HandedOver'
    BY DEF TypeOK, HandedOver, OnItsWay, Settled, Abandoned, Validated
  <2>4. PayloadKept'
    BY DEF TypeOK, PayloadKept
  <2>5. RetryBudget'
    <3>1. Uncounted' = Uncounted
      BY DEF Uncounted
    <3> QED
      BY <3>1 DEF TypeOK, RetryBudget
  <2>6. ReadBelowLimit'
    BY DEF TypeOK, ReadBelowLimit, RetriesBounded
  <2>7. WorkersBounded' /\ StepsInOrder'
    BY DEF WorkersBounded, StepsInOrder, Held
  <2> QED
    BY <2>1, <2>2, <2>3, <2>4, <2>5, <2>6, <2>7, RetryFromKept DEF LoopInv
<1>6. ASSUME ReadFailures
      PROVE  LoopInv'
  <2> USE <1>6 DEF ReadFailures, TooManyFailures
  <2>1. TypeOK'
    <3>1. end' \subseteq {"accepted", "declined", "gaveUp", "lost", "unsigned"}
      BY DEF TypeOK
    <3>2. tasks' \in Nat /\ retries' \in Nat /\ faults' \in 0 .. MaxFaults
      BY DEF TypeOK
    <3> QED
      BY <3>1, <3>2 DEF TypeOK
  <2>2. ConfirmedIsValidated'
    BY DEF TypeOK, ConfirmedIsValidated
  <2>3. HandedOver'
    BY DEF TypeOK, HandedOver, OnItsWay, Settled, Abandoned, Validated
  <2>4. PayloadKept'
    BY DEF TypeOK, PayloadKept
  <2>5. RetryBudget'
    <3>1. Uncounted' = Uncounted
      BY DEF Uncounted
    <3> QED
      BY <3>1 DEF TypeOK, RetryBudget
  <2>6. ReadBelowLimit'
    BY UncountedHeld DEF TypeOK, RetryBudget, ReadBelowLimit, RetriesBounded, WorkersBounded
  <2>7. WorkersBounded' /\ StepsInOrder'
    BY DEF WorkersBounded, StepsInOrder, Held
  <2> QED
    BY <2>1, <2>2, <2>3, <2>4, <2>5, <2>6, <2>7, RetryFromKept DEF LoopInv
<1>7. ASSUME FetchPayload
      PROVE  LoopInv'
  <2> USE <1>7 DEF FetchPayload, Fault, NoFault
  <2>1. TypeOK'
    BY DEF TypeOK
  <2>2. ConfirmedIsValidated'
    BY DEF TypeOK, ConfirmedIsValidated
  <2>3. HandedOver'
    BY DEF TypeOK, HandedOver, OnItsWay, Settled, Abandoned, Validated
  <2>4. PayloadKept'
    BY DEF TypeOK, PayloadKept
  <2>5. RetryBudget'
    <3>1. Uncounted' = Uncounted
      BY DEF Uncounted
    <3> QED
      BY <3>1 DEF TypeOK, RetryBudget
  <2>6. ReadBelowLimit'
    BY DEF TypeOK, ReadBelowLimit, RetriesBounded
  <2>7. WorkersBounded' /\ StepsInOrder'
    BY DEF WorkersBounded, StepsInOrder, Held
  <2> QED
    BY <2>1, <2>2, <2>3, <2>4, <2>5, <2>6, <2>7, RetryFromKept DEF LoopInv
<1>8. ASSUME AckRetry
      PROVE  LoopInv'
  <2> USE <1>8 DEF AckRetry
  <2>1. TypeOK'
    BY DEF TypeOK
  <2>2. ConfirmedIsValidated'
    BY DEF TypeOK, ConfirmedIsValidated
  <2>3. HandedOver'
    BY DEF TypeOK, HandedOver, OnItsWay, Settled, Abandoned, Validated
  <2>4. PayloadKept'
    BY DEF TypeOK, PayloadKept
  <2>5. RetryBudget'
    <3>1. Uncounted' = Uncounted
      BY DEF Uncounted
    <3> QED
      BY <3>1 DEF TypeOK, RetryBudget
  <2>6. ReadBelowLimit'
    BY DEF TypeOK, ReadBelowLimit, RetriesBounded
  <2>7. WorkersBounded' /\ StepsInOrder'
    BY DEF WorkersBounded, StepsInOrder, Held
  <2> QED
    BY <2>1, <2>2, <2>3, <2>4, <2>5, <2>6, <2>7, RetryFromKept DEF LoopInv
<1>9. ASSUME FlushRetry
      PROVE  LoopInv'
  <2> USE <1>9 DEF FlushRetry
  <2>1. TypeOK'
    BY DEF TypeOK
  <2>2. ConfirmedIsValidated'
    BY DEF TypeOK, ConfirmedIsValidated
  <2>3. HandedOver'
    BY DEF TypeOK, HandedOver, OnItsWay, Settled, Abandoned, Validated
  <2>4. PayloadKept'
    BY DEF TypeOK, PayloadKept
  <2>5. RetryBudget'
    <3>1. Uncounted' = Uncounted
      BY DEF Uncounted
    <3> QED
      BY <3>1 DEF TypeOK, RetryBudget
  <2>6. ReadBelowLimit'
    BY DEF TypeOK, ReadBelowLimit, RetriesBounded
  <2>7. WorkersBounded' /\ StepsInOrder'
    BY DEF WorkersBounded, StepsInOrder, Held
  <2> QED
    BY <2>1, <2>2, <2>3, <2>4, <2>5, <2>6, <2>7, RetryFromKept DEF LoopInv
<1>10. ASSUME FlushTask
      PROVE  LoopInv'
  <2> USE <1>10 DEF FlushTask
  <2>1. TypeOK'
    BY DEF TypeOK
  <2>2. ConfirmedIsValidated'
    BY DEF TypeOK, ConfirmedIsValidated
  <2>3. HandedOver'
    BY DEF TypeOK, HandedOver, OnItsWay, Settled, Abandoned, Validated
  <2>4. PayloadKept'
    BY DEF TypeOK, PayloadKept
  <2>5. RetryBudget'
    <3>1. Uncounted' = Uncounted
      BY DEF Uncounted
    <3> QED
      BY <3>1 DEF TypeOK, RetryBudget
  <2>6. ReadBelowLimit'
    BY DEF TypeOK, ReadBelowLimit, RetriesBounded
  <2>7. WorkersBounded' /\ StepsInOrder'
    BY DEF WorkersBounded, StepsInOrder, Held
  <2> QED
    BY <2>1, <2>2, <2>3, <2>4, <2>5, <2>6, <2>7, RetryFromKept DEF LoopInv
<1>11. ASSUME RetrierCrash
      PROVE  LoopInv'
  <2> USE <1>11 DEF RetrierCrash, Fault
  <2>1. TypeOK'
    BY DEF TypeOK
  <2>2. ConfirmedIsValidated'
    BY DEF TypeOK, ConfirmedIsValidated
  <2>3. HandedOver'
    BY DEF TypeOK, HandedOver, OnItsWay, Settled, Abandoned, Validated
  <2>4. PayloadKept'
    BY DEF TypeOK, PayloadKept
  <2>5. RetryBudget'
    <3>1. Uncounted' = Uncounted
      BY DEF Uncounted
    <3> QED
      BY <3>1 DEF TypeOK, RetryBudget
  <2>6. ReadBelowLimit'
    BY DEF TypeOK, ReadBelowLimit, RetriesBounded
  <2>7. WorkersBounded' /\ StepsInOrder'
    BY DEF WorkersBounded, StepsInOrder, Held
  <2> QED
    BY <2>1, <2>2, <2>3, <2>4, <2>5, <2>6, <2>7, RetryFromKept DEF LoopInv
<1>12. ASSUME FailuresExpire
      PROVE  LoopInv'
  <2> USE <1>12 DEF FailuresExpire, Fault
  <2>1. TypeOK'
    BY DEF TypeOK
  <2>2. ConfirmedIsValidated'
    BY DEF TypeOK, ConfirmedIsValidated
  <2>3. HandedOver'
    BY DEF TypeOK, HandedOver, OnItsWay, Settled, Abandoned, Validated
  <2>4. PayloadKept'
    BY DEF TypeOK, PayloadKept
  <2>5. RetryBudget'
    <3>1. Uncounted' = Uncounted
      BY DEF Uncounted
    <3> QED
      BY <3>1 DEF TypeOK, RetryBudget
  <2>6. ReadBelowLimit'
    BY DEF TypeOK, ReadBelowLimit, RetriesBounded
  <2>7. WorkersBounded' /\ StepsInOrder'
    BY DEF WorkersBounded, StepsInOrder, Held
  <2> QED
    BY <2>1, <2>2, <2>3, <2>4, <2>5, <2>6, <2>7, RetryFromKept DEF LoopInv
<1>13. ASSUME NEW t \in Txs, Settle(t)
      PROVE  LoopInv'
  <2> USE <1>13 DEF Settle
  <2>1. TypeOK'
    BY DEF TypeOK
  <2>2. ConfirmedIsValidated'
    BY DEF TypeOK, ConfirmedIsValidated
  <2>3. HandedOver'
    BY DEF TypeOK, HandedOver, OnItsWay, Settled, Abandoned, Validated
  <2>4. PayloadKept'
    BY DEF TypeOK, PayloadKept
  <2>5. RetryBudget'
    <3>1. Uncounted' = Uncounted
      BY DEF Uncounted
    <3> QED
      BY <3>1 DEF TypeOK, RetryBudget
  <2>6. ReadBelowLimit'
    BY DEF TypeOK, ReadBelowLimit, RetriesBounded
  <2>7. WorkersBounded' /\ StepsInOrder'
    BY DEF WorkersBounded, StepsInOrder, Held
  <2> QED
    BY <2>1, <2>2, <2>3, <2>4, <2>5, <2>6, <2>7, RetryFromKept DEF LoopInv
<1>14. ASSUME ListQueued
      PROVE  LoopInv'
  <2> USE <1>14 DEF ListQueued
  <2>1. TypeOK'
    BY DEF TypeOK
  <2>2. ConfirmedIsValidated'
    BY DEF TypeOK, ConfirmedIsValidated
  <2>3. HandedOver'
    BY DEF TypeOK, HandedOver, OnItsWay, Settled, Abandoned, Validated
  <2>4. PayloadKept'
    BY DEF TypeOK, PayloadKept
  <2>5. RetryBudget'
    <3>1. Uncounted' = Uncounted
      BY DEF Uncounted
    <3> QED
      BY <3>1 DEF TypeOK, RetryBudget
  <2>6. ReadBelowLimit'
    BY DEF TypeOK, ReadBelowLimit, RetriesBounded
  <2>7. WorkersBounded' /\ StepsInOrder'
    BY DEF WorkersBounded, StepsInOrder, Held
  <2> QED
    BY <2>1, <2>2, <2>3, <2>4, <2>5, <2>6, <2>7, RetryFromKept DEF LoopInv
<1>15. ASSUME NEW t \in Txs, CheckRow(t)
      PROVE  LoopInv'
  <2> USE <1>15 DEF CheckRow, Fault, NoFault, TooManyChecks, TxStatus, SetRow, IncrementRetry
  <2>1. TypeOK'
    <3>1. row' \in [Txs -> {"none", "Queued", "Confirmed", "Dropped", "Expired"}]
      BY DEF TypeOK
    <3>2. checks' \in [Txs -> 0 .. MaxChecks]
      <4>1. \/ checks' = checks
            \/ checks[t] < MaxChecks /\ checks' = [checks EXCEPT ![t] = checks[t] + 1]
        BY DEF TypeOK
      <4>2. checks[t] < MaxChecks => checks[t] + 1 \in 0 .. MaxChecks
        BY DEF TypeOK
      <4> HIDE <1>15 DEF CheckRow, TxStatus
      <4> QED
        BY <4>1, <4>2 DEF TypeOK
    <3>3. listed' \subseteq {u \in Txs : row'[u] = "Queued"}
      BY DEF TypeOK
    <3>4. faults' \in 0 .. MaxFaults
      BY DEF TypeOK
    <3> QED
      BY <3>1, <3>2, <3>3, <3>4 DEF TypeOK
  <2>2. ConfirmedIsValidated'
    BY DEF TypeOK, ConfirmedIsValidated
  <2>3. HandedOver'
    BY DEF TypeOK, HandedOver, OnItsWay, Settled, Abandoned, Validated
  <2>4. PayloadKept'
    BY DEF TypeOK, PayloadKept
  <2>5. RetryBudget'
    <3>1. Uncounted' = Uncounted
      BY DEF Uncounted
    <3> QED
      BY <3>1 DEF TypeOK, RetryBudget
  <2>6. ReadBelowLimit'
    BY DEF TypeOK, ReadBelowLimit, RetriesBounded
  <2>7. WorkersBounded' /\ StepsInOrder'
    BY DEF WorkersBounded, StepsInOrder, Held
  <2> QED
    BY <2>1, <2>2, <2>3, <2>4, <2>5, <2>6, <2>7, RetryFromKept DEF LoopInv
<1>16. ASSUME Sign
      PROVE  LoopInv'
  <2> USE <1>16 DEF Sign, Goto
  <2>1. NextProof \in Txs /\ NextProof \notin Tickets /\ step[NextProof] = "none"
    BY NextProofIsNew DEF Txs
  <2>2. step' = [step EXCEPT ![NextProof] = "ready"]
    OBVIOUS
  <2>3. TypeOK'
    BY <2>1 DEF TypeOK, Idle
  <2>4. ConfirmedIsValidated'
    BY DEF ConfirmedIsValidated
  <2>5. HandedOver'
    BY <2>1 DEF TypeOK, HandedOver, OnItsWay
  <2>6. PayloadKept'
    BY DEF TypeOK, PayloadKept
  <2>7. RetryBudget'
    <3>1. Uncounted' = Uncounted
      BY <2>1, StillCounted
    <3> QED
      BY <3>1 DEF RetryBudget
  <2>8. ReadBelowLimit'
    BY DEF ReadBelowLimit, RetriesBounded
  <2>9. WorkersBounded'
    BY <2>1, StillBounded DEF Idle
  <2>10. StepsInOrder'
    <3>1. \A t \in Tickets : step'[t] \in Idle \cup {"submit"}
      BY <2>1 DEF StepsInOrder, TypeOK, Txs
    <3>2. ASSUME NEW p \in Proofs, NEW q \in Proofs, p < q, step'[q] # "none"
          PROVE  step'[p] # "none"
      <4>1. CASE q # NextProof
        BY <4>1, <3>2 DEF StepsInOrder, TypeOK, Txs
      <4>2. CASE q = NextProof
        BY <4>2, <3>2, SignedBelowNext DEF TypeOK, Txs
      <4> QED
        BY <4>1, <4>2
    <3> QED
      BY <3>1, <3>2 DEF StepsInOrder
  <2> QED
    BY <2>3, <2>4, <2>5, <2>6, <2>7, <2>8, <2>9, <2>10, RetryFromKept DEF LoopInv
<1>17. ASSUME SessionExpires
      PROVE  LoopInv'
  <2> USE <1>17 DEF SessionExpires
  <2>1. TypeOK'
    <3>1. end' \subseteq {"accepted", "declined", "gaveUp", "lost", "unsigned"}
      BY DEF TypeOK
    <3> QED
      BY <3>1 DEF TypeOK
  <2>2. ConfirmedIsValidated'
    BY DEF TypeOK, ConfirmedIsValidated
  <2>3. HandedOver'
    BY DEF HandedOver, Abandoned
  <2>4. PayloadKept'
    BY DEF TypeOK, PayloadKept
  <2>5. RetryBudget'
    <3>1. Uncounted' = Uncounted
      BY DEF Uncounted
    <3> QED
      BY <3>1 DEF TypeOK, RetryBudget
  <2>6. ReadBelowLimit'
    BY DEF TypeOK, ReadBelowLimit, RetriesBounded
  <2>7. WorkersBounded' /\ StepsInOrder'
    BY DEF WorkersBounded, StepsInOrder, Held
  <2> QED
    BY <2>1, <2>2, <2>3, <2>4, <2>5, <2>6, <2>7, RetryFromKept DEF LoopInv
<1> QED
  BY <1>1, <1>2, <1>3, <1>4, <1>5, <1>6, <1>7, <1>8, <1>9, <1>10, <1>11, <1>12, <1>13, <1>14, <1>15,
     <1>16, <1>17 DEF IngestorStep, AxelarStep, RetrierStep, MonitorStep

\* Steps of the includer.
LEMMA IncluderStepInv ==
    ASSUME LoopInv,
           IncluderCrash \/ \E t \in Txs : Deliver(t) \/ IncluderStep(t)
    PROVE  LoopInv'
<1>0. /\ TypeOK /\ ConfirmedIsValidated /\ HandedOver /\ PayloadKept
      /\ RetryBudget /\ ReadBelowLimit /\ WorkersBounded /\ StepsInOrder
  BY DEF LoopInv
<1> USE <1>0, LoopAssumption, LoopFinite
    DEF includerVars, retrierVars, ingestorVars, monitorVars, Goto, Republish, Fault, NoFault
<1>1. ASSUME IncluderCrash
      PROVE  LoopInv'
  <2> USE <1>1 DEF IncluderCrash
  <2>1. TypeOK'
    <3>1. step' \in [Txs -> Idle \cup {"submit", "publish", "incr", "expire", "report", "clear"}]
      BY DEF TypeOK, Idle
    <3>2. slips' \in Nat
      BY DEF TypeOK, Uncounted
    <3>3. end' \subseteq {"accepted", "declined", "gaveUp", "lost", "unsigned"}
      BY DEF TypeOK
    <3> QED
      BY <3>1, <3>2, <3>3 DEF TypeOK
  <2>2. ConfirmedIsValidated'
    BY DEF ConfirmedIsValidated
  <2>3. HandedOver'
    <3>1. \A p \in Proofs : step[p] \in {"ready", "submit", "publish", "clear"} => step'[p] = "ready"
      BY DEF TypeOK, Txs, Held, Idle
    <3> QED
      BY <3>1 DEF TypeOK, HandedOver, OnItsWay, Settled, Abandoned, Validated
  <2>4. PayloadKept'
    BY DEF TypeOK, PayloadKept, Txs, Held, Idle
  <2>5. RetryBudget'
    <3>1. Uncounted' = {}
      BY DEF TypeOK, Uncounted, Held, Idle
    <3>2. Cardinality(Uncounted') = 0
      BY <3>1, FS_EmptySet
    <3>3. slips' = slips + Cardinality(Uncounted)
      BY DEF Uncounted
    <3> HIDE <1>1
    <3> QED
      BY <1>1, <3>2, <3>3 DEF TypeOK, RetryBudget
  <2>6. ReadBelowLimit'
    BY DEF TypeOK, ReadBelowLimit, RetriesBounded, Uncounted
  <2>7. WorkersBounded'
    <3>1. Held' = {}
      BY DEF TypeOK, Held, Idle
    <3> QED
      BY <3>1, FS_EmptySet DEF WorkersBounded
  <2>8. StepsInOrder'
    BY DEF TypeOK, StepsInOrder, Txs, Held, Idle
  <2> QED
    BY <2>1, <2>2, <2>3, <2>4, <2>5, <2>6, <2>7, <2>8, RetryFromKept DEF LoopInv
<1>2. ASSUME NEW t \in Txs, Deliver(t)
      PROVE  LoopInv'
  <2> USE <1>2 DEF Deliver
  <2>1. TypeOK'
    BY DEF TypeOK, Idle
  <2>2. ConfirmedIsValidated'
    BY DEF ConfirmedIsValidated
  <2>3. HandedOver'
    BY DEF TypeOK, Txs, HandedOver, OnItsWay, Settled, Abandoned, Validated
  <2>4. PayloadKept'
    BY DEF TypeOK, Txs, PayloadKept
  <2>5. RetryBudget'
    <3>1. Uncounted' = Uncounted
      BY StillCounted
    <3> QED
      BY <3>1 DEF TypeOK, RetryBudget
  <2>6. ReadBelowLimit'
    BY DEF TypeOK, ReadBelowLimit, RetriesBounded
  <2>7. WorkersBounded'
    <3>1. Held' = Held \cup {t}
      <4>1. "submit" \notin Idle
        BY DEF Idle
      <4> QED
        BY <4>1, StepMoves
    <3>2. t \notin Held
      BY DEF Held, Idle
    <3>3. Cardinality(Held') = Cardinality(Held) + 1
      BY <3>1, <3>2, FS_AddElement
    <3> QED
      BY <3>3 DEF WorkersBounded
  <2>8. StepsInOrder'
    BY DEF TypeOK, StepsInOrder, Txs, Idle
  <2> QED
    BY <2>1, <2>2, <2>3, <2>4, <2>5, <2>6, <2>7, <2>8, RetryFromKept DEF LoopInv
<1>3. ASSUME NEW t \in Txs, Submit(t)
      PROVE  LoopInv'
  <2>1. PICK s \in {"ready", "done", "clear", "publish"} :
            /\ step' = [step EXCEPT ![t] = s]
            /\ t \in Tickets => s \in {"ready", "done"}
            /\ t \notin Tickets => s # "done"
    BY <1>3, SubmitMoves
  <2>2. TypeOK'
    <3>1. step' \in [Txs -> Idle \cup {"submit", "publish", "incr", "expire", "report", "clear"}]
      BY <2>1 DEF TypeOK, Idle
    <3>2. listed' \subseteq {u \in Txs : row'[u] = "Queued"}
      BY <1>3, SubmitMoves DEF TypeOK
    <3>3. UNCHANGED <<failures, retryBuf, retries, taskBuf, tasks, passes, slips, forgotten, payload,
                      retrier, ingestor, sessions, checks, end>>
      BY <1>3, SubmitMoves
    <3>4. /\ ledger' \in [Txs -> {"unknown", "applied", "queued", "validated"}]
          /\ row' \in [Txs -> {"none", "Queued", "Confirmed", "Dropped", "Expired"}]
          /\ faults' \in 0 .. MaxFaults
      BY <1>3, SubmitMoves
    <3> QED
      BY <3>1, <3>2, <3>3, <3>4 DEF TypeOK
  <2>3. ConfirmedIsValidated'
    BY <1>3, SubmitMoves DEF ConfirmedIsValidated
  <2>4. HandedOver'
    <3>1. (Settled => Settled') /\ (Abandoned => Abandoned')
      BY <1>3, SubmitMoves DEF Settled, Abandoned, Validated, Txs
    <3>2. OnItsWay => OnItsWay'
      <4>1. ASSUME NEW p \in Proofs, step[p] \in {"ready", "submit", "publish", "clear"}
            PROVE  step'[p] \in {"ready", "submit", "publish", "clear"}
        BY <2>1, <4>1 DEF TypeOK, Txs
      <4> QED
        BY <1>3, SubmitMoves, <4>1 DEF OnItsWay
    <3> QED
      BY <1>3, SubmitMoves, <3>1, <3>2 DEF HandedOver
  <2>5. PayloadKept'
    <3>1. UNCHANGED <<retries, retryBuf, sessions, ingestor, payload, end>> /\ step[t] = "submit"
      BY <1>3, SubmitMoves
    <3>2. \A p \in Proofs : step'[p] # "none" => step[p] # "none"
      BY <2>1, <3>1 DEF TypeOK, Txs
    <3> QED
      BY <3>1, <3>2 DEF PayloadKept
  <2>6. RetryBudget'
    <3>1. Uncounted' = Uncounted
      BY <1>3, SubmitMoves, <2>1, StillCounted
    <3> QED
      BY <1>3, SubmitMoves, <3>1 DEF TypeOK, RetryBudget
  <2>7. ReadBelowLimit'
    BY <1>3, SubmitMoves DEF TypeOK, ReadBelowLimit, RetriesBounded
  <2>8. WorkersBounded'
    BY <1>3, SubmitMoves, <2>1, StillBounded DEF Idle
  <2>9. StepsInOrder'
    <3>1. step[t] = "submit"
      BY <1>3, SubmitMoves
    <3>2. \A u \in Tickets : step'[u] \in Idle \cup {"submit"}
      BY <2>1 DEF TypeOK, StepsInOrder, Txs, Idle
    <3>3. \A p \in Proofs : step'[p] # "none" <=> step[p] # "none"
      BY <2>1, <3>1 DEF TypeOK, Txs
    <3> QED
      BY <3>2, <3>3 DEF StepsInOrder
  <2> QED
    BY <2>2, <2>3, <2>4, <2>5, <2>6, <2>7, <2>8, <2>9, RetryFromKept DEF LoopInv
<1>4. ASSUME NEW t \in Txs, PublishRetry(t)
      PROVE  LoopInv'
  <2> USE <1>4 DEF PublishRetry
  <2>1. TypeOK'
    BY DEF TypeOK, Idle
  <2>2. ConfirmedIsValidated' /\ ReadBelowLimit'
    BY DEF ConfirmedIsValidated, ReadBelowLimit, RetriesBounded
  <2>3. HandedOver'
    BY DEF TypeOK, HandedOver, OnItsWay, Settled, Abandoned, Validated
  <2>4. t \in Proofs
    BY DEF StepsInOrder, Txs, Idle
  <2>5. PayloadKept'
    BY <2>4 DEF TypeOK, PayloadKept
  <2>6. RetryBudget'
    <3>1. Uncounted' = Uncounted \cup {t} /\ t \notin Uncounted
      BY StepMoves DEF Uncounted
    <3>2. Cardinality(Uncounted') = Cardinality(Uncounted) + 1
      BY <3>1, FS_AddElement
    <3> QED
      BY <3>2 DEF TypeOK, RetryBudget
  <2>7. WorkersBounded'
    BY StillBounded DEF Idle
  <2>8. StepsInOrder'
    BY <2>4 DEF TypeOK, StepsInOrder, Txs
  <2> QED
    BY <2>1, <2>2, <2>3, <2>5, <2>6, <2>7, <2>8, RetryFromKept DEF LoopInv
<1>5. ASSUME NEW t \in Txs, IncrFailures(t)
      PROVE  LoopInv'
  <2> USE <1>5 DEF IncrFailures
  <2>1. PICK s \in {"expire", "ready"} : step' = [step EXCEPT ![t] = s]
    OBVIOUS
  <2>2. t \in Proofs
    BY DEF StepsInOrder, Txs, Idle
  <2>3. TypeOK'
    BY <2>1 DEF TypeOK, Idle
  <2>4. ConfirmedIsValidated' /\ ReadBelowLimit'
    BY DEF ConfirmedIsValidated, ReadBelowLimit, RetriesBounded, TypeOK
  <2>5. HandedOver'
    BY <2>1 DEF TypeOK, Txs, HandedOver, OnItsWay, Settled, Abandoned, Validated
  <2>6. PayloadKept'
    BY <2>1, <2>2 DEF TypeOK, PayloadKept, Txs
  <2>7. RetryBudget'
    <3>1. Uncounted' = Uncounted \ {t} /\ t \in Uncounted
      BY <2>1, StepMoves DEF Uncounted
    <3>2. Cardinality(Uncounted') = Cardinality(Uncounted) - 1
      BY <3>1, FS_RemoveElement
    <3> QED
      BY <3>2 DEF TypeOK, RetryBudget
  <2>8. WorkersBounded'
    BY <2>1, StillBounded DEF Idle
  <2>9. StepsInOrder'
    BY <2>1, <2>2 DEF TypeOK, StepsInOrder, Txs
  <2> QED
    BY <2>3, <2>4, <2>5, <2>6, <2>7, <2>8, <2>9, RetryFromKept DEF LoopInv
<1>6. ASSUME NEW t \in Txs, ExpireFailures(t) \/ ReportFailure(t) \/ ClearPayload(t)
      PROVE  LoopInv'
  <2> USE <1>6 DEF ExpireFailures, ReportFailure, ClearPayload
  <2>1. PICK s \in {"ready", "report", "done"} : step' = [step EXCEPT ![t] = s]
    OBVIOUS
  <2>2. t \in Proofs /\ step[t] \in {"expire", "report", "clear"}
    BY DEF StepsInOrder, Txs, Idle
  <2>3. TypeOK'
    <3>1. end' \in {end, end \cup {"accepted"}}
      OBVIOUS
    <3>2. end' \subseteq {"accepted", "declined", "gaveUp", "lost", "unsigned"}
      BY <3>1 DEF TypeOK
    <3>3. faults' \in 0 .. MaxFaults
      BY DEF TypeOK
    <3>4. payload' \in BOOLEAN
      BY Zenon DEF TypeOK
    <3> QED
      BY <2>1, <3>2, <3>3, <3>4 DEF TypeOK, Idle
  <2>4. ConfirmedIsValidated' /\ ReadBelowLimit'
    BY DEF ConfirmedIsValidated, ReadBelowLimit, RetriesBounded, TypeOK
  <2>5. HandedOver'
    BY <2>1, <2>2 DEF TypeOK, Txs, HandedOver, OnItsWay, Settled, Abandoned, Validated
  <2>6. PayloadKept'
    BY <2>1, <2>2 DEF TypeOK, PayloadKept, Txs
  <2>7. RetryBudget'
    <3>1. Uncounted' = Uncounted
      BY <2>1, <2>2, StillCounted
    <3> QED
      BY <3>1 DEF TypeOK, RetryBudget
  <2>8. WorkersBounded'
    BY <2>1, <2>2, StillBounded DEF Idle
  <2>9. StepsInOrder'
    BY <2>1, <2>2 DEF TypeOK, StepsInOrder, Txs
  <2> QED
    BY <2>3, <2>4, <2>5, <2>6, <2>7, <2>8, <2>9, RetryFromKept DEF LoopInv
<1> QED
  BY <1>1, <1>2, <1>3, <1>4, <1>5, <1>6 DEF IncluderStep

\* Init establishes the invariant.
LEMMA LoopInit == Init => LoopInv
<1> SUFFICES ASSUME Init
             PROVE  LoopInv
  OBVIOUS
<1> USE LoopAssumption, LoopFinite DEF Init
<1>1. TypeOK
  <2>1. step \in [Txs -> {"ready", "none"}]
    OBVIOUS
  <2>2. checks \in [Txs -> 0 .. MaxChecks] /\ faults \in 0 .. MaxFaults
    OBVIOUS
  <2>3. tasks \in Nat /\ listed \subseteq {t \in Txs : row[t] = "Queued"}
    OBVIOUS
  <2> QED
    BY <2>1, <2>2, <2>3 DEF TypeOK, Idle
<1>2. Held = {} /\ Uncounted = {}
  BY DEF Held, Uncounted, Idle
<1>3. Cardinality(Held) = 0 /\ Cardinality(Uncounted) = 0
  BY <1>2, FS_EmptySet
<1>4. RetryBudget /\ ReadBelowLimit /\ WorkersBounded
  BY <1>3 DEF RetryBudget, ReadBelowLimit, RetriesBounded, WorkersBounded
<1>5. StepsInOrder
  BY DEF StepsInOrder, Txs, Idle
<1>6. RetryPossible /\ ConfirmedIsValidated /\ HandedOver /\ PayloadKept
  BY DEF RetryPossible, ConfirmedIsValidated, HandedOver, PayloadKept, Txs
<1> QED
  BY <1>1, <1>4, <1>5, <1>6 DEF LoopInv

(* The loop's inductive invariant: whichever process has the message hands  *)
(* it over before it lets go of it (publish, then ack), with its payload    *)
(* cached and its retries counted.                                          *)
THEOREM LoopInvariant == Spec => []LoopInv
<1>1. LoopInv /\ [Next]_vars => LoopInv'
  <2> SUFFICES ASSUME LoopInv, [Next]_vars
               PROVE  LoopInv'
    OBVIOUS
  <2>1. CASE Next
    BY <2>1, OtherStepInv, IncluderStepInv DEF Next, Stops
  <2>2. CASE UNCHANGED vars
    BY <2>2 DEF vars, includerVars, retrierVars, ingestorVars, monitorVars, LoopInv, TypeOK,
        RetryPossible, ConfirmedIsValidated, HandedOver, OnItsWay, Settled, Abandoned, Validated, PayloadKept, RetryBudget,
        Uncounted, ReadBelowLimit, RetriesBounded, WorkersBounded, Held, StepsInOrder
  <2> QED
    BY <2>1, <2>2
<1> QED
  BY <1>1, LoopInit, PTL DEF Spec

(* A message whose payload is cached is forgotten in two ways only: a crash *)
(* with its retry in a publisher's buffer, and a request for a proof that   *)
(* handle_construct_proof acked and that Axelar did not sign.               *)
THEOREM LoopNotForgotten == Spec => []NotForgotten
<1>1. LoopInv => NotForgotten
  BY DEF LoopInv, TypeOK, HandedOver, OnItsWay, NotForgotten
<1> QED
  BY <1>1, LoopInvariant, PTL

(* process_delivery's limit on failures bounds the proofs it asks for, for  *)
(* any limit, number of workers and faults, although the includer publishes *)
(* a retry before it counts the failure.                                    *)
THEOREM LoopRetriesBounded == Spec => []RetriesBounded
<1>1. LoopInv => RetriesBounded
  BY DEF LoopInv, ReadBelowLimit
<1> QED
  BY <1>1, LoopInvariant, PTL

=============================================================================

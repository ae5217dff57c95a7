---------------------------- MODULE RefundProofs ----------------------------
(***************************************************************************)
(* Proofs about XrplRefund, for any refunds, workers and wallets, with     *)
(* redeliveries and expiring locks at any time: a refund is paid twice     *)
(* only when it was checked with a payment open, is not forgotten, and a   *)
(* transaction is about to be submitted with a used sequence number only   *)
(* on a wallet whose lock expired in use.                                  *)
(***************************************************************************)
EXTENDS XrplRefund, TLAPS

\* Every step keeps the invariant: a task has one copy, so nobody else pays
\* it between its check and its submission; a wallet in use is locked until
\* its lock expires, so nobody else takes its sequence number before that.
LEMMA RefundStep ==
    ASSUME RefundInv, [Next]_vars
    PROVE  RefundInv'
<1> USE RefundAssumption DEF RefundInv
<1>1. ASSUME NEW w \in Workers, NEW r \in Refunds, Deliver(w, r)
      PROVE  RefundInv'
  <2> USE <1>1 DEF Deliver, Goto, chainVars, history
  <2>1. TypeOK'
    BY DEF TypeOK
  <2>2. OneCopy'
    BY DEF TypeOK, OneCopy
  <2>3. LockedInUse'
    BY DEF TypeOK, LockedInUse, Using
  <2>4. Unpaid'
    BY DEF TypeOK, OneCopy, Unpaid, PaymentsOf
  <2>5. AckIsDeserved'
    BY DEF TypeOK, OneCopy, AckIsDeserved, PaymentsOf, Payable
  <2>6. PaidOnce'
    BY DEF TypeOK, Unpaid, PaidOnce, PaymentsOf
  <2>7. RefundKept'
    BY DEF TypeOK, OneCopy, AckIsDeserved, RefundKept, PaymentsOf, Payable
  <2>8. SequenceIsFree'
    BY DEF TypeOK, LockedInUse, SequenceIsFree, Using, Used
  <2> QED
    BY <2>1, <2>2, <2>3, <2>4, <2>5, <2>6, <2>7, <2>8
<1>2. ASSUME NEW w \in Workers, Check(w)
      PROVE  RefundInv'
  <2> USE <1>2 DEF Check, Goto, Leave, Ack, Requeue, IsRefundProcessed, chainVars, history
  <2>0. refund[w] \in Refunds
    BY DEF TypeOK, OneCopy
  <2>a. overlooked' \in SUBSET Refunds
    BY <2>0 DEF TypeOK
  <2>1. TypeOK'
    BY <2>0, <2>a DEF TypeOK
  <2>2. OneCopy'
    BY DEF TypeOK, OneCopy
  <2>3. LockedInUse'
    BY DEF TypeOK, LockedInUse, Using
  <2>4. Unpaid'
    BY DEF TypeOK, OneCopy, Unpaid, PaymentsOf
  <2>5. AckIsDeserved'
    BY DEF TypeOK, OneCopy, AckIsDeserved, PaymentsOf, Payable
  <2>6. PaidOnce'
    BY DEF TypeOK, Unpaid, PaidOnce, PaymentsOf
  <2>7. RefundKept'
    BY DEF TypeOK, OneCopy, AckIsDeserved, RefundKept, PaymentsOf, Payable
  <2>8. SequenceIsFree'
    BY DEF TypeOK, LockedInUse, SequenceIsFree, Using, Used
  <2> QED
    BY <2>1, <2>2, <2>3, <2>4, <2>5, <2>6, <2>7, <2>8
<1>3. ASSUME NEW w \in Workers, NEW x \in Wallets, GetWalletLock(w, x)
      PROVE  RefundInv'
  <2> USE <1>3 DEF GetWalletLock, Goto, chainVars, history
  <2>1. TypeOK'
    BY DEF TypeOK
  <2>2. OneCopy'
    BY DEF TypeOK, OneCopy
  <2>3. LockedInUse'
    BY DEF TypeOK, LockedInUse, Using
  <2>4. Unpaid'
    BY DEF TypeOK, OneCopy, Unpaid, PaymentsOf
  <2>5. AckIsDeserved'
    BY DEF TypeOK, OneCopy, AckIsDeserved, PaymentsOf, Payable
  <2>6. PaidOnce'
    BY DEF TypeOK, Unpaid, PaidOnce, PaymentsOf
  <2>7. RefundKept'
    BY DEF TypeOK, OneCopy, AckIsDeserved, RefundKept, PaymentsOf, Payable
  <2>8. SequenceIsFree'
    BY DEF TypeOK, LockedInUse, SequenceIsFree, Using, Used
  <2> QED
    BY <2>1, <2>2, <2>3, <2>4, <2>5, <2>6, <2>7, <2>8
<1>4. ASSUME NEW w \in Workers, NoWalletLock(w)
      PROVE  RefundInv'
  <2> USE <1>4 DEF NoWalletLock, Goto, Leave, Requeue, chainVars, history
  <2>0. refund[w] \in Refunds
    BY DEF TypeOK, OneCopy
  <2>1. TypeOK'
    <3>1. lock' \in [Wallets -> BOOLEAN]
      BY DEF TypeOK
    <3>2. queue' \in [Refunds -> Nat]
      BY <2>0 DEF TypeOK
    <3>3. /\ stage' \in [Workers -> {"idle", "check", "lock", "build", "submit",
                                     "post", "release_ok", "release_err"}]
          /\ refund' \in [Workers -> Refunds \cup {None}]
          /\ wallet' \in [Workers -> Wallets \cup {None}]
          /\ seq' \in [Workers -> Nat]
      BY DEF TypeOK
    <3> QED
      BY <3>1, <3>2, <3>3 DEF TypeOK
  <2>2. OneCopy'
    BY DEF TypeOK, OneCopy
  <2>3. LockedInUse'
    BY DEF TypeOK, LockedInUse, Using
  <2>4. Unpaid'
    BY DEF TypeOK, OneCopy, Unpaid, PaymentsOf
  <2>5. AckIsDeserved'
    BY DEF TypeOK, OneCopy, AckIsDeserved, PaymentsOf, Payable
  <2>6. PaidOnce'
    BY DEF TypeOK, Unpaid, PaidOnce, PaymentsOf
  <2>7. RefundKept'
    BY DEF TypeOK, OneCopy, AckIsDeserved, RefundKept, PaymentsOf, Payable
  <2>8. SequenceIsFree'
    BY DEF TypeOK, LockedInUse, SequenceIsFree, Using, Used
  <2> QED
    BY <2>1, <2>2, <2>3, <2>4, <2>5, <2>6, <2>7, <2>8
<1>5. ASSUME NEW w \in Workers, NEW n \in 1..MaxSeq, Build(w, n)
      PROVE  RefundInv'
  <2> USE <1>5 DEF Build, Goto, IsCurrentSeq, chainVars, history
  <2>1. TypeOK'
    BY DEF TypeOK
  <2>2. OneCopy'
    BY DEF TypeOK, OneCopy
  <2>3. LockedInUse'
    BY DEF TypeOK, LockedInUse, Using
  <2>4. Unpaid'
    BY DEF TypeOK, OneCopy, Unpaid, PaymentsOf
  <2>5. AckIsDeserved'
    BY DEF TypeOK, OneCopy, AckIsDeserved, PaymentsOf, Payable
  <2>6. PaidOnce'
    BY DEF TypeOK, Unpaid, PaidOnce, PaymentsOf
  <2>7. RefundKept'
    BY DEF TypeOK, OneCopy, AckIsDeserved, RefundKept, PaymentsOf, Payable
  <2>8. SequenceIsFree'
    BY DEF TypeOK, LockedInUse, SequenceIsFree, Using, Used
  <2> QED
    BY <2>1, <2>2, <2>3, <2>4, <2>5, <2>6, <2>7, <2>8
<1>6. ASSUME NEW w \in Workers, BuildNothing(w)
      PROVE  RefundInv'
  <2> USE <1>6 DEF BuildNothing, Goto, chainVars, history
  <2>1. TypeOK'
    BY DEF TypeOK
  <2>2. OneCopy'
    BY DEF TypeOK, OneCopy
  <2>3. LockedInUse'
    BY DEF TypeOK, LockedInUse, Using
  <2>4. Unpaid'
    BY DEF TypeOK, OneCopy, Unpaid, PaymentsOf
  <2>5. AckIsDeserved'
    BY DEF TypeOK, OneCopy, AckIsDeserved, PaymentsOf, Payable
  <2>6. PaidOnce'
    BY DEF TypeOK, Unpaid, PaidOnce, PaymentsOf
  <2>7. RefundKept'
    BY DEF TypeOK, OneCopy, AckIsDeserved, RefundKept, PaymentsOf, Payable
  <2>8. SequenceIsFree'
    BY DEF TypeOK, LockedInUse, SequenceIsFree, Using, Used
  <2> QED
    BY <2>1, <2>2, <2>3, <2>4, <2>5, <2>6, <2>7, <2>8
<1>7. ASSUME NEW w \in Workers, CheckOrBuildFails(w)
      PROVE  RefundInv'
  <2> USE <1>7 DEF CheckOrBuildFails, Goto, Leave, Requeue, chainVars, history
  <2>0. refund[w] \in Refunds
    BY DEF TypeOK, OneCopy
  <2>1. TypeOK'
    BY <2>0 DEF TypeOK
  <2>2. OneCopy'
    BY DEF TypeOK, OneCopy
  <2>3. LockedInUse'
    BY DEF TypeOK, LockedInUse, Using
  <2>4. Unpaid'
    BY DEF TypeOK, OneCopy, Unpaid, PaymentsOf
  <2>5. AckIsDeserved'
    BY DEF TypeOK, OneCopy, AckIsDeserved, PaymentsOf, Payable
  <2>6. PaidOnce'
    BY DEF TypeOK, Unpaid, PaidOnce, PaymentsOf
  <2>7. RefundKept'
    BY DEF TypeOK, OneCopy, AckIsDeserved, RefundKept, PaymentsOf, Payable
  <2>8. SequenceIsFree'
    BY DEF TypeOK, LockedInUse, SequenceIsFree, Using, Used
  <2> QED
    BY <2>1, <2>2, <2>3, <2>4, <2>5, <2>6, <2>7, <2>8
<1>8. ASSUME NEW w \in Workers, SubmitOk(w)
      PROVE  RefundInv'
  <2> USE <1>8 DEF SubmitOk, Goto, BuiltTx, Tx, history
  <2>0. refund[w] \in Refunds
    BY DEF TypeOK, OneCopy
  <2>a. wallet[w] \in Wallets
    BY DEF LockedInUse
  <2>b. BuiltTx(w) \in Tx
    BY <2>0, <2>a DEF TypeOK
  <2>1. TypeOK'
    BY <2>b DEF TypeOK
  <2>2. OneCopy'
    BY DEF TypeOK, OneCopy
  <2>3. LockedInUse'
    BY DEF TypeOK, LockedInUse, Using
  <2>4. Unpaid'
    BY DEF TypeOK, OneCopy, Unpaid, PaymentsOf
  <2>5. AckIsDeserved'
    <3>1. BuiltTx(w) \in open' /\ BuiltTx(w).refund = refund[w]
      BY DEF TypeOK
    <3>2. BuiltTx(w) \in PaymentsOf(refund[w])'
      BY <3>1 DEF PaymentsOf
    <3>3. ASSUME NEW v \in Workers, v # w, stage'[v] \in {"post", "release_ok"}
          PROVE  \/ refund'[v] \notin Payable
                 \/ PaymentsOf(refund[v])' # {}
                 \/ refund'[v] \in dropped'
      <4>1. stage[v] \in {"post", "release_ok"}
        BY <3>3 DEF TypeOK
      <4>2. PaymentsOf(refund[v]) \subseteq PaymentsOf(refund[v])'
        BY DEF PaymentsOf
      <4> QED
        BY <4>1, <4>2 DEF AckIsDeserved
    <3> QED
      BY <3>2, <3>3 DEF AckIsDeserved, TypeOK
  <2>6. PaidOnce'
    BY DEF TypeOK, Unpaid, PaidOnce, PaymentsOf
  <2>7. RefundKept'
    BY DEF TypeOK, OneCopy, AckIsDeserved, RefundKept, PaymentsOf, Payable
  <2>8. SequenceIsFree'
    BY DEF TypeOK, LockedInUse, SequenceIsFree, Using, Used
  <2> QED
    BY <2>1, <2>2, <2>3, <2>4, <2>5, <2>6, <2>7, <2>8
<1>9. ASSUME NEW w \in Workers, SubmitErr(w)
      PROVE  RefundInv'
  <2> USE <1>9 DEF SubmitErr, Goto, BuiltTx, Tx, history
  <2>0. refund[w] \in Refunds
    BY DEF TypeOK, OneCopy
  <2>a. wallet[w] \in Wallets
    BY DEF LockedInUse
  <2>b. BuiltTx(w) \in Tx
    BY <2>0, <2>a DEF TypeOK
  <2>1. TypeOK'
    BY <2>b DEF TypeOK
  <2>2. OneCopy'
    BY DEF TypeOK, OneCopy
  <2>3. LockedInUse'
    BY DEF TypeOK, LockedInUse, Using
  <2>4. Unpaid'
    BY DEF TypeOK, OneCopy, Unpaid, PaymentsOf
  <2>5. AckIsDeserved'
    BY DEF TypeOK, OneCopy, AckIsDeserved, PaymentsOf, Payable
  <2>6. PaidOnce'
    BY DEF TypeOK, Unpaid, PaidOnce, PaymentsOf
  <2>7. RefundKept'
    BY DEF TypeOK, OneCopy, AckIsDeserved, RefundKept, PaymentsOf, Payable
  <2>8. SequenceIsFree'
    BY DEF TypeOK, LockedInUse, SequenceIsFree, Using, Used
  <2> QED
    BY <2>1, <2>2, <2>3, <2>4, <2>5, <2>6, <2>7, <2>8
<1>10. ASSUME NEW w \in Workers, PostEvents(w)
      PROVE  RefundInv'
  <2> USE <1>10 DEF PostEvents, Goto, chainVars, history
  <2>1. TypeOK'
    BY DEF TypeOK
  <2>2. OneCopy'
    BY DEF TypeOK, OneCopy
  <2>3. LockedInUse'
    BY DEF TypeOK, LockedInUse, Using
  <2>4. Unpaid'
    BY DEF TypeOK, OneCopy, Unpaid, PaymentsOf
  <2>5. AckIsDeserved'
    BY DEF TypeOK, OneCopy, AckIsDeserved, PaymentsOf, Payable
  <2>6. PaidOnce'
    BY DEF TypeOK, Unpaid, PaidOnce, PaymentsOf
  <2>7. RefundKept'
    BY DEF TypeOK, OneCopy, AckIsDeserved, RefundKept, PaymentsOf, Payable
  <2>8. SequenceIsFree'
    BY DEF TypeOK, LockedInUse, SequenceIsFree, Using, Used
  <2> QED
    BY <2>1, <2>2, <2>3, <2>4, <2>5, <2>6, <2>7, <2>8
<1>11. ASSUME NEW w \in Workers, ReleaseWalletLock(w)
      PROVE  RefundInv'
  <2> USE <1>11 DEF ReleaseWalletLock, Goto, Leave, Ack, Requeue, chainVars, history
  <2>0. refund[w] \in Refunds
    BY DEF TypeOK, OneCopy
  <2>a. wallet[w] \in Wallets
    BY DEF LockedInUse
  <2>1. TypeOK'
    <3>1. lock' \in [Wallets -> BOOLEAN]
      BY <2>a DEF TypeOK
    <3>2. queue' \in [Refunds -> Nat]
      BY <2>0 DEF TypeOK
    <3>3. /\ stage' \in [Workers -> {"idle", "check", "lock", "build", "submit",
                                     "post", "release_ok", "release_err"}]
          /\ refund' \in [Workers -> Refunds \cup {None}]
          /\ wallet' \in [Workers -> Wallets \cup {None}]
          /\ seq' \in [Workers -> Nat]
      BY DEF TypeOK
    <3> QED
      BY <3>1, <3>2, <3>3 DEF TypeOK
  <2>2. OneCopy'
    BY DEF TypeOK, OneCopy
  <2>3. LockedInUse'
    BY DEF TypeOK, LockedInUse, Using
  <2>4. Unpaid'
    BY DEF TypeOK, OneCopy, Unpaid, PaymentsOf
  <2>5. AckIsDeserved'
    BY DEF TypeOK, OneCopy, AckIsDeserved, PaymentsOf, Payable
  <2>6. PaidOnce'
    BY DEF TypeOK, Unpaid, PaidOnce, PaymentsOf
  <2>7. RefundKept'
    BY DEF TypeOK, OneCopy, AckIsDeserved, RefundKept, PaymentsOf, Payable
  <2>8. SequenceIsFree'
    BY DEF TypeOK, LockedInUse, SequenceIsFree, Using, Used
  <2> QED
    BY <2>1, <2>2, <2>3, <2>4, <2>5, <2>6, <2>7, <2>8
<1>12. ASSUME NEW w \in Workers, Crash(w)
      PROVE  RefundInv'
  <2> USE <1>12 DEF Crash, Goto, Leave, Requeue, BuiltTx, Tx, history
  <2>0. refund[w] \in Refunds
    BY DEF TypeOK, OneCopy
  <2>a. stage[w] = "submit" => wallet[w] \in Wallets
    BY DEF LockedInUse
  <2>b. stage[w] = "submit" => BuiltTx(w) \in Tx
    BY <2>0, <2>a DEF TypeOK
  <2>1. TypeOK'
    BY <2>0, <2>b DEF TypeOK
  <2>2. OneCopy'
    BY DEF TypeOK, OneCopy
  <2>3. LockedInUse'
    BY DEF TypeOK, LockedInUse, Using
  <2>4. Unpaid'
    BY DEF TypeOK, OneCopy, Unpaid, PaymentsOf
  <2>5. AckIsDeserved'
    BY DEF TypeOK, OneCopy, AckIsDeserved, PaymentsOf, Payable
  <2>6. PaidOnce'
    BY DEF TypeOK, Unpaid, PaidOnce, PaymentsOf
  <2>7. RefundKept'
    BY DEF TypeOK, OneCopy, AckIsDeserved, RefundKept, PaymentsOf, Payable
  <2>8. SequenceIsFree'
    BY DEF TypeOK, LockedInUse, SequenceIsFree, Using, Used
  <2> QED
    BY <2>1, <2>2, <2>3, <2>4, <2>5, <2>6, <2>7, <2>8
<1>13. ASSUME NEW x \in Wallets, LockExpires(x)
      PROVE  RefundInv'
  <2> USE <1>13 DEF LockExpires, workerVars, chainVars, history
  <2>1. TypeOK'
    BY DEF TypeOK
  <2>2. OneCopy'
    BY DEF TypeOK, OneCopy
  <2>3. LockedInUse'
    BY DEF TypeOK, LockedInUse, Using
  <2>4. Unpaid'
    BY DEF TypeOK, OneCopy, Unpaid, PaymentsOf
  <2>5. AckIsDeserved'
    BY DEF TypeOK, OneCopy, AckIsDeserved, PaymentsOf, Payable
  <2>6. PaidOnce'
    BY DEF TypeOK, Unpaid, PaidOnce, PaymentsOf
  <2>7. RefundKept'
    BY DEF TypeOK, OneCopy, AckIsDeserved, RefundKept, PaymentsOf, Payable
  <2>8. SequenceIsFree'
    BY DEF TypeOK, LockedInUse, SequenceIsFree, Using, Used
  <2> QED
    BY <2>1, <2>2, <2>3, <2>4, <2>5, <2>6, <2>7, <2>8
<1>14. ASSUME NEW t \in open, Validate(t)
      PROVE  RefundInv'
  <2> USE <1>14 DEF Validate, workerVars, history
  <2>1. TypeOK'
    BY DEF TypeOK
  <2>2. OneCopy'
    BY DEF TypeOK, OneCopy
  <2>3. LockedInUse'
    BY DEF TypeOK, LockedInUse, Using
  <2>4. Unpaid'
    BY DEF TypeOK, OneCopy, Unpaid, PaymentsOf
  <2>5. AckIsDeserved'
    BY DEF TypeOK, OneCopy, AckIsDeserved, PaymentsOf, Payable
  <2>6. PaidOnce'
    BY DEF TypeOK, Unpaid, PaidOnce, PaymentsOf
  <2>7. RefundKept'
    BY DEF TypeOK, OneCopy, AckIsDeserved, RefundKept, PaymentsOf, Payable
  <2>8. SequenceIsFree'
    BY DEF TypeOK, LockedInUse, SequenceIsFree, Using, Used
  <2> QED
    BY <2>1, <2>2, <2>3, <2>4, <2>5, <2>6, <2>7, <2>8
<1>15. ASSUME NEW t \in open, Drop(t)
      PROVE  RefundInv'
  <2> USE <1>15 DEF Drop, workerVars, history
  <2>0. t \in Tx /\ t.refund \in Refunds
    BY DEF TypeOK, Tx
  <2>1. TypeOK'
    BY <2>0 DEF TypeOK
  <2>2. OneCopy'
    BY DEF TypeOK, OneCopy
  <2>3. LockedInUse'
    BY DEF TypeOK, LockedInUse, Using
  <2>4. Unpaid'
    BY DEF TypeOK, OneCopy, Unpaid, PaymentsOf
  <2>5. AckIsDeserved'
    BY DEF TypeOK, OneCopy, AckIsDeserved, PaymentsOf, Payable
  <2>6. PaidOnce'
    BY DEF TypeOK, Unpaid, PaidOnce, PaymentsOf
  <2>7. RefundKept'
    BY DEF TypeOK, OneCopy, AckIsDeserved, RefundKept, PaymentsOf, Payable
  <2>8. SequenceIsFree'
    BY DEF TypeOK, LockedInUse, SequenceIsFree, Using, Used
  <2> QED
    BY <2>1, <2>2, <2>3, <2>4, <2>5, <2>6, <2>7, <2>8
<1>16. ASSUME UNCHANGED vars
      PROVE  RefundInv'
  BY <1>16 DEF vars, workerVars, chainVars, history, TypeOK, OneCopy, LockedInUse, Unpaid,
     AckIsDeserved, PaidOnce, RefundKept, SequenceIsFree, Using, Used, PaymentsOf
<1> QED
  BY <1>1, <1>2, <1>3, <1>4, <1>5, <1>6, <1>7, <1>8, <1>9, <1>10, <1>11, <1>12, <1>13, <1>14, <1>15, <1>16 DEF Next, WorkerStep

\* The inductive invariant of the refunds: one copy of each task, wallets
\* locked while in use unless a lock expired, no payment for a task that
\* passed its check but one the check could not see.
THEOREM RefundInvariant == Spec => []RefundInv
<1>1. Init => RefundInv
  BY RefundAssumption DEF Init, RefundInv, TypeOK, OneCopy, LockedInUse, Unpaid, AckIsDeserved,
     PaidOnce, RefundKept, SequenceIsFree, Using, PaymentsOf, Payable
<1>2. RefundInv /\ [Next]_vars => RefundInv'
  BY RefundStep
<1> QED
  BY <1>1, <1>2, PTL DEF Spec

\* The Refund branch of consume pays a refund twice only if a delivery of it
\* was checked while a payment was submitted and not validated: no other
\* failure between the payment and the ack does it, nor does an expired lock.
THEOREM RefundPaidOnce == Spec => []PaidOnce
<1>1. RefundInv => PaidOnce
  BY DEF RefundInv
<1> QED
  BY <1>1, RefundInvariant, PTL

\* A refund that can be paid is never forgotten before the node has taken a
\* payment of it.
THEOREM RefundNotForgotten == Spec => []RefundKept
<1>1. RefundInv => RefundKept
  BY DEF RefundInv
<1> QED
  BY <1>1, RefundInvariant, PTL

\* The Redis lock keeps the sequence number of a built refund free until it is
\* submitted or the lock expires.
THEOREM RefundSequenceFree == Spec => []SequenceIsFree
<1>1. RefundInv => SequenceIsFree
  BY DEF RefundInv
<1> QED
  BY <1>1, RefundInvariant, PTL
=============================================================================

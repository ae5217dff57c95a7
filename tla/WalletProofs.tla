---------------------------- MODULE WalletProofs ----------------------------
(***************************************************************************)
(* Proofs about TonWallet and QueryIdReset, for any number of tasks,       *)
(* wallets and query ids, any timeout and any delay: only a lock that      *)
(* expires under its task lets two tasks onto a wallet or posts an id      *)
(* twice between resets; the ids next() keeps back are never posted; and   *)
(* the contract refuses an id after a reset only when it comes earlier in  *)
(* its row than it did in the row before.                                  *)
(***************************************************************************)
EXTENDS TonWallet, QueryIdReset, TLAPS

\* Multiplication by the size of a shift is monotone.
LEMMA TimesMonotone ==
    ASSUME NEW i \in Nat, NEW j \in Nat, NEW n \in Nat, i <= j
    PROVE  i * n <= j * n
<1> DEFINE d == j - i
<1>1. d \in Nat /\ j = i + d
  OBVIOUS
<1>2. (i + d) * n = i * n + d * n
  BY <1>1
<1>3. d * n \in Nat /\ i * n \in Nat
  BY <1>1
<1> QED
  BY <1>1, <1>2, <1>3

\* The integer sent to the contract orders ids as (shift, bitnumber) does, so
\* no two ids share one.
LEMMA QueryIdOrder ==
    ASSUME NEW q \in QueryId, NEW r \in QueryId,
           \/ q.shift < r.shift
           \/ q.shift = r.shift /\ q.bitnumber < r.bitnumber
    PROVE  /\ QueryIdOf(q) \in Nat
           /\ QueryIdOf(r) \in Nat
           /\ QueryIdOf(q) < QueryIdOf(r)
<1> DEFINE a == q.shift
<1> DEFINE b == r.shift
<1>1. /\ a \in Nat /\ b \in Nat
      /\ q.bitnumber \in Nat /\ r.bitnumber \in Nat
      /\ q.bitnumber < BitnumberRange /\ BitnumberRange \in Nat
  BY QueryIdAssumption DEF QueryId
<1>2. a * BitnumberRange \in Nat /\ b * BitnumberRange \in Nat
  BY <1>1
<1>3. CASE a < b
  <2>1. (a + 1) * BitnumberRange <= b * BitnumberRange
    BY <1>1, <1>3, TimesMonotone
  <2>2. (a + 1) * BitnumberRange = a * BitnumberRange + BitnumberRange
    BY <1>1
  <2> HIDE DEF a, b
  <2>3. a * BitnumberRange + q.bitnumber < b * BitnumberRange + r.bitnumber
    BY <2>1, <2>2, <1>1, <1>2
  <2> QED
    BY <2>3, <1>1, <1>2 DEF QueryIdOf, a, b
<1>4. CASE a = b /\ q.bitnumber < r.bitnumber
  BY <1>1, <1>2, <1>4 DEF QueryIdOf
<1> QED
  BY <1>3, <1>4

LEMMA QueryIdNat ==
    ASSUME NEW q \in QueryId
    PROVE  QueryIdOf(q) \in Nat
  BY QueryIdAssumption DEF QueryId, QueryIdOf

\* Only the first id is sent as 0: wrapper.next() resets the row for it alone.
LEMMA FirstIdIsZero ==
    /\ FirstId \in QueryId
    /\ QueryIdOf(FirstId) = 0
    /\ \A q \in QueryId : QueryIdOf(q) = 0 => q = FirstId
<1>1. FirstId \in QueryId /\ QueryIdOf(FirstId) = 0
  BY QueryIdAssumption DEF FirstId, QueryId, QueryIdOf
<1>2. ASSUME NEW q \in QueryId, QueryIdOf(q) = 0
      PROVE  q = FirstId
  <2>1. q.shift \in Nat /\ q.bitnumber \in Nat
    BY QueryIdAssumption, <1>2 DEF QueryId
  <2>2. ~(0 < q.shift)
    BY <1>1, <1>2, QueryIdOrder, <2>1 DEF FirstId
  <2>3. ~(q.shift = 0 /\ 0 < q.bitnumber)
    BY <1>1, <1>2, QueryIdOrder, <2>1 DEF FirstId
  <2> QED
    BY <2>1, <2>2, <2>3, <1>2 DEF FirstId, QueryId
<1> QED
  BY <1>1, <1>2

\* next() returns a valid, larger id, and keeps the reserved ones back.
LEMMA NextIdFacts ==
    ASSUME NEW q \in QueryId, NextError(q) = "ok",
           Short(q)
    PROVE  /\ NextId(q) \in QueryId
           /\ QueryIdOf(q) < QueryIdOf(NextId(q))
           /\ Short(NextId(q))
<1>1. NextId(q) \in QueryId
  BY QueryIdAssumption DEF QueryId, NextId, NextError
<1>2. \/ q.shift < NextId(q).shift
      \/ q.shift = NextId(q).shift /\ q.bitnumber < NextId(q).bitnumber
  BY QueryIdAssumption DEF QueryId, NextId
<1>3. Short(NextId(q))
  BY QueryIdAssumption DEF QueryId, NextId, NextError, Short
<1> QED
  BY <1>1, <1>2, <1>3, QueryIdOrder

\* An id short of the ones kept back is sent as a smaller integer.
LEMMA ShortIsKept ==
    ASSUME NEW q \in QueryId, Short(q)
    PROVE  QueryIdOf(q) < QueryIdOf([shift |-> MaxShift, bitnumber |-> MaxBitnumber - 1])
<1> DEFINE e == [shift |-> MaxShift, bitnumber |-> MaxBitnumber - 1]
<1>1. /\ e \in QueryId
      /\ \/ q.shift < e.shift
         \/ q.shift = e.shift /\ q.bitnumber < e.bitnumber
  BY QueryIdAssumption DEF QueryId, Short
<1> QED
  BY <1>1, QueryIdOrder

\* What a task is about to store: an id short of the reserved ones, and, when
\* its lock held, the first id after a reset or an id above the stored one.
LEMMA SuccessorFacts ==
    ASSUME WalletInv, NEW t \in Tasks, stage[t] = "write", CanSucceed(got[t])
    PROVE  LET q == Successor(got[t])
               r == row[wallet[t]]
           IN  /\ wallet[t] \in Wallets
               /\ q \in QueryId
               /\ Short(q)
               /\ QueryIdOf(q) \in Nat
               /\ wallet[t] \notin overrun /\ QueryIdOf(q) # 0
                    => QueryIdOf(r) \in Nat /\ QueryIdOf(r) < QueryIdOf(q)
<1>1. wallet[t] \in Wallets /\ row[wallet[t]] \in QueryId
  BY DEF WalletInv, UsingHasWallet, TypeOK
<1>2. CASE Absent(got[t])
  <2>1. Successor(got[t]) = FirstId
    BY <1>2 DEF Successor
  <2>2. Short(FirstId)
    BY QueryIdAssumption DEF FirstId, Short
  <2> QED
    BY <1>1, <2>1, <2>2, FirstIdIsZero
<1>3. CASE ~Absent(got[t])
  <2>1. got[t] \in QueryId /\ Short(got[t])
    BY <1>3 DEF WalletInv, TypeOK, ShortOfEmergency, Absent, Expired
  <2>2. NextError(got[t]) = "ok" /\ Successor(got[t]) = NextId(got[t])
    BY <1>3 DEF CanSucceed, Successor
  <2>3. wallet[t] \notin overrun => got[t] = row[wallet[t]]
    BY <1>3 DEF WalletInv, RowIsStable, Absent, Expired
  <2> QED
    BY <1>1, <2>1, <2>2, <2>3, NextIdFacts, QueryIdNat
<1> QED
  BY <1>2, <1>3

\* Every step keeps the invariant: a wallet in use stays locked unless its lock
\* expires, so that until then nobody else moves the row between a task's read
\* and its write.
LEMMA WalletStep ==
    ASSUME WalletInv, [Next]_vars
    PROVE  WalletInv'
<1> USE DEF WalletInv
<1>1. ASSUME NEW t \in Tasks, Start(t)
      PROVE  WalletInv'
  <2>1. TypeOK'
    BY <1>1 DEF Start, TypeOK, Goto
  <2>2. UsingHasWallet'
    BY <1>1 DEF Start, TypeOK, UsingHasWallet, Goto
  <2>3. UsedIsLocked'
    BY <1>1 DEF Start, TypeOK, UsingHasWallet, UsedIsLocked, Using, Goto
  <2>4. ExclusiveInTime'
    BY <1>1
       DEF Start, TypeOK, UsingHasWallet, UsedIsLocked, ExclusiveInTime,
           Using, Goto
  <2>5. RowIsStable'
    BY <1>1
       DEF Start, TypeOK, UsingHasWallet, ExclusiveInTime, RowIsStable, Using,
           Goto
  <2>6. RowBoundsSent'
    BY <1>1
       DEF Start, TypeOK, UsingHasWallet, ExclusiveInTime, RowIsStable,
           RowBoundsSent, Using, Goto
  <2>7. ShortOfEmergency'
    BY <1>1 DEF Start, TypeOK, ShortOfEmergency, Goto
  <2>8. EmergencyIdsKept'
    BY <1>1 DEF Start, TypeOK, EmergencyIdsKept, Goto
  <2> QED
    BY <2>1, <2>2, <2>3, <2>4, <2>5, <2>6, <2>7, <2>8
<1>2. ASSUME NEW t \in Tasks, NEW w \in Wallets, Lock(t, w)
      PROVE  WalletInv'
  <2>1. TypeOK'
    BY <1>2 DEF Lock, TypeOK, Goto
  <2>2. UsingHasWallet'
    BY <1>2 DEF Lock, TypeOK, UsingHasWallet, Goto
  <2>3. UsedIsLocked'
    BY <1>2 DEF Lock, TypeOK, UsingHasWallet, UsedIsLocked, Using, Goto
  <2>4. ExclusiveInTime'
    BY <1>2
       DEF Lock, TypeOK, UsingHasWallet, UsedIsLocked, ExclusiveInTime, Using,
           Goto
  <2>5. RowIsStable'
    BY <1>2
       DEF Lock, TypeOK, UsingHasWallet, ExclusiveInTime, RowIsStable, Using,
           Goto
  <2>6. RowBoundsSent'
    BY <1>2
       DEF Lock, TypeOK, UsingHasWallet, ExclusiveInTime, RowIsStable,
           RowBoundsSent, Using, Goto
  <2>7. ShortOfEmergency'
    BY <1>2 DEF Lock, TypeOK, ShortOfEmergency, Goto
  <2>8. EmergencyIdsKept'
    BY <1>2 DEF Lock, TypeOK, EmergencyIdsKept, Goto
  <2> QED
    BY <2>1, <2>2, <2>3, <2>4, <2>5, <2>6, <2>7, <2>8
<1>3. ASSUME NEW t \in Tasks, NEW w \in Wallets, LockRefused(t, w)
      PROVE  WalletInv'
  <2>1. TypeOK'
    BY <1>3 DEF LockRefused, TypeOK, Goto
  <2>2. UsingHasWallet'
    BY <1>3 DEF LockRefused, TypeOK, UsingHasWallet, Goto
  <2>3. UsedIsLocked'
    BY <1>3 DEF LockRefused, TypeOK, UsingHasWallet, UsedIsLocked, Using, Goto
  <2>4. ExclusiveInTime'
    BY <1>3
       DEF LockRefused, TypeOK, UsingHasWallet, UsedIsLocked, ExclusiveInTime,
           Using, Goto
  <2>5. RowIsStable'
    BY <1>3
       DEF LockRefused, TypeOK, UsingHasWallet, ExclusiveInTime, RowIsStable,
           Using, Goto
  <2>6. RowBoundsSent'
    BY <1>3
       DEF LockRefused, TypeOK, UsingHasWallet, ExclusiveInTime, RowIsStable,
           RowBoundsSent, Using, Goto
  <2>7. ShortOfEmergency'
    BY <1>3 DEF LockRefused, TypeOK, ShortOfEmergency, Goto
  <2>8. EmergencyIdsKept'
    BY <1>3 DEF LockRefused, TypeOK, EmergencyIdsKept, Goto
  <2> QED
    BY <2>1, <2>2, <2>3, <2>4, <2>5, <2>6, <2>7, <2>8
<1>4. ASSUME NEW t \in Tasks, NoAvailableWallet(t)
      PROVE  WalletInv'
  <2>1. TypeOK'
    BY <1>4, FirstIdIsZero DEF NoAvailableWallet, TypeOK, Goto, Return
  <2>2. UsingHasWallet'
    BY <1>4 DEF NoAvailableWallet, TypeOK, UsingHasWallet, Goto, Return
  <2>3. UsedIsLocked'
    BY <1>4
       DEF NoAvailableWallet, TypeOK, UsingHasWallet, UsedIsLocked, Using,
           Goto, Return
  <2>4. ExclusiveInTime'
    BY <1>4
       DEF NoAvailableWallet, TypeOK, UsingHasWallet, UsedIsLocked,
           ExclusiveInTime, Using, Goto, Return
  <2>5. RowIsStable'
    BY <1>4
       DEF NoAvailableWallet, TypeOK, UsingHasWallet, ExclusiveInTime,
           RowIsStable, Using, Goto, Return
  <2>6. RowBoundsSent'
    BY <1>4
       DEF NoAvailableWallet, TypeOK, UsingHasWallet, ExclusiveInTime,
           RowIsStable, RowBoundsSent, Using, Goto, Return
  <2>7. ShortOfEmergency'
    BY <1>4, QueryIdAssumption
       DEF NoAvailableWallet, TypeOK, ShortOfEmergency, Goto, Return, Short,
           FirstId, Expired
  <2>8. EmergencyIdsKept'
    BY <1>4 DEF NoAvailableWallet, TypeOK, EmergencyIdsKept, Goto, Return
  <2> QED
    BY <2>1, <2>2, <2>3, <2>4, <2>5, <2>6, <2>7, <2>8
<1>5. ASSUME NEW t \in Tasks, GetQueryId(t)
      PROVE  WalletInv'
  <2>1. TypeOK'
    BY <1>5 DEF GetQueryId, TypeOK, UsingHasWallet, Goto
  <2>2. UsingHasWallet'
    BY <1>5 DEF GetQueryId, TypeOK, UsingHasWallet, Goto
  <2>3. UsedIsLocked'
    BY <1>5 DEF GetQueryId, TypeOK, UsingHasWallet, UsedIsLocked, Using, Goto
  <2>4. ExclusiveInTime'
    BY <1>5
       DEF GetQueryId, TypeOK, UsingHasWallet, UsedIsLocked, ExclusiveInTime,
           Using, Goto
  <2>5. RowIsStable'
    BY <1>5
       DEF GetQueryId, TypeOK, UsingHasWallet, ExclusiveInTime, RowIsStable,
           Using, Goto
  <2>6. RowBoundsSent'
    BY <1>5
       DEF GetQueryId, TypeOK, UsingHasWallet, ExclusiveInTime, RowIsStable,
           RowBoundsSent, Using, Goto
  <2>7. ShortOfEmergency'
    BY <1>5, QueryIdAssumption
       DEF GetQueryId, TypeOK, ShortOfEmergency, UsingHasWallet, Goto, Short,
           Expired
  <2>8. EmergencyIdsKept'
    BY <1>5 DEF GetQueryId, TypeOK, EmergencyIdsKept, Goto
  <2> QED
    BY <2>1, <2>2, <2>3, <2>4, <2>5, <2>6, <2>7, <2>8
<1>6. ASSUME NEW t \in Tasks, StoreQueryId(t)
      PROVE  WalletInv'
  <2>1. TypeOK'
    BY <1>6, SuccessorFacts
       DEF StoreQueryId, TypeOK, Goto, UpsertQueryId, UpdateQueryId
  <2>2. UsingHasWallet'
    BY <1>6
       DEF StoreQueryId, TypeOK, UsingHasWallet, Goto, UpsertQueryId,
           UpdateQueryId
  <2>3. UsedIsLocked'
    BY <1>6
       DEF StoreQueryId, TypeOK, UsingHasWallet, UsedIsLocked, Using, Goto,
           UpsertQueryId, UpdateQueryId
  <2>4. ExclusiveInTime'
    BY <1>6
       DEF StoreQueryId, TypeOK, UsingHasWallet, UsedIsLocked,
           ExclusiveInTime, Using, Goto, UpsertQueryId, UpdateQueryId
  <2>5. RowIsStable'
    BY <1>6
       DEF StoreQueryId, TypeOK, UsingHasWallet, ExclusiveInTime, RowIsStable,
           Using, Goto, UpsertQueryId, UpdateQueryId
  <2>6. RowBoundsSent'
    BY <1>6, SuccessorFacts
       DEF StoreQueryId, TypeOK, UsingHasWallet, ExclusiveInTime, RowIsStable,
           RowBoundsSent, Using, Goto, UpsertQueryId, UpdateQueryId
  <2>7. ShortOfEmergency'
    BY <1>6, SuccessorFacts
       DEF StoreQueryId, TypeOK, ShortOfEmergency, Goto, UpsertQueryId,
           UpdateQueryId
  <2>8. EmergencyIdsKept'
    BY <1>6, SuccessorFacts
       DEF StoreQueryId, TypeOK, EmergencyIdsKept, Goto, UpsertQueryId,
           UpdateQueryId
  <2> QED
    BY <2>1, <2>2, <2>3, <2>4, <2>5, <2>6, <2>7, <2>8
<1>7. ASSUME NEW t \in Tasks, NoNextId(t)
      PROVE  WalletInv'
  <2>1. TypeOK'
    BY <1>7 DEF NoNextId, TypeOK, Goto
  <2>2. UsingHasWallet'
    BY <1>7 DEF NoNextId, TypeOK, UsingHasWallet, Goto
  <2>3. UsedIsLocked'
    BY <1>7 DEF NoNextId, TypeOK, UsingHasWallet, UsedIsLocked, Using, Goto
  <2>4. ExclusiveInTime'
    BY <1>7
       DEF NoNextId, TypeOK, UsingHasWallet, UsedIsLocked, ExclusiveInTime,
           Using, Goto
  <2>5. RowIsStable'
    BY <1>7
       DEF NoNextId, TypeOK, UsingHasWallet, ExclusiveInTime, RowIsStable,
           Using, Goto
  <2>6. RowBoundsSent'
    BY <1>7
       DEF NoNextId, TypeOK, UsingHasWallet, ExclusiveInTime, RowIsStable,
           RowBoundsSent, Using, Goto
  <2>7. ShortOfEmergency'
    BY <1>7 DEF NoNextId, TypeOK, ShortOfEmergency, Goto
  <2>8. EmergencyIdsKept'
    BY <1>7 DEF NoNextId, TypeOK, EmergencyIdsKept, Goto
  <2> QED
    BY <2>1, <2>2, <2>3, <2>4, <2>5, <2>6, <2>7, <2>8
<1>8. ASSUME NEW t \in Tasks, Post(t)
      PROVE  WalletInv'
  <2>1. TypeOK'
    BY <1>8, QueryIdNat DEF Post, TypeOK, UsingHasWallet, Goto
  <2>2. UsingHasWallet'
    BY <1>8 DEF Post, TypeOK, UsingHasWallet, Goto
  <2>3. UsedIsLocked'
    BY <1>8 DEF Post, TypeOK, UsingHasWallet, UsedIsLocked, Using, Goto
  <2>4. ExclusiveInTime'
    BY <1>8
       DEF Post, TypeOK, UsingHasWallet, UsedIsLocked, ExclusiveInTime, Using,
           Goto
  <2>5. RowIsStable'
    BY <1>8
       DEF Post, TypeOK, UsingHasWallet, ExclusiveInTime, RowIsStable, Using,
           Goto
  <2>6. RowBoundsSent'
    BY <1>8
       DEF Post, TypeOK, UsingHasWallet, ExclusiveInTime, RowIsStable,
           RowBoundsSent, Using, Goto
  <2>7. ShortOfEmergency'
    BY <1>8 DEF Post, TypeOK, ShortOfEmergency, Goto
  <2>8. EmergencyIdsKept'
    BY <1>8, ShortIsKept
       DEF Post, TypeOK, UsingHasWallet, ShortOfEmergency, EmergencyIdsKept,
           Goto
  <2> QED
    BY <2>1, <2>2, <2>3, <2>4, <2>5, <2>6, <2>7, <2>8
<1>9. ASSUME NEW t \in Tasks, SendFails(t)
      PROVE  WalletInv'
  <2>1. TypeOK'
    BY <1>9, SuccessorFacts
       DEF SendFails, TypeOK, Goto, UpsertQueryId, UpdateQueryId
  <2>2. UsingHasWallet'
    BY <1>9
       DEF SendFails, TypeOK, UsingHasWallet, Goto, UpsertQueryId,
           UpdateQueryId
  <2>3. UsedIsLocked'
    BY <1>9
       DEF SendFails, TypeOK, UsingHasWallet, UsedIsLocked, Using, Goto,
           UpsertQueryId, UpdateQueryId
  <2>4. ExclusiveInTime'
    BY <1>9
       DEF SendFails, TypeOK, UsingHasWallet, UsedIsLocked, ExclusiveInTime,
           Using, Goto, UpsertQueryId, UpdateQueryId
  <2>5. RowIsStable'
    BY <1>9
       DEF SendFails, TypeOK, UsingHasWallet, ExclusiveInTime, RowIsStable,
           Using, Goto, UpsertQueryId, UpdateQueryId
  <2>6. RowBoundsSent'
    BY <1>9, SuccessorFacts
       DEF SendFails, TypeOK, UsingHasWallet, ExclusiveInTime, RowIsStable,
           RowBoundsSent, Using, Goto, UpsertQueryId, UpdateQueryId
  <2>7. ShortOfEmergency'
    BY <1>9, SuccessorFacts
       DEF SendFails, TypeOK, ShortOfEmergency, Goto, UpsertQueryId,
           UpdateQueryId
  <2>8. EmergencyIdsKept'
    BY <1>9, SuccessorFacts
       DEF SendFails, TypeOK, EmergencyIdsKept, Goto, UpsertQueryId,
           UpdateQueryId
  <2> QED
    BY <2>1, <2>2, <2>3, <2>4, <2>5, <2>6, <2>7, <2>8
<1>10. ASSUME NEW t \in Tasks, Release(t)
      PROVE  WalletInv'
  <2>1. TypeOK'
    BY <1>10, FirstIdIsZero DEF Release, TypeOK, Goto, Return
  <2>2. UsingHasWallet'
    BY <1>10 DEF Release, TypeOK, UsingHasWallet, Goto, Return
  <2>3. UsedIsLocked'
    BY <1>10
       DEF Release, TypeOK, UsingHasWallet, UsedIsLocked, ExclusiveInTime,
           Using, Goto, Return
  <2>4. ExclusiveInTime'
    BY <1>10
       DEF Release, TypeOK, UsingHasWallet, UsedIsLocked, ExclusiveInTime,
           Using, Goto, Return
  <2>5. RowIsStable'
    BY <1>10
       DEF Release, TypeOK, UsingHasWallet, ExclusiveInTime, RowIsStable,
           Using, Goto, Return
  <2>6. RowBoundsSent'
    BY <1>10
       DEF Release, TypeOK, UsingHasWallet, ExclusiveInTime, RowIsStable,
           RowBoundsSent, Using, Goto, Return
  <2>7. ShortOfEmergency'
    BY <1>10, QueryIdAssumption
       DEF Release, TypeOK, ShortOfEmergency, Goto, Return, Short, FirstId,
           Expired
  <2>8. EmergencyIdsKept'
    BY <1>10 DEF Release, TypeOK, EmergencyIdsKept, Goto, Return
  <2> QED
    BY <2>1, <2>2, <2>3, <2>4, <2>5, <2>6, <2>7, <2>8
<1>11. ASSUME NEW t \in Tasks, Crash(t)
      PROVE  WalletInv'
  <2>1. TypeOK'
    BY <1>11, FirstIdIsZero DEF Crash, TypeOK, Goto, Return
  <2>2. UsingHasWallet'
    BY <1>11 DEF Crash, TypeOK, UsingHasWallet, Goto, Return
  <2>3. UsedIsLocked'
    BY <1>11
       DEF Crash, TypeOK, UsingHasWallet, UsedIsLocked, Using, Goto, Return
  <2>4. ExclusiveInTime'
    BY <1>11
       DEF Crash, TypeOK, UsingHasWallet, UsedIsLocked, ExclusiveInTime,
           Using, Goto, Return
  <2>5. RowIsStable'
    BY <1>11
       DEF Crash, TypeOK, UsingHasWallet, ExclusiveInTime, RowIsStable, Using,
           Goto, Return
  <2>6. RowBoundsSent'
    BY <1>11
       DEF Crash, TypeOK, UsingHasWallet, ExclusiveInTime, RowIsStable,
           RowBoundsSent, Using, Goto, Return
  <2>7. ShortOfEmergency'
    BY <1>11, QueryIdAssumption
       DEF Crash, TypeOK, ShortOfEmergency, Goto, Return, Short, FirstId,
           Expired
  <2>8. EmergencyIdsKept'
    BY <1>11 DEF Crash, TypeOK, EmergencyIdsKept, Goto, Return
  <2> QED
    BY <2>1, <2>2, <2>3, <2>4, <2>5, <2>6, <2>7, <2>8
<1>12. ASSUME NEW w \in Wallets, LockExpires(w)
      PROVE  WalletInv'
  <2>1. TypeOK'
    BY <1>12 DEF LockExpires, TypeOK, taskVars
  <2>2. UsingHasWallet'
    BY <1>12 DEF LockExpires, TypeOK, UsingHasWallet, taskVars
  <2>3. UsedIsLocked'
    BY <1>12
       DEF LockExpires, TypeOK, UsingHasWallet, UsedIsLocked, Using, taskVars
  <2>4. ExclusiveInTime'
    BY <1>12
       DEF LockExpires, TypeOK, UsingHasWallet, UsedIsLocked, ExclusiveInTime,
           Using, taskVars
  <2>5. RowIsStable'
    BY <1>12
       DEF LockExpires, TypeOK, UsingHasWallet, ExclusiveInTime, RowIsStable,
           Using, taskVars
  <2>6. RowBoundsSent'
    BY <1>12
       DEF LockExpires, TypeOK, UsingHasWallet, ExclusiveInTime, RowIsStable,
           RowBoundsSent, Using, taskVars
  <2>7. ShortOfEmergency'
    BY <1>12 DEF LockExpires, TypeOK, ShortOfEmergency, taskVars
  <2>8. EmergencyIdsKept'
    BY <1>12 DEF LockExpires, TypeOK, EmergencyIdsKept, taskVars
  <2> QED
    BY <2>1, <2>2, <2>3, <2>4, <2>5, <2>6, <2>7, <2>8
<1>13. ASSUME NEW w \in Wallets, RowExpires(w)
      PROVE  WalletInv'
  <2>1. TypeOK'
    BY <1>13 DEF RowExpires, TypeOK, taskVars
  <2>2. UsingHasWallet'
    BY <1>13 DEF RowExpires, TypeOK, UsingHasWallet, taskVars
  <2>3. UsedIsLocked'
    BY <1>13
       DEF RowExpires, TypeOK, UsingHasWallet, UsedIsLocked, Using, taskVars
  <2>4. ExclusiveInTime'
    BY <1>13
       DEF RowExpires, TypeOK, UsingHasWallet, UsedIsLocked, ExclusiveInTime,
           Using, taskVars
  <2>5. RowIsStable'
    BY <1>13
       DEF RowExpires, TypeOK, UsingHasWallet, ExclusiveInTime, RowIsStable,
           Using, taskVars
  <2>6. RowBoundsSent'
    BY <1>13
       DEF RowExpires, TypeOK, UsingHasWallet, ExclusiveInTime, RowIsStable,
           RowBoundsSent, Using, taskVars
  <2>7. ShortOfEmergency'
    BY <1>13 DEF RowExpires, TypeOK, ShortOfEmergency, taskVars
  <2>8. EmergencyIdsKept'
    BY <1>13 DEF RowExpires, TypeOK, EmergencyIdsKept, taskVars
  <2> QED
    BY <2>1, <2>2, <2>3, <2>4, <2>5, <2>6, <2>7, <2>8
<1>14. CASE UNCHANGED vars
  BY <1>14
     DEF vars, taskVars, TypeOK, UsingHasWallet, UsedIsLocked, ExclusiveInTime,
         RowIsStable, RowBoundsSent, ShortOfEmergency, EmergencyIdsKept, Using
<1> QED
  BY <1>1, <1>2, <1>3, <1>4, <1>5, <1>6, <1>7, <1>8, <1>9, <1>10, <1>11, <1>12, <1>13, <1>14
     DEF Next, TaskStep

\* The inductive invariant of the wallet pool (TonWallet!WalletInv) holds in
\* every state of every pool, expired locks included.
THEOREM WalletInvariant == Spec => []WalletInv
<1>1. Init => WalletInv
  BY FirstIdIsZero, QueryIdAssumption
     DEF Init, WalletInv, TypeOK, UsingHasWallet, UsedIsLocked, ExclusiveInTime,
         RowIsStable, RowBoundsSent, ShortOfEmergency, EmergencyIdsKept, Using,
         FirstId, Short, Expired
<1>2. WalletInv /\ [Next]_vars => WalletInv'
  BY WalletStep
<1> QED
  BY <1>1, <1>2, PTL DEF Spec

\* Two tasks are between WalletManager's acquire() and release() on one wallet
\* only after its Redis key expired while a task was using it.
THEOREM WalletExclusive == Spec => []ExclusiveInTime
<1>1. WalletInv => ExclusiveInTime
  BY DEF WalletInv
<1> QED
  BY <1>1, WalletInvariant, PTL

\* HighLoadQueryIdDbWrapper::next returns an id already posted since the row
\* was last reset only on a wallet whose lock expired in use: a task that
\* fails, dies or loses an answer between the read and the write never
\* brings one back.
THEOREM WalletFreshId == Spec => []FreshId
<1>1. WalletInv => FreshId
  <2> SUFFICES ASSUME WalletInv, NEW t \in Tasks, stage[t] = "post", wallet[t] \notin overrun,
                      QueryIdOf(id[t]) \in sent[wallet[t]]
               PROVE  FALSE
    BY DEF FreshId
  <2>1. wallet[t] \in Wallets /\ id[t] = row[wallet[t]] /\ id[t] \in QueryId
    BY DEF WalletInv, UsingHasWallet, RowIsStable, TypeOK
  <2>2. QueryIdOf(id[t]) < QueryIdOf(row[wallet[t]])
    BY <2>1 DEF WalletInv, RowBoundsSent
  <2> QED
    BY <2>1, <2>2, QueryIdNat
<1> QED
  BY <1>1, WalletInvariant, PTL

\* HighLoadQueryId::next keeps the last two ids of the last shift back however
\* long the wallet is in use and whoever shares it.
THEOREM WalletEmergencyIds == Spec => []EmergencyIdsKept
<1>1. WalletInv => EmergencyIdsKept
  BY DEF WalletInv
<1> QED
  BY <1>1, WalletInvariant, PTL
-----------------------------------------------------------------------------
(***************************************************************************)
(* The reset of a row in time.                                             *)
(***************************************************************************)
LEMMA ResetTypes ==
    ASSUME ResetTypeOK
    PROVE  /\ now \in Nat /\ lastClean \in Nat /\ lastClean <= now
           /\ started \in Int /\ started <= now /\ started >= -1 /\ expires \in Int
           /\ Timeout \in Nat \ {0} /\ MaxTime \in Nat /\ now <= MaxTime
           /\ stored \in QueryId
           /\ \A m \in pending : /\ m.id \in QueryId /\ m.row \in Nat /\ m.row <= now
                                 /\ m = [id |-> m.id, at |-> m.at, row |-> m.row]
           /\ \A q \in QueryId : /\ lastUse[q].row \in Int /\ lastUse[q].row <= now
                                 /\ lastUse[q].at \in Int /\ lastUse[q].at <= now
<1>1. /\ now \in Nat /\ lastClean \in Nat /\ lastClean <= now
      /\ started \in Int /\ started <= now /\ started >= -1 /\ expires \in Int
      /\ Timeout \in Nat \ {0} /\ MaxTime \in Nat /\ now <= MaxTime
      /\ stored \in QueryId
  BY ResetAssumption DEF ResetTypeOK
<1>2. ASSUME NEW m \in pending
      PROVE  /\ m.id \in QueryId /\ m.row \in Nat /\ m.row <= now
             /\ m = [id |-> m.id, at |-> m.at, row |-> m.row]
  <2>1. m \in [id : QueryId, at : 0..now, row : 0..now]
    BY DEF ResetTypeOK
  <2> QED
    BY <1>1, <2>1
<1>3. ASSUME NEW q \in QueryId
      PROVE  /\ lastUse[q].row \in Int /\ lastUse[q].row <= now
             /\ lastUse[q].at \in Int /\ lastUse[q].at <= now
  <2>1. lastUse[q] \in [row : -1..now, at : -1..now]
    BY DEF ResetTypeOK
  <2> QED
    BY <1>1, <2>1
<1> QED
  BY <1>1, <1>2, <1>3

\* What the contract still remembers was accepted in the last three timeouts.
LEMMA RememberedIsRecent ==
    ASSUME ResetTypeOK, Remembered, NEW q \in Recent \cup Older
    PROVE  q \in QueryId /\ lastUse[q].row >= 0 /\ now <= lastUse[q].at + 3 * Timeout
<1>1. q \in queries \cup oldQueries /\ q \in QueryId
  BY DEF Recent, Older, ResetTypeOK
<1>2. lastUse[q].at \in Int /\ now \in Nat /\ lastClean \in Nat /\ Timeout \in Nat
  BY <1>1, ResetTypes
<1>3. CASE Rotates
  <2>1. q \in queries /\ now <= lastClean + 2 * Timeout
    BY <1>2, <1>3 DEF Recent, Older
  <2> QED
    BY <1>1, <1>2, <2>1 DEF Remembered
<1>4. CASE ~Rotates
  <2>1. now <= lastClean + Timeout
    BY <1>2, <1>4 DEF Rotates
  <2>2. lastClean <= lastUse[q].at + 2 * Timeout
    BY <1>1, <1>2 DEF Remembered
  <2> QED
    BY <1>1, <1>2, <2>1, <2>2 DEF Remembered
<1> QED
  BY <1>3, <1>4

\* Rows more than three timeouts apart leave the contract no way to refuse a
\* message that is not early in its row.
LEMMA ApartIsEarly ==
    ResetTypeOK /\ RowsApart /\ UsedOnce /\ Remembered => RefusedIsEarly
<1> SUFFICES ASSUME ResetTypeOK, RowsApart, UsedOnce, Remembered, NEW m \in pending, Refused(m)
             PROVE  LET use == lastUse[m.id] IN
                    \/ m.row < use.row
                    \/ m.row > use.row /\ now - m.row < use.at - use.row
  BY DEF RefusedIsEarly
<1> DEFINE r == lastUse[m.id].row
<1> DEFINE a == lastUse[m.id].at
<1>1. r >= 0 /\ now <= a + 3 * Timeout
  BY RememberedIsRecent DEF Refused
<1>2. /\ r \in Int /\ a \in Int /\ m.row \in Nat /\ now \in Nat /\ Timeout \in Nat
  BY ResetTypes
<1>3. m.row + 3 * Timeout < r \/ r + 3 * Timeout < m.row
  BY <1>1 DEF RowsApart, Apart, UsedOnce
<1> HIDE DEF r, a
<1>4. m.row < r \/ (m.row > r /\ now - m.row < a - r)
  BY <1>1, <1>2, <1>3
<1> QED
  BY <1>4 DEF r, a

LEMMA ResetStep ==
    ASSUME ResetInv, [ResetNext]_resetVars
    PROVE  ResetInv'
<1> USE DEF ResetInv
<1>0. /\ now \in Nat /\ lastClean \in Nat /\ lastClean <= now
      /\ started \in Int /\ started <= now /\ started >= -1 /\ expires \in Int
      /\ Timeout \in Nat \ {0} /\ MaxTime \in Nat /\ now <= MaxTime
      /\ stored \in QueryId
  BY ResetTypes
<1>1. CASE SendFirst
  <2> DEFINE f == [id |-> FirstId, at |-> now, row |-> now]
  <2>1. /\ expires < now /\ stored' = FirstId /\ started' = now
        /\ expires' = now + Timeout * 3 /\ pending' = pending \cup {f}
        /\ UNCHANGED <<now, queries, oldQueries, lastClean, lastUse>>
    BY <1>0, <1>1 DEF SendFirst, Expiry
  <2>2. ResetTypeOK'
    BY <1>0, <2>1, FirstIdIsZero DEF ResetTypeOK
  <2>3. RowLife'
    BY <1>0, <2>1 DEF RowLife
  \* Every earlier row had expired.
  <2>4. ASSUME NEW q, NEW r \in Int, OfRow(q, r)
        PROVE  r = -1 \/ r + 3 * Timeout < now
    BY <1>0, <2>1, <2>4 DEF OfRow, RowLife
  <2>5. \A m \in pending : m.row \in Nat /\ m.row + 3 * Timeout < now
    BY <2>4, ResetTypes DEF RowsInOrder
  <2>6. \A q \in QueryId : lastUse[q].row = -1 \/ lastUse[q].row + 3 * Timeout < now
    BY <2>4, ResetTypes DEF RowsInOrder
  <2>7. RowsInOrder'
    BY <1>0, <2>1, <2>5, <2>6, FirstIdIsZero DEF RowsInOrder, OfRow
  <2>8. RowsApart'
    BY <1>0, <2>1, <2>5, <2>6, FirstIdIsZero DEF RowsApart, Apart
  <2>9. PendingApart'
    BY <1>0, <2>1, <2>5 DEF PendingApart, Apart
  <2>10. UsedOnce'
    BY <1>0, <2>1, <2>5, <2>6, FirstIdIsZero DEF UsedOnce
  <2>11. Remembered'
    BY <2>1 DEF Remembered
  <2> QED
    BY <2>2, <2>3, <2>7, <2>8, <2>9, <2>10, <2>11, ApartIsEarly, PTL
<1>2. CASE SendNext
  <2> DEFINE s == NextId(stored)
  <2> DEFINE f == [id |-> s, at |-> now, row |-> started]
  <2>1. /\ expires >= now /\ stored' = s /\ pending' = pending \cup {f}
        /\ UNCHANGED <<now, started, expires, queries, oldQueries, lastClean, lastUse>>
    BY <1>2 DEF SendNext
  <2>2. /\ s \in QueryId /\ QueryIdOf(s) \in Nat
        /\ QueryIdOf(stored) \in Nat /\ QueryIdOf(stored) < QueryIdOf(s)
    <3>1. Short(stored) /\ NextError(stored) = "ok"
      BY <1>0, <1>2, QueryIdAssumption DEF SendNext, HasNext, QueryId, Short
    <3> QED
      BY <1>0, <3>1, NextIdFacts, QueryIdNat
  <2> HIDE DEF s
  <2>3. started >= 0
    BY <1>0, <2>1 DEF RowLife
  <2>4. ResetTypeOK'
    BY <1>0, <2>1, <2>2, <2>3 DEF ResetTypeOK
  <2>5. RowLife'
    BY <2>1 DEF RowLife
  \* An id above the stored one has not been used in this row.
  <2>6. ASSUME NEW q \in QueryId, NEW r \in Int, OfRow(q, r)
        PROVE  /\ QueryIdOf(q) \in Nat
               /\ \/ r = -1 \/ r + 3 * Timeout < started
                  \/ r = started /\ QueryIdOf(q) <= QueryIdOf(stored)
    BY <2>6, QueryIdNat DEF OfRow
  <2>7. \A m \in pending :
           /\ m.row \in Nat /\ m.id \in QueryId /\ QueryIdOf(m.id) \in Nat
           /\ \/ m.row + 3 * Timeout < started
              \/ m.row = started /\ QueryIdOf(m.id) <= QueryIdOf(stored)
    BY <2>6, ResetTypes DEF RowsInOrder
  <2>8. \A q \in QueryId :
           /\ lastUse[q].row \in Int /\ QueryIdOf(q) \in Nat
           /\ \/ lastUse[q].row = -1 \/ lastUse[q].row + 3 * Timeout < started
              \/ lastUse[q].row = started /\ QueryIdOf(q) <= QueryIdOf(stored)
    BY <2>6, ResetTypes DEF RowsInOrder
  <2>9. RowsInOrder'
    BY <1>0, <2>1, <2>2, <2>3, <2>7, <2>8 DEF RowsInOrder, OfRow
  <2>10. RowsApart'
    BY <1>0, <2>1, <2>2, <2>8 DEF RowsApart, Apart
  <2>11. PendingApart'
    BY <1>0, <2>1, <2>7 DEF PendingApart, Apart
  <2>12. UsedOnce'
    BY <1>0, <2>1, <2>2, <2>3, <2>7, <2>8 DEF UsedOnce
  <2>13. Remembered'
    BY <2>1 DEF Remembered
  <2> QED
    BY <2>4, <2>5, <2>9, <2>10, <2>11, <2>12, <2>13, ApartIsEarly, PTL
<1>3. ASSUME NEW m \in pending, Receive(m) \/ Lose(m), UNCHANGED <<queries, oldQueries, lastClean, lastUse>>
      PROVE  ResetInv'
  <2>1. pending' \subseteq pending /\ UNCHANGED <<now, stored, started, expires>>
    BY <1>3 DEF Receive, Lose
  <2>2. ResetTypeOK' /\ RowLife'
    BY <1>3, <2>1 DEF ResetTypeOK, RowLife
  <2>3. RowsInOrder' /\ RowsApart' /\ PendingApart' /\ UsedOnce' /\ Remembered'
    BY <1>3, <2>1 DEF RowsInOrder, OfRow, RowsApart, PendingApart, UsedOnce, Remembered
  <2> QED
    BY <2>2, <2>3, ApartIsEarly, PTL
<1>4. ASSUME NEW m \in pending, Receive(m), ~Refused(m)
      PROVE  ResetInv'
  <2>1. /\ pending' = pending \ {m} /\ UNCHANGED <<now, stored, started, expires>>
        /\ queries' = Recent \cup {m.id} /\ oldQueries' = Older
        /\ lastClean' = IF Rotates THEN now ELSE lastClean
        /\ lastUse' = [lastUse EXCEPT ![m.id] = [row |-> m.row, at |-> now]]
    BY <1>4 DEF Receive
  <2>2. /\ m.id \in QueryId /\ m.row \in Nat /\ m.row <= now
        /\ m = [id |-> m.id, at |-> m.at, row |-> m.row]
    BY ResetTypes
  <2>3. /\ lastUse'[m.id] = [row |-> m.row, at |-> now]
        /\ \A q \in QueryId : q # m.id => lastUse'[q] = lastUse[q]
    BY <2>1, <2>2 DEF ResetTypeOK
  <2>4. ResetTypeOK'
    BY <1>0, <2>1, <2>2 DEF ResetTypeOK, Recent, Older
  <2>5. RowLife'
    BY <2>1 DEF RowLife
  <2>6. RowsInOrder'
    <3>1. \A n \in pending' : OfRow(n.id, n.row)'
      BY <2>1 DEF RowsInOrder, OfRow
    <3>2. ASSUME NEW q \in QueryId
          PROVE  OfRow(q, lastUse[q].row)'
      <4>1. CASE q = m.id
        BY <2>1, <2>3, <4>1 DEF RowsInOrder, OfRow
      <4>2. CASE q # m.id
        BY <2>1, <2>3, <4>2 DEF RowsInOrder, OfRow
      <4> QED
        BY <4>1, <4>2
    <3> QED
      BY <3>1, <3>2 DEF RowsInOrder
  <2>7. ASSUME NEW n \in pending'
        PROVE  /\ n.row # lastUse'[n.id].row
               /\ lastUse'[n.id].row >= 0 => Apart(n.row, lastUse'[n.id].row)
    <3>1. n \in pending /\ n # m /\ n.id \in QueryId
      BY <2>1, ResetTypes
    <3>2. CASE n.id = m.id
      BY <2>3, <3>1, <3>2 DEF UsedOnce, PendingApart
    <3>3. CASE n.id # m.id
      BY <2>3, <3>1, <3>3 DEF UsedOnce, RowsApart
    <3> QED
      BY <3>2, <3>3
  <2>8. RowsApart' /\ PendingApart' /\ UsedOnce'
    BY <2>1, <2>7 DEF RowsApart, PendingApart, UsedOnce, Apart
  <2>9. Remembered'
    <3>1. m.id \notin Recent \cup Older
      BY <1>4 DEF Refused
    <3>2. ASSUME NEW q \in Recent
          PROVE  q \in QueryId /\ q # m.id /\ lastUse[q].row >= 0 /\ lastClean' <= lastUse[q].at
      BY <2>1, <3>1 DEF Recent, Remembered, ResetTypeOK
    <3>3. ASSUME NEW q \in Older
          PROVE  /\ q \in QueryId /\ q # m.id /\ lastUse[q].row >= 0
                 /\ lastClean' <= lastUse[q].at + 2 * Timeout
      <4>1. q # m.id /\ q \in QueryId /\ q \in queries \cup oldQueries
        BY <3>1 DEF Older, ResetTypeOK
      <4>2. lastUse[q].row >= 0 /\ lastUse[q].at \in Int
        BY <4>1, ResetTypes DEF Remembered
      <4>3. CASE ~Rotates
        BY <2>1, <4>1, <4>2, <4>3 DEF Older, Remembered
      <4>4. CASE Rotates
        <5>1. q \in queries /\ now <= lastClean + 2 * Timeout /\ lastClean' = now
          BY <1>0, <2>1, <4>4 DEF Older
        <5> QED
          BY <1>0, <4>1, <4>2, <5>1 DEF Remembered
      <4> QED
        BY <4>3, <4>4
    <3>4. lastClean' <= now /\ lastUse'[m.id].row >= 0 /\ lastUse'[m.id].at = now
      BY <1>0, <2>1, <2>2, <2>3
    <3> QED
      BY <2>1, <2>3, <3>2, <3>3, <3>4 DEF Remembered
  <2> QED
    BY <2>4, <2>5, <2>6, <2>8, <2>9, ApartIsEarly, PTL
<1>5. CASE Tick
  <2>1. /\ now' = now + 1 /\ now < MaxTime
        /\ UNCHANGED <<stored, started, expires, pending, queries, oldQueries, lastClean, lastUse>>
    BY <1>5 DEF Tick
  <2>2. ResetTypeOK'
    <3>1. [id : QueryId, at : 0..now, row : 0..now] \subseteq [id : QueryId, at : 0..now', row : 0..now']
      BY <1>0, <2>1
    <3>2. [row : -1..now, at : -1..now] \subseteq [row : -1..now', at : -1..now']
      BY <1>0, <2>1
    <3>3. lastUse \in [QueryId -> [row : -1..now', at : -1..now']]
      BY <3>2 DEF ResetTypeOK
    <3>4. /\ now' \in 0..MaxTime /\ started \in -1..now' /\ lastClean \in 0..now'
      BY <1>0, <2>1
    <3> QED
      BY <2>1, <3>1, <3>3, <3>4 DEF ResetTypeOK
  <2>3. RowLife' /\ RowsInOrder' /\ RowsApart' /\ PendingApart' /\ UsedOnce' /\ Remembered'
    BY <2>1 DEF RowLife, RowsInOrder, OfRow, RowsApart, PendingApart, Apart, UsedOnce, Remembered
  <2> QED
    BY <2>2, <2>3, ApartIsEarly, PTL
<1>6. CASE UNCHANGED resetVars
  <2>1. ResetTypeOK' /\ RowLife' /\ RowsInOrder' /\ RowsApart' /\ PendingApart' /\ UsedOnce' /\ Remembered'
    BY <1>6 DEF resetVars, ResetTypeOK, RowLife, RowsInOrder, OfRow, RowsApart, PendingApart, Apart,
                UsedOnce, Remembered
  <2> QED
    BY <2>1, ApartIsEarly, PTL
<1>7. ASSUME NEW m \in pending, Receive(m)
      PROVE  ~Refused(m) \/ UNCHANGED <<queries, oldQueries, lastClean, lastUse>>
  BY <1>7 DEF Receive
<1>8. ASSUME NEW m \in pending, Lose(m)
      PROVE  UNCHANGED <<queries, oldQueries, lastClean, lastUse>>
  BY <1>8 DEF Lose
<1> QED
  BY <1>1, <1>2, <1>3, <1>4, <1>5, <1>6, <1>7, <1>8 DEF ResetNext

\* The three timeouts that upsert_query_id gives a row: for every timeout,
\* range of ids and delay of the messages, the contract refuses an id after a
\* reset only if it comes earlier in its row than its last use did in an
\* earlier row, or if a message of a later row overtook it.
THEOREM ResetRefusedIsEarly == ResetSpec => []RefusedIsEarly
<1>1. ResetInit => ResetInv
  <2>1. ResetInit => ResetTypeOK
    BY ResetAssumption, FirstIdIsZero DEF ResetInit, ResetTypeOK
  <2>2. ResetInit => RowLife /\ RowsInOrder /\ RowsApart /\ PendingApart /\ UsedOnce /\ Remembered
    BY DEF ResetInit, RowLife, RowsInOrder, OfRow, RowsApart, PendingApart, UsedOnce, Remembered
  <2> QED
    BY <2>1, <2>2, ApartIsEarly DEF ResetInv
<1>2. ResetInv /\ [ResetNext]_resetVars => ResetInv'
  BY ResetStep
<1>3. ResetInv => RefusedIsEarly
  BY DEF ResetInv
<1> QED
  BY <1>1, <1>2, <1>3, PTL DEF ResetSpec
=============================================================================

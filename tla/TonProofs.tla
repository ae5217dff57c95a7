------------------------------ MODULE TonProofs -----------------------------
(***************************************************************************)
(* Proofs about the TON half of the relayer.  First its subscribers        *)
(* (TonTraces), for every set of traces and accounts and every number of   *)
(* retries, database errors and stops.  Then a transaction from its cause  *)
(* to its events (TonRelay), for every set of wallets, acts, messages, gas *)
(* balances, estimates, prices and sizes of a cell: the invariant RelayInv *)
(* says that the trace is that of the job and that the parser has          *)
(* collected what the scanned part of it holds; the four properties of     *)
(* TonRelay follow from it in the state in which the events are recorded.  *)
(***************************************************************************)
EXTENDS TonTraces, TonRelay, SequenceTheorems, FiniteSetTheorems, WellFoundedInduction, TLAPS


\* A finite nonempty set of naturals has a greatest element: otherwise take a
\* smallest set without one and remove an element.
LEMMA GreatestOfFinite ==
    ASSUME NEW S, S \subseteq Nat, IsFiniteSet(S), S # {}
    PROVE  \E m \in S : \A n \in S : n <= m
<1> DEFINE HasGreatest(T) == \E m \in T : \A n \in T : n <= m
           Bad == {T \in FiniteSubsetsOf(Nat) : T # {} /\ ~ HasGreatest(T)}
<1>1. SUFFICES ASSUME Bad # {}
               PROVE  FALSE
  BY DEF FiniteSubsetsOf
<1>2. Bad \subseteq FiniteSubsetsOf(Nat)
  OBVIOUS
<1>3. PICK T \in Bad : \A U \in Bad : ~ (<<U, T>> \in StrictSubsetOrdering(Nat))
  <2> HIDE DEF Bad
  <2> QED
    BY <1>1, <1>2, FS_StrictSubsetOrderingWellFounded, WFMin, Zenon
<1>4. T \subseteq Nat /\ IsFiniteSet(T) /\ T # {} /\ ~ HasGreatest(T)
  BY DEF FiniteSubsetsOf
<1>5. PICK k \in T : TRUE
  BY <1>4
<1> DEFINE U == T \ {k}
<1>6. IsFiniteSet(U) /\ U \subseteq Nat /\ U \subseteq T /\ U # T
  BY <1>4, FS_Subset
<1>7. U # {}
  <2>1. SUFFICES ASSUME U = {}
                 PROVE  HasGreatest(T)
    BY <1>4
  <2>2. \A n \in T : n = k
    BY <2>1
  <2> QED
    BY <1>4, <2>2
<1>8. HasGreatest(U)
  <2>1. <<U, T>> \in StrictSubsetOrdering(Nat)
    BY <1>4, <1>6 DEF StrictSubsetOrdering
  <2>2. U \notin Bad
    BY <1>3, <2>1
  <2> QED
    BY <1>6, <1>7, <2>2 DEF FiniteSubsetsOf
<1>9. PICK m \in U : \A n \in U : n <= m
  BY <1>8
<1>10. HasGreatest(T)
  <2>1. CASE k <= m
    BY <1>4, <1>6, <1>9, <2>1
  <2>2. CASE m <= k
    BY <1>4, <1>6, <1>9, <2>2
  <2> QED
    BY <1>4, <1>6, <2>1, <2>2
<1> QED
  BY <1>4, <1>10

\* The image of a finite set under a function is finite.
LEMMA ImageFinite ==
    ASSUME NEW S, IsFiniteSet(S), NEW R, NEW f \in [S -> R]
    PROVE  IsFiniteSet({f[x] : x \in S})
<1>1. f \in Surjection(S, {f[x] : x \in S})
  BY DEF Surjection
<1> QED
  BY <1>1, FS_Surjection

\* The cursor after a page: the greatest end that was seen in it.
LEMMA LatestOfPage ==
    ASSUME NEW B, B \subseteq Traces \X Versions, B # {}
    PROVE  \E e \in B : /\ Latest({SeenEnd(f[1], f[2]) : f \in B}) = SeenEnd(e[1], e[2])
                        /\ \A f \in B : SeenEnd(f[1], f[2]) <= SeenEnd(e[1], e[2])
<1> DEFINE S == {SeenEnd(f[1], f[2]) : f \in B}
<1>1. \A f \in B : f[1] \in Traces /\ SeenEnd(f[1], f[2]) \in {StartLt[f[1]], EndLt[f[1]]}
  BY DEF SeenEnd
<1>2. S \subseteq {StartLt[t] : t \in Traces} \cup {EndLt[t] : t \in Traces}
  BY <1>1
<1>3. /\ IsFiniteSet({StartLt[t] : t \in Traces}) /\ IsFiniteSet({EndLt[t] : t \in Traces})
      /\ {StartLt[t] : t \in Traces} \subseteq Nat /\ {EndLt[t] : t \in Traces} \subseteq Nat
  <2>1. StartLt \in [Traces -> Nat] /\ EndLt \in [Traces -> Nat] /\ IsFiniteSet(Traces)
    BY TracesAssumption
  <2>2. IsFiniteSet({StartLt[t] : t \in Traces})
    BY <2>1, ImageFinite
  <2>3. IsFiniteSet({EndLt[t] : t \in Traces})
    BY <2>1, ImageFinite
  <2> QED
    BY <2>1, <2>2, <2>3
<1>4. IsFiniteSet(S) /\ S \subseteq Nat /\ S # {}
  <2>1. IsFiniteSet({StartLt[t] : t \in Traces} \cup {EndLt[t] : t \in Traces})
    BY <1>3, FS_Union
  <2>2. S # {}
    OBVIOUS
  <2> HIDE DEF S
  <2> QED
    BY <1>2, <1>3, <2>1, <2>2, FS_Subset
<1>5. Latest(S) \in S /\ \A n \in S : n <= Latest(S)
  <2> HIDE DEF S
  <2> QED
    BY <1>4, GreatestOfFinite DEF Latest
<1>6. PICK e \in B : Latest(S) = SeenEnd(e[1], e[2])
  BY <1>5
<1>7. \A f \in B : SeenEnd(f[1], f[2]) <= SeenEnd(e[1], e[2])
  BY <1>5, <1>6
<1> QED
  BY <1>6, <1>7

\* Logical times are naturals, and a trace seen ends between its start and its end.
LEMMA SeenEndBounds ==
    ASSUME NEW t \in Traces, NEW v
    PROVE  /\ StartLt[t] \in Nat /\ EndLt[t] \in Nat /\ SeenEnd(t, v) \in Nat
           /\ StartLt[t] <= SeenEnd(t, v) /\ SeenEnd(t, v) <= EndLt[t]
BY TracesAssumption DEF SeenEnd

\* No trace is skipped, because the cursors cover what is behind them.
LEMMA CoveredNotSkipped == TypeOK /\ ShownFirst /\ CursorCovers => NoTraceSkipped
<1> SUFFICES ASSUME TypeOK, ShownFirst, CursorCovers, NEW t \in Traces, NEW a \in TouchedBy[t],
                    net[t] # "hidden", row[t] = NoRow
             PROVE  \/ cursor[a] < StartLt[t]
                    \/ pc[a] = "down" /\ stored[a] < StartLt[t]
                    \/ InBatch(t) \/ t \in lost \/ Overtaken(t, a)
  BY DEF NoTraceSkipped
<1>1. a \in Accounts /\ a \in Subscribers /\ cursor[a] \in Int /\ stored[a] \in Int /\ StartLt[t] \in Nat
  BY TracesAssumption DEF TypeOK, Subscribers
<1>2. ASSUME NEW x \in Int, Covered(t, a, x), ~ (x < StartLt[t])
      PROVE  InBatch(t) \/ t \in lost \/ Overtaken(t, a)
  <2>1. PICK u \in Traces : /\ a \in TouchedBy[u] /\ StartLt[t] <= EndLt[u]
                            /\ \/ row[u].version # "none" \/ u \in lost
                               \/ StartLt[u] <= x /\ \E e \in batch[a] : e[1] = u
    BY <1>1, <1>2 DEF Covered
  <2>2. row[u] # NoRow \/ u \in lost \/ InBatch(u)
    BY <1>1, <2>1 DEF InBatch, NoRow
  <2>3. CASE u = t
    BY <2>2, <2>3
  <2>4. CASE u # t
    BY <2>1, <2>2, <2>4 DEF Overtaken
  <2> QED
    BY <2>3, <2>4
<1>3. CASE pc[a] = "down"
  BY <1>1, <1>2, <1>3 DEF CursorCovers
<1>4. CASE pc[a] # "down"
  BY <1>1, <1>2, <1>4 DEF CursorCovers
<1> QED
  BY <1>3, <1>4

\* What is recorded, dropped or in the account's page stays so, or what leaves
\* the page is recorded or dropped: then a cursor covers what it covered.
LEMMA StillCovered ==
    ASSUME NEW t \in Traces, NEW a \in Accounts, NEW x, Covered(t, a, x),
           \A u \in Traces : row[u].version # "none" => row'[u].version # "none",
           lost \subseteq lost',
           \A e \in batch[a] : e \in batch'[a] \/ row'[e[1]].version # "none"
                               \/ (StartLt[e[1]] <= x => e[1] \in lost')
    PROVE  StartLt[t] <= x =>
               \E u \in Traces :
                   /\ a \in TouchedBy[u] /\ StartLt[t] <= EndLt[u]
                   /\ \/ row'[u].version # "none" \/ u \in lost'
                      \/ StartLt[u] <= x /\ \E e \in batch'[a] : e[1] = u
<1> SUFFICES ASSUME StartLt[t] <= x
             PROVE  \E u \in Traces :
                        /\ a \in TouchedBy[u] /\ StartLt[t] <= EndLt[u]
                        /\ \/ row'[u].version # "none" \/ u \in lost'
                           \/ StartLt[u] <= x /\ \E e \in batch'[a] : e[1] = u
  OBVIOUS
<1>1. PICK u \in Traces : /\ a \in TouchedBy[u] /\ StartLt[t] <= EndLt[u]
                          /\ \/ row[u].version # "none" \/ u \in lost
                             \/ StartLt[u] <= x /\ \E e \in batch[a] : e[1] = u
  BY DEF Covered
<1> QED
  BY <1>1

\* The same of all cursors, when none of them moves.
LEMMA CoversKept ==
    ASSUME CursorCovers, cursor' = cursor, stored' = stored,
           \A a \in Accounts : pc'[a] # "down" => pc[a] # "down",
           \A u \in Traces : row[u].version # "none" => row'[u].version # "none",
           lost \subseteq lost',
           \A a \in Accounts : \A e \in batch[a] :
               \/ e \in batch'[a] \/ row'[e[1]].version # "none"
               \/ /\ StartLt[e[1]] <= stored[a] => e[1] \in lost'
                  /\ pc'[a] # "down" /\ StartLt[e[1]] <= cursor[a] => e[1] \in lost'
    PROVE  CursorCovers'
<1> SUFFICES ASSUME NEW a \in Accounts, NEW t \in Traces
             PROVE  Covered(t, a, stored[a])' /\ (pc'[a] # "down" => Covered(t, a, cursor[a])')
  BY DEF CursorCovers
<1>1. Covered(t, a, stored[a])'
  <2>1. Covered(t, a, stored[a])
    BY DEF CursorCovers
  <2>2. \A e \in batch[a] : e \in batch'[a] \/ row'[e[1]].version # "none"
                            \/ (StartLt[e[1]] <= stored[a] => e[1] \in lost')
    OBVIOUS
  <2> QED
    BY <2>1, <2>2, StillCovered DEF Covered
<1>2. ASSUME pc'[a] # "down"
      PROVE  Covered(t, a, cursor[a])'
  <2>1. Covered(t, a, cursor[a])
    BY <1>2 DEF CursorCovers
  <2>2. \A e \in batch[a] : e \in batch'[a] \/ row'[e[1]].version # "none"
                            \/ (StartLt[e[1]] <= cursor[a] => e[1] \in lost')
    BY <1>2
  <2> QED
    BY <2>1, <2>2, StillCovered DEF Covered
<1> QED
  BY <1>1, <1>2

\* A step that takes one entry from a subscriber's batch.
LEMMA TakeEffect ==
    ASSUME TypeOK, NEW s \in Subscribers, NEW e \in batch[s], NEW new, new \subseteq Traces,
           Take(s, e, new)
    PROVE  /\ batch' \in [Subscribers -> SUBSET (Traces \X Versions)]
           /\ hand' \in [Subscribers -> SUBSET Traces]
           /\ pc' \in [Subscribers -> {"idle", "storing", "upserting", "publishing", "down"}]
           /\ batch'[s] = batch[s] \ {e} /\ hand'[s] = hand[s] \cup new
           /\ pc'[s] \in {"upserting", "publishing", "idle"}
           /\ pc'[s] # "upserting" => batch'[s] = {}
           /\ \A r \in Subscribers \ {s} :
                 batch'[r] = batch[r] /\ hand'[r] = hand[r] /\ pc'[r] = pc[r]
<1>1. batch' = [batch EXCEPT ![s] = batch[s] \ {e}] /\ hand' = [hand EXCEPT ![s] = hand[s] \cup new]
  BY DEF Take
<1>2. /\ batch' \in [Subscribers -> SUBSET (Traces \X Versions)]
      /\ hand' \in [Subscribers -> SUBSET Traces]
      /\ batch'[s] = batch[s] \ {e} /\ hand'[s] = hand[s] \cup new
      /\ \A r \in Subscribers \ {s} : batch'[r] = batch[r] /\ hand'[r] = hand[r]
  BY <1>1 DEF TypeOK
<1>3. PICK p \in {"upserting", "publishing", "idle"} :
          pc' = [pc EXCEPT ![s] = p] /\ (p # "upserting" => batch'[s] = {})
  BY DEF Take
<1> QED
  BY <1>2, <1>3 DEF TypeOK

\* The shape of an entry of a batch.
LEMMA EntryShape ==
    ASSUME TypeOK, NEW s \in Subscribers, NEW e \in batch[s]
    PROVE  e[1] \in Traces /\ e[2] \in Versions /\ e = <<e[1], e[2]>>
BY DEF TypeOK

\* The API shows more: only the part about what was shown can change.
LEMMA ShowKeeps ==
    ASSUME TracesInv, NEW t \in Traces, ShowTrace(t)
    PROVE  TracesInv'
<1> USE DEF TracesInv, Complete
<1>1. UNCHANGED <<row, pc, cursor, stored, batch, hand, published, lost, rewritten, upsets>>
  BY DEF ShowTrace
<1>2. PICK v \in Versions : net' = [net EXCEPT ![t] = v]
  BY DEF ShowTrace, Versions
<1>3. TypeOK'
  BY <1>1, <1>2 DEF TypeOK
<1>4. ShownFirst'
  <2>1. \A u \in Traces : net[u] # "hidden" => net'[u] # "hidden"
    BY <1>2 DEF TypeOK, Versions
  <2> QED
    BY <1>1, <2>1, EntryShape DEF ShownFirst
<1>5. CursorCovers'
  BY <1>1 DEF CursorCovers, Covered
<1>6. WholeRowHasPublisher' /\ RetriesInHand' /\ PageOfAccount' /\ OnePublisher'
  BY <1>1 DEF WholeRowHasPublisher, RetriesInHand, PageOfAccount, OnePublisher
<1>7. NoTraceSkipped'
  BY <1>3, <1>4, <1>5, CoveredNotSkipped, PTL
<1> QED
  BY <1>3, <1>4, <1>5, <1>6, <1>7

\* A page is fetched: its traces are above the cursor.
LEMMA PollKeeps ==
    ASSUME TracesInv, NEW a \in Accounts, PollAccount(a)
    PROVE  TracesInv'
<1> USE DEF TracesInv, Complete
<1>0. a \in Subscribers /\ a # Retry
  BY TracesAssumption DEF Subscribers
<1>1. /\ UNCHANGED <<net, row, cursor, stored, hand, published, lost, rewritten, upsets>>
      /\ pc[a] = "idle"
      /\ pc' = [pc EXCEPT ![a] = "storing"]
  BY DEF PollAccount
<1> PICK page \in Limited(Above(a)) : batch' = [batch EXCEPT ![a] = {<<t, net[t]>> : t \in page}]
  BY DEF PollAccount
<1>12. page \subseteq Above(a) /\ page # {}
  BY DEF Limited
<1>2. \A t \in page : /\ t \in Traces /\ a \in TouchedBy[t] /\ net[t] \in Versions
                         /\ net[t] # "hidden" /\ cursor[a] < StartLt[t]
  BY <1>12, TracesAssumption DEF Above, TypeOK
<1>3. /\ batch'[a] = {<<t, net[t]>> : t \in page} /\ pc'[a] = "storing"
      /\ \A r \in Subscribers \ {a} : batch'[r] = batch[r] /\ pc'[r] = pc[r]
  BY <1>0, <1>1 DEF TypeOK
<1>4. TypeOK'
  BY <1>0, <1>1, <1>2 DEF TypeOK
<1>5. ShownFirst'
  BY <1>1, <1>2, <1>3 DEF ShownFirst
<1>6. batch[a] = {}
  BY <1>1 DEF PageOfAccount
<1>7. CursorCovers'
  <2>1. \A b \in Accounts : \A e \in batch[b] : e \in batch'[b]
    BY <1>3, <1>6 DEF Subscribers
  <2>2. \A b \in Accounts : pc'[b] # "down" => pc[b] # "down"
    BY <1>1, <1>3 DEF Subscribers
  <2> QED
    BY <1>1, <2>1, <2>2, CoversKept
<1>8. PageOfAccount'
  <2> SUFFICES ASSUME NEW b \in Accounts
               PROVE  /\ pc'[b] \in {"idle", "publishing", "down"} => batch'[b] = {}
                      /\ pc'[b] = "storing" => batch'[b] # {}
                      /\ pc'[b] # "down" => stored'[b] <= cursor'[b]
                      /\ \A f \in batch'[b] :
                            /\ b \in TouchedBy[f[1]]
                            /\ pc'[b] = "storing" => cursor'[b] < StartLt[f[1]]
                            /\ pc'[b] = "upserting" => StartLt[f[1]] <= cursor'[b]
    BY DEF PageOfAccount
  <2>1. CASE b # a
    BY <1>1, <1>3, <2>1 DEF PageOfAccount, Subscribers
  <2>2. CASE b = a
    <3>1. stored[a] <= cursor[a]
      BY <1>1 DEF PageOfAccount
    <3>2. batch'[a] # {}
      BY <1>3, <1>12
    <3> QED
      BY <1>1, <1>2, <1>3, <2>2, <3>1, <3>2
  <2> QED
    BY <2>1, <2>2
<1>9. RetriesInHand'
  BY <1>0, <1>1, <1>3 DEF RetriesInHand, Subscribers
<1>10. WholeRowHasPublisher' /\ OnePublisher'
  BY <1>1 DEF WholeRowHasPublisher, OnePublisher
<1>11. NoTraceSkipped'
  BY <1>4, <1>5, <1>7, CoveredNotSkipped, PTL
<1> QED
  BY <1>4, <1>5, <1>7, <1>8, <1>9, <1>10, <1>11

\* The cursor moves to the greatest end of the page: a trace it passes starts
\* at or before the end of a trace of the page.
LEMMA StoreKeeps ==
    ASSUME TracesInv, NEW a \in Accounts, StoreLatestHeight(a)
    PROVE  TracesInv'
<1> USE DEF TracesInv, Complete
<1>0. a \in Subscribers /\ a # Retry
  BY TracesAssumption DEF Subscribers
<1> DEFINE x == Latest({SeenEnd(e[1], e[2]) : e \in batch[a]})
<1>1. /\ UNCHANGED <<net, row, batch, hand, published, lost, rewritten>>
      /\ pc[a] = "storing" /\ cursor' = [cursor EXCEPT ![a] = x]
      /\ pc' = [pc EXCEPT ![a] = "upserting"]
  BY DEF StoreLatestHeight
<1>2. PICK e \in batch[a] : /\ x = SeenEnd(e[1], e[2])
                            /\ \A f \in batch[a] : SeenEnd(f[1], f[2]) <= SeenEnd(e[1], e[2])
  BY <1>0, <1>1, LatestOfPage DEF TypeOK, PageOfAccount
<1> HIDE DEF x
<1>3. /\ e[1] \in Traces /\ a \in TouchedBy[e[1]] /\ x \in Nat
      /\ StartLt[e[1]] <= x /\ x <= EndLt[e[1]] /\ cursor[a] < StartLt[e[1]]
  BY <1>0, <1>1, <1>2, EntryShape, SeenEndBounds DEF PageOfAccount
<1>4. \A f \in batch[a] : f[1] \in Traces /\ StartLt[f[1]] <= x
  <2> SUFFICES ASSUME NEW f \in batch[a]
               PROVE  f[1] \in Traces /\ StartLt[f[1]] <= x
    OBVIOUS
  <2>1. f[1] \in Traces
    BY <1>0, EntryShape
  <2>2. SeenEnd(f[1], f[2]) <= x
    BY <1>2
  <2>3. StartLt[f[1]] \in Nat /\ SeenEnd(f[1], f[2]) \in Nat /\ StartLt[f[1]] <= SeenEnd(f[1], f[2])
    BY <2>1, SeenEndBounds
  <2> QED
    BY <1>3, <2>1, <2>2, <2>3
<1>5. /\ cursor'[a] = x /\ pc'[a] = "upserting"
      /\ \A b \in Accounts \ {a} : cursor'[b] = cursor[b]
      /\ \A b \in Subscribers \ {a} : pc'[b] = pc[b]
  BY <1>0, <1>1 DEF TypeOK
<1>6. /\ stored'[a] = x \/ stored'[a] = stored[a]
      /\ \A b \in Accounts \ {a} : stored'[b] = stored[b]
      /\ stored' \in [Accounts -> Int] /\ upsets' \in 0..MaxUpsets
  <2>1. CASE stored' = [stored EXCEPT ![a] = cursor'[a]] /\ UNCHANGED upsets
    BY <1>3, <1>5, <2>1 DEF TypeOK
  <2>2. CASE Upset /\ UNCHANGED stored
    BY <2>2, TracesAssumption DEF TypeOK, Upset
  <2> QED
    BY <2>1, <2>2 DEF StoreLatestHeight
<1>7. TypeOK'
  <2>1. cursor' \in [Accounts -> Int]
    BY <1>1, <1>3 DEF TypeOK
  <2>2. pc' \in [Subscribers -> {"idle", "storing", "upserting", "publishing", "down"}]
    BY <1>1 DEF TypeOK
  <2> QED
    BY <1>1, <1>6, <2>1, <2>2 DEF TypeOK
<1>8. stored[a] \in Int /\ cursor[a] \in Int /\ stored[a] <= cursor[a] /\ StartLt[e[1]] \in Nat
  BY <1>1, <1>3, TracesAssumption DEF TypeOK, PageOfAccount
<1>9. CursorCovers'
  <2> SUFFICES ASSUME NEW b \in Accounts, NEW t \in Traces
               PROVE  Covered(t, b, stored[b])' /\ (pc'[b] # "down" => Covered(t, b, cursor[b])')
    BY DEF CursorCovers
  <2>1. Covered(t, b, stored[b]) /\ (pc[b] # "down" => Covered(t, b, cursor[b]))
    BY DEF CursorCovers
  <2>2. CASE b # a
    BY <1>1, <1>5, <1>6, <2>1, <2>2 DEF Covered, Subscribers
  <2>3. CASE b = a
    <3>1. StartLt[t] \in Nat
      BY TracesAssumption
    <3>2. StartLt[t] <= x =>
             \E u \in Traces : /\ a \in TouchedBy[u] /\ StartLt[t] <= EndLt[u]
                               /\ StartLt[u] <= x /\ \E f \in batch[a] : f[1] = u
      BY <1>3, <3>1, TracesAssumption
    <3>3. Covered(t, b, cursor[b])'
      BY <1>1, <1>5, <2>3, <3>2 DEF Covered
    <3>4. Covered(t, b, stored[b])'
      BY <1>1, <1>6, <2>1, <2>3, <3>2 DEF Covered
    <3> QED
      BY <3>3, <3>4
  <2> QED
    BY <2>2, <2>3
<1>10. PageOfAccount'
  <2> SUFFICES ASSUME NEW b \in Accounts
               PROVE  /\ pc'[b] \in {"idle", "publishing", "down"} => batch'[b] = {}
                      /\ pc'[b] = "storing" => batch'[b] # {}
                      /\ pc'[b] # "down" => stored'[b] <= cursor'[b]
                      /\ \A f \in batch'[b] :
                            /\ b \in TouchedBy[f[1]]
                            /\ pc'[b] = "storing" => cursor'[b] < StartLt[f[1]]
                            /\ pc'[b] = "upserting" => StartLt[f[1]] <= cursor'[b]
    BY DEF PageOfAccount
  <2>1. CASE b # a
    BY <1>1, <1>5, <1>6, <2>1 DEF PageOfAccount, Subscribers
  <2>2. CASE b = a
    <3>1. stored'[a] <= x
      BY <1>3, <1>6, <1>8
    <3> QED
      BY <1>1, <1>4, <1>5, <2>2, <3>1 DEF PageOfAccount
  <2> QED
    BY <2>1, <2>2
<1>11. ShownFirst' /\ RetriesInHand' /\ WholeRowHasPublisher' /\ OnePublisher'
  BY <1>1 DEF ShownFirst, RetriesInHand, WholeRowHasPublisher, OnePublisher
<1>12. NoTraceSkipped'
  BY <1>7, <1>9, <1>11, CoveredNotSkipped, PTL
<1> QED
  BY <1>7, <1>9, <1>10, <1>11, <1>12

\* The retry subscriber takes each retriable trace once.
LEMMA FetchKeeps ==
    ASSUME TracesInv, FetchRetry
    PROVE  TracesInv'
<1> USE DEF TracesInv, Complete
<1>0. Retry \in Subscribers /\ \A a \in Accounts : a \in Subscribers /\ a # Retry
  BY TracesAssumption DEF Subscribers
<1>1. /\ UNCHANGED <<net, row, cursor, stored, hand, published, lost, rewritten, upsets>>
      /\ pc' = [pc EXCEPT ![Retry] = "upserting"]
  BY DEF FetchRetry
<1> PICK some \in Limited(Retriable) : batch' = [batch EXCEPT ![Retry] = {<<t, net[t]>> : t \in some}]
  BY DEF FetchRetry
<1>2. \A t \in some : /\ t \in Traces /\ net[t] \in Versions /\ net[t] # "hidden"
                           /\ row[t].version # "none" /\ row[t].retries > 0
  <2> SUFFICES ASSUME NEW t \in some
               PROVE  /\ t \in Traces /\ net[t] \in Versions /\ net[t] # "hidden"
                      /\ row[t].version # "none" /\ row[t].retries > 0
    OBVIOUS
  <2>1. t \in Traces /\ row[t].version = "partial" /\ row[t].retries > 0
    BY DEF Limited, Retriable
  <2>2. row[t] # NoRow
    BY <2>1 DEF NoRow
  <2> QED
    BY <2>1, <2>2 DEF ShownFirst, TypeOK
<1>3. /\ batch'[Retry] = {<<t, net[t]>> : t \in some}
      /\ \A r \in Accounts : batch'[r] = batch[r] /\ pc'[r] = pc[r]
  BY <1>0, <1>1 DEF TypeOK
<1>4. TypeOK'
  BY <1>0, <1>1, <1>2 DEF TypeOK
<1>5. ShownFirst'
  BY <1>1, <1>2, <1>3 DEF ShownFirst, Subscribers
<1>6. CursorCovers'
  BY <1>1, <1>3, CoversKept
<1>7. PageOfAccount'
  BY <1>1, <1>3 DEF PageOfAccount
<1>8. RetriesInHand'
  BY <1>1, <1>2, <1>3 DEF RetriesInHand
<1>9. WholeRowHasPublisher' /\ OnePublisher'
  BY <1>1 DEF WholeRowHasPublisher, OnePublisher
<1>10. NoTraceSkipped'
  BY <1>4, <1>5, <1>6, CoveredNotSkipped, PTL
<1> QED
  BY <1>4, <1>5, <1>6, <1>7, <1>8, <1>9, <1>10

\* A retry that found the trace still incomplete: the row keeps its version.
LEMMA DecreaseKeeps ==
    ASSUME TracesInv, NEW e \in batch[Retry], DecreaseRetry(e)
    PROVE  TracesInv'
<1> USE DEF TracesInv, Complete
<1>0. Retry \in Subscribers /\ \A a \in Accounts : a \in Subscribers /\ a # Retry
  BY TracesAssumption DEF Subscribers
<1>1. /\ UNCHANGED <<net, cursor, stored, published, lost, rewritten, upsets>>
      /\ row' = [row EXCEPT ![e[1]].retries = row[e[1]].retries - 1]
      /\ Take(Retry, e, {})
  BY DEF DecreaseRetry
<1>2. e[1] \in Traces
  BY <1>0, EntryShape
<1>3. /\ batch' \in [Subscribers -> SUBSET (Traces \X Versions)]
      /\ hand' \in [Subscribers -> SUBSET Traces]
      /\ pc' \in [Subscribers -> {"idle", "storing", "upserting", "publishing", "down"}]
      /\ batch'[Retry] = batch[Retry] \ {e} /\ \A r \in Subscribers : hand'[r] = hand[r]
      /\ \A a \in Accounts : batch'[a] = batch[a] /\ pc'[a] = pc[a]
  <2>1. /\ batch' \in [Subscribers -> SUBSET (Traces \X Versions)]
        /\ hand' \in [Subscribers -> SUBSET Traces]
        /\ pc' \in [Subscribers -> {"idle", "storing", "upserting", "publishing", "down"}]
        /\ batch'[Retry] = batch[Retry] \ {e} /\ hand'[Retry] = hand[Retry] \cup {}
        /\ \A r \in Subscribers \ {Retry} :
              batch'[r] = batch[r] /\ hand'[r] = hand[r] /\ pc'[r] = pc[r]
    <3> DEFINE none == {}
    <3>1. none \subseteq Traces /\ Take(Retry, e, none)
      BY <1>1
    <3>2. none = {}
      OBVIOUS
    <3> HIDE DEF none
    <3>3. /\ batch' \in [Subscribers -> SUBSET (Traces \X Versions)]
          /\ hand' \in [Subscribers -> SUBSET Traces]
          /\ pc' \in [Subscribers -> {"idle", "storing", "upserting", "publishing", "down"}]
          /\ batch'[Retry] = batch[Retry] \ {e} /\ hand'[Retry] = hand[Retry] \cup none
          /\ \A r \in Subscribers \ {Retry} :
                batch'[r] = batch[r] /\ hand'[r] = hand[r] /\ pc'[r] = pc[r]
      BY <1>0, <3>1, TakeEffect
    <3> QED
      BY <3>2, <3>3
  <2> QED
    BY <1>0, <2>1
<1>4. row[e[1]].retries \in 1..Retries
  BY <1>2, TracesAssumption DEF RetriesInHand, TypeOK
<1>5. /\ row' \in [Traces -> [version : Versions \cup {"none"}, retries : 0..Retries]]
      /\ \A t \in Traces : row'[t].version = row[t].version
      /\ \A t \in Traces \ {e[1]} : row'[t] = row[t]
  BY <1>1, <1>2, <1>4, TracesAssumption DEF TypeOK
<1>6. row[e[1]].version # "none" /\ row[e[1]] # NoRow
  BY DEF RetriesInHand, NoRow
<1>7. TypeOK'
  BY <1>1, <1>3, <1>5 DEF TypeOK
<1>8. ShownFirst'
  <2>1. \A t \in Traces : row'[t] = NoRow \/ (row'[t].version # "none" /\ net'[t] # "hidden")
    BY <1>1, <1>5, <1>6 DEF ShownFirst
  <2>2. \A s \in Subscribers : batch'[s] \subseteq batch[s]
    BY <1>3 DEF Subscribers
  <2> QED
    BY <1>1, <2>1, <2>2 DEF ShownFirst
<1>9. CursorCovers'
  BY <1>1, <1>3, <1>5, CoversKept
<1>10. PageOfAccount'
  BY <1>1, <1>3 DEF PageOfAccount
<1>11. RetriesInHand'
  <2>1. \A f \in batch'[Retry] : f \in batch[Retry] /\ f[1] # e[1] /\ f[1] \in Traces
    BY <1>0, <1>3, EntryShape DEF RetriesInHand
  <2> QED
    BY <1>5, <2>1 DEF RetriesInHand
<1>12. WholeRowHasPublisher' /\ OnePublisher'
  BY <1>1, <1>3, <1>5 DEF WholeRowHasPublisher, OnePublisher
<1>13. NoTraceSkipped'
  BY <1>7, <1>8, <1>9, CoveredNotSkipped, PTL
<1> QED
  BY <1>7, <1>8, <1>9, <1>10, <1>11, <1>12, <1>13

\* An upsert: the subscriber whose upsert changed the row to whole, and only
\* that one, takes the trace in hand.
LEMMA UpsertKeeps ==
    ASSUME TracesInv, NEW s \in Subscribers, NEW e \in batch[s], UpsertTrace(s, e)
    PROVE  TracesInv'
<1> USE DEF TracesInv, Complete
<1> DEFINE t == e[1]
           v == e[2]
           new == IF Changed(t, v) /\ Complete(v) THEN {t} ELSE {}
<1>1. /\ UNCHANGED <<net, cursor, stored, published, lost, upsets>>
      /\ row' = [row EXCEPT ![t] = Upserted(t, v)] /\ Take(s, e, new)
      /\ pc[s] = "upserting"
      /\ rewritten' = IF Complete(row[t].version) /\ row[t].version # v
                      THEN rewritten \cup {t} ELSE rewritten
  BY DEF UpsertTrace
<1>2. t \in Traces /\ v \in Versions
  BY EntryShape
<1>3. new \subseteq {t} /\ (t \in new <=> row[t].version # v /\ Complete(v))
  BY DEF Changed
<1> HIDE DEF new
<1>4. /\ batch' \in [Subscribers -> SUBSET (Traces \X Versions)]
      /\ hand' \in [Subscribers -> SUBSET Traces]
      /\ pc' \in [Subscribers -> {"idle", "storing", "upserting", "publishing", "down"}]
      /\ batch'[s] = batch[s] \ {e} /\ hand'[s] = hand[s] \cup new
      /\ pc'[s] \in {"upserting", "publishing", "idle"}
      /\ pc'[s] # "upserting" => batch'[s] = {}
      /\ \A r \in Subscribers \ {s} : batch'[r] = batch[r] /\ hand'[r] = hand[r] /\ pc'[r] = pc[r]
  <2>1. new \subseteq Traces
    BY <1>2, <1>3
  <2> QED
    BY <1>1, <2>1, TakeEffect
<1>5. /\ row'[t] = Upserted(t, v) /\ \A u \in Traces \ {t} : row'[u] = row[u]
  BY <1>1, <1>2 DEF TypeOK
<1>6. /\ Upserted(t, v) \in [version : Versions \cup {"none"}, retries : 0..Retries]
      /\ Upserted(t, v).version = v
      /\ row[t].version # "none" => Upserted(t, v).retries = row[t].retries
  BY <1>2, TracesAssumption DEF Upserted, TypeOK, NoRow
<1>7. row'[t].version = v /\ v # "none" /\ row'[t] # NoRow
  BY <1>2, <1>5, <1>6 DEF Versions, NoRow
<1>8. TypeOK'
  <2>1. row' \in [Traces -> [version : Versions \cup {"none"}, retries : 0..Retries]]
    BY <1>1, <1>6 DEF TypeOK
  <2>2. rewritten' \subseteq Traces
    BY <1>1, <1>2 DEF TypeOK
  <2> QED
    BY <1>1, <1>4, <2>1, <2>2 DEF TypeOK
<1>9. \A r \in Subscribers : batch'[r] \subseteq batch[r]
  BY <1>4
<1>10. ShownFirst'
  <2>1. net[t] # "hidden"
    BY DEF ShownFirst
  <2>2. \A u \in Traces : row'[u] = NoRow \/ (row'[u].version # "none" /\ net'[u] # "hidden")
    BY <1>1, <1>5, <1>7, <2>1 DEF ShownFirst
  <2> QED
    BY <1>1, <1>9, <2>2 DEF ShownFirst
<1>11. CursorCovers'
  <2>1. \A a \in Accounts : pc'[a] # "down" => pc[a] # "down"
    BY <1>1, <1>4 DEF Subscribers
  <2>2. \A u \in Traces : row[u].version # "none" => row'[u].version # "none"
    BY <1>5, <1>7
  <2>3. \A a \in Accounts : \A f \in batch[a] : f \in batch'[a] \/ row'[f[1]].version # "none"
    BY <1>4, <1>7 DEF Subscribers
  <2> QED
    BY <1>1, <2>1, <2>2, <2>3, CoversKept
<1>12. PageOfAccount'
  <2> SUFFICES ASSUME NEW b \in Accounts
               PROVE  /\ pc'[b] \in {"idle", "publishing", "down"} => batch'[b] = {}
                      /\ pc'[b] = "storing" => batch'[b] # {}
                      /\ pc'[b] # "down" => stored'[b] <= cursor'[b]
                      /\ \A f \in batch'[b] :
                            /\ b \in TouchedBy[f[1]]
                            /\ pc'[b] = "storing" => cursor'[b] < StartLt[f[1]]
                            /\ pc'[b] = "upserting" => StartLt[f[1]] <= cursor'[b]
    BY DEF PageOfAccount
  <2>1. CASE b # s
    BY <1>1, <1>4, <2>1 DEF PageOfAccount, Subscribers
  <2>2. CASE b = s
    BY <1>1, <1>4, <2>2 DEF PageOfAccount
  <2> QED
    BY <2>1, <2>2
<1>13. RetriesInHand'
  <2>1. Retry \in Subscribers
    BY DEF Subscribers
  <2>2. batch'[Retry] \subseteq batch[Retry]
    BY <1>9, <2>1
  <2>3. \A f \in batch[Retry] : row'[f[1]].version # "none" /\ row'[f[1]].retries > 0
    <3> SUFFICES ASSUME NEW f \in batch[Retry]
                 PROVE  row'[f[1]].version # "none" /\ row'[f[1]].retries > 0
      OBVIOUS
    <3>1. f[1] \in Traces /\ row[f[1]].version # "none" /\ row[f[1]].retries > 0
      BY <2>1, EntryShape DEF RetriesInHand
    <3>2. CASE f[1] = t
      BY <1>5, <1>6, <1>7, <3>1, <3>2
    <3>3. CASE f[1] # t
      BY <1>5, <3>1, <3>3
    <3> QED
      BY <3>2, <3>3
  <2> QED
    BY <2>2, <2>3 DEF RetriesInHand
<1>14. WholeRowHasPublisher'
  <2> SUFFICES ASSUME NEW u \in Traces, Complete(row'[u].version)
               PROVE  published'[u] > 0 \/ u \in lost' \/ \E r \in Subscribers : u \in hand'[r]
    BY DEF WholeRowHasPublisher
  <2>1. \A r \in Subscribers : hand[r] \subseteq hand'[r]
    BY <1>4
  <2>2. CASE Complete(row[u].version)
    BY <1>1, <2>1, <2>2 DEF WholeRowHasPublisher
  <2>3. CASE ~ Complete(row[u].version)
    <3>1. u = t /\ Complete(v) /\ row[t].version # v
      BY <1>5, <1>7, <2>3
    <3> QED
      BY <1>3, <1>4, <2>3, <3>1
  <2> QED
    BY <2>2, <2>3
<1>15. OnePublisher'
  <2> SUFFICES ASSUME NEW u \in Traces \ rewritten'
               PROVE  /\ published'[u] <= 1
                      /\ ~ Complete(row'[u].version) \/ published'[u] = 1
                            => \A r \in Subscribers : u \notin hand'[r]
                      /\ ~ Complete(row'[u].version) => published'[u] = 0
                      /\ \A r, q \in Subscribers : u \in hand'[r] /\ u \in hand'[q] => r = q
    BY DEF OnePublisher
  <2>1. u \in Traces /\ u \notin rewritten
    BY <1>1
  <2>2. /\ published[u] <= 1
        /\ ~ Complete(row[u].version) \/ published[u] = 1 => \A r \in Subscribers : u \notin hand[r]
        /\ ~ Complete(row[u].version) => published[u] = 0
        /\ \A r, q \in Subscribers : u \in hand[r] /\ u \in hand[q] => r = q
    BY <2>1 DEF OnePublisher
  <2>3. CASE u \notin new
    <3>1. \A r \in Subscribers : u \in hand'[r] <=> u \in hand[r]
      BY <1>4, <2>3
    <3>2. ~ Complete(row'[u].version) => ~ Complete(row[u].version)
      <4>1. CASE u # t
        BY <1>5, <2>1, <4>1
      <4>2. CASE u = t
        BY <1>1, <1>2, <1>7, <4>2 DEF Versions
      <4> QED
        BY <4>1, <4>2
    <3> QED
      BY <1>1, <2>2, <3>1, <3>2
  <2>4. CASE u \in new
    <3>1. u = t /\ ~ Complete(row[u].version) /\ Complete(row'[u].version)
      BY <1>1, <1>3, <1>7, <2>4
    <3>2. \A r \in Subscribers : u \in hand'[r] <=> r = s
      BY <1>4, <2>2, <2>4, <3>1
    <3> QED
      BY <1>1, <2>2, <3>1, <3>2
  <2> QED
    BY <2>3, <2>4
<1>16. NoTraceSkipped'
  BY <1>8, <1>10, <1>11, CoveredNotSkipped, PTL
<1> QED
  BY <1>8, <1>10, <1>11, <1>12, <1>13, <1>14, <1>15, <1>16

\* A database error: what lies behind the cursor and has no row is dropped.
LEMMA FailsKeeps ==
    ASSUME TracesInv, NEW s \in Subscribers, UpsertFails(s)
    PROVE  TracesInv'
<1> USE DEF TracesInv, Complete
<1> DEFINE from == IF s = Retry THEN -1 ELSE cursor[s]
<1>0. \A a \in Accounts : a \in Subscribers /\ a # Retry
  BY TracesAssumption DEF Subscribers
<1>1. /\ UNCHANGED <<net, row, cursor, stored, published, rewritten>>
      /\ pc[s] = "upserting" /\ Upset /\ lost' = lost \cup Dropped(s, from)
      /\ batch' = [batch EXCEPT ![s] = {}] /\ hand' = [hand EXCEPT ![s] = {}]
      /\ pc' = [pc EXCEPT ![s] = "idle"]
  BY DEF UpsertFails
<1>2. \A e \in batch[s] : e[1] \in Traces
  BY EntryShape
<1>3. /\ Dropped(s, from) \subseteq Traces /\ hand[s] \subseteq lost'
      /\ s # Retry => \A e \in batch[s] : row[e[1]] = NoRow /\ StartLt[e[1]] <= cursor[s] => e[1] \in lost'
  BY <1>1, <1>2 DEF Dropped, TypeOK
<1> HIDE DEF from
<1>4. /\ batch'[s] = {} /\ hand'[s] = {} /\ pc'[s] = "idle"
      /\ \A r \in Subscribers \ {s} : batch'[r] = batch[r] /\ hand'[r] = hand[r] /\ pc'[r] = pc[r]
  BY <1>1 DEF TypeOK
<1>5. TypeOK'
  <2>1. upsets' \in 0..MaxUpsets
    BY <1>1, TracesAssumption DEF TypeOK, Upset
  <2>2. /\ batch' \in [Subscribers -> SUBSET (Traces \X Versions)]
        /\ hand' \in [Subscribers -> SUBSET Traces]
        /\ pc' \in [Subscribers -> {"idle", "storing", "upserting", "publishing", "down"}]
    BY <1>1 DEF TypeOK
  <2>3. lost' \subseteq Traces
    BY <1>1, <1>3 DEF TypeOK
  <2> QED
    BY <1>1, <2>1, <2>2, <2>3 DEF TypeOK
<1>6. \A r \in Subscribers : batch'[r] \subseteq batch[r] /\ hand'[r] \subseteq hand[r]
  BY <1>4
<1>7. ShownFirst'
  BY <1>1, <1>6 DEF ShownFirst
<1>8. CursorCovers'
  <2>1. \A a \in Accounts : pc'[a] # "down" => pc[a] # "down"
    BY <1>0, <1>1, <1>4
  <2>2. \A a \in Accounts : \A e \in batch[a] :
            \/ e \in batch'[a] \/ row'[e[1]].version # "none"
            \/ /\ StartLt[e[1]] <= stored[a] => e[1] \in lost'
               /\ pc'[a] # "down" /\ StartLt[e[1]] <= cursor[a] => e[1] \in lost'
    <3> SUFFICES ASSUME NEW a \in Accounts, NEW e \in batch[a], e \notin batch'[a],
                        row[e[1]].version = "none"
                 PROVE  e[1] \in lost'
      BY <1>1
    <3>1. a = s /\ s # Retry
      BY <1>0, <1>4
    <3>2. row[e[1]] = NoRow
      BY <1>2, <3>1 DEF ShownFirst
    <3>3. StartLt[e[1]] <= cursor[s]
      BY <1>1, <3>1 DEF PageOfAccount
    <3> QED
      BY <1>3, <3>1, <3>2, <3>3
  <2> QED
    BY <1>1, <2>1, <2>2, CoversKept
<1>9. PageOfAccount'
  <2> SUFFICES ASSUME NEW b \in Accounts
               PROVE  /\ pc'[b] \in {"idle", "publishing", "down"} => batch'[b] = {}
                      /\ pc'[b] = "storing" => batch'[b] # {}
                      /\ pc'[b] # "down" => stored'[b] <= cursor'[b]
                      /\ \A f \in batch'[b] :
                            /\ b \in TouchedBy[f[1]]
                            /\ pc'[b] = "storing" => cursor'[b] < StartLt[f[1]]
                            /\ pc'[b] = "upserting" => StartLt[f[1]] <= cursor'[b]
    BY DEF PageOfAccount
  <2>1. CASE b # s
    BY <1>0, <1>1, <1>4, <2>1 DEF PageOfAccount
  <2>2. CASE b = s
    BY <1>1, <1>4, <2>2 DEF PageOfAccount
  <2> QED
    BY <2>1, <2>2
<1>10. RetriesInHand'
  BY <1>1, <1>6 DEF RetriesInHand, Subscribers
<1>11. WholeRowHasPublisher'
  BY <1>1, <1>3, <1>4 DEF WholeRowHasPublisher
<1>12. OnePublisher'
  BY <1>1, <1>6 DEF OnePublisher
<1>13. NoTraceSkipped'
  BY <1>5, <1>7, <1>8, CoveredNotSkipped, PTL
<1> QED
  BY <1>5, <1>7, <1>8, <1>9, <1>10, <1>11, <1>12, <1>13

\* A trace is published by the only subscriber that holds it.
LEMMA PublishKeeps ==
    ASSUME TracesInv, NEW s \in Subscribers, NEW t \in hand[s], PublishTrace(s, t)
    PROVE  TracesInv'
<1> USE DEF TracesInv, Complete
<1>1. /\ UNCHANGED <<net, row, cursor, stored, batch, lost, rewritten, upsets>>
      /\ pc[s] = "publishing" /\ published' = [published EXCEPT ![t] = published[t] + 1]
      /\ hand' = [hand EXCEPT ![s] = hand[s] \ {t}]
  BY DEF PublishTrace
<1>2. PICK p \in {"idle", "publishing"} : pc' = [pc EXCEPT ![s] = p]
  BY DEF PublishTrace
<1>3. t \in Traces
  BY DEF TypeOK
<1>4. /\ hand'[s] = hand[s] \ {t} /\ pc'[s] \in {"idle", "publishing"}
      /\ \A r \in Subscribers \ {s} : hand'[r] = hand[r] /\ pc'[r] = pc[r]
      /\ published'[t] = published[t] + 1 /\ \A u \in Traces \ {t} : published'[u] = published[u]
  BY <1>1, <1>2, <1>3 DEF TypeOK
<1>5. TypeOK'
  BY <1>1, <1>2, <1>3 DEF TypeOK
<1>6. ShownFirst' /\ RetriesInHand'
  BY <1>1 DEF ShownFirst, RetriesInHand
<1>7. CursorCovers'
  <2>1. \A a \in Accounts : pc'[a] # "down" => pc[a] # "down"
    BY <1>1, <1>4 DEF Subscribers
  <2> QED
    BY <1>1, <2>1, CoversKept
<1>8. PageOfAccount'
  <2> SUFFICES ASSUME NEW b \in Accounts
               PROVE  /\ pc'[b] \in {"idle", "publishing", "down"} => batch'[b] = {}
                      /\ pc'[b] = "storing" => batch'[b] # {}
                      /\ pc'[b] # "down" => stored'[b] <= cursor'[b]
                      /\ \A f \in batch'[b] :
                            /\ b \in TouchedBy[f[1]]
                            /\ pc'[b] = "storing" => cursor'[b] < StartLt[f[1]]
                            /\ pc'[b] = "upserting" => StartLt[f[1]] <= cursor'[b]
    BY DEF PageOfAccount
  <2>1. CASE b # s
    BY <1>1, <1>4, <2>1 DEF PageOfAccount, Subscribers
  <2>2. CASE b = s
    BY <1>1, <1>4, <2>2 DEF PageOfAccount
  <2> QED
    BY <2>1, <2>2
<1>9. WholeRowHasPublisher'
  <2> SUFFICES ASSUME NEW u \in Traces, Complete(row'[u].version)
               PROVE  published'[u] > 0 \/ u \in lost' \/ \E r \in Subscribers : u \in hand'[r]
    BY DEF WholeRowHasPublisher
  <2>1. CASE u = t
    BY <1>3, <1>4, <2>1 DEF TypeOK
  <2>2. CASE u # t
    BY <1>1, <1>4, <2>2 DEF WholeRowHasPublisher
  <2> QED
    BY <2>1, <2>2
<1>10. OnePublisher'
  <2> SUFFICES ASSUME NEW u \in Traces \ rewritten
               PROVE  /\ published'[u] <= 1
                      /\ ~ Complete(row'[u].version) \/ published'[u] = 1
                            => \A r \in Subscribers : u \notin hand'[r]
                      /\ ~ Complete(row'[u].version) => published'[u] = 0
                      /\ \A r, q \in Subscribers : u \in hand'[r] /\ u \in hand'[q] => r = q
    BY <1>1 DEF OnePublisher
  <2>1. /\ published[u] \in Nat /\ published[u] <= 1
        /\ ~ Complete(row[u].version) \/ published[u] = 1 => \A r \in Subscribers : u \notin hand[r]
        /\ ~ Complete(row[u].version) => published[u] = 0
        /\ \A r, q \in Subscribers : u \in hand[r] /\ u \in hand[q] => r = q
    BY DEF OnePublisher, TypeOK
  <2>2. CASE u = t
    <3>1. Complete(row[u].version) /\ published[u] = 0
      BY <2>1, <2>2
    <3>2. \A r \in Subscribers : u \notin hand'[r]
      BY <1>4, <2>1, <2>2
    <3> QED
      BY <1>1, <1>4, <2>2, <3>1, <3>2
  <2>3. CASE u # t
    <3>1. \A r \in Subscribers : u \in hand'[r] <=> u \in hand[r]
      BY <1>4, <2>3
    <3> QED
      BY <1>1, <1>4, <2>1, <2>3, <3>1
  <2> QED
    BY <2>2, <2>3
<1>11. NoTraceSkipped'
  BY <1>5, <1>6, <1>7, CoveredNotSkipped, PTL
<1> QED
  BY <1>5, <1>6, <1>7, <1>8, <1>9, <1>10, <1>11

\* A stop drops every page and everything in hand.
LEMMA StopKeeps ==
    ASSUME TracesInv, Stop
    PROVE  TracesInv'
<1> USE DEF TracesInv, Complete
<1> DEFINE D(s) == Dropped(s, IF s = Retry THEN -1 ELSE stored[s])
<1>0. Retry \in Subscribers /\ \A a \in Accounts : a \in Subscribers /\ a # Retry
  BY TracesAssumption DEF Subscribers
<1>1. /\ UNCHANGED <<net, row, cursor, stored, published, rewritten>>
      /\ Upset /\ lost' = lost \cup UNION {D(s) : s \in Subscribers}
      /\ pc' = [s \in Subscribers |-> "down"]
      /\ batch' = [s \in Subscribers |-> {}] /\ hand' = [s \in Subscribers |-> {}]
  BY DEF Stop
<1>2. \A s \in Subscribers : D(s) \subseteq Traces /\ hand[s] \subseteq D(s)
  BY EntryShape DEF Dropped, TypeOK
<1>3. \A a \in Accounts : \A e \in batch[a] :
          row[e[1]] = NoRow /\ StartLt[e[1]] <= stored[a] => e[1] \in D(a)
  BY <1>0 DEF Dropped
<1> HIDE DEF D
<1>4. lost \subseteq lost' /\ \A s \in Subscribers : D(s) \subseteq lost'
  BY <1>1
<1>5. TypeOK'
  <2>1. upsets' \in 0..MaxUpsets
    BY <1>1, TracesAssumption DEF TypeOK, Upset
  <2>2. lost' \subseteq Traces
    BY <1>1, <1>2 DEF TypeOK
  <2> QED
    BY <1>1, <2>1, <2>2 DEF TypeOK
<1>6. ShownFirst' /\ RetriesInHand' /\ PageOfAccount'
  BY <1>0, <1>1 DEF ShownFirst, RetriesInHand, PageOfAccount
<1>7. CursorCovers'
  <2>1. \A a \in Accounts : pc'[a] = "down"
    BY <1>0, <1>1
  <2>2. \A a \in Accounts : \A e \in batch[a] :
            \/ e \in batch'[a] \/ row'[e[1]].version # "none"
            \/ (StartLt[e[1]] <= stored[a] => e[1] \in lost')
    <3> SUFFICES ASSUME NEW a \in Accounts, NEW e \in batch[a], row[e[1]].version = "none",
                        StartLt[e[1]] <= stored[a]
                 PROVE  e[1] \in lost'
      BY <1>1
    <3>1. row[e[1]] = NoRow
      BY <1>0, EntryShape DEF ShownFirst
    <3> QED
      BY <1>0, <1>3, <1>4, <3>1
  <2> QED
    BY <1>1, <1>4, <2>1, <2>2, CoversKept
<1>8. WholeRowHasPublisher'
  BY <1>1, <1>2, <1>4 DEF WholeRowHasPublisher
<1>9. OnePublisher'
  BY <1>1 DEF OnePublisher
<1>10. NoTraceSkipped'
  BY <1>5, <1>6, <1>7, CoveredNotSkipped, PTL
<1> QED
  BY <1>5, <1>6, <1>7, <1>8, <1>9, <1>10

\* A start reads the stored heights, which cover what is behind them.
LEMMA StartKeeps ==
    ASSUME TracesInv, Start
    PROVE  TracesInv'
<1> USE DEF TracesInv, Complete
<1>0. Retry \in Subscribers /\ \A a \in Accounts : a \in Subscribers
  BY DEF Subscribers
<1>1. /\ UNCHANGED <<net, row, stored, batch, hand, published, lost, rewritten, upsets>>
      /\ \A s \in Subscribers : pc[s] = "down"
      /\ pc' = [s \in Subscribers |-> "idle"] /\ cursor' = stored
  BY DEF Start
<1>2. TypeOK'
  BY <1>1 DEF TypeOK
<1>3. ShownFirst' /\ RetriesInHand' /\ WholeRowHasPublisher' /\ OnePublisher'
  BY <1>1 DEF ShownFirst, RetriesInHand, WholeRowHasPublisher, OnePublisher
<1>4. PageOfAccount'
  BY <1>0, <1>1 DEF PageOfAccount, TypeOK
<1>5. CursorCovers'
  BY <1>1 DEF CursorCovers, Covered
<1>6. NoTraceSkipped'
  BY <1>2, <1>3, <1>5, CoveredNotSkipped, PTL
<1> QED
  BY <1>2, <1>3, <1>4, <1>5, <1>6

-----------------------------------------------------------------------------
(* No trace falls between the subscribers, whatever they do in which order   *)
(* and wherever the process stops: one the API shows is recorded, in a page, *)
(* above a cursor, dropped with an error or behind a trace that was seen     *)
(* first; and a row that says a trace is complete stands for a trace that is *)
(* published, in hand or dropped.                                            *)
THEOREM TracesInvariant == Spec => []TracesInv
<1>1. Init => TracesInv
  <2> SUFFICES ASSUME Init
               PROVE  TracesInv
    OBVIOUS
  <2> USE DEF Init
  <2>1. TypeOK
    BY TracesAssumption DEF TypeOK, NoRow, Versions
  <2>2. CursorCovers
    BY TracesAssumption DEF CursorCovers, Covered
  <2>3. ShownFirst
    BY DEF ShownFirst
  <2>4. RetriesInHand /\ PageOfAccount
    BY DEF RetriesInHand, PageOfAccount, Subscribers
  <2>5. WholeRowHasPublisher /\ OnePublisher
    BY DEF WholeRowHasPublisher, OnePublisher, NoRow, Complete
  <2> QED
    BY <2>1, <2>2, <2>3, <2>4, <2>5, CoveredNotSkipped DEF TracesInv
<1>2. TracesInv /\ [Next]_vars => TracesInv'
  <2> SUFFICES ASSUME TracesInv, [Next]_vars
               PROVE  TracesInv'
    OBVIOUS
  <2>1. CASE UNCHANGED vars
    BY <2>1 DEF vars, TracesInv, TypeOK, NoTraceSkipped, Overtaken, InBatch, WholeRowHasPublisher,
                RetriesInHand, ShownFirst, PageOfAccount, CursorCovers, Covered, OnePublisher, Complete
  <2>2. ASSUME NEW s \in Subscribers, Progress(s)
        PROVE  TracesInv'
    BY <2>2, PollKeeps, StoreKeeps, FetchKeeps, DecreaseKeeps, UpsertKeeps, PublishKeeps DEF Progress
  <2> QED
    BY <2>1, <2>2, ShowKeeps, FailsKeeps, StopKeeps, StartKeeps DEF Next
<1> QED
  BY <1>1, <1>2, PTL DEF Spec

\* At most one subscriber holds a trace, and none that holds a published one.
LEMMA OneHolder == TypeOK /\ OnePublisher => PublishedOnce
<1> SUFFICES ASSUME TypeOK, OnePublisher, NEW t \in Traces \ rewritten
             PROVE  published[t] + Cardinality({s \in Subscribers : t \in hand[s]}) <= 1
  BY DEF PublishedOnce
<1> DEFINE H == {s \in Subscribers : t \in hand[s]}
<1>1. published[t] \in Nat /\ published[t] <= 1
  BY DEF TypeOK, OnePublisher
<1>2. CASE H = {}
  <2>1. Cardinality(H) = 0
    BY <1>2, FS_EmptySet
  <2> QED
    BY <1>1, <2>1
<1>3. CASE H # {}
  <2>1. PICK s \in H : TRUE
    BY <1>3
  <2>2. H = {s}
    BY <2>1 DEF OnePublisher
  <2>3. Cardinality(H) = 1
    BY <2>2, FS_Singleton
  <2>4. published[t] = 0
    BY <1>1, <2>1 DEF OnePublisher
  <2> QED
    BY <2>3, <2>4
<1> QED
  BY <1>2, <1>3

(* Three subscribers decide by the table who publishes: a trace reaches the *)
(* events queue once, across restarts, unless its complete row is rewritten *)
(* by a late incomplete version or by one with other transactions.          *)
THEOREM TracesPublishedOnce == Spec => []PublishedOnce
BY TracesInvariant, OneHolder, PTL DEF TracesInv

----------------------------------------------------------------------------
(* Sums over finite sets. *)

\* Induction over the subsets of a finite set, for a set of them.
LEMMA SubsetsOfFinite ==
    ASSUME NEW S, IsFiniteSet(S), NEW C, {} \in C,
           \A T \in SUBSET S : \A x \in S : T \in C /\ x \notin T => T \cup {x} \in C
    PROVE  \A T \in SUBSET S : T \in C
<1> DEFINE Bad == {T \in SUBSET S : T \notin C}
<1>1. SUFFICES ASSUME Bad # {}
               PROVE  FALSE
  OBVIOUS
<1>2. PICK T \in Bad : \A U \in Bad : ~ (<<U, T>> \in StrictSubsetOrdering(S))
  <2>1. Bad \subseteq FiniteSubsetsOf(S)
    BY FS_FiniteSubsetsOfFinite
  <2> HIDE DEF Bad
  <2> QED
    BY <1>1, <2>1, FS_StrictSubsetOrderingWellFounded, WFMin, Zenon
<1>3. T \subseteq S /\ T # {}
  BY <1>2
<1>4. PICK x \in T : TRUE
  BY <1>3
<1>5. T \ {x} \subseteq S /\ T \ {x} # T /\ T \ {x} \subseteq T /\ x \in S
  BY <1>3, <1>4
<1>6. <<T \ {x}, T>> \in StrictSubsetOrdering(S)
  BY <1>3, <1>5, FS_FiniteSubsetsOfFinite DEF StrictSubsetOrdering
<1>7. T \ {x} \in C
  BY <1>2, <1>5, <1>6
<1>8. (T \ {x}) \cup {x} \in C
  BY <1>5, <1>7
<1>9. (T \ {x}) \cup {x} = T
  BY <1>4
<1> QED
  BY <1>2, <1>8, <1>9

\* Induction over the naturals, for a set: count the elements of 1 .. n.
LEMMA SetOfNaturals ==
    ASSUME NEW N, 0 \in N, \A n \in Nat : n \in N => n + 1 \in N
    PROVE  \A n \in Nat : n \in N
<1> SUFFICES ASSUME NEW n \in Nat
             PROVE  n \in N
  OBVIOUS
<1> DEFINE S == 1 .. n
           C == {T \in SUBSET S : Cardinality(T) \in N}
<1>1. IsFiniteSet(S) /\ Cardinality(S) = n
  BY FS_Interval
<1>2. {} \in C
  BY FS_EmptySet
<1>3. ASSUME NEW T \in SUBSET S, NEW x \in S, T \in C, x \notin T
      PROVE  T \cup {x} \in C
  <2>1. IsFiniteSet(T) /\ Cardinality(T) \in Nat /\ Cardinality(T \cup {x}) = Cardinality(T) + 1
    BY <1>1, <1>3, FS_Subset, FS_CardinalityType, FS_AddElement
  <2> QED
    BY <1>3, <2>1
<1>4. S \in C
  <2> HIDE DEF S, C
  <2> QED
    BY <1>1, <1>2, <1>3, SubsetsOfFinite
<1> QED
  BY <1>1, <1>4

\* The element that a sum takes next, and a sum by that choice over every set of D.
Pick(s) == CHOOSE x \in s : TRUE
IsSum(g, f, D) == g = [s \in D |-> IF s = {} THEN 0 ELSE f[Pick(s)] + g[s \ {Pick(s)}]]

\* SumFunctionOnSet is such a sum over the subsets of its set.
LEMMA SumIs ==
    ASSUME NEW f, NEW S
    PROVE  SumFunctionOnSet(f, S) = (CHOOSE g : IsSum(g, f, SUBSET S))[S]
BY DEF SumFunctionOnSet, FoldFunctionOnSet, MapThenFoldSet, IsSum, Pick

\* There is such a sum for a finite set: it is built up by cardinality.
LEMMA SumExists ==
    ASSUME NEW f, NEW S, IsFiniteSet(S)
    PROVE  \E g : IsSum(g, f, SUBSET S)
<1> DEFINE D(n) == {s \in SUBSET S : Cardinality(s) <= n}
           N == {n \in Nat : \E g : IsSum(g, f, D(n))}
<1>a. \A s \in SUBSET S : IsFiniteSet(s) /\ Cardinality(s) \in Nat
  BY FS_Subset, FS_CardinalityType
<1>b. \A s \in SUBSET S : s # {} => /\ Pick(s) \in s /\ s \ {Pick(s)} \in SUBSET S
                                    /\ Cardinality(s \ {Pick(s)}) = Cardinality(s) - 1
  BY <1>a, FS_RemoveElement DEF Pick
<1>1. 0 \in N
  <2>1. \A s \in D(0) : s = {}
    BY <1>a, FS_EmptySet
  <2> DEFINE g == [s \in D(0) |-> 0]
  <2>2. IsSum(g, f, D(0))
    BY <2>1 DEF IsSum
  <2> QED
    BY <2>2
<1>2. \A n \in Nat : n \in N => n + 1 \in N
  <2> SUFFICES ASSUME NEW n \in Nat, n \in N
               PROVE  n + 1 \in N
    OBVIOUS
  <2>1. PICK g : IsSum(g, f, D(n))
    OBVIOUS
  <2> DEFINE h == [s \in D(n + 1) |-> IF s = {} THEN 0 ELSE f[Pick(s)] + g[s \ {Pick(s)}]]
  <2>2. \A s \in D(n + 1) : s # {} => s \ {Pick(s)} \in D(n)
    BY <1>a, <1>b
  <2>3. D(n) \subseteq D(n + 1)
    BY <1>a
  <2> HIDE DEF D
  <2>4. \A s \in D(n) : h[s] = g[s]
    BY <2>1, <2>3 DEF IsSum
  <2>5. \A s \in D(n + 1) : h[s] = IF s = {} THEN 0 ELSE f[Pick(s)] + h[s \ {Pick(s)}]
    BY <2>2, <2>4
  <2>6. IsSum(h, f, D(n + 1))
    <3> HIDE DEF h
    <3>1. h = [s \in D(n + 1) |-> h[s]]
      BY DEF h
    <3> QED
      BY <2>5, <3>1 DEF IsSum
  <2> QED
    BY <2>6
<1>3. \A n \in Nat : n \in N
  <2> HIDE DEF N
  <2> QED
    BY <1>1, <1>2, SetOfNaturals
<1>4. D(Cardinality(S)) = SUBSET S
  BY <1>a, FS_Subset
<1> QED
  BY <1>3, <1>4, FS_CardinalityType

\* The values of a sum on the subsets of S, as the lemmas below use them.
SumsTo(g, f, S) ==
    /\ g[{}] = 0 /\ \A s \in SUBSET S : g[s] \in Int
    /\ \A s \in SUBSET S : \A x \in s : g[s] = f[x] + g[s \ {x}]

\* The equations of a sum.
LEMMA SumEquations ==
    ASSUME NEW f, NEW S, IsFiniteSet(S), \A x \in S : f[x] \in Int
    PROVE  \E g : SumFunctionOnSet(f, S) = g[S] /\ SumsTo(g, f, S)
<1> DEFINE g == CHOOSE g : IsSum(g, f, SUBSET S)
<1>1. IsSum(g, f, SUBSET S)
  BY SumExists
<1>2. SumFunctionOnSet(f, S) = g[S]
  BY SumIs
<1> HIDE DEF g
<1>3. \A s \in SUBSET S : s # {} => /\ Pick(s) \in s /\ s \ {Pick(s)} \in SUBSET S
                                    /\ g[s] = f[Pick(s)] + g[s \ {Pick(s)}]
  <2>1. \A s \in SUBSET S : s # {} => Pick(s) \in s
    BY DEF Pick
  <2> QED
    BY <1>1, <2>1 DEF IsSum
<1>4. g[{}] = 0
  BY <1>1 DEF IsSum
<1>5. \A s \in SUBSET S : /\ IsFiniteSet(s) /\ Cardinality(s) \in Nat
                          /\ \A x \in s : Cardinality(s \ {x}) = Cardinality(s) - 1
  BY FS_Subset, FS_CardinalityType, FS_RemoveElement
<1> DEFINE Good(s) == g[s] \in Int /\ \A x \in s : g[s] = f[x] + g[s \ {x}]
           N == {n \in Nat : \A s \in SUBSET S : Cardinality(s) <= n => Good(s)}
<1>g. Good({})
  BY <1>4
<1>6. 0 \in N
  <2>1. \A s \in SUBSET S : Cardinality(s) <= 0 => s = {}
    BY <1>5, FS_EmptySet
  <2> HIDE DEF Good
  <2> QED
    BY <1>g, <2>1
<1>7. \A n \in Nat : n \in N => n + 1 \in N
  <2>1. SUFFICES ASSUME NEW n \in Nat, n \in N, NEW s \in SUBSET S, Cardinality(s) <= n + 1, s # {}
                 PROVE  Good(s)
    <3> HIDE DEF Good
    <3> QED
      BY <1>g
  <2> DEFINE c == Pick(s)
  <2>2. c \in s /\ s \ {c} \in SUBSET S /\ g[s] = f[c] + g[s \ {c}] /\ f[c] \in Int
    BY <1>3, <2>1
  <2>3. \A u \in SUBSET S : Cardinality(u) <= n => Good(u)
    <3> HIDE DEF Good
    <3> QED
      BY <2>1
  <2>4. \A x \in s : s \ {x} \in SUBSET S /\ Cardinality(s \ {x}) <= n
    BY <1>5, <2>1
  <2> HIDE DEF c, N
  <2>5. \A x \in s : Good(s \ {x})
    <3> HIDE DEF Good
    <3> QED
      BY <2>3, <2>4
  <2>6. ASSUME NEW x \in s, x # c
        PROVE  g[s] = f[x] + g[s \ {x}]
    <3>1. x \in s \ {c} /\ c \in s \ {x} /\ f[x] \in Int
      BY <2>2, <2>6
    <3>2. g[s \ {c}] = f[x] + g[(s \ {c}) \ {x}]
      BY <2>2, <2>5, <3>1
    <3>3. g[s \ {x}] = f[c] + g[(s \ {x}) \ {c}]
      BY <2>5, <3>1
    <3>4. (s \ {c}) \ {x} = (s \ {x}) \ {c} /\ (s \ {c}) \ {x} \in SUBSET S
      OBVIOUS
    <3>5. g[(s \ {c}) \ {x}] \in Int
      <4>1. Cardinality((s \ {c}) \ {x}) = Cardinality(s \ {c}) - 1
        BY <1>5, <2>2, <3>1
      <4>2. Cardinality((s \ {c}) \ {x}) <= n
        BY <1>5, <2>2, <2>4, <4>1
      <4> QED
        BY <2>3, <3>4, <4>2
    <3>6. PICK w \in Int : w = g[(s \ {c}) \ {x}]
      BY <3>5
    <3>7. g[s \ {c}] = f[x] + w /\ g[s \ {x}] = f[c] + w
      BY <3>2, <3>3, <3>4, <3>6, Zenon
    <3> DEFINE q == g[s \ {c}]
               r == g[s \ {x}]
               p == g[s]
               a == f[c]
               b == f[x]
    <3>8. p = a + q /\ q = b + w /\ r = a + w /\ a \in Int /\ b \in Int
      BY <2>2, <3>1, <3>7, Zenon
    <3> HIDE DEF p, q, r, a, b
    <3>9. p = b + r
      BY <3>8
    <3> QED
      BY <3>9 DEF p, r, b
  <2>7. g[s] \in Int
    <3>1. g[s \ {c}] \in Int
      BY <2>2, <2>5, Zenon
    <3>2. \A p, q, r : p \in Int /\ q \in Int /\ r = p + q => r \in Int
      OBVIOUS
    <3> QED
      BY <2>2, <3>1, <3>2, Zenon
  <2>8. \A x \in s : g[s] = f[x] + g[s \ {x}]
    BY <2>2, <2>6
  <2> QED
    BY <2>7, <2>8
<1>8. \A n \in Nat : n \in N
  <2> HIDE DEF N
  <2> QED
    BY <1>6, <1>7, SetOfNaturals
<1>9. \A s \in SUBSET S : g[s] \in Int /\ \A x \in s : g[s] = f[x] + g[s \ {x}]
  BY <1>5, <1>8
<1>10. SumsTo(g, f, S)
  BY <1>4, <1>9 DEF SumsTo
<1> QED
  BY <1>2, <1>10

\* Two solutions of the equations agree.
LEMMA SumUnique ==
    ASSUME NEW f, NEW S, IsFiniteSet(S), NEW g, NEW h, SumsTo(g, f, S), SumsTo(h, f, S)
    PROVE  g[S] = h[S]
<1> DEFINE C == {T \in SUBSET S : g[T] = h[T]}
<1>1. {} \in C
  BY DEF SumsTo
<1>2. ASSUME NEW T \in SUBSET S, NEW x \in S, T \in C, x \notin T
      PROVE  T \cup {x} \in C
  <2>1. T \cup {x} \in SUBSET S /\ x \in T \cup {x} /\ (T \cup {x}) \ {x} = T
    BY <1>2
  <2>2. g[T \cup {x}] = f[x] + g[T] /\ h[T \cup {x}] = f[x] + h[T]
    BY <2>1 DEF SumsTo
  <2> QED
    BY <1>2, <2>1, <2>2
<1>3. S \in C
  <2> HIDE DEF C
  <2> QED
    BY <1>1, <1>2, SubsetsOfFinite
<1> QED
  BY <1>3

\* A sum over a finite set: it is an integer, that of no terms is zero, and
\* any term can be taken out of it.
LEMMA SumType ==
    ASSUME NEW f, NEW S, IsFiniteSet(S), \A x \in S : f[x] \in Int
    PROVE  SumFunctionOnSet(f, S) \in Int
<1>1. PICK g : SumFunctionOnSet(f, S) = g[S] /\ SumsTo(g, f, S)
  BY SumEquations
<1> QED
  BY <1>1 DEF SumsTo

\* The sum over no element.
LEMMA SumEmpty ==
    ASSUME NEW f
    PROVE  SumFunctionOnSet(f, {}) = 0
<1>1. IsFiniteSet({}) /\ \A x \in {} : f[x] \in Int
  BY FS_EmptySet
<1>2. PICK g : SumFunctionOnSet(f, {}) = g[{}] /\ SumsTo(g, f, {})
  BY <1>1, SumEquations
<1> QED
  BY <1>2 DEF SumsTo

\* A sum does not depend on the element that is taken first.
LEMMA SumTakeOut ==
    ASSUME NEW f, NEW S, IsFiniteSet(S), \A x \in S : f[x] \in Int, NEW x \in S
    PROVE  SumFunctionOnSet(f, S) = f[x] + SumFunctionOnSet(f, S \ {x})
<1> DEFINE T == S \ {x}
<1>1. IsFiniteSet(T) /\ \A y \in T : f[y] \in Int
  BY FS_RemoveElement
<1>2. PICK g : SumFunctionOnSet(f, S) = g[S] /\ SumsTo(g, f, S)
  BY SumEquations
<1> HIDE DEF T
<1>3. PICK h : SumFunctionOnSet(f, T) = h[T] /\ SumsTo(h, f, T)
  BY <1>1, SumEquations
<1>4. \A s \in SUBSET T : s \in SUBSET S
  BY DEF T
<1>5. SumsTo(g, f, T)
  BY <1>2, <1>4 DEF SumsTo
<1>6. g[T] = h[T]
  BY <1>1, <1>3, <1>5, SumUnique
<1>7. g[S] = f[x] + g[T]
  BY <1>2 DEF T, SumsTo
<1> QED
  BY <1>2, <1>3, <1>6, <1>7 DEF T

\* The sum with one element more.
LEMMA SumInsert ==
    ASSUME NEW f, NEW T, IsFiniteSet(T), NEW x, x \notin T, \A y \in T \cup {x} : f[y] \in Int
    PROVE  /\ SumFunctionOnSet(f, T) \in Int
           /\ SumFunctionOnSet(f, T \cup {x}) = f[x] + SumFunctionOnSet(f, T)
<1>1. IsFiniteSet(T \cup {x}) /\ x \in T \cup {x} /\ (T \cup {x}) \ {x} = T
  BY FS_AddElement
<1>2. SumFunctionOnSet(f, T \cup {x}) = f[x] + SumFunctionOnSet(f, (T \cup {x}) \ {x})
  BY <1>1, SumTakeOut
<1> QED
  BY <1>1, <1>2, SumType

\* Sums of functions that agree, and of a function that is a sum or a difference.
LEMMA SumCombine ==
    ASSUME NEW S, IsFiniteSet(S), NEW f, NEW g, NEW h,
           \A x \in S : f[x] \in Int /\ g[x] \in Int /\ h[x] = f[x] - g[x]
    PROVE  SumFunctionOnSet(h, S) = SumFunctionOnSet(f, S) - SumFunctionOnSet(g, S)
<1> DEFINE C == {T \in SUBSET S : SumFunctionOnSet(h, T) = SumFunctionOnSet(f, T) - SumFunctionOnSet(g, T)}
<1>1. {} \in C
  BY SumEmpty
<1>2. ASSUME NEW T \in SUBSET S, NEW x \in S, T \in C, x \notin T
      PROVE  T \cup {x} \in C
  <2>1. IsFiniteSet(T) /\ \A y \in T \cup {x} : f[y] \in Int /\ g[y] \in Int /\ h[y] \in Int
    BY FS_Subset
  <2>2. /\ SumFunctionOnSet(f, T) \in Int
        /\ SumFunctionOnSet(f, T \cup {x}) = f[x] + SumFunctionOnSet(f, T)
    BY <1>2, <2>1, SumInsert
  <2>3. /\ SumFunctionOnSet(g, T) \in Int
        /\ SumFunctionOnSet(g, T \cup {x}) = g[x] + SumFunctionOnSet(g, T)
    BY <1>2, <2>1, SumInsert
  <2>4. /\ SumFunctionOnSet(h, T) \in Int
        /\ SumFunctionOnSet(h, T \cup {x}) = h[x] + SumFunctionOnSet(h, T)
    BY <1>2, <2>1, SumInsert
  <2>5. SumFunctionOnSet(h, T) = SumFunctionOnSet(f, T) - SumFunctionOnSet(g, T)
    BY <1>2
  <2>6. h[x] = f[x] - g[x] /\ f[x] \in Int /\ g[x] \in Int
    OBVIOUS
  <2>7. SumFunctionOnSet(h, T \cup {x}) = SumFunctionOnSet(f, T \cup {x}) - SumFunctionOnSet(g, T \cup {x})
    BY <2>2, <2>3, <2>4, <2>5, <2>6
  <2> QED
    BY <2>7
<1>3. S \in C
  <2> HIDE DEF C
  <2> QED
    BY <1>1, <1>2, SubsetsOfFinite
<1> QED
  BY <1>3

\* The sum of equal values.
LEMMA SumConstant ==
    ASSUME NEW S, IsFiniteSet(S), NEW c \in Int, NEW f, \A x \in S : f[x] = c
    PROVE  SumFunctionOnSet(f, S) = Cardinality(S) * c
<1> DEFINE C == {T \in SUBSET S : SumFunctionOnSet(f, T) = Cardinality(T) * c}
<1>1. {} \in C
  BY SumEmpty, FS_EmptySet
<1>2. ASSUME NEW T \in SUBSET S, NEW x \in S, T \in C, x \notin T
      PROVE  T \cup {x} \in C
  <2>1. IsFiniteSet(T) /\ \A y \in T \cup {x} : f[y] \in Int
    BY FS_Subset
  <2>2. SumFunctionOnSet(f, T \cup {x}) = c + SumFunctionOnSet(f, T)
    BY <1>2, <2>1, SumInsert
  <2>3. Cardinality(T) \in Nat /\ Cardinality(T \cup {x}) = Cardinality(T) + 1
    BY <1>2, <2>1, FS_AddElement, FS_CardinalityType
  <2>4. \A n \in Nat : c + n * c = (n + 1) * c
    OBVIOUS
  <2> QED
    BY <1>2, <2>2, <2>3, <2>4
<1>3. S \in C
  <2> HIDE DEF C
  <2> QED
    BY <1>1, <1>2, SubsetsOfFinite
<1> QED
  BY <1>3

\* The sums of two functions that agree.
LEMMA SumAgree ==
    ASSUME NEW S, IsFiniteSet(S), NEW f, NEW h, \A x \in S : f[x] \in Int /\ h[x] = f[x]
    PROVE  SumFunctionOnSet(h, S) = SumFunctionOnSet(f, S)
<1> DEFINE z == [x \in S |-> 0]
<1>1. SumFunctionOnSet(z, S) = Cardinality(S) * 0
  BY SumConstant
<1>2. SumFunctionOnSet(h, S) = SumFunctionOnSet(f, S) - SumFunctionOnSet(z, S)
  BY SumCombine
<1> QED
  BY <1>1, <1>2, SumType, FS_CardinalityType

\* One term differs from zero.
LEMMA SumPoint ==
    ASSUME NEW S, IsFiniteSet(S), NEW p, NEW v \in Int, NEW f, \A x \in S : f[x] = IF x = p THEN v ELSE 0
    PROVE  SumFunctionOnSet(f, S) = IF p \in S THEN v ELSE 0
<1>1. ASSUME NEW T \in SUBSET S, p \notin T
      PROVE  SumFunctionOnSet(f, T) = 0
  <2>1. IsFiniteSet(T) /\ Cardinality(T) \in Nat /\ \A x \in T : f[x] = 0
    BY <1>1, FS_Subset, FS_CardinalityType
  <2> QED
    BY <2>1, SumConstant
<1>2. CASE p \in S
  <2>1. SumFunctionOnSet(f, S) = f[p] + SumFunctionOnSet(f, S \ {p})
    BY <1>2, SumTakeOut
  <2> QED
    BY <1>1, <1>2, <2>1
<1> QED
  BY <1>1, <1>2

\* A sum of naturals is a natural.
LEMMA SumAtLeastZero ==
    ASSUME NEW S, IsFiniteSet(S), NEW f, \A x \in S : f[x] \in Nat
    PROVE  SumFunctionOnSet(f, S) \in Nat
<1> DEFINE C == {T \in SUBSET S : SumFunctionOnSet(f, T) \in Nat}
<1>1. {} \in C
  BY SumEmpty
<1>2. ASSUME NEW T \in SUBSET S, NEW x \in S, T \in C, x \notin T
      PROVE  T \cup {x} \in C
  <2>1. IsFiniteSet(T) /\ \A y \in T \cup {x} : f[y] \in Int
    BY FS_Subset
  <2>2. SumFunctionOnSet(f, T \cup {x}) = f[x] + SumFunctionOnSet(f, T)
    BY <1>2, <2>1, SumInsert
  <2> QED
    BY <1>2, <2>2
<1>3. S \in C
  <2> HIDE DEF C
  <2> QED
    BY <1>1, <1>2, SubsetsOfFinite
<1> QED
  BY <1>3

\* A column of a matrix.
ColumnOf(M, A, b) == [a \in A |-> M[a][b]]

\* The order of two summations does not matter.
LEMMA SumExchange ==
    ASSUME NEW A, IsFiniteSet(A), NEW B, IsFiniteSet(B), NEW M, \A a \in A, b \in B : M[a][b] \in Int,
           NEW rows, NEW columns,
           \A a \in A : rows[a] = SumFunctionOnSet(M[a], B),
           \A b \in B : columns[b] = SumFunctionOnSet(ColumnOf(M, A, b), A)
    PROVE  SumFunctionOnSet(rows, A) = SumFunctionOnSet(columns, B)
<1> DEFINE Column(T) == [b \in B |-> SumFunctionOnSet([a \in A |-> M[a][b]], T)]
           C == {T \in SUBSET A : SumFunctionOnSet(rows, T) = SumFunctionOnSet(Column(T), B)}
<1>1. {} \in C
  <2>1. \A b \in B : Column({})[b] = 0
    BY SumEmpty
  <2>2. SumFunctionOnSet(Column({}), B) = Cardinality(B) * 0
    <3> HIDE DEF Column
    <3> QED
      BY <2>1, SumConstant
  <2> QED
    BY <2>2, SumEmpty, FS_CardinalityType
<1>2. ASSUME NEW T \in SUBSET A, NEW x \in A, T \in C, x \notin T
      PROVE  T \cup {x} \in C
  <2>1. IsFiniteSet(T) /\ \A a \in A : rows[a] \in Int
    BY FS_Subset, SumType
  <2>2. SumFunctionOnSet(rows, T \cup {x}) = rows[x] + SumFunctionOnSet(rows, T)
    BY <1>2, <2>1, SumInsert
  <2>3. ASSUME NEW b \in B
        PROVE  /\ Column(T \cup {x})[b] \in Int /\ Column(T)[b] \in Int
               /\ M[x][b] = Column(T \cup {x})[b] - Column(T)[b]
    <3> DEFINE f == [a \in A |-> M[a][b]]
    <3>1. \A y \in T \cup {x} : f[y] \in Int
      OBVIOUS
    <3>2. f[x] = M[x][b] /\ M[x][b] \in Int
      OBVIOUS
    <3>3. /\ SumFunctionOnSet(f, T) \in Int
          /\ SumFunctionOnSet(f, T \cup {x}) = f[x] + SumFunctionOnSet(f, T)
      <4> HIDE DEF f
      <4> QED
        BY <1>2, <2>1, <3>1, SumInsert
    <3> DEFINE p == SumFunctionOnSet(f, T \cup {x})
               q == SumFunctionOnSet(f, T)
    <3>4. Column(T \cup {x})[b] = p /\ Column(T)[b] = q
      OBVIOUS
    <3>5. q \in Int /\ p = M[x][b] + q
      BY <3>2, <3>3
    <3> HIDE DEF p, q, Column
    <3> QED
      BY <3>2, <3>4, <3>5
  <2>4. SumFunctionOnSet(M[x], B) = SumFunctionOnSet(Column(T \cup {x}), B) - SumFunctionOnSet(Column(T), B)
    <3> HIDE DEF Column
    <3>1. \A b \in B : /\ Column(T \cup {x})[b] \in Int /\ Column(T)[b] \in Int
                       /\ M[x][b] = Column(T \cup {x})[b] - Column(T)[b]
      BY <2>3
    <3> QED
      BY <3>1, SumCombine
  <2>5. SumFunctionOnSet(Column(T \cup {x}), B) \in Int /\ SumFunctionOnSet(Column(T), B) \in Int
    <3> HIDE DEF Column
    <3>1. \A b \in B : Column(T \cup {x})[b] \in Int /\ Column(T)[b] \in Int
      BY <2>3
    <3> QED
      BY <3>1, SumType
  <2> HIDE DEF Column
  <2>6. SumFunctionOnSet(rows, T \cup {x}) = SumFunctionOnSet(Column(T \cup {x}), B)
    BY <1>2, <2>2, <2>4, <2>5
  <2> QED
    BY <2>6
<1>3. A \in C
  <2> HIDE DEF C
  <2> QED
    BY <1>1, <1>2, SubsetsOfFinite
<1>4. SumFunctionOnSet(rows, A) = SumFunctionOnSet(Column(A), B)
  BY <1>3
<1>5. \A b \in B : columns[b] = Column(A)[b] /\ Column(A)[b] \in Int
  <2> SUFFICES ASSUME NEW b \in B
               PROVE  columns[b] = Column(A)[b] /\ Column(A)[b] \in Int
    OBVIOUS
  <2> DEFINE f == [a \in A |-> M[a][b]]
  <2>1. \A a \in A : f[a] \in Int
    OBVIOUS
  <2>2. SumFunctionOnSet(f, A) \in Int
    <3> HIDE DEF f
    <3> QED
      BY <2>1, SumType
  <2>3. columns[b] = SumFunctionOnSet(f, A)
    BY DEF ColumnOf
  <2> QED
    BY <2>2, <2>3
<1> HIDE DEF Column
<1>6. SumFunctionOnSet(columns, B) = SumFunctionOnSet(Column(A), B)
  BY <1>5, SumAgree
<1> QED
  BY <1>4, <1>6

----------------------------------------------------------------------------
(* Sequences of sequences, as FlattenSeq joins them. *)

\* f[i] is the concatenation of the first i sequences.
Concats(f, ss, n) == f = [i \in 1 .. n |-> IF i = 1 THEN ss[i] ELSE f[i - 1] \o ss[i]]

\* The values of the partial concatenations.
LEMMA ConcatsAt ==
    ASSUME NEW f, NEW ss, NEW n, Concats(f, ss, n), NEW i \in 1 .. n
    PROVE  f[i] = IF i = 1 THEN ss[i] ELSE f[i - 1] \o ss[i]
<1> DEFINE F == [j \in 1 .. n |-> IF j = 1 THEN ss[j] ELSE f[j - 1] \o ss[j]]
<1>1. f = F
  BY DEF Concats
<1>2. F[i] = IF i = 1 THEN ss[i] ELSE f[i - 1] \o ss[i]
  OBVIOUS
<1> QED
  <2> HIDE DEF F
  <2>1. f[i] = F[i]
    BY <1>1
  <2> QED
    BY <1>2, <2>1, Zenon

\* The partial concatenations of a sequence of sequences exist.
LEMMA ConcatsExists ==
    ASSUME NEW ss
    PROVE  \A n \in Nat : \E f : Concats(f, ss, n)
<1> DEFINE N == {n \in Nat : \E f : Concats(f, ss, n)}
<1>1. 0 \in N
  <2>1. Concats([i \in 1 .. 0 |-> ss[i]], ss, 0)
    BY DEF Concats
  <2> QED
    BY <2>1
<1>2. \A n \in Nat : n \in N => n + 1 \in N
  <2> SUFFICES ASSUME NEW n \in Nat, n \in N
               PROVE  n + 1 \in N
    OBVIOUS
  <2>1. PICK f : Concats(f, ss, n)
    OBVIOUS
  <2> DEFINE h == [i \in 1 .. n + 1 |-> IF i = 1 THEN ss[i] ELSE f[i - 1] \o ss[i]]
  <2>2. \A i \in 1 .. n : h[i] = f[i]
    <3> SUFFICES ASSUME NEW i \in 1 .. n
                 PROVE  h[i] = f[i]
      OBVIOUS
    <3>1. f[i] = IF i = 1 THEN ss[i] ELSE f[i - 1] \o ss[i]
      BY <2>1, ConcatsAt
    <3>2. i \in 1 .. n + 1
      OBVIOUS
    <3>3. h[i] = IF i = 1 THEN ss[i] ELSE f[i - 1] \o ss[i]
      BY <3>2
    <3> QED
      BY <3>1, <3>3, Zenon
  <2>3. \A i \in 1 .. n + 1 : h[i] = IF i = 1 THEN ss[i] ELSE h[i - 1] \o ss[i]
    <3> SUFFICES ASSUME NEW i \in 1 .. n + 1
                 PROVE  h[i] = IF i = 1 THEN ss[i] ELSE h[i - 1] \o ss[i]
      OBVIOUS
    <3>1. h[i] = IF i = 1 THEN ss[i] ELSE f[i - 1] \o ss[i]
      OBVIOUS
    <3>2. i # 1 => i - 1 \in 1 .. n
      OBVIOUS
    <3> HIDE DEF h
    <3> QED
      BY <2>2, <3>1, <3>2, Zenon
  <2>4. h = [i \in 1 .. n + 1 |-> h[i]]
    OBVIOUS
  <2> HIDE DEF h
  <2>5. Concats(h, ss, n + 1)
    BY <2>3, <2>4 DEF Concats
  <2> QED
    BY <2>5
<1>3. \A n \in Nat : n \in N
  <2> HIDE DEF N
  <2> QED
    BY <1>1, <1>2, SetOfNaturals
<1> QED
  BY <1>3

\* FlattenSeq is the last of them.
LEMMA FlattenIs ==
    ASSUME NEW X, NEW ss \in Seq(X), Len(ss) # 0
    PROVE  \E f : Concats(f, ss, Len(ss)) /\ FlattenSeq(ss) = f[Len(ss)]
<1> DEFINE f == CHOOSE f : Concats(f, ss, Len(ss))
<1>1. Concats(f, ss, Len(ss))
  <2>1. Len(ss) \in Nat
    OBVIOUS
  <2> QED
    BY <2>1, ConcatsExists, Zenon
<1>2. FlattenSeq(ss) = f[Len(ss)]
  BY DEF FlattenSeq, Concats
<1> QED
  BY <1>1, <1>2

\* What a flattened sequence holds is what its parts hold.
LEMMA FlattenHolds ==
    ASSUME NEW X, NEW ss \in Seq(Seq(X))
    PROVE  /\ FlattenSeq(ss) \in Seq(X)
           /\ Range(FlattenSeq(ss)) = UNION {Range(ss[k]) : k \in DOMAIN ss}
<1>1. CASE Len(ss) = 0
  <2>1. FlattenSeq(ss) = ss /\ ss = <<>> /\ DOMAIN ss = {}
    BY <1>1 DEF FlattenSeq
  <2>2. Range(ss) = {} /\ UNION {Range(ss[k]) : k \in DOMAIN ss} = {}
    BY <2>1 DEF Range
  <2> QED
    BY <2>1, <2>2
<1>2. CASE Len(ss) # 0
  <2>1. PICK f : Concats(f, ss, Len(ss)) /\ FlattenSeq(ss) = f[Len(ss)]
    BY <1>2, FlattenIs
  <2> DEFINE Holds(n) == f[n] \in Seq(X) /\ Range(f[n]) = UNION {Range(ss[k]) : k \in 1 .. n}
             N == {n \in Nat : n \in 1 .. Len(ss) => Holds(n)}
  <2>2. 0 \in N
    OBVIOUS
  <2>3. \A n \in Nat : n \in N => n + 1 \in N
    <3>a. \A n \in Nat : n + 1 \in Nat
      OBVIOUS
    <3> SUFFICES ASSUME NEW n \in Nat, n \in N, n + 1 \in 1 .. Len(ss)
                 PROVE  Holds(n + 1)
      <4> HIDE DEF Holds
      <4> QED
        BY <3>a, Zenon
    <3>1. CASE n = 0
      <4>1. f[1] = ss[1] /\ ss[1] \in Seq(X)
        BY <2>1, <3>1, ConcatsAt
      <4>2. 1 .. 1 = {1} /\ n + 1 = 1
        BY <3>1
      <4>3. UNION {Range(ss[k]) : k \in {1}} = Range(ss[1])
        BY Zenon
      <4> QED
        BY <4>1, <4>2, <4>3, Zenon
    <3>2. CASE n # 0
      <4>1. n \in 1 .. Len(ss) /\ Holds(n)
        <5> HIDE DEF Holds
        <5> QED
          BY <3>2
      <4>2. f[n + 1] = f[n] \o ss[n + 1] /\ ss[n + 1] \in Seq(X)
        <5>1. f[n + 1] = IF n + 1 = 1 THEN ss[n + 1] ELSE f[(n + 1) - 1] \o ss[n + 1]
          BY <2>1, ConcatsAt
        <5>2. n + 1 # 1 /\ (n + 1) - 1 = n /\ n + 1 \in DOMAIN ss
          BY <3>2
        <5>3. ss[n + 1] \in Seq(X)
          BY <5>2
        <5> QED
          BY <5>1, <5>2, <5>3, Zenon
      <4>3. Range(f[n + 1]) = Range(f[n]) \cup Range(ss[n + 1])
        <5>1. f[n] \in Seq(X) /\ ss[n + 1] \in Seq(X)
          BY <4>1, <4>2, Zenon
        <5> DEFINE p == f[n]
                   q == ss[n + 1]
        <5> HIDE DEF p, q
        <5>2. Range(p \o q) = Range(p) \cup Range(q)
          BY <5>1, RangeConcatenation DEF p, q
        <5> QED
          BY <4>2, <5>2, Zenon DEF p, q
      <4>4. UNION {Range(ss[k]) : k \in 1 .. n + 1} = (UNION {Range(ss[k]) : k \in 1 .. n}) \cup Range(ss[n + 1])
        <5>1. 1 .. n + 1 = (1 .. n) \cup {n + 1}
          OBVIOUS
        <5> QED
          BY <5>1, Zenon
      <4>5. f[n] \o ss[n + 1] \in Seq(X)
        BY <4>1, <4>2
      <4> QED
        BY <4>1, <4>2, <4>3, <4>4, <4>5, Zenon
    <3> QED
      BY <3>1, <3>2
  <2>4. \A n \in Nat : n \in N
    <3> HIDE DEF N
    <3> QED
      BY <2>2, <2>3, SetOfNaturals
  <2>5. Holds(Len(ss))
    <3> HIDE DEF Holds
    <3> QED
      BY <1>2, <2>4
  <2>6. 1 .. Len(ss) = DOMAIN ss
    OBVIOUS
  <2> QED
    BY <2>1, <2>5, <2>6, Zenon
<1> QED
  BY <1>1, <1>2

\* The least of two numbers.
LEMMA MinOfTwo ==
    ASSUME NEW a \in Int, NEW b \in Int
    PROVE  Min({a, b}) = IF a <= b THEN a ELSE b
BY DEF Min

\* The greatest of two numbers.
LEMMA MaxOfTwo ==
    ASSUME NEW a \in Int, NEW b \in Int
    PROVE  Max({a, b}) = IF a >= b THEN a ELSE b
BY DEF Max

----------------------------------------------------------------------------
(* A buffer is read back from its cells. *)

\* A quotient, bounded by its product with the divisor.
LEMMA DivBounds ==
    ASSUME NEW a \in Nat, NEW d \in Nat \ {0}
    PROVE  /\ a \div d \in Nat
           /\ d * (a \div d) <= a /\ a < d * (a \div d) + d
BY Z3

\* The multiples of a number are ordered.
LEMMA Multiples ==
    ASSUME NEW i \in Nat, NEW j \in Nat, NEW d \in Nat, i <= j
    PROVE  i * d \in Nat /\ i * d <= j * d /\ (i + 1) * d = i * d + d
<1>1. (j - i) * d \in Nat
  OBVIOUS
<1>2. j * d = i * d + (j - i) * d
  OBVIOUS
<1> QED
  BY <1>1, <1>2

\* How many cells: all but the last are full, and the last is not beyond the end.
LEMMA CellsBounds ==
    ASSUME NEW X, NEW b \in Seq(X)
    PROVE  /\ CellsFor(b) \in Nat \ {0} /\ Len(b) <= CellsFor(b) * BytesPerCell
           /\ \A i \in Nat : i < CellsFor(b) => i * BytesPerCell <= Len(b)
<1> DEFINE B == BytesPerCell
           L == Len(b)
           q == (L - 1) \div B
<1>1. B \in Nat \ {0} /\ L \in Nat
  BY CellsAssumption
<1>2. CASE b = <<>>
  <2>1. CellsFor(b) = 1 /\ L = 0
    BY <1>2 DEF CellsFor
  <2> QED
    BY <1>1, <2>1
<1>3. CASE b # <<>>
  <2>1. L - 1 \in Nat /\ CellsFor(b) = q + 1
    BY <1>1, <1>3 DEF CellsFor
  <2>2. q \in Nat /\ B * q <= L - 1 /\ L - 1 < B * q + B
    BY <1>1, <2>1, DivBounds
  <2> HIDE DEF q, B, L
  <2>3. (q + 1) * B = q * B + B /\ q * B = B * q /\ q * B \in Nat
    BY <1>1, <2>2
  <2>4. \A i \in Nat : i <= q => i * B <= q * B /\ i * B \in Nat
    BY <1>1, <2>2, Multiples
  <2>5. L <= (q + 1) * B
    BY <1>1, <2>2, <2>3
  <2>6. \A i \in Nat : i < q + 1 => i * B <= L
    <3> SUFFICES ASSUME NEW i \in Nat, i < q + 1
                 PROVE  i * B <= L
      OBVIOUS
    <3>1. i <= q
      BY <2>2
    <3> QED
      BY <1>1, <2>2, <2>3, <2>4, <3>1
  <2> QED
    BY <2>1, <2>2, <2>5, <2>6 DEF B, L
<1> QED
  BY <1>2, <1>3

\* What is written to a chain of cells is read back.
LEMMA BufferReadBack ==
    ASSUME NEW X, NEW b \in Seq(X)
    PROVE  cell_to_buffer(build_cell_chain(b)) = b
<1> DEFINE B == BytesPerCell
           L == Len(b)
           n == CellsFor(b)
           End(k) == Min({k * B, L})
           chain == build_cell_chain(b)
           ss == [k \in 1 .. n |-> SubSeq(b, (k - 1) * B + 1, End(k))]
<1>1. /\ B \in Nat \ {0} /\ L \in Nat /\ n \in Nat \ {0} /\ L <= n * B
      /\ \A i \in Nat : i < n => i * B <= L
  BY CellsAssumption, CellsBounds
<1>2. \A k \in 1 .. n : /\ (k - 1) * B \in Nat /\ k * B \in Nat /\ k * B = (k - 1) * B + B /\ (k - 1) * B <= L
                        /\ End(k) = IF k = n THEN L ELSE k * B
                        /\ End(k) \in (k - 1) * B .. L /\ End(k) <= (k - 1) * B + B
  <2> SUFFICES ASSUME NEW k \in 1 .. n
               PROVE  /\ (k - 1) * B \in Nat /\ k * B \in Nat /\ k * B = (k - 1) * B + B /\ (k - 1) * B <= L
                      /\ End(k) = IF k = n THEN L ELSE k * B
                      /\ End(k) \in (k - 1) * B .. L /\ End(k) <= (k - 1) * B + B
    OBVIOUS
  <2>1. k - 1 \in Nat /\ k \in Nat /\ k - 1 < n
    BY <1>1
  <2> DEFINE p == (k - 1) * B
             e == k * B
  <2>2. p \in Nat /\ e = p + B
    BY <1>1, <2>1
  <2>3. p <= L
    BY <1>1, <2>1
  <2>4. k # n => e <= L
    BY <1>1, <2>1
  <2>5. k = n => L <= e
    BY <1>1
  <2>6. End(k) = IF e <= L THEN e ELSE L
    BY <1>1, <2>2, MinOfTwo
  <2> HIDE DEF p, e, B, L, n, End
  <2>7. /\ p \in Nat /\ e \in Nat /\ e = p + B /\ p <= L
        /\ End(k) = IF k = n THEN L ELSE e
        /\ End(k) \in p .. L /\ End(k) <= p + B
    BY <1>1, <2>2, <2>3, <2>4, <2>5, <2>6
  <2> QED
    BY <2>7 DEF p, e
<1>3. \A k \in 1 .. n : ss[k] = SubSeq(b, (k - 1) * B + 1, End(k))
  OBVIOUS
<1>4. \A k \in 1 .. n : ss[k] \in Seq(X) /\ Len(ss[k]) <= B
  <2> SUFFICES ASSUME NEW k \in 1 .. n
               PROVE  ss[k] \in Seq(X) /\ Len(ss[k]) <= B
    OBVIOUS
  <2> DEFINE m == (k - 1) * B + 1
             e == End(k)
  <2>1. m \in Nat \ {0} /\ e \in Nat /\ e <= L /\ e - m + 1 <= B
    BY <1>1, <1>2
  <2>2. ss[k] = SubSeq(b, m, e)
    BY <1>3
  <2> HIDE DEF m, e, ss
  <2>3. \A i \in m .. e : b[i] \in X
    BY <2>1
  <2>4. SubSeq(b, m, e) \in Seq(X) /\ Len(SubSeq(b, m, e)) = IF m <= e THEN e - m + 1 ELSE 0
    BY <2>1, <2>3, SubSeqProperties
  <2> QED
    BY <1>1, <2>1, <2>2, <2>4
<1>5. ss \in Seq(Seq(X)) /\ Len(ss) = n
  <2>1. ss = [k \in 1 .. n |-> ss[k]] /\ n \in Nat
    BY <1>1
  <2> HIDE DEF ss, n
  <2>2. ss \in [1 .. n -> Seq(X)]
    BY <1>4, <2>1
  <2> QED
    BY <2>1, <2>2
<1>6. [k \in DOMAIN chain |-> BytesRead(chain[k])] = ss
  <2>1. chain = ss
    BY DEF build_cell_chain
  <2>2. \A k \in 1 .. n : BytesRead(ss[k]) = ss[k]
    <3> SUFFICES ASSUME NEW k \in 1 .. n
                 PROVE  BytesRead(ss[k]) = ss[k]
      OBVIOUS
    <3> DEFINE s == ss[k]
    <3>1. s \in Seq(X) /\ Len(s) <= B
      BY <1>4
    <3> HIDE DEF s
    <3>2. Min({B, Len(s)}) = Len(s)
      BY <1>1, <3>1, MinOfTwo
    <3>3. SubSeq(s, 1, Len(s)) = s
      BY <3>1, SubSeqFull
    <3>4. BytesRead(s) = s
      BY <3>2, <3>3 DEF BytesRead
    <3> QED
      BY <3>4 DEF s
  <2> HIDE DEF ss, chain
  <2>3. DOMAIN ss = 1 .. n /\ ss = [k \in 1 .. n |-> ss[k]]
    BY <1>5
  <2> QED
    BY <2>1, <2>2, <2>3
<1>7. cell_to_buffer(chain) = FlattenSeq(ss)
  <2> HIDE DEF ss, chain
  <2> QED
    BY <1>6 DEF cell_to_buffer
<1> HIDE DEF ss
<1>8. PICK f : Concats(f, ss, n) /\ FlattenSeq(ss) = f[n]
  <2>1. Len(ss) # 0
    BY <1>1, <1>5
  <2> QED
    BY <1>5, <2>1, FlattenIs
<1> DEFINE Holds(i) == i \in 1 .. n => f[i] = SubSeq(b, 1, End(i))
           N == {i \in Nat : Holds(i)}
<1>9. 0 \in N
  OBVIOUS
<1>10. \A i \in Nat : i \in N => i + 1 \in N
  <2>a. \A i \in Nat : i + 1 \in Nat
    OBVIOUS
  <2> HIDE DEF n, B, L, End
  <2> SUFFICES ASSUME NEW i \in Nat, i \in N, i + 1 \in 1 .. n
               PROVE  f[i + 1] = SubSeq(b, 1, End(i + 1))
    BY <2>a, Zenon
  <2>1. f[i + 1] = IF i + 1 = 1 THEN ss[i + 1] ELSE f[(i + 1) - 1] \o ss[i + 1]
    BY <1>8, ConcatsAt
  <2>2. CASE i = 0
    <3>1. i + 1 = 1 /\ (1 - 1) * B + 1 = 1
      BY <1>1, <2>2
    <3>2. ss[1] = SubSeq(b, (1 - 1) * B + 1, End(1))
      BY <1>3, <3>1, Zenon
    <3> QED
      BY <2>1, <3>1, <3>2, Zenon
  <2>3. CASE i # 0
    <3>1. i \in 1 .. n /\ i # n /\ (i + 1) - 1 = i /\ i + 1 # 1
      BY <1>1, <2>3
    <3> DEFINE e == i * B
               z == End(i + 1)
    <3>2. e \in Nat /\ End(i) = e /\ e <= L /\ z \in e .. L
      <4>1. /\ i * B \in Nat /\ End(i) = i * B
            /\ ((i + 1) - 1) * B <= L /\ End(i + 1) \in ((i + 1) - 1) * B .. L
        BY <1>2, <3>1
      <4> QED
        BY <3>1, <4>1
    <3>3. f[i] = SubSeq(b, 1, e)
      BY <3>1, <3>2, Zenon
    <3>4. ss[i + 1] = SubSeq(b, e + 1, z)
      BY <1>3, <3>1, Zenon
    <3> HIDE DEF e, z
    <3>5. SubSeq(b, 1, e) \o SubSeq(b, e + 1, z) = SubSeq(b, 1, z)
      <4>1. 1 \in 1 .. L + 1 /\ e \in 1 - 1 .. L /\ z \in e .. L
        BY <1>1, <3>2
      <4> QED
        BY <4>1, ConcatAdjacentSubSeq DEF L
    <3> QED
      BY <2>1, <3>1, <3>3, <3>4, <3>5, Zenon DEF z
  <2> QED
    BY <2>2, <2>3
<1>11. \A i \in Nat : i \in N
  <2> HIDE DEF N
  <2> QED
    BY <1>9, <1>10, SetOfNaturals
<1>12. f[n] = SubSeq(b, 1, L)
  <2> HIDE DEF n, B, L, End
  <2>1. n \in Nat /\ n \in 1 .. n
    BY <1>1
  <2>2. End(n) = L
    BY <1>2, <2>1, Zenon
  <2> QED
    BY <1>11, <2>1, <2>2, Zenon
<1> QED
  BY <1>7, <1>8, <1>12, SubSeqFull

----------------------------------------------------------------------------
(* The invariant of the relay. *)

\* The stages of a trace, those in which there is one, and the tasks of the broadcaster.
Stages == {"idle", "sent", "parsing", "recording", "done", "failed", "unsent"}
Parsed == {"parsing", "recording", "done", "failed"}
Tasks == {"execute", "approve", "refund"}

\* The message that the broadcaster sends for a task.
ActionFor(j) ==
    CASE j.kind = "execute" -> OutAction(RelayerExecute(j.message, Wallet), execute_send(j.message.payload), Gateway)
      [] j.kind = "approve" -> OutAction(ApprovalBlob(j.messages), approve_send, Gateway)
      [] j.kind = "refund" -> OutAction(NativeRefund(<<1>>, "user", j.remaining - native_gas_refund_estimate),
                                        RefundDust, GasService)
ExtFor(j) == outgoing_message(ActionFor(j), 0, highload_wallet_send(1), Wallet)

\* The trace of a job.
TraceFor(j) ==
    CASE j.kind = "user" -> Hashed(UserTxs(j.acts))
      [] j.kind = "execute" -> Hashed(WalletTxs(ExtFor(j)) \o ExecuteTxs(Body(ExtFor(j)), j.outcome))
      [] j.kind = "approve" -> Hashed(WalletTxs(ExtFor(j)) \o ApproveTxs(Body(ExtFor(j)), j.messages))
      [] j.kind = "refund" -> Hashed(WalletTxs(ExtFor(j)) \o RefundTxs(Body(ExtFor(j))))

\* What is known of a job that is with the chain.
JobOK(j) ==
    /\ j.kind \in Tasks \cup {"user"}
    /\ j.kind = "user" => j.acts \in Seq(Acts)
    /\ j.kind = "execute" => j.message \in Messages /\ j.outcome \in Outcomes
    /\ j.kind = "approve" => j.messages \in Seq(Messages) /\ j.messages # <<>>
    /\ j.kind = "refund" => j.remaining \in Gas /\ j.remaining >= native_gas_refund_estimate

\* The parser has not begun.
Untouched == trace = <<>> /\ at = 0 /\ parsers = <<>> /\ calls = <<>> /\ credits = {} /\ events = <<>>

\* What the stage says of the rest of the state.
ControlOK ==
    /\ stage \in Stages
    /\ stage \in {"idle", "sent", "unsent"} => Untouched
    /\ stage = "idle" => /\ job.kind = None /\ sent = Empty
                         /\ includer = [result |-> None, task |-> "held", told |-> {}]
    /\ stage \in Parsed \cup {"sent"} => JobOK(job) /\ (job.kind # "user" => sent = ExtFor(job))
    /\ stage = "sent" => job.kind # "user"
    /\ stage \in Parsed => trace = TraceFor(job)

\* What the includer knows, by the result of the broadcast and what became of the task.
IncluderOK ==
    /\ includer \in [result : {None, "posting", "ok", "rpc", "gas", "error"},
                     task : {"held", "acked", "republished"}, told : SUBSET {"INSUFFICIENT_GAS", "ERROR"}]
    /\ includer.result = "posting" => stage \notin {"idle", "unsent"}
    /\ includer.result = "ok" => stage # "unsent"
    /\ includer.result = "gas" => sent = Empty /\ stage = "unsent"
    /\ includer.result \in {None, "posting"} => includer.task = "held"
    /\ includer.task = "held" => includer.told = {}
    /\ "INSUFFICIENT_GAS" \in includer.told => includer.result = "gas"
    /\ includer.task = "acked" => \/ includer.result = "ok" \/ includer.told # {}
                                  \/ job.kind = "refund" /\ includer.result \in {"gas", "rpc"}

\* The kinds of a log; those of a payment for a call; those that are neither call nor payment.
Kinds == {"CALL", "MESSAGE_EXECUTED", "MESSAGE_APPROVED", "NATIVE_PAID", "NATIVE_ADDED", "JETTON_ADDED",
          "JETTON_PAID", "REFUNDED"}
Paid == {"NATIVE_PAID", "JETTON_PAID"}
Others == Kinds \ ({"CALL"} \cup Paid)

\* What a transaction, or the trace as a whole, gives when it is read.
ReadAs(tr, kind, i) == Entry(kind, i, Log(kind, tr[i]))
Refused(tr) == Entry("CANNOT_EXECUTE", 0, RelayerExecuteWrapped(tr[1].out_msgs[1].body))
Entries(tr) == {ReadAs(tr, kind, i) : kind \in Kinds, i \in DOMAIN tr} \cup {Refused(tr)}

\* Transaction i is one of the n - 1 scanned, as a log of this kind that could be read.
ScannedAs(tr, n, kind, i) == i \in 1 .. n - 1 /\ kind \in Matching(tr[i]) /\ Log(kind, tr[i]).ok

\* The collected calls are those of the scanned transactions, in their order.
CallsOK(tr, n, cs) ==
    /\ cs \in Seq(Entries(tr))
    /\ \A k \in DOMAIN cs : cs[k] = ReadAs(tr, "CALL", cs[k].tx) /\ ScannedAs(tr, n, "CALL", cs[k].tx)
    /\ \A i, j \in DOMAIN cs : i < j => cs[i].tx < cs[j].tx
    /\ \A i \in 1 .. n - 1 : "CALL" \in Matching(tr[i]) => \E k \in DOMAIN cs : cs[k].tx = i

\* A collected parser is the refusal of the whole trace, or a scanned transaction that was read.
ParserOK(tr, n, p) ==
    \/ p = Refused(tr) /\ IsExecuteInsufficientGas(tr) /\ p.log.ok
    \/ \E kind \in Others : p = ReadAs(tr, kind, p.tx) /\ ScannedAs(tr, n, kind, p.tx)

\* The collected parsers are those of the scanned transactions, in their order.
ParsersOK(tr, n, ps) ==
    /\ ps \in Seq(Entries(tr))
    /\ \A k \in DOMAIN ps : ParserOK(tr, n, ps[k])
    /\ \A i, j \in DOMAIN ps : i < j => ps[i].tx < ps[j].tx
    /\ \A i \in 1 .. n - 1 : Matching(tr[i]) \cap Others # {} => \E k \in DOMAIN ps : ps[k].tx = i
    /\ n > 0 /\ IsExecuteInsufficientGas(tr) => \E k \in DOMAIN ps : ps[k].tx = 0

\* A credit is a scanned payment under the key that was read of it.
CreditOK(tr, n, c) ==
    \E kind \in Paid : /\ c = [key |-> c.key, parser |-> ReadAs(tr, kind, c.parser.tx)]
                       /\ ScannedAs(tr, n, kind, c.parser.tx)
                       /\ c.key = Key(c.parser.log)

\* A key has one credit, and no payment is lost except to a later one with its key.
CreditsOK(tr, n, map) ==
    /\ \A c \in map : CreditOK(tr, n, c)
    /\ \A c, d \in map : c.key = d.key => c = d
    /\ \A i \in 1 .. n - 1 : \A kind \in Matching(tr[i]) \cap Paid :
          \E c \in map : c.key = Key(Log(kind, tr[i])) /\ c.parser.tx >= i

\* The events that are built of what was collected.
Built == FlattenSeq([i \in DOMAIN calls |-> CallEvents(i)]) \o [i \in DOMAIN parsers |-> OtherEvent(parsers[i])]

\* What was collected is what the scanned part of the trace holds.
ScanOK ==
    /\ Len(trace) \in Nat /\ DOMAIN trace = 1 .. Len(trace)
    /\ at \in 0 .. Len(trace) + 1
    /\ at = 0 => parsers = <<>> /\ calls = <<>> /\ credits = {}
    /\ stage \in {"recording", "done"} => at = Len(trace) + 1 /\ events = Built
    /\ CallsOK(trace, at, calls) /\ ParsersOK(trace, at, parsers) /\ CreditsOK(trace, at, credits)

\* ControlOK and IncluderOK hold at first.
LEMMA ControlInit == RelayInit => ControlOK /\ IncluderOK
<1> SUFFICES ASSUME RelayInit
             PROVE  ControlOK /\ IncluderOK
  OBVIOUS
<1>1. ControlOK
  BY DEF RelayInit, ParserInit, ControlOK, Stages, Parsed, Untouched
<1>2. /\ includer.result = None /\ includer.task = "held" /\ includer.told = {} /\ stage = "idle"
      /\ includer = [result |-> None, task |-> "held", told |-> {}]
  BY DEF RelayInit, ParserInit
<1>3. IncluderOK
  BY <1>2 DEF IncluderOK, None
<1> QED
  BY <1>1, <1>3

\* The includer's record after its result is settled.
LEMMA Settled ==
    ASSUME IncluderOK, NEW task \in {"acked", "republished"}, NEW told \in SUBSET {"INSUFFICIENT_GAS", "ERROR"},
           Settle(task, told)
    PROVE  /\ includer' \in [result : {None, "posting", "ok", "rpc", "gas", "error"},
                             task : {"held", "acked", "republished"}, told : SUBSET {"INSUFFICIENT_GAS", "ERROR"}]
           /\ includer'.result = includer.result /\ includer'.task = task /\ includer'.told = told
BY DEF IncluderOK, Settle

\* A blob without messages is refused.
LEMMA EmptyApprovalRefused ==
    ASSUME NEW ms \in Seq(Messages), ms = <<>>, ApproveMessages(ApprovalBlob(ms)).ok
    PROVE  ApproveMessages(ApprovalBlob(ms)).messages = <<>>
<1> DEFINE c == ApprovalBlob(ms)
<1>1. c.refs[2].refs = [i \in DOMAIN ms |-> Cell(Hash(ms[i]), Text(ms[i]) \o <<Cell(<<>>, Destination(ms[i]))>>)]
  BY DEF ApprovalBlob, Cell
<1>2. DOMAIN c.refs[2].refs = {}
  BY <1>1
<1> HIDE DEF c
<1>3. ApproveMessages(c).messages = [i \in DOMAIN c.refs[2].refs |-> parse_approve_messages(c.refs[2].refs[i])]
  <2> DEFINE read == [i \in DOMAIN c.refs[2].refs |-> parse_approve_messages(c.refs[2].refs[i])]
  <2>1. ApproveMessages(c) = Fails \/ ApproveMessages(c) = [ok |-> TRUE, messages |-> read]
    BY DEF ApproveMessages
  <2>2. ApproveMessages(c) # Fails
    BY DEF Fails, c
  <2> HIDE DEF read
  <2>3. ApproveMessages(c).messages = read
    BY <2>1, <2>2
  <2> QED
    BY <2>3 DEF read
<1> DEFINE read == [i \in DOMAIN c.refs[2].refs |-> parse_approve_messages(c.refs[2].refs[i])]
<1>4. read \in [1 .. 0 -> {}]
  BY <1>2
<1> HIDE DEF read
<1>5. read \in Seq({}) /\ Len(read) = 0
  BY <1>4
<1>6. read = <<>>
  BY <1>5, EmptySeq
<1> QED
  BY <1>3, <1>6 DEF c, read

\* A broadcast from the idle state sends the message for the job, or ends.
LEMMA BroadcastEnds ==
    ASSUME ControlOK, IncluderOK, stage = "idle", NEW how \in {"gas", "error"}, Ends(how),
           job'.kind \in Tasks
    PROVE  ControlOK' /\ IncluderOK'
BY DEF ControlOK, IncluderOK, Ends, Stages, Parsed, Untouched, Tasks

\* A message that is sent leaves both invariants true.
LEMMA BroadcastSends ==
    ASSUME ControlOK, IncluderOK, stage = "idle", JobOK(job'), job'.kind # "user", send_to_chain(ActionFor(job'))
    PROVE  ControlOK' /\ IncluderOK'
<1>1. sent' = ExtFor(job')
  BY DEF send_to_chain, ExtFor
<1>2. /\ stage' = "sent" /\ includer' = [includer EXCEPT !.result = "posting"]
      /\ UNCHANGED <<trace, at, parsers, calls, credits, events, recorded>>
  BY DEF send_to_chain
<1>3. ControlOK'
  BY <1>1, <1>2 DEF ControlOK, Stages, Parsed, Untouched
<1>4. IncluderOK'
  BY <1>2 DEF ControlOK, IncluderOK
<1> QED
  BY <1>3, <1>4

\* Every step of the relay keeps both, whatever the parser collects.
LEMMA ControlStep ==
    ASSUME ControlOK, IncluderOK, [RelayNext]_relayVars
    PROVE  ControlOK' /\ IncluderOK'
<1>1. CASE UNCHANGED relayVars
  BY <1>1 DEF relayVars, parserVars, ControlOK, IncluderOK, Untouched
<1>2. CASE UserTransacts
  <2>1. PICK n \in 1 .. MaxActs, acts \in [1 .. MaxActs -> Acts] :
           /\ job' = [kind |-> "user", acts |-> SubSeq(acts, 1, n)]
           /\ trace' = Hashed(UserTxs(SubSeq(acts, 1, n)))
    BY <1>2 DEF UserTransacts
  <2>2. SubSeq(acts, 1, n) \in Seq(Acts)
    BY RelayAssumption
  <2>3. JobOK(job') /\ job'.kind = "user" /\ job'.acts = SubSeq(acts, 1, n)
    BY <2>1, <2>2 DEF JobOK, Tasks
  <2>4. trace' = TraceFor(job')
    BY <2>1, <2>3 DEF TraceFor
  <2>5. /\ stage = "idle" /\ stage' = "parsing"
        /\ UNCHANGED <<at, parsers, calls, credits, events, recorded, sent, includer>>
    BY <1>2 DEF UserTransacts
  <2>6. ControlOK'
    BY <2>3, <2>4, <2>5 DEF ControlOK, Stages, Parsed
  <2> QED
    BY <2>3, <2>5, <2>6 DEF ControlOK, IncluderOK
<1>3. CASE ExecuteTask
  <2>1. PICK m \in Messages, gas \in Gas, outcome \in Outcomes :
           /\ job' = [kind |-> "execute", message |-> m, outcome |-> outcome]
           /\ broadcast_execute_message(m, gas)
    BY <1>3 DEF ExecuteTask
  <2>2. JobOK(job') /\ job'.kind = "execute" /\ job'.message = m /\ stage = "idle"
    BY <1>3, <2>1 DEF JobOK, Tasks, ExecuteTask
  <2>3. ActionFor(job') = OutAction(RelayerExecute(m, Wallet), execute_send(m.payload), Gateway)
    BY <2>2 DEF ActionFor
  <2>4. Ends("error") \/ Ends("gas") \/ send_to_chain(ActionFor(job'))
    BY <2>1, <2>3 DEF broadcast_execute_message
  <2> QED
    BY <2>2, <2>4, BroadcastEnds, BroadcastSends DEF Tasks
<1>4. CASE GatewayTxTask
  <2>1. PICK ms \in SeqOf(Messages, 3) :
           /\ job' = [kind |-> "approve", messages |-> ms]
           /\ broadcast_prover_message(ApprovalBlob(ms))
    BY <1>4 DEF GatewayTxTask
  <2>2. ms \in Seq(Messages)
    <3>1. PICK k \in 0 .. 3 : ms \in [1 .. k -> Messages]
      BY DEF SeqOf
    <3> QED
      BY <3>1
  <2>3. job'.kind = "approve" /\ job'.messages = ms /\ stage = "idle"
    BY <1>4, <2>1 DEF GatewayTxTask
  <2>4. ActionFor(job') = OutAction(ApprovalBlob(ms), approve_send, Gateway)
    BY <2>3 DEF ActionFor
  <2>5. CASE Ends("error")
    BY <2>3, <2>5, BroadcastEnds DEF Tasks
  <2>6. CASE ~ Ends("error")
    <3>1. /\ ApproveMessages(ApprovalBlob(ms)).ok
          /\ ApproveMessages(ApprovalBlob(ms)).messages # <<>>
          /\ send_to_chain(ActionFor(job'))
      BY <2>1, <2>4, <2>6 DEF broadcast_prover_message
    <3>2. ms # <<>>
      BY <2>2, <3>1, EmptyApprovalRefused
    <3>3. JobOK(job')
      BY <2>2, <2>3, <3>2 DEF JobOK, Tasks
    <3> QED
      BY <2>3, <3>1, <3>3, BroadcastSends
  <2> QED
    BY <2>5, <2>6
<1>5. CASE RefundTask
  <2>1. PICK gas \in Gas, token \in BOOLEAN :
           /\ job' = [kind |-> "refund", remaining |-> gas]
           /\ broadcast_refund_message(<<1>>, "user", gas, token)
    BY <1>5 DEF RefundTask
  <2>2. job'.kind = "refund" /\ job'.remaining = gas /\ stage = "idle"
    BY <1>5, <2>1 DEF RefundTask
  <2>3. ActionFor(job') = OutAction(NativeRefund(<<1>>, "user", gas - native_gas_refund_estimate),
                                    RefundDust, GasService)
    BY <2>2 DEF ActionFor
  <2>4. \/ Ends("error") \/ Ends("gas")
        \/ ~ (gas < native_gas_refund_estimate) /\ send_to_chain(ActionFor(job'))
    BY <2>1, <2>3 DEF broadcast_refund_message
  <2>5. gas \in Nat /\ native_gas_refund_estimate \in Nat
    BY RelayAssumption DEF native_gas_refund_estimate, EstimateFields
  <2>6. ~ (gas < native_gas_refund_estimate) => JobOK(job')
    BY <2>2, <2>5 DEF JobOK, Tasks
  <2> QED
    BY <2>2, <2>4, <2>6, BroadcastEnds, BroadcastSends DEF Tasks
<1>6. CASE PostAnswered
  <2>1. ControlOK'
    BY <1>6 DEF PostAnswered, ControlOK, IncluderOK, Stages, Parsed, Untouched
  <2>2. IncluderOK'
    BY <1>6 DEF PostAnswered, ControlOK, IncluderOK, Stages
  <2> QED
    BY <2>1, <2>2
<1>7. CASE ExecuteResult \/ GatewayTxResult \/ RefundResult
  <2>1. UNCHANGED <<parserVars, job, sent>>
    BY <1>7 DEF ExecuteResult, GatewayTxResult, RefundResult, Settle
  <2>2. ControlOK'
    <3>1. stage # "idle"
      BY <1>7 DEF ExecuteResult, GatewayTxResult, RefundResult, ResultOf, ControlOK, None
    <3> QED
      BY <2>1, <3>1 DEF ControlOK, Untouched, parserVars
  <2>3. IncluderOK'
    <3>1. PICK task \in {"acked", "republished"}, told \in SUBSET {"INSUFFICIENT_GAS", "ERROR"} :
             /\ Settle(task, told) /\ includer.result \in {"ok", "gas", "rpc", "error"}
             /\ "INSUFFICIENT_GAS" \in told => includer.result = "gas"
             /\ \/ task # "acked" \/ includer.result = "ok" \/ told # {}
                \/ job.kind = "refund" /\ includer.result \in {"gas", "rpc"}
      <4> DEFINE Right(task, told) ==
             /\ Settle(task, told) /\ includer.result \in {"ok", "gas", "rpc", "error"}
             /\ "INSUFFICIENT_GAS" \in told => includer.result = "gas"
             /\ \/ task # "acked" \/ includer.result = "ok" \/ told # {}
                \/ job.kind = "refund" /\ includer.result \in {"gas", "rpc"}
      <4>a. {"acked", "republished"} = {"acked", "republished"} /\ {} \in SUBSET {"INSUFFICIENT_GAS", "ERROR"}
            /\ {"INSUFFICIENT_GAS"} \in SUBSET {"INSUFFICIENT_GAS", "ERROR"}
            /\ {"ERROR"} \in SUBSET {"INSUFFICIENT_GAS", "ERROR"}
        OBVIOUS
      <4> SUFFICES \E task \in {"acked", "republished"}, told \in SUBSET {"INSUFFICIENT_GAS", "ERROR"} : Right(task, told)
        OBVIOUS
      <4>1. CASE ExecuteResult
        <5>1. \/ Right("acked", {}) \/ Right("republished", {}) \/ Right("acked", {"INSUFFICIENT_GAS"})
              \/ Right("republished", {"ERROR"})
          BY <4>1 DEF ExecuteResult, ResultOf
        <5> HIDE DEF Right
        <5> QED
          BY <5>1, <4>a, Zenon
      <4>2. CASE GatewayTxResult
        <5>1. \/ Right("acked", {}) \/ Right("acked", {"ERROR"}) \/ Right("republished", {})
          BY <4>2 DEF GatewayTxResult, ResultOf
        <5> HIDE DEF Right
        <5> QED
          BY <5>1, <4>a, Zenon
      <4>3. CASE RefundResult
        <5>1. Right("acked", {}) \/ Right("republished", {})
          BY <4>3 DEF RefundResult, ResultOf
        <5> HIDE DEF Right
        <5> QED
          BY <5>1, <4>a, Zenon
      <4> QED
        BY <1>7, <4>1, <4>2, <4>3
    <3>2. /\ includer' \in [result : {None, "posting", "ok", "rpc", "gas", "error"},
                            task : {"held", "acked", "republished"}, told : SUBSET {"INSUFFICIENT_GAS", "ERROR"}]
          /\ includer'.result = includer.result /\ includer'.task = task /\ includer'.told = told
      BY <3>1, Settled
    <3>3. UNCHANGED <<stage, job, sent>>
      BY <2>1 DEF parserVars
    <3> QED
      BY <3>1, <3>2, <3>3 DEF IncluderOK, None
  <2> QED
    BY <2>2, <2>3
<1>8. CASE ChainRuns
  <2>1. /\ stage = "sent" /\ stage' = "parsing"
        /\ UNCHANGED <<at, parsers, calls, credits, events, recorded, job, sent, includer>>
    BY <1>8 DEF ChainRuns
  <2>2. JobOK(job) /\ job.kind \in Tasks /\ sent = ExtFor(job)
    BY <2>1 DEF ControlOK, JobOK, Parsed
  <2>3. trace' = TraceFor(job)
    BY <1>8, <2>2 DEF ChainRuns, TraceFor, Tasks
  <2>4. ControlOK'
    BY <2>1, <2>2, <2>3 DEF ControlOK, Stages, Parsed, Tasks
  <2> QED
    BY <2>1, <2>4 DEF IncluderOK
<1>9. CASE ParserStep /\ UNCHANGED <<job, sent, includer>>
  <2>1. /\ stage \in {"parsing", "recording"} /\ stage' \in Parsed
        /\ UNCHANGED <<trace, job, sent, includer>>
    BY <1>9 DEF ParserStep, ScanTrace, ScanTransaction, BuildEvents, UpdateEvents, Abandon, Parsed
  <2>2. ControlOK'
    BY <2>1 DEF ControlOK, Stages, Parsed
  <2> QED
    BY <2>1, <2>2 DEF IncluderOK, Parsed
<1> QED
  BY <1>1, <1>2, <1>3, <1>4, <1>5, <1>6, <1>7, <1>8, <1>9 DEF RelayNext

----------------------------------------------------------------------------
(* The parsers and what they match. *)

\* The parsers' kinds, by their place in the order they are tried.
KindAt == <<"CALL", "MESSAGE_EXECUTED", "MESSAGE_APPROVED", "NATIVE_PAID", "NATIVE_ADDED", "JETTON_ADDED",
            "JETTON_PAID", "REFUNDED">>

\* A transaction is matched as the first kind whose parser takes it.
LEMMA MatchingAt ==
    ASSUME NEW tx
    PROVE  Matching(tx) = {KindAt[k] : k \in {k \in 1 .. 8 : /\ Parsers(tx)[k].match
                                                            /\ \A j \in 1 .. k - 1 : ~Parsers(tx)[j].match}}
<1>1. \A k \in 1 .. 8 : Parsers(tx)[k].kind = KindAt[k]
  BY DEF Parsers, KindAt
<1> QED
  BY <1>1 DEF Matching

\* No kind is tried twice.
LEMMA KindsDiffer == \A j, k \in 1 .. 8 : KindAt[j] = KindAt[k] => j = k
BY DEF KindAt

\* A transaction is matched as one kind.
LEMMA MatchingOne ==
    ASSUME NEW tx, NEW a \in Matching(tx), NEW b \in Matching(tx)
    PROVE  a = b
<1>1. PICK j \in 1 .. 8 : a = KindAt[j] /\ Parsers(tx)[j].match /\ \A i \in 1 .. j - 1 : ~Parsers(tx)[i].match
  BY MatchingAt
<1>2. PICK k \in 1 .. 8 : b = KindAt[k] /\ Parsers(tx)[k].match /\ \A i \in 1 .. k - 1 : ~Parsers(tx)[i].match
  BY MatchingAt
<1>3. ~ (j < k) /\ ~ (k < j)
  BY <1>1, <1>2
<1> QED
  BY <1>1, <1>2, <1>3

\* A transaction is matched as a kind.
LEMMA MatchingKinds == ASSUME NEW tx PROVE Matching(tx) \subseteq Kinds
<1>1. \A k \in 1 .. 8 : KindAt[k] \in Kinds
  BY DEF KindAt, Kinds
<1> QED
  BY <1>1, MatchingAt

\* What a matched kind says of the transaction.
LEMMA MatchingMeans ==
    ASSUME NEW tx
    PROVE  /\ "CALL" \in Matching(tx) <=> IsCallContract(tx)
           /\ "MESSAGE_EXECUTED" \in Matching(tx) => IsMessageExecuted(tx)
           /\ "MESSAGE_APPROVED" \in Matching(tx) => IsMessageApproved(tx)
           /\ "NATIVE_PAID" \in Matching(tx) => IsNativeGasPaid(tx)
           /\ "NATIVE_ADDED" \in Matching(tx) => IsNativeGasAdded(tx)
           /\ "JETTON_ADDED" \in Matching(tx) => IsJettonGasAdded(tx)
           /\ "JETTON_PAID" \in Matching(tx) => IsJettonGasPaid(tx)
           /\ "REFUNDED" \in Matching(tx) => IsNativeGasRefunded(tx)
<1> DEFINE M(k) == Parsers(tx)[k].match
<1>1. /\ M(1) <=> IsCallContract(tx)
      /\ M(2) <=> IsMessageExecuted(tx)
      /\ M(3) <=> IsMessageApproved(tx)
      /\ M(4) <=> IsNativeGasPaid(tx)
      /\ M(5) <=> IsNativeGasAdded(tx)
      /\ M(6) <=> IsJettonGasAdded(tx)
      /\ M(7) <=> IsJettonGasPaid(tx)
      /\ M(8) <=> IsNativeGasRefunded(tx)
  BY DEF Parsers
<1>2. \A k \in 1 .. 8 : KindAt[k] \in Matching(tx) <=> M(k) /\ \A j \in 1 .. k - 1 : ~M(j)
  BY MatchingAt, KindsDiffer
<1> HIDE DEF M
<1>3. \A k \in 1 .. 8 : KindAt[k] \in Matching(tx) => M(k)
  BY <1>2
<1>4. KindAt[1] \in Matching(tx) <=> M(1)
  BY <1>2
<1>5. /\ KindAt[1] = "CALL" /\ KindAt[2] = "MESSAGE_EXECUTED" /\ KindAt[3] = "MESSAGE_APPROVED"
      /\ KindAt[4] = "NATIVE_PAID" /\ KindAt[5] = "NATIVE_ADDED" /\ KindAt[6] = "JETTON_ADDED"
      /\ KindAt[7] = "JETTON_PAID" /\ KindAt[8] = "REFUNDED"
  BY DEF KindAt
<1> QED
  BY <1>1, <1>3, <1>4, <1>5

\* Any parser that takes a transaction leaves it matched.
LEMMA MatchedBySome ==
    ASSUME NEW tx
    PROVE  /\ IsMessageExecuted(tx) => Matching(tx) # {}
           /\ IsMessageApproved(tx) => Matching(tx) # {}
           /\ IsNativeGasPaid(tx) => Matching(tx) # {}
           /\ IsJettonGasPaid(tx) => Matching(tx) # {}
           /\ IsNativeGasRefunded(tx) => Matching(tx) # {}
<1> DEFINE M(k) == Parsers(tx)[k].match
<1>1. /\ M(2) <=> IsMessageExecuted(tx)
      /\ M(3) <=> IsMessageApproved(tx)
      /\ M(4) <=> IsNativeGasPaid(tx)
      /\ M(7) <=> IsJettonGasPaid(tx)
      /\ M(8) <=> IsNativeGasRefunded(tx)
  BY DEF Parsers
<1>2. \A k \in 1 .. 8 : M(k) /\ (\A j \in 1 .. k - 1 : ~M(j)) => KindAt[k] \in Matching(tx)
  BY MatchingAt
<1> HIDE DEF M
<1>3. M(1) \/ M(2) \/ M(3) \/ M(4) \/ M(5) \/ M(6) \/ M(7) \/ M(8) => Matching(tx) # {}
  BY <1>2
<1> QED
  BY <1>1, <1>3

----------------------------------------------------------------------------
(* One transaction more is scanned. *)

\* The events are made of the collected parsers and of the trace.
LEMMA BuiltOf ==
    ASSUME UNCHANGED <<trace, parsers, calls, credits>>
    PROVE  Built' = Built
BY DEF Built, CallEvents, CallEvent, OtherEvent, ApprovedEvent, ExecutedEvent, RefundedEvent, ApprovedCount

\* A kind is a call, a payment or another.
LEMMA KindsApart ==
    ASSUME NEW kind \in Kinds
    PROVE  \/ kind = "CALL" /\ kind \notin Paid /\ kind \notin Others
           \/ kind # "CALL" /\ kind \in Paid /\ kind \notin Others
           \/ kind # "CALL" /\ kind \notin Paid /\ kind \in Others
BY DEF Kinds, Paid, Others

\* The fields of an entry.
LEMMA EntryIs ==
    ASSUME NEW kind, NEW i, NEW log
    PROVE  Entry(kind, i, log).kind = kind /\ Entry(kind, i, log).tx = i /\ Entry(kind, i, log).log = log
BY DEF Entry

\* What is scanned stays scanned.
LEMMA ScannedStays ==
    ASSUME NEW tr, NEW n \in Nat, NEW kind, NEW i, ScannedAs(tr, n, kind, i)
    PROVE  ScannedAs(tr, n + 1, kind, i)
BY DEF ScannedAs

\* A transaction is scanned that is no call.
LEMMA CallsKeep ==
    ASSUME NEW tr, NEW n \in Nat, NEW cs, CallsOK(tr, n, cs), n = 0 \/ "CALL" \notin Matching(tr[n])
    PROVE  CallsOK(tr, n + 1, cs)
<1>1. \A k \in DOMAIN cs : ScannedAs(tr, n + 1, "CALL", cs[k].tx)
  BY ScannedStays DEF CallsOK
<1>2. \A i \in 1 .. (n + 1) - 1 : i \in 1 .. n - 1 \/ (i = n /\ n # 0)
  OBVIOUS
<1> QED
  BY <1>1, <1>2 DEF CallsOK

\* A call is scanned.
LEMMA CallsGrow ==
    ASSUME NEW tr, NEW n \in Nat, n \in DOMAIN tr, n >= 1, NEW cs, CallsOK(tr, n, cs),
           "CALL" \in Matching(tr[n]), Log("CALL", tr[n]).ok
    PROVE  CallsOK(tr, n + 1, Append(cs, ReadAs(tr, "CALL", n)))
<1> DEFINE e == ReadAs(tr, "CALL", n)
           l == Len(cs)
           ds == Append(cs, e)
<1>1. e \in Entries(tr) /\ e.tx = n
  BY EntryIs DEF Entries, ReadAs, Kinds
<1>2. cs \in Seq(Entries(tr)) /\ l \in Nat /\ DOMAIN cs = 1 .. l
  BY DEF CallsOK
<1> HIDE DEF e
<1>3. /\ ds \in Seq(Entries(tr)) /\ DOMAIN ds = 1 .. l + 1 /\ ds[l + 1] = e
      /\ \A k \in 1 .. l : ds[k] = cs[k]
  BY <1>1, <1>2
<1> HIDE DEF l, ds
<1>4. \A k \in 1 .. l + 1 : k \in 1 .. l \/ k = l + 1
  BY <1>2
<1>5. ScannedAs(tr, n + 1, "CALL", n)
  BY DEF ScannedAs
<1>6. \A k \in DOMAIN ds : ds[k] = ReadAs(tr, "CALL", ds[k].tx) /\ ScannedAs(tr, n + 1, "CALL", ds[k].tx)
  <2> SUFFICES ASSUME NEW k \in 1 .. l + 1
               PROVE  ds[k] = ReadAs(tr, "CALL", ds[k].tx) /\ ScannedAs(tr, n + 1, "CALL", ds[k].tx)
    BY <1>3
  <2>1. CASE k \in 1 .. l
    <3>1. cs[k] = ReadAs(tr, "CALL", cs[k].tx) /\ ScannedAs(tr, n, "CALL", cs[k].tx)
      BY <1>2, <2>1 DEF CallsOK
    <3> QED
      BY <1>3, <2>1, <3>1, ScannedStays
  <2>2. CASE k = l + 1
    BY <1>1, <1>3, <1>5, <2>2 DEF e
  <2> QED
    BY <1>4, <2>1, <2>2
<1>7. \A i, j \in DOMAIN ds : i < j => ds[i].tx < ds[j].tx
  <2>1. \A k \in 1 .. l : cs[k].tx \in 1 .. n - 1
    BY <1>2 DEF CallsOK, ScannedAs
  <2>2. \A i, j \in 1 .. l : i < j => cs[i].tx < cs[j].tx
    BY <1>2 DEF CallsOK
  <2> QED
    BY <1>1, <1>2, <1>3, <1>4, <2>1, <2>2
<1>8. \A i \in 1 .. (n + 1) - 1 : "CALL" \in Matching(tr[i]) => \E k \in DOMAIN ds : ds[k].tx = i
  <2> SUFFICES ASSUME NEW i \in 1 .. n, "CALL" \in Matching(tr[i])
               PROVE  \E k \in 1 .. l + 1 : ds[k].tx = i
    BY <1>3
  <2>1. CASE i = n
    BY <1>1, <1>2, <1>3, <2>1
  <2>2. CASE i # n
    <3>1. i \in 1 .. n - 1
      BY <2>2
    <3>2. PICK k \in 1 .. l : cs[k].tx = i
      BY <1>2, <3>1 DEF CallsOK
    <3> QED
      BY <1>2, <1>3, <3>2
  <2> QED
    BY <2>1, <2>2
<1> QED
  BY <1>3, <1>6, <1>7, <1>8 DEF CallsOK, ds, e

\* A collected parser stays one, and points into the scanned part.
LEMMA ParserStays ==
    ASSUME NEW tr, NEW n \in Nat, NEW p, ParserOK(tr, n, p)
    PROVE  ParserOK(tr, n + 1, p) /\ p.tx \in 0 .. n - 1 \cup {0}
<1>1. ParserOK(tr, n + 1, p)
  BY ScannedStays DEF ParserOK
<1>2. Refused(tr).tx = 0
  BY EntryIs DEF Refused
<1>3. \A kind, i : ScannedAs(tr, n, kind, i) => i \in 0 .. n - 1
  BY DEF ScannedAs
<1> QED
  BY <1>1, <1>2, <1>3 DEF ParserOK

\* A transaction that adds no parser keeps the parsers.
LEMMA ParsersKeep ==
    ASSUME NEW tr, NEW n \in Nat, NEW ps, ParsersOK(tr, n, ps),
           IF n = 0 THEN ~IsExecuteInsufficientGas(tr) ELSE Matching(tr[n]) \cap Others = {}
    PROVE  ParsersOK(tr, n + 1, ps)
<1>1. \A k \in DOMAIN ps : ParserOK(tr, n + 1, ps[k])
  BY ParserStays DEF ParsersOK
<1>2. \A i \in 1 .. (n + 1) - 1 : i \in 1 .. n - 1 \/ (i = n /\ n # 0)
  OBVIOUS
<1> QED
  BY <1>1, <1>2 DEF ParsersOK

\* A parser e of transaction n, or of the whole trace, joins the others.
LEMMA ParsersGrow ==
    ASSUME NEW tr, NEW n \in Nat, NEW ps, ParsersOK(tr, n, ps), n = 0 => ps = <<>>,
           NEW e \in Entries(tr), e.tx = n, ParserOK(tr, n + 1, e)
    PROVE  ParsersOK(tr, n + 1, Append(ps, e))
<1> DEFINE l == Len(ps)
           ds == Append(ps, e)
<1>2. ps \in Seq(Entries(tr)) /\ l \in Nat /\ DOMAIN ps = 1 .. l /\ (n = 0 => l = 0)
  BY DEF ParsersOK
<1>3. /\ ds \in Seq(Entries(tr)) /\ DOMAIN ds = 1 .. l + 1 /\ ds[l + 1] = e
      /\ \A k \in 1 .. l : ds[k] = ps[k]
  BY <1>2
<1> HIDE DEF l, ds
<1>4. \A k \in 1 .. l + 1 : k \in 1 .. l \/ k = l + 1
  BY <1>2
<1>5. ASSUME NEW k \in 1 .. l PROVE ParserOK(tr, n + 1, ps[k]) /\ ps[k].tx \in 0 .. n - 1
  <2>1. n # 0
    BY <1>2
  <2>2. ParserOK(tr, n, ps[k])
    BY <1>2 DEF ParsersOK
  <2>3. ParserOK(tr, n + 1, ps[k]) /\ ps[k].tx \in 0 .. n - 1 \cup {0}
    BY <2>2, ParserStays
  <2>4. 0 \in 0 .. n - 1
    BY <2>1
  <2> QED
    BY <2>3, <2>4
<1>6. \A k \in DOMAIN ds : ParserOK(tr, n + 1, ds[k])
  BY <1>3, <1>4, <1>5
<1>7. \A i, j \in DOMAIN ds : i < j => ds[i].tx < ds[j].tx
  <2>2. \A i, j \in 1 .. l : i < j => ps[i].tx < ps[j].tx
    BY <1>2 DEF ParsersOK
  <2> QED
    BY <1>2, <1>3, <1>4, <1>5, <2>2
<1>8. \A i \in 1 .. (n + 1) - 1 : Matching(tr[i]) \cap Others # {} => \E k \in DOMAIN ds : ds[k].tx = i
  <2> SUFFICES ASSUME NEW i \in 1 .. n, Matching(tr[i]) \cap Others # {}
               PROVE  \E k \in 1 .. l + 1 : ds[k].tx = i
    BY <1>3
  <2>1. CASE i = n
    BY <1>2, <1>3, <2>1
  <2>2. CASE i # n
    <3>1. i \in 1 .. n - 1
      BY <2>2
    <3>2. PICK k \in 1 .. l : ps[k].tx = i
      BY <1>2, <3>1 DEF ParsersOK
    <3> QED
      BY <1>2, <1>3, <3>2
  <2> QED
    BY <2>1, <2>2
<1>9. ASSUME IsExecuteInsufficientGas(tr) PROVE \E k \in DOMAIN ds : ds[k].tx = 0
  <2>1. CASE n = 0
    BY <1>2, <1>3, <2>1
  <2>2. CASE n # 0
    <3>1. PICK k \in 1 .. l : ps[k].tx = 0
      BY <1>2, <1>9, <2>2 DEF ParsersOK
    <3> QED
      BY <1>2, <1>3, <3>1
  <2> QED
    BY <2>1, <2>2
<1> QED
  BY <1>3, <1>6, <1>7, <1>8, <1>9 DEF ParsersOK, ds

\* A credit stays one.
LEMMA CreditStays ==
    ASSUME NEW tr, NEW n \in Nat, NEW c, CreditOK(tr, n, c)
    PROVE  CreditOK(tr, n + 1, c) /\ c.parser.tx \in 1 .. n - 1
<1>1. \A kind, i : ScannedAs(tr, n, kind, i) => ScannedAs(tr, n + 1, kind, i) /\ i \in 1 .. n - 1
  BY ScannedStays DEF ScannedAs
<1> QED
  BY <1>1 DEF CreditOK

\* A transaction that is no payment keeps the credits.
LEMMA CreditsKeep ==
    ASSUME NEW tr, NEW n \in Nat, NEW map, CreditsOK(tr, n, map), n = 0 \/ Matching(tr[n]) \cap Paid = {}
    PROVE  CreditsOK(tr, n + 1, map)
<1>1. \A c \in map : CreditOK(tr, n + 1, c)
  BY CreditStays DEF CreditsOK
<1>2. \A i \in 1 .. (n + 1) - 1 : i \in 1 .. n - 1 \/ (i = n /\ n # 0)
  OBVIOUS
<1> QED
  BY <1>1, <1>2 DEF CreditsOK

\* A payment is scanned; it takes the place of an earlier one with its key.
LEMMA CreditsGrow ==
    ASSUME NEW tr, NEW n \in Nat, n >= 1, NEW map, CreditsOK(tr, n, map),
           NEW kind \in Matching(tr[n]) \cap Paid, Log(kind, tr[n]).ok
    PROVE  CreditsOK(tr, n + 1, InsertCredit(map, Key(Log(kind, tr[n])), ReadAs(tr, kind, n)))
<1> DEFINE e == ReadAs(tr, kind, n)
           key == Key(Log(kind, tr[n]))
           new == [key |-> key, parser |-> e]
           map2 == InsertCredit(map, key, e)
<1>1. e.tx = n /\ e.log = Log(kind, tr[n])
  BY EntryIs DEF ReadAs
<1>2. ScannedAs(tr, n + 1, kind, n)
  BY DEF ScannedAs
<1>3. CreditOK(tr, n + 1, new) /\ new.key = key /\ new.parser.tx = n
  <2>1. new.key = key /\ new.parser = e
    OBVIOUS
  <2> HIDE DEF new
  <2>2. new = [key |-> new.key, parser |-> ReadAs(tr, kind, new.parser.tx)]
    BY <1>1, <2>1 DEF new
  <2> QED
    BY <1>1, <1>2, <2>1, <2>2 DEF CreditOK
<1> HIDE DEF e, new
<1>4. \A c : c \in map2 <=> (c \in map /\ c.key # key) \/ c = new
  BY DEF InsertCredit, new
<1> HIDE DEF map2, key
<1>5. \A c \in map2 : CreditOK(tr, n + 1, c)
  BY <1>3, <1>4, CreditStays DEF CreditsOK
<1>6. \A c, d \in map2 : c.key = d.key => c = d
  BY <1>3, <1>4 DEF CreditsOK
<1>7. ASSUME NEW i \in 1 .. (n + 1) - 1, NEW k \in Matching(tr[i]) \cap Paid
      PROVE  \E c \in map2 : c.key = Key(Log(k, tr[i])) /\ c.parser.tx >= i
  <2>1. CASE i = n
    <3>1. k = kind
      BY <2>1, MatchingOne
    <3> QED
      BY <1>3, <1>4, <2>1, <3>1 DEF key
  <2>2. CASE i # n
    <3>1. i \in 1 .. n - 1
      BY <2>2
    <3>2. PICK c \in map : c.key = Key(Log(k, tr[i])) /\ c.parser.tx >= i
      BY <3>1 DEF CreditsOK
    <3>3. CASE c.key = key
      BY <1>3, <1>4, <3>1, <3>2, <3>3
    <3>4. CASE c.key # key
      BY <1>4, <3>2, <3>4
    <3> QED
      BY <3>3, <3>4
  <2> QED
    BY <2>1, <2>2
<1>8. CreditsOK(tr, n + 1, map2)
  BY <1>5, <1>6, <1>7 DEF CreditsOK
<1> QED
  BY <1>8 DEF map2, key, e

----------------------------------------------------------------------------
(* Lists, and the transactions of a trace in their places. *)

\* s is a sequence of n elements.
Listed(s, n) == n \in Nat /\ s = [i \in 1 .. n |-> s[i]]

\* Concatenation, as the lemmas about lists name it.
Joined(s, t) == s \o t

\* The length, the domain and the type of a list.
LEMMA ListedIs ==
    ASSUME NEW s, NEW n, Listed(s, n)
    PROVE  Len(s) = n /\ DOMAIN s = 1 .. n /\ n \in Nat /\ s \in Seq({s[i] : i \in 1 .. n})
<1>1. n \in Nat /\ DOMAIN s = 1 .. n /\ s = [i \in 1 .. n |-> s[i]]
  BY DEF Listed
<1>2. s \in [1 .. n -> {s[i] : i \in 1 .. n}]
  BY <1>1
<1>3. s \in Seq({s[i] : i \in 1 .. n})
  BY <1>1, <1>2
<1> QED
  BY <1>1, <1>2, <1>3

\* A tuple is a list.
LEMMA ListedTuples ==
    ASSUME NEW a, NEW b, NEW c, NEW d
    PROVE  /\ Listed(<<>>, 0) /\ Listed(<<a>>, 1) /\ Listed(<<a, b>>, 2) /\ Listed(<<a, b, c>>, 3)
           /\ Listed(<<a, b, c, d>>, 4)
BY DEF Listed

\* A sequence is a list.
LEMMA ListedSeq ==
    ASSUME NEW X, NEW s \in Seq(X)
    PROVE  Listed(s, Len(s)) /\ DOMAIN s = 1 .. Len(s)
BY DEF Listed

\* A concatenation is a list.
LEMMA ConcatListed ==
    ASSUME NEW s, NEW t, NEW m, NEW n, Listed(s, m), Listed(t, n), NEW u, u = Joined(s, t)
    PROVE  Listed(u, m + n)
<1> DEFINE X == {s[i] : i \in 1 .. m} \cup {t[i] : i \in 1 .. n}
<1>0. /\ Len(s) = m /\ Len(t) = n /\ m \in Nat /\ n \in Nat
      /\ s \in Seq({s[i] : i \in 1 .. m}) /\ t \in Seq({t[i] : i \in 1 .. n})
  BY ListedIs
<1>1. Len(s) = m /\ Len(t) = n /\ m \in Nat /\ n \in Nat /\ s \in Seq(X) /\ t \in Seq(X)
  <2>1. s \in [1 .. m -> X] /\ t \in [1 .. n -> X]
    BY DEF Listed
  <2> QED
    BY <1>0, <2>1
<1> HIDE DEF X
<1>2. s \o t \in Seq(X) /\ Len(s \o t) = m + n
  BY <1>1, ConcatProperties
<1> QED
  BY <1>1, <1>2, ListedSeq DEF Joined

\* The first part of a concatenation.
LEMMA ConcatLeft ==
    ASSUME NEW s, NEW t, NEW m, NEW n, Listed(s, m), Listed(t, n), NEW u, u = Joined(s, t)
    PROVE  \A i \in 1 .. m : u[i] = s[i]
<1> DEFINE X == {s[i] : i \in 1 .. m} \cup {t[i] : i \in 1 .. n}
<1>0. /\ Len(s) = m /\ Len(t) = n /\ m \in Nat /\ n \in Nat
      /\ s \in Seq({s[i] : i \in 1 .. m}) /\ t \in Seq({t[i] : i \in 1 .. n})
  BY ListedIs
<1>1. Len(s) = m /\ Len(t) = n /\ m \in Nat /\ n \in Nat /\ s \in Seq(X) /\ t \in Seq(X)
  <2>1. s \in [1 .. m -> X] /\ t \in [1 .. n -> X]
    BY DEF Listed
  <2> QED
    BY <1>0, <2>1
<1> HIDE DEF X
<1> QED
  BY <1>1 DEF Joined

\* The second part of a concatenation.
LEMMA ConcatRight ==
    ASSUME NEW s, NEW t, NEW m, NEW n, Listed(s, m), Listed(t, n), NEW u, u = Joined(s, t)
    PROVE  \A i \in 1 .. n : u[m + i] = t[i]
<1> DEFINE X == {s[i] : i \in 1 .. m} \cup {t[i] : i \in 1 .. n}
<1>0. /\ Len(s) = m /\ Len(t) = n /\ m \in Nat /\ n \in Nat
      /\ s \in Seq({s[i] : i \in 1 .. m}) /\ t \in Seq({t[i] : i \in 1 .. n})
  BY ListedIs
<1>1. Len(s) = m /\ Len(t) = n /\ m \in Nat /\ n \in Nat /\ s \in Seq(X) /\ t \in Seq(X)
  <2>1. s \in [1 .. m -> X] /\ t \in [1 .. n -> X]
    BY DEF Listed
  <2> QED
    BY <1>0, <2>1
<1> HIDE DEF X
<1> QED
  BY <1>1 DEF Joined

\* A transaction in its place of the trace; h is the list of n transactions txs in their places.
Placed(tx, h) == [tx EXCEPT !.hash = h]
HashedIs(h, txs, n) == Listed(h, n) /\ \A i \in 1 .. n : h[i] = Placed(txs[i], i)

\* Hashed puts each transaction in its place.
LEMMA HashedShape ==
    ASSUME NEW txs, NEW n, Listed(txs, n)
    PROVE  HashedIs(Hashed(txs), txs, n)
<1>1. DOMAIN txs = 1 .. n /\ n \in Nat
  BY ListedIs
<1> QED
  BY <1>1 DEF Hashed, HashedIs, Listed, Placed

\* h is the trace of a, of b and of the n transactions t.
ChainIs(h, a, b, t, n) ==
    /\ Listed(h, 2 + n)
    /\ h[1] = Placed(a, 1)
    /\ h[2] = Placed(b, 2)
    /\ \A i \in 1 .. n : h[2 + i] = Placed(t[i], 2 + i)

\* The trace of two transactions and a list.
LEMMA ChainShape ==
    ASSUME NEW a, NEW b, NEW t, NEW n, Listed(t, n)
    PROVE  ChainIs(Hashed(<<a, b>> \o t), a, b, t, n)
<1>1. PICK s : s = <<a, b>>
  OBVIOUS
<1>2. PICK m : m = 2
  OBVIOUS
<1>3. PICK u : u = Joined(s, t)
  OBVIOUS
<1>4. PICK l : l = m + n
  OBVIOUS
<1>5. PICK h : h = Hashed(u)
  OBVIOUS
<1>6. Listed(s, m) /\ s[1] = a /\ s[2] = b
  BY <1>1, <1>2, ListedTuples
<1>7. n \in Nat
  BY ListedIs
<1>8. Listed(u, l)
  BY <1>3, <1>4, <1>6, ConcatListed
<1>9. u[1] = a /\ u[2] = b
  <2>1. \A i \in 1 .. m : u[i] = s[i]
    BY <1>3, <1>6, ConcatLeft
  <2>2. 1 \in 1 .. m /\ 2 \in 1 .. m
    BY <1>2
  <2> QED
    BY <1>6, <2>1, <2>2
<1>10. \A i \in 1 .. n : u[m + i] = t[i]
  BY <1>3, <1>6, ConcatRight
<1>11. HashedIs(h, u, l)
  BY <1>5, <1>8, HashedShape
<1>12. Listed(h, l) /\ \A i \in 1 .. l : h[i] = Placed(u[i], i)
  BY <1>11 DEF HashedIs
<1>13. 1 \in 1 .. l /\ 2 \in 1 .. l /\ \A i \in 1 .. n : 2 + i \in 1 .. l
  BY <1>2, <1>4, <1>7
<1>14. h[1] = Placed(a, 1) /\ h[2] = Placed(b, 2)
  BY <1>9, <1>12, <1>13
<1>15. ASSUME NEW i \in 1 .. n PROVE h[2 + i] = Placed(t[i], 2 + i)
  BY <1>2, <1>10, <1>12, <1>13
<1>16. ChainIs(h, a, b, t, n)
  BY <1>2, <1>4, <1>12, <1>14, <1>15 DEF ChainIs
<1> QED
  BY <1>1, <1>3, <1>5, <1>16 DEF Joined

----------------------------------------------------------------------------
(* The external message of a task, unwrapped. *)
LEMMA WalletShape ==
    ASSUME NEW body, NEW value, NEW dest, NEW ext,
           ext = outgoing_message(OutAction(body, value, dest), 0, highload_wallet_send(1), Wallet)
    PROVE  /\ WalletTxs(ext) = <<Tx(Wallet, None, ext,
                                    <<Out(Wallet, "INTERNAL_TRANSFER",
                                          internal_transfer_body(OutAction(body, value, dest), 0),
                                          highload_wallet_send(1))>>),
                                 Tx(Wallet, "INTERNAL_TRANSFER",
                                    internal_transfer_body(OutAction(body, value, dest), 0),
                                    <<Out(dest, Data(body, 1), body, value)>>)>>
           /\ Body(ext) = body
<1> DEFINE action == OutAction(body, value, dest)
           inner == internal_transfer_body(action, 0)
           transfer == internal_transfer_message_cell(inner, highload_wallet_send(1), Wallet)
<1>1. action.refs = <<body>> /\ Data(action, 1) = [dest |-> dest, value |-> value]
  BY DEF OutAction, Cell, Field, Data
<1> HIDE DEF action
<1>2. inner.refs = <<Cell(<<Field("mode", "IGNORE_ERRORS")>>, <<Cell(<<>>, <<>>), action>>)>>
  BY DEF internal_transfer_body, Cell
<1>3. inner.refs[1].refs[2] = action
  <2>1. Cell(<<Field("mode", "IGNORE_ERRORS")>>, <<Cell(<<>>, <<>>), action>>).refs = <<Cell(<<>>, <<>>), action>>
    BY DEF Cell
  <2> QED
    BY <1>2, <2>1
<1> HIDE DEF inner
<1>4. transfer.refs = <<inner>> /\ Data(transfer, 1) = [dest |-> Wallet, value |-> highload_wallet_send(1)]
  BY DEF internal_transfer_message_cell, OutAction, Cell, Field, Data
<1> HIDE DEF transfer
<1>5. ext.refs[1].refs[1].refs[1] = transfer
  <2> DEFINE signed == sign_external_body(message_inner(transfer, 0))
  <2>1. message_inner(transfer, 0).refs = <<transfer>>
    BY DEF message_inner, Cell
  <2>2. signed.refs = <<message_inner(transfer, 0)>>
    BY DEF sign_external_body, Cell
  <2> HIDE DEF signed
  <2>3. ext = wrap_signed_body(signed, Wallet)
    BY DEF outgoing_message, transfer, inner, action, signed
  <2>4. ext.refs = <<signed>>
    BY <2>3 DEF wrap_signed_body, Cell
  <2> QED
    BY <2>1, <2>2, <2>4
<1>6. WalletTxs(ext) = <<Tx(Wallet, None, ext, <<Out(Wallet, "INTERNAL_TRANSFER", inner, highload_wallet_send(1))>>),
                         Tx(Wallet, "INTERNAL_TRANSFER", inner, <<Out(dest, Data(body, 1), body, value)>>)>>
  <2>1. transfer.refs[1] = inner /\ Data(transfer, 1).value = highload_wallet_send(1)
    BY <1>4
  <2>2. action.refs[1] = body /\ Data(action, 1).dest = dest /\ Data(action, 1).value = value
    BY <1>1
  <2>3. /\ ext.refs[1].refs[1].refs[1].refs[1] = inner
        /\ ext.refs[1].refs[1].refs[1].refs[1].refs[1].refs[2] = action
        /\ Data(ext.refs[1].refs[1].refs[1], 1).value = highload_wallet_send(1)
    BY <1>3, <1>5, <2>1
  <2> QED
    BY <2>2, <2>3, Zenon DEF WalletTxs
<1>7. WalletTxs(ext)[2].out_msgs = <<Out(dest, Data(body, 1), body, value)>>
  BY <1>6 DEF Tx
<1>8. Out(dest, Data(body, 1), body, value).body = body
  BY DEF Out
<1>9. Body(ext) = body
  BY <1>7, <1>8 DEF Body
<1> QED
  BY <1>6, <1>9 DEF inner, action

----------------------------------------------------------------------------
(* The traces of the jobs. *)

\* tr is the trace of a user's n acts.
UserIs(tr, acts, n) ==
    /\ Listed(tr, 1 + n)
    /\ tr[1] = Placed(Tx("user", None, Empty, [i \in DOMAIN acts |-> Out(acts[i].account, acts[i].op, Empty, 3)]), 1)
    /\ \A i \in 1 .. n : tr[1 + i] = Placed(ActTx(acts[i]), 1 + i)

\* The trace of a user job.
LEMMA UserShape ==
    ASSUME NEW j, JobOK(j), j.kind = "user"
    PROVE  UserIs(TraceFor(j), j.acts, Len(j.acts))
<1>n. PICK n : n = Len(j.acts)
  OBVIOUS
<1>tr. PICK tr : tr = TraceFor(j)
  OBVIOUS
<1>1. PICK s : s = <<Tx("user", None, Empty, [i \in DOMAIN j.acts |-> Out(j.acts[i].account, j.acts[i].op, Empty, 3)])>>
  OBVIOUS
<1>2. PICK t : t = [i \in DOMAIN j.acts |-> ActTx(j.acts[i])]
  OBVIOUS
<1>3. PICK u : u = Joined(s, t)
  OBVIOUS
<1>4. PICK m : m = 1
  OBVIOUS
<1>5. j.acts \in Seq(Acts) /\ n \in Nat /\ DOMAIN j.acts = 1 .. n
  BY <1>n DEF JobOK
<1>6. Listed(s, m)
  BY <1>1, <1>4, ListedTuples
<1>7. Listed(t, n)
  BY <1>2, <1>5 DEF Listed
<1>8. Listed(u, m + n)
  BY <1>3, <1>6, <1>7, ConcatListed
<1>9. u[1] = s[1]
  BY <1>3, <1>4, <1>6, <1>7, ConcatLeft
<1>10. \A i \in 1 .. n : u[m + i] = t[i]
  BY <1>3, <1>6, <1>7, ConcatRight
<1>11. tr = Hashed(u)
  BY <1>tr, <1>1, <1>2, <1>3 DEF TraceFor, UserTxs, Joined
<1>12. PICK l : l = m + n
  OBVIOUS
<1>13. HashedIs(tr, u, l)
  BY <1>8, <1>11, <1>12, HashedShape
<1>14. Listed(tr, l) /\ \A i \in 1 .. l : tr[i] = Placed(u[i], i)
  BY <1>13 DEF HashedIs
<1>15. 1 \in 1 .. l /\ \A i \in 1 .. n : 1 + i \in 1 .. l
  BY <1>4, <1>5, <1>12
<1>16. tr[1] = Placed(s[1], 1) /\ \A i \in 1 .. n : tr[1 + i] = Placed(t[i], 1 + i)
  BY <1>4, <1>9, <1>10, <1>14, <1>15
<1>17. s[1] = Tx("user", None, Empty, [i \in DOMAIN j.acts |-> Out(j.acts[i].account, j.acts[i].op, Empty, 3)])
  BY <1>1
<1>18. \A i \in 1 .. n : t[i] = ActTx(j.acts[i])
  BY <1>2, <1>5
<1> QED
  BY <1>n, <1>tr, <1>4, <1>12, <1>14, <1>16, <1>17, <1>18 DEF UserIs

\* The two transactions of the wallet that come before those of the contracts.
First(ext, body) ==
    Tx(Wallet, None, ext, <<Out(Wallet, "INTERNAL_TRANSFER", body, highload_wallet_send(1))>>)
Second(body, dest, call, value) ==
    Tx(Wallet, "INTERNAL_TRANSFER", body, <<Out(dest, Data(call, 1), call, value)>>)

\* The trace of a task: the two transactions of the wallet, then those of the contracts.
LEMMA TaskShape ==
    ASSUME NEW call, NEW value, NEW dest, NEW ext,
           ext = outgoing_message(OutAction(call, value, dest), 0, highload_wallet_send(1), Wallet),
           NEW body, body = internal_transfer_body(OutAction(call, value, dest), 0),
           NEW t, NEW n, Listed(t, n)
    PROVE  ChainIs(Hashed(WalletTxs(ext) \o t), First(ext, body), Second(body, dest, call, value), t, n)
<1>1. WalletTxs(ext) = <<First(ext, body), Second(body, dest, call, value)>>
  BY WalletShape DEF First, Second
<1> QED
  BY <1>1, ChainShape

\* What is known of a transaction of a trace.
TxIs(t, account, op, body, out) ==
    t.account = account /\ t.op = op /\ t.body = body /\ t.out_msgs = out /\ t.total_fees = Fee

\* A transaction without an error, in its place.
LEMMA PlacedTx ==
    ASSUME NEW a, NEW op, NEW body, NEW out, NEW h
    PROVE  /\ TxIs(Placed(Tx(a, op, body, out), h), a, op, body, out)
           /\ Placed(Tx(a, op, body, out), h).hash = h
           /\ Placed(Tx(a, op, body, out), h).exit_code = 0 /\ Placed(Tx(a, op, body, out), h).result_code = 0
BY DEF Placed, TxIs, Tx

\* A transaction that fails in its compute phase, or in its action phase.
Exits(tx, code) == [tx EXCEPT !.exit_code = code]
Results(tx, code) == [tx EXCEPT !.result_code = code]

\* A transaction with an exit code or a result code, in its place.
LEMMA PlacedFailed ==
    ASSUME NEW a, NEW op, NEW body, NEW out, NEW h, NEW c
    PROVE  /\ TxIs(Placed(Exits(Tx(a, op, body, out), c), h), a, op, body, out)
           /\ Placed(Exits(Tx(a, op, body, out), c), h).exit_code = c
           /\ TxIs(Placed(Results(Tx(a, op, body, out), c), h), a, op, body, out)
           /\ Placed(Results(Tx(a, op, body, out), c), h).result_code = c
BY DEF Placed, TxIs, Tx, Exits, Results

\* The body of the transfer of the wallet to itself.
Transfer(call, value, dest) == internal_transfer_body(OutAction(call, value, dest), 0)

\* The wallet's two transactions of a task's trace, and the n of the contracts.
WalletIs(tr, ext, call, value, dest) ==
    /\ TxIs(tr[1], Wallet, None, ext,
            <<Out(Wallet, "INTERNAL_TRANSFER", Transfer(call, value, dest), highload_wallet_send(1))>>)
    /\ TxIs(tr[2], Wallet, "INTERNAL_TRANSFER", Transfer(call, value, dest), <<Out(dest, Data(call, 1), call, value)>>)

\* tr is the trace of a task whose contracts make the n transactions t.
TaskIs(tr, ext, call, value, dest, t, n) ==
    /\ Listed(tr, 2 + n) /\ n \in Nat
    /\ WalletIs(tr, ext, call, value, dest)
    /\ \A i \in 1 .. n : tr[2 + i] = Placed(t[i], 2 + i)

\* The trace of a task, by its parts.
LEMMA TaskTrace ==
    ASSUME NEW call, NEW value, NEW dest, NEW ext,
           ext = outgoing_message(OutAction(call, value, dest), 0, highload_wallet_send(1), Wallet),
           NEW t, NEW n, Listed(t, n)
    PROVE  TaskIs(Hashed(WalletTxs(ext) \o t), ext, call, value, dest, t, n)
<1> DEFINE a == First(ext, Transfer(call, value, dest))
           b == Second(Transfer(call, value, dest), dest, call, value)
<1>1. PICK tr : tr = Hashed(WalletTxs(ext) \o t)
  OBVIOUS
<1>2. ChainIs(tr, a, b, t, n)
  BY <1>1, TaskShape DEF Transfer
<1> HIDE DEF a, b
<1>3. /\ Listed(tr, 2 + n) /\ tr[1] = Placed(a, 1) /\ tr[2] = Placed(b, 2)
      /\ \A i \in 1 .. n : tr[2 + i] = Placed(t[i], 2 + i)
  BY <1>2 DEF ChainIs
<1>4. WalletIs(tr, ext, call, value, dest)
  BY <1>3, PlacedTx DEF a, b, First, Second, WalletIs
<1>5. n \in Nat
  BY ListedIs
<1>6. TaskIs(tr, ext, call, value, dest, t, n)
  BY <1>3, <1>4, <1>5 DEF TaskIs
<1> QED
  BY <1>1, <1>6

\* The transactions of the contracts, when they are few.
FewIs(tr, t, n) ==
    /\ Listed(tr, Len(tr)) /\ Len(tr) = 2 + n
    /\ n >= 1 => tr[3] = Placed(t[1], 3)
    /\ n >= 2 => tr[4] = Placed(t[2], 4)
    /\ n >= 3 => tr[5] = Placed(t[3], 5)
    /\ n >= 4 => tr[6] = Placed(t[4], 6)

\* The places of at most four transactions after those of the wallet.
LEMMA Places ==
    ASSUME NEW tr, NEW ext, NEW call, NEW value, NEW dest, NEW t, NEW n \in 0 .. 4,
           TaskIs(tr, ext, call, value, dest, t, n)
    PROVE  FewIs(tr, t, n)
<1>1. Listed(tr, 2 + n) /\ \A i \in 1 .. n : tr[2 + i] = Placed(t[i], 2 + i)
  BY DEF TaskIs
<1>2. PICK l : l = 2 + n
  OBVIOUS
<1>3. Listed(tr, l)
  BY <1>1, <1>2
<1>4. Len(tr) = l
  BY <1>3, ListedIs
<1> QED
  BY <1>1, <1>2, <1>3, <1>4 DEF FewIs

\* The parts of the messages of an execution.
Nullified(call) == Cell(<<Field("op", "NULLIFIED_SUCCESSFULLY")>>, call.refs[1].refs)
Execute == Out("app", "GATEWAY_EXECUTE", Empty, 4)
Asked == <<Out("approval", "NULLIFY_IF_APPROVED", Empty, 9)>>

\* What the contracts do with an execution, by its outcome.
ExecuteIs(tr, call, outcome) ==
    /\ outcome = "short" =>
          /\ Len(tr) = 4
          /\ TxIs(tr[3], Gateway, "RELAYER_EXECUTE", call, <<Out(Wallet, None, Empty, 6)>>) /\ tr[3].exit_code = 106
          /\ TxIs(tr[4], Wallet, None, Empty, <<>>)
    /\ outcome # "short" =>
          TxIs(tr[3], Gateway, "RELAYER_EXECUTE", call, Asked) /\ tr[3].exit_code = 0
    /\ outcome = "unapproved" =>
          /\ Len(tr) = 5
          /\ TxIs(tr[4], "approval", "NULLIFY_IF_APPROVED", Empty, <<Out(Gateway, None, Empty, 5)>>)
          /\ TxIs(tr[5], Gateway, None, Empty, <<>>)
    /\ outcome \in {"action", "executed", "executed_log_last"} =>
          TxIs(tr[4], "approval", "NULLIFY_IF_APPROVED", Empty,
               <<Out(Gateway, "NULLIFIED_SUCCESSFULLY", Nullified(call), 5)>>)
    /\ outcome = "action" =>
          /\ Len(tr) = 5
          /\ TxIs(tr[5], Gateway, "NULLIFIED_SUCCESSFULLY", Nullified(call), <<>>) /\ tr[5].result_code = 37
    /\ outcome = "executed" =>
          /\ Len(tr) = 6
          /\ TxIs(tr[5], Gateway, "NULLIFIED_SUCCESSFULLY", Nullified(call), <<LogOut(Empty), Execute>>)
          /\ TxIs(tr[6], "app", "GATEWAY_EXECUTE", Empty, <<>>)
    /\ outcome = "executed_log_last" =>
          /\ Len(tr) = 6
          /\ TxIs(tr[5], Gateway, "NULLIFIED_SUCCESSFULLY", Nullified(call), <<Execute, LogOut(Empty)>>)
          /\ TxIs(tr[6], "app", "GATEWAY_EXECUTE", Empty, <<>>)

\* tr is the trace of execution j.
ExecuteTraceIs(tr, j) ==
    /\ Listed(tr, Len(tr))
    /\ WalletIs(tr, ExtFor(j), RelayerExecute(j.message, Wallet), execute_send(j.message.payload), Gateway)
    /\ ExecuteIs(tr, RelayerExecute(j.message, Wallet), j.outcome)

\* The trace of an execution.
LEMMA ExecuteShape ==
    ASSUME NEW j, JobOK(j), j.kind = "execute"
    PROVE  ExecuteTraceIs(TraceFor(j), j)
<1>1. PICK call : call = RelayerExecute(j.message, Wallet)
  OBVIOUS
<1>2. PICK value : value = execute_send(j.message.payload)
  OBVIOUS
<1>3. PICK ext : ext = outgoing_message(OutAction(call, value, Gateway), 0, highload_wallet_send(1), Wallet)
  OBVIOUS
<1>4. PICK o : o = j.outcome
  OBVIOUS
<1>5. PICK t : t = ExecuteTxs(call, o)
  OBVIOUS
<1>6. PICK tr : tr = TraceFor(j)
  OBVIOUS
<1>7. ext = ExtFor(j)
  BY <1>1, <1>2, <1>3 DEF ExtFor, ActionFor
<1>8. Body(ext) = call
  BY <1>3, WalletShape
<1>9. tr = Hashed(WalletTxs(ext) \o t)
  BY <1>4, <1>5, <1>6, <1>7, <1>8 DEF TraceFor
<1>10. o \in {"short", "unapproved", "action", "executed", "executed_log_last"}
  BY <1>4 DEF JobOK, Outcomes
<1>11. ASSUME NEW n \in 0 .. 4, Listed(t, n)
       PROVE  /\ Listed(tr, Len(tr)) /\ Len(tr) = 2 + n /\ WalletIs(tr, ext, call, value, Gateway)
              /\ n >= 1 => tr[3] = Placed(t[1], 3)
              /\ n >= 2 => tr[4] = Placed(t[2], 4)
              /\ n >= 3 => tr[5] = Placed(t[3], 5)
              /\ n >= 4 => tr[6] = Placed(t[4], 6)
  <2>1. TaskIs(tr, ext, call, value, Gateway, t, n)
    BY <1>3, <1>9, <1>11, TaskTrace
  <2>2. WalletIs(tr, ext, call, value, Gateway)
    BY <2>1 DEF TaskIs
  <2>3. FewIs(tr, t, n)
    BY <2>1, Places
  <2> QED
    BY <2>2, <2>3 DEF FewIs
<1>12. PICK ask : ask = Tx(Gateway, "RELAYER_EXECUTE", call, Asked)
  OBVIOUS
<1>13. PICK reply : reply = Tx("approval", "NULLIFY_IF_APPROVED", Empty,
                               <<Out(Gateway, "NULLIFIED_SUCCESSFULLY", Nullified(call), 5)>>)
  OBVIOUS
<1>14. PICK last : last = Tx("app", "GATEWAY_EXECUTE", Empty, <<>>)
  OBVIOUS
<1> SUFFICES Listed(tr, Len(tr)) /\ WalletIs(tr, ext, call, value, Gateway) /\ ExecuteIs(tr, call, o)
  BY <1>1, <1>2, <1>4, <1>6, <1>7 DEF ExecuteTraceIs
<1>15. CASE o = "short"
  <2>1. PICK x : x = Exits(Tx(Gateway, "RELAYER_EXECUTE", call, <<Out(Wallet, None, Empty, 6)>>), 106)
    OBVIOUS
  <2>2. PICK y : y = Tx(Wallet, None, Empty, <<>>)
    OBVIOUS
  <2>3. t = <<x, y>>
    BY <1>5, <1>15, <2>1, <2>2 DEF ExecuteTxs, Exits
  <2>4. t[1] = x /\ t[2] = y /\ Listed(t, 2)
    BY <2>3, ListedTuples
  <2>5. /\ Listed(tr, Len(tr)) /\ Len(tr) = 4 /\ WalletIs(tr, ext, call, value, Gateway)
        /\ tr[3] = Placed(x, 3) /\ tr[4] = Placed(y, 4)
    BY <1>11, <2>4
  <2>6. TxIs(tr[3], Gateway, "RELAYER_EXECUTE", call, <<Out(Wallet, None, Empty, 6)>>) /\ tr[3].exit_code = 106
    BY <2>1, <2>5, PlacedFailed
  <2>7. TxIs(tr[4], Wallet, None, Empty, <<>>)
    BY <2>2, <2>5, PlacedTx
  <2>8. ExecuteIs(tr, call, o)
    BY <1>15, <2>5, <2>6, <2>7 DEF ExecuteIs
  <2> QED
    BY <2>5, <2>8
<1>16. ASSUME tr[3] = Placed(ask, 3)
       PROVE  TxIs(tr[3], Gateway, "RELAYER_EXECUTE", call, Asked) /\ tr[3].exit_code = 0
  BY <1>12, <1>16, PlacedTx
<1>17. ASSUME tr[4] = Placed(reply, 4)
       PROVE  TxIs(tr[4], "approval", "NULLIFY_IF_APPROVED", Empty,
                   <<Out(Gateway, "NULLIFIED_SUCCESSFULLY", Nullified(call), 5)>>)
  BY <1>13, <1>17, PlacedTx
<1>18. ASSUME tr[6] = Placed(last, 6)
       PROVE  TxIs(tr[6], "app", "GATEWAY_EXECUTE", Empty, <<>>)
  BY <1>14, <1>18, PlacedTx
<1>19. CASE o = "unapproved"
  <2>1. PICK x : x = Tx("approval", "NULLIFY_IF_APPROVED", Empty, <<Out(Gateway, None, Empty, 5)>>)
    OBVIOUS
  <2>2. PICK y : y = Tx(Gateway, None, Empty, <<>>)
    OBVIOUS
  <2>3. t = <<ask, x, y>>
    BY <1>5, <1>12, <1>19, <2>1, <2>2 DEF ExecuteTxs, Asked
  <2>4. t[1] = ask /\ t[2] = x /\ t[3] = y /\ Listed(t, 3)
    BY <2>3, ListedTuples
  <2>5. /\ Listed(tr, Len(tr)) /\ Len(tr) = 5 /\ WalletIs(tr, ext, call, value, Gateway)
        /\ tr[3] = Placed(ask, 3) /\ tr[4] = Placed(x, 4) /\ tr[5] = Placed(y, 5)
    BY <1>11, <2>4
  <2>6. TxIs(tr[4], "approval", "NULLIFY_IF_APPROVED", Empty, <<Out(Gateway, None, Empty, 5)>>)
    BY <2>1, <2>5, PlacedTx
  <2>7. TxIs(tr[5], Gateway, None, Empty, <<>>)
    BY <2>2, <2>5, PlacedTx
  <2>8. ExecuteIs(tr, call, o)
    BY <1>16, <1>19, <2>5, <2>6, <2>7 DEF ExecuteIs
  <2> QED
    BY <2>5, <2>8
<1>20. CASE o = "action"
  <2>1. PICK x : x = Results(Tx(Gateway, "NULLIFIED_SUCCESSFULLY", Nullified(call), <<>>), 37)
    OBVIOUS
  <2>2. t = <<ask, reply, x>>
    BY <1>5, <1>12, <1>13, <1>20, <2>1 DEF ExecuteTxs, Asked, Nullified, Results
  <2>3. t[1] = ask /\ t[2] = reply /\ t[3] = x /\ Listed(t, 3)
    BY <2>2, ListedTuples
  <2>4. /\ Listed(tr, Len(tr)) /\ Len(tr) = 5 /\ WalletIs(tr, ext, call, value, Gateway)
        /\ tr[3] = Placed(ask, 3) /\ tr[4] = Placed(reply, 4) /\ tr[5] = Placed(x, 5)
    BY <1>11, <2>3
  <2>5. TxIs(tr[5], Gateway, "NULLIFIED_SUCCESSFULLY", Nullified(call), <<>>) /\ tr[5].result_code = 37
    BY <2>1, <2>4, PlacedFailed
  <2>6. ExecuteIs(tr, call, o)
    BY <1>16, <1>17, <1>20, <2>4, <2>5 DEF ExecuteIs
  <2> QED
    BY <2>4, <2>6
<1>21. ASSUME NEW out, t = <<ask, reply, Tx(Gateway, "NULLIFIED_SUCCESSFULLY", Nullified(call), out), last>>
       PROVE  /\ Listed(tr, Len(tr)) /\ Len(tr) = 6 /\ WalletIs(tr, ext, call, value, Gateway)
              /\ tr[3] = Placed(ask, 3) /\ tr[4] = Placed(reply, 4) /\ tr[6] = Placed(last, 6)
              /\ TxIs(tr[5], Gateway, "NULLIFIED_SUCCESSFULLY", Nullified(call), out)
  <2>1. PICK x : x = Tx(Gateway, "NULLIFIED_SUCCESSFULLY", Nullified(call), out)
    OBVIOUS
  <2>2. t[1] = ask /\ t[2] = reply /\ t[3] = x /\ t[4] = last /\ Listed(t, 4)
    BY <1>21, <2>1, ListedTuples
  <2>3. /\ Listed(tr, Len(tr)) /\ Len(tr) = 6 /\ WalletIs(tr, ext, call, value, Gateway)
        /\ tr[3] = Placed(ask, 3) /\ tr[4] = Placed(reply, 4) /\ tr[5] = Placed(x, 5) /\ tr[6] = Placed(last, 6)
    BY <1>11, <2>2
  <2> QED
    BY <2>1, <2>3, PlacedTx
<1>22. CASE o = "executed"
  <2>1. t = <<ask, reply, Tx(Gateway, "NULLIFIED_SUCCESSFULLY", Nullified(call), <<LogOut(Empty), Execute>>), last>>
    BY <1>5, <1>12, <1>13, <1>14, <1>22 DEF ExecuteTxs, Asked, Nullified, Execute
  <2> QED
    BY <1>16, <1>17, <1>18, <1>21, <1>22, <2>1 DEF ExecuteIs
<1>23. CASE o = "executed_log_last"
  <2>1. t = <<ask, reply, Tx(Gateway, "NULLIFIED_SUCCESSFULLY", Nullified(call), <<Execute, LogOut(Empty)>>), last>>
    BY <1>5, <1>12, <1>13, <1>14, <1>23 DEF ExecuteTxs, Asked, Nullified, Execute
  <2> QED
    BY <1>16, <1>17, <1>18, <1>21, <1>23, <2>1 DEF ExecuteIs
<1> QED
  BY <1>10, <1>15, <1>19, <1>20, <1>22, <1>23

\* The log of an approved message.
ApprovedLog(m) == Cell(<<>>, Text(m) \o <<Cell(Hash(m), Destination(m))>>)

\* What the contracts do with an approval of n messages.
ApproveIs(tr, call, ms, n) ==
    /\ n \in Nat /\ n >= 1 /\ DOMAIN ms = 1 .. n
    /\ Listed(tr, 3 + n + n)
    /\ TxIs(tr[3], Gateway, "APPROVE_MESSAGES", call, [i \in DOMAIN ms |-> Out("approval", "MESSAGE_APPROVE", Empty, 9)])
    /\ tr[3].exit_code = 0
    /\ \A i \in 1 .. n : TxIs(tr[3 + i], "approval", "MESSAGE_APPROVE", Empty, <<Out(Gateway, "MESSAGE_APPROVED", Empty, 5)>>)
    /\ \A i \in 1 .. n : TxIs(tr[3 + n + i], Gateway, "MESSAGE_APPROVED", Empty, <<LogOut(ApprovedLog(ms[i]))>>)

\* tr is the trace of approval j.
ApproveTraceIs(tr, j) ==
    /\ WalletIs(tr, ExtFor(j), ApprovalBlob(j.messages), approve_send, Gateway)
    /\ ApproveIs(tr, ApprovalBlob(j.messages), j.messages, Len(j.messages))

\* The trace of an approval.
LEMMA ApproveShape ==
    ASSUME NEW j, JobOK(j), j.kind = "approve"
    PROVE  ApproveTraceIs(TraceFor(j), j)
<1>1. PICK ms : ms = j.messages
  OBVIOUS
<1>2. PICK call : call = ApprovalBlob(ms)
  OBVIOUS
<1>3. PICK ext : ext = outgoing_message(OutAction(call, approve_send, Gateway), 0, highload_wallet_send(1), Wallet)
  OBVIOUS
<1>4. PICK n : n = Len(ms)
  OBVIOUS
<1>5. PICK a : a = Tx(Gateway, "APPROVE_MESSAGES", call, [i \in DOMAIN ms |-> Out("approval", "MESSAGE_APPROVE", Empty, 9)])
  OBVIOUS
<1>6. PICK b : b = [i \in DOMAIN ms |-> Tx("approval", "MESSAGE_APPROVE", Empty, <<Out(Gateway, "MESSAGE_APPROVED", Empty, 5)>>)]
  OBVIOUS
<1>7. PICK c : c = [i \in DOMAIN ms |-> Tx(Gateway, "MESSAGE_APPROVED", Empty, <<LogOut(ApprovedLog(ms[i]))>>)]
  OBVIOUS
<1>8. PICK s : s = <<a>>
  OBVIOUS
<1>9. PICK u : u = Joined(s, b)
  OBVIOUS
<1>10. PICK t : t = Joined(u, c)
  OBVIOUS
<1>11. PICK tr : tr = TraceFor(j)
  OBVIOUS
<1>12. n \in Nat /\ n >= 1 /\ DOMAIN ms = 1 .. n
  BY <1>1, <1>4 DEF JobOK
<1>13. ext = ExtFor(j)
  BY <1>1, <1>2, <1>3 DEF ExtFor, ActionFor
<1>14. Body(ext) = call
  BY <1>3, WalletShape
<1>15. t = ApproveTxs(call, ms)
  BY <1>5, <1>6, <1>7, <1>8, <1>9, <1>10 DEF ApproveTxs, ApprovedLog, Joined
<1>16. tr = Hashed(WalletTxs(ext) \o t)
  BY <1>1, <1>11, <1>13, <1>14, <1>15 DEF TraceFor
<1>17. PICK one : one = 1
  OBVIOUS
<1>18. PICK p : p = one + n
  OBVIOUS
<1>19. PICK q : q = p + n
  OBVIOUS
<1>20. Listed(s, one) /\ Listed(b, n) /\ Listed(c, n)
  <2>1. Listed(s, one)
    BY <1>8, <1>17, ListedTuples
  <2>2. Listed(b, n) /\ Listed(c, n)
    BY <1>6, <1>7, <1>12 DEF Listed
  <2> QED
    BY <2>1, <2>2
<1>21. Listed(u, p)
  BY <1>9, <1>18, <1>20, ConcatListed
<1>22. Listed(t, q)
  BY <1>10, <1>19, <1>20, <1>21, ConcatListed
<1>23. \A i \in 1 .. one : u[i] = s[i]
  BY <1>9, <1>20, ConcatLeft
<1>24. \A i \in 1 .. n : u[one + i] = b[i]
  BY <1>9, <1>20, ConcatRight
<1>25. \A i \in 1 .. p : t[i] = u[i]
  BY <1>10, <1>20, <1>21, ConcatLeft
<1>26. \A i \in 1 .. n : t[p + i] = c[i]
  BY <1>10, <1>20, <1>21, ConcatRight
<1>27. s[1] = a
  BY <1>8
<1>28. t[1] = a /\ \A i \in 1 .. n : t[1 + i] = b[i] /\ t[1 + n + i] = c[i]
  BY <1>12, <1>17, <1>18, <1>23, <1>24, <1>25, <1>26, <1>27
<1>29. TaskIs(tr, ext, call, approve_send, Gateway, t, q)
  BY <1>3, <1>16, <1>22, TaskTrace
<1>30. /\ Listed(tr, 2 + q) /\ WalletIs(tr, ext, call, approve_send, Gateway)
       /\ \A i \in 1 .. q : tr[2 + i] = Placed(t[i], 2 + i)
  BY <1>29 DEF TaskIs
<1>31. q = 1 + n + n /\ 2 + q = 3 + n + n
  BY <1>12, <1>17, <1>18, <1>19
<1>32. tr[3] = Placed(a, 3)
  BY <1>12, <1>28, <1>30, <1>31
<1>33. ASSUME NEW i \in 1 .. n
       PROVE  tr[3 + i] = Placed(b[i], 3 + i) /\ tr[3 + n + i] = Placed(c[i], 3 + n + i)
  <2>1. 1 + i \in 1 .. q /\ 2 + (1 + i) = 3 + i /\ 1 + n + i \in 1 .. q /\ 2 + (1 + n + i) = 3 + n + i
    BY <1>12, <1>31
  <2> QED
    BY <1>28, <1>30, <2>1
<1>34. /\ TxIs(tr[3], Gateway, "APPROVE_MESSAGES", call, [i \in DOMAIN ms |-> Out("approval", "MESSAGE_APPROVE", Empty, 9)])
       /\ tr[3].exit_code = 0
  <2>1. PICK out : out = [i \in DOMAIN ms |-> Out("approval", "MESSAGE_APPROVE", Empty, 9)]
    OBVIOUS
  <2>2. a = Tx(Gateway, "APPROVE_MESSAGES", call, out)
    BY <1>5, <2>1
  <2>3. TxIs(tr[3], Gateway, "APPROVE_MESSAGES", call, out) /\ tr[3].exit_code = 0
    BY <1>32, <2>2, PlacedTx
  <2> QED
    BY <2>1, <2>3
<1>35. \A i \in 1 .. n : TxIs(tr[3 + i], "approval", "MESSAGE_APPROVE", Empty, <<Out(Gateway, "MESSAGE_APPROVED", Empty, 5)>>)
  <2> SUFFICES ASSUME NEW i \in 1 .. n
               PROVE  TxIs(tr[3 + i], "approval", "MESSAGE_APPROVE", Empty, <<Out(Gateway, "MESSAGE_APPROVED", Empty, 5)>>)
    OBVIOUS
  <2>1. b[i] = Tx("approval", "MESSAGE_APPROVE", Empty, <<Out(Gateway, "MESSAGE_APPROVED", Empty, 5)>>)
    BY <1>6, <1>12
  <2> QED
    BY <1>33, <2>1, PlacedTx
<1>36. \A i \in 1 .. n : TxIs(tr[3 + n + i], Gateway, "MESSAGE_APPROVED", Empty, <<LogOut(ApprovedLog(ms[i]))>>)
  <2> SUFFICES ASSUME NEW i \in 1 .. n
               PROVE  TxIs(tr[3 + n + i], Gateway, "MESSAGE_APPROVED", Empty, <<LogOut(ApprovedLog(ms[i]))>>)
    OBVIOUS
  <2>1. c[i] = Tx(Gateway, "MESSAGE_APPROVED", Empty, <<LogOut(ApprovedLog(ms[i]))>>)
    BY <1>7, <1>12
  <2> QED
    BY <1>33, <2>1, PlacedTx
<1>37. ApproveIs(tr, call, ms, n)
  BY <1>12, <1>30, <1>31, <1>34, <1>35, <1>36 DEF ApproveIs
<1> QED
  BY <1>1, <1>2, <1>4, <1>11, <1>13, <1>30, <1>37 DEF ApproveTraceIs

\* The log of a refund, and the trace it is in.
RefundLog(amount) ==
    Cell(<<Field("bits256", <<1>>), Field("address", "user"), Field("coins", amount)>>, <<>>)
Refunded(j) == j.remaining - native_gas_refund_estimate
RefundCall(j) == NativeRefund(<<1>>, "user", Refunded(j))

\* tr is the trace of refund j.
RefundTraceIs(tr, j) ==
    /\ Listed(tr, 4)
    /\ WalletIs(tr, ExtFor(j), RefundCall(j), RefundDust, GasService)
    /\ TxIs(tr[3], GasService, "NATIVE_REFUND", RefundCall(j),
            <<Out("user", None, Empty, Refunded(j)), LogOut(RefundLog(Refunded(j)))>>)
    /\ tr[3].exit_code = 0
    /\ TxIs(tr[4], "user", None, Empty, <<>>)

\* The trace of a refund.
LEMMA RefundShape ==
    ASSUME NEW j, JobOK(j), j.kind = "refund"
    PROVE  RefundTraceIs(TraceFor(j), j)
<1>1. PICK amount : amount = Refunded(j)
  OBVIOUS
<1>2. PICK call : call = NativeRefund(<<1>>, "user", amount)
  OBVIOUS
<1>3. PICK ext : ext = outgoing_message(OutAction(call, RefundDust, GasService), 0, highload_wallet_send(1), Wallet)
  OBVIOUS
<1>4. PICK x : x = Tx(GasService, "NATIVE_REFUND", call, <<Out("user", None, Empty, amount), LogOut(RefundLog(amount))>>)
  OBVIOUS
<1>5. PICK y : y = Tx("user", None, Empty, <<>>)
  OBVIOUS
<1>6. PICK t : t = <<x, y>>
  OBVIOUS
<1>7. PICK tr : tr = TraceFor(j)
  OBVIOUS
<1>8. ext = ExtFor(j)
  BY <1>1, <1>2, <1>3 DEF ExtFor, ActionFor, Refunded
<1>9. Body(ext) = call
  BY <1>3, WalletShape
<1>10. Data(call, 2) = <<1>> /\ Data(call, 3) = "user" /\ Data(call, 4) = amount
  BY <1>2 DEF NativeRefund, Data, Cell, Field
<1>11. t = RefundTxs(call)
  BY <1>4, <1>5, <1>6, <1>10 DEF RefundTxs, RefundLog
<1>12. tr = Hashed(WalletTxs(ext) \o t)
  BY <1>7, <1>8, <1>9, <1>11 DEF TraceFor
<1>13. t[1] = x /\ t[2] = y /\ Listed(t, 2)
  BY <1>6, ListedTuples
<1>14. TaskIs(tr, ext, call, RefundDust, GasService, t, 2)
  BY <1>3, <1>12, <1>13, TaskTrace
<1>15. FewIs(tr, t, 2) /\ WalletIs(tr, ext, call, RefundDust, GasService)
  BY <1>14, Places DEF TaskIs
<1>16. Listed(tr, 4) /\ tr[3] = Placed(x, 3) /\ tr[4] = Placed(y, 4)
  BY <1>13, <1>15 DEF FewIs
<1>17. /\ TxIs(tr[3], GasService, "NATIVE_REFUND", call, <<Out("user", None, Empty, amount), LogOut(RefundLog(amount))>>)
       /\ tr[3].exit_code = 0
  BY <1>4, <1>16, PlacedTx
<1>18. TxIs(tr[4], "user", None, Empty, <<>>)
  BY <1>5, <1>16, PlacedTx
<1> QED
  BY <1>1, <1>2, <1>7, <1>8, <1>15, <1>16, <1>17, <1>18 DEF RefundTraceIs, RefundCall

----------------------------------------------------------------------------
(* The parser keeps the invariant. *)

\* The trace of a job is a sequence.
LEMMA TraceListed ==
    ASSUME NEW j, JobOK(j)
    PROVE  Listed(TraceFor(j), Len(TraceFor(j)))
<1>1. PICK tr : tr = TraceFor(j)
  OBVIOUS
<1> SUFFICES Listed(tr, Len(tr))
  BY <1>1
<1>2. ASSUME NEW n, Listed(tr, n) PROVE Listed(tr, Len(tr))
  BY <1>2, ListedIs
<1>3. CASE j.kind = "user"
  <2>1. UserIs(tr, j.acts, Len(j.acts))
    BY <1>1, <1>3, UserShape
  <2> QED
    BY <1>2, <2>1 DEF UserIs
<1>4. CASE j.kind = "execute"
  <2>1. ExecuteTraceIs(tr, j)
    BY <1>1, <1>4, ExecuteShape
  <2> QED
    BY <2>1 DEF ExecuteTraceIs
<1>5. CASE j.kind = "approve"
  <2>1. ApproveTraceIs(tr, j)
    BY <1>1, <1>5, ApproveShape
  <2> QED
    BY <1>2, <2>1 DEF ApproveTraceIs, ApproveIs
<1>6. CASE j.kind = "refund"
  <2>1. RefundTraceIs(tr, j)
    BY <1>1, <1>6, RefundShape
  <2> QED
    BY <1>2, <2>1 DEF RefundTraceIs
<1> QED
  BY <1>3, <1>4, <1>5, <1>6 DEF JobOK, Tasks

\* Nothing is scanned.
LEMMA NothingScanned ==
    ASSUME NEW tr
    PROVE  CallsOK(tr, 0, <<>>) /\ ParsersOK(tr, 0, <<>>) /\ CreditsOK(tr, 0, {})
<1>1. \A i \in 1 .. 0 - 1 : FALSE
  OBVIOUS
<1>2. <<>> \in Seq(Entries(tr)) /\ DOMAIN <<>> = {}
  OBVIOUS
<1>3. CallsOK(tr, 0, <<>>)
  BY <1>1, <1>2 DEF CallsOK
<1>4. ParsersOK(tr, 0, <<>>)
  BY <1>1, <1>2 DEF ParsersOK
<1>5. CreditsOK(tr, 0, {})
  BY <1>1 DEF CreditsOK
<1> QED
  BY <1>3, <1>4, <1>5

\* ScanOK holds of a trace of which nothing is scanned.
LEMMA ScanStart ==
    ASSUME Len(trace) \in Nat, DOMAIN trace = 1 .. Len(trace), at = 0, parsers = <<>>, calls = <<>>, credits = {},
           stage \notin {"recording", "done"}
    PROVE  ScanOK
BY NothingScanned DEF ScanOK

\* ScanOK holds at first.
LEMMA ScanInit == RelayInit => ScanOK
<1> SUFFICES ASSUME RelayInit PROVE ScanOK
  OBVIOUS
<1>1. trace = <<>> /\ at = 0 /\ parsers = <<>> /\ calls = <<>> /\ credits = {} /\ stage = "idle"
  BY DEF RelayInit, ParserInit
<1>2. Len(trace) = 0 /\ DOMAIN trace = 1 .. 0
  BY <1>1
<1> QED
  BY <1>1, <1>2, ScanStart

\* One transaction is scanned.
LEMMA ScanTransactionStep ==
    ASSUME ScanOK, ScanTransaction
    PROVE  ScanOK'
<1>1. /\ stage = "parsing" /\ at \in 1 .. Len(trace) /\ Len(trace) \in Nat /\ DOMAIN trace = 1 .. Len(trace)
      /\ UNCHANGED trace
  BY DEF ScanOK, ScanTransaction, Abandon
<1>2. CallsOK(trace, at, calls) /\ ParsersOK(trace, at, parsers) /\ CreditsOK(trace, at, credits)
  BY DEF ScanOK
<1>3. CASE Abandon
  BY <1>1, <1>2, <1>3 DEF ScanOK, Abandon
<1>4. ASSUME at' = at + 1, UNCHANGED stage,
             CallsOK(trace, at + 1, calls') /\ ParsersOK(trace, at + 1, parsers') /\ CreditsOK(trace, at + 1, credits')
      PROVE  ScanOK'
  BY <1>1, <1>4 DEF ScanOK
<1>5. CASE Matching(trace[at]) = {} /\ at' = at + 1 /\ UNCHANGED <<stage, trace, parsers, calls, credits, events, recorded>>
  <2>1. CallsOK(trace, at + 1, calls) /\ ParsersOK(trace, at + 1, parsers) /\ CreditsOK(trace, at + 1, credits)
    BY <1>1, <1>2, <1>5, CallsKeep, ParsersKeep, CreditsKeep
  <2> QED
    BY <1>4, <1>5, <2>1
<1>6. ASSUME NEW kind \in Matching(trace[at]), Log(kind, trace[at]).ok, Collect(kind, Log(kind, trace[at])),
             at' = at + 1, UNCHANGED <<stage, trace, events, recorded>>
      PROVE  ScanOK'
  <2> DEFINE e == ReadAs(trace, kind, at)
  <2>1. kind \in Kinds /\ \A other \in Matching(trace[at]) : other = kind
    BY MatchingKinds, MatchingOne
  <2>2. e = Entry(kind, at, Log(kind, trace[at])) /\ e \in Entries(trace) /\ e.tx = at
    BY <1>1, <2>1, EntryIs DEF ReadAs, Entries
  <2>3. CASE kind = "CALL"
    <3>1. calls' = Append(calls, e) /\ UNCHANGED <<parsers, credits>>
      BY <1>6, <2>2, <2>3 DEF Collect
    <3>2. CallsOK(trace, at + 1, calls')
      BY <1>1, <1>2, <1>6, <2>3, <3>1, CallsGrow
    <3>3. Matching(trace[at]) \cap Others = {} /\ Matching(trace[at]) \cap Paid = {}
      BY <2>1, <2>3 DEF Others, Paid
    <3>4. ParsersOK(trace, at + 1, parsers) /\ CreditsOK(trace, at + 1, credits)
      BY <1>1, <1>2, <3>3, ParsersKeep, CreditsKeep
    <3> QED
      BY <1>4, <1>6, <3>1, <3>2, <3>4
  <2>4. CASE kind \in Paid
    <3>1. credits' = InsertCredit(credits, Key(Log(kind, trace[at])), e) /\ UNCHANGED <<parsers, calls>>
      BY <1>6, <2>2, <2>4 DEF Collect, Paid
    <3>2. CreditsOK(trace, at + 1, credits')
      BY <1>1, <1>2, <1>6, <2>4, <3>1, CreditsGrow
    <3>3. Matching(trace[at]) \cap Others = {} /\ "CALL" \notin Matching(trace[at])
      BY <2>1, <2>4 DEF Others, Paid
    <3>4. ParsersOK(trace, at + 1, parsers) /\ CallsOK(trace, at + 1, calls)
      BY <1>1, <1>2, <3>3, ParsersKeep, CallsKeep
    <3> QED
      BY <1>4, <1>6, <3>1, <3>2, <3>4
  <2>5. CASE kind \in Others
    <3>1. parsers' = Append(parsers, e) /\ UNCHANGED <<calls, credits>>
      BY <1>6, <2>2, <2>5 DEF Collect, Others, Paid
    <3>2. ScannedAs(trace, at + 1, kind, at)
      BY <1>1, <1>6 DEF ScannedAs
    <3>3. ParserOK(trace, at + 1, e)
      BY <2>2, <2>5, <3>2 DEF ParserOK
    <3>4. ParsersOK(trace, at + 1, parsers')
      <4> HIDE DEF e
      <4> QED
        BY <1>1, <1>2, <2>2, <3>1, <3>3, ParsersGrow
    <3>5. Matching(trace[at]) \cap Paid = {} /\ "CALL" \notin Matching(trace[at])
      BY <2>1, <2>5 DEF Others, Paid
    <3>6. CallsOK(trace, at + 1, calls) /\ CreditsOK(trace, at + 1, credits)
      BY <1>1, <1>2, <3>5, CallsKeep, CreditsKeep
    <3> QED
      BY <1>4, <1>6, <3>1, <3>4, <3>6
  <2> QED
    BY <2>1, <2>3, <2>4, <2>5, KindsApart
<1> QED
  BY <1>3, <1>5, <1>6 DEF ScanTransaction

\* The check of the whole trace keeps ScanOK.
LEMMA ScanTraceStep ==
    ASSUME ScanOK, ScanTrace
    PROVE  ScanOK'
<1>1. /\ stage = "parsing" /\ at = 0 /\ Len(trace) \in Nat /\ DOMAIN trace = 1 .. Len(trace)
      /\ parsers = <<>> /\ calls = <<>> /\ credits = {} /\ UNCHANGED trace
  BY DEF ScanOK, ScanTrace, Abandon
<1>2. CallsOK(trace, 0, calls) /\ ParsersOK(trace, 0, parsers) /\ CreditsOK(trace, 0, credits)
  BY <1>1, NothingScanned
<1>3. CallsOK(trace, 0 + 1, calls) /\ CreditsOK(trace, 0 + 1, credits)
  BY <1>2, CallsKeep, CreditsKeep
<1>4. CASE Abandon
  BY <1>1, <1>4 DEF ScanOK, Abandon
<1>5. CASE /\ ~IsExecuteInsufficientGas(trace)
           /\ at' = 1 /\ UNCHANGED <<stage, trace, parsers, calls, credits, events, recorded>>
  <2>1. ParsersOK(trace, 0 + 1, parsers)
    BY <1>2, <1>5, ParsersKeep
  <2> QED
    BY <1>1, <1>3, <1>5, <2>1 DEF ScanOK
<1>6. CASE /\ IsExecuteInsufficientGas(trace) /\ RelayerExecuteWrapped(trace[1].out_msgs[1].body).ok
           /\ parsers' = Append(parsers, Refused(trace)) /\ at' = 1
           /\ UNCHANGED <<stage, trace, calls, credits, events, recorded>>
  <2> DEFINE e == Refused(trace)
  <2>1. e \in Entries(trace) /\ e.tx = 0 /\ e.log = RelayerExecuteWrapped(trace[1].out_msgs[1].body)
    BY EntryIs DEF Refused, Entries
  <2>2. ParserOK(trace, 0 + 1, e)
    BY <1>6, <2>1 DEF ParserOK
  <2> HIDE DEF e
  <2>3. ParsersOK(trace, 0 + 1, Append(parsers, e))
    <3>1. PICK n \in Nat : n = 0
      OBVIOUS
    <3>2. ParsersOK(trace, n, parsers) /\ ParserOK(trace, n + 1, e) /\ e.tx = n /\ parsers = <<>>
      BY <1>1, <1>2, <2>1, <2>2, <3>1
    <3>3. ParsersOK(trace, n + 1, Append(parsers, e))
      BY <2>1, <3>2, ParsersGrow
    <3> QED
      BY <3>1, <3>3
  <2> QED
    BY <1>1, <1>3, <1>6, <2>3 DEF ScanOK, e
<1> QED
  BY <1>1, <1>4, <1>5, <1>6 DEF ScanTrace, Refused

\* Every step of the relay keeps ScanOK.
LEMMA ScanStep ==
    ASSUME ControlOK, IncluderOK, ScanOK, ControlOK', [RelayNext]_relayVars
    PROVE  ScanOK'
<1>1. CASE UNCHANGED <<trace, at, parsers, calls, credits, events>> /\ stage' \notin {"recording", "done"}
  BY <1>1 DEF ScanOK
<1>2. CASE UNCHANGED <<stage, trace, at, parsers, calls, credits, events>>
  <2>1. Built' = Built
    BY <1>2, BuiltOf
  <2> QED
    BY <1>2, <2>1 DEF ScanOK
<1>3. CASE UNCHANGED relayVars \/ ExecuteResult \/ GatewayTxResult \/ RefundResult
  BY <1>2, <1>3 DEF relayVars, parserVars, ExecuteResult, GatewayTxResult, RefundResult, Settle
<1>4. CASE UserTransacts \/ ChainRuns
  <2>1. /\ stage \in {"idle", "sent"} /\ stage' = "parsing"
        /\ UNCHANGED <<at, parsers, calls, credits, events>>
    BY <1>4 DEF UserTransacts, ChainRuns
  <2>2. at' = 0 /\ parsers' = <<>> /\ calls' = <<>> /\ credits' = {}
    BY <2>1 DEF ControlOK, Untouched
  <2>3. JobOK(job') /\ trace' = TraceFor(job')
    BY <2>1 DEF ControlOK, Parsed
  <2>4. Listed(trace', Len(trace'))
    BY <2>3, TraceListed
  <2>5. Len(trace') \in Nat /\ DOMAIN trace' = 1 .. Len(trace')
    BY <2>4, ListedIs
  <2>6. CallsOK(trace', 0, <<>>) /\ ParsersOK(trace', 0, <<>>) /\ CreditsOK(trace', 0, {})
    BY NothingScanned
  <2> QED
    BY <2>1, <2>2, <2>5, <2>6 DEF ScanOK
<1>5. CASE ExecuteTask \/ GatewayTxTask \/ RefundTask
  BY <1>1, <1>5 DEF ExecuteTask, GatewayTxTask, RefundTask, broadcast_execute_message, broadcast_prover_message,
                    broadcast_refund_message, Ends, send_to_chain
<1>6. CASE PostAnswered
  BY <1>1, <1>2, <1>6 DEF PostAnswered
<1>7. CASE ParserStep /\ UNCHANGED <<job, sent, includer>>
  <2>1. CASE ScanTrace
    BY <2>1, ScanTraceStep
  <2>2. CASE ScanTransaction
    BY <2>2, ScanTransactionStep
  <2>3. CASE BuildEvents
    <3>1. CASE Abandon
      BY <1>1, <3>1 DEF Abandon
    <3>2. CASE /\ events' = Built /\ stage' = "recording" /\ at = Len(trace) + 1
               /\ UNCHANGED <<trace, at, parsers, calls, credits, recorded>>
      <4>1. Built' = Built
        BY <3>2, BuiltOf
      <4> QED
        BY <3>2, <4>1 DEF ScanOK
    <3> QED
      BY <2>3, <3>1, <3>2 DEF BuildEvents, Built
  <2>4. CASE UpdateEvents
    <3>1. CASE Abandon
      BY <1>1, <3>1 DEF Abandon
    <3>2. CASE stage = "recording" /\ stage' = "done" /\ UNCHANGED <<trace, at, parsers, calls, credits, events>>
      <4>1. Built' = Built
        BY <3>2, BuiltOf
      <4> QED
        BY <3>2, <4>1 DEF ScanOK
    <3> QED
      BY <2>4, <3>1, <3>2 DEF UpdateEvents
  <2> QED
    BY <1>7, <2>1, <2>2, <2>3, <2>4 DEF ParserStep
<1> QED
  BY <1>3, <1>4, <1>5, <1>6, <1>7 DEF RelayNext

\* The inductive invariant of the relay.
RelayInv == ControlOK /\ IncluderOK /\ ScanOK

\* The invariant that the results about the relay rest on: it holds for every set
\* of wallets, acts, messages, gas balances, estimates and cell sizes, and for
\* traces of every length.
THEOREM RelayInvariant == RelaySpec => []RelayInv
<1>1. RelayInit => RelayInv
  BY ControlInit, ScanInit DEF RelayInv
<1>2. RelayInv /\ [RelayNext]_relayVars => RelayInv'
  BY ControlStep, ScanStep DEF RelayInv
<1> QED
  BY <1>1, <1>2, PTL DEF RelaySpec

----------------------------------------------------------------------------
(* What is sent is read back. *)

\* The texts of a message are read back from their cells.
LEMMA TextsReadBack ==
    ASSUME NEW m \in Messages
    PROVE  /\ cell_to_buffer(build_cell_chain(m.message_id)) = m.message_id
           /\ cell_to_buffer(build_cell_chain(m.source_chain)) = m.source_chain
           /\ cell_to_buffer(build_cell_chain(m.payload)) = m.payload
           /\ cell_to_buffer(build_cell_chain(m.destination_chain)) = m.destination_chain
<1>1. /\ m.message_id \in Seq(Bytes) /\ m.source_chain \in Seq(Bytes) /\ m.payload \in Seq(Bytes)
      /\ m.destination_chain \in Seq(Bytes)
  BY RelayAssumption
<1> QED
  BY <1>1, BufferReadBack

\* The message of an execution, as the gateway finds it in its body.
LEMMA ExecuteBody ==
    ASSUME NEW m, NEW call, call = RelayerExecute(m, Wallet)
    PROVE  /\ Data(call, 1) = "RELAYER_EXECUTE" /\ call.refs[1].data = <<>> /\ Len(call.refs) = 1
           /\ call.refs[1].refs = <<build_cell_chain(m.message_id), build_cell_chain(m.source_chain),
                                    build_cell_chain(m.source_address),
                                    Cell(<<Field("bits256", <<"hash", m.payload>>)>>,
                                         <<build_cell_chain(m.payload), build_cell_chain(m.destination_address),
                                           build_cell_chain(m.destination_chain)>>)>>
BY DEF RelayerExecute, Cell, Field, Data

\* The texts that the gateway takes from the body of an execution.
LEMMA ExecuteTexts ==
    ASSUME NEW m, NEW call, call = RelayerExecute(m, Wallet)
    PROVE  /\ call.refs[1].refs[1] = build_cell_chain(m.message_id)
           /\ call.refs[1].refs[2] = build_cell_chain(m.source_chain)
BY DEF RelayerExecute, Cell

\* What is sent for an execution carries its texts and its payload.
LEMMA EncodingHolds ==
    ASSUME RelayInv
    PROVE  EncodingReadBack
<1> SUFFICES ASSUME stage = "sent", job.kind = "execute"
             PROVE  /\ cell_to_buffer(Body(sent).refs[1].refs[1]) = job.message.message_id
                    /\ cell_to_buffer(Body(sent).refs[1].refs[4].refs[1]) = job.message.payload
                    /\ cell_to_buffer(Body(sent).refs[1].refs[4].refs[3]) = job.message.destination_chain
                    /\ BuffersRoundTrip(Buffers)
  BY DEF EncodingReadBack
<1>1. JobOK(job) /\ sent = ExtFor(job) /\ job.message \in Messages
  BY DEF RelayInv, ControlOK, JobOK
<1>2. PICK m : m = job.message
  OBVIOUS
<1>3. PICK call : call = RelayerExecute(m, Wallet)
  OBVIOUS
<1>4. sent = outgoing_message(OutAction(call, execute_send(m.payload), Gateway), 0, highload_wallet_send(1), Wallet)
  BY <1>1, <1>2, <1>3 DEF ExtFor, ActionFor
<1>5. Body(sent) = call
  BY <1>4, WalletShape
<1>6. PICK inner : inner = Cell(<<Field("bits256", <<"hash", m.payload>>)>>,
                                <<build_cell_chain(m.payload), build_cell_chain(m.destination_address),
                                  build_cell_chain(m.destination_chain)>>)
  OBVIOUS
<1>7. inner.refs[1] = build_cell_chain(m.payload) /\ inner.refs[3] = build_cell_chain(m.destination_chain)
  BY <1>6 DEF Cell
<1>8. call.refs[1].refs[1] = build_cell_chain(m.message_id) /\ call.refs[1].refs[4] = inner
  BY <1>3, <1>6, ExecuteBody
<1>9. BuffersRoundTrip(Buffers)
  BY RelayAssumption, BufferReadBack DEF BuffersRoundTrip
<1>10. /\ cell_to_buffer(build_cell_chain(m.message_id)) = m.message_id
       /\ cell_to_buffer(build_cell_chain(m.payload)) = m.payload
       /\ cell_to_buffer(build_cell_chain(m.destination_chain)) = m.destination_chain
  BY <1>1, <1>2, TextsReadBack
<1> QED
  BY <1>2, <1>5, <1>7, <1>8, <1>9, <1>10

\* No amount of a payment leaves room for the fields of a top-up.
LEMMA AddedNeverFits ==
    ASSUME NEW len \in 0 .. 15, NEW lead \in 0 .. 3
    PROVE  ~AddedFitsPaid(len, lead)
<1>1. len \div 4 = 0 => len \in 0 .. 3 /\ len % 4 = len
  OBVIOUS
<1>2. len \div 4 = 2 => len \in 8 .. 11
  OBVIOUS
<1>3. ~ (len \div 4 = 0 /\ 4 + 8 * len + 256 - 2 - 4 - 8 * ((len % 4) * 4 + lead) >= 256)
  BY <1>1
<1>4. ~ (len \div 4 = 2 /\ \E bytes \in 0 .. 15 : 4 + 8 * len + 256 - 267 - 4 - 8 * bytes >= 256)
  BY <1>2
<1> QED
  BY <1>3, <1>4 DEF AddedFitsPaid

\* The second field tells the two logs apart.
LEMMA PaidNotAdded ==
    ASSUME NEW c, JettonGasPaid(c).ok
    PROVE  ~JettonGasAdded(c).ok
<1>0. JettonGasPaid(c) = Fails => FALSE
  BY DEF Fails
<1>1. Loads(c, <<"address", "coins", "bits256">>, 3)
  BY <1>0 DEF JettonGasPaid
<1>2. c.data[2].type = "coins"
  BY <1>1 DEF Loads
<1>3. ~ Loads(c, <<"address", "address", "coins", "bits256">>, 1)
  BY <1>2 DEF Loads
<1> QED
  BY <1>3 DEF JettonGasAdded, Fails

\* No payment is read as a top-up.
LEMMA NoTopUpHolds == PaymentIsNoTopUp
BY AddedNeverFits, PaidNotAdded DEF PaymentIsNoTopUp, IsJettonGasPaid, IsJettonGasAdded

\* MessagesReadBack, for every size of a cell and every message: what build_cell_chain
\* splits, cell_to_buffer reads back, through the envelope that the wallet sends, and
\* no payment in a jetton is taken for a top-up.
THEOREM MessagesAreReadBack == RelaySpec => []MessagesReadBack
<1>1. RelayInv => MessagesReadBack
  BY EncodingHolds, NoTopUpHolds DEF MessagesReadBack
<1> QED
  BY <1>1, RelayInvariant, PTL

----------------------------------------------------------------------------
(* The outcome of a task. *)

\* The invariant implies the types.
LEMMA TypesHold ==
    ASSUME RelayInv
    PROVE  RelayTypeOK
<1>1. at \in 0 .. Len(trace) + 1 /\ Len(trace) \in Nat /\ (at = 0 => parsers = <<>>)
  BY DEF RelayInv, ScanOK
<1>2. ASSUME NEW i \in DOMAIN parsers PROVE parsers[i].tx \in 0 .. at - 1
  <2>1. at # 0
    BY <1>1
  <2>2. ParserOK(trace, at, parsers[i])
    BY DEF RelayInv, ScanOK, ParsersOK
  <2> QED
    BY <1>1, <2>1, <2>2, ParserStays
<1> QED
  BY <1>1, <1>2 DEF RelayTypeOK, RelayInv, ControlOK, Stages, ScanOK, CallsOK, CreditsOK

\* The invariant implies that no task is dropped.
LEMMA NoneDropped ==
    ASSUME RelayInv
    PROVE  NoTaskDropped
BY DEF RelayInv, ControlOK, IncluderOK, Untouched, NoTaskDropped

----------------------------------------------------------------------------
(* Every parser looks for an operation code of its own. *)
Ops(kind) ==
    CASE kind = "CALL"             -> {"CALL_CONTRACT"}
      [] kind = "MESSAGE_EXECUTED" -> {"NULLIFIED_SUCCESSFULLY"}
      [] kind = "MESSAGE_APPROVED" -> {"MESSAGE_APPROVED"}
      [] kind = "NATIVE_PAID"      -> {"PAY_NATIVE_GAS_FOR_CONTRACT_CALL", "PAY_GAS"}
      [] kind = "NATIVE_ADDED"     -> {"ADD_NATIVE_GAS"}
      [] kind \in {"JETTON_ADDED", "JETTON_PAID"} -> {"USER_BALANCE_SUBTRACTED"}
      [] kind = "REFUNDED"         -> {"NATIVE_REFUND"}

\* A transaction is matched only by a parser of its operation code.
LEMMA OpMatters ==
    ASSUME NEW tx, NEW kind \in Matching(tx)
    PROVE  tx.op \in Ops(kind)
<1>1. kind \in Kinds
  BY MatchingKinds
<1> QED
  BY <1>1, MatchingMeans
  DEF Kinds, Ops, IsCallContract, IsMessageExecuted, IsMessageApproved, IsNativeGasPaid, IsNativeGasAdded,
      IsJettonGasAdded, IsJettonGasPaid, IsNativeGasRefunded, is_log_emmitted

\* A transaction with another operation code is no parser's.
LEMMA Unmatched ==
    ASSUME NEW tx, tx.op \in {None, "INTERNAL_TRANSFER", "RELAYER_EXECUTE", "NULLIFY_IF_APPROVED", "GATEWAY_EXECUTE",
                              "APPROVE_MESSAGES", "MESSAGE_APPROVE"}
    PROVE  Matching(tx) = {}
<1> SUFFICES ASSUME NEW kind \in Matching(tx) PROVE FALSE
  OBVIOUS
<1>1. kind \in Kinds /\ tx.op \in Ops(kind)
  BY MatchingKinds, OpMatters
<1> QED
  BY <1>1 DEF Kinds, Ops, None

----------------------------------------------------------------------------
(* The events of a trace without calls. *)

\* Without calls, the events are those of the parsers.
LEMMA NoCalls ==
    ASSUME RelayInv, stage = "done", \A i \in 1 .. Len(trace) : "CALL" \notin Matching(trace[i])
    PROVE  /\ calls = <<>>
           /\ events = [i \in DOMAIN parsers |-> OtherEvent(parsers[i])]
           /\ DOMAIN events = DOMAIN parsers /\ Len(events) = Len(parsers)
<1>1. at = Len(trace) + 1 /\ events = Built /\ Len(trace) \in Nat
  BY DEF RelayInv, ScanOK
<1>2. calls \in Seq(Entries(trace)) /\ \A k \in DOMAIN calls : FALSE
  BY <1>1 DEF RelayInv, ScanOK, CallsOK, ScannedAs
<1>3. calls = <<>>
  BY <1>2, EmptySeq
<1>4. PICK n : n = Len(parsers)
  OBVIOUS
<1>5. parsers \in Seq(Entries(trace)) /\ n \in Nat /\ DOMAIN parsers = 1 .. n
  BY <1>4 DEF RelayInv, ScanOK, ParsersOK
<1>6. PICK es : es = [i \in DOMAIN parsers |-> OtherEvent(parsers[i])]
  OBVIOUS
<1>7. Listed(es, n)
  BY <1>5, <1>6 DEF Listed
<1>8. PICK cs : cs = [i \in DOMAIN calls |-> CallEvents(i)]
  OBVIOUS
<1>9. cs \in Seq(Seq({}))
  BY <1>3, <1>8
<1>10. FlattenSeq(cs) \in Seq({})
  BY <1>9, FlattenHolds
<1>11. FlattenSeq(cs) = <<>>
  BY <1>10, EmptySeq
<1>12. es \in Seq({es[i] : i \in 1 .. n}) /\ DOMAIN es = 1 .. n /\ Len(es) = n
  BY <1>7, ListedIs
<1>13. <<>> \o es = es
  BY <1>12
<1>14. events = es
  BY <1>1, <1>6, <1>8, <1>11, <1>13 DEF Built
<1> QED
  BY <1>3, <1>4, <1>5, <1>6, <1>12, <1>14

\* The collected parsers, of a trace that gives one at most.
LEMMA NoParser ==
    ASSUME NEW tr, NEW n \in Nat, NEW ps, ParsersOK(tr, n, ps), ~IsExecuteInsufficientGas(tr),
           \A i \in 1 .. n - 1 : Matching(tr[i]) \cap Others = {}
    PROVE  ps = <<>>
<1>1. ps \in Seq(Entries(tr))
  BY DEF ParsersOK
<1>2. \A k \in DOMAIN ps : FALSE
  BY DEF ParsersOK, ParserOK, ScannedAs
<1> QED
  BY <1>1, <1>2, EmptySeq

\* Parsers that all point to one transaction are one.
LEMMA OneParser ==
    ASSUME NEW tr, NEW n \in Nat, NEW ps, ParsersOK(tr, n, ps), NEW w,
           \A k \in DOMAIN ps : ps[k].tx = w, \E k \in DOMAIN ps : ps[k].tx = w
    PROVE  DOMAIN ps = {1} /\ Len(ps) = 1
<1>1. PICK l : l = Len(ps)
  OBVIOUS
<1>2. l \in Nat /\ DOMAIN ps = 1 .. l
  BY <1>1 DEF ParsersOK
<1>3. \A i, j \in 1 .. l : i < j => ps[i].tx < ps[j].tx
  BY <1>2 DEF ParsersOK
<1>4. \A k \in DOMAIN ps : ParserOK(tr, n, ps[k])
  BY DEF ParsersOK
<1>5. \A k \in DOMAIN ps : ps[k].tx \in Int
  BY <1>4, ParserStays
<1>6. l # 0
  BY <1>2
<1>7. ~ (l > 1)
  BY <1>2, <1>3, <1>5
<1>8. l = 1
  BY <1>2, <1>6, <1>7
<1> QED
  BY <1>1, <1>2, <1>8

\* The trace gives a refusal and nothing else.
LEMMA OnlyRefused ==
    ASSUME NEW tr, NEW n \in Nat, NEW ps, ParsersOK(tr, n, ps), n > 0, IsExecuteInsufficientGas(tr),
           \A i \in 1 .. n - 1 : Matching(tr[i]) \cap Others = {}
    PROVE  Len(ps) = 1 /\ DOMAIN ps = {1} /\ ps[1] = Refused(tr) /\ ps[1].log.ok
<1>1. \A k \in DOMAIN ps : ps[k] = Refused(tr) /\ ps[k].log.ok
  BY DEF ParsersOK, ParserOK, ScannedAs
<1>2. Refused(tr).tx = 0
  BY EntryIs DEF Refused
<1>3. \E k \in DOMAIN ps : ps[k].tx = 0
  BY DEF ParsersOK
<1>4. DOMAIN ps = {1} /\ Len(ps) = 1
  BY <1>1, <1>2, <1>3, OneParser
<1> QED
  BY <1>1, <1>4

\* The trace gives transaction w, of this kind, and nothing else.
LEMMA OnlyOne ==
    ASSUME NEW tr, NEW n \in Nat, NEW ps, ParsersOK(tr, n, ps), ~IsExecuteInsufficientGas(tr),
           NEW w \in 1 .. n - 1, NEW kind \in Others, kind \in Matching(tr[w]),
           \A i \in 1 .. n - 1 : i # w => Matching(tr[i]) \cap Others = {}
    PROVE  Len(ps) = 1 /\ DOMAIN ps = {1} /\ ps[1] = ReadAs(tr, kind, w) /\ Log(kind, tr[w]).ok
<1>1. ASSUME NEW k \in DOMAIN ps PROVE ps[k].tx = w /\ ps[k] = ReadAs(tr, kind, w) /\ Log(kind, tr[w]).ok
  <2>1. PICK b \in Others : ps[k] = ReadAs(tr, b, ps[k].tx) /\ ScannedAs(tr, n, b, ps[k].tx)
    BY DEF ParsersOK, ParserOK
  <2>2. ps[k].tx \in 1 .. n - 1 /\ b \in Matching(tr[ps[k].tx]) /\ Log(b, tr[ps[k].tx]).ok
    BY <2>1 DEF ScannedAs
  <2>3. ps[k].tx = w
    BY <2>2
  <2>4. b = kind
    BY <2>2, <2>3, MatchingOne
  <2> QED
    BY <2>1, <2>2, <2>3, <2>4
<1>2. \E k \in DOMAIN ps : ps[k].tx = w
  BY DEF ParsersOK
<1>3. DOMAIN ps = {1} /\ Len(ps) = 1
  BY <1>1, <1>2, OneParser
<1> QED
  BY <1>1, <1>3

\* What a log that was read says.
LEMMA WrappedRead ==
    ASSUME NEW call, NEW value, NEW dest, NEW log, log = RelayerExecuteWrapped(Transfer(call, value, dest)), log.ok
    PROVE  /\ log.message_id = cell_to_buffer(call.refs[1].refs[1])
           /\ log.source_chain = cell_to_buffer(call.refs[1].refs[2])
<1>1. PICK c : c = Transfer(call, value, dest)
  OBVIOUS
<1>2. PICK action : action = OutAction(call, value, dest)
  OBVIOUS
<1>3. action.refs[1] = call
  BY <1>2 DEF OutAction, Cell
<1>4. c.refs[1] = Cell(<<Field("mode", "IGNORE_ERRORS")>>, <<Cell(<<>>, <<>>), action>>)
  BY <1>1, <1>2 DEF Transfer, internal_transfer_body, Cell
<1>5. c.refs[1].refs[2] = action
  BY <1>4 DEF Cell
<1>6. PICK message : message = call.refs[1]
  OBVIOUS
<1>7. c.refs[1].refs[2].refs[1].refs[1] = message
  BY <1>3, <1>5, <1>6
<1>8. log = Fails \/ log = [ok |-> TRUE, message_id |-> cell_to_buffer(c.refs[1].refs[2].refs[1].refs[1].refs[1]),
                            source_chain |-> cell_to_buffer(c.refs[1].refs[2].refs[1].refs[1].refs[2])]
  BY <1>1 DEF RelayerExecuteWrapped
<1>9. log # Fails
  BY DEF Fails
<1>10. log = [ok |-> TRUE, message_id |-> cell_to_buffer(message.refs[1]), source_chain |-> cell_to_buffer(message.refs[2])]
  BY <1>7, <1>8, <1>9
<1> QED
  BY <1>6, <1>10

\* What is read of an executed message.
LEMMA NullifiedRead ==
    ASSUME NEW c, NEW log, log = NullifiedSuccessfully(c), log.ok
    PROVE  log.message_id = cell_to_buffer(c.refs[1]) /\ log.source_chain = cell_to_buffer(c.refs[2])
<1>1. log = Fails \/ log = [ok |-> TRUE, message_id |-> cell_to_buffer(c.refs[1]),
                            source_chain |-> cell_to_buffer(c.refs[2])]
  BY DEF NullifiedSuccessfully
<1>2. log # Fails
  BY DEF Fails
<1> QED
  BY <1>1, <1>2

\* What is read of an approved message.
LEMMA ApprovedRead ==
    ASSUME NEW c, NEW log, log = CCMessage(c), log.ok
    PROVE  log.message_id = cell_to_buffer(c.refs[1]) /\ log.source_chain = cell_to_buffer(c.refs[2])
<1>1. log = Fails \/ log = [ok |-> TRUE, message_id |-> cell_to_buffer(c.refs[1]),
                            source_chain |-> cell_to_buffer(c.refs[2]), payload_hash |-> Data(c.refs[4], 1)]
  BY DEF CCMessage
<1>2. log # Fails
  BY DEF Fails
<1> QED
  BY <1>1, <1>2

----------------------------------------------------------------------------
(* The outcome of an execution. *)

\* The operation codes that the contracts of an execution use.
OpsAre(tr) ==
    /\ tr[1].op = None /\ tr[2].op = "INTERNAL_TRANSFER" /\ tr[3].op = "RELAYER_EXECUTE"
    /\ tr[4].op \in {None, "NULLIFY_IF_APPROVED"}
    /\ Len(tr) >= 6 => tr[6].op = "GATEWAY_EXECUTE"

\* The trace of an execution, as the parsers see it.
LEMMA ExecuteOps ==
    ASSUME NEW j, JobOK(j), j.kind = "execute", NEW tr, ExecuteTraceIs(tr, j)
    PROVE  /\ Len(tr) \in 4 .. 6 /\ Listed(tr, Len(tr)) /\ OpsAre(tr)
           /\ \A i \in 1 .. Len(tr) : i # 5 => Matching(tr[i]) = {}
           /\ Len(tr) >= 5 => Matching(tr[5]) \subseteq {"MESSAGE_EXECUTED"}
<1>1. j.outcome \in {"short", "unapproved", "action", "executed", "executed_log_last"}
  BY DEF JobOK, Outcomes
<1>2. Len(tr) \in 4 .. 6 /\ Listed(tr, Len(tr)) /\ OpsAre(tr)
  BY <1>1 DEF ExecuteTraceIs, WalletIs, ExecuteIs, TxIs, OpsAre
<1>3. \A i \in 1 .. Len(tr) : i # 5 => Matching(tr[i]) = {}
  <2>1. \A i \in 1 .. Len(tr) : i # 5 => i \in {1, 2, 3, 4} \/ (i = 6 /\ Len(tr) >= 6)
    <3>1. PICK l \in 4 .. 6 : l = Len(tr)
      BY <1>2
    <3>2. \A i \in 1 .. l : i # 5 => i = 1 \/ i = 2 \/ i = 3 \/ i = 4 \/ (i = 6 /\ l >= 6)
      OBVIOUS
    <3> QED
      BY <3>1, <3>2
  <2>a. Matching(tr[1]) = {}
    BY <1>2, Unmatched DEF OpsAre
  <2>b. Matching(tr[2]) = {}
    BY <1>2, Unmatched DEF OpsAre
  <2>c. Matching(tr[3]) = {}
    BY <1>2, Unmatched DEF OpsAre
  <2>d. Matching(tr[4]) = {}
    BY <1>2, Unmatched DEF OpsAre
  <2>3. Len(tr) >= 6 => Matching(tr[6]) = {}
    BY <1>2, Unmatched DEF OpsAre
  <2> QED
    BY <2>1, <2>a, <2>b, <2>c, <2>d, <2>3
<1>4. Len(tr) >= 5 => tr[5].op \in {None, "NULLIFIED_SUCCESSFULLY"}
  BY <1>1, <1>2 DEF ExecuteTraceIs, ExecuteIs, TxIs
<1>5. ASSUME Len(tr) >= 5, NEW kind \in Matching(tr[5]) PROVE kind = "MESSAGE_EXECUTED"
  <2>1. kind \in Kinds /\ tr[5].op \in Ops(kind)
    BY <1>5, MatchingKinds, OpMatters
  <2> QED
    BY <1>4, <1>5, <2>1 DEF Kinds, Ops, None
<1> QED
  BY <1>2, <1>3, <1>5

\* Which outcomes the parser takes for a refusal.
LEMMA RefusedOutcomes ==
    ASSUME NEW j, JobOK(j), j.kind = "execute", NEW tr, ExecuteTraceIs(tr, j)
    PROVE  IsExecuteInsufficientGas(tr) <=> j.outcome \in {"short", "action"}
<1>1. PICK call : call = RelayerExecute(j.message, Wallet)
  OBVIOUS
<1>2. PICK value : value = execute_send(j.message.payload)
  OBVIOUS
<1>3. PICK o : o = j.outcome
  OBVIOUS
<1>4. o \in {"short", "unapproved", "action", "executed", "executed_log_last"}
  BY <1>3 DEF JobOK, Outcomes
<1>5. tr[2].out_msgs = <<Out(Gateway, Data(call, 1), call, value)>>
  BY <1>1, <1>2 DEF ExecuteTraceIs, WalletIs, TxIs
<1>6. Len(tr[2].out_msgs) = 1 /\ tr[2].out_msgs[1].op = "RELAYER_EXECUTE"
  <2>1. Data(call, 1) = "RELAYER_EXECUTE"
    BY <1>1, ExecuteBody
  <2>2. Out(Gateway, Data(call, 1), call, value).op = "RELAYER_EXECUTE"
    BY <2>1 DEF Out
  <2> QED
    BY <1>5, <2>2
<1>7. ExecuteIs(tr, call, o)
  BY <1>1, <1>3 DEF ExecuteTraceIs
<1>8. CASE o = "short"
  <2>1. Len(tr) = 4 /\ tr[3].account = Gateway /\ tr[3].exit_code = 106
    BY <1>7, <1>8 DEF ExecuteIs, TxIs
  <2> QED
    BY <1>3, <1>6, <1>8, <2>1 DEF IsExecuteInsufficientGas
<1>9. CASE o = "action"
  <2>1. Len(tr) = 5 /\ tr[5].op = "NULLIFIED_SUCCESSFULLY" /\ tr[5].result_code = 37
    BY <1>7, <1>9 DEF ExecuteIs, TxIs
  <2> QED
    BY <1>3, <1>9, <2>1 DEF IsExecuteInsufficientGas
<1>10. CASE o = "unapproved"
  <2>1. Len(tr) = 5 /\ tr[5].op = None /\ tr[3].exit_code = 0
    BY <1>7, <1>10 DEF ExecuteIs, TxIs
  <2> QED
    BY <1>3, <1>10, <2>1 DEF IsExecuteInsufficientGas, None
<1>11. CASE o \in {"executed", "executed_log_last"}
  <2>1. Len(tr) = 6 /\ tr[3].exit_code = 0
    BY <1>7, <1>11 DEF ExecuteIs, TxIs
  <2> QED
    BY <1>3, <1>11, <2>1 DEF IsExecuteInsufficientGas
<1> QED
  BY <1>4, <1>8, <1>9, <1>10, <1>11

\* Which outcomes it takes for an execution.
LEMMA ExecutedOutcomes ==
    ASSUME NEW j, JobOK(j), j.kind = "execute", NEW tr, ExecuteTraceIs(tr, j)
    PROVE  /\ j.outcome \in {"executed", "executed_log_last"} => Len(tr) = 6 /\ "MESSAGE_EXECUTED" \in Matching(tr[5])
           /\ j.outcome \notin {"executed", "executed_log_last"} /\ Len(tr) >= 5 => Matching(tr[5]) = {}
<1>1. PICK call : call = RelayerExecute(j.message, Wallet)
  OBVIOUS
<1>2. PICK o : o = j.outcome
  OBVIOUS
<1>3. o \in {"short", "unapproved", "action", "executed", "executed_log_last"}
  BY <1>2 DEF JobOK, Outcomes
<1>4. ExecuteIs(tr, call, o)
  BY <1>1, <1>2 DEF ExecuteTraceIs
<1>5. PICK l : l = LogOut(Empty)
  OBVIOUS
<1>6. l.destination = None /\ Execute.destination = "app" /\ Execute.op = "GATEWAY_EXECUTE"
  BY <1>5 DEF LogOut, Out, Execute
<1>7. CASE o \in {"executed", "executed_log_last"}
  <2>1. /\ Len(tr) = 6 /\ tr[5].account = Gateway /\ tr[5].op = "NULLIFIED_SUCCESSFULLY"
        /\ tr[5].out_msgs \in {<<l, Execute>>, <<Execute, l>>}
    BY <1>4, <1>5, <1>7 DEF ExecuteIs, TxIs
  <2>2. ASSUME tr[5].out_msgs = <<l, Execute>> PROVE IsMessageExecuted(tr[5])
    <3>1. 1 \in DOMAIN tr[5].out_msgs /\ 2 \in DOMAIN tr[5].out_msgs /\ tr[5].out_msgs[1] = l /\ tr[5].out_msgs[2] = Execute
      BY <2>2
    <3> QED
      BY <1>6, <2>1, <3>1 DEF IsMessageExecuted, is_log_emmitted
  <2>3. ASSUME tr[5].out_msgs = <<Execute, l>> PROVE IsMessageExecuted(tr[5])
    <3>1. 1 \in DOMAIN tr[5].out_msgs /\ 2 \in DOMAIN tr[5].out_msgs /\ tr[5].out_msgs[2] = l /\ tr[5].out_msgs[1] = Execute
      BY <2>3
    <3> QED
      BY <1>6, <2>1, <3>1 DEF IsMessageExecuted, is_log_emmitted, None
  <2>4. IsMessageExecuted(tr[5])
    BY <2>1, <2>2, <2>3
  <2>5. Matching(tr[5]) # {}
    BY <2>4, MatchedBySome
  <2>6. Len(tr) >= 5
    BY <2>1
  <2>7. Matching(tr[5]) \subseteq {"MESSAGE_EXECUTED"}
    BY <2>6, ExecuteOps
  <2> QED
    BY <1>2, <1>7, <2>1, <2>5, <2>7
<1>8. CASE o = "short"
  <2>1. Len(tr) = 4
    BY <1>4, <1>8 DEF ExecuteIs
  <2> QED
    BY <1>2, <1>8, <2>1
<1>9. CASE o = "unapproved"
  <2>1. Matching(tr[5]) = {}
    BY <1>4, <1>9, Unmatched DEF ExecuteIs, TxIs
  <2> QED
    BY <1>2, <1>9, <2>1
<1>10. CASE o = "action"
  <2>1. tr[5].out_msgs = <<>> /\ Len(tr) = 5
    BY <1>4, <1>10 DEF ExecuteIs, TxIs
  <2>2. ~IsMessageExecuted(tr[5])
    BY <2>1 DEF IsMessageExecuted, is_log_emmitted
  <2>3. Len(tr) >= 5
    BY <2>1
  <2>4. Matching(tr[5]) \subseteq {"MESSAGE_EXECUTED"}
    BY <2>3, ExecuteOps
  <2>5. "MESSAGE_EXECUTED" \notin Matching(tr[5])
    BY <2>2, MatchingMeans
  <2> QED
    BY <1>2, <1>10, <2>4, <2>5
<1> QED
  BY <1>3, <1>7, <1>8, <1>9, <1>10

\* The one event that an execution gives, if any.
Reported(type, id, m, amount) == Event(type, id, <<m.message_id, m.source_chain>>, amount)

\* The events of an execution, by its outcome.
LEMMA ExecuteEvents ==
    ASSUME RelayInv, stage = "done", job.kind = "execute"
    PROVE  /\ job.outcome \in {"short", "action"} =>
                 DOMAIN events = {1} /\ Len(events) = 1 /\ events[1] = Reported("CANNOT_EXECUTE", 0, job.message, 0)
           /\ job.outcome = "unapproved" => events = <<>>
           /\ job.outcome \in {"executed", "executed_log_last"} =>
                 /\ DOMAIN events = {1} /\ Len(events) = 1
                 /\ events[1] = Reported("MESSAGE_EXECUTED", 5, job.message, calc_message_gas(trace))
<1>1. JobOK(job) /\ trace = TraceFor(job) /\ job.message \in Messages
  <2>1. JobOK(job) /\ trace = TraceFor(job)
    BY DEF RelayInv, ControlOK, Parsed
  <2> QED
    BY <2>1 DEF JobOK
<1>2. ExecuteTraceIs(trace, job)
  BY <1>1, ExecuteShape
<1>3. PICK n : n = Len(trace) + 1
  OBVIOUS
<1>4. n = at /\ n \in 5 .. 7 /\ ParsersOK(trace, n, parsers) /\ Len(trace) \in 4 .. 6
  <2>1. Len(trace) \in 4 .. 6
    BY <1>1, <1>2, ExecuteOps
  <2>2. at = Len(trace) + 1 /\ ParsersOK(trace, at, parsers)
    BY DEF RelayInv, ScanOK
  <2>3. PICK l \in 4 .. 6 : l = Len(trace)
    BY <2>1
  <2>4. n = l + 1
    BY <1>3, <2>3, Zenon
  <2>5. n \in 5 .. 7
    <3>1. \A x \in 4 .. 6 : x + 1 \in 5 .. 7
      OBVIOUS
    <3> QED
      BY <2>4, <3>1, Zenon
  <2> QED
    BY <1>3, <2>1, <2>2, <2>5
<1>5. \A i \in 1 .. n - 1 : i # 5 => Matching(trace[i]) = {}
  <2>1. n - 1 = Len(trace)
    BY <1>3, <1>4
  <2> QED
    BY <1>1, <1>2, <2>1, ExecuteOps
<1>6. 5 \in 1 .. n - 1 => Len(trace) >= 5
  BY <1>3, <1>4
<1>7. 5 \in 1 .. n - 1 => Matching(trace[5]) \subseteq {"MESSAGE_EXECUTED"}
  BY <1>1, <1>2, <1>6, ExecuteOps
<1>8. \A i \in 1 .. Len(trace) : "CALL" \notin Matching(trace[i])
  <2>1. \A i \in 1 .. n - 1 : "CALL" \notin Matching(trace[i])
    BY <1>5, <1>7
  <2> QED
    BY <1>3, <1>4, <2>1
<1>9. /\ events = [i \in DOMAIN parsers |-> OtherEvent(parsers[i])]
      /\ DOMAIN events = DOMAIN parsers /\ Len(events) = Len(parsers)
  BY <1>8, NoCalls
<1>10. PICK m : m = job.message
  OBVIOUS
<1>11. PICK call : call = RelayerExecute(m, Wallet)
  OBVIOUS
<1>12. PICK value : value = execute_send(m.payload)
  OBVIOUS
<1>13. /\ cell_to_buffer(call.refs[1].refs[1]) = m.message_id
       /\ cell_to_buffer(call.refs[1].refs[2]) = m.source_chain
  <2>1. /\ call.refs[1].refs[1] = build_cell_chain(m.message_id)
        /\ call.refs[1].refs[2] = build_cell_chain(m.source_chain)
    BY <1>11, ExecuteTexts
  <2>2. m \in Messages
    BY <1>1, <1>10
  <2> QED
    BY <2>1, <2>2, TextsReadBack
<1>14. CASE job.outcome \in {"short", "action"}
  <2>1. IsExecuteInsufficientGas(trace)
    BY <1>1, <1>2, <1>14, RefusedOutcomes
  <2>2. \A i \in 1 .. n - 1 : Matching(trace[i]) \cap Others = {}
    <3>1. 5 \in 1 .. n - 1 => Matching(trace[5]) = {}
      BY <1>1, <1>2, <1>6, <1>14, ExecutedOutcomes
    <3> QED
      BY <1>5, <3>1
  <2>3. Len(parsers) = 1 /\ DOMAIN parsers = {1} /\ parsers[1] = Refused(trace) /\ parsers[1].log.ok
    BY <1>4, <2>1, <2>2, OnlyRefused
  <2>4. PICK p : p = parsers[1]
    OBVIOUS
  <2>5. /\ p.kind = "CANNOT_EXECUTE" /\ p.tx = 0 /\ p.log = RelayerExecuteWrapped(trace[1].out_msgs[1].body)
        /\ p.log.ok
    BY <2>3, <2>4, EntryIs DEF Refused
  <2>6. trace[1].out_msgs[1].body = Transfer(call, value, Gateway)
    <3>1. trace[1].out_msgs
            = <<Out(Wallet, "INTERNAL_TRANSFER", Transfer(call, value, Gateway), highload_wallet_send(1))>>
      BY <1>2, <1>10, <1>11, <1>12 DEF ExecuteTraceIs, WalletIs, TxIs
    <3> QED
      BY <3>1 DEF Out
  <2>7. p.log.message_id = m.message_id /\ p.log.source_chain = m.source_chain
    BY <1>13, <2>5, <2>6, WrappedRead
  <2>8. OtherEvent(p) = CannotExecuteEvent(p)
    BY <2>5 DEF OtherEvent
  <2>9. CannotExecuteEvent(p) = Reported("CANNOT_EXECUTE", 0, m, 0)
    BY <2>5, <2>7 DEF CannotExecuteEvent, Named, Reported
  <2>10. events[1] = OtherEvent(p)
    BY <1>9, <2>3, <2>4
  <2> QED
    BY <1>9, <1>10, <1>14, <2>3, <2>8, <2>9, <2>10
<1>15. CASE job.outcome = "unapproved"
  <2>1. ~IsExecuteInsufficientGas(trace)
    BY <1>1, <1>2, <1>15, RefusedOutcomes
  <2>2. \A i \in 1 .. n - 1 : Matching(trace[i]) \cap Others = {}
    <3>1. 5 \in 1 .. n - 1 => Matching(trace[5]) = {}
      BY <1>1, <1>2, <1>6, <1>15, ExecutedOutcomes
    <3> QED
      BY <1>5, <3>1
  <2>3. parsers = <<>>
    BY <1>4, <2>1, <2>2, NoParser
  <2>4. events \in [1 .. 0 -> {}]
    BY <1>9, <2>3
  <2>5. events \in Seq({})
    BY <2>4
  <2>6. events = <<>>
    BY <2>5, EmptySeq
  <2> QED
    BY <1>15, <2>6
<1>16. CASE job.outcome \in {"executed", "executed_log_last"}
  <2>1. ~IsExecuteInsufficientGas(trace)
    BY <1>1, <1>2, <1>16, RefusedOutcomes
  <2>2. Len(trace) = 6 /\ "MESSAGE_EXECUTED" \in Matching(trace[5])
    BY <1>1, <1>2, <1>16, ExecutedOutcomes
  <2>3. 5 \in 1 .. n - 1 /\ "MESSAGE_EXECUTED" \in Others
    BY <1>3, <2>2 DEF Others, Kinds, Paid
  <2>4. \A i \in 1 .. n - 1 : i # 5 => Matching(trace[i]) \cap Others = {}
    BY <1>5
  <2>5. /\ Len(parsers) = 1 /\ DOMAIN parsers = {1} /\ parsers[1] = ReadAs(trace, "MESSAGE_EXECUTED", 5)
        /\ Log("MESSAGE_EXECUTED", trace[5]).ok
    BY <1>4, <2>1, <2>2, <2>3, <2>4, OnlyOne
  <2>6. PICK p : p = parsers[1]
    OBVIOUS
  <2>7. p.kind = "MESSAGE_EXECUTED" /\ p.tx = 5 /\ p.log = Log("MESSAGE_EXECUTED", trace[5]) /\ p.log.ok
    BY <2>5, <2>6, EntryIs DEF ReadAs
  <2>8. p.log = NullifiedSuccessfully(Nullified(call))
    <3>1. trace[5].body = Nullified(call)
      BY <1>2, <1>10, <1>11, <1>16 DEF ExecuteTraceIs, ExecuteIs, TxIs
    <3> QED
      BY <2>7, <3>1 DEF Log
  <2>9. Nullified(call).refs = call.refs[1].refs
    BY DEF Nullified, Cell
  <2>10. p.log.message_id = m.message_id /\ p.log.source_chain = m.source_chain
    BY <1>13, <2>7, <2>8, <2>9, NullifiedRead
  <2>11. OtherEvent(p) = ExecutedEvent(p)
    BY <2>7 DEF OtherEvent
  <2>12. ExecutedEvent(p) = Reported("MESSAGE_EXECUTED", 5, m, calc_message_gas(trace))
    BY <2>7, <2>10 DEF ExecutedEvent, Named, Reported
  <2>13. events[1] = OtherEvent(p)
    BY <1>9, <2>5, <2>6
  <2> QED
    BY <1>9, <1>10, <1>16, <2>5, <2>11, <2>12, <2>13
<1> QED
  BY <1>14, <1>15, <1>16

\* What the events say of an execution.
LEMMA ExecuteNames ==
    ASSUME RelayInv, stage = "done", job.kind = "execute"
    PROVE  LET m == <<job.message.message_id, job.message.source_chain>>
               names(type) == {e.message : e \in EventsOf(type)}
           IN  /\ names("MESSAGE_EXECUTED") = IF job.outcome \in {"executed", "executed_log_last"} THEN {m} ELSE {}
               /\ names("CANNOT_EXECUTE") = IF job.outcome \in {"short", "action"} THEN {m} ELSE {}
               /\ Len(events) <= 1
<1>1. PICK m : m = <<job.message.message_id, job.message.source_chain>>
  OBVIOUS
<1>2. job.outcome \in {"short", "unapproved", "action", "executed", "executed_log_last"}
  BY DEF RelayInv, ControlOK, Parsed, JobOK, Outcomes
<1>3. \A type, id, amount : /\ Reported(type, id, job.message, amount).message = m
                            /\ Reported(type, id, job.message, amount).type = type
  BY <1>1 DEF Reported, Event
<1>4. ASSUME NEW type, DOMAIN events = {1} PROVE EventsOf(type) = IF events[1].type = type THEN {events[1]} ELSE {}
  BY <1>4 DEF EventsOf
<1>5. CASE job.outcome \in {"short", "action"}
  <2>1. /\ DOMAIN events = {1} /\ Len(events) = 1 /\ events[1].type = "CANNOT_EXECUTE" /\ events[1].message = m
    BY <1>3, <1>5, ExecuteEvents
  <2> QED
    BY <1>1, <1>4, <1>5, <2>1
<1>6. CASE job.outcome = "unapproved"
  <2>1. events = <<>>
    BY <1>6, ExecuteEvents
  <2>2. \A type : EventsOf(type) = {}
    BY <2>1 DEF EventsOf
  <2> QED
    BY <1>6, <2>1, <2>2
<1>7. CASE job.outcome \in {"executed", "executed_log_last"}
  <2>1. /\ DOMAIN events = {1} /\ Len(events) = 1 /\ events[1].type = "MESSAGE_EXECUTED" /\ events[1].message = m
    BY <1>3, <1>7, ExecuteEvents
  <2> QED
    BY <1>1, <1>4, <1>7, <2>1
<1> QED
  BY <1>2, <1>5, <1>6, <1>7

----------------------------------------------------------------------------
(* The outcome of an approval. *)

\* The trace of an approval of n messages, as the parser finds it.
ApproveMatched(tr, n) ==
    /\ n \in Nat /\ n >= 1 /\ Len(tr) = 3 + n + n
    /\ ~IsExecuteInsufficientGas(tr)
    /\ \A i \in 1 .. 3 + n : Matching(tr[i]) = {}
    /\ \A i \in 1 .. n : Matching(tr[3 + n + i]) = {"MESSAGE_APPROVED"}

\* The trace of an approval, as the parsers see it.
LEMMA ApproveOps ==
    ASSUME NEW j, NEW tr, ApproveTraceIs(tr, j)
    PROVE  ApproveMatched(tr, Len(j.messages))
<1>n. PICK n : n = Len(j.messages)
  OBVIOUS
<1>1. PICK ms : ms = j.messages
  OBVIOUS
<1>2. PICK call : call = ApprovalBlob(ms)
  OBVIOUS
<1>3. ApproveIs(tr, call, ms, n) /\ WalletIs(tr, ExtFor(j), call, approve_send, Gateway)
  BY <1>n, <1>1, <1>2 DEF ApproveTraceIs
<1>4. n \in Nat /\ n >= 1 /\ Listed(tr, 3 + n + n) /\ tr[3].exit_code = 0 /\ tr[3].op = "APPROVE_MESSAGES"
  BY <1>3 DEF ApproveIs, TxIs
<1>5. PICK l : l = 3 + n + n
  OBVIOUS
<1>6. Len(tr) = l
  <2>1. Listed(tr, l)
    BY <1>4, <1>5
  <2> QED
    BY <2>1, ListedIs
<1>7. tr[1].op = None /\ tr[2].op = "INTERNAL_TRANSFER"
  BY <1>3 DEF WalletIs, TxIs
<1>8. ASSUME NEW i \in 1 .. n
      PROVE  /\ tr[3 + i].op = "MESSAGE_APPROVE"
             /\ tr[3 + n + i].op = "MESSAGE_APPROVED" /\ tr[3 + n + i].account = Gateway
             /\ tr[3 + n + i].out_msgs = <<LogOut(ApprovedLog(ms[i]))>>
  BY <1>3 DEF ApproveIs, TxIs
<1>9. ~IsExecuteInsufficientGas(tr)
  <2>1. ASSUME l = 5 PROVE tr[5].op = "MESSAGE_APPROVED"
    <3>1. 3 + n + n = 5 => n = 1
      BY <1>4
    <3>2. n = 1
      BY <1>5, <2>1, <3>1
    <3> QED
      BY <1>8, <3>2
  <2>2. Len(tr) = 5 => tr[5].op # "NULLIFIED_SUCCESSFULLY"
    BY <1>6, <2>1
  <2> QED
    BY <1>4, <2>2 DEF IsExecuteInsufficientGas
<1>10. ASSUME NEW i \in 1 .. 3 + n PROVE Matching(tr[i]) = {}
  <2>1. i = 1 \/ i = 2 \/ i = 3 \/ \E k \in 1 .. n : i = 3 + k
    <3>1. i \in {1, 2, 3} \/ (i - 3 \in 1 .. n /\ i = 3 + (i - 3))
      BY <1>4
    <3> QED
      BY <3>1
  <2>2. tr[i].op \in {None, "INTERNAL_TRANSFER", "RELAYER_EXECUTE", "NULLIFY_IF_APPROVED", "GATEWAY_EXECUTE",
                      "APPROVE_MESSAGES", "MESSAGE_APPROVE"}
    BY <1>4, <1>7, <1>8, <2>1
  <2> QED
    BY <2>2, Unmatched
<1>11. ASSUME NEW i \in 1 .. n PROVE Matching(tr[3 + n + i]) = {"MESSAGE_APPROVED"}
  <2>1. PICK t : t = tr[3 + n + i]
    OBVIOUS
  <2>2. t.op = "MESSAGE_APPROVED" /\ t.account = Gateway /\ t.out_msgs = <<LogOut(ApprovedLog(ms[i]))>>
    BY <1>8, <2>1
  <2>3. LogOut(ApprovedLog(ms[i])).destination = None
    BY DEF LogOut, Out
  <2>4. 1 \in DOMAIN t.out_msgs /\ t.out_msgs[1] = LogOut(ApprovedLog(ms[i]))
    BY <2>2
  <2>5. IsMessageApproved(t)
    BY <2>2, <2>3, <2>4 DEF IsMessageApproved, is_log_emmitted
  <2>6. Matching(t) # {}
    BY <2>5, MatchedBySome
  <2>7. ASSUME NEW kind \in Matching(t) PROVE kind = "MESSAGE_APPROVED"
    <3>1. kind \in Kinds /\ t.op \in Ops(kind)
      BY MatchingKinds, OpMatters
    <3> QED
      BY <2>2, <3>1 DEF Kinds, Ops
  <2> QED
    BY <2>1, <2>6, <2>7
<1> QED
  BY <1>n, <1>4, <1>5, <1>6, <1>9, <1>10, <1>11 DEF ApproveMatched

\* A one-to-one numbering of n things has n numbers.
LEMMA Numbered ==
    ASSUME NEW l \in Nat, NEW n \in Nat, NEW f \in [1 .. l -> 1 .. n],
           \A i, k \in 1 .. l : i < k => f[i] # f[k],
           \A m \in 1 .. n : \E k \in 1 .. l : f[k] = m
    PROVE  l = n
<1>1. f \in Bijection(1 .. l, 1 .. n)
  <2>1. \A i, k \in 1 .. l : f[i] = f[k] => i = k
    <3>1. \A i, k \in 1 .. l : i < k \/ k < i \/ i = k
      OBVIOUS
    <3> QED
      BY <3>1
  <2> QED
    BY <2>1 DEF Bijection, Injection, Surjection, IsInjective
<1>2. ExistsBijection(1 .. l, 1 .. n)
  BY <1>1 DEF ExistsBijection
<1>3. Cardinality(1 .. n) = l
  BY <1>2, FS_CountingElements
<1>4. Cardinality(1 .. n) = IF 1 > n THEN 0 ELSE n - 1 + 1
  BY FS_Interval
<1> QED
  BY <1>3, <1>4

\* The collected parsers are those of the n approvals, in some order.
ApproveParsed(tr, n, ps) ==
    /\ Len(ps) = n /\ DOMAIN ps = 1 .. n
    /\ \A k \in 1 .. n : \E i \in 1 .. n : ps[k] = ReadAs(tr, "MESSAGE_APPROVED", 3 + n + i)
    /\ \A i \in 1 .. n : /\ \E k \in 1 .. n : ps[k] = ReadAs(tr, "MESSAGE_APPROVED", 3 + n + i)
                         /\ Log("MESSAGE_APPROVED", tr[3 + n + i]).ok

\* The parsers collected of an approval.
LEMMA ApproveParsers ==
    ASSUME NEW tr, NEW n, ApproveMatched(tr, n), NEW ps, ParsersOK(tr, 4 + n + n, ps)
    PROVE  ApproveParsed(tr, n, ps)
<1>1. n \in Nat /\ n >= 1 /\ ~IsExecuteInsufficientGas(tr)
  BY DEF ApproveMatched
<1>2. PICK l : l = Len(ps)
  OBVIOUS
<1>3. l \in Nat /\ DOMAIN ps = 1 .. l
  BY <1>2 DEF ParsersOK
<1>4. "MESSAGE_APPROVED" \in Others
  BY DEF Others, Kinds, Paid
<1>5. ASSUME NEW k \in 1 .. l
      PROVE  \E i \in 1 .. n : /\ ps[k].tx = 3 + n + i /\ ps[k] = ReadAs(tr, "MESSAGE_APPROVED", 3 + n + i)
                               /\ Log("MESSAGE_APPROVED", tr[3 + n + i]).ok
  <2>1. PICK kind \in Others : ps[k] = ReadAs(tr, kind, ps[k].tx) /\ ScannedAs(tr, 4 + n + n, kind, ps[k].tx)
    BY <1>1, <1>3 DEF ParsersOK, ParserOK
  <2>2. PICK x : x = ps[k].tx
    OBVIOUS
  <2>3. x \in 1 .. (4 + n + n) - 1 /\ kind \in Matching(tr[x]) /\ Log(kind, tr[x]).ok
    BY <2>1, <2>2 DEF ScannedAs
  <2>4. x \notin 1 .. 3 + n
    BY <2>3 DEF ApproveMatched
  <2>5. x - (3 + n) \in 1 .. n /\ x = 3 + n + (x - (3 + n))
    BY <1>1, <2>3, <2>4
  <2>6. PICK i \in 1 .. n : x = 3 + n + i
    BY <2>5
  <2>7. kind = "MESSAGE_APPROVED"
    <3>1. Matching(tr[x]) = {"MESSAGE_APPROVED"}
      BY <2>6 DEF ApproveMatched
    <3> QED
      BY <2>3, <3>1
  <2> QED
    BY <2>1, <2>2, <2>3, <2>6, <2>7
<1>6. ASSUME NEW i \in 1 .. n PROVE \E k \in 1 .. l : ps[k].tx = 3 + n + i
  <2>1. 3 + n + i \in 1 .. (4 + n + n) - 1
    BY <1>1
  <2>2. Matching(tr[3 + n + i]) \cap Others # {}
    BY <1>4 DEF ApproveMatched
  <2> QED
    BY <1>3, <2>1, <2>2 DEF ParsersOK
<1>7. l = n
  <2>1. \A k \in 1 .. l : \E i \in 1 .. n : ps[k].tx = 3 + n + i
    BY <1>5
  <2>2. \A k \in 1 .. l : ps[k].tx \in Int /\ ps[k].tx - (3 + n) \in 1 .. n
    <3>1. \A i \in 1 .. n : \A x : x = 3 + n + i => x \in Int /\ x - (3 + n) \in 1 .. n
      BY <1>1
    <3> QED
      BY <2>1, <3>1, Zenon
  <2>3. PICK f : f = [k \in 1 .. l |-> ps[k].tx - (3 + n)]
    OBVIOUS
  <2>4. f \in [1 .. l -> 1 .. n]
    BY <2>2, <2>3
  <2>5. ASSUME NEW i \in 1 .. l, NEW k \in 1 .. l, i < k PROVE f[i] # f[k]
    <3>1. ps[i].tx < ps[k].tx
      BY <1>3, <2>5 DEF ParsersOK
    <3> QED
      BY <1>1, <2>2, <2>3, <3>1
  <2>6. ASSUME NEW m \in 1 .. n PROVE \E k \in 1 .. l : f[k] = m
    <3>1. PICK k \in 1 .. l : ps[k].tx = 3 + n + m
      BY <1>6
    <3>2. f[k] = m
      BY <1>1, <2>3, <3>1
    <3> QED
      BY <3>2
  <2> QED
    BY <1>1, <1>3, <2>4, <2>5, <2>6, Numbered
<1>8. ASSUME NEW i \in 1 .. n
      PROVE  /\ \E k \in 1 .. n : ps[k] = ReadAs(tr, "MESSAGE_APPROVED", 3 + n + i)
             /\ Log("MESSAGE_APPROVED", tr[3 + n + i]).ok
  <2>1. PICK k \in 1 .. n : ps[k].tx = 3 + n + i
    BY <1>6, <1>7
  <2>2. PICK h \in 1 .. n : /\ ps[k].tx = 3 + n + h /\ ps[k] = ReadAs(tr, "MESSAGE_APPROVED", 3 + n + h)
                            /\ Log("MESSAGE_APPROVED", tr[3 + n + h]).ok
    BY <1>5, <1>7
  <2>3. h = i
    <3>1. 3 + n + h = 3 + n + i
      BY <2>1, <2>2
    <3> QED
      BY <1>1, <3>1
  <2> QED
    BY <2>2, <2>3
<1> QED
  BY <1>2, <1>3, <1>5, <1>7, <1>8 DEF ApproveParsed

\* The event for the approval of message i of n, and the events of all of them.
Approved(ms, n, i, share) == Reported("MESSAGE_APPROVED", 3 + n + i, ms[i], share)
ApproveReported(es, ms, n, share) ==
    /\ Len(es) = n /\ DOMAIN es = 1 .. n /\ n \in Nat /\ n >= 1
    /\ \A k \in 1 .. n : \E i \in 1 .. n : es[k] = Approved(ms, n, i, share)
    /\ \A i \in 1 .. n : \E k \in 1 .. n : es[k] = Approved(ms, n, i, share)

\* The log of an approval names the message.
LEMMA ApprovedLogRead ==
    ASSUME NEW m \in Messages, CCMessage(ApprovedLog(m)).ok
    PROVE  /\ CCMessage(ApprovedLog(m)).message_id = m.message_id
           /\ CCMessage(ApprovedLog(m)).source_chain = m.source_chain
<1>1. PICK c : c = ApprovedLog(m)
  OBVIOUS
<1>2. c.refs = Text(m) \o <<Cell(Hash(m), Destination(m))>>
  BY <1>1 DEF ApprovedLog, Cell
<1>3. c.refs[1] = build_cell_chain(m.message_id) /\ c.refs[2] = build_cell_chain(m.source_chain)
  BY <1>2 DEF Text
<1>4. PICK log : log = CCMessage(c)
  OBVIOUS
<1>5. log.message_id = cell_to_buffer(c.refs[1]) /\ log.source_chain = cell_to_buffer(c.refs[2])
  BY <1>1, <1>4, ApprovedRead
<1> QED
  BY <1>1, <1>3, <1>4, <1>5, TextsReadBack

\* The events of an approval.
LEMMA ApproveEvents ==
    ASSUME RelayInv, stage = "done", job.kind = "approve"
    PROVE  ApproveReported(events, job.messages, Len(job.messages), calc_message_gas(trace) \div Len(job.messages))
<1>1. JobOK(job) /\ trace = TraceFor(job)
  BY DEF RelayInv, ControlOK, Parsed
<1>2. PICK ms : ms = job.messages
  OBVIOUS
<1>3. PICK n : n = Len(ms)
  OBVIOUS
<1>4. ms \in Seq(Messages) /\ n \in Nat /\ DOMAIN ms = 1 .. n
  BY <1>1, <1>2, <1>3 DEF JobOK
<1>5. ApproveTraceIs(trace, job)
  BY <1>1, ApproveShape
<1>6. ApproveMatched(trace, n)
  BY <1>2, <1>3, <1>5, ApproveOps
<1>7. Len(trace) = 3 + n + n /\ n >= 1
  BY <1>6 DEF ApproveMatched
<1>8. at = 4 + n + n
  <2>1. at = Len(trace) + 1
    BY DEF RelayInv, ScanOK
  <2>2. (3 + n + n) + 1 = 4 + n + n
    BY <1>4
  <2> QED
    BY <1>7, <2>1, <2>2, Zenon
<1>9. ApproveParsed(trace, n, parsers)
  <2>1. ParsersOK(trace, at, parsers)
    BY DEF RelayInv, ScanOK
  <2> QED
    BY <1>6, <1>8, <2>1, ApproveParsers
<1>10. \A i \in 1 .. Len(trace) : "CALL" \notin Matching(trace[i])
  <2> SUFFICES ASSUME NEW i \in 1 .. 3 + n + n PROVE "CALL" \notin Matching(trace[i])
    BY <1>7
  <2>1. CASE i \in 1 .. 3 + n
    BY <1>6, <2>1 DEF ApproveMatched
  <2>2. CASE i \notin 1 .. 3 + n
    <3>1. i - (3 + n) \in 1 .. n /\ i = 3 + n + (i - (3 + n))
      BY <1>4, <2>2
    <3>2. Matching(trace[i]) = {"MESSAGE_APPROVED"}
      BY <1>6, <3>1 DEF ApproveMatched
    <3> QED
      BY <3>2
  <2> QED
    BY <2>1, <2>2
<1>11. /\ events = [i \in DOMAIN parsers |-> OtherEvent(parsers[i])]
       /\ DOMAIN events = DOMAIN parsers /\ Len(events) = Len(parsers)
  BY <1>10, NoCalls
<1>12. Len(events) = n /\ DOMAIN events = 1 .. n /\ DOMAIN parsers = 1 .. n
  BY <1>9, <1>11 DEF ApproveParsed
<1>13. PICK share : share = calc_message_gas(trace) \div n
  OBVIOUS
<1>14. ApprovedCount = n
  <2>1. \A k \in 1 .. n : parsers[k].kind = "MESSAGE_APPROVED"
    <3>1. \A i : ReadAs(trace, "MESSAGE_APPROVED", i).kind = "MESSAGE_APPROVED"
      BY EntryIs DEF ReadAs
    <3>2. \A k \in 1 .. n : \E i \in 1 .. n : parsers[k] = ReadAs(trace, "MESSAGE_APPROVED", 3 + n + i)
      BY <1>9 DEF ApproveParsed
    <3> QED
      BY <3>1, <3>2, Zenon
  <2>2. {i \in DOMAIN parsers : parsers[i].kind = "MESSAGE_APPROVED"} = 1 .. n
    BY <1>12, <2>1
  <2>3. Cardinality(1 .. n) = IF 1 > n THEN 0 ELSE n - 1 + 1
    BY <1>4, FS_Interval
  <2>4. Cardinality(1 .. n) = n
    BY <1>4, <2>3
  <2> QED
    BY <2>2, <2>4 DEF ApprovedCount
<1>15. ASSUME NEW i \in 1 .. n, NEW p, p = ReadAs(trace, "MESSAGE_APPROVED", 3 + n + i)
       PROVE  OtherEvent(p) = Approved(ms, n, i, share)
  <2>1. p.kind = "MESSAGE_APPROVED" /\ p.tx = 3 + n + i /\ p.log = Log("MESSAGE_APPROVED", trace[3 + n + i])
    BY <1>15, EntryIs DEF ReadAs
  <2>2. p.log.ok
    BY <1>9, <2>1 DEF ApproveParsed
  <2>3. trace[3 + n + i].out_msgs = <<LogOut(ApprovedLog(ms[i]))>>
    BY <1>2, <1>3, <1>5 DEF ApproveTraceIs, ApproveIs, TxIs
  <2>4. trace[3 + n + i].out_msgs[1].body = ApprovedLog(ms[i])
    BY <2>3 DEF LogOut, Out
  <2>5. p.log = CCMessage(ApprovedLog(ms[i]))
    BY <2>1, <2>4 DEF Log
  <2>6. ms[i] \in Messages
    BY <1>4
  <2>7. p.log.message_id = ms[i].message_id /\ p.log.source_chain = ms[i].source_chain
    BY <2>2, <2>5, <2>6, ApprovedLogRead
  <2>8. OtherEvent(p) = ApprovedEvent(p)
    BY <2>1 DEF OtherEvent
  <2> QED
    BY <1>13, <1>14, <2>1, <2>7, <2>8 DEF ApprovedEvent, Approved, Reported, Named
<1>16. \A k \in 1 .. n : events[k] = OtherEvent(parsers[k])
  BY <1>11, <1>12
<1>17. ASSUME NEW k \in 1 .. n PROVE \E i \in 1 .. n : events[k] = Approved(ms, n, i, share)
  <2>1. PICK i \in 1 .. n : parsers[k] = ReadAs(trace, "MESSAGE_APPROVED", 3 + n + i)
    BY <1>9 DEF ApproveParsed
  <2> QED
    BY <1>15, <1>16, <2>1
<1>18. ASSUME NEW i \in 1 .. n PROVE \E k \in 1 .. n : events[k] = Approved(ms, n, i, share)
  <2>1. PICK k \in 1 .. n : parsers[k] = ReadAs(trace, "MESSAGE_APPROVED", 3 + n + i)
    BY <1>9 DEF ApproveParsed
  <2> QED
    BY <1>15, <1>16, <2>1
<1>19. ApproveReported(events, ms, n, share)
  BY <1>4, <1>7, <1>12, <1>17, <1>18 DEF ApproveReported
<1> QED
  BY <1>2, <1>3, <1>13, <1>19

\* All events of an approval report one.
LEMMA ApproveEventsOf ==
    ASSUME NEW ms, NEW n, NEW share, ApproveReported(events, ms, n, share)
    PROVE  EventsOf("MESSAGE_APPROVED") = {Approved(ms, n, i, share) : i \in 1 .. n}
<1>1. \A i : Approved(ms, n, i, share).type = "MESSAGE_APPROVED"
  BY DEF Approved, Reported, Event
<1>2. DOMAIN events = 1 .. n
  BY DEF ApproveReported
<1>3. /\ \A k \in 1 .. n : \E i \in 1 .. n : events[k] = Approved(ms, n, i, share)
      /\ \A i \in 1 .. n : \E k \in 1 .. n : events[k] = Approved(ms, n, i, share)
  BY DEF ApproveReported
<1>4. EventsOf("MESSAGE_APPROVED") = {events[k] : k \in 1 .. n}
  BY <1>1, <1>2, <1>3 DEF EventsOf
<1> QED
  BY <1>3, <1>4

\* What the events say of an approval.
LEMMA ApproveNames ==
    ASSUME RelayInv, stage = "done", job.kind = "approve"
    PROVE  /\ {e.message : e \in EventsOf("MESSAGE_APPROVED")}
                = {<<m.message_id, m.source_chain>> : m \in Range(job.messages)}
           /\ Len(events) = Len(job.messages)
<1>1. PICK ms : ms = job.messages
  OBVIOUS
<1>2. PICK n : n = Len(ms)
  OBVIOUS
<1>3. PICK share : share = calc_message_gas(trace) \div n
  OBVIOUS
<1>4. ApproveReported(events, ms, n, share)
  BY <1>1, <1>2, <1>3, ApproveEvents
<1>5. EventsOf("MESSAGE_APPROVED") = {Approved(ms, n, i, share) : i \in 1 .. n}
  BY <1>4, ApproveEventsOf
<1>6. DOMAIN ms = 1 .. n
  BY <1>1, <1>2 DEF RelayInv, ControlOK, Parsed, JobOK
<1>7. \A i : Approved(ms, n, i, share).message = <<ms[i].message_id, ms[i].source_chain>>
  BY DEF Approved, Reported, Event
<1>8. Range(ms) = {ms[i] : i \in 1 .. n}
  BY <1>6 DEF Range
<1>9. {e.message : e \in EventsOf("MESSAGE_APPROVED")} = {<<ms[i].message_id, ms[i].source_chain>> : i \in 1 .. n}
  <2>1. {e.message : e \in EventsOf("MESSAGE_APPROVED")} = {Approved(ms, n, i, share).message : i \in 1 .. n}
    BY <1>5
  <2> QED
    BY <1>7, <2>1
<1>10. {<<m.message_id, m.source_chain>> : m \in Range(ms)} = {<<ms[i].message_id, ms[i].source_chain>> : i \in 1 .. n}
  BY <1>8
<1>11. Len(events) = n
  BY <1>4 DEF ApproveReported
<1> QED
  BY <1>1, <1>2, <1>9, <1>10, <1>11

\* TasksAnswered, for every set of accounts, messages, acts and estimates: a task that
\* is acknowledged is with the chain or Axelar was told, and the events of its trace name
\* it, each message of an approval under its own id.
THEOREM TasksAreAnswered == RelaySpec => []TasksAnswered
<1>1. ASSUME RelayInv PROVE OutcomeNamesTask
  BY <1>1, ExecuteNames, ApproveNames DEF OutcomeNamesTask
<1>2. RelayInv => TasksAnswered
  BY <1>1, TypesHold, NoneDropped DEF TasksAnswered
<1> QED
  BY <1>2, RelayInvariant, PTL

----------------------------------------------------------------------------
(* What a trace costs the relayer. *)

\* The accounts of the relayer are finitely many.
LEMMA OursFinite == IsFiniteSet(Ours) /\ None \notin Ours
<1>1. IsFiniteSet(Wallets) /\ None \notin Ours
  BY RelayAssumption
<1>2. IsFiniteSet(Wallets \cup {Gateway})
  BY <1>1, FS_AddElement
<1>3. IsFiniteSet((Wallets \cup {Gateway}) \cup {GasService})
  BY <1>2, FS_AddElement
<1>4. Ours = (Wallets \cup {Gateway}) \cup {GasService}
  BY DEF Ours
<1> QED
  BY <1>1, <1>3, <1>4

\* The sum of the negated values.
LEMMA SumNegated ==
    ASSUME NEW S, IsFiniteSet(S), NEW f, NEW h, \A x \in S : f[x] \in Int /\ h[x] = -f[x]
    PROVE  SumFunctionOnSet(h, S) = -SumFunctionOnSet(f, S)
<1> DEFINE z == [x \in S |-> 0]
<1>1. SumFunctionOnSet(z, S) = Cardinality(S) * 0
  BY SumConstant
<1>2. \A x \in S : z[x] \in Int /\ f[x] \in Int /\ h[x] = z[x] - f[x]
  OBVIOUS
<1> HIDE DEF z
<1>3. SumFunctionOnSet(h, S) = SumFunctionOnSet(z, S) - SumFunctionOnSet(f, S)
  BY <1>2, SumCombine
<1>4. Cardinality(S) \in Nat /\ SumFunctionOnSet(f, S) \in Int
  BY FS_CardinalityType, SumType
<1> QED
  BY <1>1, <1>3, <1>4

\* The fees and the messages of a transaction are priced; a log carries no value.
MessagePriced(msg) == msg.value \in Int /\ msg.fwd_fee \in Int /\ (msg.destination = None => msg.value = 0)
Priced(t) ==
    /\ t.total_fees \in Int /\ IsFiniteSet(DOMAIN t.out_msgs)
    /\ \A k \in DOMAIN t.out_msgs : MessagePriced(t.out_msgs[k])

\* What a message, and a transaction, brings an account.
Flow(t, msg, a) ==
    (IF msg.destination = a THEN msg.value ELSE 0) - (IF t.account = a THEN msg.fwd_fee + msg.value ELSE 0)
Change(t, a) ==
    SumFunction([k \in DOMAIN t.out_msgs |-> Flow(t, t.out_msgs[k], a)])
    - (IF t.account = a THEN t.total_fees ELSE 0)
TxCost(t) ==
    (IF t.account \in Ours THEN t.total_fees ELSE 0)
    + SumFunction([k \in DOMAIN t.out_msgs |-> MessageCost(t, t.out_msgs[k])])

\* What a message moves between the accounts of the relayer adds up to its cost.
LEMMA MessageBalance ==
    ASSUME NEW t, Priced(t), NEW k \in DOMAIN t.out_msgs, NEW f, \A a \in Ours : f[a] = Flow(t, t.out_msgs[k], a)
    PROVE  /\ SumFunctionOnSet(f, Ours) = -MessageCost(t, t.out_msgs[k])
           /\ MessageCost(t, t.out_msgs[k]) \in Int
<1>1. PICK msg : msg = t.out_msgs[k]
  OBVIOUS
<1>2. PICK v : v = msg.value
  OBVIOUS
<1>3. PICK w : w = msg.fwd_fee
  OBVIOUS
<1>4. PICK x : x = msg.fwd_fee + msg.value
  OBVIOUS
<1>5. PICK d : d = msg.destination
  OBVIOUS
<1>6. v \in Int /\ w \in Int /\ (d = None => v = 0)
  BY <1>1, <1>2, <1>3, <1>5 DEF Priced, MessagePriced
<1>7. x \in Int /\ x = w + v
  <2>1. x = w + v
    BY <1>2, <1>3, <1>4, Zenon
  <2> QED
    BY <1>6, <2>1
<1>8. PICK in : in = [a \in Ours |-> IF a = d THEN v ELSE 0]
  OBVIOUS
<1>9. PICK out : out = [a \in Ours |-> IF a = t.account THEN x ELSE 0]
  OBVIOUS
<1>10. /\ \A a \in Ours : in[a] = IF a = d THEN v ELSE 0
       /\ \A a \in Ours : out[a] = IF a = t.account THEN x ELSE 0
  BY <1>8, <1>9
<1>11. SumFunctionOnSet(in, Ours) = IF d \in Ours THEN v ELSE 0
  BY <1>6, <1>10, OursFinite, SumPoint
<1>12. SumFunctionOnSet(out, Ours) = IF t.account \in Ours THEN x ELSE 0
  BY <1>7, <1>10, OursFinite, SumPoint
<1>13. \A a \in Ours : in[a] \in Int /\ out[a] \in Int /\ f[a] = in[a] - out[a]
  <2>1. \A a \in Ours : f[a] = (IF d = a THEN v ELSE 0) - (IF t.account = a THEN x ELSE 0)
    BY <1>1, <1>2, <1>4, <1>5 DEF Flow
  <2> QED
    BY <1>6, <1>7, <1>10, <2>1
<1>14. SumFunctionOnSet(f, Ours) = SumFunctionOnSet(in, Ours) - SumFunctionOnSet(out, Ours)
  BY <1>13, OursFinite, SumCombine
<1>15. MessageCost(t, msg) = (IF t.account \in Ours THEN w ELSE 0)
                             + (IF d = None THEN 0
                                ELSE IF t.account \in Ours /\ d \notin Ours THEN v
                                ELSE IF t.account \notin Ours /\ d \in Ours THEN -v ELSE 0)
  BY <1>2, <1>3, <1>5 DEF MessageCost, us_sending, us_receiving
<1> HIDE DEF Ours
<1>16. MessageCost(t, msg) \in Int
  BY <1>6, <1>15
<1>17. SumFunctionOnSet(f, Ours) = -MessageCost(t, msg)
  BY <1>6, <1>7, <1>11, <1>12, <1>14, <1>15, OursFinite
<1> QED
  BY <1>1, <1>16, <1>17

\* A sum over the domain of a function.
LEMMA SumsOver ==
    ASSUME NEW f, NEW S, DOMAIN f = S
    PROVE  SumFunction(f) = SumFunctionOnSet(f, S)
BY DEF SumFunction

\* What a message moves is an integer.
LEMMA FlowType ==
    ASSUME NEW t, Priced(t), NEW k \in DOMAIN t.out_msgs, NEW a
    PROVE  Flow(t, t.out_msgs[k], a) \in Int
BY DEF Priced, MessagePriced, Flow

\* The change of a balance is an integer.
LEMMA ChangeType ==
    ASSUME NEW t, Priced(t), NEW a
    PROVE  Change(t, a) \in Int
<1>1. PICK f : f = [k \in DOMAIN t.out_msgs |-> Flow(t, t.out_msgs[k], a)]
  OBVIOUS
<1>2. PICK D : D = DOMAIN t.out_msgs
  OBVIOUS
<1>3. DOMAIN f = D /\ IsFiniteSet(D) /\ t.total_fees \in Int
  BY <1>1, <1>2 DEF Priced
<1>4. \A k \in D : f[k] \in Int
  BY <1>1, <1>2, FlowType
<1>5. SumFunctionOnSet(f, D) \in Int
  BY <1>3, <1>4, SumType
<1>6. SumFunction(f) \in Int
  BY <1>3, <1>5, SumsOver
<1>7. Change(t, a) = SumFunction(f) - (IF t.account = a THEN t.total_fees ELSE 0)
  BY <1>1 DEF Change
<1> QED
  BY <1>3, <1>6, <1>7

\* The cost of a transaction is an integer.
LEMMA TxCostType ==
    ASSUME NEW t, Priced(t)
    PROVE  TxCost(t) \in Int
<1>1. PICK f : f = [k \in DOMAIN t.out_msgs |-> MessageCost(t, t.out_msgs[k])]
  OBVIOUS
<1>2. PICK D : D = DOMAIN t.out_msgs
  OBVIOUS
<1>3. DOMAIN f = D /\ IsFiniteSet(D) /\ t.total_fees \in Int
  BY <1>1, <1>2 DEF Priced
<1>4. ASSUME NEW k \in D PROVE f[k] \in Int
  <2>1. PICK g : g = [a \in Ours |-> Flow(t, t.out_msgs[k], a)]
    OBVIOUS
  <2>2. \A a \in Ours : g[a] = Flow(t, t.out_msgs[k], a)
    BY <2>1
  <2>3. MessageCost(t, t.out_msgs[k]) \in Int
    BY <1>2, <2>2, MessageBalance
  <2> QED
    BY <1>1, <1>2, <2>3
<1>5. SumFunctionOnSet(f, D) \in Int
  BY <1>3, <1>4, SumType
<1>6. SumFunction(f) \in Int
  BY <1>3, <1>5, SumsOver
<1>7. TxCost(t) = (IF t.account \in Ours THEN t.total_fees ELSE 0) + SumFunction(f)
  BY <1>1 DEF TxCost
<1> QED
  BY <1>3, <1>6, <1>7

\* What a transaction moves adds up to its cost.
LEMMA TxBalance ==
    ASSUME NEW t, Priced(t), NEW f, \A a \in Ours : f[a] = Change(t, a)
    PROVE  SumFunctionOnSet(f, Ours) = -TxCost(t)
<1>1. PICK D : D = DOMAIN t.out_msgs
  OBVIOUS
<1>2. PICK fees : fees = t.total_fees
  OBVIOUS
<1>3. IsFiniteSet(D) /\ fees \in Int /\ IsFiniteSet(Ours)
  BY <1>1, <1>2, OursFinite DEF Priced
<1>4. PICK M : M = [a \in Ours |-> [k \in D |-> Flow(t, t.out_msgs[k], a)]]
  OBVIOUS
<1>5. \A a \in Ours : M[a] = [k \in D |-> Flow(t, t.out_msgs[k], a)] /\ DOMAIN M[a] = D
  BY <1>4
<1>6. \A a \in Ours, k \in D : M[a][k] = Flow(t, t.out_msgs[k], a) /\ M[a][k] \in Int
  <2> SUFFICES ASSUME NEW a \in Ours, NEW k \in D PROVE M[a][k] = Flow(t, t.out_msgs[k], a) /\ M[a][k] \in Int
    OBVIOUS
  <2>1. M[a][k] = Flow(t, t.out_msgs[k], a)
    BY <1>5
  <2>2. Flow(t, t.out_msgs[k], a) \in Int
    BY <1>1, FlowType
  <2> QED
    BY <2>1, <2>2
<1>7. PICK rows : rows = [a \in Ours |-> SumFunctionOnSet(M[a], D)]
  OBVIOUS
<1>8. PICK columns : columns = [k \in D |-> SumFunctionOnSet(ColumnOf(M, Ours, k), Ours)]
  OBVIOUS
<1>9. \A a \in Ours : rows[a] = SumFunctionOnSet(M[a], D) /\ rows[a] \in Int
  <2> SUFFICES ASSUME NEW a \in Ours PROVE rows[a] = SumFunctionOnSet(M[a], D) /\ rows[a] \in Int
    OBVIOUS
  <2>1. rows[a] = SumFunctionOnSet(M[a], D)
    BY <1>7
  <2>2. SumFunctionOnSet(M[a], D) \in Int
    BY <1>3, <1>6, SumType
  <2> QED
    BY <2>1, <2>2
<1>10. \A k \in D : columns[k] = SumFunctionOnSet(ColumnOf(M, Ours, k), Ours)
  BY <1>8
<1>11. SumFunctionOnSet(rows, Ours) = SumFunctionOnSet(columns, D)
  BY <1>3, <1>6, <1>9, <1>10, SumExchange
<1>12. PICK costs : costs = [k \in D |-> MessageCost(t, t.out_msgs[k])]
  OBVIOUS
<1>13. ASSUME NEW k \in D PROVE costs[k] \in Int /\ columns[k] = -costs[k]
  <2>1. PICK g : g = [a \in Ours |-> M[a][k]]
    OBVIOUS
  <2>2. \A a \in Ours : g[a] = Flow(t, t.out_msgs[k], a)
    BY <1>6, <2>1
  <2>3. SumFunctionOnSet(g, Ours) = -MessageCost(t, t.out_msgs[k]) /\ MessageCost(t, t.out_msgs[k]) \in Int
    BY <1>1, <2>2, MessageBalance
  <2>4. columns[k] = SumFunctionOnSet(g, Ours) /\ costs[k] = MessageCost(t, t.out_msgs[k])
    BY <1>10, <1>12, <2>1 DEF ColumnOf
  <2> QED
    BY <2>3, <2>4
<1>14. SumFunctionOnSet(columns, D) = -SumFunctionOnSet(costs, D)
  BY <1>3, <1>13, SumNegated
<1>15. PICK paid : paid = [a \in Ours |-> IF a = t.account THEN fees ELSE 0]
  OBVIOUS
<1>16. \A a \in Ours : paid[a] = IF a = t.account THEN fees ELSE 0
  BY <1>15
<1>17. SumFunctionOnSet(paid, Ours) = IF t.account \in Ours THEN fees ELSE 0
  BY <1>3, <1>16, SumPoint
<1>18. \A a \in Ours : rows[a] \in Int /\ paid[a] \in Int /\ f[a] = rows[a] - paid[a]
  <2> SUFFICES ASSUME NEW a \in Ours PROVE rows[a] \in Int /\ paid[a] \in Int /\ f[a] = rows[a] - paid[a]
    OBVIOUS
  <2>1. SumFunction(M[a]) = rows[a]
    BY <1>5, <1>9, SumsOver
  <2>2. f[a] = SumFunction(M[a]) - (IF t.account = a THEN fees ELSE 0)
    BY <1>1, <1>2, <1>5 DEF Change
  <2>3. paid[a] = IF t.account = a THEN fees ELSE 0
    BY <1>16
  <2> QED
    BY <1>3, <1>9, <2>1, <2>2, <2>3
<1>19. SumFunctionOnSet(f, Ours) = SumFunctionOnSet(rows, Ours) - SumFunctionOnSet(paid, Ours)
  BY <1>3, <1>18, SumCombine
<1>20. SumFunctionOnSet(costs, D) \in Int
  BY <1>3, <1>13, SumType
<1>21. TxCost(t) = (IF t.account \in Ours THEN fees ELSE 0) + SumFunctionOnSet(costs, D)
  <2>1. SumFunction(costs) = SumFunctionOnSet(costs, D)
    BY <1>12, SumsOver
  <2> QED
    BY <1>1, <1>2, <1>12, <2>1 DEF TxCost
<1> QED
  BY <1>3, <1>11, <1>14, <1>17, <1>19, <1>20, <1>21

\* Every transaction of the trace is priced.
TracePriced(tr) == IsFiniteSet(DOMAIN tr) /\ \A i \in DOMAIN tr : Priced(tr[i])

\* The balances of the relayer's accounts change by what the trace cost.
LEMMA SpentIsCost ==
    ASSUME TracePriced(trace)
    PROVE  Spent = cost(trace) /\ cost(trace) \in Int
<1>1. PICK T : T = DOMAIN trace
  OBVIOUS
<1>2. IsFiniteSet(T) /\ IsFiniteSet(Ours)
  BY <1>1, OursFinite DEF TracePriced
<1>3. PICK M : M = [a \in Ours |-> [i \in T |-> Change(trace[i], a)]]
  OBVIOUS
<1>4. \A a \in Ours : M[a] = [i \in T |-> Change(trace[i], a)] /\ DOMAIN M[a] = T
  BY <1>3
<1>5. \A a \in Ours, i \in T : M[a][i] = Change(trace[i], a) /\ M[a][i] \in Int
  <2> SUFFICES ASSUME NEW a \in Ours, NEW i \in T PROVE M[a][i] = Change(trace[i], a) /\ M[a][i] \in Int
    OBVIOUS
  <2>1. M[a][i] = Change(trace[i], a)
    BY <1>4
  <2>2. Change(trace[i], a) \in Int
    <3>1. Priced(trace[i])
      BY <1>1 DEF TracePriced
    <3> QED
      BY <3>1, ChangeType
  <2> QED
    BY <2>1, <2>2
<1>6. PICK rows : rows = [a \in Ours |-> SumFunctionOnSet(M[a], T)]
  OBVIOUS
<1>7. PICK columns : columns = [i \in T |-> SumFunctionOnSet(ColumnOf(M, Ours, i), Ours)]
  OBVIOUS
<1>8. \A a \in Ours : rows[a] = SumFunctionOnSet(M[a], T)
  BY <1>6
<1>9. \A i \in T : columns[i] = SumFunctionOnSet(ColumnOf(M, Ours, i), Ours)
  BY <1>7
<1>10. SumFunctionOnSet(rows, Ours) = SumFunctionOnSet(columns, T)
  <2>1. \A a \in Ours, i \in T : M[a][i] \in Int
    BY <1>5
  <2> QED
    BY <1>2, <1>8, <1>9, <2>1, SumExchange
<1>11. PICK costs : costs = [i \in T |-> TxCost(trace[i])]
  OBVIOUS
<1>12. ASSUME NEW i \in T PROVE costs[i] \in Int /\ columns[i] = -costs[i]
  <2>1. PICK g : g = [a \in Ours |-> M[a][i]]
    OBVIOUS
  <2>2. \A a \in Ours : g[a] = Change(trace[i], a)
    BY <1>5, <2>1
  <2>3. Priced(trace[i])
    BY <1>1 DEF TracePriced
  <2>4. SumFunctionOnSet(g, Ours) = -TxCost(trace[i]) /\ TxCost(trace[i]) \in Int
    BY <2>2, <2>3, TxBalance, TxCostType
  <2>5. columns[i] = SumFunctionOnSet(g, Ours) /\ costs[i] = TxCost(trace[i])
    BY <1>9, <1>11, <2>1 DEF ColumnOf
  <2> QED
    BY <2>4, <2>5
<1>13. SumFunctionOnSet(columns, T) = -SumFunctionOnSet(costs, T) /\ SumFunctionOnSet(costs, T) \in Int
  BY <1>2, <1>12, SumNegated, SumType
<1>14. cost(trace) = SumFunctionOnSet(costs, T)
  <2>1. cost(trace) = SumFunction(costs)
    BY <1>1, <1>11 DEF cost, TxCost
  <2>2. DOMAIN costs = T
    BY <1>11
  <2> QED
    BY <2>1, <2>2, SumsOver
<1>15. Spent = -SumFunctionOnSet(rows, Ours)
  <2>1. \A a \in Ours : BalanceChange(a) = rows[a]
    <3> SUFFICES ASSUME NEW a \in Ours PROVE BalanceChange(a) = rows[a]
      OBVIOUS
    <3>1. BalanceChange(a) = SumFunction(M[a])
      BY <1>1, <1>4 DEF BalanceChange, Change, Flow
    <3> QED
      BY <1>4, <1>8, <3>1, SumsOver
  <2>2. rows = [a \in Ours |-> rows[a]]
    BY <1>6
  <2>3. rows = [a \in Ours |-> BalanceChange(a)]
    BY <2>1, <2>2
  <2>4. DOMAIN rows = Ours
    BY <2>2
  <2>5. SumFunction(rows) = SumFunctionOnSet(rows, Ours)
    BY <2>4, SumsOver
  <2> QED
    BY <2>3, <2>5 DEF Spent
<1> QED
  BY <1>10, <1>13, <1>14, <1>15

\* The sum over two disjoint sets.
LEMMA SumUnion ==
    ASSUME NEW S, IsFiniteSet(S), NEW T, IsFiniteSet(T), S \cap T = {}, NEW f, \A x \in S \cup T : f[x] \in Int
    PROVE  SumFunctionOnSet(f, S \cup T) = SumFunctionOnSet(f, S) + SumFunctionOnSet(f, T)
<1> DEFINE C == {U \in SUBSET T : SumFunctionOnSet(f, S \cup U) = SumFunctionOnSet(f, S) + SumFunctionOnSet(f, U)}
<1>0. SumFunctionOnSet(f, S) \in Int
  BY SumType
<1>1. {} \in C
  <2>1. S \cup {} = S
    OBVIOUS
  <2>2. SumFunctionOnSet(f, S) = SumFunctionOnSet(f, S) + 0
    BY <1>0
  <2> QED
    BY <2>1, <2>2, SumEmpty
<1>2. ASSUME NEW U \in SUBSET T, NEW x \in T, U \in C, x \notin U
      PROVE  U \cup {x} \in C
  <2>1. IsFiniteSet(U) /\ x \notin S \cup U
    BY <1>2, FS_Subset
  <2>2. IsFiniteSet(S \cup U)
    BY <2>1, FS_Union
  <2>3. SumFunctionOnSet(f, U \cup {x}) = f[x] + SumFunctionOnSet(f, U) /\ SumFunctionOnSet(f, U) \in Int
    BY <1>2, <2>1, SumInsert
  <2>4. SumFunctionOnSet(f, (S \cup U) \cup {x}) = f[x] + SumFunctionOnSet(f, S \cup U)
    <3>1. PICK V : V = S \cup U
      OBVIOUS
    <3>2. IsFiniteSet(V) /\ x \notin V /\ \A y \in V \cup {x} : f[y] \in Int
      BY <2>1, <2>2, <3>1
    <3>3. SumFunctionOnSet(f, V \cup {x}) = f[x] + SumFunctionOnSet(f, V)
      BY <3>2, SumInsert
    <3> QED
      BY <3>1, <3>3
  <2>5. (S \cup U) \cup {x} = S \cup (U \cup {x}) /\ f[x] \in Int
    OBVIOUS
  <2>6. SumFunctionOnSet(f, S \cup U) = SumFunctionOnSet(f, S) + SumFunctionOnSet(f, U)
    BY <1>2
  <2>7. SumFunctionOnSet(f, S \cup (U \cup {x})) = SumFunctionOnSet(f, S) + SumFunctionOnSet(f, U \cup {x})
    <3>1. SumFunctionOnSet(f, S \cup (U \cup {x})) = f[x] + SumFunctionOnSet(f, S \cup U)
      BY <2>4, <2>5, Zenon
    <3>2. \A a, b, c \in Int : a + (b + c) = b + (a + c)
      OBVIOUS
    <3>3. f[x] + (SumFunctionOnSet(f, S) + SumFunctionOnSet(f, U)) = SumFunctionOnSet(f, S) + (f[x] + SumFunctionOnSet(f, U))
      BY <1>0, <2>3, <2>5, <3>2, Zenon
    <3> QED
      BY <2>3, <2>6, <3>1, <3>3, Zenon
  <2> QED
    BY <2>7
<1>3. T \in C
  <2> HIDE DEF C
  <2> QED
    BY <1>1, <1>2, SubsetsOfFinite
<1> QED
  BY <1>3

\* A sum is at least any of its terms when the others are not negative.
LEMMA SumAtLeastOne ==
    ASSUME NEW S, IsFiniteSet(S), NEW x \in S, NEW f, f[x] \in Int, \A y \in S \ {x} : f[y] \in Nat
    PROVE  SumFunctionOnSet(f, S) \in Int /\ SumFunctionOnSet(f, S) >= f[x]
<1>1. IsFiniteSet(S \ {x})
  BY FS_RemoveElement
<1>2. SumFunctionOnSet(f, S \ {x}) \in Nat
  BY <1>1, SumAtLeastZero
<1>3. \A y \in S : f[y] \in Int
  OBVIOUS
<1>4. SumFunctionOnSet(f, S) = f[x] + SumFunctionOnSet(f, S \ {x})
  BY <1>3, SumTakeOut
<1> QED
  BY <1>2, <1>4

----------------------------------------------------------------------------
(* What the messages of a trace cost. *)

\* The values that are sent are naturals.
LEMMA SendValues ==
    /\ highload_wallet_send(1) \in Nat /\ approve_send \in Nat /\ RefundDust \in Nat
    /\ native_gas_refund_estimate \in Nat
    /\ \A m \in Messages : execute_send(m.payload) \in Nat
<1>1. /\ Estimate.highload_wallet_send \in Nat /\ Estimate.approve_send \in Nat /\ Estimate.execute_base \in Nat
      /\ Estimate.execute_payload \in Nat /\ Estimate.execute_storage_slippage \in Nat
      /\ Estimate.execute_send_min \in Nat
      /\ Estimate.native_gas_refund \in Nat /\ Estimate.native_gas_refund_storage_slippage \in Nat
  BY RelayAssumption DEF EstimateFields
<1>2. ASSUME NEW m \in Messages PROVE execute_send(m.payload) \in Nat
  <2>1. m.payload \in Seq(Bytes)
    BY RelayAssumption
  <2>2. Len(m.payload) \in Nat
    BY <2>1
  <2>3. Estimate.execute_payload * Len(m.payload) \in Nat
    BY <1>1, <2>2
  <2>4. execute_estimate(m.payload) \in Nat
    BY <1>1, <2>3 DEF execute_estimate
  <2> QED
    BY <1>1, <2>4, MaxOfTwo DEF execute_send
<1>3. highload_wallet_send(1) \in Nat
  BY <1>1 DEF highload_wallet_send
<1> QED
  BY <1>1, <1>2, <1>3 DEF approve_send, RefundDust, native_gas_refund_estimate

\* A message of the contracts is priced.
LEMMA OutPriced ==
    ASSUME NEW d, NEW op, NEW body, NEW v \in Int, d # None \/ v = 0
    PROVE  MessagePriced(Out(d, op, body, v))
BY DEF MessagePriced, Out, FwdFee

\* A transaction is priced when its messages are.
LEMMA TxPriced ==
    ASSUME NEW t, NEW a, NEW op, NEW body, NEW out, TxIs(t, a, op, body, out), NEW n, Listed(out, n),
           \A k \in 1 .. n : MessagePriced(out[k])
    PROVE  Priced(t)
<1>1. DOMAIN out = 1 .. n /\ n \in Nat
  BY ListedIs
<1>2. IsFiniteSet(1 .. n)
  BY <1>1, FS_Interval
<1> QED
  BY <1>1, <1>2 DEF TxIs, Priced, Fee

\* The same for at most two messages.
LEMMA TxPricedShort ==
    ASSUME NEW t, NEW a, NEW op, NEW body, NEW x, NEW y, MessagePriced(x), MessagePriced(y)
    PROVE  /\ TxIs(t, a, op, body, <<>>) => Priced(t)
           /\ TxIs(t, a, op, body, <<x>>) => Priced(t)
           /\ TxIs(t, a, op, body, <<x, y>>) => Priced(t)
<1>1. ASSUME TxIs(t, a, op, body, <<>>) PROVE Priced(t)
  <2>1. \A k \in 1 .. 0 : MessagePriced(<<>>[k])
    OBVIOUS
  <2> QED
    BY <1>1, <2>1, ListedTuples, TxPriced
<1>2. ASSUME TxIs(t, a, op, body, <<x>>) PROVE Priced(t)
  <2>1. \A k \in 1 .. 1 : MessagePriced(<<x>>[k])
    OBVIOUS
  <2> QED
    BY <1>2, <2>1, ListedTuples, TxPriced
<1>3. ASSUME TxIs(t, a, op, body, <<x, y>>) PROVE Priced(t)
  <2>1. \A k \in 1 .. 2 : MessagePriced(<<x, y>>[k])
    OBVIOUS
  <2> QED
    BY <1>3, <2>1, ListedTuples, TxPriced
<1> QED
  BY <1>1, <1>2, <1>3

\* Whose the accounts of the model are.
LEMMA OursAre ==
    /\ Wallet \in Ours /\ Gateway \in Ours /\ GasService \in Ours
    /\ "user" \notin Ours /\ "approval" \notin Ours /\ "app" \notin Ours
    /\ None \notin Ours
<1>1. Wallet \in Wallets
  BY RelayAssumption DEF Wallet
<1> QED
  BY <1>1, RelayAssumption DEF Ours

\* The transactions of the wallet are priced.
LEMMA WalletPriced ==
    ASSUME NEW tr, NEW ext, NEW call, NEW value \in Nat, NEW dest \in Ours, WalletIs(tr, ext, call, value, dest)
    PROVE  Priced(tr[1]) /\ Priced(tr[2])
<1>1. PICK x : x = Out(Wallet, "INTERNAL_TRANSFER", Transfer(call, value, dest), highload_wallet_send(1))
  OBVIOUS
<1>2. PICK y : y = Out(dest, Data(call, 1), call, value)
  OBVIOUS
<1>3. MessagePriced(x)
  <2>1. highload_wallet_send(1) \in Int /\ Wallet # None
    BY SendValues, OursAre
  <2> QED
    BY <1>1, <2>1, OutPriced
<1>4. MessagePriced(y)
  <2>1. dest # None /\ value \in Int
    BY OursAre
  <2> QED
    BY <1>2, <2>1, OutPriced
<1> QED
  BY <1>1, <1>2, <1>3, <1>4, TxPricedShort DEF WalletIs

\* A log is priced.
LEMMA LogPriced == \A body : MessagePriced(LogOut(body))
BY OutPriced DEF LogOut

\* The trace of an execution.
LEMMA ExecutePriced ==
    ASSUME NEW j, JobOK(j), j.kind = "execute", NEW tr, ExecuteTraceIs(tr, j)
    PROVE  TracePriced(tr)
<1>1. PICK call : call = RelayerExecute(j.message, Wallet)
  OBVIOUS
<1>2. PICK value : value = execute_send(j.message.payload)
  OBVIOUS
<1>3. PICK o : o = j.outcome
  OBVIOUS
<1>4. o \in {"short", "unapproved", "action", "executed", "executed_log_last"} /\ j.message \in Messages
  BY <1>3 DEF JobOK, Outcomes
<1>5. WalletIs(tr, ExtFor(j), call, value, Gateway) /\ ExecuteIs(tr, call, o) /\ Listed(tr, Len(tr))
  BY <1>1, <1>2, <1>3 DEF ExecuteTraceIs
<1>6. value \in Nat /\ Gateway \in Ours
  BY <1>2, <1>4, SendValues, OursAre
<1>7. Priced(tr[1]) /\ Priced(tr[2])
  BY <1>5, <1>6, WalletPriced
<1>8. PICK l : l = Len(tr)
  OBVIOUS
<1>9. l \in 4 .. 6 /\ DOMAIN tr = 1 .. l
  <2>1. l \in 4 .. 6
    BY <1>8, ExecuteOps
  <2>2. DOMAIN tr = 1 .. l
    BY <1>5, <1>8, ListedIs
  <2> QED
    BY <2>1, <2>2
<1>10. /\ Wallet # None /\ Gateway # None /\ "approval" # None /\ "app" # None
  BY OursAre DEF None
<1>11. Priced(tr[3])
  <2>1. MessagePriced(Out(Wallet, None, Empty, 6)) /\ MessagePriced(Out("approval", "NULLIFY_IF_APPROVED", Empty, 9))
    BY <1>10, OutPriced
  <2> QED
    BY <1>5, <2>1, TxPricedShort DEF ExecuteIs, Asked
<1>12. Priced(tr[4])
  <2>1. MessagePriced(Out(Gateway, None, Empty, 5)) /\ MessagePriced(Out(Gateway, "NULLIFIED_SUCCESSFULLY", Nullified(call), 5))
    BY <1>10, OutPriced
  <2> QED
    BY <1>4, <1>5, <2>1, TxPricedShort DEF ExecuteIs
<1>13. l >= 5 => Priced(tr[5])
  <2>1. MessagePriced(Execute) /\ MessagePriced(LogOut(Empty))
    BY <1>10, OutPriced, LogPriced DEF Execute
  <2>2. o = "short" => l = 4
    BY <1>5, <1>8 DEF ExecuteIs
  <2>3. o # "short" => Priced(tr[5])
    BY <1>4, <1>5, <2>1, TxPricedShort DEF ExecuteIs
  <2> QED
    BY <2>2, <2>3
<1>14. l >= 6 => Priced(tr[6])
  <2>1. o \in {"executed", "executed_log_last"} \/ l <= 5
    BY <1>4, <1>5, <1>8 DEF ExecuteIs
  <2>2. MessagePriced(LogOut(Empty))
    BY LogPriced
  <2>3. o \in {"executed", "executed_log_last"} => Priced(tr[6])
    BY <1>5, <2>2, TxPricedShort DEF ExecuteIs
  <2> QED
    BY <1>9, <2>1, <2>3
<1>15. \A i \in 1 .. l : i = 1 \/ i = 2 \/ i = 3 \/ i = 4 \/ (i = 5 /\ l >= 5) \/ (i = 6 /\ l >= 6)
  BY <1>9
<1>16. \A i \in DOMAIN tr : Priced(tr[i])
  BY <1>7, <1>9, <1>11, <1>12, <1>13, <1>14, <1>15
<1>17. IsFiniteSet(1 .. l)
  BY <1>9, FS_Interval
<1> QED
  BY <1>9, <1>16, <1>17 DEF TracePriced

\* calc_message_gas computes what the relayer has spent.
LEMMA GasIsSpent ==
    ASSUME TracePriced(trace)
    PROVE  calc_message_gas(trace) = Max({Spent, 0})
BY SpentIsCost DEF calc_message_gas

\* The cost of an execution.
LEMMA ExecuteCost ==
    ASSUME RelayInv, stage = "done", job.kind = "execute"
    PROVE  /\ \A e \in EventsOf("MESSAGE_EXECUTED") : e.amount = Max({Spent, 0})
           /\ EventsOf("MESSAGE_APPROVED") = {}
<1>1. JobOK(job) /\ trace = TraceFor(job)
  BY DEF RelayInv, ControlOK, Parsed
<1>2. ExecuteTraceIs(trace, job)
  BY <1>1, ExecuteShape
<1>3. calc_message_gas(trace) = Max({Spent, 0})
  BY <1>1, <1>2, ExecutePriced, GasIsSpent
<1>4. job.outcome \in {"short", "unapproved", "action", "executed", "executed_log_last"}
  BY <1>1 DEF JobOK, Outcomes
<1>5. \A type, id, m, amount : Reported(type, id, m, amount).type = type /\ Reported(type, id, m, amount).amount = amount
  BY DEF Reported, Event
<1>6. CASE job.outcome \in {"short", "action"}
  <2>1. DOMAIN events = {1} /\ events[1].type = "CANNOT_EXECUTE"
    BY <1>5, <1>6, ExecuteEvents
  <2> QED
    BY <2>1 DEF EventsOf
<1>7. CASE job.outcome = "unapproved"
  <2>1. events = <<>>
    BY <1>7, ExecuteEvents
  <2> QED
    BY <2>1 DEF EventsOf
<1>8. CASE job.outcome \in {"executed", "executed_log_last"}
  <2>1. DOMAIN events = {1} /\ events[1].type = "MESSAGE_EXECUTED" /\ events[1].amount = calc_message_gas(trace)
    BY <1>5, <1>8, ExecuteEvents
  <2> QED
    BY <1>3, <2>1 DEF EventsOf
<1> QED
  BY <1>4, <1>6, <1>7, <1>8

----------------------------------------------------------------------------
(* The cost of approvals and refunds is no less than nothing. *)

\* A message that does not bring its sender anything.
Given(msg) == msg.value \in Nat /\ msg.fwd_fee \in Nat

\* A message of the contracts has a value that is a natural.
LEMMA OutGiven ==
    ASSUME NEW d, NEW op, NEW body, NEW v \in Nat
    PROVE  Given(Out(d, op, body, v))
BY DEF Given, Out, FwdFee

\* A message that the relayer sends costs it no less than nothing.
LEMMA OwnMessageCost ==
    ASSUME NEW t, t.account \in Ours, NEW msg, Given(msg)
    PROVE  /\ MessageCost(t, msg) \in Nat
           /\ msg.destination \notin Ours \cup {None} => MessageCost(t, msg) = msg.fwd_fee + msg.value
           /\ msg.destination \in Ours \cup {None} => MessageCost(t, msg) = msg.fwd_fee
<1>1. PICK mine : mine = Ours
  OBVIOUS
<1>2. MessageCost(t, msg) = msg.fwd_fee + (IF msg.destination = None THEN 0
                                            ELSE IF msg.destination \notin mine THEN msg.value ELSE 0)
  BY <1>1 DEF MessageCost, us_sending, us_receiving
<1>3. None \notin mine /\ msg.value \in Nat /\ msg.fwd_fee \in Nat
  BY <1>1, OursAre DEF Given
<1> QED
  BY <1>1, <1>2, <1>3

\* What a transaction of the relayer's own costs it.
LEMMA OwnCost ==
    ASSUME NEW t, NEW a \in Ours, NEW op, NEW body, NEW out, TxIs(t, a, op, body, out), NEW n, Listed(out, n),
           \A k \in 1 .. n : Given(out[k])
    PROVE  /\ TxCost(t) \in Nat
           /\ \A k \in 1 .. n : TxCost(t) >= MessageCost(t, out[k])
<1>1. DOMAIN out = 1 .. n /\ n \in Nat
  BY ListedIs
<1>2. PICK D : D = 1 .. n
  OBVIOUS
<1>3. IsFiniteSet(D)
  BY <1>1, <1>2, FS_Interval
<1>4. PICK f : f = [k \in D |-> MessageCost(t, out[k])]
  OBVIOUS
<1>5. t.account = a /\ t.out_msgs = out /\ t.total_fees = 2
  BY DEF TxIs, Fee
<1>6. \A k \in D : f[k] = MessageCost(t, out[k]) /\ f[k] \in Nat
  <2> SUFFICES ASSUME NEW k \in D PROVE f[k] = MessageCost(t, out[k]) /\ f[k] \in Nat
    OBVIOUS
  <2>1. f[k] = MessageCost(t, out[k])
    BY <1>4
  <2>2. MessageCost(t, out[k]) \in Nat
    BY <1>2, <1>5, OwnMessageCost
  <2> QED
    BY <2>1, <2>2
<1>7. SumFunctionOnSet(f, D) \in Nat
  BY <1>3, <1>6, SumAtLeastZero
<1>8. TxCost(t) = 2 + SumFunctionOnSet(f, D)
  <2>1. SumFunction(f) = SumFunctionOnSet(f, D)
    BY <1>4, SumsOver
  <2> QED
    BY <1>1, <1>2, <1>4, <1>5, <2>1 DEF TxCost
<1>9. ASSUME NEW k \in D PROVE TxCost(t) >= MessageCost(t, out[k])
  <2>1. f[k] \in Int /\ \A i \in D \ {k} : f[i] \in Nat
    BY <1>6
  <2>2. SumFunctionOnSet(f, D) >= f[k]
    BY <1>3, <2>1, SumAtLeastOne
  <2>3. f[k] = MessageCost(t, out[k])
    BY <1>6
  <2> QED
    BY <1>7, <1>8, <2>1, <2>2, <2>3
<1> QED
  BY <1>2, <1>7, <1>8, <1>9

\* A transaction of the relayer with at most two messages costs it no less than nothing.
LEMMA OwnCostShort ==
    ASSUME NEW t, NEW a \in Ours, NEW op, NEW body, NEW x, NEW y, Given(x), Given(y)
    PROVE  /\ TxIs(t, a, op, body, <<x>>) => TxCost(t) \in Nat
           /\ TxIs(t, a, op, body, <<x, y>>) => TxCost(t) \in Nat /\ TxCost(t) >= MessageCost(t, x)
<1>1. ASSUME TxIs(t, a, op, body, <<x>>) PROVE TxCost(t) \in Nat
  <2>1. \A k \in 1 .. 1 : Given(<<x>>[k])
    OBVIOUS
  <2> QED
    BY <1>1, <2>1, ListedTuples, OwnCost
<1>2. ASSUME TxIs(t, a, op, body, <<x, y>>) PROVE TxCost(t) \in Nat /\ TxCost(t) >= MessageCost(t, x)
  <2>1. PICK out : out = <<x, y>>
    OBVIOUS
  <2>2. PICK n : n = 2
    OBVIOUS
  <2>3. Listed(out, n) /\ out[1] = x /\ \A k \in 1 .. n : Given(out[k])
    <3>1. Listed(out, n)
      BY <2>1, <2>2, ListedTuples
    <3> QED
      BY <2>1, <2>2, <3>1
  <2>4. TxIs(t, a, op, body, out)
    BY <1>2, <2>1
  <2>5. TxCost(t) \in Nat
    BY <2>3, <2>4, OwnCost
  <2>6. \A k \in 1 .. n : TxCost(t) >= MessageCost(t, out[k])
    BY <2>3, <2>4, OwnCost
  <2> QED
    BY <2>2, <2>3, <2>5, <2>6
<1> QED
  BY <1>1, <1>2

\* A transaction of another account that sends nothing.
LEMMA OtherCost ==
    ASSUME NEW t, NEW a, a \notin Ours, NEW op, NEW body, TxIs(t, a, op, body, <<>>)
    PROVE  TxCost(t) = 0
<1>1. PICK f : f = [k \in DOMAIN t.out_msgs |-> MessageCost(t, t.out_msgs[k])]
  OBVIOUS
<1>2. DOMAIN f = {}
  BY <1>1 DEF TxIs
<1>3. SumFunction(f) = 0
  BY <1>2, SumsOver, SumEmpty
<1>4. TxCost(t) = (IF t.account \in Ours THEN t.total_fees ELSE 0) + SumFunction(f)
  BY <1>1 DEF TxCost
<1>5. t.account \notin Ours
  BY DEF TxIs
<1> QED
  BY <1>3, <1>4, <1>5

\* The transactions of the wallet cost no less than nothing.
LEMMA WalletCost ==
    ASSUME NEW tr, NEW ext, NEW call, NEW value \in Nat, NEW dest \in Ours, WalletIs(tr, ext, call, value, dest)
    PROVE  TxCost(tr[1]) \in Nat /\ TxCost(tr[2]) \in Nat
<1>1. PICK x : x = Out(Wallet, "INTERNAL_TRANSFER", Transfer(call, value, dest), highload_wallet_send(1))
  OBVIOUS
<1>2. PICK y : y = Out(dest, Data(call, 1), call, value)
  OBVIOUS
<1>3. Given(x)
  <2>1. highload_wallet_send(1) \in Nat
    BY SendValues
  <2> QED
    BY <1>1, <2>1, OutGiven
<1>4. Given(y)
  BY <1>2, OutGiven
<1>5. Wallet \in Ours
  BY OursAre
<1> QED
  BY <1>1, <1>2, <1>3, <1>4, <1>5, OwnCostShort DEF WalletIs

\* The cost of a trace is that of its transactions.
LEMMA CostSums ==
    ASSUME NEW tr, TracePriced(tr)
    PROVE  \E f : /\ cost(tr) = SumFunctionOnSet(f, DOMAIN tr)
                  /\ \A i \in DOMAIN tr : f[i] = TxCost(tr[i]) /\ f[i] \in Int
<1>1. PICK f : f = [i \in DOMAIN tr |-> TxCost(tr[i])]
  OBVIOUS
<1>2. cost(tr) = SumFunction(f)
  BY <1>1 DEF cost, TxCost
<1>3. DOMAIN f = DOMAIN tr
  BY <1>1
<1>4. cost(tr) = SumFunctionOnSet(f, DOMAIN tr)
  BY <1>2, <1>3, SumsOver
<1>5. \A i \in DOMAIN tr : f[i] = TxCost(tr[i]) /\ f[i] \in Int
  <2> SUFFICES ASSUME NEW i \in DOMAIN tr PROVE f[i] = TxCost(tr[i]) /\ f[i] \in Int
    OBVIOUS
  <2>1. f[i] = TxCost(tr[i])
    BY <1>1
  <2>2. TxCost(tr[i]) \in Int
    BY TxCostType DEF TracePriced
  <2> QED
    BY <2>1, <2>2
<1> QED
  BY <1>4, <1>5

----------------------------------------------------------------------------
(* The cost of a refund. *)

\* The trace of a refund is priced, and costs no less than the refund.
LEMMA RefundPriced ==
    ASSUME NEW j, JobOK(j), j.kind = "refund", NEW tr, RefundTraceIs(tr, j)
    PROVE  /\ TracePriced(tr) /\ cost(tr) >= Refunded(j) /\ Refunded(j) \in Nat
           /\ Len(tr) = 4 /\ tr[3].out_msgs # <<>> /\ tr[3].out_msgs[1].value = Refunded(j)
<1>1. PICK v : v = Refunded(j)
  OBVIOUS
<1>2. v \in Nat
  <2>1. j.remaining \in Nat /\ native_gas_refund_estimate \in Nat /\ j.remaining >= native_gas_refund_estimate
    BY SendValues, RelayAssumption DEF JobOK
  <2> QED
    BY <1>1, <2>1 DEF Refunded
<1>3. PICK x : x = Out("user", None, Empty, v)
  OBVIOUS
<1>4. PICK y : y = LogOut(RefundLog(v))
  OBVIOUS
<1>5. TxIs(tr[3], GasService, "NATIVE_REFUND", RefundCall(j), <<x, y>>) /\ TxIs(tr[4], "user", None, Empty, <<>>)
  BY <1>1, <1>3, <1>4 DEF RefundTraceIs
<1>6. WalletIs(tr, ExtFor(j), RefundCall(j), RefundDust, GasService) /\ Listed(tr, 4)
  BY DEF RefundTraceIs
<1>7. /\ RefundDust \in Nat /\ GasService \in Ours /\ "user" \notin Ours /\ "user" # None
  BY SendValues, OursAre DEF None
<1>8. MessagePriced(x) /\ MessagePriced(y) /\ Given(x) /\ Given(y)
  <2>1. MessagePriced(x)
    BY <1>2, <1>3, <1>7, OutPriced
  <2>2. MessagePriced(y)
    BY <1>4, LogPriced
  <2>3. Given(x)
    BY <1>2, <1>3, OutGiven
  <2>4. Given(y)
    BY <1>4, OutGiven DEF LogOut
  <2> QED
    BY <2>1, <2>2, <2>3, <2>4
<1>9. Priced(tr[1]) /\ Priced(tr[2])
  BY <1>6, <1>7, WalletPriced
<1>10. Priced(tr[3]) /\ Priced(tr[4])
  BY <1>5, <1>8, TxPricedShort
<1>11. PICK T : T = 1 .. 4
  OBVIOUS
<1>12. DOMAIN tr = T /\ Len(tr) = 4
  <2>1. DOMAIN tr = 1 .. 4 /\ Len(tr) = 4
    BY <1>6, ListedIs
  <2> QED
    BY <1>11, <2>1
<1>13. IsFiniteSet(T)
  <2>1. PICK n \in Nat : n = 4
    OBVIOUS
  <2>2. IsFiniteSet(1 .. n)
    BY FS_Interval
  <2> QED
    BY <1>11, <2>1, <2>2
<1>14. \A i \in T : i = 1 \/ i = 2 \/ i = 3 \/ i = 4
  BY <1>11
<1>15. TracePriced(tr)
  BY <1>9, <1>10, <1>12, <1>13, <1>14 DEF TracePriced
<1>16. PICK f : /\ cost(tr) = SumFunctionOnSet(f, DOMAIN tr)
                /\ \A i \in DOMAIN tr : f[i] = TxCost(tr[i]) /\ f[i] \in Int
  BY <1>15, CostSums
<1>17. TxCost(tr[1]) \in Nat /\ TxCost(tr[2]) \in Nat
  BY <1>6, <1>7, WalletCost
<1>18. TxCost(tr[4]) = 0
  BY <1>5, <1>7, OtherCost
<1>19. TxCost(tr[3]) \in Nat /\ TxCost(tr[3]) >= MessageCost(tr[3], x)
  BY <1>5, <1>7, <1>8, OwnCostShort
<1>20. MessageCost(tr[3], x) = 1 + v
  <2>1. tr[3].account \in Ours
    BY <1>5, <1>7 DEF TxIs
  <2>2. x.destination = "user" /\ x.fwd_fee = 1 /\ x.value = v
    BY <1>3 DEF Out, FwdFee
  <2>3. MessageCost(tr[3], x) = x.fwd_fee + x.value
    BY <1>7, <1>8, <2>1, <2>2, OwnMessageCost
  <2> QED
    BY <2>2, <2>3
<1>21. 3 \in T /\ f[3] \in Int /\ \A i \in T \ {3} : f[i] \in Nat
  <2>1. \A i \in T \ {3} : i = 1 \/ i = 2 \/ i = 4
    BY <1>14
  <2>2. 1 \in T /\ 2 \in T /\ 3 \in T /\ 4 \in T
    BY <1>11
  <2> QED
    BY <1>12, <1>16, <1>17, <1>18, <2>1, <2>2
<1>22. SumFunctionOnSet(f, T) >= f[3] /\ SumFunctionOnSet(f, T) \in Int
  BY <1>13, <1>21, SumAtLeastOne
<1>23. cost(tr) >= v
  <2>1. f[3] = TxCost(tr[3]) /\ cost(tr) = SumFunctionOnSet(f, T)
    BY <1>12, <1>16, <1>21
  <2> QED
    BY <1>2, <1>19, <1>20, <1>22, <2>1
<1>24. tr[3].out_msgs = <<x, y>>
  BY <1>5 DEF TxIs
<1>25. tr[3].out_msgs # <<>> /\ tr[3].out_msgs[1].value = v
  <2>1. x.value = v
    BY <1>3 DEF Out
  <2> QED
    BY <1>24, <2>1
<1> QED
  BY <1>1, <1>2, <1>12, <1>15, <1>23, <1>25

\* The one transaction of a refund that is reported.
LEMMA RefundOps ==
    ASSUME NEW j, NEW tr, RefundTraceIs(tr, j)
    PROVE  /\ ~IsExecuteInsufficientGas(tr) /\ "REFUNDED" \in Matching(tr[3])
           /\ \A i \in 1 .. 4 : i # 3 => Matching(tr[i]) = {}
           /\ \A i \in 1 .. 4 : "CALL" \notin Matching(tr[i])
<1>1. PICK v : v = Refunded(j)
  OBVIOUS
<1>2. /\ tr[1].op = None /\ tr[2].op = "INTERNAL_TRANSFER" /\ tr[3].op = "NATIVE_REFUND" /\ tr[3].account = GasService
      /\ tr[4].op = None /\ tr[3].exit_code = 0 /\ Listed(tr, 4)
  BY DEF RefundTraceIs, WalletIs, TxIs
<1>3. Len(tr) = 4
  BY <1>2, ListedIs
<1>4. ~IsExecuteInsufficientGas(tr)
  BY <1>2, <1>3 DEF IsExecuteInsufficientGas
<1>5. Matching(tr[1]) = {} /\ Matching(tr[2]) = {} /\ Matching(tr[4]) = {}
  BY <1>2, Unmatched
<1>6. tr[3].out_msgs = <<Out("user", None, Empty, v), LogOut(RefundLog(v))>>
  BY <1>1 DEF RefundTraceIs, TxIs
<1>7. 2 \in DOMAIN tr[3].out_msgs /\ tr[3].out_msgs[2] = LogOut(RefundLog(v))
  BY <1>6
<1>8. LogOut(RefundLog(v)).destination = None
  BY DEF LogOut, Out
<1>9. IsNativeGasRefunded(tr[3])
  BY <1>2, <1>7, <1>8 DEF IsNativeGasRefunded, is_log_emmitted
<1>10. Matching(tr[3]) # {}
  BY <1>9, MatchedBySome
<1>11. ASSUME NEW kind \in Matching(tr[3]) PROVE kind = "REFUNDED"
  <2>1. kind \in Kinds /\ tr[3].op \in Ops(kind)
    BY MatchingKinds, OpMatters
  <2> QED
    BY <1>2, <2>1 DEF Kinds, Ops
<1>12. \A i \in 1 .. 4 : i = 1 \/ i = 2 \/ i = 3 \/ i = 4
  OBVIOUS
<1> QED
  BY <1>4, <1>5, <1>10, <1>11, <1>12

\* The one event of a refund.
LEMMA RefundEvents ==
    ASSUME RelayInv, stage = "done", job.kind = "refund"
    PROVE  /\ DOMAIN events = {1} /\ events[1].type = "GAS_REFUNDED"
           /\ events[1].amount = calc_message_gas_native_gas_refunded(trace)
<1>1. JobOK(job) /\ trace = TraceFor(job)
  BY DEF RelayInv, ControlOK, Parsed
<1>2. RefundTraceIs(trace, job)
  BY <1>1, RefundShape
<1>3. Len(trace) = 4
  BY <1>1, <1>2, RefundPriced
<1>4. at = 5 /\ ParsersOK(trace, at, parsers)
  BY <1>3 DEF RelayInv, ScanOK
<1>5. PICK n : n = 5
  OBVIOUS
<1>6. ParsersOK(trace, n, parsers) /\ n \in Nat /\ n - 1 = 4 /\ 3 \in 1 .. n - 1
  BY <1>4, <1>5
<1>7. "REFUNDED" \in Others
  BY DEF Others, Kinds, Paid
<1>8. /\ ~IsExecuteInsufficientGas(trace) /\ "REFUNDED" \in Matching(trace[3])
      /\ \A i \in 1 .. n - 1 : i # 3 => Matching(trace[i]) \cap Others = {}
  BY <1>2, <1>6, RefundOps
<1>9. DOMAIN parsers = {1} /\ parsers[1] = ReadAs(trace, "REFUNDED", 3)
  BY <1>6, <1>7, <1>8, OnlyOne
<1>10. \A i \in 1 .. Len(trace) : "CALL" \notin Matching(trace[i])
  BY <1>2, <1>3, RefundOps
<1>11. events = [i \in DOMAIN parsers |-> OtherEvent(parsers[i])] /\ DOMAIN events = DOMAIN parsers
  BY <1>10, NoCalls
<1>12. PICK p : p = parsers[1]
  OBVIOUS
<1>13. p.kind = "REFUNDED"
  BY <1>9, <1>12, EntryIs DEF ReadAs
<1>14. events[1] = OtherEvent(p)
  BY <1>9, <1>11, <1>12
<1>15. OtherEvent(p) = RefundedEvent(p)
  BY <1>13 DEF OtherEvent
<1> QED
  BY <1>9, <1>11, <1>14, <1>15 DEF RefundedEvent, Event

\* What a refund is charged is what it cost beyond the refunded amount.
LEMMA RefundCosts ==
    ASSUME RelayInv, stage = "done", job.kind = "refund"
    PROVE  /\ Cardinality(EventsOf("GAS_REFUNDED")) = 1
           /\ \A e \in EventsOf("GAS_REFUNDED") : e.amount + (job.remaining - native_gas_refund_estimate) = Spent
           /\ EventsOf("MESSAGE_EXECUTED") = {} /\ EventsOf("MESSAGE_APPROVED") = {}
<1>1. JobOK(job) /\ trace = TraceFor(job)
  BY DEF RelayInv, ControlOK, Parsed
<1>2. RefundTraceIs(trace, job)
  BY <1>1, RefundShape
<1>3. PICK v : v = Refunded(job)
  OBVIOUS
<1>4. /\ TracePriced(trace) /\ cost(trace) >= v /\ v \in Nat
      /\ Len(trace) = 4 /\ trace[3].out_msgs # <<>> /\ trace[3].out_msgs[1].value = v
  BY <1>1, <1>2, <1>3, RefundPriced
<1>5. Spent = cost(trace) /\ cost(trace) \in Int
  BY <1>4, SpentIsCost
<1>6. calc_message_gas_native_gas_refunded(trace) = Max({cost(trace) - v, 0})
  BY <1>4 DEF calc_message_gas_native_gas_refunded
<1>7. PICK c \in Int : c = cost(trace)
  BY <1>5
<1>8. c - v \in Int /\ c - v >= 0
  BY <1>4, <1>7
<1>9. Max({c - v, 0}) = c - v
  BY <1>8, MaxOfTwo
<1>10. /\ DOMAIN events = {1} /\ events[1].type = "GAS_REFUNDED" /\ events[1].amount = c - v
  BY <1>6, <1>7, <1>9, RefundEvents
<1>11. EventsOf("GAS_REFUNDED") = {events[1]} /\ EventsOf("MESSAGE_EXECUTED") = {} /\ EventsOf("MESSAGE_APPROVED") = {}
  BY <1>10 DEF EventsOf
<1>12. Cardinality({events[1]}) = 1
  BY FS_Singleton
<1>13. (c - v) + v = c
  BY <1>4
<1>14. v = job.remaining - native_gas_refund_estimate
  BY <1>3 DEF Refunded
<1>15. events[1].amount + v = Spent
  BY <1>5, <1>7, <1>10, <1>13
<1> QED
  BY <1>11, <1>12, <1>14, <1>15

----------------------------------------------------------------------------
(* The cost of an approval. *)

\* The three kinds of transactions of the gateway and of the approval accounts.
LEMMA ApproveTxCosts ==
    ASSUME NEW t, NEW body
    PROVE  /\ TxIs(t, "approval", "MESSAGE_APPROVE", Empty, <<Out(Gateway, "MESSAGE_APPROVED", Empty, 5)>>) =>
                 Priced(t) /\ TxCost(t) = -5
           /\ TxIs(t, Gateway, "MESSAGE_APPROVED", Empty, <<LogOut(body)>>) => Priced(t) /\ TxCost(t) \in Nat
<1>1. Gateway \in Ours /\ Gateway # None /\ "approval" \notin Ours
  BY OursAre
<1>2. ASSUME TxIs(t, "approval", "MESSAGE_APPROVE", Empty, <<Out(Gateway, "MESSAGE_APPROVED", Empty, 5)>>)
      PROVE  Priced(t) /\ TxCost(t) = -5
  <2>1. PICK x : x = Out(Gateway, "MESSAGE_APPROVED", Empty, 5)
    OBVIOUS
  <2>2. MessagePriced(x)
    BY <1>1, <2>1, OutPriced
  <2>3. Priced(t)
    BY <1>2, <2>1, <2>2, TxPricedShort
  <2>4. t.account \notin Ours /\ t.out_msgs = <<x>>
    BY <1>1, <1>2, <2>1 DEF TxIs
  <2>5. PICK f : f = [k \in DOMAIN t.out_msgs |-> MessageCost(t, t.out_msgs[k])]
    OBVIOUS
  <2>6. x.destination = Gateway /\ x.value = 5
    BY <2>1 DEF Out
  <2>7. MessageCost(t, x) = -5
    BY <1>1, <2>4, <2>6 DEF MessageCost, us_sending, us_receiving
  <2>8. DOMAIN f = {1} /\ f[1] = -5
    <3>1. DOMAIN t.out_msgs = {1} /\ t.out_msgs[1] = x
      BY <2>4
    <3> QED
      BY <2>5, <2>7, <3>1
  <2>9. SumFunctionOnSet(f, {1}) = Cardinality({1}) * (-5)
    <3>1. PICK S : S = {1}
      OBVIOUS
    <3>2. PICK c : c = -5
      OBVIOUS
    <3>3. IsFiniteSet(S) /\ c \in Int /\ \A i \in S : f[i] = c
      BY <2>8, <3>1, <3>2, FS_Singleton
    <3>4. SumFunctionOnSet(f, S) = Cardinality(S) * c
      BY <3>3, SumConstant
    <3> QED
      BY <3>1, <3>2, <3>4
  <2>10. Cardinality({1}) = 1
    BY FS_Singleton
  <2>11. SumFunction(f) = -5
    BY <2>8, <2>9, <2>10, SumsOver
  <2>12. TxCost(t) = (IF t.account \in Ours THEN t.total_fees ELSE 0) + SumFunction(f)
    BY <2>5 DEF TxCost
  <2> QED
    BY <2>3, <2>4, <2>11, <2>12
<1>3. ASSUME TxIs(t, Gateway, "MESSAGE_APPROVED", Empty, <<LogOut(body)>>) PROVE Priced(t) /\ TxCost(t) \in Nat
  <2>1. PICK x : x = LogOut(body)
    OBVIOUS
  <2>2. MessagePriced(x)
    BY <2>1, LogPriced
  <2>3. Given(x)
    BY <2>1, OutGiven DEF LogOut
  <2> QED
    BY <1>1, <1>3, <2>1, <2>2, <2>3, TxPricedShort, OwnCostShort
<1> QED
  BY <1>2, <1>3

\* The gateway pays for n messages to the approval accounts.
LEMMA ApproveCallCost ==
    ASSUME NEW t, NEW call, NEW ms, NEW n \in Nat, DOMAIN ms = 1 .. n,
           TxIs(t, Gateway, "APPROVE_MESSAGES", call, [i \in DOMAIN ms |-> Out("approval", "MESSAGE_APPROVE", Empty, 9)])
    PROVE  Priced(t) /\ TxCost(t) = 2 + n * 10
<1>1. PICK x : x = Out("approval", "MESSAGE_APPROVE", Empty, 9)
  OBVIOUS
<1>2. PICK out : out = [i \in 1 .. n |-> x]
  OBVIOUS
<1>3. TxIs(t, Gateway, "APPROVE_MESSAGES", call, out)
  BY <1>1, <1>2
<1>4. Listed(out, n) /\ \A k \in 1 .. n : out[k] = x
  BY <1>2 DEF Listed
<1>5. /\ "approval" # None /\ "approval" \notin Ours /\ Gateway \in Ours
  BY OursAre DEF None
<1>6. MessagePriced(x) /\ Given(x)
  BY <1>1, <1>5, OutPriced, OutGiven
<1>7. \A k \in 1 .. n : MessagePriced(out[k])
  BY <1>4, <1>6
<1>8. Priced(t)
  BY <1>3, <1>4, <1>7, TxPriced
<1>9. t.account = Gateway /\ t.out_msgs = out /\ t.total_fees = 2 /\ DOMAIN out = 1 .. n
  BY <1>2, <1>3 DEF TxIs, Fee
<1>10. MessageCost(t, x) = 10
  <2>1. x.destination = "approval" /\ x.fwd_fee = 1 /\ x.value = 9
    BY <1>1 DEF Out, FwdFee
  <2>2. MessageCost(t, x) = x.fwd_fee + x.value
    BY <1>5, <1>6, <1>9, <2>1, OwnMessageCost
  <2> QED
    BY <2>1, <2>2
<1>11. PICK f : f = [k \in 1 .. n |-> MessageCost(t, out[k])]
  OBVIOUS
<1>12. PICK D : D = 1 .. n
  OBVIOUS
<1>13. DOMAIN f = D /\ \A k \in D : f[k] = 10
  BY <1>4, <1>10, <1>11, <1>12
<1>14. IsFiniteSet(D) /\ Cardinality(D) = n
  <2>1. IsFiniteSet(1 .. n) /\ Cardinality(1 .. n) = IF 1 > n THEN 0 ELSE n - 1 + 1
    BY FS_Interval
  <2>2. (IF 1 > n THEN 0 ELSE n - 1 + 1) = n
    OBVIOUS
  <2> QED
    BY <1>12, <2>1, <2>2
<1>15. SumFunctionOnSet(f, D) = n * 10
  <2>1. SumFunctionOnSet(f, D) = Cardinality(D) * 10
    BY <1>13, <1>14, SumConstant
  <2> QED
    BY <1>14, <2>1
<1>16. SumFunction(f) = n * 10
  BY <1>13, <1>15, SumsOver
<1>17. TxCost(t) = 2 + SumFunction(f)
  BY <1>5, <1>9, <1>11 DEF TxCost
<1> QED
  BY <1>8, <1>16, <1>17

\* The size of an interval.
LEMMA IntervalCounted ==
    ASSUME NEW a \in Nat, NEW n \in Nat
    PROVE  IsFiniteSet(a + 1 .. a + n) /\ Cardinality(a + 1 .. a + n) = n
<1>1. PICK b : b = a + 1
  OBVIOUS
<1>2. PICK c : c = a + n
  OBVIOUS
<1>3. b \in Int /\ c \in Int
  BY <1>1, <1>2
<1>4. IsFiniteSet(b .. c) /\ Cardinality(b .. c) = IF b > c THEN 0 ELSE c - b + 1
  BY <1>3, FS_Interval
<1>5. (IF b > c THEN 0 ELSE c - b + 1) = n
  BY <1>1, <1>2
<1> QED
  BY <1>1, <1>2, <1>4, <1>5

\* The trace of an approval is priced, and costs no less than nothing.
LEMMA ApprovePriced ==
    ASSUME NEW j, JobOK(j), j.kind = "approve", NEW tr, ApproveTraceIs(tr, j)
    PROVE  TracePriced(tr) /\ cost(tr) >= 0
<1>1. PICK ms : ms = j.messages
  OBVIOUS
<1>2. PICK n : n = Len(ms)
  OBVIOUS
<1>3. PICK call : call = ApprovalBlob(ms)
  OBVIOUS
<1>4. ApproveIs(tr, call, ms, n) /\ WalletIs(tr, ExtFor(j), call, approve_send, Gateway)
  BY <1>1, <1>2, <1>3 DEF ApproveTraceIs
<1>5. n \in Nat /\ n >= 1 /\ Listed(tr, 3 + n + n) /\ DOMAIN ms = 1 .. n
  BY <1>4 DEF ApproveIs
<1>6. approve_send \in Nat /\ Gateway \in Ours
  BY SendValues, OursAre
<1>7. /\ Priced(tr[1]) /\ Priced(tr[2]) /\ TxCost(tr[1]) \in Nat /\ TxCost(tr[2]) \in Nat
  BY <1>4, <1>6, WalletPriced, WalletCost
<1>8. Priced(tr[3]) /\ TxCost(tr[3]) = 2 + n * 10
  <2>1. TxIs(tr[3], Gateway, "APPROVE_MESSAGES", call, [i \in DOMAIN ms |-> Out("approval", "MESSAGE_APPROVE", Empty, 9)])
    BY <1>4 DEF ApproveIs
  <2> QED
    BY <1>5, <2>1, ApproveCallCost
<1>9. \A i \in 1 .. n : Priced(tr[3 + i]) /\ TxCost(tr[3 + i]) = -5
  BY <1>4, ApproveTxCosts DEF ApproveIs
<1>10. \A i \in 1 .. n : Priced(tr[3 + n + i]) /\ TxCost(tr[3 + n + i]) \in Nat
  BY <1>4, ApproveTxCosts DEF ApproveIs
<1>11. PICK A : A = 1 .. 3
  OBVIOUS
<1>12. PICK B : B = 3 + 1 .. 3 + n
  OBVIOUS
<1>13. PICK C : C = (3 + n) + 1 .. (3 + n) + n
  OBVIOUS
<1>14. /\ \A i \in A : i = 1 \/ i = 2 \/ i = 3
       /\ \A i \in B : i \in Int /\ i - 3 \in 1 .. n /\ i = 3 + (i - 3)
       /\ \A i \in C : i \in Int /\ i - (3 + n) \in 1 .. n /\ i = 3 + n + (i - (3 + n))
  BY <1>5, <1>11, <1>12, <1>13
<1>15. DOMAIN tr = (A \cup B) \cup C /\ A \cap B = {} /\ (A \cup B) \cap C = {}
  <2>1. PICK l : l = 3 + n + n
    OBVIOUS
  <2>2. Listed(tr, l)
    BY <1>5, <2>1
  <2>3. DOMAIN tr = 1 .. l
    BY <2>2, ListedIs
  <2> QED
    BY <1>5, <1>11, <1>12, <1>13, <2>1, <2>3
<1>16. IsFiniteSet(A) /\ IsFiniteSet(B) /\ IsFiniteSet(C) /\ Cardinality(B) = n
  <2>1. PICK z \in Nat : z = 0
    OBVIOUS
  <2>2. PICK m \in Nat : m = 3
    OBVIOUS
  <2>3. IsFiniteSet(z + 1 .. z + m)
    BY IntervalCounted
  <2>4. IsFiniteSet(m + 1 .. m + n) /\ Cardinality(m + 1 .. m + n) = n
    BY <1>5, IntervalCounted
  <2>5. PICK w \in Nat : w = 3 + n
    BY <1>5
  <2>6. IsFiniteSet(w + 1 .. w + n)
    BY <1>5, IntervalCounted
  <2>7. A = z + 1 .. z + m
    BY <1>11, <2>1, <2>2
  <2>8. B = m + 1 .. m + n
    BY <1>12, <2>2
  <2>9. C = w + 1 .. w + n
    BY <1>13, <2>5
  <2> QED
    BY <2>3, <2>4, <2>6, <2>7, <2>8, <2>9
<1>17. \A i \in B : Priced(tr[i]) /\ TxCost(tr[i]) = -5
  BY <1>9, <1>14
<1>18. \A i \in C : Priced(tr[i]) /\ TxCost(tr[i]) \in Nat
  BY <1>10, <1>14
<1>19. \A i \in A : Priced(tr[i]) /\ TxCost(tr[i]) \in Int /\ (i # 3 => TxCost(tr[i]) \in Nat)
  BY <1>5, <1>7, <1>8, <1>14
<1>20. TracePriced(tr)
  <2>1. IsFiniteSet((A \cup B) \cup C)
    BY <1>16, FS_Union
  <2> QED
    BY <1>15, <1>17, <1>18, <1>19, <2>1 DEF TracePriced
<1>21. PICK f : /\ cost(tr) = SumFunctionOnSet(f, DOMAIN tr)
                /\ \A i \in DOMAIN tr : f[i] = TxCost(tr[i]) /\ f[i] \in Int
  BY <1>20, CostSums
<1>22. PICK AB : AB = A \cup B
  OBVIOUS
<1>23. SumFunctionOnSet(f, AB \cup C) = SumFunctionOnSet(f, AB) + SumFunctionOnSet(f, C)
  <2>1. IsFiniteSet(AB) /\ AB \cap C = {}
    BY <1>15, <1>16, <1>22, FS_Union
  <2>2. \A i \in AB \cup C : f[i] \in Int
    BY <1>15, <1>21, <1>22
  <2> QED
    BY <1>16, <2>1, <2>2, SumUnion
<1>24. SumFunctionOnSet(f, A \cup B) = SumFunctionOnSet(f, A) + SumFunctionOnSet(f, B)
  <2>1. \A i \in A \cup B : f[i] \in Int
    BY <1>15, <1>21
  <2> QED
    BY <1>15, <1>16, <2>1, SumUnion
<1>25. SumFunctionOnSet(f, C) \in Nat
  <2>1. \A i \in C : f[i] \in Nat
    BY <1>15, <1>18, <1>21
  <2> QED
    BY <1>16, <2>1, SumAtLeastZero
<1>26. SumFunctionOnSet(f, B) = n * (-5)
  <2>1. PICK c \in Int : c = -5
    OBVIOUS
  <2>2. \A i \in B : f[i] = c
    BY <1>15, <1>17, <1>21, <2>1
  <2>3. SumFunctionOnSet(f, B) = Cardinality(B) * c
    BY <1>16, <2>2, SumConstant
  <2> QED
    BY <1>16, <2>1, <2>3
<1>27. SumFunctionOnSet(f, A) \in Int /\ SumFunctionOnSet(f, A) >= 2 + n * 10
  <2>1. PICK x : x = 3
    OBVIOUS
  <2>2. x \in A /\ \A i \in A \ {x} : f[i] \in Nat
    BY <1>11, <1>15, <1>19, <1>21, <2>1
  <2>3. f[x] = 2 + n * 10 /\ f[x] \in Int
    BY <1>8, <1>15, <1>21, <2>1, <2>2
  <2>4. SumFunctionOnSet(f, A) \in Int /\ SumFunctionOnSet(f, A) >= f[x]
    BY <1>16, <2>2, <2>3, SumAtLeastOne
  <2> QED
    BY <2>3, <2>4
<1>28. PICK a \in Int : a = SumFunctionOnSet(f, A)
  BY <1>27
<1>29. PICK c \in Nat : c = SumFunctionOnSet(f, C)
  BY <1>25
<1>30. cost(tr) = (a + n * (-5)) + c
  <2>1. cost(tr) = SumFunctionOnSet(f, AB \cup C)
    BY <1>15, <1>21, <1>22
  <2> QED
    BY <1>22, <1>23, <1>24, <1>26, <1>28, <1>29, <2>1
<1>31. a >= 2 + n * 10
  BY <1>27, <1>28
<1>32. (a + n * (-5)) + c >= 0
  BY <1>5, <1>31
<1> QED
  BY <1>20, <1>30, <1>32

\* An approval has as many events as messages, each with the same share.
LEMMA ApprovedCounted ==
    ASSUME NEW ms, NEW n \in Nat, NEW share, NEW E, E = {Approved(ms, n, i, share) : i \in 1 .. n}
    PROVE  IsFiniteSet(E) /\ Cardinality(E) = n /\ \A e \in E : e.amount = share /\ e.type = "MESSAGE_APPROVED"
<1>1. PICK f : f = [i \in 1 .. n |-> Approved(ms, n, i, share)]
  OBVIOUS
<1>2. \A i : /\ Approved(ms, n, i, share).id = 3 + n + i /\ Approved(ms, n, i, share).amount = share
             /\ Approved(ms, n, i, share).type = "MESSAGE_APPROVED"
  BY DEF Approved, Reported, Event
<1>3. \A i \in 1 .. n : f[i] \in E /\ f[i].id = 3 + n + i
  BY <1>1, <1>2
<1>4. \A e \in E : \E i \in 1 .. n : f[i] = e
  BY <1>1
<1>5. \A i, k \in 1 .. n : f[i] = f[k] => i = k
  <2> SUFFICES ASSUME NEW i \in 1 .. n, NEW k \in 1 .. n, f[i] = f[k] PROVE i = k
    OBVIOUS
  <2>1. 3 + n + i = 3 + n + k
    BY <1>3
  <2> QED
    BY <2>1
<1>6. f \in [1 .. n -> E] /\ DOMAIN f = 1 .. n
  BY <1>1, <1>3
<1>7. f \in Bijection(1 .. n, E)
  BY <1>4, <1>5, <1>6 DEF Bijection, Injection, Surjection, IsInjective
<1>8. ExistsBijection(1 .. n, E)
  BY <1>7 DEF ExistsBijection
<1>9. Cardinality(E) = n
  BY <1>8, FS_CountingElements
<1>10. IsFiniteSet(1 .. n)
  BY FS_Interval
<1>11. IsFiniteSet(E)
  BY <1>8, <1>10, FS_Bijection
<1> QED
  BY <1>2, <1>9, <1>11

\* The shares of an approval add up to its cost, but for the remainder of the division.
LEMMA ApproveCosts ==
    ASSUME RelayInv, stage = "done", job.kind = "approve"
    PROVE  /\ LET charged == SumFunction([e \in EventsOf("MESSAGE_APPROVED") |-> e.amount])
              IN  charged <= Spent /\ Spent < charged + Cardinality(EventsOf("MESSAGE_APPROVED"))
           /\ EventsOf("MESSAGE_EXECUTED") = {}
<1>1. JobOK(job) /\ trace = TraceFor(job)
  BY DEF RelayInv, ControlOK, Parsed
<1>2. ApproveTraceIs(trace, job)
  BY <1>1, ApproveShape
<1>3. TracePriced(trace) /\ cost(trace) >= 0
  BY <1>1, <1>2, ApprovePriced
<1>4. Spent = cost(trace) /\ cost(trace) \in Int
  BY <1>3, SpentIsCost
<1>5. PICK c \in Nat : c = cost(trace)
  BY <1>3, <1>4
<1>6. calc_message_gas(trace) = c
  BY <1>5, MaxOfTwo DEF calc_message_gas
<1>7. PICK ms : ms = job.messages
  OBVIOUS
<1>8. PICK n : n = Len(ms)
  OBVIOUS
<1>9. PICK share : share = c \div n
  OBVIOUS
<1>10. ApproveReported(events, ms, n, share)
  BY <1>6, <1>7, <1>8, <1>9, ApproveEvents
<1>11. n \in Nat /\ n >= 1
  BY <1>10 DEF ApproveReported
<1>12. share \in Nat /\ n * share <= c /\ c < n * share + n
  <2>1. c \div n \in Nat /\ n * (c \div n) <= c /\ c < n * (c \div n) + n
    BY <1>11, DivBounds
  <2> QED
    BY <1>9, <2>1
<1>13. PICK E : E = EventsOf("MESSAGE_APPROVED")
  OBVIOUS
<1>14. E = {Approved(ms, n, i, share) : i \in 1 .. n}
  BY <1>10, <1>13, ApproveEventsOf
<1>15. IsFiniteSet(E) /\ Cardinality(E) = n /\ \A e \in E : e.amount = share
  BY <1>11, <1>14, ApprovedCounted
<1>16. PICK g : g = [e \in E |-> e.amount]
  OBVIOUS
<1>17. \A e \in E : g[e] = share
  BY <1>15, <1>16
<1>18. SumFunctionOnSet(g, E) = Cardinality(E) * share
  BY <1>12, <1>15, <1>17, SumConstant
<1>19. SumFunction(g) = n * share
  <2>1. DOMAIN g = E
    BY <1>16
  <2>2. SumFunction(g) = SumFunctionOnSet(g, E)
    BY <2>1, SumsOver
  <2> QED
    BY <1>15, <1>18, <2>2
<1>20. SumFunction(g) <= Spent /\ Spent < SumFunction(g) + Cardinality(E)
  BY <1>4, <1>5, <1>12, <1>15, <1>19
<1>21. EventsOf("MESSAGE_EXECUTED") = {}
  <2>1. \A k \in DOMAIN events : \E i \in 1 .. n : events[k] = Approved(ms, n, i, share)
    BY <1>10 DEF ApproveReported
  <2>2. \A i : Approved(ms, n, i, share).type = "MESSAGE_APPROVED"
    BY DEF Approved, Reported, Event
  <2> QED
    BY <2>1, <2>2 DEF EventsOf
<1> QED
  BY <1>13, <1>16, <1>20, <1>21

----------------------------------------------------------------------------
(* The events of a call, and of the payment for it. *)

\* Call i is the first with its key.
FirstOfKey(i) == \A k \in 1 .. i - 1 : Key(calls[k].log) # Key(calls[i].log)

\* The credits that call i takes, and their events.
Takes(i) == {c \in credits : FirstOfKey(i) /\ c.key = Key(calls[i].log)}
TakenEvent(i) == CreditEvent((CHOOSE c \in Takes(i) : TRUE).parser, CallEvent(calls[i]).message)
TakenEvents(i) == [k \in 1 .. Cardinality(Takes(i)) |-> TakenEvent(i)]

\* The events of a call are its own and that of the payment it takes.
LEMMA CallEventsAre ==
    ASSUME NEW i
    PROVE  CallEvents(i) = Joined(<<CallEvent(calls[i])>>, TakenEvents(i))
BY Zenon DEF CallEvents, Joined, TakenEvents, TakenEvent, Takes, FirstOfKey

\* A call that takes no payment has one event.
LEMMA CallAlone ==
    ASSUME NEW i \in DOMAIN calls, ~FirstOfKey(i) \/ \A c \in credits : c.key # Key(calls[i].log)
    PROVE  CallEvents(i) = <<CallEvent(calls[i])>>
<1>1. Takes(i) = {}
  BY DEF Takes
<1>2. Cardinality(Takes(i)) = 0
  BY <1>1, FS_EmptySet
<1>3. TakenEvents(i) = <<>>
  BY <1>2 DEF TakenEvents
<1>4. \A e : Joined(<<e>>, <<>>) = <<e>>
  BY DEF Joined
<1> QED
  BY <1>3, <1>4, CallEventsAre

\* A call that takes a payment has two events.
LEMMA CallPaid ==
    ASSUME NEW i \in DOMAIN calls, FirstOfKey(i), NEW c \in credits, c.key = Key(calls[i].log),
           \A a, b \in credits : a.key = b.key => a = b
    PROVE  CallEvents(i) = <<CallEvent(calls[i]), CreditEvent(c.parser, CallEvent(calls[i]).message)>>
<1>1. Takes(i) = {c}
  BY DEF Takes
<1>2. Cardinality(Takes(i)) = 1 /\ (CHOOSE d \in Takes(i) : TRUE) = c
  <2>1. \A d \in {c} : d = c
    OBVIOUS
  <2>2. (CHOOSE d \in {c} : TRUE) \in {c}
    BY Zenon
  <2> QED
    BY <1>1, <2>1, <2>2, FS_Singleton
<1>3. PICK e : e = CreditEvent(c.parser, CallEvent(calls[i]).message)
  OBVIOUS
<1>4. TakenEvents(i) = [k \in 1 .. 1 |-> e]
  <2>1. TakenEvent(i) = e
    BY <1>2, <1>3, Zenon DEF TakenEvent
  <2> QED
    BY <1>2, <2>1 DEF TakenEvents
<1>5. TakenEvents(i) = <<e>>
  BY <1>4
<1>6. \A a, b : Joined(<<a>>, <<b>>) = <<a, b>>
  <2> SUFFICES ASSUME NEW a, NEW b PROVE Joined(<<a>>, <<b>>) = <<a, b>>
    OBVIOUS
  <2>1. PICK s : s = <<a>>
    OBVIOUS
  <2>2. PICK t : t = <<b>>
    OBVIOUS
  <2>3. PICK u : u = Joined(s, t)
    OBVIOUS
  <2>4. PICK n : n = 1
    OBVIOUS
  <2>5. Listed(s, n) /\ Listed(t, n)
    BY <2>1, <2>2, <2>4, ListedTuples
  <2>6. Listed(u, n + n)
    BY <2>3, <2>5, ConcatListed
  <2>7. \A k \in 1 .. n : u[k] = s[k]
    BY <2>3, <2>5, ConcatLeft
  <2>8. \A k \in 1 .. n : u[n + k] = t[k]
    BY <2>3, <2>5, ConcatRight
  <2>9. u[1] = a /\ u[2] = b
    BY <2>1, <2>2, <2>4, <2>7, <2>8
  <2>10. u = [k \in 1 .. 2 |-> u[k]]
    BY <2>4, <2>6 DEF Listed
  <2>11. u = <<a, b>>
    BY <2>9, <2>10
  <2> QED
    BY <2>1, <2>2, <2>3, <2>11
<1> QED
  BY <1>3, <1>5, <1>6, CallEventsAre

----------------------------------------------------------------------------
(* The events of a trace. *)

\* e is one of the events of call i: its own, or that of the payment it takes.
IsPaidBy(e, i, c) ==
    FirstOfKey(i) /\ c.key = Key(calls[i].log) /\ e = CreditEvent(c.parser, CallEvent(calls[i]).message)
OfCall(e, i) == e = CallEvent(calls[i]) \/ \E c \in credits : IsPaidBy(e, i, c)

\* A credit has one key.
OneCredit == \A a, b \in credits : a.key = b.key => a = b

\* What a short tuple holds.
LEMMA TupleHolds ==
    ASSUME NEW a, NEW b
    PROVE  /\ <<a>> \in Seq(Range(<<a>>)) /\ Range(<<a>>) = {a}
           /\ <<a, b>> \in Seq(Range(<<a, b>>)) /\ Range(<<a, b>>) = {a, b}
<1>1. Range(<<a>>) = {a}
  <2>1. DOMAIN <<a>> = {1} /\ <<a>>[1] = a
    OBVIOUS
  <2> QED
    BY <2>1 DEF Range
<1>2. Range(<<a, b>>) = {a, b}
  <2>1. DOMAIN <<a, b>> = {1, 2} /\ <<a, b>>[1] = a /\ <<a, b>>[2] = b
    OBVIOUS
  <2> QED
    BY <2>1 DEF Range
<1> QED
  BY <1>1, <1>2

\* What the events of a call are.
LEMMA CallEventsHold ==
    ASSUME OneCredit, NEW i \in DOMAIN calls
    PROVE  /\ CallEvents(i) \in Seq(Range(CallEvents(i)))
           /\ \A e : e \in Range(CallEvents(i)) <=> OfCall(e, i)
<1>1. CASE ~FirstOfKey(i) \/ \A c \in credits : c.key # Key(calls[i].log)
  <2>1. CallEvents(i) = <<CallEvent(calls[i])>>
    BY <1>1, CallAlone
  <2>2. \A e : OfCall(e, i) <=> e = CallEvent(calls[i])
    BY <1>1 DEF OfCall, IsPaidBy
  <2>3. PICK e1 : e1 = CallEvent(calls[i])
    OBVIOUS
  <2>4. PICK s : s = CallEvents(i)
    OBVIOUS
  <2>5. s \in Seq(Range(s)) /\ Range(s) = {e1}
    BY <2>1, <2>3, <2>4, TupleHolds
  <2>6. \A e : e \in Range(s) <=> OfCall(e, i)
    BY <2>2, <2>3, <2>5
  <2> QED
    BY <2>4, <2>5, <2>6
<1>2. CASE FirstOfKey(i) /\ \E c \in credits : c.key = Key(calls[i].log)
  <2>1. PICK c \in credits : c.key = Key(calls[i].log)
    BY <1>2
  <2>2. PICK e1 : e1 = CallEvent(calls[i])
    OBVIOUS
  <2>3. PICK e2 : e2 = CreditEvent(c.parser, e1.message)
    OBVIOUS
  <2>4. CallEvents(i) = <<e1, e2>>
    BY <1>2, <2>1, <2>2, <2>3, CallPaid DEF OneCredit
  <2>5. \A e : OfCall(e, i) <=> e = e1 \/ e = e2
    <3>1. \A d \in credits : d.key = Key(calls[i].log) => d = c
      BY <2>1 DEF OneCredit
    <3> QED
      BY <1>2, <2>1, <2>2, <2>3, <3>1 DEF OfCall, IsPaidBy
  <2>6. PICK s : s = CallEvents(i)
    OBVIOUS
  <2>7. s \in Seq(Range(s)) /\ Range(s) = {e1, e2}
    <3>1. <<e1, e2>> \in Seq(Range(<<e1, e2>>)) /\ Range(<<e1, e2>>) = {e1, e2}
      BY TupleHolds
    <3> QED
      BY <2>4, <2>6, <3>1
  <2>8. \A e : e \in Range(s) <=> OfCall(e, i)
    BY <2>5, <2>7
  <2> QED
    BY <2>6, <2>7, <2>8
<1> QED
  BY <1>1, <1>2

\* What the events of a parsed trace are.
LEMMA EventsAre ==
    ASSUME RelayInv, stage = "done", NEW e
    PROVE  e \in Range(events) <=> \/ \E i \in DOMAIN calls : OfCall(e, i)
                                   \/ \E k \in DOMAIN parsers : e = OtherEvent(parsers[k])
<1>1. /\ events = Built /\ OneCredit
      /\ calls \in Seq(Entries(trace)) /\ parsers \in Seq(Entries(trace))
  BY DEF RelayInv, ScanOK, CallsOK, ParsersOK, CreditsOK, OneCredit
<1>2. PICK m \in Nat : m = Len(calls) /\ DOMAIN calls = 1 .. m
  BY <1>1
<1>3. PICK l \in Nat : l = Len(parsers) /\ DOMAIN parsers = 1 .. l
  BY <1>1
<1>4. PICK ss : ss = [i \in DOMAIN calls |-> CallEvents(i)]
  OBVIOUS
<1>5. PICK X : X = UNION {Range(CallEvents(i)) : i \in DOMAIN calls}
  OBVIOUS
<1>6. \A i \in DOMAIN calls : ss[i] = CallEvents(i) /\ ss[i] \in Seq(X)
  <2> SUFFICES ASSUME NEW i \in DOMAIN calls PROVE CallEvents(i) \in Seq(X)
    BY <1>4
  <2>1. PICK s : s = CallEvents(i)
    OBVIOUS
  <2>2. s \in Seq(Range(s)) /\ Range(s) \subseteq X
    BY <1>1, <1>5, <2>1, CallEventsHold
  <2> QED
    BY <2>1, <2>2
<1>7. ss \in Seq(Seq(X)) /\ DOMAIN ss = DOMAIN calls
  <2>1. DOMAIN ss = 1 .. m
    BY <1>2, <1>4
  <2>2. ss \in [1 .. m -> Seq(X)]
    BY <1>2, <1>4, <1>6
  <2> QED
    BY <1>2, <2>1, <2>2
<1>8. PICK a : a = FlattenSeq(ss)
  OBVIOUS
<1>9. a \in Seq(X) /\ Range(a) = UNION {Range(ss[k]) : k \in DOMAIN ss}
  BY <1>7, <1>8, FlattenHolds
<1>10. Range(a) = X
  BY <1>5, <1>6, <1>7, <1>9
<1>11. PICK b : b = [k \in DOMAIN parsers |-> OtherEvent(parsers[k])]
  OBVIOUS
<1>12. Listed(b, l)
  BY <1>3, <1>11 DEF Listed
<1>13. PICK n : n = Len(a)
  OBVIOUS
<1>14. Listed(a, n) /\ DOMAIN a = 1 .. n /\ n \in Nat
  BY <1>9, <1>13, ListedSeq
<1>15. events = Joined(a, b)
  BY <1>1, <1>4, <1>8, <1>11 DEF Built, Joined
<1>16. Listed(events, n + l)
  BY <1>12, <1>14, <1>15, ConcatListed
<1>17. \A i \in 1 .. n : events[i] = a[i]
  BY <1>12, <1>14, <1>15, ConcatLeft
<1>18. \A i \in 1 .. l : events[n + i] = b[i]
  <2>1. Listed(a, n)
    BY <1>14
  <2>2. PICK u : u = events
    OBVIOUS
  <2>3. \A i \in 1 .. l : u[n + i] = b[i]
    BY <1>12, <1>15, <2>1, <2>2, ConcatRight
  <2> QED
    BY <2>2, <2>3
<1>19. DOMAIN events = 1 .. n + l
  BY <1>16, ListedIs
<1>20. \A k \in 1 .. n + l : k \in 1 .. n \/ (k - n \in 1 .. l /\ k = n + (k - n))
  BY <1>3, <1>14
<1>21. \A k \in 1 .. n : k \in 1 .. n + l
  BY <1>3, <1>14
<1>22. \A k \in 1 .. l : n + k \in 1 .. n + l
  BY <1>3, <1>14
<1>23. e \in Range(events) <=> (\E i \in 1 .. n : e = a[i]) \/ (\E k \in 1 .. l : e = b[k])
  <2>1. e \in Range(events) <=> \E k \in 1 .. n + l : e = events[k]
    BY <1>19, Zenon DEF Range
  <2>2. ASSUME NEW k \in 1 .. n + l, e = events[k]
        PROVE  (\E i \in 1 .. n : e = a[i]) \/ (\E h \in 1 .. l : e = b[h])
    <3>1. CASE k \in 1 .. n
      BY <1>17, <2>2, <3>1
    <3>2. CASE k \notin 1 .. n
      <4>1. PICK h \in 1 .. l : k = n + h
        BY <1>20, <3>2
      <4> QED
        BY <1>18, <2>2, <4>1
    <3> QED
      BY <3>1, <3>2
  <2>3. ASSUME NEW i \in 1 .. n, e = a[i] PROVE \E k \in 1 .. n + l : e = events[k]
    BY <1>17, <1>21, <2>3
  <2>4. ASSUME NEW i \in 1 .. l, e = b[i] PROVE \E k \in 1 .. n + l : e = events[k]
    BY <1>18, <1>22, <2>4
  <2> QED
    BY <2>1, <2>2, <2>3, <2>4
<1>24. (\E i \in 1 .. n : e = a[i]) <=> e \in X
  BY <1>10, <1>14 DEF Range
<1>25. e \in X <=> \E i \in DOMAIN calls : OfCall(e, i)
  BY <1>1, <1>5, CallEventsHold
<1>26. (\E k \in 1 .. l : e = b[k]) <=> \E k \in DOMAIN parsers : e = OtherEvent(parsers[k])
  BY <1>3, <1>11
<1> QED
  BY <1>23, <1>24, <1>25, <1>26

\* The events of one type.
LEMMA EventsOfType ==
    ASSUME NEW type, NEW e
    PROVE  e \in EventsOf(type) <=> e \in Range(events) /\ e.type = type
BY DEF EventsOf, Range

\* The trace of a user is matched only as a call, a payment or a top-up.
LEMMA UserOps ==
    ASSUME NEW j, JobOK(j), j.kind = "user", NEW tr, UserIs(tr, j.acts, Len(j.acts)),
           NEW i \in 1 .. Len(tr), NEW kind \in Matching(tr[i])
    PROVE  kind \in {"CALL", "NATIVE_PAID", "NATIVE_ADDED", "JETTON_ADDED", "JETTON_PAID"}
<1>1. PICK n : n = Len(j.acts)
  OBVIOUS
<1>2. j.acts \in Seq(Acts) /\ n \in Nat /\ DOMAIN j.acts = 1 .. n
  BY <1>1 DEF JobOK
<1>3. UserIs(tr, j.acts, n) /\ Len(tr) = 1 + n
  <2>1. UserIs(tr, j.acts, n)
    BY <1>1
  <2>2. PICK l : l = 1 + n
    OBVIOUS
  <2>3. Listed(tr, l)
    BY <2>1, <2>2 DEF UserIs
  <2> QED
    BY <2>1, <2>2, <2>3, ListedIs
<1>4. PICK x \in 1 .. 1 + n : x = i
  BY <1>3
<1>5. x = 1 \/ \E k \in 1 .. n : x = 1 + k
  <2>1. x = 1 \/ (x - 1 \in 1 .. n /\ x = 1 + (x - 1))
    BY <1>2
  <2> QED
    BY <2>1
<1>6. tr[i].op \in {None} \cup ActOps
  <2>1. CASE x = 1
    <3>1. PICK out : out = [k \in DOMAIN j.acts |-> Out(j.acts[k].account, j.acts[k].op, Empty, 3)]
      OBVIOUS
    <3>2. tr[1] = Placed(Tx("user", None, Empty, out), 1)
      BY <1>3, <3>1 DEF UserIs
    <3>3. tr[1].op = None
      BY <3>2 DEF Placed, Tx
    <3> QED
      BY <1>4, <2>1, <3>3
  <2>2. ASSUME NEW k \in 1 .. n, x = 1 + k PROVE tr[i].op \in ActOps
    <3>1. tr[i] = Placed(ActTx(j.acts[k]), 1 + k) /\ j.acts[k] \in Acts
      BY <1>2, <1>3, <1>4, <2>2 DEF UserIs
    <3>2. tr[i].op = j.acts[k].op
      BY <3>1 DEF Placed, ActTx, Tx
    <3> QED
      BY <3>1, <3>2, RelayAssumption
  <2> QED
    BY <1>5, <2>1, <2>2
<1>7. kind \in Kinds /\ tr[i].op \in Ops(kind)
  BY MatchingKinds, OpMatters
<1> QED
  BY <1>6, <1>7 DEF Kinds, Ops, None, ActOps

\* The trace of a user reports no execution and no approval.
LEMMA UserEvents ==
    ASSUME RelayInv, stage = "done", job.kind = "user"
    PROVE  EventsOf("MESSAGE_EXECUTED") = {} /\ EventsOf("MESSAGE_APPROVED") = {}
<1>1. JobOK(job) /\ trace = TraceFor(job)
  BY DEF RelayInv, ControlOK, Parsed
<1>2. UserIs(trace, job.acts, Len(job.acts))
  BY <1>1, UserShape
<1>3. ASSUME NEW e \in Range(events) PROVE e.type \notin {"MESSAGE_EXECUTED", "MESSAGE_APPROVED"}
  <2>1. CASE \E i \in DOMAIN calls : OfCall(e, i)
    BY <2>1 DEF OfCall, IsPaidBy, CallEvent, CreditEvent, Event
  <2>2. CASE \E k \in DOMAIN parsers : e = OtherEvent(parsers[k])
    <3>1. PICK k \in DOMAIN parsers : e = OtherEvent(parsers[k])
      BY <2>2
    <3>2. PICK p : p = parsers[k]
      OBVIOUS
    <3>3. ParserOK(trace, at, p) /\ at = Len(trace) + 1 /\ Len(trace) \in Nat
      BY <3>2 DEF RelayInv, ScanOK, ParsersOK
    <3>4. CASE p = Refused(trace)
      <4>1. p.kind = "CANNOT_EXECUTE"
        BY <3>4 DEF Refused, Entry
      <4> QED
        BY <3>1, <3>2, <4>1 DEF OtherEvent, CannotExecuteEvent, Event
    <3>5. CASE p # Refused(trace)
      <4>1. PICK kind \in Others : p = ReadAs(trace, kind, p.tx) /\ ScannedAs(trace, at, kind, p.tx)
        BY <3>3, <3>5 DEF ParserOK
      <4>2. p.kind = kind
        BY <4>1 DEF ReadAs, Entry
      <4>3. PICK x : x = p.tx
        OBVIOUS
      <4>4. x \in 1 .. Len(trace) /\ kind \in Matching(trace[x])
        BY <3>3, <4>1, <4>3 DEF ScannedAs
      <4>5. kind \in {"CALL", "NATIVE_PAID", "NATIVE_ADDED", "JETTON_ADDED", "JETTON_PAID"}
        BY <1>1, <1>2, <4>4, UserOps
      <4>6. kind \in {"NATIVE_ADDED", "JETTON_ADDED"}
        BY <4>1, <4>5 DEF Others, Kinds, Paid
      <4>7. e = AddedEvent(p)
        BY <3>1, <3>2, <4>2, <4>6 DEF OtherEvent
      <4> QED
        BY <4>7 DEF AddedEvent, CreditEvent, Event
    <3> QED
      BY <3>4, <3>5
  <2> QED
    BY <2>1, <2>2, EventsAre
<1> QED
  BY <1>3, EventsOfType

\* CostsCharged, for every set of accounts, messages, acts and estimates: what is reported
\* for an execution, an approval or a refund is what the balances of the wallets, the
\* gateway and the gas service changed by.
THEOREM CostsAreCharged == RelaySpec => []CostsCharged
<1>1. ASSUME RelayInv, stage = "done" PROVE job.kind \in {"execute", "approve", "refund", "user"}
  BY <1>1 DEF RelayInv, ControlOK, Parsed, JobOK, Tasks
<1>2. ASSUME RelayInv PROVE ExecutionCost
  BY <1>1, <1>2, ExecuteCost, ApproveCosts, RefundCosts, UserEvents DEF ExecutionCost
<1>3. ASSUME RelayInv PROVE ApprovalCosts
  <2> SUFFICES ASSUME stage = "done", EventsOf("MESSAGE_APPROVED") # {}
               PROVE  LET charged == SumFunction([e \in EventsOf("MESSAGE_APPROVED") |-> e.amount])
                      IN  charged <= Spent /\ Spent < charged + Cardinality(EventsOf("MESSAGE_APPROVED"))
    BY DEF ApprovalCosts
  <2>1. job.kind = "approve"
    BY <1>1, <1>3, ExecuteCost, RefundCosts, UserEvents
  <2> QED
    BY <1>3, <2>1, ApproveCosts
<1>4. ASSUME RelayInv PROVE RefundCost
  BY <1>4, RefundCosts DEF RefundCost
<1>5. RelayInv => CostsCharged
  BY <1>2, <1>3, <1>4 DEF CostsCharged
<1> QED
  BY <1>5, RelayInvariant, PTL

----------------------------------------------------------------------------
(* Payments and the calls they are for. *)

\* The operation codes of a payment for a call.
PayOps == {"PAY_GAS", "PAY_NATIVE_GAS_FOR_CONTRACT_CALL", "USER_BALANCE_SUBTRACTED"}

\* The chain and the address of an act are text.
Readable(act) == IsString(build_cell_chain(act.key[1])) /\ IsString(build_cell_chain(act.key[2]))

\* An act that pays for a call, and the parser that reads it.
IsPayment(act) == act.account = GasService /\ act.op \in PayOps /\ ~act.topup
PaidKind(act) == IF act.op = "USER_BALANCE_SUBTRACTED" THEN "JETTON_PAID" ELSE "NATIVE_PAID"

\* An act that calls a contract.
IsCall(act) == act.account = Gateway /\ act.op = "CALL_CONTRACT"

\* The transaction of an act, in its place of the trace.
ActTxIs(t, act, h) ==
    /\ t.op = act.op /\ t.account = act.account /\ t.hash = h
    /\ t.out_msgs = <<LogOut(ActLog(act))>> /\ t.out_msgs[1].body = ActLog(act)
    /\ \A op : is_log_emmitted(t, op, 1) <=> op = act.op
    /\ \A op : ~is_log_emmitted(t, op, 2)

\* The transaction of an act has these fields and one log.
LEMMA ActTxShape ==
    ASSUME NEW act, NEW h
    PROVE  ActTxIs(Placed(ActTx(act), h), act, h)
<1>1. PICK log : log = LogOut(ActLog(act))
  OBVIOUS
<1>2. log.destination = None /\ log.body = ActLog(act)
  BY <1>1 DEF LogOut, Out
<1>3. PICK t : t = Placed(ActTx(act), h)
  OBVIOUS
<1>4. t.op = act.op /\ t.account = act.account /\ t.hash = h /\ t.out_msgs = <<log>>
  BY <1>1, <1>3 DEF Placed, ActTx, Tx
<1>5. DOMAIN t.out_msgs = {1} /\ t.out_msgs[1] = log
  BY <1>4
<1>6. \A op : is_log_emmitted(t, op, 1) <=> op = act.op
  BY <1>2, <1>4, <1>5 DEF is_log_emmitted
<1>7. \A op : ~is_log_emmitted(t, op, 2)
  BY <1>5 DEF is_log_emmitted
<1> QED
  BY <1>1, <1>2, <1>3, <1>4, <1>5, <1>6, <1>7 DEF ActTxIs

\* The key of an act, and its texts, are read back.
LEMMA ActKey ==
    ASSUME NEW act \in Acts
    PROVE  /\ act.key = <<act.key[1], act.key[2], act.key[3]>>
           /\ cell_to_buffer(build_cell_chain(act.key[1])) = act.key[1]
           /\ cell_to_buffer(build_cell_chain(act.key[2])) = act.key[2]
<1>1. act.key \in Seq(Bytes) \X Seq(Bytes) \X Seq(Bytes)
  BY RelayAssumption
<1>2. act.key[1] \in Seq(Bytes) /\ act.key[2] \in Seq(Bytes)
  BY <1>1
<1> QED
  BY <1>1, <1>2, BufferReadBack

\* What is read of a call, of a payment in TON and of one in a jetton.
LEMMA CallRead ==
    ASSUME NEW act \in Acts, act.op = "CALL_CONTRACT", CallContract(ActLog(act)).ok
    PROVE  Key(CallContract(ActLog(act))) = act.key /\ Readable(act)
<1>1. PICK c : c = ActLog(act)
  OBVIOUS
<1>2. /\ c.refs[1] = build_cell_chain(act.key[1]) /\ c.refs[2] = build_cell_chain(act.key[2])
      /\ Data(c, 2) = act.key[3]
  BY <1>1 DEF ActLog, Cell, Field, Data
<1>3. CallContract(c) # Fails
  BY <1>1 DEF Fails
<1>4. IsString(c.refs[1]) /\ IsString(c.refs[2])
  BY <1>3 DEF CallContract
<1>5. PICK log : log = CallContract(c)
  OBVIOUS
<1>6. /\ log.destination_chain = cell_to_buffer(c.refs[1]) /\ log.destination_address = cell_to_buffer(c.refs[2])
      /\ log.payload_hash = Data(c, 2)
  BY <1>3, <1>5 DEF CallContract
<1>7. Key(log) = act.key
  BY <1>2, <1>6, ActKey DEF Key
<1> QED
  BY <1>1, <1>2, <1>4, <1>5, <1>7 DEF Readable

\* A payment in TON is read when its texts are text, with its key and its amount.
LEMMA NativeRead ==
    ASSUME NEW act \in Acts, act.op \in {"PAY_GAS", "PAY_NATIVE_GAS_FOR_CONTRACT_CALL"}
    PROVE  /\ Readable(act) => NativeGasPaid(ActLog(act)).ok
           /\ NativeGasPaid(ActLog(act)).ok => /\ Key(NativeGasPaid(ActLog(act))) = act.key
                                               /\ NativeGasPaid(ActLog(act)).amount = act.amount
<1>1. PICK c : c = ActLog(act)
  OBVIOUS
<1>2. PICK who : who = Cell(<<Field("address", "user")>>, <<>>)
  OBVIOUS
<1>3. /\ c.data = <<Field("address", "user"), Field("bits256", act.key[3]), Field("bits256", act.amount)>>
      /\ c.refs = <<who, build_cell_chain(act.key[1]), build_cell_chain(act.key[2])>>
  BY <1>1, <1>2 DEF ActLog, Cell
<1>4. Loads(who, <<"address">>, 0)
  BY <1>2 DEF Loads, Cell, Field
<1>5. Loads(c, <<"address", "bits256", "bits256">>, 3)
  BY <1>3 DEF Loads, Field
<1>6. Data(c, 2) = act.key[3] /\ Data(c, 3) = act.amount
  BY <1>3 DEF Data, Field
<1>7. /\ c.refs[1] = who /\ c.refs[2] = build_cell_chain(act.key[1]) /\ c.refs[3] = build_cell_chain(act.key[2])
  BY <1>3
<1>8. PICK log : log = NativeGasPaid(c)
  OBVIOUS
<1>9. Readable(act) => log.ok
  BY <1>4, <1>5, <1>7, <1>8 DEF NativeGasPaid, Readable
<1>10. ASSUME log.ok
       PROVE  /\ log.destination_chain = cell_to_buffer(c.refs[2]) /\ log.destination_address = cell_to_buffer(c.refs[3])
              /\ log.payload_hash = Data(c, 2) /\ log.amount = Data(c, 3)
  <2>1. log # Fails
    BY <1>10 DEF Fails
  <2> QED
    BY <1>8, <2>1 DEF NativeGasPaid
<1>11. log.ok => Key(log) = act.key /\ log.amount = act.amount
  BY <1>6, <1>7, <1>10, ActKey DEF Key
<1> QED
  BY <1>1, <1>8, <1>9, <1>11

\* A payment in a jetton is told from a top-up, and read with its key.
LEMMA JettonRead ==
    ASSUME NEW act \in Acts, act.op = "USER_BALANCE_SUBTRACTED"
    PROVE  /\ act.topup => ~JettonGasPaid(ActLog(act)).ok
           /\ ~act.topup /\ Readable(act) => JettonGasPaid(ActLog(act)).ok
           /\ ~act.topup => ~JettonGasAdded(ActLog(act)).ok
           /\ ~act.topup /\ JettonGasPaid(ActLog(act)).ok => Key(JettonGasPaid(ActLog(act))) = act.key
<1>1. PICK c : c = ActLog(act)
  OBVIOUS
<1>2. PICK who : who = Cell(<<Field("address", "user")>>, <<>>)
  OBVIOUS
<1>t. act.topup \in BOOLEAN
  BY RelayAssumption
<1>3. CASE act.topup
  <2>1. c.data = <<Field("address", act.minter), Field("address", "user"), Field("coins", act.amount),
                   Field("bits256", act.key[3])>>
    BY <1>1, <1>3 DEF ActLog, Cell
  <2>2. ~Loads(c, <<"address", "coins", "bits256">>, 3)
    BY <2>1 DEF Loads, Field
  <2> QED
    BY <1>1, <1>3, <2>2 DEF JettonGasPaid, Fails
<1>4. CASE ~act.topup
  <2>1. /\ c.data = <<Field("address", act.minter), Field("coins", act.amount), Field("bits256", act.key[3])>>
        /\ c.refs = <<who, build_cell_chain(act.key[1]), build_cell_chain(act.key[2])>>
    BY <1>1, <1>2, <1>4 DEF ActLog, Cell
  <2>2. Loads(who, <<"address">>, 0)
    BY <1>2 DEF Loads, Cell, Field
  <2>3. Loads(c, <<"address", "coins", "bits256">>, 3)
    BY <2>1 DEF Loads, Field
  <2>4. ~Loads(c, <<"address", "address", "coins", "bits256">>, 1)
    BY <2>1 DEF Loads, Field
  <2>5. Data(c, 3) = act.key[3]
    BY <2>1 DEF Data, Field
  <2>6. c.refs[1] = who /\ c.refs[2] = build_cell_chain(act.key[1]) /\ c.refs[3] = build_cell_chain(act.key[2])
    BY <2>1
  <2>7. ~JettonGasAdded(c).ok
    BY <2>4 DEF JettonGasAdded, Fails
  <2>8. PICK log : log = JettonGasPaid(c)
    OBVIOUS
  <2>9. Readable(act) => log.ok
    BY <2>2, <2>3, <2>6, <2>8 DEF JettonGasPaid, Readable
  <2>10. ASSUME log.ok
         PROVE  /\ log.destination_chain = cell_to_buffer(c.refs[2]) /\ log.destination_address = cell_to_buffer(c.refs[3])
                /\ log.payload_hash = Data(c, 3)
    <3>1. log # Fails
      BY <2>10 DEF Fails
    <3> QED
      BY <2>8, <3>1 DEF JettonGasPaid
  <2>11. log.ok => Key(log) = act.key
    BY <2>5, <2>6, <2>10, ActKey DEF Key
  <2> QED
    BY <1>1, <1>4, <2>7, <2>8, <2>9, <2>11
<1> QED
  BY <1>t, <1>3, <1>4

\* The transaction of a payment is matched as one, or not at all.
LEMMA PaymentMatched ==
    ASSUME NEW act \in Acts, IsPayment(act), NEW t, NEW h, ActTxIs(t, act, h)
    PROVE  /\ Matching(t) \subseteq {PaidKind(act)}
           /\ Readable(act) => PaidKind(act) \in Matching(t)
<1>1. /\ t.op = act.op /\ t.account = GasService /\ act.op \in PayOps /\ ~act.topup
      /\ t.out_msgs[1].body = ActLog(act) /\ \A op : is_log_emmitted(t, op, 1) <=> op = act.op
  BY DEF ActTxIs, IsPayment
<1>2. ASSUME NEW kind \in Matching(t) PROVE kind = PaidKind(act)
  <2>1. kind \in Kinds /\ act.op \in Ops(kind)
    BY <1>1, MatchingKinds, OpMatters
  <2>2. kind # "JETTON_ADDED"
    <3> SUFFICES ASSUME kind = "JETTON_ADDED" PROVE FALSE
      OBVIOUS
    <3>1. IsJettonGasAdded(t)
      BY MatchingMeans
    <3>2. act.op = "USER_BALANCE_SUBTRACTED" /\ JettonGasAdded(ActLog(act)).ok
      BY <1>1, <3>1 DEF IsJettonGasAdded
    <3> QED
      BY <1>1, <3>2, JettonRead
  <2> QED
    BY <1>1, <2>1, <2>2 DEF Kinds, Ops, PayOps, PaidKind
<1>3. ASSUME Readable(act) PROVE Matching(t) # {}
  <2>1. CASE act.op = "USER_BALANCE_SUBTRACTED"
    <3>1. JettonGasPaid(ActLog(act)).ok
      BY <1>1, <1>3, <2>1, JettonRead
    <3>2. IsJettonGasPaid(t)
      BY <1>1, <2>1, <3>1 DEF IsJettonGasPaid
    <3> QED
      BY <3>2, MatchedBySome
  <2>2. CASE act.op # "USER_BALANCE_SUBTRACTED"
    <3>1. IsNativeGasPaid(t)
      BY <1>1, <2>2 DEF IsNativeGasPaid, PayOps
    <3> QED
      BY <3>1, MatchedBySome
  <2> QED
    BY <2>1, <2>2
<1> QED
  BY <1>2, <1>3

\* What is matched as a payment is one, and is read with the key and the amount of the act.
LEMMA PaidIsPayment ==
    ASSUME NEW act \in Acts, NEW t, NEW h, ActTxIs(t, act, h), NEW kind \in Matching(t), kind \in Paid,
           Log(kind, t).ok
    PROVE  /\ IsPayment(act) /\ kind = PaidKind(act) /\ Key(Log(kind, t)) = act.key
           /\ act.op # "USER_BALANCE_SUBTRACTED" => Log(kind, t).amount = act.amount
<1>1. /\ t.op = act.op /\ t.account = act.account
      /\ t.out_msgs[1].body = ActLog(act) /\ \A op : is_log_emmitted(t, op, 1) <=> op = act.op
  BY DEF ActTxIs
<1>2. act.topup \in BOOLEAN /\ (act.topup => act.op = "USER_BALANCE_SUBTRACTED")
  BY RelayAssumption
<1>3. CASE kind = "NATIVE_PAID"
  <2>1. IsNativeGasPaid(t)
    BY <1>3, MatchingMeans
  <2>2. act.account = GasService /\ act.op \in {"PAY_GAS", "PAY_NATIVE_GAS_FOR_CONTRACT_CALL"}
    BY <1>1, <2>1 DEF IsNativeGasPaid
  <2>3. Log(kind, t) = NativeGasPaid(ActLog(act))
    BY <1>1, <1>3 DEF Log
  <2>4. IsPayment(act) /\ kind = PaidKind(act)
    BY <1>2, <1>3, <2>2 DEF IsPayment, PayOps, PaidKind
  <2> QED
    BY <2>2, <2>3, <2>4, NativeRead
<1>4. CASE kind = "JETTON_PAID"
  <2>1. IsJettonGasPaid(t)
    BY <1>4, MatchingMeans
  <2>2. act.account = GasService /\ act.op = "USER_BALANCE_SUBTRACTED"
    BY <1>1, <2>1 DEF IsJettonGasPaid
  <2>3. Log(kind, t) = JettonGasPaid(ActLog(act))
    BY <1>1, <1>4 DEF Log
  <2>4. ~act.topup
    BY <2>2, <2>3, JettonRead
  <2>5. IsPayment(act) /\ kind = PaidKind(act)
    BY <1>4, <2>2, <2>4 DEF IsPayment, PayOps, PaidKind
  <2> QED
    BY <2>2, <2>3, <2>4, <2>5, JettonRead
<1> QED
  BY <1>3, <1>4 DEF Paid

\* What is matched as a call is one, and is read with the key of the act.
LEMMA CallMatched ==
    ASSUME NEW act \in Acts, NEW t, NEW h, ActTxIs(t, act, h)
    PROVE  /\ "CALL" \in Matching(t) <=> IsCall(act)
           /\ "CALL" \in Matching(t) /\ Log("CALL", t).ok => Key(Log("CALL", t)) = act.key /\ Readable(act)
<1>1. /\ t.op = act.op /\ t.account = act.account
      /\ t.out_msgs[1].body = ActLog(act) /\ \A op : is_log_emmitted(t, op, 1) <=> op = act.op
  BY DEF ActTxIs
<1>2. "CALL" \in Matching(t) <=> IsCall(act)
  BY <1>1, MatchingMeans DEF IsCallContract, IsCall
<1>3. Log("CALL", t) = CallContract(ActLog(act))
  BY <1>1 DEF Log
<1> QED
  BY <1>2, <1>3, CallRead DEF IsCall

\* The user's trace is scanned to its end: transaction 1 + i is that of act i.
Scanned(acts, n) ==
    /\ n \in Nat /\ acts \in Seq(Acts) /\ DOMAIN acts = 1 .. n /\ Len(trace) = 1 + n
    /\ Matching(trace[1]) = {}
    /\ \A i \in 1 .. n : ActTxIs(trace[1 + i], acts[i], 1 + i)

\* A user trace that is done is scanned to its end.
LEMMA UserScanned ==
    ASSUME RelayInv, stage = "done", job.kind = "user", NEW acts, acts = job.acts, NEW n, n = Len(acts)
    PROVE  Scanned(acts, n) /\ at - 1 = 1 + n
<1>1. JobOK(job) /\ trace = TraceFor(job)
  BY DEF RelayInv, ControlOK, Parsed
<1>2. UserIs(trace, acts, n)
  BY <1>1, UserShape
<1>3. acts \in Seq(Acts)
  BY <1>1 DEF JobOK
<1>4. PICK m \in Nat : m = n /\ DOMAIN acts = 1 .. m
  BY <1>3
<1>5. PICK l : l = 1 + n
  OBVIOUS
<1>6. Listed(trace, l)
  BY <1>2, <1>5 DEF UserIs
<1>7. Len(trace) = 1 + n
  BY <1>5, <1>6, ListedIs
<1>8. Matching(trace[1]) = {}
  <2>1. PICK out : out = [k \in DOMAIN acts |-> Out(acts[k].account, acts[k].op, Empty, 3)]
    OBVIOUS
  <2>2. trace[1] = Placed(Tx("user", None, Empty, out), 1)
    BY <1>2, <2>1 DEF UserIs
  <2>3. trace[1].op = None
    BY <2>2 DEF Placed, Tx
  <2> QED
    BY <2>3, Unmatched
<1>9. ASSUME NEW i \in 1 .. n PROVE ActTxIs(trace[1 + i], acts[i], 1 + i)
  <2>1. PICK t : t = trace[1 + i]
    OBVIOUS
  <2>2. PICK h : h = 1 + i
    OBVIOUS
  <2>3. t = Placed(ActTx(acts[i]), h)
    BY <1>2, <2>1, <2>2 DEF UserIs
  <2>4. ActTxIs(t, acts[i], h)
    BY <2>3, ActTxShape
  <2> QED
    BY <2>1, <2>2, <2>4
<1>10. at - 1 = 1 + n
  <2>1. at = Len(trace) + 1
    BY DEF RelayInv, ScanOK
  <2>2. at = (1 + m) + 1
    BY <1>4, <1>7, <2>1
  <2>3. at - 1 = 1 + m
    BY <2>2
  <2> QED
    BY <1>4, <2>3
<1> QED
  BY <1>3, <1>4, <1>7, <1>8, <1>9, <1>10 DEF Scanned

\* A transaction of the trace that is matched is that of an act.
LEMMA ScannedAct ==
    ASSUME NEW acts, NEW n, Scanned(acts, n), NEW x \in 1 .. 1 + n, Matching(trace[x]) # {}
    PROVE  \E i \in 1 .. n : x = 1 + i /\ acts[i] \in Acts /\ ActTxIs(trace[x], acts[i], x)
<1>1. n \in Nat /\ x # 1
  BY DEF Scanned
<1>2. x - 1 \in 1 .. n /\ x = 1 + (x - 1)
  BY <1>1
<1>3. PICK i \in 1 .. n : x = 1 + i
  BY <1>2
<1>4. acts[i] \in Acts /\ ActTxIs(trace[1 + i], acts[i], 1 + i)
  BY DEF Scanned
<1> QED
  BY <1>3, <1>4

\* Call k of the trace is act j.
CallIsAct(k, act, x) ==
    /\ IsCall(act) /\ Readable(act) /\ calls[k].tx = x
    /\ Key(calls[k].log) = act.key /\ CallEvent(calls[k]).message = MessageId(x)

\* Every collected call is an act of the user.
LEMMA CallsMade ==
    ASSUME NEW acts, NEW n, Scanned(acts, n), at - 1 = 1 + n, CallsOK(trace, at, calls), NEW k \in DOMAIN calls
    PROVE  \E j \in 1 .. n : CallIsAct(k, acts[j], 1 + j)
<1>1. PICK x : x = calls[k].tx
  OBVIOUS
<1>2. calls[k] = ReadAs(trace, "CALL", x) /\ ScannedAs(trace, at, "CALL", x)
  BY <1>1 DEF CallsOK
<1>3. x \in 1 .. 1 + n /\ "CALL" \in Matching(trace[x]) /\ Log("CALL", trace[x]).ok
  BY <1>2 DEF ScannedAs
<1>4. PICK j \in 1 .. n : x = 1 + j /\ acts[j] \in Acts /\ ActTxIs(trace[x], acts[j], x)
  BY <1>3, ScannedAct
<1>5. calls[k].log = Log("CALL", trace[x])
  BY <1>2, EntryIs DEF ReadAs
<1>6. IsCall(acts[j]) /\ Key(calls[k].log) = acts[j].key /\ Readable(acts[j])
  BY <1>3, <1>4, <1>5, CallMatched
<1>7. trace[x].hash = x
  BY <1>4 DEF ActTxIs
<1>8. CallEvent(calls[k]).message = MessageId(x)
  BY <1>1, <1>7 DEF CallEvent, Event
<1>9. CallIsAct(k, acts[j], x)
  BY <1>1, <1>6, <1>8 DEF CallIsAct
<1> QED
  BY <1>4, <1>9

\* Every call of the user is collected.
LEMMA CallsTaken ==
    ASSUME NEW acts, NEW n, Scanned(acts, n), at - 1 = 1 + n, CallsOK(trace, at, calls),
           NEW j \in 1 .. n, IsCall(acts[j])
    PROVE  \E k \in DOMAIN calls : CallIsAct(k, acts[j], 1 + j)
<1>1. acts[j] \in Acts /\ ActTxIs(trace[1 + j], acts[j], 1 + j) /\ n \in Nat
  BY DEF Scanned
<1>2. PICK x : x = 1 + j
  OBVIOUS
<1>3. x \in 1 .. 1 + n
  BY <1>1, <1>2
<1>4. "CALL" \in Matching(trace[x])
  BY <1>1, <1>2, CallMatched
<1>5. PICK k \in DOMAIN calls : calls[k].tx = x
  BY <1>3, <1>4 DEF CallsOK
<1>6. PICK i \in 1 .. n : CallIsAct(k, acts[i], 1 + i)
  BY CallsMade
<1>7. 1 + i = 1 + j
  BY <1>2, <1>5, <1>6 DEF CallIsAct
<1>8. i = j
  BY <1>1, <1>7
<1> QED
  BY <1>6, <1>8

\* Credit c is the payment of an act at place x of the trace.
CreditIsAct(c, act, x) ==
    /\ IsPayment(act) /\ c.key = act.key /\ c.parser.tx = x
    /\ act.op # "USER_BALANCE_SUBTRACTED" => Payment(c.parser) = act.amount

\* Every credit is a payment of the user.
LEMMA CreditsMade ==
    ASSUME NEW acts, NEW n, Scanned(acts, n), at - 1 = 1 + n, CreditsOK(trace, at, credits), NEW c \in credits
    PROVE  \E i \in 1 .. n : CreditIsAct(c, acts[i], 1 + i)
<1>1. PICK x : x = c.parser.tx
  OBVIOUS
<1>2. PICK kind \in Paid : /\ c.parser = ReadAs(trace, kind, x)
                           /\ ScannedAs(trace, at, kind, x) /\ c.key = Key(c.parser.log)
  <2>1. PICK kind \in Paid : /\ c = [key |-> c.key, parser |-> ReadAs(trace, kind, x)]
                             /\ ScannedAs(trace, at, kind, x) /\ c.key = Key(c.parser.log)
    BY <1>1 DEF CreditsOK, CreditOK
  <2>2. PICK p : p = ReadAs(trace, kind, x)
    OBVIOUS
  <2>3. PICK key : key = c.key
    OBVIOUS
  <2>4. c = [key |-> key, parser |-> p]
    BY <2>1, <2>2, <2>3
  <2>5. c.parser = p
    BY <2>4
  <2> QED
    BY <2>1, <2>2, <2>5
<1>3. x \in 1 .. 1 + n /\ kind \in Matching(trace[x]) /\ Log(kind, trace[x]).ok
  BY <1>2 DEF ScannedAs
<1>4. PICK i \in 1 .. n : x = 1 + i /\ acts[i] \in Acts /\ ActTxIs(trace[x], acts[i], x)
  BY <1>3, ScannedAct
<1>5. c.parser.log = Log(kind, trace[x]) /\ c.parser.kind = kind
  BY <1>2, EntryIs DEF ReadAs
<1>6. /\ IsPayment(acts[i]) /\ kind = PaidKind(acts[i]) /\ c.key = acts[i].key
      /\ acts[i].op # "USER_BALANCE_SUBTRACTED" => c.parser.log.amount = acts[i].amount
  BY <1>2, <1>3, <1>4, <1>5, PaidIsPayment
<1>7. acts[i].op # "USER_BALANCE_SUBTRACTED" => Payment(c.parser) = acts[i].amount
  BY <1>5, <1>6 DEF PaidKind, Payment, NativePayment
<1>8. CreditIsAct(c, acts[i], x)
  BY <1>1, <1>6, <1>7 DEF CreditIsAct
<1> QED
  BY <1>4, <1>8

\* A credit at the place of act i is its payment.
LEMMA CreditAt ==
    ASSUME NEW acts, NEW n, Scanned(acts, n), at - 1 = 1 + n, CreditsOK(trace, at, credits), NEW c \in credits,
           NEW i \in 1 .. n, c.parser.tx = 1 + i
    PROVE  CreditIsAct(c, acts[i], 1 + i)
<1>1. PICK h \in 1 .. n : CreditIsAct(c, acts[h], 1 + h)
  BY CreditsMade
<1>2. 1 + h = 1 + i /\ n \in Nat
  BY <1>1 DEF CreditIsAct, Scanned
<1>3. h = i
  BY <1>2
<1> QED
  BY <1>1, <1>3

\* A payment that can be read is in the credits, or a later one with its key is.
LEMMA CreditsTaken ==
    ASSUME NEW acts, NEW n, Scanned(acts, n), at - 1 = 1 + n, CreditsOK(trace, at, credits),
           NEW i \in 1 .. n, IsPayment(acts[i]), Readable(acts[i])
    PROVE  \E c \in credits : c.key = acts[i].key
<1>1. acts[i] \in Acts /\ ActTxIs(trace[1 + i], acts[i], 1 + i) /\ n \in Nat
  BY DEF Scanned
<1>2. PICK x : x = 1 + i
  OBVIOUS
<1>3. x \in 1 .. at - 1
  BY <1>1, <1>2
<1>4. PICK t : t = trace[x]
  OBVIOUS
<1>5. PICK kind : kind = PaidKind(acts[i])
  OBVIOUS
<1>6. kind \in Matching(t) /\ kind \in Paid
  BY <1>1, <1>2, <1>4, <1>5, PaymentMatched DEF PaidKind, Paid
<1>7. PICK c \in credits : c.key = Key(Log(kind, t))
  BY <1>3, <1>4, <1>6 DEF CreditsOK
<1>8. Log(kind, t).ok
  <2>1. t.out_msgs[1].body = ActLog(acts[i])
    BY <1>1, <1>2, <1>4 DEF ActTxIs
  <2>2. CASE acts[i].op = "USER_BALANCE_SUBTRACTED"
    <3>1. Log(kind, t) = JettonGasPaid(ActLog(acts[i]))
      BY <1>5, <2>1, <2>2 DEF Log, PaidKind
    <3> QED
      BY <1>1, <2>2, <3>1, JettonRead DEF IsPayment
  <2>3. CASE acts[i].op # "USER_BALANCE_SUBTRACTED"
    <3>1. Log(kind, t) = NativeGasPaid(ActLog(acts[i]))
      BY <1>5, <2>1, <2>3 DEF Log, PaidKind
    <3>2. acts[i].op \in {"PAY_GAS", "PAY_NATIVE_GAS_FOR_CONTRACT_CALL"}
      BY <2>3 DEF IsPayment, PayOps
    <3> QED
      BY <1>1, <3>1, <3>2, NativeRead
  <2> QED
    BY <2>2, <2>3
<1>9. Key(Log(kind, t)) = acts[i].key
  BY <1>1, <1>2, <1>4, <1>6, <1>8, PaidIsPayment
<1> QED
  BY <1>7, <1>9

\* A set of numbers has a least one.
LEMMA LeastNatural ==
    ASSUME NEW S, S \subseteq Nat, S # {}
    PROVE  \E i \in S : \A j \in S : i <= j
<1> SUFFICES ASSUME \A i \in S : \E j \in S : ~(i <= j)
             PROVE  FALSE
  OBVIOUS
<1> DEFINE N == {n \in Nat : \A j \in 0 .. n : j \notin S}
<1>1. 0 \in N
  <2>1. \A j \in S : 0 <= j
    OBVIOUS
  <2>2. 0 \notin S
    BY <2>1
  <2>3. 0 .. 0 = {0}
    OBVIOUS
  <2> QED
    BY <2>2, <2>3
<1>2. ASSUME NEW n \in Nat, n \in N PROVE n + 1 \in N
  <2>1. \A j \in S : ~(j <= n)
    BY <1>2
  <2>2. \A j \in S : n + 1 <= j
    BY <2>1
  <2>3. n + 1 \notin S
    BY <2>2
  <2>4. \A j \in 0 .. n + 1 : j \in 0 .. n \/ j = n + 1
    OBVIOUS
  <2> QED
    BY <1>2, <2>3, <2>4
<1>3. \A n \in Nat : n \in N
  <2> HIDE DEF N
  <2> QED
    BY <1>1, <1>2, SetOfNaturals
<1>4. \A n \in Nat : n \notin S
  <2>1. \A n \in Nat : n \in 0 .. n
    OBVIOUS
  <2> QED
    BY <1>3, <2>1
<1> QED
  BY <1>4

\* A key that some call has, one call has first.
LEMMA FirstCall ==
    ASSUME calls \in Seq(Entries(trace)), NEW key, NEW k \in DOMAIN calls, Key(calls[k].log) = key
    PROVE  \E i \in DOMAIN calls : FirstOfKey(i) /\ Key(calls[i].log) = key
<1>1. PICK m \in Nat : DOMAIN calls = 1 .. m
  OBVIOUS
<1>2. PICK S : S = {i \in 1 .. m : Key(calls[i].log) = key}
  OBVIOUS
<1>3. S \subseteq Nat /\ S # {}
  BY <1>1, <1>2
<1>4. PICK i \in S : \A j \in S : i <= j
  BY <1>3, LeastNatural
<1>5. i \in 1 .. m /\ Key(calls[i].log) = key
  BY <1>2
<1>6. ASSUME NEW j \in 1 .. i - 1 PROVE Key(calls[j].log) # key
  <2>1. j \in 1 .. m /\ ~(i <= j)
    BY <1>5
  <2> QED
    BY <1>2, <1>4, <2>1
<1> QED
  BY <1>1, <1>5, <1>6 DEF FirstOfKey

\* An event that credits the payment of act i is that of a call which takes its credit.
LEMMA CreditEventsAre ==
    ASSUME RelayInv, stage = "done", NEW acts, NEW n, Scanned(acts, n), at - 1 = 1 + n,
           NEW i \in 1 .. n, IsPayment(acts[i]), NEW e \in EventsOf("GAS_CREDIT"), e.id = 1 + i
    PROVE  \E k \in DOMAIN calls, c \in credits : IsPaidBy(e, k, c) /\ CreditIsAct(c, acts[i], 1 + i)
<1>1. e \in Range(events) /\ e.type = "GAS_CREDIT"
  BY EventsOfType
<1>2. CreditsOK(trace, at, credits) /\ ParsersOK(trace, at, parsers)
  BY DEF RelayInv, ScanOK
<1>3. PICK x : x = 1 + i
  OBVIOUS
<1>4. n \in Nat /\ acts[i] \in Acts /\ ActTxIs(trace[x], acts[i], x)
  BY <1>3 DEF Scanned
<1>5. ASSUME NEW k \in DOMAIN parsers, e = OtherEvent(parsers[k]) PROVE FALSE
  <2>1. PICK p : p = parsers[k]
    OBVIOUS
  <2>2. ParserOK(trace, at, p)
    BY <1>2, <2>1 DEF ParsersOK
  <2>3. CASE p = Refused(trace)
    <3>1. p.kind = "CANNOT_EXECUTE"
      BY <2>3, EntryIs DEF Refused
    <3>2. e = CannotExecuteEvent(p)
      BY <1>5, <2>1, <3>1 DEF OtherEvent
    <3> QED
      BY <1>1, <3>2 DEF CannotExecuteEvent, Event
  <2>4. CASE p # Refused(trace)
    <3>1. PICK kind \in Others : p = ReadAs(trace, kind, p.tx) /\ ScannedAs(trace, at, kind, p.tx)
      BY <2>2, <2>4 DEF ParserOK
    <3>2. p.kind = kind
      BY <3>1, EntryIs DEF ReadAs
    <3>3. kind \in Matching(trace[p.tx])
      BY <3>1 DEF ScannedAs
    <3>4. e.id = p.tx
      <4>1. kind \in {"MESSAGE_APPROVED", "MESSAGE_EXECUTED", "NATIVE_ADDED", "JETTON_ADDED", "REFUNDED"}
        BY <3>1 DEF Others, Kinds, Paid
      <4>2. \/ e = ApprovedEvent(p) \/ e = ExecutedEvent(p) \/ e = AddedEvent(p) \/ e = RefundedEvent(p)
        BY <1>5, <2>1, <3>2, <4>1 DEF OtherEvent
      <4>3. \A type, id, m, amount : Event(type, id, m, amount).id = id
        BY DEF Event
      <4> QED
        BY <4>2, <4>3 DEF ApprovedEvent, ExecutedEvent, AddedEvent, RefundedEvent, CreditEvent
    <3>5. p.tx = x
      BY <1>3, <3>4
    <3>6. kind = PaidKind(acts[i])
      BY <1>4, <3>3, <3>5, PaymentMatched
    <3> QED
      BY <3>1, <3>6 DEF PaidKind, Others, Paid
  <2> QED
    BY <2>3, <2>4
<1>6. PICK k \in DOMAIN calls : OfCall(e, k)
  BY <1>1, <1>5, EventsAre
<1>7. e # CallEvent(calls[k])
  BY <1>1 DEF CallEvent, Event
<1>8. PICK c \in credits : IsPaidBy(e, k, c)
  BY <1>6, <1>7 DEF OfCall
<1>9. c.parser.tx = 1 + i
  BY <1>8 DEF IsPaidBy, CreditEvent, Event
<1>10. CreditIsAct(c, acts[i], 1 + i)
  BY <1>2, <1>9, CreditAt
<1> QED
  BY <1>8, <1>10

\* A payment credits one call.
LEMMA CreditOnce ==
    ASSUME RelayInv, stage = "done", NEW acts, NEW n, Scanned(acts, n), at - 1 = 1 + n,
           NEW i \in 1 .. n, IsPayment(acts[i]),
           NEW e \in EventsOf("GAS_CREDIT"), e.id = 1 + i, NEW f \in EventsOf("GAS_CREDIT"), f.id = 1 + i
    PROVE  e = f
<1>1. PICK k \in DOMAIN calls, c \in credits : IsPaidBy(e, k, c) /\ CreditIsAct(c, acts[i], 1 + i)
  BY CreditEventsAre
<1>2. PICK h \in DOMAIN calls, d \in credits : IsPaidBy(f, h, d) /\ CreditIsAct(d, acts[i], 1 + i)
  BY CreditEventsAre
<1>3. c = d
  <2>1. c.key = d.key
    BY <1>1, <1>2 DEF CreditIsAct
  <2> QED
    BY <2>1 DEF RelayInv, ScanOK, CreditsOK
<1>4. Key(calls[k].log) = Key(calls[h].log) /\ FirstOfKey(k) /\ FirstOfKey(h)
  BY <1>1, <1>2, <1>3 DEF IsPaidBy
<1>5. k = h
  <2>1. PICK m \in Nat : DOMAIN calls = 1 .. m
    BY DEF RelayInv, ScanOK, CallsOK
  <2>2. k \in 1 .. m /\ h \in 1 .. m
    BY <2>1
  <2>3. k \notin 1 .. h - 1 /\ h \notin 1 .. k - 1
    BY <1>4 DEF FirstOfKey
  <2> QED
    BY <2>2, <2>3
<1> QED
  BY <1>1, <1>2, <1>3, <1>5 DEF IsPaidBy

\* A credit names a call that was made with the key of the payment, and its amount.
LEMMA CreditRight ==
    ASSUME RelayInv, stage = "done", NEW acts, NEW n, Scanned(acts, n), at - 1 = 1 + n,
           NEW i \in 1 .. n, IsPayment(acts[i]), NEW e \in EventsOf("GAS_CREDIT"), e.id = 1 + i
    PROVE  /\ \E j \in 1 .. n : /\ IsCall(acts[j]) /\ acts[j].key = acts[i].key
                                /\ e.message = MessageId(1 + j)
           /\ acts[i].op # "USER_BALANCE_SUBTRACTED" => e.amount = acts[i].amount
<1>1. PICK k \in DOMAIN calls, c \in credits : IsPaidBy(e, k, c) /\ CreditIsAct(c, acts[i], 1 + i)
  BY CreditEventsAre
<1>2. CallsOK(trace, at, calls)
  BY DEF RelayInv, ScanOK
<1>3. PICK j \in 1 .. n : CallIsAct(k, acts[j], 1 + j)
  BY <1>2, CallsMade
<1>4. e.message = CallEvent(calls[k]).message /\ e.amount = Payment(c.parser) /\ c.key = Key(calls[k].log)
  BY <1>1 DEF IsPaidBy, CreditEvent, Event
<1>5. IsCall(acts[j]) /\ acts[j].key = acts[i].key /\ e.message = MessageId(1 + j)
  BY <1>1, <1>3, <1>4 DEF CallIsAct, CreditIsAct
<1>6. acts[i].op # "USER_BALANCE_SUBTRACTED" => e.amount = acts[i].amount
  BY <1>1, <1>4 DEF CreditIsAct
<1> QED
  BY <1>5, <1>6

\* A payment is not forgotten when no other has its key and a call with its key was made.
LEMMA CreditGiven ==
    ASSUME RelayInv, stage = "done", NEW acts, NEW n, Scanned(acts, n), at - 1 = 1 + n,
           NEW i \in 1 .. n, IsPayment(acts[i]),
           \A k \in 1 .. n : IsPayment(acts[k]) /\ acts[k].key = acts[i].key => k = i,
           NEW j \in 1 .. n, IsCall(acts[j]), acts[j].key = acts[i].key
    PROVE  \E e \in EventsOf("GAS_CREDIT") : e.id = 1 + i
<1>1. CallsOK(trace, at, calls) /\ CreditsOK(trace, at, credits) /\ calls \in Seq(Entries(trace))
  BY DEF RelayInv, ScanOK, CallsOK
<1>2. PICK l \in DOMAIN calls : CallIsAct(l, acts[j], 1 + j)
  BY <1>1, CallsTaken
<1>3. Readable(acts[i]) /\ Key(calls[l].log) = acts[i].key
  BY <1>2 DEF CallIsAct, Readable
<1>4. PICK c \in credits : c.key = acts[i].key
  BY <1>1, <1>3, CreditsTaken
<1>5. PICK h \in 1 .. n : CreditIsAct(c, acts[h], 1 + h)
  BY <1>1, CreditsMade
<1>6. h = i
  BY <1>4, <1>5 DEF CreditIsAct
<1>7. PICK k \in DOMAIN calls : FirstOfKey(k) /\ Key(calls[k].log) = acts[i].key
  BY <1>1, <1>3, FirstCall
<1>8. PICK e : e = CreditEvent(c.parser, CallEvent(calls[k]).message)
  OBVIOUS
<1>9. OfCall(e, k)
  BY <1>4, <1>7, <1>8 DEF OfCall, IsPaidBy
<1>10. e \in Range(events)
  BY <1>9, EventsAre
<1>11. e.type = "GAS_CREDIT" /\ e.id = c.parser.tx
  BY <1>8 DEF CreditEvent, Event
<1>12. e.id = 1 + i
  BY <1>5, <1>6, <1>11 DEF CreditIsAct
<1> QED
  BY <1>10, <1>11, <1>12, EventsOfType

\* PaymentsCredited, for every set of acts and prices, and traces of every length: a
\* payment credits one call, made with its key, with its amount, and is not forgotten
\* unless another payment has its key.
THEOREM PaymentsAreCredited == RelaySpec => []PaymentsCredited
<1>1. ASSUME RelayInv PROVE PaymentsCredited
  <2> SUFFICES ASSUME stage = "done", job.kind = "user", NEW i \in UserPayments
               PROVE  LET credit == {e \in EventsOf("GAS_CREDIT") : e.id = i + 1}
                          made == {j \in UserCalls : job.acts[j].key = job.acts[i].key}
                          alone == \A k \in UserPayments \ {i} : job.acts[k].key # job.acts[i].key
                      IN  /\ Cardinality(credit) <= 1
                          /\ \A e \in credit : /\ \E j \in made : e.message = MessageId(j + 1)
                                               /\ job.acts[i].op # "USER_BALANCE_SUBTRACTED" => e.amount = job.acts[i].amount
                          /\ alone /\ made # {} => credit # {}
    BY DEF PaymentsCredited
  <2>1. PICK acts : acts = job.acts
    OBVIOUS
  <2>2. PICK n : n = Len(acts)
    OBVIOUS
  <2>3. Scanned(acts, n) /\ at - 1 = 1 + n
    BY <1>1, <2>1, <2>2, UserScanned
  <2>4. n \in Nat /\ DOMAIN acts = 1 .. n
    BY <2>3 DEF Scanned
  <2>5. UserPayments = {k \in 1 .. n : IsPayment(acts[k])}
    BY <2>1, <2>4 DEF UserPayments, ActsAt, IsPayment, PayOps
  <2>6. UserCalls = {k \in 1 .. n : IsCall(acts[k])}
    BY <2>1, <2>4 DEF UserCalls, ActsAt, IsCall
  <2>7. i \in 1 .. n /\ IsPayment(acts[i])
    BY <2>5
  <2>8. \A k \in 1 .. n : k + 1 = 1 + k
    BY <2>4
  <2>9. PICK credit : credit = {e \in EventsOf("GAS_CREDIT") : e.id = i + 1}
    OBVIOUS
  <2>10. \A e \in credit : e \in EventsOf("GAS_CREDIT") /\ e.id = 1 + i
    BY <2>7, <2>8, <2>9
  <2>11. Cardinality(credit) <= 1
    <3>1. \A e, f \in credit : e = f
      BY <1>1, <2>3, <2>7, <2>10, CreditOnce
    <3>2. CASE credit = {}
      BY <3>2, FS_EmptySet
    <3>3. CASE credit # {}
      <4>1. PICK e \in credit : TRUE
        BY <3>3
      <4>2. credit = {e}
        BY <3>1
      <4> QED
        BY <4>2, FS_Singleton
    <3> QED
      BY <3>2, <3>3
  <2>12. ASSUME NEW e \in credit
         PROVE  /\ \E j \in UserCalls : acts[j].key = acts[i].key /\ e.message = MessageId(j + 1)
                /\ acts[i].op # "USER_BALANCE_SUBTRACTED" => e.amount = acts[i].amount
    <3>1. PICK j \in 1 .. n : IsCall(acts[j]) /\ acts[j].key = acts[i].key /\ e.message = MessageId(1 + j)
      BY <1>1, <2>3, <2>7, <2>10, CreditRight
    <3>2. acts[i].op # "USER_BALANCE_SUBTRACTED" => e.amount = acts[i].amount
      BY <1>1, <2>3, <2>7, <2>10, CreditRight
    <3>3. j \in UserCalls /\ e.message = MessageId(j + 1)
      BY <2>6, <2>8, <3>1
    <3> QED
      BY <3>1, <3>2, <3>3
  <2>13. ASSUME \A k \in UserPayments \ {i} : acts[k].key # acts[i].key,
                NEW j \in UserCalls, acts[j].key = acts[i].key
         PROVE  credit # {}
    <3>1. \A k \in 1 .. n : IsPayment(acts[k]) /\ acts[k].key = acts[i].key => k = i
      BY <2>5, <2>13
    <3>2. j \in 1 .. n /\ IsCall(acts[j])
      BY <2>6
    <3>3. PICK e \in EventsOf("GAS_CREDIT") : e.id = 1 + i
      BY <1>1, <2>3, <2>7, <2>13, <3>1, <3>2, CreditGiven
    <3> QED
      BY <2>7, <2>8, <2>9, <3>3
  <2> QED
    BY <2>1, <2>9, <2>11, <2>12, <2>13
<1>2. RelayInv => PaymentsCredited
  BY <1>1
<1> QED
  BY <1>2, RelayInvariant, PTL
=============================================================================

----------------------------- MODULE GmpProofs ------------------------------
(***************************************************************************)
(* Proofs about the GMP API client and its audit, for every number of      *)
(* retries and of polls, of workers, calls and faults, and for every set   *)
(* of batches.                                                             *)
(***************************************************************************)
EXTENDS GmpApi, FiniteSetTheorems, TLAPS

\* The turns of the polling loop are counted by a natural number.
LEMMA TurnsNat == WaitTime \div PollInterval \in Nat
BY BroadcastAssumption

\* A broadcast and its outcome, and the audit: the two halves of the invariant.
BroadcastInv ==
    /\ BroadcastTypeOK /\ AcceptedInOrder /\ StageKnows
    /\ AnswerIsOutcome /\ DuplicateOnlyAfterLoss

RecordInv ==
    /\ AuditTypeOK /\ AuditedBeforePosted /\ ResponseIsOwn
    /\ InsertedFirst /\ PendingIsOwn

-----------------------------------------------------------------------------
\* The broadcasts the request became are counted by a number of its sends.
LEMMA CountNat ==
    ASSUME BroadcastTypeOK
    PROVE  IsFiniteSet(Accepted) /\ Cardinality(Accepted) \in Nat
<1>1. IsFiniteSet(Ids)
  BY FS_Interval, BroadcastAssumption DEF Ids
<1>2. IsFiniteSet(Accepted)
  BY <1>1, FS_Subset DEF Accepted
<1> QED
  BY <1>2, FS_CardinalityType

\* Accepting the request adds the next broadcast.
LEMMA AcceptNext ==
    ASSUME BroadcastTypeOK, AcceptedInOrder, sends <= MaxRetries, Accept
    PROVE  /\ axelar' \in [Ids -> {"none", "RECEIVED", "SUCCESS", "FAILED"}]
           /\ Cardinality(Accepted') = Cardinality(Accepted) + 1
           /\ \A b \in Ids : axelar'[b] # "none" <=> b <= Cardinality(Accepted')
           /\ Cardinality(Accepted) + 1 \in Ids
           /\ axelar'[Cardinality(Accepted) + 1] = "RECEIVED"
<1> DEFINE n == Cardinality(Accepted) + 1
<1>1. Cardinality(Accepted) \in Nat /\ IsFiniteSet(Accepted)
  BY CountNat
<1>2. n \in Ids
  BY <1>1, BroadcastAssumption DEF BroadcastTypeOK, AcceptedInOrder, Ids
<1>3. axelar' = [axelar EXCEPT ![n] = "RECEIVED"]
  BY DEF Accept
<1>4. n \notin Accepted
  BY <1>1, <1>2 DEF AcceptedInOrder, Accepted
<1>5. /\ axelar' \in [Ids -> {"none", "RECEIVED", "SUCCESS", "FAILED"}]
      /\ axelar'[n] = "RECEIVED" /\ \A b \in Ids \ {n} : axelar'[b] = axelar[b]
  BY <1>2, <1>3 DEF BroadcastTypeOK
<1>6. Accepted' = Accepted \cup {n}
  BY <1>2, <1>5 DEF Accepted
<1>7. Cardinality(Accepted') = n
  BY <1>1, <1>4, <1>6, FS_AddElement
<1>8. \A b \in Ids : axelar'[b] # "none" <=> b <= n
  <2> SUFFICES ASSUME NEW b \in Ids
               PROVE  axelar'[b] # "none" <=> b <= n
    OBVIOUS
  <2>1. b \in Int /\ n \in Int
    BY <1>1 DEF Ids
  <2>2. axelar[b] # "none" <=> b <= Cardinality(Accepted)
    BY DEF AcceptedInOrder
  <2>3. CASE b = n
    BY <1>5, <2>1, <2>3
  <2>4. CASE b # n
    BY <1>1, <1>5, <2>1, <2>2, <2>4
  <2> QED
    BY <2>3, <2>4
<1> QED
  BY <1>2, <1>5, <1>7, <1>8

\* The request is answered or fails.
LEMMA SendKeeps ==
    ASSUME BroadcastInv, RequestAnswered \/ RequestTransient
    PROVE  BroadcastInv'
<1> USE DEF BroadcastInv
<1>0. pc = "send" /\ sends' = sends + 1 /\ UNCHANGED <<polls, lastSeen>>
  BY DEF RequestAnswered, RequestTransient
<1>1. /\ sends \in 0..MaxRetries /\ id = 0 /\ Cardinality(Accepted) = dropped /\ polls = 0
      /\ answer = "none" /\ dropped \in Nat
  BY <1>0, BroadcastAssumption DEF StageKnows, BroadcastTypeOK
<1>2. /\ axelar' \in [Ids -> {"none", "RECEIVED", "SUCCESS", "FAILED"}]
      /\ Cardinality(Accepted') \in Nat /\ Cardinality(Accepted') <= sends'
      /\ \A b \in Ids : axelar'[b] # "none" <=> b <= Cardinality(Accepted')
      /\ \/ Accept /\ Cardinality(Accepted') = dropped + 1 /\ dropped + 1 \in Ids
         \/ axelar' = axelar /\ Cardinality(Accepted') = dropped
  <2>1. CASE Accept
    BY <1>0, <1>1, <2>1, AcceptNext DEF AcceptedInOrder
  <2>2. CASE axelar' = axelar
    <3>1. Accepted' = Accepted
      BY <2>2 DEF Accepted
    <3> QED
      BY <1>0, <1>1, <2>2, <3>1 DEF AcceptedInOrder, BroadcastTypeOK
  <2> QED
    BY <2>1, <2>2 DEF RequestAnswered, RequestTransient
<1>3. \/ /\ pc' = "poll" /\ answer' = "none" /\ dropped' = dropped
         /\ id' = dropped + 1 /\ Cardinality(Accepted') = dropped + 1 /\ dropped + 1 \in Ids
      \/ /\ pc' = "returned" /\ answer' = "error" /\ id' = 0 /\ dropped' \in Nat
         /\ Cardinality(Accepted') <= dropped' + 1
      \/ /\ pc' = "send" /\ sends < MaxRetries /\ answer' = "none" /\ id' = 0
         /\ dropped' = Cardinality(Accepted')
  <2>1. CASE RequestAnswered
    <3>1. dropped' = dropped
      BY <2>1 DEF RequestAnswered
    <3>2. \/ Accept /\ id' = dropped + 1 /\ pc' = "poll" /\ answer' = "none"
          \/ pc' = "returned" /\ answer' = "error" /\ id' = 0
      BY <1>1, <2>1 DEF RequestAnswered, Returns
    <3>3. Accept => Cardinality(Accepted') = dropped + 1 /\ dropped + 1 \in Ids
      BY <1>0, <1>1, AcceptNext
    <3>4. Cardinality(Accepted') <= dropped + 1
      BY <1>1, <1>2
    <3> QED
      BY <1>1, <3>1, <3>2, <3>3, <3>4
  <2>2. CASE RequestTransient
    <3>1. id' = 0
      BY <1>1, <2>2 DEF RequestTransient
    <3>2. dropped' = Cardinality(Accepted')
      <4>1. CASE Accept /\ dropped' = dropped + 1
        BY <1>0, <1>1, <4>1, AcceptNext
      <4>2. CASE UNCHANGED <<axelar, dropped>>
        BY <1>1, <4>2 DEF Accepted
      <4> QED
        BY <2>2, <4>1, <4>2 DEF RequestTransient
    <3>3. \/ pc' = "send" /\ sends < MaxRetries /\ answer' = "none"
          \/ pc' = "returned" /\ answer' = "error"
      BY <1>0, <1>1, <2>2 DEF RequestTransient, Returns
    <3> QED
      BY <1>2, <3>1, <3>2, <3>3
  <2> QED
    BY <2>1, <2>2
<1>4. BroadcastTypeOK'
  <2>1. sends' \in 0..MaxRetries + 1
    BY <1>0, <1>1, BroadcastAssumption
  <2>2. id' \in 0..MaxRetries + 1 /\ dropped' \in Nat
    BY <1>1, <1>2, <1>3, BroadcastAssumption DEF Ids
  <2> QED
    BY <1>0, <1>2, <1>3, <2>1, <2>2 DEF BroadcastTypeOK
<1>5. AcceptedInOrder'
  BY <1>0, <1>2 DEF AcceptedInOrder, Ids
<1>6. StageKnows'
  BY <1>0, <1>1, <1>3, BroadcastAssumption DEF StageKnows, Ids
<1>7. AnswerIsOutcome'
  BY <1>3 DEF AnswerIsOutcome
<1>8. DuplicateOnlyAfterLoss'
  BY <1>1, <1>2, <1>3 DEF DuplicateOnlyAfterLoss, Ids
<1> QED
  BY <1>4, <1>5, <1>6, <1>7, <1>8

\* A turn of the polling loop: the broadcasts stay as they are.
LEMMA PollTurnKeeps ==
    ASSUME BroadcastInv, PollResult \/ PollTimesOut
    PROVE  BroadcastInv'
<1> USE DEF BroadcastInv
<1>1. pc = "poll" /\ UNCHANGED <<sends, axelar, id, dropped>>
  BY DEF PollResult, PollTimesOut
<1>2. Accepted' = Accepted
  BY <1>1 DEF Accepted
<1> DEFINE turns == WaitTime \div PollInterval
<1>3. turns \in Nat
  BY TurnsNat
<1> HIDE DEF turns
<1>4. polls \in 0..turns + 1 /\ id > 0 /\ id \in 0..MaxRetries + 1 /\ answer = "none"
      /\ (polls > 0 => lastSeen = "RECEIVED") /\ id = Cardinality(Accepted)
  BY <1>1, BroadcastAssumption DEF BroadcastTypeOK, StageKnows, DuplicateOnlyAfterLoss, turns
<1>5. AcceptedInOrder' /\ DuplicateOnlyAfterLoss'
  BY <1>1, <1>2 DEF AcceptedInOrder, DuplicateOnlyAfterLoss
<1>6. CASE PollResult
  <2>1. polls <= turns /\ polls' = polls + 1 /\ polls' \in 0..turns + 1
    BY <1>3, <1>4, <1>6 DEF PollResult, turns
  <2>2. \/ pc' = pc /\ answer' = answer /\ lastSeen' = "RECEIVED"
        \/ pc' = "returned" /\ answer' = "hash" /\ axelar[id] = "SUCCESS"
        \/ pc' = "returned" /\ answer' = "status" /\ axelar[id] = "FAILED"
        \/ pc' = "returned" /\ answer' = "error"
    BY <1>6 DEF PollResult, Returns
  <2>3. BroadcastTypeOK'
    BY <1>1, <2>1, <2>2 DEF BroadcastTypeOK, turns
  <2>4. StageKnows'
    BY <1>1, <1>4, <2>1, <2>2 DEF StageKnows
  <2>5. AnswerIsOutcome'
    BY <1>1, <1>4, <2>2 DEF AnswerIsOutcome
  <2> QED
    BY <1>5, <2>3, <2>4, <2>5
<1>7. CASE PollTimesOut
  <2>1. polls > turns /\ pc' = "returned" /\ answer' = "timeout" /\ UNCHANGED <<polls, lastSeen>>
    BY <1>7 DEF PollTimesOut, Returns, turns
  <2>2. polls = turns + 1 /\ lastSeen = "RECEIVED"
    BY <1>3, <1>4, <2>1
  <2>3. BroadcastTypeOK' /\ StageKnows'
    BY <1>1, <2>1 DEF BroadcastTypeOK, StageKnows
  <2>4. AnswerIsOutcome'
    BY <2>1, <2>2 DEF AnswerIsOutcome, turns
  <2> QED
    BY <1>5, <2>3, <2>4
<1> QED
  BY <1>6, <1>7

\* Axelar settles a broadcast: none is added, and a settled one stays.
LEMMA SettleKeeps ==
    ASSUME BroadcastInv, NEW b \in Ids, AxelarSettles(b)
    PROVE  BroadcastInv'
<1> USE DEF BroadcastInv
<1>1. axelar[b] = "RECEIVED" /\ UNCHANGED <<pc, sends, polls, id, answer, lastSeen, dropped>>
  BY DEF AxelarSettles
<1>2. PICK s \in {"SUCCESS", "FAILED"} : axelar' = [axelar EXCEPT ![b] = s]
  BY DEF AxelarSettles
<1>3. /\ axelar' \in [Ids -> {"none", "RECEIVED", "SUCCESS", "FAILED"}]
      /\ \A c \in Ids : (axelar'[c] # "none") <=> (axelar[c] # "none")
      /\ \A c \in Ids : axelar[c] \in {"SUCCESS", "FAILED"} => axelar'[c] = axelar[c]
  BY <1>1, <1>2 DEF BroadcastTypeOK
<1>4. Accepted' = Accepted
  BY <1>3 DEF Accepted
<1>5. BroadcastTypeOK'
  BY <1>1, <1>3 DEF BroadcastTypeOK
<1>6. AcceptedInOrder' /\ StageKnows' /\ DuplicateOnlyAfterLoss'
  BY <1>1, <1>3, <1>4 DEF AcceptedInOrder, StageKnows, DuplicateOnlyAfterLoss
<1>7. AnswerIsOutcome'
  <2>1. answer \in {"hash", "status"} => id \in Ids
    BY BroadcastAssumption DEF StageKnows, BroadcastTypeOK, Ids
  <2> QED
    BY <1>1, <1>3, <2>1 DEF AnswerIsOutcome
<1> QED
  BY <1>5, <1>6, <1>7

\* No step of a broadcast breaks its half of the invariant.
LEMMA BroadcastStep ==
    ASSUME BroadcastInv, BroadcastNext
    PROVE  BroadcastInv'
<1>1. CASE PostBroadcast
  <2>1. pc = "idle" /\ pc' = "send"
        /\ UNCHANGED <<sends, polls, axelar, id, answer, lastSeen, dropped>>
    BY <1>1 DEF PostBroadcast
  <2> QED
    BY <2>1 DEF BroadcastInv, BroadcastTypeOK, AcceptedInOrder, StageKnows, AnswerIsOutcome,
                DuplicateOnlyAfterLoss, Accepted
<1> QED
  BY <1>1, SendKeeps, PollTurnKeeps, SettleKeeps DEF BroadcastNext, ClientStep

-----------------------------------------------------------------------------
\* The events of a batch.
LEMMA BatchEvents ==
    ASSUME NEW w \in Workers
    PROVE  /\ Len(Batches[w]) \in Nat /\ Len(Batches[w]) > 0
           /\ DOMAIN Batches[w] = 1..Len(Batches[w])
           /\ \A i \in DOMAIN Batches[w] : Batches[w][i] \in Events
           /\ Range(Batches[w]) \subseteq Events
           /\ \A e \in Range(Batches[w]) : \E i \in DOMAIN Batches[w] : e = Batches[w][i]
<1>1. Batches[w] \in Seq(Events) /\ Len(Batches[w]) > 0
  BY AuditAssumption
<1> QED
  BY <1>1 DEF Range

\* What follows an event of the batch.
LEMMA AdvanceEffect ==
    ASSUME AuditTypeOK, NEW w \in Workers, NEW then \in {"call", "failed"},
           stage[w] \in {"insert", "save"}, Advance(w, then)
    PROVE  /\ next' \in [Workers -> Nat] /\ \A v \in Workers : next'[v] \in DOMAIN Batches[v]
           /\ stage' \in [Workers -> {"idle", "insert", "call", "save", "failed", "done"}]
           /\ \A v \in Workers \ {w} : next'[v] = next[v] /\ stage'[v] = stage[v]
           /\ \/ stage'[w] = stage[w] /\ next'[w] = next[w] + 1
              \/ stage'[w] = then /\ next[w] = Len(Batches[w])
<1>1. Len(Batches[w]) \in Nat /\ Len(Batches[w]) > 0 /\ DOMAIN Batches[w] = 1..Len(Batches[w])
  BY BatchEvents
<1>2. next[w] \in 1..Len(Batches[w])
  BY <1>1 DEF AuditTypeOK
<1> DEFINE n == IF next[w] < Len(Batches[w]) THEN next[w] + 1 ELSE 1
<1>3. /\ n \in 1..Len(Batches[w]) /\ next' = [next EXCEPT ![w] = n]
      /\ next[w] < Len(Batches[w]) => n = next[w] + 1
  BY <1>1, <1>2 DEF Advance
<1> HIDE DEF n
<1>4. PICK s \in {"insert", "save", "call", "failed"} :
          /\ stage' = [stage EXCEPT ![w] = s]
          /\ s = IF next[w] < Len(Batches[w]) THEN stage[w] ELSE then
  BY DEF Advance
<1> QED
  BY <1>1, <1>2, <1>3, <1>4 DEF AuditTypeOK

\* What is on record stays on record when rows only grow or are filled in.
LEMMA StaysOnRecord ==
    ASSUME NEW e, OnRecord(e), unsaved \subseteq unsaved', rows[e] # <<>> => rows'[e] # <<>>
    PROVE  OnRecord(e)'
BY DEF OnRecord

\* A row is inserted, or the insert fails.
LEMMA InsertKeeps ==
    ASSUME RecordInv, NEW w \in Workers, InsertEvent(w)
    PROVE  RecordInv'
<1> USE DEF RecordInv
<1> DEFINE e == Batches[w][next[w]]
<1>1. /\ stage[w] = "insert" /\ Advance(w, "call")
      /\ UNCHANGED <<calls, spawned, received, given, unanswered, fetched, taskRows>>
  BY DEF InsertEvent
<1>2. /\ e \in Events /\ next[w] \in DOMAIN Batches[w] /\ DOMAIN Batches[w] = 1..Len(Batches[w])
      /\ Len(Batches[w]) \in Nat
  BY BatchEvents DEF AuditTypeOK
<1>3. /\ next' \in [Workers -> Nat] /\ \A v \in Workers : next'[v] \in DOMAIN Batches[v]
      /\ stage' \in [Workers -> {"idle", "insert", "call", "save", "failed", "done"}]
      /\ \A v \in Workers \ {w} : next'[v] = next[v] /\ stage'[v] = stage[v]
      /\ \/ stage'[w] = "insert" /\ next'[w] = next[w] + 1
         \/ stage'[w] = "call" /\ next[w] = Len(Batches[w])
  BY <1>1, AdvanceEffect
<1>4. /\ rows' \in [Events -> Seq(Answers \cup {None})] /\ dbFaults' \in 0..MaxDbFaults
      /\ unsaved \subseteq unsaved'
      /\ \A f \in Events : rows[f] # <<>> => rows'[f] # <<>>
      /\ rows'[e] # <<>> \/ e \in unsaved'
      /\ \A f \in Events : \A i \in DOMAIN rows'[f] :
            rows'[f][i] # None => i \in DOMAIN rows[f] /\ rows'[f][i] = rows[f][i]
  <2>1. CASE rows' = [rows EXCEPT ![e] = Append(@, None)] /\ NoFault
    <3>1. rows[e] \in Seq(Answers \cup {None}) /\ rows'[e] = Append(rows[e], None)
          /\ (\A f \in Events \ {e} : rows'[f] = rows[f])
      BY <1>2, <2>1 DEF AuditTypeOK
    <3>2. Append(rows[e], None) \in Seq(Answers \cup {None}) /\ Append(rows[e], None) # <<>>
      BY <3>1
    <3>3. \A i \in DOMAIN rows'[e] : rows'[e][i] # None => i \in DOMAIN rows[e] /\ rows'[e][i] = rows[e][i]
      BY <3>1
    <3> QED
      BY <2>1, <3>1, <3>2, <3>3 DEF AuditTypeOK, NoFault
  <2>2. CASE DbFault({e}) /\ UNCHANGED rows
    BY <1>2, <2>2, AuditAssumption DEF AuditTypeOK, DbFault
  <2> QED
    BY <2>1, <2>2 DEF InsertEvent
<1>5. AuditTypeOK'
  BY <1>1, <1>3, <1>4 DEF AuditTypeOK
<1>6. \A f \in Events : OnRecord(f) => OnRecord(f)'
  BY <1>4, StaysOnRecord
<1>7. AuditedBeforePosted'
  BY <1>1, <1>6 DEF AuditedBeforePosted, AuditTypeOK
<1>8. ResponseIsOwn'
  BY <1>1, <1>4 DEF ResponseIsOwn
<1>9. InsertedFirst'
  <2> SUFFICES ASSUME NEW v \in Workers, NEW i \in DOMAIN Batches[v],
                      stage'[v] = "call" \/ (stage'[v] = "insert" /\ i < next'[v])
               PROVE  OnRecord(Batches[v][i])'
    BY DEF InsertedFirst
  <2>1. Batches[v][i] \in Events /\ i \in Nat
    BY BatchEvents
  <2>2. CASE v # w
    BY <1>3, <1>6, <2>1, <2>2 DEF InsertedFirst
  <2>3. CASE v = w /\ i < next[w]
    BY <1>1, <1>6, <2>1, <2>3 DEF InsertedFirst
  <2>4. CASE v = w /\ ~ (i < next[w])
    <3>1. i = next[w]
      BY <1>2, <1>3, <2>1, <2>4
    <3> QED
      BY <1>4, <2>4, <3>1 DEF OnRecord
  <2> QED
    BY <2>2, <2>3, <2>4
<1>10. PendingIsOwn'
  BY <1>1, <1>3 DEF PendingIsOwn
<1> QED
  BY <1>5, <1>7, <1>8, <1>9, <1>10

\* A response that was given for an event is written to the event's rows.
LEMMA UpdateEffect ==
    ASSUME AuditTypeOK, ResponseIsOwn, NEW e \in Events, NEW r \in Answers, <<e, r>> \in given,
           rows' = Updated(e, r), given' = given
    PROVE  /\ rows' \in [Events -> Seq(Answers \cup {None})] /\ ResponseIsOwn'
           /\ \A f \in Events : rows[f] # <<>> => rows'[f] # <<>>
<1>1. rows \in [Events -> Seq(Answers \cup {None})] /\ rows[e] \in Seq(Answers \cup {None})
  BY DEF AuditTypeOK
<1> DEFINE filled == [i \in DOMAIN rows[e] |-> r]
<1>2. rows' = [rows EXCEPT ![e] = filled]
  BY DEF Updated
<1>3. filled \in Seq(Answers \cup {None}) /\ DOMAIN filled = DOMAIN rows[e]
      /\ (rows[e] # <<>> => filled # <<>>) /\ \A i \in DOMAIN filled : filled[i] = r
  BY <1>1
<1> HIDE DEF filled
<1>4. rows'[e] = filled /\ \A f \in Events \ {e} : rows'[f] = rows[f]
  BY <1>1, <1>2
<1>5. ResponseIsOwn'
  BY <1>3, <1>4 DEF ResponseIsOwn
<1> QED
  BY <1>1, <1>2, <1>3, <1>4, <1>5

\* The error of a call is written to the rows of one of its events, or not.
LEMMA SaveKeeps ==
    ASSUME RecordInv, NEW w \in Workers, SaveError(w)
    PROVE  RecordInv'
<1> USE DEF RecordInv
<1> DEFINE e == Batches[w][next[w]]
<1>1. /\ stage[w] = "save" /\ Advance(w, "failed")
      /\ UNCHANGED <<calls, spawned, received, given, unanswered, fetched, taskRows>>
  BY DEF SaveError
<1>2. e \in Events /\ <<e, "error">> \in given
  BY <1>1, BatchEvents DEF AuditTypeOK, PendingIsOwn
<1>3. /\ next' \in [Workers -> Nat] /\ \A v \in Workers : next'[v] \in DOMAIN Batches[v]
      /\ stage' \in [Workers -> {"idle", "insert", "call", "save", "failed", "done"}]
      /\ \A v \in Workers \ {w} : next'[v] = next[v] /\ stage'[v] = stage[v]
      /\ stage'[w] \in {"save", "failed"}
  BY <1>1, AdvanceEffect
<1>4. /\ rows' \in [Events -> Seq(Answers \cup {None})] /\ dbFaults' \in 0..MaxDbFaults
      /\ unsaved \subseteq unsaved' /\ ResponseIsOwn'
      /\ \A f \in Events : rows[f] # <<>> => rows'[f] # <<>>
  <2>1. CASE rows' = Updated(e, "error") /\ NoFault
    <3>1. "error" \in Answers
      BY DEF Answers
    <3> HIDE DEF e
    <3> QED
      BY <1>1, <1>2, <2>1, <3>1, UpdateEffect DEF AuditTypeOK, NoFault
  <2>2. CASE DbFault({e}) /\ UNCHANGED rows
    BY <1>1, <2>2, AuditAssumption DEF AuditTypeOK, DbFault, ResponseIsOwn
  <2> QED
    BY <2>1, <2>2 DEF SaveError
<1>5. AuditTypeOK'
  BY <1>1, <1>3, <1>4 DEF AuditTypeOK
<1>6. \A f \in Events : OnRecord(f) => OnRecord(f)'
  BY <1>4, StaysOnRecord
<1>7. AuditedBeforePosted'
  BY <1>1, <1>6 DEF AuditedBeforePosted, AuditTypeOK
<1>8. InsertedFirst'
  BY <1>3, <1>6, BatchEvents DEF InsertedFirst
<1>9. PendingIsOwn'
  BY <1>1, <1>3 DEF PendingIsOwn
<1> QED
  BY <1>4, <1>5, <1>7, <1>8, <1>9

\* A spawned task writes a response, or fails to.
LEMMA WriteKeeps ==
    ASSUME RecordInv, NEW s \in spawned, WriteResponse(s)
    PROVE  RecordInv'
<1> USE DEF RecordInv
<1>1. /\ spawned' = spawned \ {s}
      /\ UNCHANGED <<stage, next, calls, received, given, unanswered, fetched, taskRows>>
  BY DEF WriteResponse
<1>2. s.event \in Events /\ s.response \in Answers /\ <<s.event, s.response>> \in given
  BY DEF AuditTypeOK, PendingIsOwn
<1>3. /\ rows' \in [Events -> Seq(Answers \cup {None})] /\ dbFaults' \in 0..MaxDbFaults
      /\ unsaved \subseteq unsaved' /\ ResponseIsOwn'
      /\ \A f \in Events : rows[f] # <<>> => rows'[f] # <<>>
  <2>1. CASE rows' = Updated(s.event, s.response) /\ NoFault
    BY <1>1, <1>2, <2>1, UpdateEffect DEF AuditTypeOK, NoFault
  <2>2. CASE DbFault({s.event}) /\ UNCHANGED rows
    BY <1>1, <2>2, AuditAssumption DEF AuditTypeOK, DbFault, ResponseIsOwn
  <2> QED
    BY <2>1, <2>2 DEF WriteResponse
<1>4. AuditTypeOK'
  BY <1>1, <1>3 DEF AuditTypeOK
<1>5. \A f \in Events : OnRecord(f) => OnRecord(f)'
  BY <1>3, StaysOnRecord
<1>6. AuditedBeforePosted'
  BY <1>1, <1>5 DEF AuditedBeforePosted, AuditTypeOK
<1>7. InsertedFirst'
  BY <1>1, <1>5, BatchEvents DEF InsertedFirst
<1>8. PendingIsOwn'
  BY <1>1 DEF PendingIsOwn
<1> QED
  BY <1>3, <1>4, <1>6, <1>7, <1>8

\* The GMP API answers, with results for any of the events and others.
LEMMA PostOkKeeps ==
    ASSUME RecordInv, NEW w \in Workers, PostOk(w)
    PROVE  RecordInv'
<1> USE DEF RecordInv
<1>1. /\ stage[w] = "call" /\ received' = received \cup Range(Batches[w])
      /\ UNCHANGED <<next, calls, rows, fetched, taskRows, unsaved, dbFaults>>
  BY DEF PostOk
<1>2. PICK results \in SUBSET Results(w) :
          LET named == {r \in results : r.index \in DOMAIN Batches[w]} IN
          /\ spawned' = spawned \cup
                {[event |-> EventOf(w, r.index), response |-> r.status] : r \in named}
          /\ given' = given \cup {<<Batches[w][r.index], r.status>> : r \in named}
          /\ unanswered' = (unanswered \cup Range(Batches[w])) \ {Batches[w][r.index] : r \in named}
          /\ stage' = [stage EXCEPT ![w] = IF \E r \in results : r.status = "RETRY"
                                           THEN "failed" ELSE "done"]
  BY DEF PostOk
<1> DEFINE named == {r \in results : r.index \in DOMAIN Batches[w]}
<1>3. PICK d \in {"failed", "done"} : stage' = [stage EXCEPT ![w] = d]
  BY <1>2
<1>4. /\ stage' \in [Workers -> {"idle", "insert", "call", "save", "failed", "done"}]
      /\ stage'[w] \in {"failed", "done"} /\ \A v \in Workers \ {w} : stage'[v] = stage[v]
  BY <1>3 DEF AuditTypeOK
<1>5. \A r \in named : Batches[w][r.index] \in Events /\ r.status \in Answers
  BY BatchEvents DEF Results, Answers
<1>6. /\ given \subseteq given' /\ given' \subseteq Events \X Answers
      /\ unanswered' \subseteq Events
  BY <1>2, <1>5, BatchEvents DEF AuditTypeOK
<1>7. \A s \in spawned' : s \in [event : Events, response : Answers] /\ <<s.event, s.response>> \in given'
  <2> SUFFICES ASSUME NEW s \in spawned', s \notin spawned
               PROVE  s \in [event : Events, response : Answers] /\ <<s.event, s.response>> \in given'
    BY <1>6 DEF PendingIsOwn, AuditTypeOK
  <2>1. PICK r \in named : s = [event |-> EventOf(w, r.index), response |-> r.status]
    BY <1>2
  <2>2. s.event = Batches[w][r.index] /\ s.response = r.status
    BY <2>1 DEF EventOf
  <2> QED
    BY <1>2, <1>5, <2>1, <2>2
<1>8. AuditTypeOK'
  BY <1>1, <1>4, <1>6, <1>7, BatchEvents DEF AuditTypeOK
<1>9. AuditedBeforePosted'
  <2> SUFFICES ASSUME NEW e \in received'
               PROVE  OnRecord(e)
    BY <1>1 DEF AuditedBeforePosted, OnRecord
  <2>1. CASE e \in received
    BY <2>1 DEF AuditedBeforePosted
  <2>2. CASE e \in Range(Batches[w])
    BY <1>1, <2>2, BatchEvents DEF InsertedFirst
  <2> QED
    BY <1>1, <2>1, <2>2
<1>10. ResponseIsOwn'
  BY <1>1, <1>6 DEF ResponseIsOwn
<1>11. InsertedFirst'
  BY <1>1, <1>4 DEF InsertedFirst, OnRecord
<1>12. PendingIsOwn'
  BY <1>4, <1>6, <1>7 DEF PendingIsOwn
<1> QED
  BY <1>8, <1>9, <1>10, <1>11, <1>12

\* The request fails: the events may have arrived, and all of them get the error.
LEMMA PostErrKeeps ==
    ASSUME RecordInv, NEW w \in Workers, PostErr(w)
    PROVE  RecordInv'
<1> USE DEF RecordInv
<1>1. /\ stage[w] = "call" /\ received' \in {received, received \cup Range(Batches[w])}
      /\ stage' = [stage EXCEPT ![w] = "save"]
      /\ given' = given \cup {<<Batches[w][i], "error">> : i \in DOMAIN Batches[w]}
      /\ unanswered' = unanswered \ Range(Batches[w])
      /\ UNCHANGED <<next, calls, rows, spawned, fetched, taskRows, unsaved, dbFaults>>
  BY DEF PostErr
<1>2. /\ stage' \in [Workers -> {"idle", "insert", "call", "save", "failed", "done"}]
      /\ stage'[w] = "save" /\ \A v \in Workers \ {w} : stage'[v] = stage[v]
  BY <1>1 DEF AuditTypeOK
<1>3. given \subseteq given' /\ given' \subseteq Events \X Answers
  BY <1>1, BatchEvents DEF Answers, AuditTypeOK
<1>4. AuditTypeOK'
  BY <1>1, <1>2, <1>3, BatchEvents DEF AuditTypeOK
<1>5. AuditedBeforePosted'
  <2> SUFFICES ASSUME NEW e \in received'
               PROVE  OnRecord(e)
    BY <1>1 DEF AuditedBeforePosted, OnRecord
  <2>1. CASE e \in received
    BY <2>1 DEF AuditedBeforePosted
  <2>2. CASE e \in Range(Batches[w])
    BY <1>1, <2>2, BatchEvents DEF InsertedFirst
  <2> QED
    BY <1>1, <2>1, <2>2
<1>6. ResponseIsOwn'
  BY <1>1, <1>3 DEF ResponseIsOwn
<1>7. InsertedFirst'
  BY <1>1, <1>2 DEF InsertedFirst, OnRecord
<1>8. PendingIsOwn'
  BY <1>1, <1>2, <1>3 DEF PendingIsOwn
<1> QED
  BY <1>4, <1>5, <1>6, <1>7, <1>8

\* A stop of the process: whatever was being written counts as unsaved.
LEMMA ProcessStopsKeeps ==
    ASSUME RecordInv, ProcessStops
    PROVE  RecordInv'
<1> USE DEF RecordInv
<1>1. /\ dbFaults' \in 0..MaxDbFaults /\ unsaved \subseteq unsaved' /\ spawned' = {}
      /\ UNCHANGED <<next, calls, rows, received, given, unanswered, fetched, taskRows>>
  BY AuditAssumption DEF ProcessStops, DbFault, AuditTypeOK
<1>2. /\ stage' \in [Workers -> {"idle", "insert", "call", "save", "failed", "done"}]
      /\ \A v \in Workers : stage'[v] \in {"done", "idle", "failed"}
  <2>1. stage' = [w \in Workers |-> IF stage[w] \in {"done", "idle"} THEN stage[w] ELSE "failed"]
    BY DEF ProcessStops
  <2> QED
    BY <2>1
<1>3. AuditTypeOK'
  BY <1>1, <1>2 DEF AuditTypeOK
<1>4. AuditedBeforePosted' /\ ResponseIsOwn'
  BY <1>1 DEF AuditedBeforePosted, ResponseIsOwn, OnRecord
<1>5. InsertedFirst' /\ PendingIsOwn'
  BY <1>1, <1>2 DEF InsertedFirst, PendingIsOwn
<1> QED
  BY <1>3, <1>4, <1>5

\* No step of the audit breaks its half of the invariant.
LEMMA AuditStep ==
    ASSUME RecordInv, AuditNext
    PROVE  RecordInv'
<1> USE DEF RecordInv
<1>1. ASSUME NEW w \in Workers, StartPost(w)
      PROVE  RecordInv'
  <2>1. /\ calls' \in 0..MaxCalls
        /\ UNCHANGED <<rows, spawned, received, given, unanswered, fetched, taskRows, unsaved, dbFaults>>
    BY <1>1, AuditAssumption DEF StartPost, AuditTypeOK
  <2>2. /\ stage' = [stage EXCEPT ![w] = "insert"] /\ next' = [next EXCEPT ![w] = 1]
    BY <1>1 DEF StartPost
  <2>3. 1 \in DOMAIN Batches[w] /\ DOMAIN Batches[w] \subseteq Nat /\ \A i \in DOMAIN Batches[w] : ~ (i < 1)
    BY BatchEvents
  <2>4. /\ stage' \in [Workers -> {"idle", "insert", "call", "save", "failed", "done"}]
        /\ stage'[w] = "insert" /\ next'[w] = 1
        /\ next' \in [Workers -> Nat] /\ \A v \in Workers : next'[v] \in DOMAIN Batches[v]
        /\ \A v \in Workers \ {w} : stage'[v] = stage[v] /\ next'[v] = next[v]
    BY <2>2, <2>3 DEF AuditTypeOK
  <2>5. AuditTypeOK'
    BY <2>1, <2>4 DEF AuditTypeOK
  <2>6. AuditedBeforePosted' /\ ResponseIsOwn'
    BY <2>1 DEF AuditedBeforePosted, ResponseIsOwn, OnRecord
  <2>7. InsertedFirst' /\ PendingIsOwn'
    BY <2>1, <2>3, <2>4 DEF InsertedFirst, PendingIsOwn, OnRecord
  <2> QED
    BY <2>5, <2>6, <2>7
<1>2. ASSUME NEW t \in Tasks, InsertTask(t)
      PROVE  RecordInv'
  <2>1. /\ taskRows' \subseteq fetched' /\ dbFaults' \in 0..MaxDbFaults /\ unsaved \subseteq unsaved'
        /\ UNCHANGED <<stage, next, calls, rows, spawned, received, given, unanswered, fetched>>
    BY <1>2, AuditAssumption DEF InsertTask, DbFault, NoFault, AuditTypeOK
  <2>2. AuditTypeOK'
    BY <2>1 DEF AuditTypeOK
  <2>3. AuditedBeforePosted' /\ ResponseIsOwn' /\ InsertedFirst' /\ PendingIsOwn'
    BY <2>1 DEF AuditedBeforePosted, ResponseIsOwn, InsertedFirst, PendingIsOwn, OnRecord
  <2> QED
    BY <2>2, <2>3
<1>3. CASE GetTasksAction
  <2>1. /\ fetched' = Parsed /\ fetched = {}
        /\ UNCHANGED <<stage, next, calls, rows, spawned, received, given, unanswered, taskRows, unsaved, dbFaults>>
    BY <1>3 DEF GetTasksAction
  <2>2. AuditTypeOK'
    BY <2>1 DEF AuditTypeOK, Parsed
  <2>3. AuditedBeforePosted' /\ ResponseIsOwn' /\ InsertedFirst' /\ PendingIsOwn'
    BY <2>1 DEF AuditedBeforePosted, ResponseIsOwn, InsertedFirst, PendingIsOwn, OnRecord
  <2> QED
    BY <2>2, <2>3
<1> QED
  BY <1>1, <1>2, <1>3, InsertKeeps, PostOkKeeps, PostErrKeeps, SaveKeeps, WriteKeeps, ProcessStopsKeeps
     DEF AuditNext, WorkerStep, SpawnedWrite

-----------------------------------------------------------------------------
\* Both halves hold together.
LEMMA ClientInvariant == Spec => [](BroadcastInv /\ RecordInv)
<1>1. Init => BroadcastInv /\ RecordInv
  <2> SUFFICES ASSUME Init
               PROVE  BroadcastInv /\ RecordInv
    OBVIOUS
  <2>1. BroadcastInv
    <3> USE DEF Init, BroadcastInit
    <3>1. Accepted = {}
      BY DEF Accepted
    <3>2. Cardinality(Accepted) = 0
      BY <3>1, FS_EmptySet
    <3>3. BroadcastTypeOK
      BY BroadcastAssumption, TurnsNat DEF BroadcastTypeOK
    <3>4. AcceptedInOrder
      BY <3>2, BroadcastAssumption DEF AcceptedInOrder, Ids
    <3>5. StageKnows /\ AnswerIsOutcome /\ DuplicateOnlyAfterLoss
      BY <3>2, BroadcastAssumption DEF StageKnows, AnswerIsOutcome, DuplicateOnlyAfterLoss
    <3> QED
      BY <3>3, <3>4, <3>5 DEF BroadcastInv
  <2>2. RecordInv
    <3> USE DEF Init, AuditInit
    <3>1. \A w \in Workers : 1 \in DOMAIN Batches[w]
      BY BatchEvents
    <3>2. AuditTypeOK
      BY <3>1, AuditAssumption DEF AuditTypeOK
    <3>3. AuditedBeforePosted /\ ResponseIsOwn /\ InsertedFirst /\ PendingIsOwn
      BY DEF AuditedBeforePosted, ResponseIsOwn, InsertedFirst, PendingIsOwn
    <3> QED
      BY <3>2, <3>3 DEF RecordInv
  <2> QED
    BY <2>1, <2>2
<1>2. BroadcastInv /\ RecordInv /\ [Next]_vars => (BroadcastInv /\ RecordInv)'
  <2> SUFFICES ASSUME BroadcastInv, RecordInv, [Next]_vars
               PROVE  BroadcastInv' /\ RecordInv'
    OBVIOUS
  <2>1. ASSUME UNCHANGED broadcastVars
        PROVE  BroadcastInv'
    BY <2>1 DEF broadcastVars, BroadcastInv, BroadcastTypeOK, AcceptedInOrder, StageKnows,
                AnswerIsOutcome, DuplicateOnlyAfterLoss, Accepted
  <2>2. ASSUME UNCHANGED auditVars
        PROVE  RecordInv'
    BY <2>2 DEF auditVars, RecordInv, AuditTypeOK, AuditedBeforePosted, ResponseIsOwn,
                InsertedFirst, PendingIsOwn, OnRecord
  <2>3. \/ BroadcastNext /\ UNCHANGED auditVars
        \/ AuditNext /\ UNCHANGED broadcastVars
        \/ UNCHANGED broadcastVars /\ UNCHANGED auditVars
    BY DEF Next, vars
  <2> QED
    BY <2>1, <2>2, <2>3, BroadcastStep, AuditStep
<1> QED
  BY <1>1, <1>2, PTL DEF Spec

(* The audit is true to the calls for any workers, batches and interleaving *)
(* of their calls, of the spawned writes, of failed writes and of stops: an *)
(* event has a row before it is posted, unless its insert failed, and a     *)
(* response in a row was given for that row's event.                        *)
THEOREM AuditInvariant == Spec => []AuditInv
<1>1. BroadcastInv /\ RecordInv => AuditInv
  BY DEF BroadcastInv, RecordInv, AuditInv, TypeOK
<1> QED
  BY <1>1, ClientInvariant, PTL

(* The caller of post_broadcast is told of a success or of a refusal only   *)
(* when Axelar decided so, and of a timeout only when the broadcast was     *)
(* pending at every poll, for every wait time, interval and retry limit.    *)
THEOREM BroadcastAnswers == Spec => []AnswerIsOutcome
<1>1. BroadcastInv => AnswerIsOutcome
  BY DEF BroadcastInv
<1> QED
  BY <1>1, ClientInvariant, PTL

(* The HTTP client's retries make a second broadcast of a request only      *)
(* where the answer to an earlier send was lost, and what is polled is the  *)
(* last of them.                                                            *)
THEOREM DuplicatesFollowLoss == Spec => []DuplicateOnlyAfterLoss
<1>1. BroadcastInv => DuplicateOnlyAfterLoss
  BY DEF BroadcastInv
<1> QED
  BY <1>1, ClientInvariant, PTL
=============================================================================

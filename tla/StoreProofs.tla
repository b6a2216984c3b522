---------------------------- MODULE StoreProofs ----------------------------
(***************************************************************************)
(* Proofs about Store, for every catalog, every number of writers and      *)
(* subscribers, every buffer size and every number of mutations.           *)
(***************************************************************************)
EXTENDS Store, TLAPS, SequenceTheorems

\* The set of points a mutation may touch gives it a legal content.
LEMMA WithReadbackType ==
    ASSUME NEW S \in SUBSET Writable, NEW writes \in [S -> Values]
    PROVE  /\ WithReadback(writes) \in PartialMap
           /\ \A p \in ReadbackPoints :
                 /\ p \in DOMAIN WithReadback(writes) <=> SetpointOf[p] \in DOMAIN WithReadback(writes)
                 /\ p \in DOMAIN WithReadback(writes) =>
                       WithReadback(writes)[p] = WithReadback(writes)[SetpointOf[p]]
<1> DEFINE T == S \cup {q \in ReadbackPoints : SetpointOf[q] \in S}
<1>1. T \in SUBSET Points
  BY StoreAssumption DEF Writable
<1>2. WithReadback(writes) = [p \in T |-> IF p \in S THEN writes[p] ELSE writes[SetpointOf[p]]]
  BY DEF WithReadback
<1>3. WithReadback(writes) \in [T -> Values]
  BY <1>2
<1>4. WithReadback(writes) \in PartialMap
  BY <1>1, <1>3 DEF PartialMap
<1>5. ASSUME NEW p \in ReadbackPoints
      PROVE  /\ p \in T <=> SetpointOf[p] \in T
             /\ p \in T => WithReadback(writes)[p] = WithReadback(writes)[SetpointOf[p]]
  <2>1. p \notin S /\ SetpointOf[p] \in Writable
    BY StoreAssumption DEF Writable
  <2>2. SetpointOf[p] \notin ReadbackPoints
    BY <2>1 DEF Writable
  <2>3. p \in T <=> SetpointOf[p] \in T
    BY <2>1, <2>2
  <2>4. ASSUME p \in T PROVE WithReadback(writes)[p] = WithReadback(writes)[SetpointOf[p]]
    <3>1. SetpointOf[p] \in S
      BY <2>1, <2>4
    <3>2. WithReadback(writes)[p] = writes[SetpointOf[p]]
      BY <1>2, <2>1, <2>4
    <3>3. WithReadback(writes)[SetpointOf[p]] = writes[SetpointOf[p]]
      BY <1>2, <3>1
    <3> QED BY <3>2, <3>3
  <2> QED BY <2>3, <2>4
<1> QED BY <1>3, <1>4, <1>5

\* Restore's content is legal, and treats a setpoint and its readback twin
\* alike as long as they agree.
LEMMA RestoreType ==
    ASSUME TypeOK
    PROVE  [p \in {q \in Points : values[q] # Baseline[q]} |-> Baseline[p]] \in PartialMap
<1> DEFINE T == {q \in Points : values[q] # Baseline[q]}
<1>1. [p \in T |-> Baseline[p]] \in [T -> Values]
  BY StoreAssumption DEF PointMap
<1> QED BY <1>1 DEF PartialMap

\* A map of points stays one when a mutation is applied to it.
LEMMA ApplyType ==
    ASSUME NEW m \in PointMap, NEW changes \in PartialMap
    PROVE  Apply(m, changes) \in PointMap
BY DEF Apply, PointMap, PartialMap

\* A non-blocking send leaves the channel as it is or appends to it.
LEMMA OfferType ==
    ASSUME NEW M, NEW q \in Seq(M), NEW m \in M
    PROVE  Offer(q, m) \in Seq(M)
BY DEF Offer

\* An entry of a channel is a message.
LEMMA EntryType ==
    ASSUME NEW M, NEW q \in Seq(M), NEW i \in DOMAIN q
    PROVE  q[i] \in M
OBVIOUS

\* Taking from a channel leaves a channel whose messages were there before.
LEMMA TailFacts ==
    ASSUME NEW M, NEW q \in Seq(M), q # << >>
    PROVE  /\ Tail(q) \in Seq(M)
           /\ Len(Tail(q)) = Len(q) - 1
           /\ \A i \in DOMAIN Tail(q) : i + 1 \in DOMAIN q /\ Tail(q)[i] = q[i + 1]
BY HeadTailProperties

\* Every mutation is CommitLocked of a legal content.
LEMMA MutateCommits ==
    ASSUME NEW w \in Writers, TypeOK, Mutate(w)
    PROVE  \E changes \in PartialMap : CommitLocked(w, changes)
<1>1. CASE \E k \in Writable, v \in Values : Set(w, k, v)
  <2> PICK k \in Writable, v \in Values : Set(w, k, v)
    BY <1>1
  <2>1. [x \in {k} |-> v] \in [{k} -> Values] /\ {k} \in SUBSET Writable
    OBVIOUS
  <2> QED BY <2>1, WithReadbackType DEF Set
<1>2. CASE \E S \in (SUBSET Writable) \ {{}} : \E writes \in [S -> Values] : SetBatch(w, writes)
  BY <1>2, WithReadbackType DEF SetBatch
<1>3. CASE Restore(w)
  BY <1>3, RestoreType DEF Restore
<1> QED BY <1>1, <1>2, <1>3 DEF Mutate

-----------------------------------------------------------------------------
\* The half of a mutation that runs under mu keeps every type.
LEMMA CommitType ==
    ASSUME TypeOK, NEW w \in Writers, NEW changes \in PartialMap, CommitLocked(w, changes)
    PROVE  TypeOK'
<1> USE StoreAssumption
<1>1. rev + 1 \in 1..MaxRev /\ rev' \in 0..MaxRev
  BY DEF CommitLocked, TypeOK
<1>2. Apply(values, changes) \in PointMap
  BY ApplyType DEF TypeOK
<1>3. values' \in PointMap /\ history' \in [0..MaxRev -> PointMap]
  BY <1>1, <1>2 DEF CommitLocked, TypeOK
<1>4. [rev |-> rev + 1, changes |-> changes] \in ChangeBatch
  BY <1>1 DEF ChangeBatch
<1>5. batchQ' \in [BatchSubscribers -> Seq(ChangeBatch)]
  <2>1. \A b \in BatchSubscribers : Offer(batchQ[b], [rev |-> rev + 1, changes |-> changes]) \in Seq(ChangeBatch)
    BY <1>4, OfferType DEF TypeOK
  <2> QED BY <2>1 DEF CommitLocked, publishBatchLocked, TypeOK
<1>6. pub' \in [Writers -> SUBSET Change]
  <2>1. \A p \in DOMAIN changes : [key |-> p, value |-> changes[p], rev |-> rev + 1] \in Change
    BY <1>1 DEF Change, PartialMap
  <2>2. {[key |-> p, value |-> changes[p], rev |-> rev + 1] : p \in DOMAIN changes} \in SUBSET Change
    BY <2>1
  <2> QED BY <2>2 DEF CommitLocked, TypeOK
<1> QED BY <1>1, <1>3, <1>5, <1>6 DEF CommitLocked, TypeOK

\* Every step of the store keeps every type.
LEMMA StepType == TypeOK /\ [Next]_storeVars => TypeOK'
<1> USE StoreAssumption
<1> SUFFICES ASSUME TypeOK, [Next]_storeVars PROVE TypeOK'
  OBVIOUS
<1>1. ASSUME NEW w \in Writers, Mutate(w) PROVE TypeOK'
  BY <1>1, MutateCommits, CommitType
<1>2. ASSUME NEW w \in Writers, publish(w) PROVE TypeOK'
  <2>1. PICK c \in pub[w] :
           /\ pub' = [pub EXCEPT ![w] = @ \ {c}]
           /\ subQ' = [s \in Subscribers |-> IF s \in subs THEN Offer(subQ[s], c) ELSE subQ[s]]
           /\ UNCHANGED <<values, rev, subs, batchSubs, batchQ, history>>
    BY <1>2 DEF publish
  <2>2. c \in Change
    BY DEF TypeOK
  <2>3. \A s \in Subscribers : Offer(subQ[s], c) \in Seq(Change)
    BY <2>2, OfferType DEF TypeOK
  <2>4. pub' \in [Writers -> SUBSET Change]
    BY <2>1 DEF TypeOK
  <2> QED BY <2>1, <2>3, <2>4 DEF TypeOK
<1>3. ASSUME NEW s \in Subscribers, Subscribe(s) \/ Unsubscribe(s) PROVE TypeOK'
  <2>1. << >> \in Seq(Change)
    OBVIOUS
  <2>2. subQ' \in [Subscribers -> Seq(Change)] /\ subs' \subseteq Subscribers
    BY <1>3, <2>1 DEF Subscribe, Unsubscribe, TypeOK
  <2> QED BY <1>3, <2>2 DEF Subscribe, Unsubscribe, TypeOK
<1>4. ASSUME NEW s \in Subscribers, ReceiveChange(s) PROVE TypeOK'
  <2>1. Tail(subQ[s]) \in Seq(Change)
    BY <1>4, TailFacts DEF ReceiveChange, TypeOK
  <2> QED BY <1>4, <2>1 DEF ReceiveChange, TypeOK
<1>5. ASSUME NEW b \in BatchSubscribers, subscribeBatchesLocked(b) \/ unsubscribeBatches(b)
      PROVE  TypeOK'
  <2>1. << >> \in Seq(ChangeBatch)
    OBVIOUS
  <2>2. batchQ' \in [BatchSubscribers -> Seq(ChangeBatch)] /\ batchSubs' \subseteq BatchSubscribers
    BY <1>5, <2>1 DEF subscribeBatchesLocked, unsubscribeBatches, TypeOK
  <2> QED BY <1>5, <2>2 DEF subscribeBatchesLocked, unsubscribeBatches, TypeOK
<1>6. ASSUME NEW b \in BatchSubscribers, ReceiveBatch(b) PROVE TypeOK'
  <2>1. Tail(batchQ[b]) \in Seq(ChangeBatch)
    BY <1>6, TailFacts DEF ReceiveBatch, TypeOK
  <2> QED BY <1>6, <2>1 DEF ReceiveBatch, TypeOK
<1>7. CASE UNCHANGED storeVars
  BY <1>7 DEF storeVars, TypeOK
<1> QED BY <1>1, <1>2, <1>3, <1>4, <1>5, <1>6, <1>7 DEF Next

\* Type correctness of the store: no interleaving of mutations, publications,
\* subscriptions and deliveries leaves the shapes of the Go struct.
THEOREM StoreTypeCorrect == Spec => []TypeOK
<1>1. Init => TypeOK
  BY StoreAssumption DEF Init, TypeOK, PointMap
<1> QED BY <1>1, StepType, PTL DEF Spec

-----------------------------------------------------------------------------
\* What a mutation appends to a batch channel, if anything.
LEMMA CommitQueues ==
    ASSUME TypeOK, NEW w \in Writers, NEW changes \in PartialMap, CommitLocked(w, changes),
           NEW b \in BatchSubscribers
    PROVE  \/ batchQ'[b] = batchQ[b]
           \/ /\ b \in batchSubs
              /\ batchQ'[b] = Append(batchQ[b], [rev |-> rev + 1, changes |-> changes])
BY DEF CommitLocked, publishBatchLocked, Offer

\* Past entries of the history are never rewritten; the new one is the new
\* values.
LEMMA CommitHistory ==
    ASSUME TypeOK, NEW w \in Writers, NEW changes \in PartialMap, CommitLocked(w, changes)
    PROVE  /\ \A r \in 0..rev : history'[r] = history[r]
           /\ rev' = rev + 1 /\ rev + 1 \in 1..MaxRev
           /\ history'[rev + 1] = Apply(values, changes)
           /\ values' = Apply(values, changes)
BY StoreAssumption DEF CommitLocked, TypeOK

\* A mutation keeps the batch channels whole and in order.
LEMMA CommitBatches ==
    ASSUME StoreIInv, NEW w \in Writers, NEW changes \in PartialMap, CommitLocked(w, changes)
    PROVE  HistoryIsCurrent' /\ BatchesAreWhole' /\ BatchesInOrder'
<1> USE StoreAssumption
<1>t. TypeOK /\ HistoryIsCurrent /\ BatchesAreWhole /\ BatchesInOrder
  BY DEF StoreIInv
<1>1. /\ \A r \in 0..rev : history'[r] = history[r]
      /\ rev' = rev + 1 /\ rev + 1 \in 1..MaxRev
      /\ history'[rev + 1] = Apply(values, changes)
      /\ values' = Apply(values, changes)
  BY <1>t, CommitHistory
<1>2. HistoryIsCurrent'
  BY <1>1 DEF HistoryIsCurrent
<1> SUFFICES ASSUME NEW b \in BatchSubscribers
    PROVE  /\ \A i \in DOMAIN batchQ'[b] :
                 /\ batchQ'[b][i].rev <= rev'
                 /\ history'[batchQ'[b][i].rev] = Apply(history'[batchQ'[b][i].rev - 1], batchQ'[b][i].changes)
           /\ \A i, j \in DOMAIN batchQ'[b] : i < j => batchQ'[b][i].rev < batchQ'[b][j].rev
  BY <1>2 DEF BatchesAreWhole, BatchesInOrder
<1>q. batchQ[b] \in Seq(ChangeBatch)
  BY <1>t DEF TypeOK
<1> DEFINE new == [rev |-> rev + 1, changes |-> changes]
<1>3. \A i \in DOMAIN batchQ[b] :
        /\ batchQ[b][i].rev \in 1..MaxRev /\ batchQ[b][i].rev <= rev
        /\ history'[batchQ[b][i].rev] = Apply(history'[batchQ[b][i].rev - 1], batchQ[b][i].changes)
  <2> SUFFICES ASSUME NEW i \in DOMAIN batchQ[b]
      PROVE  /\ batchQ[b][i].rev \in 1..MaxRev /\ batchQ[b][i].rev <= rev
             /\ history'[batchQ[b][i].rev] = Apply(history'[batchQ[b][i].rev - 1], batchQ[b][i].changes)
    OBVIOUS
  <2>1. batchQ[b][i].rev \in 1..MaxRev
    <3>1. batchQ[b][i] \in ChangeBatch
      BY <1>q, EntryType
    <3> QED BY <3>1 DEF ChangeBatch
  <2>2. /\ batchQ[b][i].rev <= rev
        /\ history[batchQ[b][i].rev] = Apply(history[batchQ[b][i].rev - 1], batchQ[b][i].changes)
    BY <1>t DEF BatchesAreWhole
  <2>3. rev \in 0..MaxRev
    BY <1>t DEF TypeOK
  <2>4. batchQ[b][i].rev \in 0..rev /\ batchQ[b][i].rev - 1 \in 0..rev
    BY <2>1, <2>2, <2>3
  <2> QED BY <2>1, <2>2, <2>4, <1>1
<1>4. history'[rev + 1] = Apply(history'[rev], changes)
  <2>1. rev \in 0..rev
    BY <1>t DEF TypeOK
  <2> QED BY <2>1, <1>1, <1>t DEF HistoryIsCurrent
<1>5. CASE batchQ'[b] = batchQ[b]
  <2>1. \A i, j \in DOMAIN batchQ[b] : i < j => batchQ[b][i].rev < batchQ[b][j].rev
    BY <1>t DEF BatchesInOrder
  <2>2. rev \in 0..MaxRev
    BY <1>t DEF TypeOK
  <2>3. \A i \in DOMAIN batchQ[b] : batchQ[b][i].rev <= rev'
    BY <1>3, <1>1, <2>2
  <2> QED BY <1>3, <1>5, <2>1, <2>3
<1>6. CASE batchQ'[b] = Append(batchQ[b], new)
  <2>1. /\ DOMAIN batchQ'[b] = 1..Len(batchQ[b]) + 1
        /\ \A i \in 1..Len(batchQ[b]) : batchQ'[b][i] = batchQ[b][i]
        /\ batchQ'[b][Len(batchQ[b]) + 1] = new
        /\ DOMAIN batchQ[b] = 1..Len(batchQ[b]) /\ Len(batchQ[b]) \in Nat
    BY <1>6, <1>q, AppendProperties
  <2>2. rev \in 0..MaxRev
    BY <1>t DEF TypeOK
  <2>3. \A i, j \in DOMAIN batchQ[b] : i < j => batchQ[b][i].rev < batchQ[b][j].rev
    BY <1>t DEF BatchesInOrder
  <2>4. new.rev = rev + 1 /\ new.changes = changes
    OBVIOUS
  <2> HIDE DEF new
  <2>5. ASSUME NEW i \in DOMAIN batchQ'[b]
        PROVE  /\ batchQ'[b][i].rev <= rev'
               /\ history'[batchQ'[b][i].rev] = Apply(history'[batchQ'[b][i].rev - 1], batchQ'[b][i].changes)
    <3>1. CASE i \in 1..Len(batchQ[b])
      BY <3>1, <2>1, <2>2, <1>3, <1>1
    <3>2. CASE i = Len(batchQ[b]) + 1
      <4>1. batchQ'[b][i] = new /\ rev + 1 - 1 = rev
        BY <3>2, <2>1, <2>2
      <4> QED BY <4>1, <2>2, <2>4, <1>1, <1>4
    <3> QED BY <3>1, <3>2, <2>1
  <2>6. ASSUME NEW i \in DOMAIN batchQ'[b], NEW j \in DOMAIN batchQ'[b], i < j
        PROVE  batchQ'[b][i].rev < batchQ'[b][j].rev
    <3>1. i \in 1..Len(batchQ[b])
      BY <2>1, <2>6
    <3>2. CASE j \in 1..Len(batchQ[b])
      BY <3>1, <3>2, <2>1, <2>3, <2>6
    <3>3. CASE j = Len(batchQ[b]) + 1
      BY <3>1, <3>3, <2>1, <2>2, <2>4, <1>3
    <3> QED BY <3>2, <3>3, <2>1
  <2> QED BY <2>5, <2>6
<1> QED BY <1>5, <1>6, <1>t, CommitQueues

\* A mutation keeps every readback point equal to its setpoint: a write touches
\* both or neither, and a restore finds them equal and leaves them so.
LEMMA MutateReadback ==
    ASSUME TypeOK, ReadbackMirrored, NEW w \in Writers, Mutate(w)
    PROVE  ReadbackMirrored'
<1> USE StoreAssumption
<1> SUFFICES ASSUME NEW p \in ReadbackPoints PROVE values'[p] = values'[SetpointOf[p]]
  BY DEF ReadbackMirrored
<1>0. p \in Points /\ SetpointOf[p] \in Points
  BY DEF Writable
<1>1. values[p] = values[SetpointOf[p]] /\ Baseline[p] = Baseline[SetpointOf[p]]
  BY DEF ReadbackMirrored
<1>2. ASSUME NEW S \in SUBSET Writable, NEW writes \in [S -> Values],
             CommitLocked(w, WithReadback(writes))
      PROVE  values'[p] = values'[SetpointOf[p]]
  <2> DEFINE ch == WithReadback(writes)
  <2>1. /\ p \in DOMAIN ch <=> SetpointOf[p] \in DOMAIN ch
        /\ p \in DOMAIN ch => ch[p] = ch[SetpointOf[p]]
    BY WithReadbackType
  <2>2. values' = Apply(values, ch)
    BY <1>2 DEF CommitLocked
  <2> HIDE DEF ch
  <2> QED BY <1>0, <1>1, <2>1, <2>2 DEF Apply
<1>3. CASE \E k \in Writable, v \in Values : Set(w, k, v)
  <2> PICK k \in Writable, v \in Values : Set(w, k, v)
    BY <1>3
  <2>1. [x \in {k} |-> v] \in [{k} -> Values] /\ {k} \in SUBSET Writable
    OBVIOUS
  <2> QED BY <2>1, <1>2 DEF Set
<1>4. CASE \E S \in (SUBSET Writable) \ {{}} : \E writes \in [S -> Values] : SetBatch(w, writes)
  BY <1>4, <1>2 DEF SetBatch
<1>5. CASE Restore(w)
  <2> DEFINE T  == {q \in Points : values[q] # Baseline[q]}
             ch == [q \in T |-> Baseline[q]]
  <2>1. values' = Apply(values, ch)
    BY <1>5 DEF Restore, CommitLocked
  <2>2. p \in T <=> SetpointOf[p] \in T
    BY <1>0, <1>1
  <2> QED BY <1>0, <1>1, <2>1, <2>2 DEF Apply
<1> QED BY <1>3, <1>4, <1>5 DEF Mutate

\* A mutation stamps the changes it will publish with its own revision, and
\* leaves those already on their way as they were.
LEMMA CommitStamps ==
    ASSUME StoreIInv, NEW w \in Writers, NEW changes \in PartialMap, CommitLocked(w, changes)
    PROVE  ChangesAreStamped'
<1> USE StoreAssumption
<1>t. TypeOK /\ ChangesAreStamped
  BY DEF StoreIInv
<1>1. /\ \A r \in 0..rev : history'[r] = history[r]
      /\ rev' = rev + 1 /\ rev + 1 \in 1..MaxRev
      /\ history'[rev + 1] = Apply(values, changes)
  BY <1>t, CommitHistory
<1>2. ASSUME NEW c \in Change, c.rev <= rev, history[c.rev][c.key] = c.value
      PROVE  c.rev <= rev' /\ history'[c.rev][c.key] = c.value
  <2>1. c.rev \in 1..MaxRev /\ rev \in 0..MaxRev
    BY <1>t DEF Change, TypeOK
  <2>2. c.rev \in 0..rev
    BY <1>2, <2>1
  <2> QED BY <1>1, <1>2, <2>1, <2>2
<1>3. ASSUME NEW v \in Writers, NEW c \in pub'[v]
      PROVE  c.rev <= rev' /\ history'[c.rev][c.key] = c.value
  <2>1. CASE v = w
    <3>1. pub'[w] = {[key |-> p, value |-> changes[p], rev |-> rev + 1] : p \in DOMAIN changes}
      BY <1>t DEF CommitLocked, TypeOK
    <3>2. PICK p \in DOMAIN changes : c = [key |-> p, value |-> changes[p], rev |-> rev + 1]
      BY <2>1, <3>1
    <3>3. p \in Points
      BY DEF PartialMap
    <3>4. c.rev = rev + 1 /\ c.key = p /\ c.value = changes[p]
      BY <3>2
    <3>5. Apply(values, changes)[p] = changes[p]
      BY <3>3 DEF Apply
    <3> QED BY <3>4, <3>5, <1>1
  <2>2. CASE v # w
    <3>1. pub'[v] = pub[v]
      BY <1>t, <2>2 DEF CommitLocked, TypeOK
    <3>2. c \in Change /\ c.rev <= rev /\ history[c.rev][c.key] = c.value
      BY <1>t, <3>1 DEF TypeOK, ChangesAreStamped
    <3> QED BY <3>2, <1>2
  <2> QED BY <2>1, <2>2
<1>4. ASSUME NEW s \in Subscribers, NEW i \in DOMAIN subQ'[s]
      PROVE  subQ'[s][i].rev <= rev' /\ history'[subQ'[s][i].rev][subQ'[s][i].key] = subQ'[s][i].value
  <2>1. subQ' = subQ
    BY DEF CommitLocked
  <2>2. subQ[s] \in Seq(Change)
    BY <1>t DEF TypeOK
  <2>3. subQ[s][i] \in Change
    BY <2>1, <2>2, EntryType
  <2>4. subQ[s][i].rev <= rev /\ history[subQ[s][i].rev][subQ[s][i].key] = subQ[s][i].value
    BY <1>t, <2>1 DEF ChangesAreStamped
  <2> QED BY <2>1, <2>3, <2>4, <1>2
<1> QED BY <1>3, <1>4 DEF ChangesAreStamped

\* The store's invariant is inductive.
LEMMA StepInv == StoreIInv /\ [Next]_storeVars => StoreIInv'
<1> USE StoreAssumption
<1> SUFFICES ASSUME StoreIInv, [Next]_storeVars PROVE StoreIInv'
  OBVIOUS
<1>t. TypeOK /\ TypeOK'
  BY StepType DEF StoreIInv
<1> USE DEF StoreIInv
<1>1. ASSUME NEW w \in Writers, Mutate(w) PROVE StoreIInv'
  <2>1. PICK changes \in PartialMap : CommitLocked(w, changes)
    BY <1>1, <1>t, MutateCommits
  <2> QED BY <1>1, <1>t, <2>1, CommitBatches, CommitStamps, MutateReadback
<1>2. ASSUME NEW w \in Writers, publish(w) PROVE StoreIInv'
  <2>1. PICK c \in pub[w] :
           /\ pub' = [pub EXCEPT ![w] = @ \ {c}]
           /\ subQ' = [s \in Subscribers |-> IF s \in subs THEN Offer(subQ[s], c) ELSE subQ[s]]
           /\ UNCHANGED <<values, rev, subs, batchSubs, batchQ, history>>
    BY <1>2 DEF publish
  <2>2. HistoryIsCurrent' /\ ReadbackMirrored' /\ BatchesAreWhole' /\ BatchesInOrder'
    BY <2>1 DEF HistoryIsCurrent, ReadbackMirrored, BatchesAreWhole, BatchesInOrder
  <2>3. \A v \in Writers : pub'[v] \subseteq pub[v]
    BY <2>1, <1>t DEF TypeOK
  <2>4. ASSUME NEW s \in Subscribers, NEW i \in DOMAIN subQ'[s]
        PROVE  \/ subQ'[s][i] = c
               \/ i \in DOMAIN subQ[s] /\ subQ'[s][i] = subQ[s][i]
    <3>1. subQ[s] \in Seq(Change) /\ c \in Change
      BY <1>t DEF TypeOK
    <3>2. CASE subQ'[s] = subQ[s]
      BY <3>2
    <3>3. CASE subQ'[s] = Append(subQ[s], c)
      <4>1. /\ DOMAIN subQ'[s] = 1..Len(subQ[s]) + 1
            /\ \A k \in 1..Len(subQ[s]) : subQ'[s][k] = subQ[s][k]
            /\ subQ'[s][Len(subQ[s]) + 1] = c
            /\ DOMAIN subQ[s] = 1..Len(subQ[s]) /\ Len(subQ[s]) \in Nat
        BY <3>1, <3>3, AppendProperties
      <4>2. i \in 1..Len(subQ[s]) \/ i = Len(subQ[s]) + 1
        BY <4>1
      <4> QED BY <4>1, <4>2
    <3>4. subQ'[s] = IF s \in subs THEN Offer(subQ[s], c) ELSE subQ[s]
      BY <2>1
    <3>5. subQ'[s] = subQ[s] \/ subQ'[s] = Append(subQ[s], c)
      BY <3>4 DEF Offer
    <3> QED BY <3>2, <3>3, <3>5
  <2>5. ChangesAreStamped'
    BY <2>1, <2>3, <2>4 DEF ChangesAreStamped
  <2> QED BY <1>t, <2>2, <2>5
<1>3. ASSUME NEW s \in Subscribers, Subscribe(s) \/ Unsubscribe(s) \/ ReceiveChange(s)
      PROVE  StoreIInv'
  <2>1. UNCHANGED <<values, rev, pub, batchSubs, batchQ, history>>
    BY <1>3 DEF Subscribe, Unsubscribe, ReceiveChange
  <2>2. HistoryIsCurrent' /\ ReadbackMirrored' /\ BatchesAreWhole' /\ BatchesInOrder'
    BY <2>1 DEF HistoryIsCurrent, ReadbackMirrored, BatchesAreWhole, BatchesInOrder
  <2>3. ASSUME NEW r \in Subscribers, NEW i \in DOMAIN subQ'[r]
        PROVE  \E j \in DOMAIN subQ[r] : subQ'[r][i] = subQ[r][j]
    <3>1. CASE r # s
      BY <1>3, <1>t, <3>1 DEF Subscribe, Unsubscribe, ReceiveChange, TypeOK
    <3>2. CASE r = s /\ subQ'[r] = << >>
      BY <3>2
    <3>3. CASE r = s /\ ReceiveChange(s)
      <4>1. subQ[s] \in Seq(Change) /\ subQ[s] # << >> /\ subQ'[s] = Tail(subQ[s])
        BY <1>t, <3>3 DEF ReceiveChange, TypeOK
      <4> QED BY <3>3, <4>1, TailFacts
    <3> QED BY <1>3, <1>t, <3>1, <3>2, <3>3 DEF Subscribe, Unsubscribe, TypeOK
  <2>4. ChangesAreStamped'
    BY <2>1, <2>3 DEF ChangesAreStamped
  <2> QED BY <1>t, <2>2, <2>4
<1>4. ASSUME NEW b \in BatchSubscribers,
             subscribeBatchesLocked(b) \/ unsubscribeBatches(b) \/ ReceiveBatch(b)
      PROVE  StoreIInv'
  <2>1. UNCHANGED <<values, rev, pub, subs, subQ, history>>
    BY <1>4 DEF subscribeBatchesLocked, unsubscribeBatches, ReceiveBatch
  <2>2. HistoryIsCurrent' /\ ReadbackMirrored' /\ ChangesAreStamped'
    BY <2>1 DEF HistoryIsCurrent, ReadbackMirrored, ChangesAreStamped
  <2>3. ASSUME NEW a \in BatchSubscribers
        PROVE  \/ batchQ'[a] = batchQ[a]
               \/ batchQ'[a] = << >>
               \/ batchQ[a] # << >> /\ batchQ'[a] = Tail(batchQ[a])
    BY <1>4, <1>t DEF subscribeBatchesLocked, unsubscribeBatches, ReceiveBatch, TypeOK
  <2>4. ASSUME NEW a \in BatchSubscribers
        PROVE  \E d \in {0, 1} : \A i \in DOMAIN batchQ'[a] :
                   i \in Int /\ i + d \in DOMAIN batchQ[a] /\ batchQ'[a][i] = batchQ[a][i + d]
    <3>1. batchQ[a] \in Seq(ChangeBatch)
      BY <1>t DEF TypeOK
    <3>2. CASE batchQ'[a] = batchQ[a]
      <4>1. \A i \in DOMAIN batchQ[a] : i \in Int /\ i + 0 = i
        BY <3>1
      <4> QED BY <3>2, <4>1
    <3>3. CASE batchQ'[a] = << >>
      BY <3>3
    <3>4. CASE batchQ[a] # << >> /\ batchQ'[a] = Tail(batchQ[a])
      <4>1. /\ Tail(batchQ[a]) \in Seq(ChangeBatch)
            /\ \A i \in DOMAIN Tail(batchQ[a]) :
                  i + 1 \in DOMAIN batchQ[a] /\ Tail(batchQ[a])[i] = batchQ[a][i + 1]
        BY <3>1, <3>4, TailFacts
      <4> QED BY <3>4, <4>1
    <3> QED BY <2>3, <3>2, <3>3, <3>4
  <2>5. BatchesAreWhole'
    <3> SUFFICES ASSUME NEW a \in BatchSubscribers, NEW i \in DOMAIN batchQ'[a]
        PROVE  /\ batchQ'[a][i].rev <= rev'
               /\ history'[batchQ'[a][i].rev] = Apply(history'[batchQ'[a][i].rev - 1], batchQ'[a][i].changes)
      BY DEF BatchesAreWhole
    <3>1. PICK j \in DOMAIN batchQ[a] : batchQ'[a][i] = batchQ[a][j]
      BY <2>4
    <3> QED BY <2>1, <3>1 DEF BatchesAreWhole
  <2>6. BatchesInOrder'
    <3> SUFFICES ASSUME NEW a \in BatchSubscribers,
                        NEW i \in DOMAIN batchQ'[a], NEW j \in DOMAIN batchQ'[a], i < j
        PROVE  batchQ'[a][i].rev < batchQ'[a][j].rev
      BY DEF BatchesInOrder
    <3>1. PICK d \in {0, 1} : \A k \in DOMAIN batchQ'[a] :
             k \in Int /\ k + d \in DOMAIN batchQ[a] /\ batchQ'[a][k] = batchQ[a][k + d]
      BY <2>4
    <3>2. i + d < j + d
      BY <3>1
    <3> QED BY <3>1, <3>2 DEF BatchesInOrder
  <2> QED BY <1>t, <2>2, <2>5, <2>6
<1>5. CASE UNCHANGED storeVars
  BY <1>5, <1>t DEF storeVars, HistoryIsCurrent, ReadbackMirrored, BatchesAreWhole,
                    BatchesInOrder, ChangesAreStamped
<1> QED BY <1>1, <1>2, <1>3, <1>4, <1>5 DEF Next

LEMMA InitInv == Init => StoreIInv
<1> SUFFICES ASSUME Init PROVE StoreIInv
  OBVIOUS
<1>1. TypeOK
  BY StoreAssumption DEF Init, TypeOK, PointMap
<1>2. HistoryIsCurrent /\ ReadbackMirrored
  BY StoreAssumption DEF Init, HistoryIsCurrent, ReadbackMirrored, Writable
<1>3. BatchesAreWhole /\ BatchesInOrder /\ ChangesAreStamped
  BY DEF Init, BatchesAreWhole, BatchesInOrder, ChangesAreStamped
<1> QED BY <1>1, <1>2, <1>3 DEF StoreIInv

\* The store's promises to its subscribers, in every interleaving: a readback
\* point equals its setpoint, a queued batch is one whole mutation, batches are
\* in revision order, and a change carries the revision it happened at.
THEOREM StoreCorrect == Spec => []StoreIInv
BY InitInv, StepInv, PTL DEF Spec
=============================================================================

-------------------------- MODULE TelemetryProofs --------------------------
(***************************************************************************)
(* Proofs about TelemetryStream: what a page shows is one state of the     *)
(* store, whatever is coalesced, dropped or cut off, and the whole stream  *)
(* implements ConsistentView.  The rare events of the same connection      *)
(* reach it without a gap.                                                 *)
(***************************************************************************)
EXTENDS TelemetryStream, EventHub, StoreProofs, NaturalsInduction, WellFoundedInduction

\* An event's type tells its shape.
LEMMA EventShape ==
    ASSUME NEW e \in Event
    PROVE  /\ e.type \in {"snapshot", "telemetry", "resync_required"}
           /\ e.type = "snapshot" => e.rev \in 0..MaxRev /\ e.points \in PointMap
           /\ e.type = "telemetry" => /\ e.from \in 1..MaxRev /\ e.rev \in 1..MaxRev
                                      /\ e.changes \in PartialMap
BY DEF Event, SnapshotEvent, TelemetryEvent, ResyncEvent

LEMMA EmptyMapType == EmptyMap \in PartialMap /\ DOMAIN EmptyMap = {}
<1>1. EmptyMap \in [{} -> Values] /\ DOMAIN EmptyMap = {}
  BY DEF EmptyMap
<1>2. {} \in SUBSET Points
  OBVIOUS
<1> QED BY <1>1, <1>2 DEF PartialMap

\* Folding a batch into the window gives a legal content again.
LEMMA FoldType ==
    ASSUME NEW m \in PartialMap, NEW changes \in PartialMap
    PROVE  Fold(m, changes) \in PartialMap
<1> PICK S \in SUBSET Points : m \in [S -> Values]
  BY DEF PartialMap
<1> PICK T \in SUBSET Points : changes \in [T -> Values]
  BY DEF PartialMap
<1>1. Fold(m, changes) \in [S \cup T -> Values]
  BY DEF Fold
<1> QED BY <1>1 DEF PartialMap

\* Applying the window is applying its batches one after the other.
LEMMA ApplyFold ==
    ASSUME NEW m, NEW w \in PartialMap, NEW changes \in PartialMap
    PROVE  Apply(Apply(m, w), changes) = Apply(m, Fold(w, changes))
<1>1. \A p \in Points : Apply(Apply(m, w), changes)[p] = Apply(m, Fold(w, changes))[p]
  BY DEF Apply, Fold
<1> QED BY <1>1 DEF Apply

\* A window with no point in it starts with its first batch.
LEMMA ApplyFoldEmpty ==
    ASSUME NEW m, NEW w \in PartialMap, DOMAIN w = {}, NEW changes \in PartialMap
    PROVE  Apply(m, changes) = Apply(m, Fold(w, changes))
<1>1. \A p \in Points : Apply(m, changes)[p] = Apply(m, Fold(w, changes))[p]
  BY DEF Apply, Fold
<1> QED BY <1>1 DEF Apply

-----------------------------------------------------------------------------
\* Seen from the store, every step of the stream is a step of the store.
LEMMA StreamIsStore ==
    ASSUME [StreamNext]_vars
    PROVE  [Next]_storeVars
<1>1. CASE StoreStep
  BY <1>1 DEF StoreStep, Next
<1>2. ASSUME NEW s \in Streams, Bootstrap(s) PROVE [Next]_storeVars
  BY <1>2 DEF Bootstrap, Next, Streams
<1>3. ASSUME NEW s \in Streams, FoldBatch(s) PROVE [Next]_storeVars
  BY <1>3 DEF FoldBatch, Next, Streams
<1>4. ASSUME NEW s \in Streams, ReportGap(s) PROVE [Next]_storeVars
  BY <1>4 DEF ReportGap, Next, Streams
<1>5. ASSUME NEW s \in Streams, flushTelemetry(s) PROVE [Next]_storeVars
  BY <1>5 DEF flushTelemetry
<1>6. ASSUME NEW s \in Streams, EndHandler(s) PROVE [Next]_storeVars
  BY <1>6 DEF EndHandler, Next, Streams
<1>7. ASSUME NEW s \in Streams, TransportError(s) \/ CloseAndReconnect(s)
      PROVE  [Next]_storeVars
  BY <1>6, <1>7 DEF TransportError, CloseAndReconnect
<1>8. ASSUME NEW s \in Streams, ConsumeSnapshot(s) \/ ConsumeTelemetry(s)
      PROVE  [Next]_storeVars
  BY <1>8 DEF ConsumeSnapshot, ConsumeTelemetry
<1>9. CASE UNCHANGED vars
  BY <1>9 DEF vars
<1> QED
  BY <1>1, <1>2, <1>3, <1>4, <1>5, <1>7, <1>8, <1>9 DEF StreamNext, StreamStep, PageStep

\* No step of the stream rewrites the past.
LEMMA PastIsFixed ==
    ASSUME TypeOK, [Next]_storeVars
    PROVE  /\ rev \in 0..MaxRev /\ rev' \in 0..MaxRev /\ rev <= rev'
           /\ \A r \in 0..rev : history'[r] = history[r]
<1> USE StoreAssumption
<1>1. rev \in 0..MaxRev
  BY DEF TypeOK
<1>2. ASSUME NEW w \in Writers, Mutate(w)
      PROVE  rev' = rev + 1 /\ rev + 1 \in 1..MaxRev /\ \A r \in 0..rev : history'[r] = history[r]
  <2>1. PICK changes \in PartialMap : CommitLocked(w, changes)
    BY <1>2, MutateCommits
  <2> QED BY <2>1, CommitHistory
<1>3. ASSUME ~ \E w \in Writers : Mutate(w) PROVE UNCHANGED <<rev, history>>
  <2>1. ASSUME NEW w \in Writers, publish(w) PROVE UNCHANGED <<rev, history>>
    BY <2>1 DEF publish
  <2>2. ASSUME NEW s \in Subscribers, Subscribe(s) \/ Unsubscribe(s) \/ ReceiveChange(s)
        PROVE  UNCHANGED <<rev, history>>
    BY <2>2 DEF Subscribe, Unsubscribe, ReceiveChange
  <2>3. ASSUME NEW b \in BatchSubscribers,
               subscribeBatchesLocked(b) \/ unsubscribeBatches(b) \/ ReceiveBatch(b)
        PROVE  UNCHANGED <<rev, history>>
    BY <2>3 DEF subscribeBatchesLocked, unsubscribeBatches, ReceiveBatch
  <2>4. CASE UNCHANGED storeVars
    BY <2>4 DEF storeVars
  <2> QED BY <1>3, <2>1, <2>2, <2>3, <2>4 DEF Next
<1>4. CASE \E w \in Writers : Mutate(w)
  BY <1>1, <1>2, <1>4
<1>5. CASE ~ \E w \in Writers : Mutate(w)
  BY <1>1, <1>3, <1>5
<1> QED BY <1>4, <1>5

-----------------------------------------------------------------------------
\* The types of the handler, the wire and the page survive every step.
LEMMA StreamStepType ==
    ASSUME StreamIInv, [StreamNext]_vars
    PROVE  StreamTypeOK'
<1> USE StoreAssumption, StreamAssumption
<1>t. StreamTypeOK
  BY DEF StreamIInv
<1>0. TypeOK /\ TypeOK'
  BY <1>t, StreamIsStore, StepType DEF StreamTypeOK
<1>r. rev \in 0..MaxRev
  BY <1>t, <1>0 DEF TypeOK
<1>1. CASE StoreStep
  BY <1>t, <1>0, <1>1 DEF StoreStep, streamVars, handlerVars, pageVars, StreamTypeOK
<1>2. ASSUME NEW s \in Streams, Bootstrap(s) PROVE StreamTypeOK'
  <2>1. [type |-> "snapshot", rev |-> rev, points |-> values] \in Event
    BY <1>t, <1>0 DEF TypeOK, Event, SnapshotEvent
  <2>2. wire' \in [Streams -> Seq(Event)]
    BY <1>t, <1>2, <2>1 DEF Bootstrap, StreamTypeOK
  <2>3. pending' \in [Streams -> PartialMap]
    BY <1>t, <1>2, EmptyMapType DEF Bootstrap, StreamTypeOK
  <2> QED BY <1>t, <1>0, <1>r, <1>2, <2>2, <2>3 DEF Bootstrap, StreamTypeOK
<1>3. ASSUME NEW s \in Streams, FoldBatch(s) PROVE StreamTypeOK'
  <2>1. batchQ[s] \in Seq(ChangeBatch) /\ batchQ[s] # << >>
    BY <1>t, <1>0, <1>3 DEF FoldBatch, ReceiveBatch, TypeOK, Streams
  <2>2. Head(batchQ[s]) \in ChangeBatch
    BY <2>1, HeadTailProperties
  <2>3. Head(batchQ[s]).rev \in 1..MaxRev /\ Head(batchQ[s]).changes \in PartialMap
    BY <2>2 DEF ChangeBatch
  <2>4. pending' \in [Streams -> PartialMap]
    BY <1>t, <1>3, <2>3, FoldType DEF FoldBatch, StreamTypeOK
  <2> QED BY <1>t, <1>0, <1>3, <2>3, <2>4 DEF FoldBatch, pageVars, StreamTypeOK
<1>4. ASSUME NEW s \in Streams, ReportGap(s) PROVE StreamTypeOK'
  <2>1. [type |-> "resync_required"] \in Event
    BY DEF Event, ResyncEvent
  <2>2. wire' \in [Streams -> Seq(Event)]
    BY <1>t, <1>4, <2>1 DEF ReportGap, StreamTypeOK
  <2> QED BY <1>t, <1>0, <1>4, <2>2 DEF ReportGap, pageVars, StreamTypeOK
<1>5. ASSUME NEW s \in Streams, flushTelemetry(s) PROVE StreamTypeOK'
  <2>1. /\ pendingStartRevision[s] \in 1..last[s] /\ pendingRevision[s] = last[s]
        /\ last[s] \in 0..MaxRev /\ pending[s] \in PartialMap
    BY <1>t, <1>5 DEF flushTelemetry, StreamIInv, WindowIsDifference, StreamTypeOK
  <2>2. pendingStartRevision[s] \in 1..MaxRev /\ pendingRevision[s] \in 1..MaxRev
    BY <2>1
  <2>3. [type |-> "telemetry", from |-> pendingStartRevision[s],
         rev |-> pendingRevision[s], changes |-> pending[s]] \in Event
    BY <2>1, <2>2 DEF Event, TelemetryEvent
  <2>4. wire' \in [Streams -> Seq(Event)]
    BY <1>t, <1>5, <2>3 DEF flushTelemetry, StreamTypeOK
  <2>5. pending' \in [Streams -> PartialMap]
    BY <1>t, <1>5, EmptyMapType DEF flushTelemetry, StreamTypeOK
  <2> QED BY <1>t, <1>0, <1>5, <2>4, <2>5 DEF flushTelemetry, pageVars, StreamTypeOK
<1>6. ASSUME NEW s \in Streams, TransportError(s) \/ CloseAndReconnect(s) PROVE StreamTypeOK'
  <2>0. EndHandler(s)
    BY <1>6 DEF TransportError, CloseAndReconnect
  <2>1. << >> \in Seq(Event)
    OBVIOUS
  <2>2. wire' \in [Streams -> Seq(Event)] /\ handler' \in [Streams -> {"off", "run"}]
    BY <1>t, <2>0, <2>1 DEF EndHandler, StreamTypeOK
  <2>3. breaks' \in 0..MaxBreaks
    <3>1. CASE TransportError(s)
      BY <1>t, <3>1 DEF TransportError, StreamTypeOK
    <3>2. CASE CloseAndReconnect(s)
      BY <1>t, <3>2 DEF CloseAndReconnect, StreamTypeOK
    <3> QED BY <1>6, <3>1, <3>2
  <2>4. /\ source' = [source EXCEPT ![s] = "connecting"]
        /\ UNCHANGED <<last, pending, pendingStartRevision, pendingRevision, points, revision>>
    BY <1>6 DEF TransportError, CloseAndReconnect
  <2> QED BY <1>t, <1>0, <2>2, <2>3, <2>4 DEF StreamTypeOK
<1>7. ASSUME NEW s \in Streams, ConsumeSnapshot(s) \/ ConsumeTelemetry(s) PROVE StreamTypeOK'
  <2>1. wire[s] \in Seq(Event) /\ wire[s] # << >>
    BY <1>t, <1>7 DEF ConsumeSnapshot, ConsumeTelemetry, StreamTypeOK
  <2>2. Head(wire[s]) \in Event /\ Tail(wire[s]) \in Seq(Event)
    BY <2>1, HeadTailProperties
  <2>3. wire' \in [Streams -> Seq(Event)]
    BY <1>t, <1>7, <2>2 DEF ConsumeSnapshot, ConsumeTelemetry, StreamTypeOK
  <2>4. CASE ConsumeSnapshot(s)
    <3>1. Head(wire[s]).rev \in 0..MaxRev /\ Head(wire[s]).points \in PointMap
      BY <2>2, <2>4, EventShape DEF ConsumeSnapshot
    <3> QED BY <1>t, <1>0, <2>3, <2>4, <3>1 DEF ConsumeSnapshot, handlerVars, StreamTypeOK
  <2>5. CASE ConsumeTelemetry(s)
    <3>1. Head(wire[s]).rev \in 1..MaxRev /\ Head(wire[s]).changes \in PartialMap
      BY <2>2, <2>5, EventShape DEF ConsumeTelemetry
    <3>2. Apply(points[s], Head(wire[s]).changes) \in PointMap
      BY <1>t, <3>1, ApplyType DEF StreamTypeOK
    <3> QED BY <1>t, <1>0, <2>3, <2>5, <3>1, <3>2 DEF ConsumeTelemetry, handlerVars, StreamTypeOK
  <2> QED BY <1>7, <2>4, <2>5
<1>8. CASE UNCHANGED vars
  BY <1>t, <1>0, <1>8 DEF vars, streamVars, handlerVars, pageVars, StreamTypeOK
<1> QED
  BY <1>1, <1>2, <1>3, <1>4, <1>5, <1>6, <1>7, <1>8 DEF StreamNext, StreamStep, PageStep

-----------------------------------------------------------------------------
\* What one page's part of the invariant needs from a step that leaves that
\* page's handler and view alone.
LEMMA KeepWindow ==
    ASSUME StreamIInv, [StreamNext]_vars, NEW s \in Streams,
           pending'[s] = pending[s], last'[s] = last[s],
           pendingStartRevision'[s] = pendingStartRevision[s],
           pendingRevision'[s] = pendingRevision[s]
    PROVE  WindowIsDifference(s)'
<1>1. last[s] \in 0..rev
  BY DEF StreamIInv, StreamTypeOK, TypeOK, ChannelAhead
<1>2. \A r \in 0..rev : history'[r] = history[r]
  BY StreamIsStore, PastIsFixed DEF StreamIInv, StreamTypeOK
<1>3. ASSUME DOMAIN pending[s] # {}
      PROVE  /\ pendingStartRevision[s] \in 1..last[s]
             /\ pendingRevision[s] = last[s]
             /\ history'[last[s]] = Apply(history'[pendingStartRevision[s] - 1], pending[s])
  <2>1. /\ pendingStartRevision[s] \in 1..last[s]
        /\ pendingRevision[s] = last[s]
        /\ history[last[s]] = Apply(history[pendingStartRevision[s] - 1], pending[s])
    BY <1>3 DEF StreamIInv, WindowIsDifference
  <2>2. rev \in 0..MaxRev
    BY DEF StreamIInv, StreamTypeOK, TypeOK
  <2>3. pendingStartRevision[s] - 1 \in 0..rev
    BY <1>1, <2>1, <2>2
  <2> QED BY <1>1, <1>2, <2>1, <2>3
<1> QED BY <1>3 DEF WindowIsDifference

\* A true event stays true.
LEMMA KeepEvent ==
    ASSUME StreamIInv, [StreamNext]_vars, NEW e \in Event
    PROVE  /\ e.type = "snapshot" /\ SnapshotIsTrue(e) => SnapshotIsTrue(e)'
           /\ e.type = "telemetry" /\ TelemetryIsTrue(e) => TelemetryIsTrue(e)'
<1>1. /\ rev \in 0..MaxRev /\ rev' \in 0..MaxRev /\ rev <= rev'
      /\ \A r \in 0..rev : history'[r] = history[r]
  BY StreamIsStore, PastIsFixed DEF StreamIInv, StreamTypeOK
<1>2. ASSUME e.type = "snapshot", SnapshotIsTrue(e) PROVE SnapshotIsTrue(e)'
  <2>1. e.rev \in 0..MaxRev /\ e.rev <= rev
    BY <1>2, EventShape DEF SnapshotIsTrue
  <2>2. e.rev \in 0..rev /\ e.rev <= rev'
    BY <1>1, <2>1
  <2> QED BY <1>1, <1>2, <2>2 DEF SnapshotIsTrue
<1>3. ASSUME e.type = "telemetry", TelemetryIsTrue(e) PROVE TelemetryIsTrue(e)'
  <2>1. e.from \in 1..MaxRev /\ e.rev \in 1..MaxRev /\ e.from <= e.rev /\ e.rev <= rev
    BY <1>3, EventShape DEF TelemetryIsTrue
  <2>2. e.rev \in 0..rev /\ e.from - 1 \in 0..rev /\ e.rev <= rev'
    BY <1>1, <2>1
  <2> QED BY <1>1, <1>3, <2>2 DEF TelemetryIsTrue
<1> QED BY <1>2, <1>3

LEMMA KeepWire ==
    ASSUME StreamIInv, [StreamNext]_vars, NEW s \in Streams,
           \A i \in DOMAIN wire'[s] : \E j \in DOMAIN wire[s] : wire'[s][i] = wire[s][j]
    PROVE  WireIsTrue(s)'
<1> SUFFICES ASSUME NEW i \in DOMAIN wire'[s]
    PROVE  /\ wire'[s][i].type = "snapshot"  => SnapshotIsTrue(wire[s][i])'
           /\ wire'[s][i].type = "telemetry" => TelemetryIsTrue(wire[s][i])'
  BY DEF WireIsTrue
<1>1. PICK j \in DOMAIN wire[s] : wire'[s][i] = wire[s][j]
  OBVIOUS
<1> DEFINE e == wire[s][j]
<1>2. e \in Event
  BY EntryType DEF StreamIInv, StreamTypeOK
<1>3. /\ e.type = "snapshot" => SnapshotIsTrue(e)
      /\ e.type = "telemetry" => TelemetryIsTrue(e)
  BY DEF StreamIInv, WireIsTrue
<1> HIDE DEF e
<1>4. PICK f \in Event : f = e
  BY <1>2
<1>5. /\ f.type = "snapshot" => SnapshotIsTrue(f)'
      /\ f.type = "telemetry" => TelemetryIsTrue(f)'
  BY <1>3, <1>4, KeepEvent
<1>6. f = wire'[s][i]
  BY <1>1, <1>4 DEF e
<1> QED BY <1>5, <1>6 DEF SnapshotIsTrue, TelemetryIsTrue

LEMMA KeepPage ==
    ASSUME StreamIInv, [StreamNext]_vars, NEW s \in Streams,
           points'[s] = points[s], revision'[s] = revision[s]
    PROVE  PageInPast(s)'
<1>1. /\ rev \in 0..MaxRev /\ rev' \in 0..MaxRev /\ rev <= rev'
      /\ \A r \in 0..rev : history'[r] = history[r]
  BY StreamIsStore, PastIsFixed DEF StreamIInv, StreamTypeOK
<1>2. /\ revision[s] <= rev /\ revision[s] \in {NoRevision} \cup 0..MaxRev
      /\ revision[s] # NoRevision => points[s] = history[revision[s]]
  BY DEF StreamIInv, PageInPast, StreamTypeOK
<1>3. revision[s] # NoRevision => revision[s] \in 0..rev
  BY <1>1, <1>2
<1>4. revision[s] <= rev'
  BY <1>1, <1>2 DEF NoRevision
<1> QED BY <1>1, <1>2, <1>3, <1>4 DEF PageInPast

PageInv(s) ==
    /\ ChannelAhead(s)
    /\ WindowIsDifference(s)
    /\ WireIsTrue(s)
    /\ SnapshotFirst(s)
    /\ PageInPast(s)

\* A step that touches none of a page's own state, and puts nothing old in its
\* channel, keeps that page's part of the invariant.
LEMMA KeepAll ==
    ASSUME StreamIInv, [StreamNext]_vars, NEW t \in Streams,
           UNCHANGED <<handler[t], last[t], pending[t], pendingStartRevision[t],
                       pendingRevision[t], wire[t], source[t], points[t], revision[t]>>,
           t \in batchSubs' <=> t \in batchSubs,
           t \in batchSubs => \A i \in DOMAIN batchQ'[t] : batchQ'[t][i].rev > last[t]
    PROVE  PageInv(t)'
<1>1. rev \in 0..MaxRev /\ rev' \in 0..MaxRev /\ rev <= rev'
  BY StreamIsStore, PastIsFixed DEF StreamIInv, StreamTypeOK
<1>2. ChannelAhead(t)'
  <2>1. last[t] \in 0..MaxRev /\ last[t] <= rev /\ (t \in batchSubs <=> handler[t] = "run")
    BY DEF StreamIInv, StreamTypeOK, ChannelAhead
  <2>2. last[t] <= rev'
    BY <1>1, <2>1
  <2> QED BY <2>1, <2>2 DEF ChannelAhead
<1>3. WindowIsDifference(t)' /\ WireIsTrue(t)' /\ PageInPast(t)'
  BY KeepWindow, KeepWire, KeepPage
<1>4. SnapshotFirst(t)'
  BY DEF StreamIInv, SnapshotFirst
<1> QED BY <1>2, <1>3, <1>4 DEF PageInv

\* A page's step touches no other page.
LEMMA OtherPages ==
    ASSUME StreamIInv, NEW s \in Streams, StreamStep(s), NEW t \in Streams, t # s
    PROVE  /\ UNCHANGED <<handler[t], last[t], pending[t], pendingStartRevision[t],
                          pendingRevision[t], wire[t], source[t], points[t], revision[t]>>
           /\ t \in batchSubs' <=> t \in batchSubs
           /\ batchQ'[t] = batchQ[t]
<1>t. StreamTypeOK /\ batchQ \in [Streams -> Seq(ChangeBatch)]
  BY DEF StreamIInv, StreamTypeOK, TypeOK, Streams
<1>1. CASE Bootstrap(s)
  BY <1>t, <1>1 DEF Bootstrap, subscribeBatchesLocked, StreamTypeOK
<1>2. CASE FoldBatch(s)
  BY <1>t, <1>2 DEF FoldBatch, ReceiveBatch, pageVars, StreamTypeOK
<1>3. CASE ReportGap(s)
  BY <1>t, <1>3 DEF ReportGap, unsubscribeBatches, pageVars, StreamTypeOK
<1>4. CASE flushTelemetry(s)
  BY <1>t, <1>4 DEF flushTelemetry, storeVars, pageVars, StreamTypeOK
<1>5. CASE TransportError(s) \/ CloseAndReconnect(s)
  <2>1. EndHandler(s)
    BY <1>5 DEF TransportError, CloseAndReconnect
  <2>2. /\ UNCHANGED <<handler[t], wire[t]>>
        /\ t \in batchSubs' <=> t \in batchSubs
        /\ batchQ'[t] = batchQ[t]
    BY <1>t, <2>1 DEF EndHandler, unsubscribeBatches, storeVars, StreamTypeOK
  <2>3. /\ source' = [source EXCEPT ![s] = "connecting"]
        /\ UNCHANGED <<last, pending, pendingStartRevision, pendingRevision, points, revision>>
    BY <1>5 DEF TransportError, CloseAndReconnect
  <2> QED BY <1>t, <2>2, <2>3 DEF StreamTypeOK
<1>6. CASE ConsumeSnapshot(s)
  BY <1>t, <1>6 DEF ConsumeSnapshot, storeVars, handlerVars, StreamTypeOK
<1>7. CASE ConsumeTelemetry(s)
  BY <1>t, <1>7 DEF ConsumeTelemetry, storeVars, handlerVars, StreamTypeOK
<1> QED BY <1>1, <1>2, <1>3, <1>4, <1>5, <1>6, <1>7 DEF StreamStep, PageStep

\* The steps of the store's writers keep every page's part.
LEMMA StoreStepPage ==
    ASSUME StreamIInv, StoreStep, NEW t \in Streams
    PROVE  PageInv(t)'
<1>1. [StreamNext]_vars
  BY DEF StreamNext
<1>2. UNCHANGED streamVars
  BY DEF StoreStep
<1>3. TypeOK /\ rev \in 0..MaxRev /\ t \in BatchSubscribers /\ batchQ[t] \in Seq(ChangeBatch)
  BY DEF StreamIInv, StreamTypeOK, TypeOK, Streams
<1>4. last[t] \in 0..MaxRev /\ last[t] <= rev
      /\ (t \in batchSubs => \A i \in DOMAIN batchQ[t] : batchQ[t][i].rev > last[t])
  BY DEF StreamIInv, StreamTypeOK, ChannelAhead
<1>5. ASSUME NEW w \in Writers, Mutate(w)
      PROVE  /\ batchSubs' = batchSubs
             /\ t \in batchSubs => \A i \in DOMAIN batchQ'[t] : batchQ'[t][i].rev > last[t]
  <2>1. PICK changes \in PartialMap : CommitLocked(w, changes)
    BY <1>3, <1>5, MutateCommits
  <2>2. batchSubs' = batchSubs
    BY <2>1 DEF CommitLocked
  <2> DEFINE new == [rev |-> rev + 1, changes |-> changes]
  <2>3. batchQ'[t] = batchQ[t] \/ batchQ'[t] = Append(batchQ[t], new)
    BY <1>3, <2>1, CommitQueues
  <2>4. new.rev > last[t]
    BY <1>3, <1>4
  <2> HIDE DEF new
  <2>5. ASSUME t \in batchSubs, NEW i \in DOMAIN batchQ'[t] PROVE batchQ'[t][i].rev > last[t]
    <3>1. CASE batchQ'[t] = batchQ[t]
      BY <1>4, <2>5, <3>1
    <3>2. CASE batchQ'[t] = Append(batchQ[t], new)
      <4>1. i \in 1..Len(batchQ[t]) + 1 /\ Len(batchQ[t]) \in Nat
        BY <1>3, <3>2
      <4>2. CASE i = Len(batchQ[t]) + 1
        BY <1>3, <2>4, <3>2, <4>2
      <4>3. CASE i \in 1..Len(batchQ[t])
        BY <1>3, <1>4, <2>5, <3>2, <4>3
      <4> QED BY <4>1, <4>2, <4>3
    <3> QED BY <2>3, <3>1, <3>2
  <2> QED BY <2>2, <2>5
<1>6. ASSUME NEW w \in Writers, publish(w)
      PROVE  batchSubs' = batchSubs /\ batchQ' = batchQ
  BY <1>6 DEF publish
<1>7. /\ batchSubs' = batchSubs
      /\ t \in batchSubs => \A i \in DOMAIN batchQ'[t] : batchQ'[t][i].rev > last[t]
  BY <1>4, <1>5, <1>6 DEF StoreStep
<1> QED BY <1>1, <1>2, <1>7, KeepAll DEF streamVars, handlerVars, pageVars

-----------------------------------------------------------------------------
\* The first entry of a stream's queue and what remains of it.
LEMMA QueueHead ==
    ASSUME NEW M, NEW q \in Seq(M), q # << >>
    PROVE  /\ Head(q) = q[1] /\ Head(q) \in M /\ 1 \in DOMAIN q
           /\ \A i \in DOMAIN Tail(q) :
                 i \in Nat /\ i >= 1 /\ i + 1 \in DOMAIN q /\ Tail(q)[i] = q[i + 1]
<1>1. /\ Tail(q) \in Seq(M)
      /\ \A i \in DOMAIN Tail(q) : i + 1 \in DOMAIN q /\ Tail(q)[i] = q[i + 1]
  BY TailFacts
<1>2. Head(q) = q[1] /\ 1 \in DOMAIN q
  OBVIOUS
<1>3. \A i \in DOMAIN Tail(q) : i \in Nat /\ i >= 1
  BY <1>1
<1> QED BY <1>1, <1>2, <1>3, EntryType

LEMMA BootstrapPage ==
    ASSUME StreamIInv, NEW s \in Streams, Bootstrap(s)
    PROVE  PageInv(s)'
<1>1. [StreamNext]_vars
  BY DEF StreamNext, StreamStep
<1>2. /\ StreamTypeOK /\ TypeOK /\ rev \in 0..MaxRev /\ s \in BatchSubscribers
      /\ history[rev] = values
  BY DEF StreamIInv, StreamTypeOK, TypeOK, Streams, StoreIInv, HistoryIsCurrent
<1>3. UNCHANGED <<values, rev, history, points, revision>>
  BY DEF Bootstrap, subscribeBatchesLocked
<1>4. ChannelAhead(s)'
  <2>1. s \in batchSubs' /\ batchQ'[s] = << >>
    BY <1>2 DEF Bootstrap, subscribeBatchesLocked, TypeOK
  <2>2. handler'[s] = "run" /\ last'[s] = rev
    BY <1>2 DEF Bootstrap, StreamTypeOK
  <2> QED BY <1>2, <1>3, <2>1, <2>2 DEF ChannelAhead
<1>5. WindowIsDifference(s)'
  BY <1>2, EmptyMapType DEF Bootstrap, StreamTypeOK, WindowIsDifference
<1>6. wire'[s] = <<[type |-> "snapshot", rev |-> rev, points |-> values]>> /\ source'[s] = "open"
  BY <1>2 DEF Bootstrap, StreamTypeOK
<1>7. WireIsTrue(s)'
  BY <1>2, <1>3, <1>6 DEF WireIsTrue, SnapshotIsTrue
<1>8. SnapshotFirst(s)'
  <2>1. revision[s] <= rev
    BY DEF StreamIInv, PageInPast
  <2> QED BY <1>3, <1>6, <2>1 DEF SnapshotFirst
<1>9. PageInPast(s)'
  BY <1>1, <1>3, KeepPage
<1> QED BY <1>4, <1>5, <1>7, <1>8, <1>9 DEF PageInv

LEMMA FoldBatchPage ==
    ASSUME StreamIInv, NEW s \in Streams, FoldBatch(s)
    PROVE  PageInv(s)'
<1>1. [StreamNext]_vars
  BY DEF StreamNext, StreamStep
<1>2. /\ StreamTypeOK /\ TypeOK /\ rev \in 0..MaxRev /\ s \in BatchSubscribers
      /\ batchQ[s] \in Seq(ChangeBatch) /\ batchQ[s] # << >>
  BY DEF StreamIInv, StreamTypeOK, TypeOK, Streams, FoldBatch, ReceiveBatch
<1> DEFINE batch == batchQ[s][1]
<1>3. Head(batchQ[s]) = batch /\ batch \in ChangeBatch /\ 1 \in DOMAIN batchQ[s]
  BY <1>2, QueueHead
<1>4. /\ batch.rev \in 1..MaxRev /\ batch.changes \in PartialMap
      /\ batch.rev = last[s] + 1 /\ batch.rev <= rev
      /\ history[batch.rev] = Apply(history[batch.rev - 1], batch.changes)
  <2>1. batch.rev = last[s] + 1
    BY <1>3 DEF FoldBatch
  <2>2. batch.rev <= rev /\ history[batch.rev] = Apply(history[batch.rev - 1], batch.changes)
    BY <1>2, <1>3 DEF StreamIInv, StoreIInv, BatchesAreWhole
  <2> QED BY <1>3, <2>1, <2>2 DEF ChangeBatch
<1>5. UNCHANGED <<values, rev, history, handler, wire, source, points, revision, batchSubs>>
  BY DEF FoldBatch, ReceiveBatch, pageVars
<1>6. /\ last'[s] = batch.rev /\ pendingRevision'[s] = batch.rev
      /\ pending'[s] = Fold(pending[s], batch.changes)
      /\ pendingStartRevision'[s] =
            IF DOMAIN pending[s] = {} THEN batch.rev ELSE pendingStartRevision[s]
  BY <1>2, <1>3 DEF FoldBatch, StreamTypeOK
<1>l. last[s] \in 0..MaxRev /\ pending[s] \in PartialMap
  BY <1>2 DEF StreamTypeOK
<1>7. ChannelAhead(s)'
  <2>1. batchQ'[s] = Tail(batchQ[s])
    BY <1>2 DEF FoldBatch, ReceiveBatch, TypeOK
  <2>2. ASSUME NEW i \in DOMAIN batchQ'[s] PROVE batchQ'[s][i].rev > batch.rev
    <3>1. i \in Nat /\ i >= 1 /\ i + 1 \in DOMAIN batchQ[s] /\ batchQ'[s][i] = batchQ[s][i + 1]
      BY <1>2, <2>1, <2>2, QueueHead
    <3>2. 1 < i + 1
      BY <3>1
    <3>3. batchQ[s][1].rev < batchQ[s][i + 1].rev
      BY <1>2, <1>3, <3>1, <3>2 DEF StreamIInv, StoreIInv, BatchesInOrder
    <3>4. batchQ[s][i + 1] \in ChangeBatch
      BY <1>2, <3>1, EntryType
    <3>5. batchQ[s][i + 1].rev \in 1..MaxRev
      BY <3>4 DEF ChangeBatch
    <3> QED BY <1>4, <3>1, <3>3, <3>5
  <2>3. s \in batchSubs <=> handler[s] = "run"
    BY DEF StreamIInv, ChannelAhead
  <2> QED BY <1>4, <1>5, <1>6, <2>2, <2>3 DEF ChannelAhead
<1>8. WindowIsDifference(s)'
  <2>1. batch.rev - 1 = last[s]
    BY <1>4, <1>l
  <2>2. history[batch.rev] = Apply(history[last[s]], batch.changes)
    BY <1>4, <2>1
  <2>3. CASE DOMAIN pending[s] = {}
    <3>1. history[batch.rev] = Apply(history[batch.rev - 1], Fold(pending[s], batch.changes))
      BY <1>l, <1>4, <2>3, ApplyFoldEmpty
    <3>2. batch.rev \in 1..batch.rev
      BY <1>4
    <3> QED BY <1>5, <1>6, <2>3, <3>1, <3>2 DEF WindowIsDifference
  <2>4. CASE DOMAIN pending[s] # {}
    <3>1. /\ pendingStartRevision[s] \in 1..last[s]
          /\ history[last[s]] = Apply(history[pendingStartRevision[s] - 1], pending[s])
      BY <2>4 DEF StreamIInv, WindowIsDifference
    <3>2. history[batch.rev] = Apply(history[pendingStartRevision[s] - 1], Fold(pending[s], batch.changes))
      BY <1>l, <1>4, <2>2, <3>1, ApplyFold
    <3>3. pendingStartRevision[s] \in 1..batch.rev
      BY <1>4, <1>l, <3>1
    <3> QED BY <1>5, <1>6, <2>4, <3>2, <3>3 DEF WindowIsDifference
  <2> QED BY <2>3, <2>4
<1>9. WireIsTrue(s)' /\ PageInPast(s)'
  BY <1>1, <1>5, KeepWire, KeepPage
<1>10. SnapshotFirst(s)'
  BY <1>5 DEF StreamIInv, SnapshotFirst
<1> QED BY <1>7, <1>8, <1>9, <1>10 DEF PageInv

LEMMA ReportGapPage ==
    ASSUME StreamIInv, NEW s \in Streams, ReportGap(s)
    PROVE  PageInv(s)'
<1>1. [StreamNext]_vars
  BY DEF StreamNext, StreamStep
<1>2. StreamTypeOK /\ rev \in 0..MaxRev /\ wire[s] \in Seq(Event)
  BY DEF StreamIInv, StreamTypeOK, TypeOK
<1>3. UNCHANGED <<rev, last, pending, pendingStartRevision, pendingRevision, source, points, revision>>
  BY DEF ReportGap, unsubscribeBatches, pageVars
<1> DEFINE gap == [type |-> "resync_required"]
<1>4. wire'[s] = Append(wire[s], gap) /\ handler'[s] = "off" /\ s \notin batchSubs'
  BY <1>2 DEF ReportGap, unsubscribeBatches, StreamTypeOK
<1>5. /\ DOMAIN wire'[s] = 1..Len(wire[s]) + 1 /\ Len(wire[s]) \in Nat
      /\ DOMAIN wire[s] = 1..Len(wire[s])
      /\ \A i \in 1..Len(wire[s]) : wire'[s][i] = wire[s][i]
      /\ wire'[s][Len(wire[s]) + 1] = gap
  BY <1>2, <1>4
<1>6. ChannelAhead(s)'
  <2>1. last[s] <= rev
    BY DEF StreamIInv, ChannelAhead
  <2> QED BY <1>3, <1>4, <2>1 DEF ChannelAhead
<1>7. WindowIsDifference(s)' /\ PageInPast(s)'
  BY <1>1, <1>3, KeepWindow, KeepPage
<1>8. ASSUME NEW i \in DOMAIN wire'[s], wire'[s][i].type # "resync_required"
      PROVE  i \in DOMAIN wire[s] /\ wire'[s][i] = wire[s][i]
  <2>1. gap.type = "resync_required"
    OBVIOUS
  <2> QED BY <1>5, <1>8, <2>1
<1>9. WireIsTrue(s)'
  <2> SUFFICES ASSUME NEW i \in DOMAIN wire'[s]
      PROVE  /\ wire'[s][i].type = "snapshot"  => SnapshotIsTrue(wire[s][i])'
             /\ wire'[s][i].type = "telemetry" => TelemetryIsTrue(wire[s][i])'
    BY DEF WireIsTrue
  <2>1. UNCHANGED history
    BY DEF ReportGap, unsubscribeBatches
  <2> QED BY <1>3, <1>8, <2>1 DEF StreamIInv, WireIsTrue, SnapshotIsTrue, TelemetryIsTrue
<1>10. SnapshotFirst(s)'
  <2>1. ASSUME NEW i \in DOMAIN wire'[s], wire'[s][i].type = "snapshot"
        PROVE  i = 1 /\ wire'[s][i].rev >= revision'[s]
    BY <1>3, <1>8, <2>1 DEF StreamIInv, SnapshotFirst
  <2>2. ASSUME source'[s] = "open", revision'[s] = NoRevision
        PROVE  wire'[s] # << >> /\ wire'[s][1].type = "snapshot"
    <3>1. wire[s] # << >> /\ wire[s][1].type = "snapshot"
      BY <1>3, <2>2 DEF StreamIInv, SnapshotFirst
    <3>2. 1 \in 1..Len(wire[s])
      BY <1>2, <3>1
    <3>3. wire'[s] # << >>
      BY <1>5, <3>2
    <3> QED BY <1>5, <3>1, <3>2, <3>3
  <2> QED BY <2>1, <2>2 DEF SnapshotFirst
<1> QED BY <1>6, <1>7, <1>9, <1>10 DEF PageInv

LEMMA FlushPage ==
    ASSUME StreamIInv, NEW s \in Streams, flushTelemetry(s)
    PROVE  PageInv(s)'
<1>2. StreamTypeOK /\ rev \in 0..MaxRev /\ wire[s] \in Seq(Event) /\ last[s] \in 0..MaxRev
  BY DEF StreamIInv, StreamTypeOK, TypeOK
<1>1. [StreamNext]_vars
  BY DEF StreamNext, StreamStep
<1>3. UNCHANGED <<rev, history, batchSubs, batchQ, handler, last, pendingStartRevision,
                  pendingRevision, source, points, revision>>
  BY DEF flushTelemetry, storeVars, pageVars
<1> DEFINE e == [type |-> "telemetry", from |-> pendingStartRevision[s],
                 rev |-> pendingRevision[s], changes |-> pending[s]]
<1>4. wire'[s] = Append(wire[s], e) /\ DOMAIN pending'[s] = {}
  BY <1>2, EmptyMapType DEF flushTelemetry, StreamTypeOK
<1>5. /\ DOMAIN wire'[s] = 1..Len(wire[s]) + 1 /\ Len(wire[s]) \in Nat
      /\ DOMAIN wire[s] = 1..Len(wire[s])
      /\ \A i \in 1..Len(wire[s]) : wire'[s][i] = wire[s][i]
      /\ wire'[s][Len(wire[s]) + 1] = e
  BY <1>2, <1>4
<1>6. ChannelAhead(s)'
  BY <1>3 DEF StreamIInv, ChannelAhead
<1>7. WindowIsDifference(s)'
  BY <1>4 DEF WindowIsDifference
<1>8. PageInPast(s)'
  BY <1>1, <1>3, KeepPage
<1>9. /\ e.type = "telemetry" /\ e.from <= e.rev /\ e.rev <= rev'
      /\ history'[e.rev] = Apply(history'[e.from - 1], e.changes)
  <2>1. /\ pendingStartRevision[s] \in 1..last[s]
        /\ pendingRevision[s] = last[s]
        /\ history[last[s]] = Apply(history[pendingStartRevision[s] - 1], pending[s])
    BY DEF flushTelemetry, StreamIInv, WindowIsDifference
  <2>2. last[s] <= rev
    BY DEF StreamIInv, ChannelAhead
  <2> QED BY <1>2, <1>3, <2>1, <2>2
<1> HIDE DEF e
<1>10. WireIsTrue(s)'
  <2> SUFFICES ASSUME NEW i \in DOMAIN wire'[s]
      PROVE  /\ wire'[s][i].type = "snapshot"  => SnapshotIsTrue(wire[s][i])'
             /\ wire'[s][i].type = "telemetry" => TelemetryIsTrue(wire[s][i])'
    BY DEF WireIsTrue
  <2>1. CASE i \in 1..Len(wire[s])
    <3>1. i \in DOMAIN wire[s] /\ wire'[s][i] = wire[s][i]
      BY <1>5, <2>1
    <3> QED BY <1>3, <3>1 DEF StreamIInv, WireIsTrue, SnapshotIsTrue, TelemetryIsTrue
  <2>2. CASE i = Len(wire[s]) + 1
    <3>1. wire'[s][i] = e
      BY <1>5, <2>2
    <3> QED BY <1>3, <1>9, <3>1 DEF TelemetryIsTrue
  <2> QED BY <1>5, <2>1, <2>2
<1>11. SnapshotFirst(s)'
  <2>1. ASSUME NEW i \in DOMAIN wire'[s], wire'[s][i].type = "snapshot"
        PROVE  i = 1 /\ wire'[s][i].rev >= revision'[s]
    <3>1. i \in DOMAIN wire[s] /\ wire'[s][i] = wire[s][i]
      BY <1>5, <1>9, <2>1
    <3> QED BY <1>3, <2>1, <3>1 DEF StreamIInv, SnapshotFirst
  <2>2. ASSUME source'[s] = "open", revision'[s] = NoRevision
        PROVE  wire'[s] # << >> /\ wire'[s][1].type = "snapshot"
    <3>1. wire[s] # << >> /\ wire[s][1].type = "snapshot"
      BY <1>3, <2>2 DEF StreamIInv, SnapshotFirst
    <3>2. 1 \in 1..Len(wire[s])
      BY <1>2, <3>1
    <3>3. wire'[s] # << >>
      BY <1>5, <3>2
    <3> QED BY <1>5, <3>1, <3>2, <3>3
  <2> QED BY <2>1, <2>2 DEF SnapshotFirst
<1> QED BY <1>6, <1>7, <1>8, <1>10, <1>11 DEF PageInv

LEMMA EndPage ==
    ASSUME StreamIInv, NEW s \in Streams, TransportError(s) \/ CloseAndReconnect(s)
    PROVE  PageInv(s)'
<1>1. [StreamNext]_vars
  BY DEF StreamNext, StreamStep, PageStep
<1>2. StreamTypeOK /\ s \in BatchSubscribers
  BY DEF StreamIInv, Streams
<1>3. EndHandler(s)
  BY DEF TransportError, CloseAndReconnect
<1>4. /\ source' = [source EXCEPT ![s] = "connecting"]
      /\ UNCHANGED <<last, pending, pendingStartRevision, pendingRevision, points, revision>>
  BY DEF TransportError, CloseAndReconnect
<1>5. /\ source'[s] = "connecting" /\ wire'[s] = << >> /\ handler'[s] = "off"
      /\ s \notin batchSubs' /\ rev' = rev
  <2>1. s \in batchSubs <=> handler[s] = "run"
    BY DEF StreamIInv, ChannelAhead
  <2>2. handler'[s] = "off" /\ wire'[s] = << >>
    BY <1>2, <1>3 DEF EndHandler, StreamTypeOK
  <2>3. s \notin batchSubs' /\ rev' = rev
    BY <1>3, <2>1 DEF EndHandler, unsubscribeBatches, storeVars
  <2> QED BY <1>2, <1>4, <2>2, <2>3 DEF StreamTypeOK
<1>6. ChannelAhead(s)'
  BY <1>4, <1>5 DEF StreamIInv, ChannelAhead
<1>7. WindowIsDifference(s)' /\ PageInPast(s)'
  BY <1>1, <1>4, KeepWindow, KeepPage
<1>8. WireIsTrue(s)' /\ SnapshotFirst(s)'
  BY <1>5 DEF WireIsTrue, SnapshotFirst
<1> QED BY <1>6, <1>7, <1>8 DEF PageInv

\* What the page takes off the wire moves its view, as a whole, to a state of
\* the store no older than the one it had.
LEMMA ConsumeMoves ==
    ASSUME StreamIInv, NEW s \in Streams, ConsumeSnapshot(s) \/ ConsumeTelemetry(s)
    PROVE  LET e == wire[s][1]
           IN  /\ wire[s] \in Seq(Event) /\ wire[s] # << >>
               /\ e.rev \in 0..rev /\ e.rev >= revision[s]
               /\ revision' = [revision EXCEPT ![s] = e.rev]
               /\ points' = [points EXCEPT ![s] = history[e.rev]]
               /\ wire'[s] = Tail(wire[s])
               /\ UNCHANGED <<storeVars, handlerVars, source>>
<1> DEFINE e == wire[s][1]
<1>1. StreamTypeOK /\ wire[s] \in Seq(Event) /\ wire[s] # << >> /\ rev \in 0..MaxRev
  BY DEF StreamIInv, StreamTypeOK, TypeOK, ConsumeSnapshot, ConsumeTelemetry
<1>2. Head(wire[s]) = e /\ e \in Event /\ 1 \in DOMAIN wire[s]
  BY <1>1, QueueHead
<1>3. wire'[s] = Tail(wire[s]) /\ UNCHANGED <<storeVars, handlerVars, source>>
  BY <1>1 DEF ConsumeSnapshot, ConsumeTelemetry, StreamTypeOK
<1>4. revision' = [revision EXCEPT ![s] = e.rev]
  BY <1>2 DEF ConsumeSnapshot, ConsumeTelemetry
<1>5. CASE ConsumeSnapshot(s)
  <2>1. e.type = "snapshot"
    BY <1>2, <1>5 DEF ConsumeSnapshot
  <2>2. e.rev \in 0..MaxRev /\ e.rev <= rev /\ e.points = history[e.rev]
    BY <1>2, <2>1, EventShape DEF StreamIInv, WireIsTrue, SnapshotIsTrue
  <2>3. e.rev >= revision[s]
    BY <1>2, <2>1 DEF StreamIInv, SnapshotFirst
  <2>4. points' = [points EXCEPT ![s] = history[e.rev]]
    BY <1>2, <1>5, <2>2 DEF ConsumeSnapshot
  <2>5. e.rev \in 0..rev
    BY <1>1, <2>2
  <2> QED BY <1>1, <1>3, <1>4, <2>3, <2>4, <2>5
<1>6. CASE ConsumeTelemetry(s)
  <2>1. e.type = "telemetry" /\ source[s] = "open" /\ FollowsOn(s, e)
    BY <1>2, <1>6 DEF ConsumeTelemetry
  <2>2. /\ e.from \in 1..MaxRev /\ e.rev \in 1..MaxRev /\ e.from <= e.rev /\ e.rev <= rev
        /\ history[e.rev] = Apply(history[e.from - 1], e.changes)
    BY <1>2, <2>1, EventShape DEF StreamIInv, WireIsTrue, TelemetryIsTrue
  <2>3. revision[s] # NoRevision
    <3>1. ASSUME revision[s] = NoRevision PROVE FALSE
      <4>1. e.type = "snapshot"
        BY <2>1, <3>1 DEF StreamIInv, SnapshotFirst
      <4> QED BY <2>1, <4>1
    <3> QED BY <3>1
  <2>4. revision[s] \in 0..MaxRev /\ e.from = revision[s] + 1
    BY <1>1, <2>1, <2>3 DEF FollowsOn, StreamTypeOK
  <2>5. points[s] = history[revision[s]]
    BY <2>3 DEF StreamIInv, PageInPast
  <2>6. e.from - 1 = revision[s] /\ e.rev \in 0..rev /\ e.rev >= revision[s]
    BY <1>1, <2>2, <2>4
  <2>7. Apply(points[s], e.changes) = history[e.rev]
    BY <2>2, <2>5, <2>6
  <2>8. points' = [points EXCEPT ![s] = Apply(points[s], e.changes)]
    BY <1>2, <1>6 DEF ConsumeTelemetry
  <2> QED BY <1>1, <1>3, <1>4, <2>6, <2>7, <2>8
<1> QED BY <1>5, <1>6

LEMMA ConsumePage ==
    ASSUME StreamIInv, NEW s \in Streams, ConsumeSnapshot(s) \/ ConsumeTelemetry(s)
    PROVE  PageInv(s)'
<1>1. [StreamNext]_vars
  BY DEF StreamNext, StreamStep, PageStep
<1> DEFINE e == wire[s][1]
<1>2. /\ wire[s] \in Seq(Event) /\ wire[s] # << >>
      /\ e.rev \in 0..rev
      /\ revision' = [revision EXCEPT ![s] = e.rev]
      /\ points' = [points EXCEPT ![s] = history[e.rev]]
      /\ wire'[s] = Tail(wire[s])
      /\ UNCHANGED <<storeVars, handlerVars, source>>
  BY ConsumeMoves
<1> HIDE DEF e
<1>3. StreamTypeOK /\ rev \in 0..MaxRev
  BY DEF StreamIInv, StreamTypeOK, TypeOK
<1>4. /\ revision'[s] = e.rev /\ points'[s] = history[e.rev]
      /\ UNCHANGED <<rev, history, batchSubs, batchQ, handler, last, pending,
                     pendingStartRevision, pendingRevision, source>>
  BY <1>2, <1>3 DEF StreamTypeOK, storeVars, handlerVars
<1>5. \A i \in DOMAIN wire'[s] :
        i \in Nat /\ i >= 1 /\ i + 1 \in DOMAIN wire[s] /\ wire'[s][i] = wire[s][i + 1]
  BY <1>2, QueueHead
<1>6. ChannelAhead(s)' /\ WindowIsDifference(s)'
  BY <1>4 DEF StreamIInv, ChannelAhead, WindowIsDifference
<1>7. WireIsTrue(s)'
  BY <1>1, <1>5, KeepWire
<1>8. PageInPast(s)'
  BY <1>2, <1>3, <1>4 DEF PageInPast
<1>9. SnapshotFirst(s)'
  <2>1. ASSUME NEW i \in DOMAIN wire'[s], wire'[s][i].type = "snapshot" PROVE FALSE
    <3>1. i + 1 \in DOMAIN wire[s] /\ wire[s][i + 1].type = "snapshot" /\ i + 1 # 1
      BY <1>5, <2>1
    <3> QED BY <3>1 DEF StreamIInv, SnapshotFirst
  <2>2. revision'[s] # NoRevision
    BY <1>2, <1>3, <1>4 DEF NoRevision
  <2> QED BY <2>1, <2>2 DEF SnapshotFirst
<1> QED BY <1>6, <1>7, <1>8, <1>9 DEF PageInv

-----------------------------------------------------------------------------
\* The stream's invariant is inductive.
LEMMA StreamStepInv ==
    ASSUME StreamIInv, [StreamNext]_vars
    PROVE  StreamIInv'
<1>1. StreamTypeOK' /\ StoreIInv'
  BY StreamStepType, StreamIsStore, StepInv DEF StreamIInv
<1>2. ASSUME NEW t \in Streams PROVE PageInv(t)'
  <2>1. CASE StoreStep
    BY <2>1, StoreStepPage
  <2>2. ASSUME NEW s \in Streams, StreamStep(s) PROVE PageInv(t)'
    <3>1. CASE t # s
      <4>1. /\ UNCHANGED <<handler[t], last[t], pending[t], pendingStartRevision[t],
                           pendingRevision[t], wire[t], source[t], points[t], revision[t]>>
            /\ t \in batchSubs' <=> t \in batchSubs
            /\ batchQ'[t] = batchQ[t]
        BY <2>2, <3>1, OtherPages
      <4>2. t \in batchSubs => \A i \in DOMAIN batchQ[t] : batchQ[t][i].rev > last[t]
        BY DEF StreamIInv, ChannelAhead
      <4> QED BY <4>1, <4>2, KeepAll
    <3>2. CASE t = s
      BY <2>2, <3>2, BootstrapPage, FoldBatchPage, ReportGapPage, FlushPage, EndPage, ConsumePage
         DEF StreamStep, PageStep
    <3> QED BY <3>1, <3>2
  <2>3. CASE UNCHANGED vars
    <3>1. t \in batchSubs => \A i \in DOMAIN batchQ[t] : batchQ[t][i].rev > last[t]
      BY DEF StreamIInv, ChannelAhead
    <3> QED BY <2>3, <3>1, KeepAll DEF vars, storeVars, streamVars, handlerVars, pageVars
  <2> QED BY <2>1, <2>2, <2>3 DEF StreamNext
<1> QED BY <1>1, <1>2 DEF StreamIInv, PageInv

LEMMA StreamInitInv == StreamInit => StreamIInv
<1> SUFFICES ASSUME StreamInit PROVE StreamIInv
  OBVIOUS
<1> USE StoreAssumption, StreamAssumption
<1>1. StoreIInv /\ TypeOK
  BY InitInv DEF StreamInit, StoreIInv
<1>2. StreamTypeOK
  <2>1. << >> \in Seq(Event) /\ [p \in Points |-> Zero] \in PointMap
    BY DEF PointMap
  <2> QED BY <1>1, <2>1, EmptyMapType DEF StreamInit, StreamTypeOK
<1>3. rev = 0 /\ batchSubs = {}
  BY DEF StreamInit, Init
<1>4. ASSUME NEW s \in Streams
      PROVE  ChannelAhead(s) /\ WindowIsDifference(s) /\ WireIsTrue(s) /\ SnapshotFirst(s) /\ PageInPast(s)
  BY <1>3, EmptyMapType DEF StreamInit, ChannelAhead, WindowIsDifference, WireIsTrue,
                            SnapshotFirst, PageInPast, NoRevision
<1> QED BY <1>1, <1>2, <1>4 DEF StreamIInv

\* The invariant of the stream, for any catalog, any number of writers and
\* pages, any buffer sizes and any number of broken connections.
THEOREM StreamCorrect == StreamSpec => []StreamIInv
BY StreamInitInv, StreamStepInv, PTL DEF StreamSpec

\* A page never shows a mixture of two states of the store.
THEOREM PageShowsOneRevisionAlways == StreamSpec => []PageShowsOneRevision
<1>1. StreamIInv => PageShowsOneRevision
  BY DEF StreamIInv, PageInPast, PageShowsOneRevision
<1> QED BY <1>1, StreamCorrect, PTL

-----------------------------------------------------------------------------
\* A step of the stream is a step of ConsistentView, or leaves its variables
\* alone.
LEMMA StepRefines ==
    ASSUME StreamIInv, StreamIInv', [StreamNext]_vars
    PROVE  [View!Next]_View!vars
<1> USE StoreAssumption DEF View!vars
<1>1. TypeOK /\ TypeOK' /\ StreamTypeOK
  BY DEF StreamIInv, StreamTypeOK
<1>2. CASE StoreStep
  <2>1. UNCHANGED <<points, revision>>
    BY <1>2 DEF StoreStep, streamVars, pageVars
  <2>2. ASSUME NEW w \in Writers, Mutate(w) PROVE View!Commit
    <3>1. PICK changes \in PartialMap : CommitLocked(w, changes)
      BY <1>1, <2>2, MutateCommits
    <3>2. Apply(values, changes) \in PointMap
      BY <1>1, ApplyType DEF TypeOK
    <3> QED BY <2>1, <3>1, <3>2 DEF CommitLocked, View!Commit
  <2>3. ASSUME NEW w \in Writers, publish(w) PROVE UNCHANGED <<rev, history>>
    BY <2>3 DEF publish
  <2> QED BY <1>2, <2>1, <2>2, <2>3 DEF StoreStep, View!Next
<1>3. ASSUME NEW s \in Streams, ConsumeSnapshot(s) \/ ConsumeTelemetry(s)
      PROVE  View!Observe(s)
  <2>1. /\ wire[s][1].rev \in 0..rev /\ wire[s][1].rev >= revision[s]
        /\ revision' = [revision EXCEPT ![s] = wire[s][1].rev]
        /\ points' = [points EXCEPT ![s] = history[wire[s][1].rev]]
        /\ UNCHANGED storeVars
    BY <1>3, ConsumeMoves
  <2>2. UNCHANGED <<rev, history>>
    BY <2>1 DEF storeVars
  <2> QED BY <2>1, <2>2 DEF View!Observe
<1>4. ASSUME NEW s \in Streams, Bootstrap(s) \/ FoldBatch(s) \/ ReportGap(s) \/ flushTelemetry(s)
      PROVE  UNCHANGED <<rev, history, points, revision>>
  BY <1>4 DEF Bootstrap, FoldBatch, ReportGap, flushTelemetry, subscribeBatchesLocked,
              ReceiveBatch, unsubscribeBatches, storeVars, pageVars
<1>5. ASSUME NEW s \in Streams, TransportError(s) \/ CloseAndReconnect(s)
      PROVE  UNCHANGED <<rev, history, points, revision>>
  <2>1. EndHandler(s) /\ UNCHANGED <<points, revision>>
    BY <1>5 DEF TransportError, CloseAndReconnect
  <2> QED BY <2>1 DEF EndHandler, unsubscribeBatches, storeVars
<1>6. CASE UNCHANGED vars
  BY <1>6 DEF vars, storeVars, streamVars, pageVars
<1> QED
  BY <1>2, <1>3, <1>4, <1>5, <1>6 DEF StreamNext, StreamStep, PageStep, View!Next

\* The store, the event handler, the connection and the page together implement
\* ConsistentView: the page sees a subsequence of the store's states, in order.
THEOREM StreamImplementsConsistentView == StreamSpec => PageIsConsistentView
<1>1. StreamInit => View!Init
  BY StoreAssumption DEF StreamInit, Init, View!Init, PointMap, NoRevision
<1>2. StreamIInv /\ StreamIInv' /\ [StreamNext]_vars => [View!Next]_View!vars
  BY StepRefines
<1> QED BY <1>1, <1>2, StreamCorrect, PTL DEF StreamSpec, PageIsConsistentView, View!Spec

(***************************************************************************)
(* The rare-event half of the same connection.                             *)
(***************************************************************************)
\* A set of numbers has a smallest one.
LEMMA Smallest ==
    ASSUME NEW T, T \subseteq Nat, T # {}
    PROVE  \E x \in T : \A y \in T : x <= y
<1>1. PICK x \in T : \A y \in T : ~ (<<y, x>> \in OpToRel(<, Nat))
  BY NatLessThanWellFounded, WFMin
<1>2. \A y \in T : ~ (y < x)
  BY <1>1 DEF OpToRel
<1>3. x \in Nat /\ \A y \in T : y \in Nat
  OBVIOUS
<1>4. \A y \in T : x <= y
  BY ONLY <1>2, <1>3
<1> QED
  BY <1>4

\* What the scan has kept of the first i events.
Scan(s, from, kept, n) ==
    [i \in 0 .. n |-> IF i = 0 THEN << >>
                      ELSE IF s[i] > from THEN Append(kept[i - 1], s[i]) ELSE kept[i - 1]]

\* The scan is well defined.
LEMMA ScanExists ==
    ASSUME NEW s, NEW from
    PROVE  \A n \in Nat : \E kept : kept = Scan(s, from, kept, n)
<1> DEFINE Scans(n) == \E kept : kept = Scan(s, from, kept, n)
           Bad == {n \in Nat : ~ Scans(n)}
<1>1. SUFFICES Bad = {}
  OBVIOUS
<1>2. SUFFICES ASSUME Bad # {} PROVE FALSE
  OBVIOUS
<1>3. PICK n \in Bad : \A m \in Bad : n <= m
  BY <1>2, Smallest
<1>4. n \in Nat /\ ~ Scans(n)
  OBVIOUS
<1>5. CASE n = 0
  <2> DEFINE none == [i \in 0 .. 0 |-> << >>]
  <2>1. none = Scan(s, from, none, 0)
    BY DEF Scan
  <2> QED BY <2>1, <1>4, <1>5
<1>6. CASE n # 0
  <2>1. n - 1 \in Nat /\ n - 1 < n /\ n - 1 \notin Bad
    BY <1>3, <1>4, <1>6
  <2>2. Scans(n - 1)
    BY <2>1
  <2>3. PICK old : old = Scan(s, from, old, n - 1)
    BY <2>2
  <2> DEFINE new == [i \in 0 .. n |-> IF i < n THEN old[i]
                                     ELSE IF s[n] > from THEN Append(old[n - 1], s[n]) ELSE old[n - 1]]
  <2>4. \A i \in 0 .. n - 1 : old[i] = Scan(s, from, old, n - 1)[i]
    BY <2>3
  <2>5. \A i \in 0 .. n : new[i] = Scan(s, from, new, n)[i]
    <3> TAKE i \in 0 .. n
    <3>1. CASE i = 0
      BY <3>1, <1>6, <2>4, <1>4 DEF Scan
    <3>2. CASE i # 0 /\ i < n
      <4>1. i \in 0 .. n - 1 /\ i - 1 \in 0 .. n - 1 /\ i - 1 \in 0 .. n /\ i - 1 < n
        BY <3>2, <1>4
      <4>2. old[i] = IF s[i] > from THEN Append(old[i - 1], s[i]) ELSE old[i - 1]
        BY <3>2, <4>1, <2>4 DEF Scan
      <4>3. new[i] = old[i] /\ new[i - 1] = old[i - 1]
        BY <3>2, <4>1
      <4> HIDE DEF new
      <4> QED BY <3>2, <4>2, <4>3 DEF Scan
    <3>3. CASE i = n
      <4>1. n - 1 \in 0 .. n /\ n - 1 < n /\ ~ (n < n) /\ n \in 0 .. n
        BY <1>4, <1>6
      <4>2. new[n - 1] = old[n - 1]
            /\ new[n] = IF s[n] > from THEN Append(old[n - 1], s[n]) ELSE old[n - 1]
        BY <4>1
      <4> HIDE DEF new
      <4> QED BY <3>3, <4>1, <4>2, <1>6 DEF Scan
    <3> QED BY <3>1, <3>2, <3>3, <1>4
  <2>6. new = Scan(s, from, new, n)
    BY <2>5 DEF Scan
  <2> HIDE DEF new
  <2> QED BY <2>6, <1>4
<1> QED BY <1>4, <1>5, <1>6

LEMMA AfterScans ==
    ASSUME NEW s \in Seq(Nat), NEW from \in Nat
    PROVE  \E kept : kept = Scan(s, from, kept, Len(s)) /\ after(s, from) = kept[Len(s)]
<1>1. \E kept : kept = Scan(s, from, kept, Len(s))
  <2>1. Len(s) \in Nat
    OBVIOUS
  <2> QED BY <2>1, ScanExists
<1> DEFINE k == CHOOSE kept : kept = Scan(s, from, kept, Len(s))
<1>2. k = Scan(s, from, k, Len(s))
  BY <1>1
<1>3. after(s, from) = k[Len(s)]
  BY DEF after, Scan
<1> QED BY <1>2, <1>3

LEMMA IdsAreNumbers ==
    ASSUME NEW s \in Seq(Nat)
    PROVE  ids(s) \subseteq Nat
<1>1. \A i \in DOMAIN s : s[i] \in Nat
  OBVIOUS
<1> QED BY <1>1 DEF ids

LEMMA IdsOfAppend ==
    ASSUME NEW s \in Seq(Nat), NEW x \in Nat
    PROVE  ids(Append(s, x)) = ids(s) \cup {x}
<1> DEFINE a == Append(s, x)
<1>1. /\ DOMAIN a = 1 .. Len(s) + 1 /\ DOMAIN s = 1 .. Len(s) /\ Len(s) \in Nat
      /\ a[Len(s) + 1] = x /\ \A i \in 1 .. Len(s) : a[i] = s[i]
  OBVIOUS
<1> HIDE DEF a
<1>2. Len(s) + 1 \in DOMAIN a /\ DOMAIN s \subseteq DOMAIN a
  BY <1>1
<1>3. \A i \in DOMAIN a : i = Len(s) + 1 \/ i \in DOMAIN s
  BY <1>1
<1>4. ids(a) = ids(s) \cup {x}
  BY <1>1, <1>2, <1>3 DEF ids
<1> QED BY <1>4 DEF a

\* The scan returns what is later, once and in order.
LEMMA AfterIsLater ==
    ASSUME NEW s \in Seq(Nat), NEW from \in Nat, ascending(s)
    PROVE  /\ after(s, from) \in Seq(Nat)
           /\ ascending(after(s, from))
           /\ ids(after(s, from)) = {x \in ids(s) : from < x}
<1> PICK kept : kept = Scan(s, from, kept, Len(s)) /\ after(s, from) = kept[Len(s)]
  BY AfterScans
<1> DEFINE Later(n) == {s[j] : j \in {m \in 1 .. n : from < s[m]}}
           Good(n) == /\ kept[n] \in Seq(Nat) /\ ascending(kept[n])
                      /\ ids(kept[n]) = Later(n)
           Bad == {n \in 0 .. Len(s) : ~ Good(n)}
<1>1. \A n \in 0 .. Len(s) :
          kept[n] = IF n = 0 THEN << >>
                    ELSE IF s[n] > from THEN Append(kept[n - 1], s[n]) ELSE kept[n - 1]
  BY DEF Scan
<1>2. ASSUME Bad # {} PROVE FALSE
  <2>1. PICK n \in Bad : \A m \in Bad : n <= m
    <3>1. Bad \subseteq Nat
      OBVIOUS
    <3> HIDE DEF Bad
    <3> QED BY <1>2, <3>1, Smallest
  <2>2. n \in 0 .. Len(s) /\ ~ Good(n) /\ Len(s) \in Nat
    OBVIOUS
  <2>3. CASE n = 0
    <3>1. kept[0] = << >>
      BY <1>1, <2>2
    <3>2. Later(0) = {}
      OBVIOUS
    <3>3. ids(<< >>) = {} /\ ascending(<< >>) /\ << >> \in Seq(Nat)
      BY DEF ids, ascending
    <3> QED BY <2>2, <2>3, <3>1, <3>2, <3>3
  <2>4. CASE n # 0
    <3>1. n - 1 \in 0 .. Len(s) /\ n \in 1 .. Len(s) /\ n \in DOMAIN s
      BY <2>2, <2>4
    <3>2. n - 1 \notin Bad
      <4>1. ~ (n <= n - 1)
        BY <3>1
      <4> HIDE DEF Bad
      <4> QED BY <2>1, <4>1
    <3>3. Good(n - 1)
      BY <3>1, <3>2
    <3> DEFINE k == kept[n - 1]
    <3>4. k \in Seq(Nat) /\ ascending(k) /\ ids(k) = Later(n - 1)
      BY <3>3
    <3>5. s[n] \in Nat
      BY <3>1
    <3> HIDE DEF k
    <3>6. CASE s[n] > from
      <4>1. kept[n] = Append(k, s[n])
        BY <1>1, <2>2, <2>4, <3>6 DEF k
      <4>2. Later(n) = Later(n - 1) \cup {s[n]}
        BY <3>1, <3>5, <3>6
      <4>3. \A x \in Later(n - 1) : x < s[n]
        BY <3>1 DEF ascending
      <4>4. \A i \in DOMAIN k : k[i] < s[n]
        BY <3>4, <4>3 DEF ids
      <4>5. Append(k, s[n]) \in Seq(Nat) /\ ascending(Append(k, s[n]))
        BY <3>4, <3>5, <4>4 DEF ascending
      <4>6. ids(Append(k, s[n])) = ids(k) \cup {s[n]}
        BY <3>4, <3>5, IdsOfAppend
      <4> HIDE DEF Later
      <4> QED BY <2>2, <3>4, <4>1, <4>2, <4>5, <4>6
    <3>7. CASE ~ (s[n] > from)
      <4>1. kept[n] = k
        BY <1>1, <2>2, <2>4, <3>7 DEF k
      <4>2. \A m \in 1 .. n : m \in 1 .. n - 1 \/ m = n
        BY <3>1
      <4>3. (\A m \in 1 .. n - 1 : m \in 1 .. n) /\ ~ (from < s[n])
        BY <3>1, <3>5, <3>7
      <4>4. \A x : x \in Later(n) <=> x \in Later(n - 1)
        BY <4>2, <4>3
      <4> HIDE DEF Later
      <4> QED BY <2>2, <3>4, <4>1, <4>4
    <3> QED BY <3>6, <3>7
  <2> QED BY <2>3, <2>4
<1>3. Len(s) \in 0 .. Len(s)
  OBVIOUS
<1>4. Good(Len(s))
  BY <1>2, <1>3
<1>5. Later(Len(s)) = {x \in ids(s) : from < x}
  BY DEF ids
<1> QED BY <1>4, <1>5

Kinds == {"snapshot", "resync_required", "rare", "initial_replay_complete", "telemetry"}
Frames == [type : Kinds, id : Nat]

RareIn(w) == {i \in DOMAIN w : w[i].type = "rare"}
SentIn(w) == {w[i].id : i \in RareIn(w)}
InOrder(w) == \A i, j \in RareIn(w) : i < j => w[i].id < w[j].id

\* The rare events on the wire after a frame is written, and after one is taken.
LEMMA RareAppended ==
    ASSUME NEW w \in Seq(Frames), NEW f \in Frames
    PROVE  /\ Append(w, f) \in Seq(Frames)
           /\ SentIn(Append(w, f)) = IF f.type = "rare" THEN SentIn(w) \cup {f.id} ELSE SentIn(w)
           /\ InOrder(w) /\ (f.type = "rare" => \A x \in SentIn(w) : x < f.id)
                  => InOrder(Append(w, f))
<1> DEFINE a == Append(w, f)
           n == Len(w) + 1
<1>1. /\ DOMAIN a = 1 .. n /\ DOMAIN w = 1 .. Len(w) /\ Len(w) \in Nat
      /\ a[n] = f /\ \A i \in 1 .. Len(w) : a[i] = w[i]
  OBVIOUS
<1>2. a \in Seq(Frames)
  OBVIOUS
<1> HIDE DEF a
<1>3. n \in DOMAIN a /\ DOMAIN w \subseteq DOMAIN a /\ n \notin DOMAIN w
      /\ \A i \in DOMAIN a : i = n \/ i \in DOMAIN w
  BY <1>1
<1>4. \A i \in DOMAIN w : a[i] = w[i] /\ i < n
  BY <1>1
<1>5. a[n] = f
  BY <1>1
<1> HIDE DEF n
<1>6. RareIn(a) = IF f.type = "rare" THEN RareIn(w) \cup {n} ELSE RareIn(w)
  BY <1>3, <1>4, <1>5 DEF RareIn
<1>7. RareIn(w) \subseteq DOMAIN w
  BY DEF RareIn
<1>8. SentIn(a) = IF f.type = "rare" THEN SentIn(w) \cup {f.id} ELSE SentIn(w)
  BY <1>4, <1>5, <1>6, <1>7 DEF SentIn
<1>9. ASSUME InOrder(w), f.type = "rare" => \A x \in SentIn(w) : x < f.id
      PROVE  InOrder(a)
  <2>1. SUFFICES ASSUME NEW i \in RareIn(a), NEW j \in RareIn(a), i < j
                 PROVE  a[i].id < a[j].id
    BY DEF InOrder
  <2>2. CASE j \in RareIn(w) /\ i \in RareIn(w)
    BY <1>4, <1>7, <1>9, <2>1, <2>2 DEF InOrder
  <2>3. CASE j = n /\ i \in RareIn(w) /\ f.type = "rare"
    <3>1. a[i].id \in SentIn(w) /\ a[j].id = f.id
      BY <1>4, <1>5, <1>7, <2>3 DEF SentIn
    <3> QED BY <1>9, <2>3, <3>1
  <2>4. ~ (i = n)
    BY <1>1, <2>1 DEF n, RareIn
  <2> QED BY <1>6, <2>1, <2>2, <2>3, <2>4
<1> QED BY <1>2, <1>8, <1>9 DEF a

LEMMA RareTaken ==
    ASSUME NEW w \in Seq(Frames), w # << >>
    PROVE  /\ Head(w) \in Frames /\ Tail(w) \in Seq(Frames)
           /\ SentIn(w) = IF Head(w).type = "rare" THEN SentIn(Tail(w)) \cup {Head(w).id}
                          ELSE SentIn(Tail(w))
           /\ InOrder(w) => /\ InOrder(Tail(w))
                            /\ Head(w).type = "rare" => \A x \in SentIn(Tail(w)) : Head(w).id < x
<1> DEFINE t == Tail(w)
<1>1. /\ Head(w) = w[1] /\ 1 \in DOMAIN w /\ DOMAIN w = 1 .. Len(w) /\ Len(w) \in Nat
      /\ DOMAIN t = 1 .. Len(w) - 1 /\ \A i \in 1 .. Len(w) - 1 : t[i] = w[i + 1]
  OBVIOUS
<1>2. Head(w) \in Frames /\ t \in Seq(Frames)
  OBVIOUS
<1> HIDE DEF t
<1>3. \A i \in DOMAIN t : i + 1 \in DOMAIN w /\ t[i] = w[i + 1] /\ 1 < i + 1
  BY <1>1
<1>4. \A i \in DOMAIN w : i = 1 \/ (i - 1 \in DOMAIN t /\ w[i] = t[i - 1])
  BY <1>1
<1>5. RareIn(t) \subseteq DOMAIN t /\ \A i \in RareIn(t) : i + 1 \in RareIn(w)
  BY <1>3 DEF RareIn
<1>6. \A i \in RareIn(w) : (i = 1 /\ w[1].type = "rare") \/ (i - 1 \in RareIn(t) /\ w[i] = t[i - 1])
  BY <1>4 DEF RareIn
<1>7. w[1].type = "rare" => 1 \in RareIn(w)
  BY <1>1 DEF RareIn
<1>8. \A x : x \in SentIn(t) => x \in SentIn(w)
  BY <1>3, <1>5 DEF SentIn
<1>9. \A x : x \in SentIn(w) => x \in SentIn(t) \/ (w[1].type = "rare" /\ x = w[1].id)
  BY <1>6 DEF SentIn
<1>10. w[1].type = "rare" => w[1].id \in SentIn(w)
  BY <1>7 DEF SentIn
<1>11. SentIn(w) = IF Head(w).type = "rare" THEN SentIn(t) \cup {Head(w).id} ELSE SentIn(t)
  BY <1>1, <1>8, <1>9, <1>10
<1>12. ASSUME InOrder(w) PROVE InOrder(t)
  <2>1. SUFFICES ASSUME NEW i \in RareIn(t), NEW j \in RareIn(t), i < j
                 PROVE  t[i].id < t[j].id
    BY DEF InOrder
  <2>2. i + 1 < j + 1
    BY <1>1, <1>5, <2>1
  <2> QED BY <1>3, <1>5, <1>12, <2>1, <2>2 DEF InOrder
<1>13. ASSUME InOrder(w), w[1].type = "rare" PROVE \A x \in SentIn(t) : w[1].id < x
  <2>1. SUFFICES ASSUME NEW i \in RareIn(t) PROVE w[1].id < t[i].id
    BY DEF SentIn
  <2> QED BY <1>3, <1>5, <1>7, <1>13 DEF InOrder
<1> QED BY <1>1, <1>2, <1>11, <1>12, <1>13 DEF t

\* What a new subscription is sent before its channel.
LEMMA RareBootstrapped ==
    ASSUME NEW r \in Seq(Nat), NEW w, ascending(r),
           w = << Frame("snapshot", 0) >> \o
                   ([i \in DOMAIN r |-> Frame("rare", r[i])]
                       \o << Frame("initial_replay_complete", 0) >>)
    PROVE  /\ w \in Seq(Frames) /\ InOrder(w) /\ SentIn(w) = ids(r)
           /\ \A i \in DOMAIN w : w[i].type # "resync_required"
<1> DEFINE m == [i \in DOMAIN r |-> Frame("rare", r[i])]
           snap == Frame("snapshot", 0)
           mark == Frame("initial_replay_complete", 0)
<1>1. snap \in Frames /\ mark \in Frames /\ \A i \in DOMAIN r : Frame("rare", r[i]) \in Frames
  BY DEF Frame, Frames, Kinds
<1>2. m \in Seq(Frames) /\ Len(m) = Len(r) /\ DOMAIN m = DOMAIN r /\ DOMAIN r = 1 .. Len(r)
      /\ Len(r) \in Nat /\ \A i \in DOMAIN r : m[i] = Frame("rare", r[i])
  <2>1. DOMAIN r = 1 .. Len(r) /\ Len(r) \in Nat
    OBVIOUS
  <2>2. m \in [1 .. Len(r) -> Frames]
    BY <1>1, <2>1
  <2>3. m \in Seq(Frames)
    BY <2>1, <2>2
  <2>4. DOMAIN m = 1 .. Len(r) /\ \A i \in DOMAIN r : m[i] = Frame("rare", r[i])
    BY <2>1
  <2>5. Len(m) = Len(r)
    BY <2>1, <2>3, <2>4, LenProperties
  <2> QED BY <2>1, <2>3, <2>4, <2>5
<1>3. snap.type = "snapshot" /\ mark.type = "initial_replay_complete"
      /\ \A i \in DOMAIN r : m[i].type = "rare" /\ m[i].id = r[i]
  BY <1>2 DEF Frame
<1> HIDE DEF m, snap, mark
<1>4. w = << snap >> \o (m \o << mark >>)
  BY DEF m, snap, mark
<1>5. w \in Seq(Frames) /\ DOMAIN w = 1 .. Len(r) + 2
      /\ w[1] = snap /\ w[Len(r) + 2] = mark /\ \A i \in 1 .. Len(r) : w[i + 1] = m[i]
  <2> DEFINE rest == m \o << mark >>
  <2>1. << snap >> \in Seq(Frames) /\ << mark >> \in Seq(Frames)
    BY <1>1
  <2>2. rest \in Seq(Frames) /\ Len(rest) = Len(r) + 1
        /\ rest[Len(r) + 1] = mark /\ \A i \in 1 .. Len(r) : rest[i] = m[i]
    BY <1>1, <1>2, <2>1
  <2> HIDE DEF rest
  <2>3. w = << snap >> \o rest
    BY <1>4 DEF rest
  <2>4. w \in Seq(Frames) /\ Len(w) = Len(r) + 2 /\ w[1] = snap
        /\ \A i \in 1 .. Len(r) + 1 : w[i + 1] = rest[i]
    BY <1>1, <1>2, <2>1, <2>2, <2>3
  <2>5. DOMAIN w = 1 .. Len(r) + 2 /\ Len(r) + 1 \in 1 .. Len(r) + 1
        /\ (Len(r) + 1) + 1 = Len(r) + 2 /\ \A i \in 1 .. Len(r) : i \in 1 .. Len(r) + 1
    BY <1>2, <2>4
  <2>6. w[Len(r) + 2] = mark
    BY <2>2, <2>4, <2>5
  <2> QED BY <2>2, <2>4, <2>5, <2>6
<1>6. \A i \in DOMAIN w : i \in Int /\ (i = 1 \/ i = Len(r) + 2 \/ (i - 1 \in DOMAIN r /\ w[i] = m[i - 1]))
  <2> TAKE i \in DOMAIN w
  <2>1. i \in 1 .. Len(r) + 2
    BY <1>5
  <2>2. i = 1 \/ i = Len(r) + 2 \/ (i - 1 \in 1 .. Len(r) /\ (i - 1) + 1 = i)
    BY <1>2, <2>1
  <2> QED BY <1>2, <1>5, <2>1, <2>2
<1>7. \A i \in RareIn(w) : i \in Int /\ i - 1 \in DOMAIN r /\ w[i].id = r[i - 1]
  BY <1>3, <1>5, <1>6 DEF RareIn
<1>8. \A i \in DOMAIN r : i + 1 \in RareIn(w) /\ w[i + 1].id = r[i]
  BY <1>2, <1>3, <1>5 DEF RareIn
<1>9. SentIn(w) = ids(r)
  <2>1. \A x : x \in SentIn(w) => x \in ids(r)
    BY <1>7 DEF SentIn, ids
  <2>2. \A x : x \in ids(r) => x \in SentIn(w)
    BY <1>8 DEF SentIn, ids
  <2> QED BY <2>1, <2>2
<1>10. InOrder(w)
  <2>1. SUFFICES ASSUME NEW i \in RareIn(w), NEW j \in RareIn(w), i < j
                 PROVE  w[i].id < w[j].id
    BY DEF InOrder
  <2>2. i \in Int /\ j \in Int /\ i - 1 \in DOMAIN r /\ j - 1 \in DOMAIN r
        /\ w[i].id = r[i - 1] /\ w[j].id = r[j - 1]
    BY <1>7
  <2>3. i - 1 < j - 1
    BY ONLY <2>1, <2>2
  <2> QED BY <2>2, <2>3 DEF ascending
<1>11. \A i \in DOMAIN w : w[i].type # "resync_required"
  BY <1>3, <1>5, <1>6
<1> QED BY <1>5, <1>9, <1>10, <1>11

ResyncIn(w) == {i \in DOMAIN w : w[i].type = "resync_required"}
ResyncFirst(w) == \A i \in ResyncIn(w), j \in RareIn(w) : i < j

LEMMA ResyncAppended ==
    ASSUME NEW w \in Seq(Frames), NEW f \in Frames, f.type # "resync_required", ResyncFirst(w)
    PROVE  ResyncFirst(Append(w, f)) /\ (ResyncIn(Append(w, f)) # {} => ResyncIn(w) # {})
<1> DEFINE a == Append(w, f)
           n == Len(w) + 1
<1>1. /\ DOMAIN a = 1 .. n /\ DOMAIN w = 1 .. Len(w) /\ Len(w) \in Nat
      /\ a[n] = f /\ \A i \in 1 .. Len(w) : a[i] = w[i]
  OBVIOUS
<1> HIDE DEF a
<1>2. \A i \in DOMAIN a : i = n \/ (i \in DOMAIN w /\ a[i] = w[i] /\ i < n)
  BY <1>1
<1>3. \A i \in ResyncIn(a) : i \in ResyncIn(w) /\ i < n
  BY <1>1, <1>2 DEF ResyncIn
<1>4. \A j \in RareIn(a) : j = n \/ j \in RareIn(w)
  BY <1>2 DEF RareIn
<1> QED BY <1>3, <1>4 DEF ResyncFirst, a

LEMMA ResyncTaken ==
    ASSUME NEW w \in Seq(Frames), w # << >>, ResyncFirst(w)
    PROVE  /\ ResyncFirst(Tail(w)) /\ (ResyncIn(Tail(w)) # {} => ResyncIn(w) # {})
           /\ Head(w).type = "resync_required" => ResyncIn(w) # {}
           /\ Head(w).type = "rare" => ResyncIn(w) = {}
<1> DEFINE t == Tail(w)
<1>1. /\ Head(w) = w[1] /\ 1 \in DOMAIN w /\ DOMAIN w = 1 .. Len(w) /\ Len(w) \in Nat
      /\ DOMAIN t = 1 .. Len(w) - 1 /\ \A i \in 1 .. Len(w) - 1 : t[i] = w[i + 1]
  OBVIOUS
<1> HIDE DEF t
<1>2. \A i \in DOMAIN t : i \in Int /\ i + 1 \in DOMAIN w /\ t[i] = w[i + 1]
  BY <1>1
<1>3. \A i \in ResyncIn(t) : i \in Int /\ i + 1 \in ResyncIn(w)
  BY <1>2 DEF ResyncIn
<1>4. \A i \in RareIn(t) : i \in Int /\ i + 1 \in RareIn(w)
  BY <1>2 DEF RareIn
<1>5. ResyncFirst(t)
  <2>1. SUFFICES ASSUME NEW i \in ResyncIn(t), NEW j \in RareIn(t) PROVE i < j
    BY DEF ResyncFirst
  <2>2. i \in Int /\ j \in Int /\ i + 1 < j + 1
    BY <1>3, <1>4 DEF ResyncFirst
  <2> QED BY <2>2
<1>6. w[1].type = "resync_required" => 1 \in ResyncIn(w)
  BY <1>1 DEF ResyncIn
<1>7. ASSUME w[1].type = "rare", NEW i \in ResyncIn(w) PROVE FALSE
  <2>1. 1 \in RareIn(w)
    BY <1>1, <1>7 DEF RareIn
  <2>2. i \in 1 .. Len(w) /\ i < 1
    BY <1>1, <2>1 DEF ResyncFirst, ResyncIn
  <2> QED BY <1>1, <2>2
<1> QED BY <1>1, <1>3, <1>5, <1>6, <1>7 DEF t

LEMMA AscendingAppended ==
    ASSUME NEW s \in Seq(Nat), NEW x \in Nat, ascending(s), \A y \in ids(s) : y < x
    PROVE  Append(s, x) \in Seq(Nat) /\ ascending(Append(s, x))
<1>1. \A i \in DOMAIN s : s[i] < x
  BY DEF ids
<1> QED BY <1>1 DEF ascending

LEMMA AscendingTaken ==
    ASSUME NEW s \in Seq(Nat), s # << >>
    PROVE  /\ Head(s) \in Nat /\ Tail(s) \in Seq(Nat)
           /\ ids(s) = ids(Tail(s)) \cup {Head(s)}
           /\ ascending(s) => /\ ascending(Tail(s))
                                  /\ \A y \in ids(Tail(s)) : Head(s) < y
<1> DEFINE t == Tail(s)
<1>1. /\ Head(s) = s[1] /\ 1 \in DOMAIN s /\ DOMAIN s = 1 .. Len(s) /\ Len(s) \in Nat
      /\ DOMAIN t = 1 .. Len(s) - 1 /\ \A i \in 1 .. Len(s) - 1 : t[i] = s[i + 1]
      /\ Head(s) \in Nat /\ t \in Seq(Nat)
  OBVIOUS
<1> HIDE DEF t
<1>2. \A i \in DOMAIN t : i \in Int /\ i + 1 \in DOMAIN s /\ t[i] = s[i + 1] /\ 1 < i + 1
  BY <1>1
<1>3. \A i \in DOMAIN s : i = 1 \/ (i - 1 \in DOMAIN t /\ s[i] = t[i - 1])
  BY <1>1
<1>4. \A x : x \in ids(t) => x \in ids(s)
  BY <1>2 DEF ids
<1>5. \A x : x \in ids(s) => x \in ids(t) \/ x = s[1]
  BY <1>3 DEF ids
<1>6. s[1] \in ids(s)
  BY <1>1 DEF ids
<1>7. ids(s) = ids(t) \cup {s[1]}
  BY <1>4, <1>5, <1>6
<1>8. ASSUME ascending(s) PROVE ascending(t)
  <2>1. SUFFICES ASSUME NEW i \in DOMAIN t, NEW j \in DOMAIN t, i < j PROVE t[i] < t[j]
    BY DEF ascending
  <2>2. i + 1 < j + 1
    BY <1>2, <2>1
  <2> QED BY <1>2, <1>8, <2>2 DEF ascending
<1>9. ASSUME ascending(s) PROVE \A y \in ids(t) : s[1] < y
  BY <1>1, <1>2, <1>9 DEF ascending, ids
<1> QED BY <1>1, <1>7, <1>8, <1>9 DEF t

\* The newest is the last.
LEMMA NewestIsLast ==
    ASSUME NEW s \in Seq(Nat), ascending(s)
    PROVE  Newest(s) \in Nat /\ \A y \in ids(s) : ~ (Newest(s) < y)
<1>1. CASE s = << >>
  BY <1>1 DEF Newest, ids
<1>2. CASE s # << >>
  <2>1. Newest(s) = s[Len(s)] /\ Len(s) \in DOMAIN s /\ DOMAIN s = 1 .. Len(s) /\ Len(s) \in Nat
    BY <1>2 DEF Newest
  <2>2. \A i \in DOMAIN s : s[i] \in Nat /\ i \in Nat /\ (i = Len(s) \/ i < Len(s))
    BY <2>1
  <2>3. \A i \in DOMAIN s : ~ (s[Len(s)] < s[i])
    BY <2>1, <2>2 DEF ascending
  <2> QED BY <2>1, <2>2, <2>3 DEF ids
<1> QED BY <1>1, <1>2

\* A rare with channel q and frames w under way misses nothing of events.
Gapless(w, q, events, got, since) ==
    LET onWay == SentIn(w) \cup ids(q) IN
    /\ InOrder(w) /\ ascending(q)
    /\ \A x \in SentIn(w), y \in ids(q) : x < y
    /\ onWay \subseteq ids(events)
    /\ \A x \in onWay, y \in ids(events) : x < y => y \in onWay
    /\ \A y \in ids(events) : since < y => y \in ids(got) \cup onWay

\* One seen to resynchronise has not been sent any rare event yet, and all since
\* its subscription is still to come.
ResyncInv(open, w, q, events, since) ==
    /\ ResyncFirst(w)
    /\ open /\ ResyncIn(w) # {} =>
           \A y \in ids(events) : since < y => y \in SentIn(w) \cup ids(q)

\* The journal is the newest end of what published.
JournalInv(old, events, id) ==
    /\ ascending(events) /\ \A y \in ids(events) : 0 < y /\ y <= id
    /\ ascending(old) /\ ids(old) \subseteq ids(events)
    /\ \A x \in ids(old), y \in ids(events) : x < y => y \in ids(old)
    /\ old = << >> => events = << >>

HubType ==
    /\ next \in Nat /\ lastID \in Nat /\ through \in Nat
    /\ journal \in Seq(Nat) /\ published \in Seq(Nat) /\ seen \in Seq(Nat)
    /\ rare \in [open : BOOLEAN, queue : Seq(Nat)]
    /\ frames \in Seq(Frames)

HubIInv ==
    /\ HubType
    /\ JournalInv(journal, published, next)
    /\ rare.open => Gapless(frames, rare.queue, published, seen, through)
    /\ ResyncInv(rare.open, frames, rare.queue, published, through)

Trimmed(s, size) == IF Len(s) > size THEN Tail(s) ELSE s

LEMMA JournalGrows ==
    ASSUME NEW old \in Seq(Nat), NEW events \in Seq(Nat), NEW id \in Nat, NEW size \in Nat \ {0},
           JournalInv(old, events, id)
    PROVE  /\ Trimmed(Append(old, id + 1), size) \in Seq(Nat) /\ Append(events, id + 1) \in Seq(Nat)
           /\ ids(Append(events, id + 1)) = ids(events) \cup {id + 1}
           /\ JournalInv(Trimmed(Append(old, id + 1), size), Append(events, id + 1), id + 1)
<1> DEFINE x == id + 1
           all == Append(old, x)
           new == Trimmed(all, size)
           grown == Append(events, x)
<1>1. x \in Nat /\ 0 < x /\ (\A y \in ids(events) : y \in Nat /\ y < x /\ y <= x) /\ x <= x
      /\ ~ (x < x)
  <2>1. \A y \in ids(events) : y \in Nat /\ y <= id
    BY IdsAreNumbers DEF JournalInv
  <2> QED BY <2>1
<1>2. \A y \in ids(old) : y < x
  BY <1>1 DEF JournalInv
<1> HIDE DEF x
<1>3. /\ all \in Seq(Nat) /\ ascending(all) /\ ids(all) = ids(old) \cup {x}
      /\ grown \in Seq(Nat) /\ ascending(grown) /\ ids(grown) = ids(events) \cup {x}
  BY <1>1, <1>2, AscendingAppended, IdsOfAppend DEF JournalInv
<1>4. all # << >> /\ Len(all) = Len(old) + 1 /\ Len(old) \in Nat
  <2>1. Len(all) = Len(old) + 1 /\ Len(old) \in Nat /\ Len(<< >>) = 0
    BY <1>1
  <2>2. Len(all) # 0
    BY <2>1
  <2> HIDE DEF all
  <2> QED BY <2>1, <2>2
<1>5. new = IF Len(all) > size THEN Tail(all) ELSE all
  BY DEF Trimmed
<1> HIDE DEF all, grown, new
<1>6. \A y \in ids(grown) : 0 < y /\ y <= x
  BY <1>1, <1>3 DEF JournalInv
<1>7. ids(all) \subseteq ids(grown)
      /\ \A a \in ids(all), y \in ids(grown) : a < y => y \in ids(all)
  <2>1. ids(all) \subseteq ids(grown)
    BY <1>3 DEF JournalInv
  <2>2. SUFFICES ASSUME NEW a \in ids(all), NEW y \in ids(grown), a < y
                 PROVE  y \in ids(all)
    BY <2>1
  <2>3. CASE y = x
    BY <1>3, <2>3
  <2>4. CASE y \in ids(events)
    <3>1. y \in Nat /\ x \in Nat /\ y < x
      BY <1>1, <2>4
    <3>2. a # x
      BY <2>2, <3>1
    <3> QED BY <1>3, <2>2, <2>4, <3>2 DEF JournalInv
  <2> QED BY <1>3, <2>3, <2>4
<1>8. CASE Len(all) > size
  <2>1. new = Tail(all) /\ Len(Tail(all)) = Len(all) - 1
    <3>1. \A s \in Seq(Nat) : s # << >> => Len(Tail(s)) = Len(s) - 1
      OBVIOUS
    <3> QED BY <1>3, <1>4, <1>5, <1>8, <3>1
  <2>2. Tail(all) # << >>
    <3>1. Len(Tail(all)) > 0
      BY <1>4, <1>8, <2>1
    <3>2. SUFFICES ASSUME Tail(all) = << >> PROVE FALSE
      OBVIOUS
    <3>3. Len(<< >>) > 0
      BY <3>1, <3>2
    <3>4. Len(<< >>) = 0
      OBVIOUS
    <3> QED BY <3>3, <3>4
  <2>3. /\ Tail(all) \in Seq(Nat) /\ ids(all) = ids(Tail(all)) \cup {Head(all)}
        /\ ascending(Tail(all)) /\ \A y \in ids(Tail(all)) : Head(all) < y
        /\ Head(all) \in Nat
    BY <1>3, <1>4, AscendingTaken
  <2>4. \A a \in ids(Tail(all)), y \in ids(grown) : a < y => y \in ids(Tail(all))
    <3> TAKE a \in ids(Tail(all)), y \in ids(grown)
    <3> HAVE a < y
    <3>1. y \in ids(all)
      BY <1>7, <2>3
    <3>2. Head(all) < a /\ a \in Nat
      BY <2>3, IdsAreNumbers
    <3>3. y # Head(all)
      BY <2>3, <3>2
    <3> QED BY <2>3, <3>1, <3>3
  <2> QED BY <1>3, <1>6, <1>7, <2>1, <2>2, <2>3, <2>4 DEF JournalInv, x, all, new, grown
<1>9. CASE ~ (Len(all) > size)
  <2>1. new = all
    BY <1>5, <1>9
  <2> QED BY <1>3, <1>4, <1>6, <1>7, <2>1 DEF JournalInv, x, all, new, grown
<1> QED BY <1>8, <1>9

\* An event that finds room in the channel.
LEMMA GaplessWithOneMore ==
    ASSUME NEW w \in Seq(Frames), NEW q \in Seq(Nat), NEW events \in Seq(Nat), NEW got \in Seq(Nat),
           NEW since \in Nat, NEW x \in Nat, Gapless(w, q, events, got, since),
           \A y \in ids(events) : y < x
    PROVE  Gapless(w, Append(q, x), Append(events, x), got, since)
<1>1. ids(Append(events, x)) = ids(events) \cup {x} /\ ids(Append(q, x)) = ids(q) \cup {x}
  BY IdsOfAppend
<1>2. SentIn(w) \subseteq ids(events) /\ ids(q) \subseteq ids(events)
  BY DEF Gapless
<1>3. ascending(Append(q, x))
  BY <1>2, AscendingAppended DEF Gapless
<1>4. ids(events) \subseteq Nat /\ \A y \in ids(events) : ~ (x < y)
  BY IdsAreNumbers
<1> QED BY <1>1, <1>2, <1>3, <1>4 DEF Gapless

\* The handler moves an event from the channel to the wire.
LEMMA GaplessOnWire ==
    ASSUME NEW w \in Seq(Frames), NEW q \in Seq(Nat), NEW events \in Seq(Nat), NEW got \in Seq(Nat),
           NEW since \in Nat, q # << >>, Gapless(w, q, events, got, since),
           NEW f \in Frames, f.type = "rare", f.id = Head(q)
    PROVE  /\ Gapless(Append(w, f), Tail(q), events, got, since)
           /\ SentIn(Append(w, f)) \cup ids(Tail(q)) = SentIn(w) \cup ids(q)
<1>1. /\ ids(q) = ids(Tail(q)) \cup {f.id} /\ ascending(Tail(q))
      /\ \A y \in ids(Tail(q)) : f.id < y
  BY AscendingTaken DEF Gapless
<1>2. \A x \in SentIn(w) : x < f.id
  BY <1>1 DEF Gapless
<1>3. SentIn(Append(w, f)) = SentIn(w) \cup {f.id} /\ InOrder(Append(w, f))
  BY <1>2, RareAppended DEF Gapless
<1>4. SentIn(Append(w, f)) \cup ids(Tail(q)) = SentIn(w) \cup ids(q)
  BY <1>1, <1>3
<1>5. \A x \in SentIn(Append(w, f)), y \in ids(Tail(q)) : x < y
  BY <1>1, <1>3 DEF Gapless
<1> QED BY <1>1, <1>3, <1>4, <1>5 DEF Gapless

\* Frames that are not rare events leave it alone, and so does the client that
\* takes one; a rare event that it takes has arrived.
LEMMA GaplessOtherwise ==
    ASSUME NEW w \in Seq(Frames), NEW v \in Seq(Frames), NEW q, NEW events, NEW got, NEW since,
           Gapless(w, q, events, got, since), SentIn(v) = SentIn(w), InOrder(v)
    PROVE  Gapless(v, q, events, got, since)
BY DEF Gapless

LEMMA GaplessArrived ==
    ASSUME NEW w \in Seq(Frames), NEW q \in Seq(Nat), NEW events \in Seq(Nat), NEW got \in Seq(Nat),
           NEW since \in Nat, w # << >>, Head(w).type = "rare", Gapless(w, q, events, got, since)
    PROVE  Gapless(Tail(w), q, events, Append(got, Head(w).id), since)
<1> DEFINE x == Head(w).id
<1>1. /\ Tail(w) \in Seq(Frames) /\ InOrder(Tail(w)) /\ x \in Nat
      /\ SentIn(w) = SentIn(Tail(w)) \cup {x} /\ \A y \in SentIn(Tail(w)) : x < y
  BY RareTaken DEF Gapless, Frames
<1>2. ids(Append(got, x)) = ids(got) \cup {x}
  BY <1>1, IdsOfAppend
<1>3. SentIn(w) \subseteq ids(events) /\ ids(q) \subseteq ids(events) /\ ids(events) \subseteq Nat
  BY IdsAreNumbers DEF Gapless
<1>4. \A y \in ids(q) : x < y
  BY <1>1 DEF Gapless
<1> HIDE DEF x
<1>5. \A a \in SentIn(Tail(w)) \cup ids(q), y \in ids(events) :
          a < y => y \in SentIn(Tail(w)) \cup ids(q)
  <2> TAKE a \in SentIn(Tail(w)) \cup ids(q), y \in ids(events)
  <2> HAVE a < y
  <2>1. y \in SentIn(w) \cup ids(q)
    BY <1>1 DEF Gapless
  <2>2. x < a /\ a \in Nat /\ y \in Nat
    BY <1>1, <1>3, <1>4
  <2>3. y # x
    BY <1>1, <2>2
  <2> QED BY <1>1, <2>1, <2>3
<1>6. \A y \in ids(events) : since < y => y \in ids(Append(got, x)) \cup (SentIn(Tail(w)) \cup ids(q))
  BY <1>1, <1>2 DEF Gapless
<1>7. \A a \in SentIn(Tail(w)), y \in ids(q) : a < y
  BY <1>1 DEF Gapless
<1> QED BY <1>1, <1>3, <1>5, <1>6, <1>7 DEF Gapless, x

LEMMA HubStarts ==
    ASSUME HubInit PROVE HubIInv
<1>1. HubType
  BY DEF HubInit, HubType
<1>2. ~ rare.open
  BY DEF HubInit
<1>3. RareIn(<< >>) = {} /\ ids(<< >>) = {} /\ ascending(<< >>)
  BY DEF RareIn, ids, ascending
<1>4. ResyncFirst(<< >>)
  BY <1>3 DEF ResyncFirst
<1>5. frames = << >> /\ journal = << >> /\ published = << >>
  BY DEF HubInit
<1> QED BY <1>1, <1>2, <1>3, <1>4, <1>5 DEF HubIInv, JournalInv, ResyncInv

LEMMA HubPublish ==
    ASSUME HubIInv, hubPublish PROVE HubIInv'
<1> DEFINE x == next + 1
<1>1. HubType /\ JournalInv(journal, published, next)
  BY DEF HubIInv
<1>2. next' = x /\ published' = Append(published, x) /\ x \in Nat
      /\ UNCHANGED <<frames, seen, through, lastID>>
      /\ journal' = Trimmed(Append(journal, x), Capacity)
  <2>1. next' = x /\ x \in Nat
    BY <1>1 DEF hubPublish, HubType
  <2>2. journal' = Trimmed(Append(journal, next'), Capacity)
    BY DEF hubPublish, Trimmed
  <2> QED BY <2>1, <2>2 DEF hubPublish
<1>3. Capacity \in Nat \ {0}
  BY HubAssumption DEF HubAssumption
<1>4. /\ journal' \in Seq(Nat) /\ published' \in Seq(Nat)
      /\ JournalInv(journal', published', next') /\ ids(published') = ids(published) \cup {x}
  <2>1. journal \in Seq(Nat) /\ published \in Seq(Nat) /\ next \in Nat
    BY <1>1 DEF HubType
  <2>2. /\ journal' \in Seq(Nat) /\ Append(published, x) \in Seq(Nat)
        /\ ids(Append(published, x)) = ids(published) \cup {x}
        /\ JournalInv(journal', Append(published, x), x)
    BY <1>1, <1>2, <1>3, <2>1, JournalGrows
  <2> QED BY <1>2, <2>2
<1>5. \A y \in ids(published) : y < x
  <2>1. ids(published) \subseteq Nat /\ next \in Nat
    BY <1>1, IdsAreNumbers DEF HubType
  <2> QED BY <1>1, <2>1 DEF JournalInv
<1>6. rare.queue \in Seq(Nat) /\ rare.open \in BOOLEAN
      /\ rare = [open |-> rare.open, queue |-> rare.queue]
  BY <1>1 DEF HubType
<1>7. CASE ~ rare'.open
  <2>1. rare' \in [open : BOOLEAN, queue : Seq(Nat)]
    BY <1>2, <1>6, <1>7 DEF hubPublish, offer
  <2> QED BY <1>1, <1>2, <1>4, <1>7, <2>1 DEF HubIInv, HubType, ResyncInv
<1>8. CASE rare'.open
  <2>1. rare.open /\ rare' = [rare EXCEPT !.queue = Append(@, x)]
    <3> DEFINE room == Len(rare.queue) < ChannelSize
    <3>1. offer(x)
      BY <1>2 DEF hubPublish
    <3>2. rare.open
      <4>1. ~ rare.open => rare' = rare
        BY <3>1, Zenon DEF offer
      <4> QED BY <1>8, <4>1
    <3>3. room
      <4>1. [rare EXCEPT !.open = FALSE].open = FALSE
        BY <1>6
      <4>2. rare.open /\ ~ room => rare' = [rare EXCEPT !.open = FALSE]
        BY <3>1, Zenon DEF offer
      <4> QED BY <1>8, <3>2, <4>1, <4>2
    <3>4. rare.open /\ room => rare' = [rare EXCEPT !.queue = Append(@, x)]
      BY <3>1, Zenon DEF offer
    <3> QED BY <3>2, <3>3, <3>4
  <2> DEFINE q == rare.queue
  <2>2. rare'.queue = Append(q, x)
        /\ rare' \in [open : BOOLEAN, queue : Seq(Nat)]
    <3>1. Append(q, x) \in Seq(Nat)
      BY <1>2, <1>6
    <3>2. rare \in [open : BOOLEAN, queue : Seq(Nat)]
      BY <1>1 DEF HubType
    <3> HIDE DEF x
    <3>3. \A r : r \in [open : BOOLEAN, queue : Seq(Nat)] /\ Append(r.queue, x) \in Seq(Nat) =>
              /\ [r EXCEPT !.queue = Append(@, x)].queue = Append(r.queue, x)
              /\ [r EXCEPT !.queue = Append(@, x)] \in [open : BOOLEAN, queue : Seq(Nat)]
      OBVIOUS
    <3> QED BY <2>1, <3>1, <3>2, <3>3
  <2>3. Gapless(frames, q, published, seen, through)
    BY <2>1 DEF HubIInv
  <2>4. Gapless(frames', rare'.queue, published', seen', through')
    BY <1>1, <1>2, <1>5, <1>6, <2>2, <2>3, GaplessWithOneMore DEF HubType
  <2>5. ids(Append(q, x)) = ids(q) \cup {x}
    BY <1>2, <1>6, IdsOfAppend
  <2>6. ResyncInv(rare'.open, frames', rare'.queue, published', through')
    BY <1>2, <1>4, <2>1, <2>2, <2>5 DEF HubIInv, ResyncInv
  <2> QED BY <1>1, <1>2, <1>4, <2>2, <2>4, <2>6 DEF HubIInv, HubType
<1> QED BY <1>7, <1>8

LEMMA HubWriteRare ==
    ASSUME HubIInv, writeRare PROVE HubIInv'
<1> DEFINE q == rare.queue
           f == Frame("rare", Head(q))
<1>1. HubType /\ q \in Seq(Nat) /\ rare.open \in BOOLEAN /\ frames \in Seq(Frames)
  BY DEF HubIInv, HubType
<1>2. q # << >> /\ frames' = Append(frames, f)
      /\ UNCHANGED <<next, journal, lastID, published, seen, through>>
  BY DEF writeRare
<1>3. f \in Frames /\ f.type = "rare" /\ f.id = Head(q) /\ Tail(q) \in Seq(Nat)
  <2>1. Head(q) \in Nat /\ Tail(q) \in Seq(Nat)
    BY <1>1, <1>2, AscendingTaken
  <2> QED BY <2>1 DEF Frame, Frames, Kinds
<1>4. rare' \in [open : BOOLEAN, queue : Seq(Nat)]
      /\ rare'.queue = Tail(q) /\ rare'.open = rare.open
  <2>1. rare \in [open : BOOLEAN, queue : Seq(Nat)]
    BY <1>1 DEF HubType
  <2>2. \A r : r \in [open : BOOLEAN, queue : Seq(Nat)] /\ Tail(r.queue) \in Seq(Nat) =>
            /\ [r EXCEPT !.queue = Tail(@)].queue = Tail(r.queue)
            /\ [r EXCEPT !.queue = Tail(@)].open = r.open
            /\ [r EXCEPT !.queue = Tail(@)] \in [open : BOOLEAN, queue : Seq(Nat)]
    OBVIOUS
  <2>3. rare' = [rare EXCEPT !.queue = Tail(@)]
    BY DEF writeRare
  <2> QED BY <1>3, <2>1, <2>2, <2>3
<1> HIDE DEF q, f
<1>5. Append(frames, f) \in Seq(Frames)
  BY <1>1, <1>3
<1>6. HubType'
  BY <1>1, <1>2, <1>4, <1>5 DEF HubType
<1>7. JournalInv(journal', published', next')
  BY <1>2 DEF HubIInv
<1>8. published \in Seq(Nat) /\ seen \in Seq(Nat) /\ through \in Nat
  BY <1>1 DEF HubType
<1>9. ResyncFirst(frames') /\ (ResyncIn(frames') # {} => ResyncIn(frames) # {})
  BY <1>1, <1>2, <1>3, ResyncAppended DEF HubIInv, ResyncInv
<1>10. CASE rare.open
  <2>1. Gapless(frames, q, published, seen, through)
    BY <1>10 DEF HubIInv, q
  <2>2. /\ Gapless(frames', Tail(q), published, seen, through)
        /\ SentIn(frames') \cup ids(Tail(q)) = SentIn(frames) \cup ids(q)
    BY <1>1, <1>2, <1>3, <1>8, <2>1, GaplessOnWire
  <2>3. ResyncInv(rare'.open, frames', rare'.queue, published', through')
    BY <1>2, <1>4, <1>9, <1>10, <2>2 DEF HubIInv, ResyncInv, q
  <2> QED BY <1>2, <1>4, <1>6, <1>7, <2>2, <2>3 DEF HubIInv
<1>11. CASE ~ rare.open
  <2>1. ResyncInv(rare'.open, frames', rare'.queue, published', through')
    BY <1>4, <1>9, <1>11 DEF ResyncInv
  <2> QED BY <1>4, <1>6, <1>7, <1>11, <2>1 DEF HubIInv
<1> QED BY <1>10, <1>11

LEMMA HubFlushTelemetry ==
    ASSUME HubIInv, flushTelemetryFrame PROVE HubIInv'
<1> DEFINE f == Frame("telemetry", next + 1)
<1>1. HubType /\ frames \in Seq(Frames) /\ next \in Nat
  BY DEF HubIInv, HubType
<1>2. next' = next + 1 /\ frames' = Append(frames, f)
      /\ UNCHANGED <<rare, journal, lastID, published, seen, through>>
  BY DEF flushTelemetryFrame
<1>3. f \in Frames /\ f.type = "telemetry"
  BY <1>1 DEF Frame, Frames, Kinds
<1> HIDE DEF f
<1>4. /\ frames' \in Seq(Frames) /\ SentIn(frames') = SentIn(frames)
      /\ InOrder(frames) => InOrder(frames')
  BY <1>1, <1>2, <1>3, RareAppended
<1>5. ResyncFirst(frames') /\ (ResyncIn(frames') # {} => ResyncIn(frames) # {})
  BY <1>1, <1>2, <1>3, ResyncAppended DEF HubIInv, ResyncInv
<1>6. HubType'
  BY <1>1, <1>2, <1>4 DEF HubType
<1>7. JournalInv(journal', published', next')
  <2>1. ids(published) \subseteq Nat
    BY <1>1, IdsAreNumbers DEF HubType
  <2>2. \A y \in ids(published) : 0 < y /\ y <= next + 1
    BY <1>1, <2>1 DEF HubIInv, JournalInv
  <2> QED BY <1>2, <2>2 DEF HubIInv, JournalInv
<1>8. ASSUME rare'.open
      PROVE  Gapless(frames', rare'.queue, published', seen', through')
  <2>1. Gapless(frames, rare.queue, published, seen, through)
    BY <1>2, <1>8 DEF HubIInv
  <2>2. InOrder(frames')
    BY <1>4, <2>1 DEF Gapless
  <2> QED BY <1>1, <1>2, <1>4, <2>1, <2>2, GaplessOtherwise
<1>9. ResyncInv(rare'.open, frames', rare'.queue, published', through')
  BY <1>2, <1>4, <1>5 DEF HubIInv, ResyncInv
<1> QED BY <1>6, <1>7, <1>8, <1>9 DEF HubIInv

LEMMA HubReceive ==
    ASSUME HubIInv, receive PROVE HubIInv'
<1> DEFINE f == Head(frames)
<1>1. HubType /\ frames \in Seq(Frames) /\ frames # << >> /\ seen \in Seq(Nat)
      /\ published \in Seq(Nat) /\ rare.queue \in Seq(Nat) /\ through \in Nat
  BY DEF HubIInv, HubType, receive
<1>2. frames' = Tail(frames) /\ lastID' = f.id
      /\ UNCHANGED <<next, journal, rare, published, through>>
  BY DEF receive
<1>3. seen' = CASE f.type = "rare" -> Append(seen, f.id)
                [] f.type = "resync_required" -> << >>
                [] OTHER -> seen
  BY DEF receive
<1>4. /\ f \in Frames /\ f.id \in Nat /\ frames' \in Seq(Frames)
      /\ f.type # "rare" => SentIn(frames') = SentIn(frames)
      /\ InOrder(frames) => InOrder(frames')
  <2>1. /\ f \in Frames /\ frames' \in Seq(Frames)
        /\ f.type # "rare" => SentIn(frames') = SentIn(frames)
        /\ InOrder(frames) => InOrder(frames')
    BY <1>1, <1>2, RareTaken
  <2> QED BY <2>1 DEF Frames
<1>5. ResyncFirst(frames)
  BY DEF HubIInv, ResyncInv
<1>6. /\ ResyncFirst(frames') /\ (ResyncIn(frames') # {} => ResyncIn(frames) # {})
      /\ f.type = "resync_required" => ResyncIn(frames) # {}
      /\ f.type = "rare" => ResyncIn(frames) = {}
  BY <1>1, <1>2, <1>5, ResyncTaken
<1>7. /\ f.type = "rare" => seen' = Append(seen, f.id)
      /\ f.type = "resync_required" => seen' = << >>
      /\ f.type \notin {"rare", "resync_required"} => seen' = seen
  BY <1>3, Zenon
<1>8. seen' \in Seq(Nat)
  <2>1. Append(seen, f.id) \in Seq(Nat) /\ << >> \in Seq(Nat)
    BY <1>1, <1>4
  <2> HIDE DEF f
  <2> QED BY <1>1, <1>7, <2>1
<1> HIDE DEF f
<1>9. HubType'
  BY <1>1, <1>2, <1>4, <1>8 DEF HubType
<1>10. JournalInv(journal', published', next')
  BY <1>2 DEF HubIInv
<1>11. ASSUME rare'.open
       PROVE  Gapless(frames', rare'.queue, published', seen', through')
  <2>1. Gapless(frames, rare.queue, published, seen, through) /\ rare.open
    BY <1>2, <1>11 DEF HubIInv
  <2>2. InOrder(frames')
    BY <1>4, <2>1 DEF Gapless
  <2>3. CASE f.type = "rare"
    BY <1>1, <1>2, <1>7, <2>1, <2>3, GaplessArrived DEF f
  <2>4. CASE f.type = "resync_required"
    <3>1. Gapless(frames', rare.queue, published, seen, through)
      BY <1>1, <1>4, <2>1, <2>2, <2>4, GaplessOtherwise
    <3>2. \A y \in ids(published) : through < y => y \in SentIn(frames) \cup ids(rare.queue)
      BY <1>6, <2>1, <2>4 DEF HubIInv, ResyncInv
    <3>3. SentIn(frames') = SentIn(frames)
      BY <1>4, <2>4
    <3> QED BY <1>2, <3>1, <3>2, <3>3 DEF Gapless
  <2>5. CASE f.type \notin {"rare", "resync_required"}
    BY <1>1, <1>2, <1>4, <1>7, <2>1, <2>2, <2>5, GaplessOtherwise
  <2> QED BY <2>3, <2>4, <2>5
<1>12. ResyncInv(rare'.open, frames', rare'.queue, published', through')
  BY <1>2, <1>4, <1>6 DEF HubIInv, ResyncInv
<1> QED BY <1>9, <1>10, <1>11, <1>12 DEF HubIInv

LEMMA HubConnect ==
    ASSUME HubIInv, connect PROVE HubIInv'
<1>1. HubType /\ journal \in Seq(Nat) /\ published \in Seq(Nat) /\ lastID \in Nat
      /\ JournalInv(journal, published, next)
  BY DEF HubIInv, HubType
<1>2. rare' = [open |-> TRUE, queue |-> << >>] /\ through' = Newest(published)
      /\ UNCHANGED <<next, journal, lastID, published, seen>>
  BY DEF connect
<1>3. rare' \in [open : BOOLEAN, queue : Seq(Nat)] /\ rare'.open
      /\ rare'.queue = << >> /\ ids(<< >>) = {} /\ ascending(<< >>)
  BY <1>2 DEF ids, ascending
<1>4. through' \in Nat /\ \A y \in ids(published) : ~ (through' < y)
  BY <1>1, <1>2, NewestIsLast DEF JournalInv
<1>5. ASSUME frames' \in Seq(Frames), InOrder(frames'), ResyncFirst(frames'),
             SentIn(frames') \subseteq ids(published),
             \A x \in SentIn(frames'), y \in ids(published) : x < y => y \in SentIn(frames')
      PROVE  HubIInv'
  <2>1. HubType'
    BY <1>1, <1>2, <1>3, <1>4, <1>5 DEF HubType
  <2>2. Gapless(frames', rare'.queue, published', seen', through')
    BY <1>2, <1>3, <1>4, <1>5 DEF Gapless
  <2>3. ResyncInv(rare'.open, frames', rare'.queue, published', through')
    BY <1>2, <1>4, <1>5 DEF ResyncInv
  <2> QED BY <1>1, <1>2, <2>1, <2>2, <2>3 DEF HubIInv
<1>6. CASE mustResync(lastID)
  <2> DEFINE a == Frame("snapshot", 0)
             b == Frame("resync_required", 0)
  <2>1. a \in Frames /\ b \in Frames /\ a.type = "snapshot" /\ b.type = "resync_required"
    BY DEF Frame, Frames, Kinds
  <2>2. frames' = << a >> \o << b >>
    BY <1>6 DEF connect
  <2> HIDE DEF a, b
  <2>3. frames' \in Seq(Frames) /\ DOMAIN frames' = {1, 2} /\ frames'[1] = a /\ frames'[2] = b
    BY <2>1, <2>2
  <2>4. RareIn(frames') = {}
    BY <2>1, <2>3 DEF RareIn
  <2>5. SentIn(frames') = {} /\ InOrder(frames') /\ ResyncFirst(frames')
    BY <2>4 DEF SentIn, InOrder, ResyncFirst
  <2> QED BY <1>5, <2>3, <2>5
<1>7. CASE ~ mustResync(lastID)
  <2> DEFINE r == after(journal, lastID)
  <2>1. /\ r \in Seq(Nat) /\ ascending(r)
        /\ ids(r) = {x \in ids(journal) : lastID < x}
    BY <1>1, AfterIsLater DEF JournalInv
  <2>2. r = replay(lastID)
    BY <1>7 DEF replay
  <2>3. frames' = << Frame("snapshot", 0) >> \o
                      ([i \in DOMAIN r |-> Frame("rare", r[i])]
                          \o << Frame("initial_replay_complete", 0) >>)
    BY <1>7, <2>2 DEF connect
  <2> HIDE DEF r
  <2>4. /\ frames' \in Seq(Frames) /\ InOrder(frames') /\ SentIn(frames') = ids(r)
        /\ \A i \in DOMAIN frames' : frames'[i].type # "resync_required"
    BY <2>1, <2>3, RareBootstrapped
  <2>5. ResyncFirst(frames')
    BY <2>4 DEF ResyncFirst, ResyncIn
  <2>6. ids(r) \subseteq ids(published)
    BY <1>1, <2>1 DEF JournalInv
  <2>7. \A x \in ids(r), y \in ids(published) : x < y => y \in ids(r)
    <3> TAKE x \in ids(r), y \in ids(published)
    <3> HAVE x < y
    <3>1. x \in ids(journal) /\ lastID < x /\ y \in ids(journal)
      BY <1>1, <2>1 DEF JournalInv
    <3>2. x \in Nat /\ y \in Nat /\ lastID \in Nat
      BY <1>1, <3>1, IdsAreNumbers
    <3>3. lastID < y
      BY <3>1, <3>2
    <3> QED BY <2>1, <3>1, <3>3
  <2> QED BY <1>5, <2>4, <2>5, <2>6, <2>7
<1> QED BY <1>6, <1>7

LEMMA HubDisconnect ==
    ASSUME HubIInv, disconnect PROVE HubIInv'
<1>1. frames' = << >> /\ rare' = [open |-> FALSE, queue |-> << >>]
      /\ UNCHANGED <<next, journal, lastID, published, seen, through>>
  BY DEF disconnect
<1>2. HubType'
  BY <1>1 DEF HubIInv, HubType
<1>3. ~ rare'.open /\ ResyncFirst(frames')
  BY <1>1 DEF ResyncFirst, ResyncIn, RareIn
<1> QED BY <1>1, <1>2, <1>3 DEF HubIInv, ResyncInv

\* The inductive invariant of the journal, for any capacity of journal and channel,
\* any number of events and any breaks (eventhub.go).
THEOREM HubCorrect ==
    HubSpec => []HubIInv
<1>1. HubInit => HubIInv
  BY HubStarts
<1>2. HubIInv /\ [HubNext]_hubVars => HubIInv'
  <2>1. HubIInv /\ UNCHANGED hubVars => HubIInv'
    BY DEF hubVars, HubIInv, HubType
  <2> QED BY <2>1, HubPublish, HubConnect, HubWriteRare, HubFlushTelemetry, HubReceive,
             HubDisconnect DEF HubNext
<1> QED BY <1>1, <1>2, PTL DEF HubSpec

\* A rare is sent the rare events without a gap, a duplicate or a swap, from
\* the oldest it is replayed to the newest there is, until its channel is closed
\* (eventhub.go subscribe and publish, handleV1Events).
THEOREM StreamAlwaysGapless ==
    HubSpec => []StreamIsGapless
<1>1. HubIInv => StreamIsGapless
  <2>1. sent = SentIn(frames) /\ rareFrames = RareIn(frames)
    BY DEF sent, rareFrames, SentIn, RareIn
  <2> QED BY <2>1 DEF HubIInv, Gapless, InOrder, StreamIsGapless, onTheWay, received
<1> QED BY <1>1, HubCorrect, PTL

\* Whichever ID a client names, it is replayed all that came after, once and in
\* order, or seen to resynchronise: whatever was trimmed from the journal, and
\* whichever IDs telemetry frames drew (eventhub.go subscribe).
THEOREM ReplayAlwaysComplete ==
    HubSpec => []ReplayIsComplete
<1>1. ASSUME HubIInv PROVE ReplayIsComplete
  <2>1. SUFFICES ASSUME NEW from \in 1 .. next, ~ mustResync(from)
                 PROVE  /\ ascending(replay(from))
                        /\ ids(replay(from)) = {id \in ids(published) : from < id}
    BY DEF ReplayIsComplete
  <2>2. journal \in Seq(Nat) /\ published \in Seq(Nat) /\ next \in Nat /\ from \in Nat /\ from > 0
        /\ JournalInv(journal, published, next)
    BY <1>1 DEF HubIInv, HubType
  <2>3. replay(from) = after(journal, from)
    BY <2>1 DEF replay
  <2>4. /\ ascending(after(journal, from))
        /\ ids(after(journal, from)) = {x \in ids(journal) : from < x}
    BY <2>2, AfterIsLater DEF JournalInv
  <2>5. ids(journal) \subseteq ids(published) /\ ids(published) \subseteq Nat
    BY <2>2, IdsAreNumbers DEF JournalInv
  <2>6. ASSUME NEW y \in ids(published), from < y PROVE y \in ids(journal)
    <3>1. journal # << >>
      BY <2>2, <2>6 DEF JournalInv, ids
    <3>2. Head(journal) \in Nat /\ Head(journal) \in ids(journal)
      BY <2>2, <3>1, AscendingTaken
    <3>3. ~ (from < Head(journal) - 1)
      BY <2>1, <2>2, <3>1 DEF mustResync
    <3>4. y = Head(journal) \/ Head(journal) < y
      BY <2>2, <2>5, <2>6, <3>2, <3>3
    <3> QED BY <2>2, <3>2, <3>4 DEF JournalInv
  <2> QED BY <2>3, <2>4, <2>5, <2>6
<1> QED BY <1>1, HubCorrect, PTL
=============================================================================

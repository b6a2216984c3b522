-------------------------- MODULE TelemetryStream --------------------------
(***************************************************************************)
(* The browser's live view of the store: Store, the SSE handler            *)
(* handleV1Events (simulator/internal/controlapi/v1.go) that bootstraps    *)
(* from a snapshot and then follows the batch channel, the TCP stream it   *)
(* writes to, and the page's consumer (webui/src/use-simulator.ts).        *)
(*                                                                         *)
(* Operational ("rare") events share the connection but not this state;    *)
(* they are not part of this module.                                       *)
(***************************************************************************)
EXTENDS Store, Integers

CONSTANTS
    WireCap,    \* events the sockets hold before a write blocks the handler
    MaxBreaks   \* bound on transport errors

Streams == BatchSubscribers     \* one browser page per batch subscription slot

NoRevision == -1                \* revision.current === null

ASSUME StreamAssumption == WireCap \in Nat \ {0} /\ MaxBreaks \in Nat

VARIABLES
    handler,     \* page -> its handleV1Events: "off" or "run"
    last,        \* page -> the handler's last: newest revision taken from the channel
    pending,     \* page -> the coalescing window: the points changed since the last flush
    pendingStartRevision,
    pendingRevision,
    wire,        \* page -> events written by the handler, not yet consumed
    source,      \* page -> its EventSource: "connecting" or "open"
    points,      \* page -> the values it shows
    revision,    \* page -> revision.current
    breaks       \* transport errors so far

handlerVars == <<handler, last, pending, pendingStartRevision, pendingRevision>>
pageVars    == <<source, points, revision>>
streamVars  == <<handlerVars, wire, pageVars, breaks>>
vars        == <<storeVars, streamVars>>

SnapshotEvent  == [type : {"snapshot"}, rev : 0..MaxRev, points : PointMap]
TelemetryEvent == [type : {"telemetry"}, from : 1..MaxRev, rev : 1..MaxRev,
                   changes : PartialMap]
ResyncEvent    == [type : {"resync_required"}]
Event          == SnapshotEvent \cup TelemetryEvent \cup ResyncEvent

EmptyMap == [p \in {} |-> Zero]

\* Mutant: the first value of a window is kept instead of the newest.
FoldFirst(m, changes) ==
    [p \in DOMAIN m \cup DOMAIN changes |-> IF p \in DOMAIN m THEN m[p] ELSE changes[p]]

\* pending[c.Key] = c.Value for every change of a batch.
Fold(m, changes) ==
    [p \in DOMAIN m \cup DOMAIN changes |->
        IF p \in DOMAIN changes THEN changes[p] ELSE m[p]]

StreamInit ==
    /\ Init
    /\ handler = [s \in Streams |-> "off"]
    /\ last = [s \in Streams |-> 0]
    /\ pending = [s \in Streams |-> EmptyMap]
    /\ pendingStartRevision = [s \in Streams |-> 0]
    /\ pendingRevision = [s \in Streams |-> 0]
    /\ wire = [s \in Streams |-> << >>]
    /\ source = [s \in Streams |-> "connecting"]
    /\ points = [s \in Streams |-> [p \in Points |-> Zero]]
    /\ revision = [s \in Streams |-> NoRevision]
    /\ breaks = 0

-----------------------------------------------------------------------------
\* handleV1Events up to its loop: subscribe and snapshot under one hold of the
\* store lock, then write the snapshot.  The page has a request outstanding:
\* its first, the browser's own retry, or the one connectLater() scheduled.
Bootstrap(s) ==
    /\ source[s] # "open"
    /\ handler[s] = "off"
    /\ subscribeBatchesLocked(s)
    /\ handler' = [handler EXCEPT ![s] = "run"]
    /\ last' = [last EXCEPT ![s] = rev]
    /\ pending' = [pending EXCEPT ![s] = EmptyMap]
    /\ pendingStartRevision' = [pendingStartRevision EXCEPT ![s] = 0]
    /\ pendingRevision' = [pendingRevision EXCEPT ![s] = 0]
    /\ wire' = [wire EXCEPT ![s] = <<[type |-> "snapshot", rev |-> rev, points |-> values]>>]
    /\ source' = [source EXCEPT ![s] = "open"]
    /\ UNCHANGED <<points, revision, breaks>>

\* Mutant: a gap in the revisions goes unnoticed.
FoldBatchBlind(s) ==
    /\ handler[s] = "run"
    /\ ReceiveBatch(s)
    /\ LET batch == Head(batchQ[s])
       IN  /\ last' = [last EXCEPT ![s] = batch.rev]
           /\ pendingStartRevision' =
                 [pendingStartRevision EXCEPT ![s] = IF DOMAIN pending[s] = {} THEN last[s] + 1 ELSE @]
           /\ pending' = [pending EXCEPT ![s] = Fold(@, batch.changes)]
           /\ pendingRevision' = [pendingRevision EXCEPT ![s] = batch.rev]
    /\ UNCHANGED <<handler, wire, pageVars, breaks>>

\* Mutant: a window that starts does not note its first revision.
FoldBatchUnstarted(s) ==
    /\ handler[s] = "run"
    /\ ReceiveBatch(s)
    /\ Head(batchQ[s]).rev = last[s] + 1
    /\ last' = [last EXCEPT ![s] = @ + 1]
    /\ pending' = [pending EXCEPT ![s] = Fold(@, Head(batchQ[s]).changes)]
    /\ pendingRevision' = [pendingRevision EXCEPT ![s] = last[s] + 1]
    /\ UNCHANGED <<handler, pendingStartRevision, wire, pageVars, breaks>>

\* case batch := <-ch, the next revision in sequence: folded into the window.
FoldBatch(s) ==
    /\ handler[s] = "run"
    /\ ReceiveBatch(s)
    /\ LET batch == Head(batchQ[s])
       IN  /\ batch.rev = last[s] + 1
           /\ last' = [last EXCEPT ![s] = batch.rev]
           /\ pendingStartRevision' =
                 [pendingStartRevision EXCEPT ![s] =
                    IF DOMAIN pending[s] = {} THEN batch.rev ELSE @]
           /\ pending' = [pending EXCEPT ![s] = Fold(@, batch.changes)]
           /\ pendingRevision' = [pendingRevision EXCEPT ![s] = batch.rev]
    /\ UNCHANGED <<handler, wire, pageVars, breaks>>

\* case batch := <-ch, after a dropped batch: resync_required, then return,
\* which runs the deferred unsubscribe and ends the response.
ReportGap(s) ==
    /\ handler[s] = "run"
    /\ batchQ[s] # << >>
    /\ Head(batchQ[s]).rev # last[s] + 1
    /\ Len(wire[s]) < WireCap
    /\ wire' = [wire EXCEPT ![s] = Append(@, [type |-> "resync_required"])]
    /\ handler' = [handler EXCEPT ![s] = "off"]
    /\ unsubscribeBatches(s)
    /\ UNCHANGED <<last, pending, pendingStartRevision, pendingRevision, pageVars, breaks>>

\* case <-ticker.C with a non-empty window: flushTelemetry.
flushTelemetry(s) ==
    /\ handler[s] = "run"
    /\ DOMAIN pending[s] # {}
    /\ Len(wire[s]) < WireCap
    /\ wire' = [wire EXCEPT ![s] =
                  Append(@, [type |-> "telemetry", from |-> pendingStartRevision[s],
                             rev |-> pendingRevision[s], changes |-> pending[s]])]
    /\ pending' = [pending EXCEPT ![s] = EmptyMap]
    /\ UNCHANGED <<storeVars, handler, last, pendingStartRevision, pendingRevision,
                   pageVars, breaks>>

\* The connection's end: the request context is done and the deferred
\* unsubscribe runs, unless the handler had already returned.  A handler that
\* notices late only fills a channel and a socket nobody reads, so its end is
\* taken together with the connection's.
EndHandler(s) ==
    /\ handler' = [handler EXCEPT ![s] = "off"]
    /\ wire' = [wire EXCEPT ![s] = << >>]
    /\ IF handler[s] = "run" THEN unsubscribeBatches(s) ELSE UNCHANGED storeVars

\* A transport error loses what is in flight; the browser keeps the page's
\* points and revision and retries by itself.
TransportError(s) ==
    /\ source[s] = "open"
    /\ breaks < MaxBreaks
    /\ breaks' = breaks + 1
    /\ source' = [source EXCEPT ![s] = "connecting"]
    /\ EndHandler(s)
    /\ UNCHANGED <<last, pending, pendingStartRevision, pendingRevision, points, revision>>

-----------------------------------------------------------------------------
\* The page's consume() callback, by the type of the next event.
ConsumeSnapshot(s) ==
    /\ source[s] = "open" /\ wire[s] # << >>
    /\ Head(wire[s]).type = "snapshot"
    /\ points' = [points EXCEPT ![s] = Head(wire[s]).points]
    /\ revision' = [revision EXCEPT ![s] = Head(wire[s]).rev]
    /\ wire' = [wire EXCEPT ![s] = Tail(@)]
    /\ UNCHANGED <<storeVars, handlerVars, source, breaks>>

FollowsOn(s, event) ==
    revision[s] = NoRevision \/ event.from = revision[s] + 1

\* Mutant: the page applies the changes but forgets to advance its revision.
ConsumeTelemetryUnstamped(s) ==
    /\ source[s] = "open" /\ wire[s] # << >>
    /\ Head(wire[s]).type = "telemetry"
    /\ FollowsOn(s, Head(wire[s]))
    /\ points' = [points EXCEPT ![s] = Apply(@, Head(wire[s]).changes)]
    /\ wire' = [wire EXCEPT ![s] = Tail(@)]
    /\ UNCHANGED <<storeVars, handlerVars, source, revision, breaks>>

ConsumeTelemetry(s) ==
    /\ source[s] = "open" /\ wire[s] # << >>
    /\ Head(wire[s]).type = "telemetry"
    /\ FollowsOn(s, Head(wire[s]))
    /\ points' = [points EXCEPT ![s] = Apply(@, Head(wire[s]).changes)]
    /\ revision' = [revision EXCEPT ![s] = Head(wire[s]).rev]
    /\ wire' = [wire EXCEPT ![s] = Tail(@)]
    /\ UNCHANGED <<storeVars, handlerVars, source, breaks>>

\* Mutant: the event is consumed, and nobody reconnects.
CloseAndReconnectIgnored(s) ==
    /\ source[s] = "open" /\ wire[s] # << >>
    /\ LET event == Head(wire[s])
       IN  \/ event.type = "resync_required"
           \/ event.type = "telemetry" /\ ~FollowsOn(s, event)
    /\ wire' = [wire EXCEPT ![s] = Tail(@)]
    /\ UNCHANGED <<storeVars, handlerVars, pageVars, breaks>>

\* source.close() and connectLater(): on resync_required, and on telemetry that
\* does not follow on the revision shown.
CloseAndReconnect(s) ==
    /\ source[s] = "open" /\ wire[s] # << >>
    /\ LET event == Head(wire[s])
       IN  \/ event.type = "resync_required"
           \/ event.type = "telemetry" /\ ~FollowsOn(s, event)
    /\ source' = [source EXCEPT ![s] = "connecting"]
    /\ EndHandler(s)
    /\ UNCHANGED <<last, pending, pendingStartRevision, pendingRevision,
                   points, revision, breaks>>

-----------------------------------------------------------------------------
StoreStep == (\E w \in Writers : Mutate(w) \/ publish(w)) /\ UNCHANGED streamVars

PageStep(s) == ConsumeSnapshot(s) \/ ConsumeTelemetry(s) \/ CloseAndReconnect(s)

StreamStep(s) ==
    \/ Bootstrap(s) \/ FoldBatch(s) \/ ReportGap(s) \/ flushTelemetry(s)
    \/ TransportError(s)
    \/ PageStep(s)

StreamNext == StoreStep \/ \E s \in Streams : StreamStep(s)

\* The handler's goroutine, its ticker, the page's event loop and the browser's
\* retry all keep running; a writer that committed goes on to publish.
Fairness ==
    /\ \A w \in Writers : WF_vars(publish(w) /\ UNCHANGED streamVars)
    /\ \A s \in Streams :
         /\ WF_vars(Bootstrap(s))
         /\ WF_vars(FoldBatch(s) \/ ReportGap(s))
         /\ WF_vars(flushTelemetry(s))
         /\ WF_vars(PageStep(s))

StreamSpec == StreamInit /\ [][StreamNext]_vars

FairStreamSpec == StreamSpec /\ Fairness

-----------------------------------------------------------------------------
\* Every variable of the handler, the wire and the page has its shape.
StreamTypeOK ==
    /\ TypeOK
    /\ handler \in [Streams -> {"off", "run"}]
    /\ last \in [Streams -> 0..MaxRev]
    /\ pending \in [Streams -> PartialMap]
    /\ pendingStartRevision \in [Streams -> 0..MaxRev]
    /\ pendingRevision \in [Streams -> 0..MaxRev]
    /\ wire \in [Streams -> Seq(Event)]
    /\ source \in [Streams -> {"connecting", "open"}]
    /\ points \in [Streams -> PointMap]
    /\ revision \in [Streams -> {NoRevision} \cup 0..MaxRev]
    /\ breaks \in 0..MaxBreaks

\* What a page shows is always a state the store really was in, the one at the
\* revision the page displays: coalescing, dropped batches, broken connections
\* and reconnects never leave it with a mixture of two states.
PageShowsOneRevision ==
    \A s \in Streams :
        revision[s] # NoRevision => points[s] = history[revision[s]]

\* The inductive strengthening, page by page.
\* The batch channel exists exactly while the handler runs, and holds revisions
\* the handler has not taken yet.
ChannelAhead(s) ==
    /\ s \in batchSubs <=> handler[s] = "run"
    /\ last[s] <= rev
    /\ s \in batchSubs => \A i \in DOMAIN batchQ[s] : batchQ[s][i].rev > last[s]

\* The coalescing window is the difference between the revision before its
\* first batch and the last revision taken.
WindowIsDifference(s) ==
    DOMAIN pending[s] # {} =>
        /\ pendingStartRevision[s] \in 1..last[s]
        /\ pendingRevision[s] = last[s]
        /\ history[last[s]] = Apply(history[pendingStartRevision[s] - 1], pending[s])

\* An event on the wire says something true of the store's history.
SnapshotIsTrue(e) == e.rev <= rev /\ e.points = history[e.rev]

TelemetryIsTrue(e) ==
    /\ e.from <= e.rev
    /\ e.rev <= rev
    /\ history[e.rev] = Apply(history[e.from - 1], e.changes)

WireIsTrue(s) ==
    \A i \in DOMAIN wire[s] :
        /\ wire[s][i].type = "snapshot"  => SnapshotIsTrue(wire[s][i])
        /\ wire[s][i].type = "telemetry" => TelemetryIsTrue(wire[s][i])

\* A connection starts with its snapshot and has only the one, and it is no
\* older than what the page shows.
SnapshotFirst(s) ==
    /\ \A i \in DOMAIN wire[s] :
          wire[s][i].type = "snapshot" => i = 1 /\ wire[s][i].rev >= revision[s]
    /\ source[s] = "open" /\ revision[s] = NoRevision =>
          wire[s] # << >> /\ wire[s][1].type = "snapshot"

\* What the page shows is the store's past.
PageInPast(s) ==
    /\ revision[s] <= rev
    /\ revision[s] # NoRevision => points[s] = history[revision[s]]

\* The invariant that carries PageShowsOneRevision and the refinement from one
\* step to the next: the store's own, and the parts above for every page.
StreamIInv ==
    /\ StreamTypeOK
    /\ StoreIInv
    /\ \A s \in Streams :
          /\ ChannelAhead(s)
          /\ WindowIsDifference(s)
          /\ WireIsTrue(s)
          /\ SnapshotFirst(s)
          /\ PageInPast(s)

\* A page is an observer as ConsistentView promises: each of its steps leaves
\* its view alone or moves it, as a whole, to a state of the store no older than
\* the one it had.  Neither a reconnect's new snapshot nor telemetry coalesced
\* before a gap takes it back in time.
View == INSTANCE ConsistentView
           WITH State <- PointMap, Observers <- Streams,
                view <- points, viewRev <- revision

PageIsConsistentView == View!Spec

\* The newest revision the batch channel of a page has been given.
Delivered(s) ==
    IF batchQ[s] = << >> THEN last[s] ELSE batchQ[s][Len(batchQ[s])].rev

\* Unless the store's newest batch was dropped for this page (its channel was
\* full), the page keeps coming to show the store's current values: no flush,
\* retry or gap report is left undone.
PageCatchesUp ==
    \A s \in Streams :
        []<>(points[s] = values \/ (handler[s] = "run" /\ Delivered(s) # rev))
=============================================================================

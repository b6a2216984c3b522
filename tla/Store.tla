------------------------------- MODULE Store -------------------------------
(***************************************************************************)
(* The shared point store, simulator/internal/store/store.go.              *)
(*                                                                         *)
(* A mutation (Set, SetBatch, Restore) runs its first half under the       *)
(* exclusive lock `mu`: it bumps `rev` once, writes the values and their   *)
(* readback twins, and queues the whole mutation to every batch            *)
(* subscriber.  That half is one step here.  Only after `mu` is released   *)
(* does the writer deliver its changes, one point at a time, to the point  *)
(* subscribers; those deliveries are separate steps, so the deliveries of  *)
(* two writers interleave.                                                 *)
(*                                                                         *)
(* A call that names an unknown key changes nothing and returns false; it  *)
(* is a stuttering step and has no action.                                 *)
(***************************************************************************)
EXTENDS Naturals, Sequences

CONSTANTS
    Points,                \* the catalog's point keys
    Values,                \* engineering values a point can hold
    Zero,                  \* the value New() gives every point
    SetpointOf,            \* readback point -> its setpoint: the inverse of readbackOf
    Baseline,              \* the snapshot a reset restores
    Writers,               \* goroutines that mutate the store
    Subscribers,           \* slots for Subscribe() channels
    BatchSubscribers,      \* slots for batch channels
    SubscriberBufferSize,  \* subscriberBufferSize
    MaxRev                 \* bound on the number of mutations

ReadbackPoints == DOMAIN SetpointOf

\* Setpoints are never readback points, and no caller but Restore writes a
\* readback point: class RO points are refused by the command processor.
Writable == Points \ ReadbackPoints

PointMap == [Points -> Values]

ASSUME StoreAssumption ==
    /\ Zero \in Values
    /\ ReadbackPoints \subseteq Points
    /\ \A p \in ReadbackPoints : SetpointOf[p] \in Writable
    /\ Baseline \in PointMap
    /\ \A p \in ReadbackPoints : Baseline[p] = Baseline[SetpointOf[p]]
    /\ SubscriberBufferSize \in Nat \ {0}
    /\ MaxRev \in Nat

\* A mutation's content: a value for each point of some set of points.
PartialMap == UNION {[S -> Values] : S \in SUBSET Points}

Change      == [key : Points, value : Values, rev : 1..MaxRev]
ChangeBatch == [rev : 1..MaxRev, changes : PartialMap]

VARIABLES
    values,     \* the current value of every point
    rev,        \* the store revision
    pub,        \* writer -> changes it has committed but not yet published
    subs,       \* the registered point subscribers
    subQ,       \* slot -> its buffered Change channel
    batchSubs,  \* the registered batch subscribers
    batchQ,     \* slot -> its buffered ChangeBatch channel
    history     \* auxiliary: revision -> the values as of that revision

storeVars == <<values, rev, pub, subs, subQ, batchSubs, batchQ, history>>

-----------------------------------------------------------------------------
\* Mutant: the mutation replaces the map.
ApplyReplacing(m, changes) == changes

\* What a mutation does to a map of points.
Apply(m, changes) ==
    [p \in Points |-> IF p \in DOMAIN changes THEN changes[p] ELSE m[p]]

\* Mutant: the readback twin is forgotten.
WithReadbackForgotten(writes) == writes

\* The points a list of writes touches: each key and its readback twin.
WithReadback(writes) ==
    [p \in DOMAIN writes \cup {q \in ReadbackPoints : SetpointOf[q] \in DOMAIN writes} |->
        IF p \in DOMAIN writes THEN writes[p] ELSE writes[SetpointOf[p]]]

\* Mutant: the newest message overtakes the buffered ones.
OfferFirst(queue, msg) ==
    IF Len(queue) < SubscriberBufferSize THEN <<msg>> \o queue ELSE queue

\* A non-blocking send on a buffered channel: dropped when the buffer is full.
Offer(queue, msg) ==
    IF Len(queue) < SubscriberBufferSize THEN Append(queue, msg) ELSE queue

\* Mutant: the batch names the written points but not their readback twins.
publishBatchLockedWritten(batch) ==
    LET written == [p \in DOMAIN batch.changes \cap Writable |-> batch.changes[p]]
    IN  batchQ' = [b \in BatchSubscribers |->
                     IF b \in batchSubs THEN Offer(batchQ[b], [batch EXCEPT !.changes = written])
                     ELSE batchQ[b]]

publishBatchLocked(batch) ==
    batchQ' = [b \in BatchSubscribers |->
                 IF b \in batchSubs THEN Offer(batchQ[b], batch) ELSE batchQ[b]]

\* The half of a mutation that runs under mu.
CommitLocked(w, changes) ==
    /\ pub[w] = {}
    /\ rev < MaxRev
    /\ rev' = rev + 1
    /\ values' = Apply(values, changes)
    /\ history' = [history EXCEPT ![rev + 1] = Apply(values, changes)]
    /\ publishBatchLocked([rev |-> rev + 1, changes |-> changes])
    /\ pub' = [pub EXCEPT ![w] =
                 {[key |-> p, value |-> changes[p], rev |-> rev + 1] : p \in DOMAIN changes}]
    /\ UNCHANGED <<subs, subQ, batchSubs>>

-----------------------------------------------------------------------------
Init ==
    /\ values = [p \in Points |-> Zero]
    /\ rev = 0
    /\ pub = [w \in Writers |-> {}]
    /\ subs = {}
    /\ subQ = [s \in Subscribers |-> << >>]
    /\ batchSubs = {}
    /\ batchQ = [b \in BatchSubscribers |-> << >>]
    /\ history = [r \in 0..MaxRev |-> [p \in Points |-> Zero]]

Set(w, key, value) == CommitLocked(w, WithReadback([k \in {key} |-> value]))

SetBatch(w, writes) == CommitLocked(w, WithReadback(writes))

\* Restore touches only the points that differ, but always takes a revision
\* and always queues a batch, an empty one when nothing differs.
Restore(w) ==
    CommitLocked(w, [p \in {q \in Points : values[q] # Baseline[q]} |-> Baseline[p]])

\* Mutant: the value is read again when it is delivered, outside mu.
publishCurrent(w) ==
    \E c \in pub[w] :
        /\ pub' = [pub EXCEPT ![w] = @ \ {c}]
        /\ subQ' = [s \in Subscribers |->
                      IF s \in subs THEN Offer(subQ[s], [c EXCEPT !.value = values[c.key]])
                      ELSE subQ[s]]
        /\ UNCHANGED <<values, rev, subs, batchSubs, batchQ, history>>

\* One publish() call of a writer, after mu is released: subMu is held while
\* the change is offered to every point subscriber.  The order within one
\* mutation is left open: Restore's is the order of a Go map.
publish(w) ==
    \E c \in pub[w] :
        /\ pub' = [pub EXCEPT ![w] = @ \ {c}]
        /\ subQ' = [s \in Subscribers |->
                      IF s \in subs THEN Offer(subQ[s], c) ELSE subQ[s]]
        /\ UNCHANGED <<values, rev, subs, batchSubs, batchQ, history>>

Subscribe(s) ==
    /\ s \notin subs
    /\ subs' = subs \cup {s}
    /\ subQ' = [subQ EXCEPT ![s] = << >>]
    /\ UNCHANGED <<values, rev, pub, batchSubs, batchQ, history>>

\* unsubscribe() closes the channel.  Its reader has stopped by then, or only
\* drains it on the way out.
Unsubscribe(s) ==
    /\ s \in subs
    /\ subs' = subs \ {s}
    /\ subQ' = [subQ EXCEPT ![s] = << >>]
    /\ UNCHANGED <<values, rev, pub, batchSubs, batchQ, history>>

\* The subscriber takes the oldest buffered change.
ReceiveChange(s) ==
    /\ subQ[s] # << >>
    /\ subQ' = [subQ EXCEPT ![s] = Tail(@)]
    /\ UNCHANGED <<values, rev, pub, subs, batchSubs, batchQ, history>>

\* Registration under mu and batchSubMu.  The caller also takes the values
\* and the revision of this very state (SubscribeBatchesWithSnapshot).
subscribeBatchesLocked(b) ==
    /\ b \notin batchSubs
    /\ batchSubs' = batchSubs \cup {b}
    /\ batchQ' = [batchQ EXCEPT ![b] = << >>]
    /\ UNCHANGED <<values, rev, pub, subs, subQ, history>>

unsubscribeBatches(b) ==
    /\ b \in batchSubs
    /\ batchSubs' = batchSubs \ {b}
    /\ batchQ' = [batchQ EXCEPT ![b] = << >>]
    /\ UNCHANGED <<values, rev, pub, subs, subQ, history>>

ReceiveBatch(b) ==
    /\ batchQ[b] # << >>
    /\ batchQ' = [batchQ EXCEPT ![b] = Tail(@)]
    /\ UNCHANGED <<values, rev, pub, subs, subQ, batchSubs, history>>

Mutate(w) ==
    \/ \E k \in Writable, v \in Values : Set(w, k, v)
    \/ \E S \in (SUBSET Writable) \ {{}} : \E writes \in [S -> Values] : SetBatch(w, writes)
    \/ Restore(w)

Next ==
    \/ \E w \in Writers : Mutate(w) \/ publish(w)
    \/ \E s \in Subscribers : Subscribe(s) \/ Unsubscribe(s) \/ ReceiveChange(s)
    \/ \E b \in BatchSubscribers :
          subscribeBatchesLocked(b) \/ unsubscribeBatches(b) \/ ReceiveBatch(b)

Spec == Init /\ [][Next]_storeVars

-----------------------------------------------------------------------------
\* Every variable has the shape the Go struct gives it.
TypeOK ==
    /\ values \in PointMap
    /\ rev \in 0..MaxRev
    /\ pub \in [Writers -> SUBSET Change]
    /\ subs \subseteq Subscribers
    /\ subQ \in [Subscribers -> Seq(Change)]
    /\ batchSubs \subseteq BatchSubscribers
    /\ batchQ \in [BatchSubscribers -> Seq(ChangeBatch)]
    /\ history \in [0..MaxRev -> PointMap]

\* A readback point always holds its setpoint's value: Set and SetBatch mirror
\* every write and no interleaving of mutations separates the two.
ReadbackMirrored == \A p \in ReadbackPoints : values[p] = values[SetpointOf[p]]

\* A queued batch is one whole mutation: applied to the values of the revision
\* before it, it gives the values of its own revision (ChangeBatch: a consumer
\* receives every change of a mutation or none).
BatchesAreWhole ==
    \A b \in BatchSubscribers : \A i \in DOMAIN batchQ[b] :
        LET m == batchQ[b][i]
        IN  /\ m.rev <= rev
            /\ history[m.rev] = Apply(history[m.rev - 1], m.changes)

\* The batches of one subscriber are in revision order, without duplicates, so
\* a dropped batch is visible as a gap (publishBatchLocked runs under mu).
BatchesInOrder ==
    \A b \in BatchSubscribers : \A i, j \in DOMAIN batchQ[b] :
        i < j => batchQ[b][i].rev < batchQ[b][j].rev

\* Every Change on its way to a point subscriber carries the revision of the
\* mutation that produced it: the store held exactly that value for that key
\* at that revision (Change.Rev).
ChangesAreStamped ==
    LET stamped(c) == c.rev <= rev /\ history[c.rev][c.key] = c.value
    IN  /\ \A w \in Writers : \A c \in pub[w] : stamped(c)
        /\ \A s \in Subscribers : \A i \in DOMAIN subQ[s] : stamped(subQ[s][i])

\* history is the past: its newest entry is the present.
HistoryIsCurrent == history[rev] = values

\* The inductive invariant: the properties above need one another and nothing
\* else.  (A queued batch is in order because every older one has a revision
\* at most rev; it is whole because history ends in values.)
StoreIInv ==
    /\ TypeOK
    /\ HistoryIsCurrent
    /\ ReadbackMirrored
    /\ BatchesAreWhole
    /\ BatchesInOrder
    /\ ChangesAreStamped
=============================================================================

------------------------------ MODULE EventHub ------------------------------
(***************************************************************************)
(* The journal of rare events (simulator/internal/controlapi/eventhub.go)  *)
(* and what a reconnecting client of GET /api/v1/events                    *)
(* (handleV1Events in v1.go) is sent from it.                              *)
(*                                                                         *)
(* Rare events and telemetry frames draw their IDs from one counter; only  *)
(* rare events are kept for replay.  A client is an EventSource: every     *)
(* frame it receives sets its Last-Event-ID, and after a broken connection *)
(* it asks for what came after that ID.  Payloads are left out.            *)
(***************************************************************************)
EXTENDS Naturals, Sequences

CONSTANTS
    Capacity,       \* the journal's capacity
    ChannelSize,    \* a subscriber's channel
    MaxID,          \* bound on the IDs drawn
    MaxReconnects,  \* bound on the number of broken connections
    Telemetry       \* does the store change while clients are connected?

ASSUME HubAssumption ==
    Capacity \in Nat \ {0} /\ ChannelSize \in Nat \ {0} /\ MaxID \in Nat /\ MaxReconnects \in Nat
        /\ Telemetry \in BOOLEAN

VARIABLES
    next,       \* the last ID drawn
    journal,    \* the IDs of the journal's events
    rare,       \* the connection's channel: [open, queue]
    frames,     \* frames written and not yet received: [id, type]
    client,     \* "off", "on"
    lastID,     \* the client's Last-Event-ID
    reconnects, \* connections broken so far
    published,  \* auxiliary: the IDs of all rare events, in order
    seen,       \* auxiliary: the rare events the client received, in order, since it last
                \*   started from scratch or was told to
    base,       \* auxiliary: the newest rare event at that moment
    through     \* auxiliary: the newest rare event when it last (re)connected

hubVars == <<next, journal, rare, frames, client, lastID, reconnects, published, seen, base, through>>

Frame(type, id) == [type |-> type, id |-> id]

Newest(s) == IF s = << >> THEN 0 ELSE s[Len(s)]

HubInit ==
    /\ next = 0 /\ journal = << >>
    /\ rare = [open |-> FALSE, queue |-> << >>]
    /\ frames = << >>
    /\ client = "off" /\ lastID = 0 /\ reconnects = 0
    /\ published = << >> /\ seen = << >> /\ base = 0 /\ through = 0

\* Mutant: a slow subscriber loses the event and stays connected.
offerDropping(id) ==
    rare' = IF rare.open /\ Len(rare.queue) < ChannelSize
            THEN [rare EXCEPT !.queue = Append(@, id)] ELSE rare

\* A slow subscriber is not skipped but cut off: its channel is closed.
offer(id) ==
    rare' = CASE ~rare.open -> rare
              [] rare.open /\ Len(rare.queue) < ChannelSize -> [rare EXCEPT !.queue = Append(@, id)]
              [] OTHER -> [rare EXCEPT !.open = FALSE]

hubPublish ==
    /\ next < MaxID
    /\ next' = next + 1
    /\ LET all == Append(journal, next') IN
         journal' = IF Len(all) > Capacity THEN Tail(all) ELSE all
    /\ offer(next')
    /\ published' = Append(published, next')
    /\ UNCHANGED <<frames, client, lastID, reconnects, seen, base, through>>

\* Mutant: off by one at the journal's old end.
mustResyncLate(last) ==
    last > next \/ (last > 0 /\ journal # << >> /\ last + 1 < Head(journal) - 1)

\* subscribe's verdict on a Last-Event-ID, and what it replays.
mustResync(last) ==
    last > next \/ (last > 0 /\ journal # << >> /\ last < Head(journal) - 1)

\* The scan for the events after an ID.
after(events, last) ==
    LET kept[i \in 0 .. Len(events)] ==
            IF i = 0 THEN << >>
            ELSE IF events[i] > last THEN Append(kept[i - 1], events[i])
            ELSE kept[i - 1]
    IN  kept[Len(events)]

replay(last) == IF mustResync(last) THEN << >> ELSE after(journal, last)

\* A request: subscribe, then the bootstrap frames.  The snapshot and the mark
\* that closes the replay carry ID 0.
connect ==
    /\ client = "off"
    /\ client' = "on"
    /\ rare' = [open |-> TRUE, queue |-> << >>]
    /\ frames' = << Frame("snapshot", 0) >> \o
          IF mustResync(lastID) THEN << Frame("resync_required", 0) >>
          ELSE [i \in DOMAIN replay(lastID) |-> Frame("rare", replay(lastID)[i])]
                 \o << Frame("initial_replay_complete", 0) >>
    /\ through' = Newest(published)
    /\ base' = IF reconnects = 0 THEN through' ELSE base
    /\ UNCHANGED <<next, journal, lastID, reconnects, published, seen>>

\* The handler writes the next rare event, or ends when its channel is closed
\* and empty, which the client notices like any broken connection.
writeRare ==
    /\ client = "on"
    /\ rare.queue # << >>
    /\ frames' = Append(frames, Frame("rare", Head(rare.queue)))
    /\ rare' = [rare EXCEPT !.queue = Tail(@)]
    /\ UNCHANGED <<next, journal, client, lastID, reconnects, published, seen, base, through>>

\* flushTelemetryFrame draws an ID of its own when the window closes.
flushTelemetryFrame ==
    /\ Telemetry
    /\ client = "on" /\ (rare.open \/ rare.queue # << >>)
    /\ next < MaxID
    /\ next' = next + 1
    /\ frames' = Append(frames, Frame("telemetry", next'))
    /\ UNCHANGED <<journal, rare, client, lastID, reconnects, published, seen, base, through>>

\* The client takes a frame.
receive ==
    /\ client = "on"
    /\ frames # << >>
    /\ LET f == Head(frames) IN
         /\ lastID' = f.id
         /\ seen' = CASE f.type = "rare" -> Append(seen, f.id)
                      [] f.type = "resync_required" -> << >>
                      [] OTHER -> seen
         /\ base' = IF f.type = "resync_required" THEN through ELSE base
    /\ frames' = Tail(frames)
    /\ UNCHANGED <<next, journal, rare, client, reconnects, published, through>>

\* The connection breaks, or the handler ends: frames in flight are lost.
disconnect ==
    /\ client = "on"
    /\ reconnects < MaxReconnects
    /\ reconnects' = reconnects + 1
    /\ client' = "off"
    /\ frames' = << >>
    /\ rare' = [open |-> FALSE, queue |-> << >>]
    /\ UNCHANGED <<next, journal, lastID, published, seen, base, through>>

HubNext == hubPublish \/ connect \/ writeRare \/ flushTelemetryFrame \/ receive \/ disconnect

HubSpec == HubInit /\ [][HubNext]_hubVars

-----------------------------------------------------------------------------
ids(s) == {s[i] : i \in DOMAIN s}
ascending(s) == \A i, j \in DOMAIN s : i < j => s[i] < s[j]

received == ids(seen)

\* The rare events on their way to the connected client.
rareFrames == {i \in DOMAIN frames : frames[i].type = "rare"}
sent == {frames[i].id : i \in rareFrames}
onTheWay == sent \cup ids(rare.queue)

\* While a subscription is open, what is under way is a gapless, duplicate-free
\* run of the newest rare events, oldest first, and every event since the
\* subscription has arrived or is under way: the replay and the channel join
\* seamlessly (subscribe registers and replays under one lock).
StreamIsGapless ==
    rare.open =>
        /\ \A i, j \in rareFrames : i < j => frames[i].id < frames[j].id
        /\ \A x \in sent, y \in ids(rare.queue) : x < y
        /\ ascending(rare.queue)
        /\ onTheWay \subseteq ids(published)
        /\ \A x \in onTheWay, y \in ids(published) : x < y => y \in onTheWay
        /\ \A y \in ids(published) : through < y => y \in received \cup onTheWay

\* A subscription that names a real ID and is not told to resynchronise is
\* replayed every later rare event, once and in order, whatever telemetry IDs lie
\* in between (subscribe's expiry test).
ReplayIsComplete ==
    \A last \in 1..next :
        ~mustResync(last) =>
            /\ ascending(replay(last))
            /\ ids(replay(last)) = {id \in ids(published) : last < id}

\* A client that has consumed its replay without being told to resynchronise
\* has received every rare event published while it was connected or away:
\* "a reconnect either gets every missed event or receives resync_required".
ReconnectMissesNothing ==
    client = "on" /\ ~(\E i \in DOMAIN frames :
                          frames[i].type \in {"rare", "resync_required", "initial_replay_complete"})
        => \A i \in DOMAIN published :
              base < published[i] /\ published[i] <= through => published[i] \in received
=============================================================================

--------------------------- MODULE HeartbeatFence ---------------------------
(***************************************************************************)
(* The IEC-104 server's spontaneous heartbeat pipeline under link faults:  *)
(* simulator/internal/iec104/heartbeat.go, linkstate.go and the connection *)
(* life cycle of server.go, driven by link operations                      *)
(* (linkfault.ApplyCoordinated, then FenceHeartbeat).                      *)
(*                                                                         *)
(* Goroutines: the physics tick (the store's writer), spontaneousLoop, the *)
(* accept loop, one reader and one hbLoop per connection, and one admin    *)
(* handler per link operation in flight.  linkCoord is `coord`; connMu is  *)
(* held across steps only by broadcast, every other critical section under *)
(* it is memory-only and one step; writer[c] is c's writeMu, held across a *)
(* socket write, which ends in success, in a deadline, or in an error.     *)
(*                                                                         *)
(* Values are abstracted away: a heartbeat frame is the store revision of  *)
(* the Change it was built from.                                           *)
(***************************************************************************)
EXTENDS Store

CONSTANTS
    Heartbeat,         \* linkfault.HeartbeatKey
    Feed,              \* the server's Subscribe() slot in the store
    Conns,             \* TCP connections, each used once
    Admins,            \* request handlers that apply link operations
    HeartbeatQueueSize,\* heartbeatQueueSize
    MaxOps,            \* bound on the number of link operations
    LinkOps,           \* the kinds of link operation an admin may apply
    None

ASSUME FenceAssumption ==
    /\ Heartbeat \in Writable
    /\ Feed \in Subscribers
    /\ HeartbeatQueueSize \in Nat \ {0}
    /\ LinkOps \subseteq {"pause", "clear", "drop", "hang"}
    /\ MaxOps \in Nat
    /\ Writers # {}
    /\ None \notin Conns \cup Admins \cup Writers \cup {"loop", "hbLoop", "reader"}

VARIABLES
    drop, hang, hbFrozen, \* linkState
    boundary,    \* heartbeatGenBoundaryRev
    coord,       \* the admin that holds linkCoord, or None
    loop,        \* spontaneousLoop: the Change in hand, what it is doing, whom it still owes
    conns,       \* s.conns
    open,        \* conn -> is our side of the socket open?
    peer,        \* conn -> "up", "half" (sends no more) or "down"
    reader,      \* conn -> where handleConn is
    started,     \* conn -> STARTDT completed
    writer,      \* conn -> who holds writeMu and is writing, or None
    hbQueue,     \* conn -> buffered hbMsg values
    inHand,      \* conn -> the frame hbLoop has dequeued and not yet sent, or None
    acked,       \* the acks hbLoop has closed
    pendingFenceAcks,
    admin,       \* admin -> where its link operation is
    ops,         \* the number of link operations so far; a barrier's generation
    gen,         \* auxiliary: number of heartbeat transitions so far
    genOf,       \* auxiliary: revision -> gen when it was committed
    paused,      \* auxiliary: the revisions committed while hbFrozen
    fenced,      \* auxiliary: the newest boundary whose FenceHeartbeat returned
    lastSent     \* conn -> the revision of the newest heartbeat its peer was sent

linkVars  == <<drop, hang, hbFrozen, boundary>>
connVars  == <<conns, open, peer, reader, started, writer, hbQueue, inHand, acked, lastSent>>
adminVars == <<coord, pendingFenceAcks, admin, ops, fenced>>
auxVars   == <<gen, genOf, paused>>
fenceVars == <<storeVars, linkVars, loop, connVars, adminVars, auxVars>>

Tick == CHOOSE w \in Writers : TRUE

\* connMu is taken, and stays taken across socket writes.
connMuHeld == loop.at = "broadcast"

Frame(r)         == [frame |-> r]
Barrier(conn, n) == [ack |-> <<conn, n>>]
IsBarrier(m)     == "ack" \in DOMAIN m

idleLoop  == [at |-> "recv", change |-> None, owes |-> {}]
idleAdmin == [at |-> "idle", op |-> None, boundary |-> 0, awaits |-> {}]

FenceInit ==
    /\ Init
    /\ drop = FALSE /\ hang = FALSE /\ hbFrozen = FALSE
    /\ boundary = 0
    /\ coord = None
    /\ loop = idleLoop
    /\ conns = {}
    /\ open = [c \in Conns |-> FALSE]
    /\ peer = [c \in Conns |-> "up"]
    /\ reader = [c \in Conns |-> "none"]
    /\ started = [c \in Conns |-> FALSE]
    /\ writer = [c \in Conns |-> None]
    /\ hbQueue = [c \in Conns |-> << >>]
    /\ inHand = [c \in Conns |-> None]
    /\ acked = {}
    /\ pendingFenceAcks = {}
    /\ admin = [a \in Admins |-> idleAdmin]
    /\ ops = 0
    /\ gen = 0
    /\ genOf = [r \in 0..MaxRev |-> 0]
    /\ paused = {}
    /\ fenced = 0
    /\ lastSent = [c \in Conns |-> 0]

-----------------------------------------------------------------------------
\* The store's side: the server subscribes, the tick commits and publishes.
Start ==
    /\ Subscribe(Feed)
    /\ UNCHANGED <<linkVars, loop, connVars, adminVars, auxVars>>

\* A physics tick: one SetBatch that counts the heartbeat up and moves others.
TickOnce ==
    /\ SetBatch(Tick, [p \in Writable |-> Zero])
    /\ genOf' = [genOf EXCEPT ![rev + 1] = gen]
    /\ paused' = IF hbFrozen THEN paused \cup {rev + 1} ELSE paused
    /\ UNCHANGED <<linkVars, loop, connVars, adminVars, gen>>

Publish ==
    /\ publish(Tick)
    /\ UNCHANGED <<linkVars, loop, connVars, adminVars, auxVars>>

-----------------------------------------------------------------------------
\* Mutant: one message too many, which would block.
FullLate(c) == Len(hbQueue[c]) > HeartbeatQueueSize

\* The channel has no room for a send that does not block.
Full(c) == Len(hbQueue[c]) = HeartbeatQueueSize

\* Mutant: the queue serves the newest message first.
enqueueOrDisconnectFirst(msgs) ==
    /\ hbQueue' = [c \in Conns |->
                     IF c \in conns /\ ~Full(c) THEN <<msgs[c]>> \o hbQueue[c] ELSE hbQueue[c]]
    /\ open' = [c \in Conns |-> open[c] /\ ~(c \in conns /\ Full(c))]

\* enqueueOrDisconnect for every registered connection c, of msgs[c]: a full
\* queue costs the connection its socket.
enqueueOrDisconnect(msgs) ==
    /\ hbQueue' = [c \in Conns |->
                     IF c \in conns /\ ~Full(c) THEN Append(hbQueue[c], msgs[c]) ELSE hbQueue[c]]
    /\ open' = [c \in Conns |-> open[c] /\ ~(c \in conns /\ Full(c))]

\* spontaneousLoop takes the next Change off its channel.
ReceiveNext ==
    /\ loop.at = "recv"
    /\ ReceiveChange(Feed)
    /\ LET c == Head(subQ[Feed]) IN
         loop' = [idleLoop EXCEPT !.change = c,
                                  !.at = IF c.key = Heartbeat THEN "admit" ELSE "lock"]
    /\ UNCHANGED <<linkVars, connVars, adminVars, auxVars>>

\* Mutant: the pause itself is not looked at.
DiscardsThawed(change) == change.rev <= boundary

\* Mutant: off by one at the boundary.
DiscardsOneMore(change) == change.rev <= boundary + 1 \/ hbFrozen

\* A heartbeat of a superseded generation, or of a pause, goes nowhere.
Discards(change) == change.rev <= boundary \/ hbFrozen

\* admitHeartbeat, whole, under linkCoord and connMu.
admitHeartbeat ==
    /\ loop.at = "admit"
    /\ coord = None
    /\ IF Discards(loop.change)
       THEN UNCHANGED <<hbQueue, open>>
       ELSE enqueueOrDisconnect([c \in Conns |-> Frame(loop.change.rev)])
    /\ loop' = idleLoop
    /\ UNCHANGED <<storeVars, linkVars, conns, peer, reader, started, writer, inHand, acked,
                   lastSent, adminVars, auxVars>>

\* broadcast of any other point: connMu, then sendIfStarted to each in turn.
broadcast ==
    /\ loop.at = "lock"
    /\ loop' = [loop EXCEPT !.at = "broadcast", !.owes = conns]
    /\ UNCHANGED <<storeVars, linkVars, connVars, adminVars, auxVars>>

broadcastTo(c) ==
    /\ loop.at = "broadcast"
    /\ c \in loop.owes
    /\ writer[c] = None
    /\ IF started[c]
       THEN writer' = [writer EXCEPT ![c] = "loop"] /\ UNCHANGED loop
       ELSE loop' = [loop EXCEPT !.owes = @ \ {c}] /\ UNCHANGED writer
    /\ UNCHANGED <<storeVars, linkVars, conns, open, peer, reader, started, hbQueue, inHand,
                   acked, lastSent, adminVars, auxVars>>

broadcastDone ==
    /\ loop.at = "broadcast"
    /\ loop.owes = {}
    /\ loop' = idleLoop
    /\ UNCHANGED <<storeVars, linkVars, connVars, adminVars, auxVars>>

-----------------------------------------------------------------------------
\* hbLoop: dequeue; a barrier is acknowledged at once.
hbLoop(c) ==
    /\ inHand[c] = None
    /\ hbQueue[c] # << >>
    /\ hbQueue' = [hbQueue EXCEPT ![c] = Tail(@)]
    /\ LET m == Head(hbQueue[c]) IN
         IF IsBarrier(m)
         THEN acked' = acked \cup {m.ack} /\ UNCHANGED inHand
         ELSE inHand' = [inHand EXCEPT ![c] = m.frame] /\ UNCHANGED acked
    /\ UNCHANGED <<storeVars, linkVars, loop, conns, open, peer, reader, started, writer,
                   lastSent, adminVars, auxVars>>

\* sendIfStarted of the frame in hand.
hbSend(c) ==
    /\ inHand[c] # None
    /\ writer[c] = None
    /\ IF started[c]
       THEN writer' = [writer EXCEPT ![c] = "hbLoop"] /\ UNCHANGED inHand
       ELSE inHand' = [inHand EXCEPT ![c] = None] /\ UNCHANGED writer
    /\ UNCHANGED <<storeVars, linkVars, loop, conns, open, peer, reader, started, hbQueue,
                   acked, lastSent, adminVars, auxVars>>

\* withWriteDeadline returns: the frame is out (and read, unless the peer is
\* down), or the deadline closed the socket, or the socket was closed.
writeEnds(c) ==
    /\ writer[c] # None
    /\ writer' = [writer EXCEPT ![c] = None]
    /\ \E written \in {open[c], FALSE} :
         /\ open' = [open EXCEPT ![c] = written]
         /\ lastSent' = IF writer[c] = "hbLoop" /\ written /\ peer[c] # "down"
                        THEN [lastSent EXCEPT ![c] = inHand[c]] ELSE lastSent
         /\ started' = IF reader[c] = "start" /\ writer[c] = "reader" /\ written
                       THEN [started EXCEPT ![c] = TRUE] ELSE started
    /\ inHand' = IF writer[c] = "hbLoop" THEN [inHand EXCEPT ![c] = None] ELSE inHand
    /\ loop' = IF writer[c] = "loop" THEN [loop EXCEPT !.owes = @ \ {c}] ELSE loop
    /\ reader' = IF writer[c] = "reader" THEN [reader EXCEPT ![c] = "read"] ELSE reader
    /\ UNCHANGED <<storeVars, linkVars, conns, peer, hbQueue, acked, adminVars, auxVars>>

-----------------------------------------------------------------------------
\* Mutant: the drop check is missed.
acceptConnUnchecked(c) ==
    /\ reader[c] = "none"
    /\ ~connMuHeld
    /\ conns' = conns \cup {c}
    /\ open' = [open EXCEPT ![c] = TRUE]
    /\ reader' = [reader EXCEPT ![c] = "read"]
    /\ UNCHANGED <<storeVars, linkVars, loop, peer, started, writer, hbQueue, inHand, acked,
                   lastSent, adminVars, auxVars>>

\* acceptLoop: the drop check and the registration are one section of connMu.
acceptConn(c) ==
    /\ reader[c] = "none"
    /\ ~connMuHeld
    /\ IF drop
       THEN reader' = [reader EXCEPT ![c] = "gone"] /\ UNCHANGED <<conns, open>>
       ELSE /\ conns' = conns \cup {c}
            /\ open' = [open EXCEPT ![c] = TRUE]
            /\ reader' = [reader EXCEPT ![c] = "read"]
    /\ UNCHANGED <<storeVars, linkVars, loop, peer, started, writer, hbQueue, inHand, acked,
                   lastSent, adminVars, auxVars>>

\* handleConn reads STARTDT or STOPDT; a hanging link ignores it.
readUFrame(c) ==
    /\ reader[c] = "read"
    /\ open[c] /\ peer[c] = "up"
    /\ ~hang
    /\ \E u \in {"start", "stop"} : reader' = [reader EXCEPT ![c] = u]
    /\ UNCHANGED <<storeVars, linkVars, loop, conns, open, peer, started, writer, hbQueue,
                   inHand, acked, lastSent, adminVars, auxVars>>

\* startDataTransfer / stopDataTransfer up to the confirmation's write.
startOrStopDataTransfer(c) ==
    /\ reader[c] \in {"start", "stop"}
    /\ writer[c] = None
    /\ writer' = [writer EXCEPT ![c] = "reader"]
    /\ started' = IF reader[c] = "stop" THEN [started EXCEPT ![c] = FALSE] ELSE started
    /\ UNCHANGED <<storeVars, linkVars, loop, conns, open, peer, reader, hbQueue, inHand,
                   acked, lastSent, adminVars, auxVars>>

\* The peer ends the connection, or only its own sending side.
peerCloses(c) ==
    /\ reader[c] # "none" /\ peer[c] = "up"
    /\ \E how \in {"down", "half"} : peer' = [peer EXCEPT ![c] = how]
    /\ UNCHANGED <<storeVars, linkVars, loop, conns, open, reader, started, writer, hbQueue,
                   inHand, acked, lastSent, adminVars, auxVars>>

\* handleConn's cleanup after a read error: unregister and close the queue
\* under connMu (hbLoop still drains it) ...
cleanup(c) ==
    /\ reader[c] = "read"
    /\ ~open[c] \/ peer[c] # "up"
    /\ ~connMuHeld
    /\ conns' = conns \ {c}
    /\ reader' = [reader EXCEPT ![c] = "close"]
    /\ UNCHANGED <<storeVars, linkVars, loop, open, peer, started, writer, hbQueue, inHand,
                   acked, lastSent, adminVars, auxVars>>

\* ... and then close the socket.
closeSocket(c) ==
    /\ reader[c] = "close"
    /\ open' = [open EXCEPT ![c] = FALSE]
    /\ reader' = [reader EXCEPT ![c] = "gone"]
    /\ UNCHANGED <<storeVars, linkVars, loop, conns, peer, started, writer, hbQueue, inHand,
                   acked, lastSent, adminVars, auxVars>>

-----------------------------------------------------------------------------
\* ApplyCoordinated: take linkCoord for the whole operation.
lockCoord(a) ==
    /\ admin[a].at = "idle"
    /\ coord = None
    /\ ops < MaxOps
    /\ ops' = ops + 1
    /\ coord' = a
    /\ \E op \in LinkOps :
         admin' = [admin EXCEPT ![a] = [idleAdmin EXCEPT !.at = "apply", !.op = op]]
    /\ UNCHANGED <<storeVars, linkVars, loop, connVars, pendingFenceAcks, fenced, auxVars>>

\* SetHeartbeatPause / ClearLinkFaults: the flip and the boundary are one
\* transaction on the store (WithCurrentRevision).
applyHeartbeatTransition(a) ==
    /\ admin[a].at = "apply"
    /\ admin[a].op \in {"pause", "clear"}
    /\ hbFrozen' = (admin[a].op = "pause")
    /\ drop' = (drop /\ admin[a].op = "pause")
    /\ hang' = (hang /\ admin[a].op = "pause")
    /\ admin' = [admin EXCEPT ![a].at = "bump", ![a].boundary = rev]
    /\ gen' = gen + 1
    /\ UNCHANGED <<storeVars, boundary, loop, connVars, coord, pendingFenceAcks, ops, fenced,
                   genOf, paused>>

\* Mutant: no barrier is waited for.
barriersOfNobody(n) == {}

\* Mutant: a connection that could not be given its barrier is waited for.
barriersOfAll(n) == {<<c, n>> : c \in conns}

\* The acks of a bump: connections whose queue was full are excluded.
barriersOf(n) == {<<c, n>> : c \in {d \in conns : ~Full(d)}}

\* bumpHeartbeatGeneration, and linkCoord is released.
bumpHeartbeatGeneration(a) ==
    /\ admin[a].at = "bump"
    /\ ~connMuHeld
    /\ boundary' = admin[a].boundary
    /\ enqueueOrDisconnect([c \in Conns |-> Barrier(c, ops)])
    /\ pendingFenceAcks' = pendingFenceAcks \cup barriersOf(ops)
    /\ coord' = None
    /\ admin' = [admin EXCEPT ![a].at = "fence"]
    /\ UNCHANGED <<storeVars, drop, hang, hbFrozen, loop, conns, peer, reader, started, writer,
                   inHand, acked, lastSent, ops, fenced, auxVars>>

\* SetDrop raises the flag ...
setDrop(a) ==
    /\ admin[a].at = "apply" /\ admin[a].op = "drop"
    /\ drop' = TRUE
    /\ admin' = [admin EXCEPT ![a].at = "closeAll"]
    /\ UNCHANGED <<storeVars, hang, hbFrozen, boundary, loop, connVars, coord,
                   pendingFenceAcks, ops, fenced, auxVars>>

\* ... and then closes every registered connection under connMu.
closeAll(a) ==
    /\ admin[a].at = "closeAll"
    /\ ~connMuHeld
    /\ open' = [c \in Conns |-> open[c] /\ c \notin conns]
    /\ coord' = None
    /\ admin' = [admin EXCEPT ![a].at = "fence"]
    /\ UNCHANGED <<storeVars, linkVars, loop, conns, peer, reader, started, writer, hbQueue,
                   inHand, acked, lastSent, pendingFenceAcks, ops, fenced, auxVars>>

setHang(a) ==
    /\ admin[a].at = "apply" /\ admin[a].op = "hang"
    /\ hang' = TRUE
    /\ coord' = None
    /\ admin' = [admin EXCEPT ![a].at = "fence"]
    /\ UNCHANGED <<storeVars, drop, hbFrozen, boundary, loop, connVars, pendingFenceAcks, ops,
                   fenced, auxVars>>

\* Mutant: the acks are taken and forgotten.
FenceHeartbeatNoWait(a) ==
    /\ admin[a].at = "fence"
    /\ pendingFenceAcks' = {}
    /\ admin' = [admin EXCEPT ![a].at = "wait"]
    /\ UNCHANGED <<storeVars, linkVars, loop, connVars, coord, ops, fenced, auxVars>>

\* FenceHeartbeat takes every ack accumulated so far, whoever they are for ...
FenceHeartbeat(a) ==
    /\ admin[a].at = "fence"
    /\ pendingFenceAcks' = {}
    /\ admin' = [admin EXCEPT ![a].at = "wait", ![a].awaits = pendingFenceAcks]
    /\ UNCHANGED <<storeVars, linkVars, loop, connVars, coord, ops, fenced, auxVars>>

\* ... and waits for all of them; then the link operation answers its caller.
fenceReturns(a) ==
    /\ admin[a].at = "wait"
    /\ admin[a].awaits \subseteq acked
    /\ fenced' = IF admin[a].boundary > fenced THEN admin[a].boundary ELSE fenced
    /\ admin' = [admin EXCEPT ![a] = idleAdmin]
    /\ UNCHANGED <<storeVars, linkVars, loop, connVars, coord, pendingFenceAcks, ops, auxVars>>

-----------------------------------------------------------------------------
spontaneousLoop ==
    \/ ReceiveNext \/ admitHeartbeat \/ broadcast \/ broadcastDone
    \/ \E c \in Conns : broadcastTo(c)

handleConn(c) ==
    \/ acceptConn(c) \/ readUFrame(c) \/ startOrStopDataTransfer(c)
    \/ cleanup(c) \/ closeSocket(c)

ApplyCoordinated(a) ==
    \/ lockCoord(a) \/ applyHeartbeatTransition(a) \/ bumpHeartbeatGeneration(a)
    \/ setDrop(a) \/ closeAll(a) \/ setHang(a)

FenceNext ==
    \/ Start \/ TickOnce \/ Publish
    \/ spontaneousLoop
    \/ \E c \in Conns :
          hbLoop(c) \/ hbSend(c) \/ writeEnds(c) \/ handleConn(c) \/ peerCloses(c)
    \/ \E a \in Admins : ApplyCoordinated(a) \/ FenceHeartbeat(a) \/ fenceReturns(a)

FenceSpec == FenceInit /\ [][FenceNext]_fenceVars

\* What the Go scheduler owes: a runnable goroutine runs, and a goroutine that
\* keeps asking for a mutex gets it (sync.Mutex's starvation mode).  A write
\* ends by its deadline.  Ticks, peers, clients, the accept loop and the
\* readers owe nothing, nor does spontaneousLoop between two broadcasts.
FenceFairness ==
    /\ WF_fenceVars(broadcastDone)
    /\ \A c \in Conns :
         /\ WF_fenceVars(hbLoop(c))
         /\ WF_fenceVars(writeEnds(c))
         /\ SF_fenceVars(hbSend(c))
         /\ SF_fenceVars(broadcastTo(c))
    /\ \A a \in Admins :
         /\ SF_fenceVars(bumpHeartbeatGeneration(a) \/ closeAll(a))
         /\ WF_fenceVars(applyHeartbeatTransition(a) \/ setDrop(a) \/ setHang(a)
                           \/ FenceHeartbeat(a) \/ fenceReturns(a))

FairFenceSpec == FenceSpec /\ FenceFairness

-----------------------------------------------------------------------------
HbMsg == [frame : 1..MaxRev] \cup [ack : Conns \X (1..MaxOps)]

\* Every variable has the shape its Go field gives it, and no heartbeat channel
\* is ever sent more than it can hold (a send there would block under connMu).
FenceTypeOK ==
    /\ TypeOK
    /\ drop \in BOOLEAN /\ hang \in BOOLEAN /\ hbFrozen \in BOOLEAN
    /\ boundary \in 0..MaxRev
    /\ coord \in Admins \cup {None}
    /\ loop \in [at : {"recv", "admit", "lock", "broadcast"},
                 change : Change \cup {None}, owes : SUBSET Conns]
    /\ conns \subseteq Conns
    /\ open \in [Conns -> BOOLEAN]
    /\ peer \in [Conns -> {"up", "half", "down"}]
    /\ reader \in [Conns -> {"none", "read", "start", "stop", "close", "gone"}]
    /\ started \in [Conns -> BOOLEAN]
    /\ writer \in [Conns -> {None, "loop", "hbLoop", "reader"}]
    /\ hbQueue \in [Conns -> Seq(HbMsg)] /\ \A c \in Conns : Len(hbQueue[c]) <= HeartbeatQueueSize
    /\ inHand \in [Conns -> (1..MaxRev) \cup {None}]
    /\ acked \subseteq Conns \X (1..MaxOps)
    /\ pendingFenceAcks \subseteq Conns \X (1..MaxOps)
    /\ admin \in [Admins -> [at : {"idle", "apply", "bump", "closeAll", "fence", "wait"},
                             op : LinkOps \cup {None},
                             boundary : 0..MaxRev,
                             awaits : SUBSET (Conns \X (1..MaxOps))]]
    /\ ops \in 0..MaxOps
    /\ gen \in 0..MaxOps
    /\ genOf \in [0..MaxRev -> 0..MaxOps]
    /\ paused \subseteq 1..MaxRev
    /\ fenced \in 0..MaxRev
    /\ lastSent \in [Conns -> 0..MaxRev]

\* The revisions of the heartbeat frames on their way to c's peer.
frames(c) ==
    {hbQueue[c][i].frame : i \in {j \in DOMAIN hbQueue[c] : ~IsBarrier(hbQueue[c][j])}}
      \cup ({inHand[c]} \ {None})

\* No heartbeat generated while heartbeat_pause was active is ever queued for
\* or sent to a client, not even after the pause is cleared (admitHeartbeat).
PausedHeartbeatsNeverLeave ==
    \A c \in Conns : (frames(c) \cup {lastSent[c]}) \cap paused = {}

\* Once drop is in force, no registered connection has an open socket, however
\* accepts race with it (acceptLoop, SetDrop).
DropClosesEverything ==
    drop /\ (\A a \in Admins : admin[a].at # "closeAll") => \A c \in conns : ~open[c]

\* admitHeartbeat discards a heartbeat only if it was generated under a pause
\* or before the latest pause or clear: a genuine one is never lost.
OnlyStaleHeartbeatsAreDiscarded ==
    [][ (loop.at = "admit" /\ loop'.at = "recv" /\ hbQueue' = hbQueue
            /\ \E c \in conns : ~Full(c))
        => genOf[loop.change.rev] < gen \/ loop.change.rev \in paused ]_fenceVars

\* Once FenceHeartbeat has returned to the caller of a pause, clear or reset,
\* no registered client is sent a heartbeat older than that operation
\* (linkfault.Target.FenceHeartbeat).  A client that has closed its sending side
\* is exempt once cleanup has unregistered it: no barrier covers the frames that
\* its hbLoop may still send before closeSocket.
NoStaleFrame ==
    [][\A c \in conns : lastSent'[c] # lastSent[c] => lastSent'[c] > fenced]_fenceVars

\* A client's heartbeats arrive in the order they were generated.
HeartbeatsInOrder == [][\A c \in Conns : lastSent'[c] >= lastSent[c]]_fenceVars

\* Every link operation that has been applied answers its caller: no peer and
\* no lost barrier keeps a fence waiting forever.
LinkOperationsReturn ==
    \A a \in Admins : admin[a].at # "idle" ~> admin[a].at = "idle"
=============================================================================

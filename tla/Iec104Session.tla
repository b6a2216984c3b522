--------------------------- MODULE Iec104Session ---------------------------
(***************************************************************************)
(* One IEC-104 connection: what its handleConn goroutine answers           *)
(* (simulator/internal/iec104/server.go), the frames and their sequence    *)
(* numbers (apci.go), the ASDUs (asdu.go), the spontaneous updates that    *)
(* spontaneousLoop and hbLoop (heartbeat.go) put on the same socket, and   *)
(* the client at the other end: any client, or ProbeGeneralInterrogation   *)
(* (probe.go).                                                             *)
(*                                                                         *)
(* The store's writers are the physics tick, this connection's commands,   *)
(* fault injections (faults/faults.go) and POST /reset.  A writer commits  *)
(* under the store's lock and publishes its Changes afterwards, one by     *)
(* one, still inside its gated operation; one that finds the channel of    *)
(* spontaneousLoop full is lost.                                           *)
(*                                                                         *)
(* What a heartbeat's way to the socket promises is HeartbeatFence's; here *)
(* heartbeats are numbered and written among the rest.                     *)
(* What the server has written the client has received: TCP keeps the      *)
(* order, and a delay shows the client nothing else.                       *)
(***************************************************************************)
EXTENDS Integers, FiniteSets, Sequences, Functions

CONSTANTS
    Points,
    Class,          \* point -> "alarm", "telemetry" or "setpoint"
    ObjAddr,        \* point -> its information object address, on the EMS
    EMS,            \* the common address of the device that takes commands
    Heartbeat,      \* linkfault.HeartbeatKey
    Readback,       \* setpoint -> the telemetry point that mirrors it
    Valid,          \* setpoint or alarm -> the values its writers' Validate accepts
    Values,         \* the values that commands and faults carry
    Injectors,      \* goroutines that inject or clear a fault
    SubscriberBufferSize,  \* the capacity of spontaneousLoop's channel
    HeartbeatQueueSize,    \* and of the connection's hbQueue
    Requests,       \* the frames a client may send
    LinkOps,        \* the link operations: "pause", "clear", "hang"
    Word,           \* 2^16
    MaxTicks,       \* bound on the physics ticks
    MaxFrames,      \* bound on the frames a client sends
    MaxOps,         \* bound on link operations, resets, faults and commands together
    None

\* How far ProbeGeneralInterrogation has come.
ProbePlaces == {"start", "startReply", "send", "wait", "confirmed", "data", "ok", "failed"}

ASSUME SessionAssumption ==
    /\ Heartbeat \in Points /\ Class[Heartbeat] = "telemetry"
    /\ IsFiniteSet(Points)
    /\ \A s \in DOMAIN Readback : Class[s] = "setpoint" /\ Readback[s] \in Points
    /\ Word \in Nat \ {0} /\ Word % 4 = 0
    /\ SubscriberBufferSize \in Nat \ {0} /\ HeartbeatQueueSize \in Nat \ {0}
    /\ \A p, q \in Points : ObjAddr[p] \in Nat /\ (ObjAddr[p] = ObjAddr[q] => p = q)
    /\ \A r \in Requests : /\ r.kind \in {"U", "S", "I", "malformed"}
                           /\ r.kind = "I" => r.type \in {"C_IC", "C_S", "junk"}
    /\ None \notin ProbePlaces

VARIABLES
    value,       \* the store
    version,     \* auxiliary: point -> how often it has been given a value
    changes,     \* the Changes in spontaneousLoop's channel: [key, value, version]
    pub,         \* writer -> the Changes it has committed and not yet published
    lost,        \* auxiliary: points whose last Change found the channel full
    hbQueue,     \* the heartbeats admitted for this connection
    frozen,      \* linkState: the heartbeat override, or None
    hang,        \* linkState.hang
    boundary,    \* heartbeatGenBoundaryRev: the heartbeat's version then
    reset,       \* where POST /reset is
    open,        \* is our side of the socket open?
    started, sendSeq, recvSeq,  \* clientConn's fields
    reader,      \* handleConn: where it is, and its locals
    loop,        \* spontaneousLoop and hbLoop: which of them writes, and its frame
    client,      \* what the client has sent and received
    probe,       \* where ProbeGeneralInterrogation is, None for another client
    ticks, ops,  \* bounded counters
    newest,      \* auxiliary: point -> the newest version the client was told
    overtaken    \* auxiliary: points of which the client was told an older value last

storeVars == <<value, version, changes, pub, lost, hbQueue>>
linkVars  == <<frozen, hang, boundary, reset>>
connVars  == <<open, started, sendSeq, recvSeq>>
tellVars  == <<client, probe, newest, overtaken>>
vars == <<storeVars, linkVars, connVars, reader, loop, tellVars, ticks, ops>>

\* Who calls Set, SetBatch or Restore.
Writers == Injectors \cup {"tick", "command", "reset"}

Monitored == {p \in Points : Class[p] # "setpoint"}

\* The points of a set in the order of their addresses, which are unique.
byAddress(S) ==
    [i \in 1..Cardinality(S) |->
       CHOOSE p \in S : Cardinality({q \in S : ObjAddr[q] < ObjAddr[p]}) = i - 1]

\* handleConn: the frame under way and its N(S), the snapshot (and, auxiliary,
\* what a reader saw at that moment), the ASDUs it has yet to write, and the
\* one it is writing.
reading == [at |-> "read", frame |-> None, ns |-> 0, snap |-> None, versions |-> None,
            view |-> None, todo |-> << >>, sending |-> None]
idle    == [at |-> "recv", by |-> None, sending |-> None]

Init ==
    /\ value = [p \in Points |-> 0] /\ version = [p \in Points |-> 1]
    /\ changes = << >> /\ pub = [w \in Writers |-> << >>] /\ lost = {} /\ hbQueue = << >>
    /\ frozen = None /\ hang = FALSE /\ boundary = 0 /\ reset = "idle"
    /\ open = TRUE /\ started = FALSE /\ sendSeq = 0 /\ recvSeq = 0
    /\ reader = reading
    /\ loop = idle
    /\ client = [sent |-> 0, frames |-> 0, next |-> 0, acked |-> 0, inOrder |-> TRUE,
                 active |-> FALSE, told |-> [p \in Monitored |-> None], caughtUp |-> FALSE]
    /\ probe \in {None, "start"}
    /\ ticks = 0 /\ ops = 0
    /\ newest = [p \in Monitored |-> 0] /\ overtaken = {}

-----------------------------------------------------------------------------
\* The gate's shared side, closed to newcomers while a reset waits or holds,
\* linkfault.Coordinator, and clientConn.writeMu.
GateOpen  == reset \notin {"waits", "restore", "clear"}
GateEmpty == (\A w \in Writers : pub[w] = << >>) /\ reader.at # "override"

\* Mutant: an interrogation does not wait for link operations or resets.
CoordAlwaysFree == TRUE

CoordFree == reset = "idle" /\ reader.at # "override"

\* Mutant: whoever has a frame writes it.
WriteMuIgnored == TRUE

WriteMuFree == reader.at \notin {"writing", "startdt"} /\ loop.at # "writing"

-----------------------------------------------------------------------------
\* Mutant: the number is not shifted past the format bit.
encodeSeqUnshifted(seq) == seq

\* apci.go: a control field of sixteen bits holds fifteen of a sequence number.
encodeSeq(seq) == (2 * seq) % Word
decodeSeq(field) == field \div 2

\* The peer's idea of the number that follows.
nextSeq(seq) == (seq + 1) % (Word \div 2)

\* asdu.go and monitoredASDU: a report of one point, and the answers to an
\* interrogation and to a command.  An alarm is reported as one bit.
shown(p, v) == IF Class[p] = "alarm" /\ v # 0 THEN 1 ELSE v
monitoredASDU(p, v, cot, n) ==
    [type |-> "M", key |-> p, cot |-> cot, version |-> n, value |-> shown(p, v)]
buildCICNA1(cot) == [type |-> "C_IC", cot |-> cot]
commandASDU(cot) == [type |-> "C_S", cot |-> cot]

IFrame(asdu) == [ns |-> encodeSeq(sendSeq), nr |-> encodeSeq(recvSeq), asdu |-> asdu]

-----------------------------------------------------------------------------
\* ProbeGeneralInterrogation's view of a frame it reads.
probeReads(kind, cot) ==
    probe' = CASE probe = "startReply" /\ kind = "STARTDT_CON" -> "send"
               [] probe = "startReply" /\ kind # "STARTDT_CON" -> "failed"
               [] probe = "wait" /\ cot = "act_con" -> "confirmed"
               [] probe = "confirmed" /\ cot = "interrogated" -> "data"
               [] probe \in {"wait", "confirmed"} /\ cot = "act_term" -> "failed"
               [] probe = "data" /\ cot = "act_term" -> "ok"
               [] OTHER -> probe

\* The client reads an acknowledgement, on its own or in an I-frame: it covers
\* no frame the client has not sent, and none less than before.
newlyAcked(nr) == (decodeSeq(nr) - client.acked) % (Word \div 2)
plausible(nr) == newlyAcked(nr) <= client.sent - client.acked

clientReadsI(f) ==
    /\ client' = [client EXCEPT
         !.next = nextSeq(decodeSeq(f.ns)),
         !.acked = @ + newlyAcked(f.nr),
         !.inOrder = @ /\ decodeSeq(f.ns) = client.next /\ plausible(f.nr),
         !.told = IF f.asdu.type = "M" THEN [@ EXCEPT ![f.asdu.key] = f.asdu.value] ELSE @,
         !.caughtUp = @ \/ (client.active /\ f.asdu.cot = "act_term" /\ reader.frame.ca = EMS)]
    /\ IF f.asdu.type = "M"
       THEN LET p == f.asdu.key IN
            /\ overtaken' = IF f.asdu.version < newest[p] THEN overtaken \cup {p} ELSE overtaken \ {p}
            /\ newest' = [newest EXCEPT ![p] = IF f.asdu.version > @ THEN f.asdu.version ELSE @]
       ELSE UNCHANGED <<overtaken, newest>>
    /\ probeReads("I", f.asdu.cot)

clientReadsS ==
    /\ client' = [client EXCEPT !.acked = @ + newlyAcked(encodeSeq(recvSeq)),
                                !.inOrder = @ /\ plausible(encodeSeq(recvSeq))]
    /\ probeReads("S", "none")
    /\ UNCHANGED <<overtaken, newest>>

clientReadsU(u, active) ==
    /\ client' = [client EXCEPT !.active = active, !.caughtUp = @ /\ active]
    /\ probeReads(u, "none")
    /\ UNCHANGED <<overtaken, newest>>

\* writeIFrameLocked, under withWriteDeadline: the frame is out and counted, or
\* the socket is closed.
writeEnds(f) ==
    \/ /\ open
       /\ clientReadsI(f)
       /\ sendSeq' = (sendSeq + 1) % Word
       /\ UNCHANGED <<open, started, recvSeq>>
    \/ /\ open' = FALSE
       /\ UNCHANGED <<started, sendSeq, recvSeq, tellVars>>

-----------------------------------------------------------------------------
\* The client sends a frame, and handleConn reads it.
STARTDT == [kind |-> "U", u |-> "STARTDT"]
interrogate(ca) == [kind |-> "I", type |-> "C_IC", ca |-> ca]

\* A client has no more frames unacknowledged than the numbers tell apart.
sends(request) ==
    /\ client.frames < MaxFrames
    /\ (request.kind = "I" /\ request.type = "C_S") => ops < MaxOps
    /\ request.kind = "I" => client.sent - client.acked < (Word \div 2) - 1
    /\ probe # None => \/ probe = "start" /\ request = STARTDT
                       \/ probe = "send" /\ request = interrogate(EMS)

clientSent(request) ==
    /\ client' = [client EXCEPT !.frames = @ + 1, !.sent = IF request.kind = "I" THEN @ + 1 ELSE @]
    /\ probe' = CASE probe = "start" -> "startReply" [] probe = "send" -> "wait" [] OTHER -> probe

\* readFrame; a hanging link swallows what it read, and a bad start byte, length
\* or control field ends the connection.
readFrame(request) ==
    /\ reader.at = "read" /\ open
    /\ sends(request)
    /\ clientSent(request)
    /\ IF request.kind = "malformed" THEN open' = FALSE /\ UNCHANGED reader
       ELSE /\ reader' = IF hang THEN reader
                         ELSE [reader EXCEPT !.at = request.kind,
                                             !.frame = request,
                                             !.ns = client.sent % (Word \div 2)]
            /\ UNCHANGED open
    /\ UNCHANGED <<storeVars, linkVars, started, sendSeq, recvSeq, loop, newest, overtaken, ticks,
                   ops>>

\* Any other error of readFrame: the deferred calls take the connection off the
\* table, under the connMu that broadcast holds across its write.  What hbQueue
\* still holds meets a closed socket.
connectionEnds ==
    /\ reader.at = "read" /\ ~open
    /\ loop.by # "spontaneousLoop"
    /\ reader' = [reading EXCEPT !.at = "gone"]
    /\ UNCHANGED <<storeVars, linkVars, connVars, loop, tellVars, ticks, ops>>

-----------------------------------------------------------------------------
\* handleConn's switch; a delayed link sleeps first.
readerVars == <<storeVars, linkVars, loop, ticks, ops>>

goto(place) == reader' = [reader EXCEPT !.at = place]

\* A short write: it reaches the client, or it fails and is ignored, and a
\* failure that is a timeout closes the socket.
writeShort(received) ==
    \/ open /\ received /\ UNCHANGED open
    \/ open' = FALSE /\ UNCHANGED tellVars

\* Mutant: the confirmation is written in a section of its own.
confirmApart ==
    /\ reader.at = "U" /\ reader.frame = STARTDT /\ WriteMuFree
    /\ writeShort(clientReadsU("STARTDT_CON", TRUE))
    /\ reader' = IF open' THEN [reader EXCEPT !.at = "confirmed"] ELSE reading
    /\ UNCHANGED <<readerVars, started, sendSeq, recvSeq>>

\* Mutant: the connection counts as started before its confirmation is written.
startsFirst ==
    /\ reader.at = "U" /\ reader.frame = STARTDT
    /\ started' = TRUE
    /\ IF started /\ WriteMuFree
       THEN writeShort(clientReadsU("STARTDT_CON", TRUE)) /\ reader' = reading
       ELSE UNCHANGED <<tellVars, open, reader>>
    /\ UNCHANGED <<readerVars, sendSeq, recvSeq>>

\* startDataTransfer: writeMu is held from the confirmation ...
confirmStart ==
    /\ reader.at = "U" /\ reader.frame = STARTDT /\ WriteMuFree
    /\ writeShort(clientReadsU("STARTDT_CON", TRUE))
    /\ reader' = IF open' THEN [reader EXCEPT !.at = "startdt"] ELSE reading
    /\ UNCHANGED <<readerVars, started, sendSeq, recvSeq>>

\* ... until started is set.
startDataTransfer ==
    /\ reader.at \in {"startdt", "confirmed"}
    /\ started' = TRUE
    /\ reader' = reading
    /\ UNCHANGED <<readerVars, tellVars, open, sendSeq, recvSeq>>

stopDataTransfer ==
    /\ reader.at = "U" /\ reader.frame.u = "STOPDT" /\ WriteMuFree
    /\ started' = FALSE
    /\ writeShort(clientReadsU("STOPDT_CON", FALSE))
    /\ reader' = reading
    /\ UNCHANGED <<readerVars, sendSeq, recvSeq>>

testFrame ==
    /\ reader.at = "U" /\ reader.frame.u = "TESTFR" /\ WriteMuFree
    /\ writeShort(clientReadsU("TESTFR_CON", client.active))
    /\ reader' = reading
    /\ UNCHANGED <<readerVars, started, sendSeq, recvSeq>>

\* Acknowledgements from the client, and U-frames that ask nothing.
ignoresFrame ==
    /\ \/ reader.at = "S"
       \/ reader.at = "U" /\ reader.frame.u = "TESTFR_CON"
    /\ reader' = reading
    /\ UNCHANGED <<readerVars, connVars, tellVars>>

setRecvSeq ==
    /\ reader.at = "I" /\ WriteMuFree
    /\ recvSeq' = (reader.ns + 1) % Word
    /\ goto("ack")
    /\ UNCHANGED <<readerVars, tellVars, open, started, sendSeq>>

writeSFrame ==
    /\ reader.at = "ack" /\ WriteMuFree
    /\ writeShort(clientReadsS)
    /\ goto("asdu")
    /\ UNCHANGED <<readerVars, started, sendSeq, recvSeq>>

-----------------------------------------------------------------------------
\* handleASDU: what does not parse, what is no known type, and an
\* interrogation that is not of the station, is dropped.
handleASDU ==
    /\ reader.at = "asdu"
    /\ reader' = CASE reader.frame.type = "junk" -> reading
                   [] reader.frame.type = "C_S" -> [reader EXCEPT !.at = "command"]
                   [] reader.frame.type = "C_IC" ->
                        [reader EXCEPT !.at = "write", !.todo = <<buildCICNA1("act_con")>>]
    /\ UNCHANGED <<readerVars, connVars, tellVars>>

\* writeIFrame takes writeMu and numbers the frame, a command's answer after
\* writePoint has returned ...
writeIFrame ==
    /\ reader.at = "write" /\ reader.todo # << >> /\ WriteMuFree
    /\ pub["command"] = << >>
    /\ reader' = [reader EXCEPT !.at = "writing", !.sending = IFrame(Head(reader.todo)),
                                !.todo = Tail(@)]
    /\ UNCHANGED <<readerVars, connVars, tellVars>>

\* ... and counts it when it is out.
writeIFrameLocked ==
    /\ reader.at = "writing"
    /\ writeEnds(reader.sending)
    /\ reader' = [reader EXCEPT !.at = "write", !.sending = None]
    /\ UNCHANGED readerVars

\* After the activation confirmation comes the snapshot, after the rest the
\* next frame.
written ==
    /\ reader.at = "write" /\ reader.todo = << >>
    /\ reader' = IF reader.frame.type = "C_IC" /\ reader.snap = None
                 THEN [reader EXCEPT !.at = "snapshot"] ELSE reading
    /\ UNCHANGED <<readerVars, connVars, tellVars>>

-----------------------------------------------------------------------------
\* handleGeneralInterrogation: the snapshot and the heartbeat override are
\* read under linkCoord and the gate.
Overlaid(v, f) == IF f = None THEN v ELSE [v EXCEPT ![Heartbeat] = f]

SnapshotDevice ==
    /\ reader.at = "snapshot" /\ CoordFree /\ GateOpen
    /\ reader' = [reader EXCEPT !.at = "override",
                                !.snap = IF reader.frame.ca = EMS THEN value ELSE << >>,
                                !.versions = version,
                                !.view = Overlaid(value, frozen)]
    /\ UNCHANGED <<readerVars, connVars, tellVars>>

\* The points of the device in the order of their addresses, setpoints left out.
reports(snap) ==
    LET keys == byAddress(DOMAIN snap \cap Monitored)
    IN  [i \in DOMAIN keys |->
           monitoredASDU(keys[i], snap[keys[i]], "interrogated", reader.versions[keys[i]])]

heartbeatOverride ==
    /\ reader.at = "override"
    /\ LET snap == IF Heartbeat \in DOMAIN reader.snap THEN Overlaid(reader.snap, frozen)
                                                       ELSE reader.snap
       IN  reader' = [reader EXCEPT !.at = "write", !.snap = snap,
                                    !.todo = Append(reports(snap), buildCICNA1("act_term"))]
    /\ UNCHANGED <<readerVars, connVars, tellVars>>

-----------------------------------------------------------------------------
\* A writer's commit, and the Changes it then has to publish; a setpoint takes
\* its readback along.
commit(new) ==
    /\ value' = [p \in Points |-> IF p \in DOMAIN new THEN new[p] ELSE value[p]]
    /\ version' = [p \in Points |-> IF p \in DOMAIN new THEN version[p] + 1 ELSE version[p]]
    /\ lost' = lost \ DOMAIN new
    /\ UNCHANGED <<changes, hbQueue>>

published(new) ==
    LET keys == byAddress(DOMAIN new)
    IN  [i \in DOMAIN keys |->
           [key |-> keys[i], value |-> new[keys[i]], version |-> version[keys[i]] + 1]]

\* A writer has published its last write when it comes to the next.
writes(w, new) == pub[w] = << >> /\ commit(new) /\ pub' = [pub EXCEPT ![w] = published(new)]

\* publish: a select with a default.
publish(w) ==
    /\ pub[w] # << >>
    /\ pub' = [pub EXCEPT ![w] = Tail(@)]
    /\ LET c == Head(pub[w])
           fits == Len(changes) < SubscriberBufferSize
       IN  /\ changes' = IF fits THEN Append(changes, c) ELSE changes
           /\ lost' = IF fits \/ c.version # version[c.key] THEN lost ELSE lost \cup {c.key}
    /\ UNCHANGED <<value, version, hbQueue, linkVars, connVars, reader, loop, tellVars, ticks, ops>>

justOne(p, v) == [q \in {p} |-> v]
withReadback(s, v) == [q \in {s, Readback[s]} |-> v]

\* writePoint: only a setpoint of the EMS is.
writable(cmd) == {p \in Points : cmd.ca = EMS /\ ObjAddr[p] = cmd.ioa /\ Class[p] = "setpoint"}

\* handleSingleCommand and handleSetpointCommand, with negativeCOT.
command ==
    LET cmd == reader.frame
        answer(cot) == reader' = [reader EXCEPT !.at = "write", !.todo = <<commandASDU(cot)>>]
    IN
    /\ reader.at = "command"
    /\ GateOpen
    /\ \/ /\ writable(cmd) = {}
          /\ answer("unknown_ioa") /\ UNCHANGED storeVars
       \/ \E p \in writable(cmd) :
             IF p \in DOMAIN Valid /\ cmd.value \notin Valid[p]
             THEN answer("refused") /\ UNCHANGED storeVars
             ELSE LET new == IF p \in DOMAIN Readback THEN withReadback(p, cmd.value)
                                                      ELSE justOne(p, cmd.value)
                  IN  writes("command", new) /\ answer("act_con")
    /\ ops' = ops + 1
    /\ UNCHANGED <<linkVars, connVars, loop, tellVars, ticks>>

\* A physics tick writes the telemetry it computes.
Tick ==
    LET new == [p \in {q \in Points : Class[q] = "telemetry" /\ q \notin Range(Readback)}
                   |-> ticks + 1]
    IN
    /\ GateOpen /\ ticks < MaxTicks
    /\ ticks' = ticks + 1
    /\ writes("tick", new)
    /\ UNCHANGED <<linkVars, connVars, reader, loop, tellVars, ops>>

\* faults.Injector: Inject, or Clear with the value 0; resolveAlarm and
\* validateValue have let it pass.
Inject(i, p, v) ==
    /\ GateOpen /\ ops < MaxOps
    /\ Class[p] = "alarm" /\ v \in Valid[p] \cup {0}
    /\ ops' = ops + 1
    /\ writes(i, justOne(p, v))
    /\ UNCHANGED <<linkVars, connVars, reader, loop, tellVars, ticks>>

-----------------------------------------------------------------------------
\* spontaneousLoop takes the next Change, unless it is writing the last one.
nextChange == loop.by # "spontaneousLoop" /\ changes # << >> /\ changes' = Tail(changes)
loopVars == <<value, version, pub, lost, linkVars, reader, tellVars, ticks, ops>>

\* A setpoint is not monitored, and with our connection gone there is none to
\* broadcast to or to admit a heartbeat for.
loopSkips ==
    /\ nextChange
    /\ Head(changes).key \notin Monitored \/ reader.at = "gone"
    /\ UNCHANGED <<loopVars, hbQueue, connVars, loop>>

\* admitHeartbeat, under linkCoord: paused or stale it is discarded, and a full
\* hbQueue costs the connection.
admitHeartbeat ==
    /\ nextChange
    /\ Head(changes).key = Heartbeat /\ reader.at # "gone" /\ CoordFree
    /\ LET c == Head(changes)
           admitted == c.version > boundary /\ frozen = None
           fits == Len(hbQueue) < HeartbeatQueueSize
       IN  /\ hbQueue' = IF admitted /\ fits THEN Append(hbQueue, c) ELSE hbQueue
           /\ IF admitted /\ ~fits THEN open' = FALSE ELSE UNCHANGED open
    /\ UNCHANGED <<loopVars, started, sendSeq, recvSeq, loop>>

\* sendIfStarted, which writes under the writeMu it looks at started with.
sendIfStarted(goroutine, c) ==
    /\ reader.at # "gone" /\ WriteMuFree
    /\ loop' = IF started
               THEN [at |-> "writing", by |-> goroutine,
                     sending |-> IFrame(monitoredASDU(c.key, c.value, "spontaneous", c.version))]
               ELSE loop
    /\ UNCHANGED <<loopVars, connVars>>

broadcast ==
    /\ nextChange
    /\ Head(changes).key \in Monitored \ {Heartbeat}
    /\ sendIfStarted("spontaneousLoop", Head(changes))
    /\ UNCHANGED hbQueue

\* hbLoop takes the next heartbeat of its queue; its barriers write nothing.
hbLoop ==
    /\ hbQueue # << >> /\ hbQueue' = Tail(hbQueue)
    /\ sendIfStarted("hbLoop", Head(hbQueue))
    /\ UNCHANGED changes

loopWrites ==
    /\ loop.at = "writing"
    /\ writeEnds(loop.sending)
    /\ loop' = idle
    /\ UNCHANGED <<storeVars, linkVars, reader, ticks, ops>>

-----------------------------------------------------------------------------
\* A link operation, whole under linkCoord; applyHeartbeatTransition.
newBoundary == boundary' = version[Heartbeat]

LinkOp(op) ==
    /\ CoordFree /\ ops < MaxOps
    /\ ops' = ops + 1
    /\ \/ op = "pause" /\ frozen' = value[Heartbeat] /\ newBoundary /\ UNCHANGED hang
       \/ op = "hang" /\ hang' = TRUE /\ UNCHANGED <<frozen, boundary>>
       \/ op = "clear" /\ frozen' = None /\ newBoundary /\ hang' = FALSE
    /\ UNCHANGED <<storeVars, reset, connVars, reader, loop, tellVars, ticks>>

\* POST /reset takes linkCoord, waits at the gate, restores the store and
\* clears the link faults.
resetBegins ==
    /\ CoordFree /\ ops < MaxOps
    /\ reset' = "waits" /\ ops' = ops + 1
    /\ UNCHANGED <<storeVars, frozen, hang, boundary, connVars, reader, loop, tellVars, ticks>>

resetEnters ==
    /\ reset = "waits" /\ GateEmpty
    /\ reset' = "restore"
    /\ UNCHANGED <<storeVars, frozen, hang, boundary, connVars, reader, loop, tellVars, ticks, ops>>

\* Mutant: the restored values are not published one by one.
restoreQuietly(new) == commit(new) /\ UNCHANGED pub

restore(new) == writes("reset", new)

resetRestores ==
    /\ reset = "restore"
    /\ restore([p \in {q \in Points : value[q] # 0} |-> 0])
    /\ reset' = "clear"
    /\ UNCHANGED <<frozen, hang, boundary, connVars, reader, loop, tellVars, ticks, ops>>

resetClears ==
    /\ reset = "clear" /\ pub["reset"] = << >>
    /\ frozen' = None /\ newBoundary /\ hang' = FALSE /\ reset' = "idle"
    /\ UNCHANGED <<storeVars, connVars, reader, loop, tellVars, ticks, ops>>

-----------------------------------------------------------------------------
handleConn ==
    \/ \E request \in Requests : readFrame(request)
    \/ connectionEnds
    \/ confirmStart \/ startDataTransfer \/ stopDataTransfer \/ testFrame \/ ignoresFrame
    \/ setRecvSeq \/ writeSFrame \/ handleASDU
    \/ writeIFrame \/ writeIFrameLocked \/ written
    \/ SnapshotDevice \/ heartbeatOverride
    \/ command

updateLoops == loopSkips \/ admitHeartbeat \/ broadcast \/ hbLoop \/ loopWrites

doReset == resetBegins \/ resetEnters \/ resetRestores \/ resetClears

Next ==
    \/ handleConn
    \/ updateLoops
    \/ Tick
    \/ \E w \in Writers : publish(w)
    \/ \E i \in Injectors, p \in Points, v \in Values : Inject(i, p, v)
    \/ \E op \in LinkOps : LinkOp(op)
    \/ doReset

Spec == Init /\ [][Next]_vars

-----------------------------------------------------------------------------
\* The frames reach the client numbered one after another, whoever writes them
\* and wherever sixteen bits wrap, and acknowledge what the client has sent, no
\* more and never less than before (writeIFrameLocked, setRecvSeq).
SequenceUnbroken == client.inOrder

\* A spontaneous update is passed over only while the client has no
\* confirmation that it is subscribed, and sent only while it has
\* (sendIfStarted, startDataTransfer, stopDataTransfer).
UpdatesExactlyWhileConfirmed ==
    [][/\ (broadcast \/ hbLoop) /\ loop' = loop /\ open => ~client.active
       /\ loopWrites /\ client' # client => client.active]_vars

\* What an interrogation reports, the heartbeat override included, is what a
\* reader saw at one moment, and not in the middle of a reset
\* (handleGeneralInterrogation).
InterrogationIsOneInstant ==
    [][reader.at = "override" /\ reader' # reader /\ DOMAIN reader.snap = Points
         => reset = "idle" /\ reader'.snap = reader.view]_vars

settled == changes = << >> /\ loop = idle /\ reader.at = "read" /\ open
           /\ \A w \in Writers : pub[w] = << >>

\* The channel was full for a point's last Change, and no interrogation has made
\* up for it since.
missed == {p \in lost \cap Monitored : newest[p] < version[p]}

\* A subscribed client that has been interrogated has the store's value of every
\* point once everything is published and written, but for the points of which
\* an older value overtook a newer one, and those whose last Change was lost and
\* not made up for (publish, Subscribe's catch-up by general interrogation).
\* The heartbeat is a pause's to freeze.
ClientIsCurrent ==
    settled /\ client.caughtUp =>
        \A p \in Monitored \ (overtaken \cup missed \cup {Heartbeat}) :
            client.told[p] = shown(p, value[p])

\* The probe of an open connection is never told what it takes for a failure,
\* whatever else the server sends (ProbeGeneralInterrogation).
ProbeNeverFails == probe # "failed"
=============================================================================

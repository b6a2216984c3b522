---------------------------- MODULE SessionProofs ----------------------------
(***************************************************************************)
(* Theorems about Iec104Session, for any points, requests, link operations *)
(* and bounds: an interrogation reports one instant, spontaneous updates   *)
(* go to the client exactly while it is confirmed, the sequence numbers    *)
(* are unbroken, the probe is served, and a subscribed client stays        *)
(* current.                                                                *)
(*                                                                         *)
(* The first two follow from who holds which lock at which place of        *)
(* handleConn.  InstantInv carries the snapshot from where it is taken to  *)
(* where the heartbeat is laid over it; SubscribedInv compares what the    *)
(* server calls started with what the client was told, while the socket is *)
(* open.                                                                   *)
(*                                                                         *)
(* The others are layers of invariants, each kept by every step under      *)
(* those below it: ShapeInv (where the goroutines are and what they hold), *)
(* SequenceInv, StoreInv and StoreTrue (no Change on its way is newer than *)
(* the store, and every last write is on its way until the loop takes it,  *)
(* or is lost at the full channel), ProbeInv, FrameInv (what the frames    *)
(* say of the store), ToldInv and CurrentInv (each point is told, on its   *)
(* way to the client, or lost).                                            *)
(***************************************************************************)
EXTENDS Iec104Session, FiniteSetTheorems, TLAPS

\* The steps of the writers that only touch the store and its Changes, the
\* Changes that the loops write or pass over, and those that nobody is sent.
Publishing == \/ \E w \in Writers : publish(w)
              \/ \E i \in Injectors, p \in Points, v \in Values : Inject(i, p, v)
LoopsSend == broadcast \/ hbLoop
LoopSkips == loopSkips \/ admitHeartbeat

\* handleConn's locals, the frame it is reading, and the client's view.
FieldInv ==
    /\ {"at", "frame", "snap", "view"} \subseteq DOMAIN reader
    /\ "active" \in DOMAIN client
    /\ reader.at \in {"I", "ack", "asdu"} => reader.frame \in Requests /\ reader.frame.kind = "I"

\* Between snapshot and overlay nobody changes the override or resets.
InstantInv ==
    reader.at = "override" =>
        /\ reset = "idle"
        /\ DOMAIN reader.snap = Points => Overlaid(reader.snap, frozen) = reader.view

\* The client is told before the server starts, and the server stops before the
\* client is told.
SubscribedInv ==
    /\ reader.at # "confirmed"
    /\ open => /\ reader.at = "startdt" \/ started \/ loop.at = "writing" => client.active
               /\ client.active => started \/ reader.at = "startdt"

SessionIInv == FieldInv /\ InstantInv /\ SubscribedInv

-----------------------------------------------------------------------------
(***************************************************************************)
(* What a frame that the client reads or sends does to the client.         *)
(***************************************************************************)
LEMMA ReadsI ==
    ASSUME "active" \in DOMAIN client, NEW f, clientReadsI(f)
    PROVE  "active" \in DOMAIN client' /\ client'.active = client.active
  BY DEF clientReadsI

LEMMA ReadsS ==
    ASSUME "active" \in DOMAIN client, clientReadsS
    PROVE  "active" \in DOMAIN client' /\ client'.active = client.active
  BY DEF clientReadsS

LEMMA ReadsU ==
    ASSUME "active" \in DOMAIN client, NEW u, NEW active, clientReadsU(u, active)
    PROVE  "active" \in DOMAIN client' /\ client'.active = active
  BY DEF clientReadsU

LEMMA Sent ==
    ASSUME "active" \in DOMAIN client, NEW request, clientSent(request)
    PROVE  "active" \in DOMAIN client' /\ client'.active = client.active
  BY DEF clientSent

\* A frame written: the client keeps its state, and the socket may close.
LEMMA FrameWritten ==
    ASSUME "active" \in DOMAIN client, NEW f, writeEnds(f)
    PROVE  /\ "active" \in DOMAIN client' /\ client'.active = client.active
           /\ started' = started /\ (open' => open)
  BY ReadsI DEF writeEnds, tellVars

-----------------------------------------------------------------------------
(***************************************************************************)
(* Most steps neither enter nor leave a place that the invariant is about. *)
(***************************************************************************)
LEMMA QuietKeeps ==
    ASSUME SessionIInv,
           "active" \in DOMAIN client', client'.active = client.active,
           started' = started, open' => open,
           loop'.at = "writing" => loop.at = "writing" \/ started,
           {"at", "frame", "snap", "view"} \subseteq DOMAIN reader',
           reader'.at \in {"I", "ack", "asdu"} => reader'.frame \in Requests /\ reader'.frame.kind = "I",
           \/ reader' = reader /\ (reader.at = "override" => UNCHANGED <<reset, frozen>>)
           \/ /\ reader.at # "startdt"
              /\ reader'.at \notin {"override", "startdt", "confirmed"}
    PROVE  SessionIInv'
<1>1. FieldInv'
  BY DEF FieldInv
<1>2. InstantInv'
  <2>1. CASE reader' = reader /\ (reader.at = "override" => UNCHANGED <<reset, frozen>>)
    BY <2>1 DEF SessionIInv, InstantInv, Overlaid
  <2>2. CASE reader'.at # "override"
    BY <2>2 DEF InstantInv
  <2> QED
    BY <2>1, <2>2
<1>3. SubscribedInv'
  BY DEF SessionIInv, SubscribedInv
<1> QED
  BY <1>1, <1>2, <1>3 DEF SessionIInv

\* What a client sends.
LEMMA RequestKinds ==
    \A r \in Requests : /\ r.kind \in {"U", "S", "I", "malformed"}
                        /\ r.kind = "I" => r.type \in {"C_IC", "C_S", "junk"}
  BY SessionAssumption DEF SessionAssumption

\* The goroutines other than handleConn leave it, and the client, alone.
LEMMA OthersKeep ==
    ASSUME SessionIInv, UNCHANGED <<client, started, reader>>, open' => open,
           loop'.at = "writing" => loop.at = "writing" \/ started,
           reader.at = "override" => UNCHANGED <<reset, frozen>>
    PROVE  SessionIInv'
  BY QuietKeeps DEF SessionIInv, FieldInv

LEMMA ReadFrameStep ==
    ASSUME SessionIInv, NEW request \in Requests, readFrame(request)
    PROVE  SessionIInv'
<1>1. reader.at = "read" /\ clientSent(request) /\ UNCHANGED <<started, loop, reset, frozen>>
  BY DEF readFrame, linkVars
<1>2. "active" \in DOMAIN client' /\ client'.active = client.active
  BY <1>1, Sent DEF SessionIInv, FieldInv
<1>3. request.kind \in {"U", "S", "I", "malformed"}
  BY RequestKinds
<1>4. CASE reader' = reader
  <2>1. open' => open
    BY DEF readFrame
  <2> QED
    BY <1>1, <1>2, <1>4, <2>1, QuietKeeps DEF SessionIInv, FieldInv
<1>5. ASSUME reader' = [reader EXCEPT !.at = request.kind, !.frame = request,
                                     !.ns = client.sent % (Word \div 2)],
             request.kind # "malformed"
      PROVE  SessionIInv'
  <2>1. {"at", "frame", "snap", "view"} \subseteq DOMAIN reader'
    BY <1>5 DEF SessionIInv, FieldInv
  <2>2. reader'.at = request.kind /\ reader'.frame = request
    BY <1>5 DEF SessionIInv, FieldInv
  <2>3. open' => open
    BY DEF readFrame
  <2> QED
    BY <1>1, <1>2, <1>3, <1>5, <2>1, <2>2, <2>3, QuietKeeps
<1> QED
  BY <1>4, <1>5 DEF readFrame

\* handleConn at the end, and at frames that ask for a short answer or none.
LEMMA ReadingPlace ==
    /\ {"at", "frame", "snap", "view"} \subseteq DOMAIN reading /\ reading.at = "read"
    /\ {"at", "frame", "snap", "view"} \subseteq DOMAIN [reading EXCEPT !.at = "gone"]
    /\ [reading EXCEPT !.at = "gone"].at = "gone"
  BY DEF reading

LEMMA ShortStep ==
    ASSUME SessionIInv,
           connectionEnds \/ testFrame \/ ignoresFrame \/ setRecvSeq \/ writeSFrame
    PROVE  SessionIInv'
<1> USE DEF SessionIInv
<1>1. CASE connectionEnds
  <2>1. reader.at = "read" /\ reader'.at = "gone" /\ UNCHANGED <<client, started, open, loop>>
        /\ {"at", "frame", "snap", "view"} \subseteq DOMAIN reader'
    BY <1>1, ReadingPlace DEF connectionEnds, connVars, tellVars
  <2> QED
    BY <2>1, QuietKeeps DEF FieldInv
<1>2. CASE testFrame
  <2>1. reader.at = "U" /\ reader' = reading /\ UNCHANGED <<started, loop>>
    BY <1>2 DEF testFrame, readerVars
  <2>2. /\ "active" \in DOMAIN client' /\ client'.active = client.active
        /\ open' => open
    BY <1>2, ReadsU DEF testFrame, writeShort, tellVars, FieldInv
  <2> QED
    BY <2>1, <2>2, ReadingPlace, QuietKeeps
<1>3. CASE ignoresFrame
  <2>1. reader.at \in {"S", "U"} /\ reader' = reading /\ UNCHANGED <<client, open, started, loop>>
    BY <1>3 DEF ignoresFrame, readerVars, connVars, tellVars
  <2> QED
    BY <2>1, ReadingPlace, QuietKeeps DEF FieldInv
<1>4. CASE setRecvSeq
  <2>1. reader.at = "I" /\ reader' = [reader EXCEPT !.at = "ack"]
        /\ UNCHANGED <<client, open, started, loop>>
    BY <1>4 DEF setRecvSeq, goto, readerVars, tellVars
  <2>2. {"at", "frame", "snap", "view"} \subseteq DOMAIN reader'
        /\ reader'.at = "ack" /\ reader'.frame = reader.frame
    BY <2>1 DEF FieldInv
  <2> QED
    BY <2>1, <2>2, QuietKeeps DEF FieldInv
<1>5. CASE writeSFrame
  <2>1. reader.at = "ack" /\ reader' = [reader EXCEPT !.at = "asdu"] /\ UNCHANGED <<started, loop>>
    BY <1>5 DEF writeSFrame, goto, readerVars
  <2>2. {"at", "frame", "snap", "view"} \subseteq DOMAIN reader'
        /\ reader'.at = "asdu" /\ reader'.frame = reader.frame
    BY <2>1 DEF FieldInv
  <2>3. /\ "active" \in DOMAIN client' /\ client'.active = client.active
        /\ open' => open
    BY <1>5, ReadsS DEF writeSFrame, writeShort, tellVars, FieldInv
  <2> QED
    BY <2>1, <2>2, <2>3, QuietKeeps DEF FieldInv
<1> QED
  BY <1>1, <1>2, <1>3, <1>4, <1>5

\* What follows the acknowledgement of an I-frame.
LEMMA AnswerStep ==
    ASSUME SessionIInv,
           handleASDU \/ writeIFrame \/ writeIFrameLocked \/ written \/ command
    PROVE  SessionIInv'
<1> USE DEF SessionIInv
<1>1. CASE handleASDU
  <2>1. reader.at = "asdu" /\ UNCHANGED <<client, open, started, loop>>
    BY <1>1 DEF handleASDU, readerVars, connVars, tellVars
  <2>2. reader.frame.type \in {"C_IC", "C_S", "junk"}
    BY <2>1, RequestKinds DEF FieldInv
  <2>3. \/ reader' = reading
        \/ reader' = [reader EXCEPT !.at = "command"]
        \/ reader' = [reader EXCEPT !.at = "write", !.todo = <<buildCICNA1("act_con")>>]
    BY <1>1, <2>2 DEF handleASDU
  <2>4. {"at", "frame", "snap", "view"} \subseteq DOMAIN reader'
        /\ reader'.at \in {"read", "command", "write"}
    BY <2>3, ReadingPlace DEF FieldInv
  <2> QED
    BY <2>1, <2>4, QuietKeeps DEF FieldInv
<1>2. CASE writeIFrame
  <2>1. reader.at = "write" /\ UNCHANGED <<client, open, started, loop>>
        /\ reader' = [reader EXCEPT !.at = "writing", !.sending = IFrame(Head(reader.todo)),
                                    !.todo = Tail(@)]
    BY <1>2 DEF writeIFrame, readerVars, connVars, tellVars
  <2>2. {"at", "frame", "snap", "view"} \subseteq DOMAIN reader' /\ reader'.at = "writing"
    BY <2>1 DEF FieldInv
  <2> QED
    BY <2>1, <2>2, QuietKeeps DEF FieldInv
<1>3. CASE writeIFrameLocked
  <2>1. reader.at = "writing" /\ UNCHANGED loop /\ writeEnds(reader.sending)
        /\ reader' = [reader EXCEPT !.at = "write", !.sending = None]
    BY <1>3 DEF writeIFrameLocked, readerVars
  <2>2. {"at", "frame", "snap", "view"} \subseteq DOMAIN reader' /\ reader'.at = "write"
    BY <2>1 DEF FieldInv
  <2>3. /\ "active" \in DOMAIN client' /\ client'.active = client.active
        /\ started' = started /\ (open' => open)
    BY <2>1, FrameWritten DEF FieldInv
  <2> QED
    BY <2>1, <2>2, <2>3, QuietKeeps
<1>4. CASE written
  <2>1. reader.at = "write" /\ UNCHANGED <<client, open, started, loop>>
        /\ (reader' = reading \/ reader' = [reader EXCEPT !.at = "snapshot"])
    BY <1>4 DEF written, readerVars, connVars, tellVars
  <2>2. {"at", "frame", "snap", "view"} \subseteq DOMAIN reader'
        /\ reader'.at \in {"read", "snapshot"}
    BY <2>1, ReadingPlace DEF FieldInv
  <2> QED
    BY <2>1, <2>2, QuietKeeps DEF FieldInv
<1>5. CASE command
  <2>1. reader.at = "command" /\ UNCHANGED <<client, open, started, loop>>
    BY <1>5 DEF command, connVars, tellVars
  <2>2. \E cot : reader' = [reader EXCEPT !.at = "write", !.todo = <<commandASDU(cot)>>]
    BY <1>5 DEF command
  <2>3. {"at", "frame", "snap", "view"} \subseteq DOMAIN reader' /\ reader'.at = "write"
    BY <2>2 DEF FieldInv
  <2> QED
    BY <2>1, <2>3, QuietKeeps DEF FieldInv
<1> QED
  BY <1>1, <1>2, <1>3, <1>4, <1>5

-----------------------------------------------------------------------------
(***************************************************************************)
(* The subscription.                                                       *)
(***************************************************************************)
LEMMA SubscriptionStep ==
    ASSUME SessionIInv, confirmStart \/ startDataTransfer \/ stopDataTransfer
    PROVE  SessionIInv'
<1> USE DEF SessionIInv
<1>1. CASE confirmStart
  <2>1. /\ reader.at = "U" /\ WriteMuFree /\ UNCHANGED <<started, loop>>
        /\ writeShort(clientReadsU("STARTDT_CON", TRUE))
        /\ reader' = IF open' THEN [reader EXCEPT !.at = "startdt"] ELSE reading
    BY <1>1 DEF confirmStart, readerVars
  <2>2. "active" \in DOMAIN client' /\ (open' => open /\ client'.active = TRUE)
    BY <2>1, ReadsU DEF writeShort, tellVars, FieldInv
  <2>3. /\ {"at", "frame", "snap", "view"} \subseteq DOMAIN reader'
        /\ reader'.at = IF open' THEN "startdt" ELSE "read"
    BY <2>1, ReadingPlace DEF FieldInv
  <2> QED
    BY <2>1, <2>2, <2>3 DEF FieldInv, InstantInv, SubscribedInv
<1>2. CASE startDataTransfer
  <2>1. /\ reader.at = "startdt" /\ started' = TRUE /\ reader' = reading
        /\ UNCHANGED <<client, open, loop>>
    BY <1>2 DEF startDataTransfer, readerVars, tellVars, SubscribedInv
  <2> QED
    BY <2>1, ReadingPlace DEF FieldInv, InstantInv, SubscribedInv
<1>3. CASE stopDataTransfer
  <2>1. /\ reader.at = "U" /\ WriteMuFree /\ started' = FALSE /\ reader' = reading
        /\ UNCHANGED loop /\ writeShort(clientReadsU("STOPDT_CON", FALSE))
    BY <1>3 DEF stopDataTransfer, readerVars
  <2>2. "active" \in DOMAIN client' /\ (open' => open /\ client'.active = FALSE)
    BY <2>1, ReadsU DEF writeShort, tellVars, FieldInv
  <2>3. loop'.at # "writing"
    BY <2>1 DEF WriteMuFree
  <2> QED
    BY <2>1, <2>2, <2>3, ReadingPlace DEF FieldInv, InstantInv, SubscribedInv
<1> QED
  BY <1>1, <1>2, <1>3

-----------------------------------------------------------------------------
(***************************************************************************)
(* The interrogation.                                                      *)
(***************************************************************************)
\* The overlay changes what is reported of the heartbeat, and no domain.
LEMMA InterrogationStep ==
    ASSUME SessionIInv, SnapshotDevice \/ heartbeatOverride
    PROVE  SessionIInv'
<1> USE DEF SessionIInv
<1>1. CASE SnapshotDevice
  <2> DEFINE snap == IF reader.frame.ca = EMS THEN value ELSE << >>
  <2>1. /\ reader.at = "snapshot" /\ CoordFree /\ UNCHANGED <<client, open, started, loop>>
        /\ UNCHANGED <<reset, frozen>>
        /\ reader' = [reader EXCEPT !.at = "override", !.snap = snap, !.versions = version,
                                    !.view = Overlaid(value, frozen)]
    BY <1>1 DEF SnapshotDevice, readerVars, linkVars, connVars, tellVars
  <2> HIDE DEF snap
  <2>2. /\ {"at", "frame", "snap", "view"} \subseteq DOMAIN reader'
        /\ reader'.at = "override" /\ reader'.snap = snap /\ reader'.view = Overlaid(value, frozen)
    BY <2>1 DEF FieldInv
  <2>3. DOMAIN snap = Points => snap = value
    <3>1. Points # {}
      BY SessionAssumption DEF SessionAssumption
    <3>2. DOMAIN << >> = {}
      OBVIOUS
    <3> QED
      BY <3>1, <3>2 DEF snap
  <2>4. InstantInv'
    <3>1. reset' = "idle"
      BY <2>1 DEF CoordFree
    <3>2. DOMAIN reader'.snap = Points => Overlaid(reader'.snap, frozen') = reader'.view
      BY <2>1, <2>2, <2>3 DEF Overlaid
    <3> QED
      BY <3>1, <3>2 DEF InstantInv
  <2> QED
    BY <2>1, <2>2, <2>4 DEF FieldInv, SubscribedInv
<1>2. CASE heartbeatOverride
  <2>1. reader.at = "override" /\ UNCHANGED <<client, open, started, loop>>
    BY <1>2 DEF heartbeatOverride, readerVars, connVars, tellVars
  <2>2. \E snap, todo : reader' = [reader EXCEPT !.at = "write", !.snap = snap, !.todo = todo]
    BY <1>2 DEF heartbeatOverride
  <2>3. {"at", "frame", "snap", "view"} \subseteq DOMAIN reader' /\ reader'.at = "write"
    BY <2>2 DEF FieldInv
  <2> QED
    BY <2>1, <2>3, QuietKeeps DEF FieldInv
<1> QED
  BY <1>1, <1>2

-----------------------------------------------------------------------------
(***************************************************************************)
(* The spontaneous loop, the store's writers, the link and the reset.      *)
(***************************************************************************)
LEMMA LoopStep ==
    ASSUME SessionIInv, updateLoops
    PROVE  SessionIInv'
<1> USE DEF SessionIInv
<1>1. CASE LoopSkips
  <2>1. UNCHANGED <<client, started, reader, loop, reset, frozen>> /\ (open' => open)
    BY <1>1 DEF LoopSkips, loopSkips, admitHeartbeat, loopVars, linkVars, connVars, tellVars
  <2> QED
    BY <2>1, OthersKeep
<1>2. CASE LoopsSend
  <2>1. UNCHANGED <<client, open, started, reader, reset, frozen>>
        /\ (started \/ loop' = loop)
    BY <1>2 DEF LoopsSend, broadcast, hbLoop, sendIfStarted, loopVars, linkVars, connVars, tellVars
  <2> QED
    BY <2>1, OthersKeep
<1>3. CASE loopWrites
  <2>1. loop.at = "writing" /\ writeEnds(loop.sending) /\ loop' = idle
        /\ UNCHANGED <<reader, reset, frozen>>
    BY <1>3 DEF loopWrites, linkVars
  <2>2. /\ "active" \in DOMAIN client' /\ client'.active = client.active
        /\ started' = started /\ (open' => open)
    BY <2>1, FrameWritten DEF FieldInv
  <2>3. loop'.at # "writing"
    BY <2>1 DEF idle
  <2> QED
    BY <2>1, <2>2, <2>3, QuietKeeps DEF FieldInv
<1> QED
  BY <1>1, <1>2, <1>3 DEF updateLoops, LoopSkips, LoopsSend

LEMMA WritersStep ==
    ASSUME SessionIInv,
           Tick \/ Publishing
    PROVE  SessionIInv'
<1>1. UNCHANGED <<client, open, started, reader, loop, reset, frozen>>
  <2>1. CASE Tick
    BY <2>1 DEF Tick, linkVars, connVars, tellVars
  <2>2. CASE Publishing
    BY <2>2 DEF Publishing, publish, Inject, linkVars, connVars, tellVars
  <2> QED
    BY <2>1, <2>2
<1> QED
  BY <1>1, OthersKeep

LEMMA LinkStep ==
    ASSUME SessionIInv, (\E op \in LinkOps : LinkOp(op)) \/ doReset
    PROVE  SessionIInv'
<1>1. UNCHANGED <<client, open, started, reader, loop>>
  BY DEF LinkOp, doReset, resetBegins, resetEnters, resetRestores, resetClears, connVars, tellVars
<1>2. reader.at # "override" \/ UNCHANGED vars
  <2>1. CASE \E op \in LinkOps : LinkOp(op)
    BY <2>1 DEF LinkOp, CoordFree
  <2>2. CASE resetBegins
    BY <2>2 DEF resetBegins, CoordFree
  <2>3. CASE resetEnters \/ resetRestores \/ resetClears
    BY <2>3 DEF resetEnters, resetRestores, resetClears, SessionIInv, InstantInv
  <2> QED
    BY <2>1, <2>2, <2>3 DEF doReset
<1>3. reader.at = "override" => UNCHANGED <<reset, frozen>>
  BY <1>2 DEF vars, linkVars
<1> QED
  BY <1>1, <1>3, OthersKeep

LEMMA SessionInit == Init => SessionIInv
<1> SUFFICES ASSUME Init
             PROVE  SessionIInv
  OBVIOUS
<1>1. reader = reading /\ started = FALSE /\ loop = idle
  BY DEF Init
<1>2. "active" \in DOMAIN client /\ client.active = FALSE
  BY DEF Init
<1> QED
  BY <1>1, <1>2, ReadingPlace DEF SessionIInv, FieldInv, InstantInv, SubscribedInv, idle

LEMMA SessionNext == SessionIInv /\ [Next]_vars => SessionIInv'
<1> SUFFICES ASSUME SessionIInv, [Next]_vars
             PROVE  SessionIInv'
  OBVIOUS
<1>1. CASE handleConn
  BY <1>1, ReadFrameStep, ShortStep, AnswerStep, SubscriptionStep, InterrogationStep DEF handleConn
<1>2. CASE updateLoops
  BY <1>2, LoopStep
<1>3. CASE Tick \/ Publishing
  BY <1>3, WritersStep
<1>4. CASE (\E op \in LinkOps : LinkOp(op)) \/ doReset
  BY <1>4, LinkStep
<1>5. CASE UNCHANGED vars
  BY <1>5, OthersKeep DEF vars, connVars, tellVars, linkVars
<1> QED
  BY <1>1, <1>2, <1>3, <1>4, <1>5 DEF Next, Publishing

\* The inductive invariant of a session: what handleConn holds at each place,
\* and what the client has been told of its subscription.
THEOREM SessionCorrect == Spec => []SessionIInv
  BY SessionInit, SessionNext, PTL DEF Spec

\* No spontaneous update is passed over for a client that has its confirmation,
\* and none is sent to one that has not, for any requests and any interleaving
\* of the connection, the two loops and the link (server.go
\* sendIfStarted, startDataTransfer, stopDataTransfer).
THEOREM UpdatesOnlyWhileConfirmed == Spec => UpdatesExactlyWhileConfirmed
<1>1. ASSUME SessionIInv, broadcast \/ hbLoop, loop' = loop, open
      PROVE  ~client.active
  <2>1. reader.at # "startdt" /\ loop.at # "writing"
    BY <1>1 DEF broadcast, hbLoop, sendIfStarted, WriteMuFree
  <2>2. ~started
    BY <1>1, <2>1 DEF broadcast, hbLoop, sendIfStarted
  <2> QED
    BY <1>1, <2>1, <2>2 DEF SessionIInv, SubscribedInv
<1>2. ASSUME SessionIInv, loopWrites, client' # client
      PROVE  client.active
  BY <1>2 DEF loopWrites, writeEnds, tellVars, SessionIInv, SubscribedInv
<1>3. SessionIInv /\ [Next]_vars =>
        [/\ (broadcast \/ hbLoop) /\ loop' = loop /\ open => ~client.active
         /\ loopWrites /\ client' # client => client.active]_vars
  BY <1>1, <1>2
<1> QED
  BY <1>3, SessionCorrect, PTL DEF Spec, UpdatesExactlyWhileConfirmed

\* What an interrogation reports, its heartbeat override included, is what the
\* store and the link showed at one instant outside every reset, for any points
\* and any link operations (server.go handleGeneralInterrogation).
THEOREM InterrogationAlwaysOneInstant == Spec => InterrogationIsOneInstant
<1>1. ASSUME SessionIInv, Next, reader.at = "override", reader' # reader,
             DOMAIN reader.snap = Points
      PROVE  reset = "idle" /\ reader'.snap = reader.view
  <2>1. heartbeatOverride
    <3>1. ~(updateLoops \/ Tick \/ doReset)
      BY <1>1 DEF updateLoops, loopSkips, admitHeartbeat, broadcast, hbLoop, sendIfStarted, loopVars,
         loopWrites, Tick, doReset, resetBegins, resetEnters, resetRestores, resetClears
    <3>2. ~Publishing
      BY <1>1 DEF Publishing, publish, Inject
    <3>3. ~(\E op \in LinkOps : LinkOp(op))
      BY <1>1 DEF LinkOp
    <3>4. ~(\E request \in Requests : readFrame(request))
      BY <1>1 DEF readFrame
    <3>5. ~(connectionEnds \/ confirmStart \/ startDataTransfer \/ stopDataTransfer \/ testFrame
            \/ ignoresFrame \/ setRecvSeq \/ writeSFrame)
      BY <1>1 DEF connectionEnds, confirmStart, startDataTransfer, stopDataTransfer, testFrame,
         ignoresFrame, setRecvSeq, writeSFrame
    <3>6. ~(handleASDU \/ writeIFrame \/ writeIFrameLocked \/ written \/ SnapshotDevice \/ command)
      BY <1>1 DEF handleASDU, writeIFrame, writeIFrameLocked, written, SnapshotDevice, command
    <3> QED
      BY <1>1, <3>1, <3>2, <3>3, <3>4, <3>5, <3>6 DEF Next, handleConn, Publishing
  <2> DEFINE snap == IF Heartbeat \in DOMAIN reader.snap THEN Overlaid(reader.snap, frozen)
                                                        ELSE reader.snap
  <2>2. \E todo : reader' = [reader EXCEPT !.at = "write", !.snap = snap, !.todo = todo]
    BY <2>1 DEF heartbeatOverride
  <2>3. snap = Overlaid(reader.snap, frozen)
    BY <1>1, SessionAssumption DEF SessionAssumption
  <2> HIDE DEF snap
  <2>4. reader'.snap = snap
    BY <1>1, <2>2 DEF SessionIInv, FieldInv
  <2> QED
    BY <1>1, <2>3, <2>4 DEF SessionIInv, InstantInv
<1>2. SessionIInv /\ [Next]_vars =>
        [reader.at = "override" /\ reader' # reader /\ DOMAIN reader.snap = Points
           => reset = "idle" /\ reader'.snap = reader.view]_vars
  BY <1>1
<1> QED
  BY <1>2, SessionCorrect, PTL DEF Spec, InterrogationIsOneInstant

-----------------------------------------------------------------------------
(***************************************************************************)
(* What handleConn's locals and the client's view hold, and where the two  *)
(* goroutines are.                                                         *)
(***************************************************************************)
\* The fields of the client's view and of handleConn's locals, and where the
\* two goroutines may be.
ClientFields == {"sent", "frames", "next", "acked", "inOrder", "active", "told", "caughtUp"}
ReaderFields == {"at", "frame", "ns", "snap", "versions", "view", "todo", "sending"}
Answering == {"I", "ack", "asdu", "command", "write", "writing", "snapshot", "override"}
Places == {"read", "gone", "U", "S", "startdt"} \cup Answering

ShapeInv ==
    /\ DOMAIN client = ClientFields /\ DOMAIN reader = ReaderFields
    /\ loop.at \in {"recv", "writing"}
    /\ reader.at \in Places
    /\ reader.at \in Answering => reader.frame \in Requests /\ reader.frame.kind = "I"
    /\ reader.at \in {"snapshot", "override"} => reader.frame.type = "C_IC"
    /\ reader.at = "command" => reader.frame.type = "C_S"
    /\ reader.at \notin {"write", "writing"} => reader.todo = << >>
    /\ loop.at # "writing" => loop = idle

\* What a frame that the client reads changes of its view.
LEMMA ReadsIFields ==
    ASSUME DOMAIN client = ClientFields, NEW f, clientReadsI(f)
    PROVE  /\ DOMAIN client' = ClientFields
           /\ client'.sent = client.sent /\ client'.active = client.active
           /\ client'.next = nextSeq(decodeSeq(f.ns))
           /\ client'.acked = client.acked + newlyAcked(f.nr)
           /\ client'.inOrder = (client.inOrder /\ decodeSeq(f.ns) = client.next /\ plausible(f.nr))
           /\ client'.told = (IF f.asdu.type = "M"
                              THEN [client.told EXCEPT ![f.asdu.key] = f.asdu.value] ELSE client.told)
           /\ client'.caughtUp = (client.caughtUp
                 \/ (client.active /\ f.asdu.cot = "act_term" /\ reader.frame.ca = EMS))
  BY DEF clientReadsI, ClientFields

LEMMA ReadsSFields ==
    ASSUME DOMAIN client = ClientFields, clientReadsS
    PROVE  /\ DOMAIN client' = ClientFields
           /\ client'.sent = client.sent /\ client'.next = client.next
           /\ client'.acked = client.acked + newlyAcked(encodeSeq(recvSeq))
           /\ client'.inOrder = (client.inOrder /\ plausible(encodeSeq(recvSeq)))
           /\ client'.active = client.active /\ client'.told = client.told
           /\ client'.caughtUp = client.caughtUp
  BY DEF clientReadsS, ClientFields

LEMMA ReadsUFields ==
    ASSUME DOMAIN client = ClientFields, NEW u, NEW active, clientReadsU(u, active)
    PROVE  /\ DOMAIN client' = ClientFields
           /\ client'.sent = client.sent /\ client'.next = client.next
           /\ client'.acked = client.acked /\ client'.inOrder = client.inOrder
           /\ client'.active = active /\ client'.told = client.told
           /\ client'.caughtUp = (client.caughtUp /\ active)
  BY DEF clientReadsU, ClientFields

LEMMA SentFields ==
    ASSUME DOMAIN client = ClientFields, NEW request, clientSent(request)
    PROVE  /\ DOMAIN client' = ClientFields
           /\ client'.sent = IF request.kind = "I" THEN client.sent + 1 ELSE client.sent
           /\ client'.next = client.next
           /\ client'.acked = client.acked /\ client'.inOrder = client.inOrder
           /\ client'.active = client.active /\ client'.told = client.told
           /\ client'.caughtUp = client.caughtUp
  BY DEF clientSent, ClientFields

\* A frame written, if it is, is read; the client's fields stay.
LEMMA WrittenShape ==
    ASSUME DOMAIN client = ClientFields, NEW f, writeEnds(f)
    PROVE  DOMAIN client' = ClientFields
  BY ReadsIFields DEF writeEnds, tellVars

LEMMA ReadingFields ==
    /\ DOMAIN reading = ReaderFields /\ reading.at = "read" /\ reading.todo = << >>
    /\ reading.snap = None /\ reading.sending = None
    /\ DOMAIN [reading EXCEPT !.at = "gone"] = ReaderFields
    /\ [reading EXCEPT !.at = "gone"].at = "gone" /\ [reading EXCEPT !.at = "gone"].todo = << >>
  BY DEF reading, ReaderFields

\* What each step of handleConn leaves in its locals.
LEMMA ReadFrameFields ==
    ASSUME DOMAIN reader = ReaderFields, NEW request \in Requests, readFrame(request)
    PROVE  \/ reader' = reader
           \/ /\ DOMAIN reader' = ReaderFields /\ open' = open
              /\ request.kind \in {"U", "S", "I"}
              /\ reader'.at = request.kind /\ reader'.frame = request
              /\ reader'.ns = client.sent % (Word \div 2)
              /\ reader'.todo = reader.todo /\ reader'.snap = reader.snap
              /\ reader'.sending = reader.sending /\ reader'.versions = reader.versions
  BY RequestKinds DEF readFrame, ReaderFields

LEMMA GotoFields ==
    ASSUME DOMAIN reader = ReaderFields, NEW place, goto(place)
    PROVE  /\ DOMAIN reader' = ReaderFields /\ reader'.at = place
           /\ reader'.frame = reader.frame /\ reader'.ns = reader.ns
           /\ reader'.todo = reader.todo /\ reader'.snap = reader.snap
           /\ reader'.sending = reader.sending /\ reader'.versions = reader.versions
  BY DEF goto, ReaderFields

LEMMA AnswerFields ==
    ASSUME DOMAIN reader = ReaderFields, NEW asdu,
           reader' = [reader EXCEPT !.at = "write", !.todo = <<asdu>>]
    PROVE  /\ DOMAIN reader' = ReaderFields /\ reader'.at = "write"
           /\ reader'.frame = reader.frame /\ reader'.todo = <<asdu>>
           /\ reader'.snap = reader.snap /\ reader'.sending = reader.sending
  BY DEF ReaderFields

LEMMA WriteFields ==
    ASSUME DOMAIN reader = ReaderFields, writeIFrame
    PROVE  /\ DOMAIN reader' = ReaderFields /\ reader'.at = "writing"
           /\ reader.todo # << >>
           /\ reader'.frame = reader.frame /\ reader'.snap = reader.snap
           /\ reader'.todo = Tail(reader.todo) /\ reader'.sending = IFrame(Head(reader.todo))
  BY DEF ReaderFields, writeIFrame

LEMMA CountFields ==
    ASSUME DOMAIN reader = ReaderFields, writeIFrameLocked
    PROVE  /\ DOMAIN reader' = ReaderFields /\ reader'.at = "write"
           /\ reader'.frame = reader.frame /\ reader'.snap = reader.snap
           /\ reader'.todo = reader.todo
  BY DEF ReaderFields, writeIFrameLocked

LEMMA SnapshotFields ==
    ASSUME DOMAIN reader = ReaderFields, SnapshotDevice
    PROVE  /\ DOMAIN reader' = ReaderFields /\ reader'.at = "override"
           /\ reader'.frame = reader.frame /\ reader'.todo = reader.todo
           /\ reader'.snap = (IF reader.frame.ca = EMS THEN value ELSE << >>)
           /\ reader'.versions = version
<1> DEFINE snap == IF reader.frame.ca = EMS THEN value ELSE << >>
           view == Overlaid(value, frozen)
<1>1. reader' = [reader EXCEPT !.at = "override", !.snap = snap, !.versions = version, !.view = view]
  BY DEF SnapshotDevice
<1> HIDE DEF snap, view
<1>2. /\ DOMAIN reader' = ReaderFields /\ reader'.at = "override"
      /\ reader'.frame = reader.frame /\ reader'.todo = reader.todo
      /\ reader'.snap = snap /\ reader'.versions = version
  BY <1>1 DEF ReaderFields
<1> QED
  BY <1>2 DEF snap

\* The snapshot with the heartbeat override.
Laid == IF Heartbeat \in DOMAIN reader.snap THEN Overlaid(reader.snap, frozen) ELSE reader.snap

LEMMA OverrideFields ==
    ASSUME DOMAIN reader = ReaderFields, heartbeatOverride
    PROVE  /\ DOMAIN reader' = ReaderFields /\ reader'.at = "write"
           /\ reader'.frame = reader.frame /\ reader'.snap = Laid
           /\ reader'.todo = Append(reports(Laid), buildCICNA1("act_term"))
<1> DEFINE todo == Append(reports(Laid), buildCICNA1("act_term"))
<1>1. reader' = [reader EXCEPT !.at = "write", !.snap = Laid, !.todo = todo]
  BY DEF heartbeatOverride, Laid
<1> HIDE DEF todo
<1>2. /\ DOMAIN reader' = ReaderFields /\ reader'.at = "write"
      /\ reader'.frame = reader.frame /\ reader'.snap = Laid /\ reader'.todo = todo
  BY <1>1 DEF ReaderFields
<1> QED
  BY <1>2 DEF todo

\* The shape is kept: by the goroutines that leave handleConn alone, ...
LEMMA OthersShape ==
    ASSUME ShapeInv, DOMAIN client' = ClientFields, reader' = reader,
           loop'.at \in {"recv", "writing"}, loop'.at # "writing" => loop' = idle
    PROVE  ShapeInv'
  BY DEF ShapeInv

\* ... and by each of handleConn's steps.
LEMMA PlaceShape ==
    ASSUME ShapeInv, DOMAIN client' = ClientFields, loop' = loop,
           DOMAIN reader' = ReaderFields, reader'.at \in Places,
           reader'.at \in Answering => reader.at \in Answering /\ reader'.frame = reader.frame,
           reader'.at \in {"snapshot", "override"} => reader.frame.type = "C_IC",
           reader'.at = "command" => reader.frame.type = "C_S",
           reader'.at \notin {"write", "writing"} => reader'.todo = << >>
    PROVE  ShapeInv'
  BY DEF ShapeInv, Answering

LEMMA ShapeShort ==
    ASSUME ShapeInv,
           connectionEnds \/ testFrame \/ ignoresFrame \/ stopDataTransfer \/ startDataTransfer
    PROVE  ShapeInv'
<1>1. reader' = reading \/ reader' = [reading EXCEPT !.at = "gone"]
  BY DEF connectionEnds, testFrame, ignoresFrame, stopDataTransfer, startDataTransfer
<1>2. DOMAIN client' = ClientFields /\ loop' = loop
  BY ReadsUFields DEF ShapeInv, connectionEnds, testFrame, ignoresFrame, stopDataTransfer,
     startDataTransfer, tellVars, readerVars, writeShort
<1> QED
  BY <1>1, <1>2, ReadingFields, PlaceShape DEF Places, Answering

LEMMA ShapeRead ==
    ASSUME ShapeInv, NEW request \in Requests, readFrame(request)
    PROVE  ShapeInv'
<1>1. DOMAIN client' = ClientFields /\ loop' = loop /\ reader.at = "read"
  BY SentFields DEF ShapeInv, readFrame
<1>2. CASE reader' = reader
  BY <1>1, <1>2, OthersShape DEF ShapeInv
<1>3. CASE reader' # reader
  BY <1>1, <1>3, ReadFrameFields, RequestKinds DEF ShapeInv, Places, Answering
<1> QED
  BY <1>2, <1>3

LEMMA ShapeAnswer ==
    ASSUME ShapeInv,
           \/ confirmStart \/ setRecvSeq \/ writeSFrame \/ handleASDU \/ written
           \/ writeIFrame \/ writeIFrameLocked \/ SnapshotDevice \/ heartbeatOverride \/ command
    PROVE  ShapeInv'
<1>1. loop' = loop
  BY DEF confirmStart, setRecvSeq, writeSFrame, handleASDU, written, writeIFrame,
     writeIFrameLocked, SnapshotDevice, heartbeatOverride, command, readerVars
<1>2. DOMAIN client' = ClientFields
  BY ReadsUFields, ReadsSFields, WrittenShape DEF ShapeInv, confirmStart, setRecvSeq, writeSFrame,
     handleASDU, written, writeIFrame, writeIFrameLocked, SnapshotDevice, heartbeatOverride,
     command, tellVars, writeShort
<1> USE DEF Places, Answering
<1>3. CASE confirmStart
  <2>1. reader.at = "U" /\ (reader' = [reader EXCEPT !.at = "startdt"] \/ reader' = reading)
    BY <1>3 DEF confirmStart
  <2>2. DOMAIN reader' = ReaderFields /\ reader'.at \in {"startdt", "read"} /\ reader'.todo = << >>
    BY <2>1, ReadingFields DEF ShapeInv, ReaderFields
  <2> QED
    BY <1>1, <1>2, <2>2, PlaceShape
<1>4. CASE setRecvSeq \/ writeSFrame
  <2>1. \/ reader.at = "I" /\ goto("ack")
        \/ reader.at = "ack" /\ goto("asdu")
    BY <1>4 DEF setRecvSeq, writeSFrame
  <2> QED
    BY <1>1, <1>2, <2>1, GotoFields, PlaceShape DEF ShapeInv
<1>5. CASE handleASDU
  <2>1. reader.at = "asdu" /\ reader.frame.type \in {"C_IC", "C_S", "junk"}
    BY <1>5, RequestKinds DEF handleASDU, ShapeInv
  <2>2. \/ reader' = reading
        \/ goto("command") /\ reader.frame.type = "C_S"
        \/ reader' = [reader EXCEPT !.at = "write", !.todo = <<buildCICNA1("act_con")>>]
    BY <1>5, <2>1 DEF handleASDU, goto
  <2>3. CASE reader' = reading
    BY <1>1, <1>2, <2>3, ReadingFields, PlaceShape
  <2>4. CASE goto("command") /\ reader.frame.type = "C_S"
    BY <1>1, <1>2, <2>1, <2>4, GotoFields, PlaceShape DEF ShapeInv
  <2>5. CASE reader' = [reader EXCEPT !.at = "write", !.todo = <<buildCICNA1("act_con")>>]
    BY <1>1, <1>2, <2>1, <2>5, AnswerFields, PlaceShape DEF ShapeInv
  <2> QED
    BY <2>2, <2>3, <2>4, <2>5
<1>6. CASE written
  <2>1. reader.at = "write" /\ reader.todo = << >>
        /\ (reader' = reading \/ (goto("snapshot") /\ reader.frame.type = "C_IC"))
    BY <1>6 DEF written, goto
  <2> QED
    BY <1>1, <1>2, <2>1, ReadingFields, GotoFields, PlaceShape DEF ShapeInv
<1>7. CASE writeIFrame
  BY <1>1, <1>2, <1>7, WriteFields, PlaceShape DEF ShapeInv, writeIFrame
<1>8. CASE writeIFrameLocked
  BY <1>1, <1>2, <1>8, CountFields, PlaceShape DEF ShapeInv, writeIFrameLocked
<1>9. CASE SnapshotDevice
  BY <1>1, <1>2, <1>9, SnapshotFields, PlaceShape DEF ShapeInv, SnapshotDevice
<1>10. CASE heartbeatOverride
  BY <1>1, <1>2, <1>10, OverrideFields, PlaceShape DEF ShapeInv, heartbeatOverride
<1>11. CASE command
  <2>1. /\ reader.at = "command"
        /\ \E cot : reader' = [reader EXCEPT !.at = "write", !.todo = <<commandASDU(cot)>>]
    BY <1>11 DEF command
  <2> QED
    BY <1>1, <1>2, <2>1, AnswerFields, PlaceShape DEF ShapeInv
<1> QED
  BY <1>3, <1>4, <1>5, <1>6, <1>7, <1>8, <1>9, <1>10, <1>11

LEMMA ShapeOthers ==
    ASSUME ShapeInv,
           \/ updateLoops \/ Tick \/ doReset \/ UNCHANGED vars
           \/ Publishing
           \/ \E op \in LinkOps : LinkOp(op)
    PROVE  ShapeInv'
<1>1. CASE loopWrites
  BY <1>1, WrittenShape, OthersShape DEF ShapeInv, loopWrites, idle
<1>2. CASE LoopSkips \/ LoopsSend
  <2>1. UNCHANGED <<reader, client>> /\ (loop' = loop \/ loop'.at = "writing")
    BY <1>2 DEF LoopSkips, LoopsSend, loopSkips, admitHeartbeat, broadcast, hbLoop, sendIfStarted,
       loopVars, tellVars
  <2> QED
    BY <2>1, OthersShape DEF ShapeInv
<1>3. CASE Tick \/ doReset \/ UNCHANGED vars
  BY <1>3, OthersShape DEF ShapeInv, Tick, doReset, resetBegins, resetEnters, resetRestores,
     resetClears, vars, tellVars
<1>4. CASE Publishing
  BY <1>4, OthersShape DEF ShapeInv, Publishing, publish, Inject, tellVars
<1>5. CASE \E op \in LinkOps : LinkOp(op)
  BY <1>5, OthersShape DEF ShapeInv, LinkOp, tellVars
<1> QED
  BY <1>1, <1>2, <1>3, <1>4, <1>5 DEF updateLoops, LoopSkips, LoopsSend

\* The shape of a session, at every step.
LEMMA ShapeAlways == Spec => []ShapeInv
<1>1. Init => ShapeInv
  <2> SUFFICES ASSUME Init
               PROVE  ShapeInv
    OBVIOUS
  <2>1. DOMAIN client = ClientFields /\ reader = reading /\ loop = idle
    BY DEF Init, ClientFields
  <2> QED
    BY <2>1, ReadingFields DEF ShapeInv, Places, Answering, idle
<1>2. ShapeInv /\ [Next]_vars => ShapeInv'
  BY ShapeShort, ShapeRead, ShapeAnswer, ShapeOthers DEF Next, handleConn, Publishing
<1> QED
  BY <1>1, <1>2, PTL DEF Spec

-----------------------------------------------------------------------------
(***************************************************************************)
(* Arithmetic of the sequence numbers, which wrap at Half.                 *)
(***************************************************************************)
Half == Word \div 2

LEMMA HalfFacts == Half \in Nat /\ Half >= 2 /\ Word = 2 * Half /\ Word \in Nat
<1>1. Word \in Nat \ {0} /\ Word % 4 = 0
  BY SessionAssumption DEF SessionAssumption
<1> QED
  BY <1>1, SMT DEF Half

\* Division and remainder are determined by their defining equation.
LEMMA DivisionUnique ==
    ASSUME NEW q \in Int, NEW m \in Int, m > 0, NEW r \in Int, 0 <= r, r < m
    PROVE  (m * q + r) \div m = q /\ (m * q + r) % m = r
<1> DEFINE n == m * q + r
<1>1. n \in Int
  OBVIOUS
<1>2. q = n \div m /\ r = n % m
  BY <1>1, SMTT(60)
<1> QED
  BY <1>2

LEMMA Division ==
    ASSUME NEW n \in Int, NEW m \in Int, m > 0
    PROVE  /\ n \div m \in Int /\ n % m \in 0 .. m - 1
           /\ n = m * (n \div m) + (n % m)
  BY SMT

\* Numbers that differ by a multiple leave the same remainder.
LEMMA SameResidue ==
    ASSUME NEW y \in Int, NEW m \in Int, m > 0, NEW q \in Int
    PROVE  (m * q + y) % m = y % m
<1>1. y \div m \in Int /\ y % m \in 0 .. m - 1 /\ y = m * (y \div m) + (y % m)
  BY Division
<1> DEFINE k == y \div m
           r == y % m
<1> HIDE DEF k, r
<1>2. k \in Int /\ r \in Int /\ 0 <= r /\ r < m /\ y = m * k + r
  BY <1>1 DEF k, r
<1>3. m * q + y = m * (q + k) + r
  BY <1>2
<1>4. (m * (q + k) + r) % m = r
  BY <1>2, DivisionUnique
<1> QED
  BY <1>3, <1>4 DEF r

LEMMA SmallResidue ==
    ASSUME NEW m \in Int, m > 0, NEW r \in Int, 0 <= r, r < m
    PROVE  r % m = r
<1>1. (m * 0 + r) % m = r
  BY DivisionUnique
<1> QED
  BY <1>1

\* The remainder after one multiple more.
LEMMA NextResidue ==
    ASSUME NEW m \in Int, m > 0, NEW r \in Int, 0 <= r, r < m
    PROVE  (m + r) % m = r
<1>1. (m * 1 + r) % m = r
  BY DivisionUnique
<1> QED
  BY <1>1

\* A peer reads fifteen bits of the number that was written.
LEMMA DecodeEncode ==
    ASSUME NEW x \in 0 .. Word - 1
    PROVE  decodeSeq(encodeSeq(x)) = x % Half
<1> USE HalfFacts
<1>1. CASE x < Half
  <2>1. (2 * x) % Word = 2 * x
    BY <1>1, SmallResidue
  <2>2. x % Half = x
    BY <1>1, SmallResidue
  <2>3. (2 * x) \div 2 = x
    OBVIOUS
  <2> QED
    BY <2>1, <2>2, <2>3 DEF decodeSeq, encodeSeq
<1>2. CASE x >= Half
  <2> DEFINE y == x - Half
  <2>1. y \in Int /\ 0 <= y /\ y < Half /\ x = Half + y /\ 2 * x = Word + 2 * y
    BY <1>2
  <2> HIDE DEF y
  <2>2. (Word + 2 * y) % Word = 2 * y
    BY <2>1, NextResidue
  <2>3. (Half + y) % Half = y
    BY <2>1, NextResidue
  <2>4. (2 * y) \div 2 = y
    BY <2>1
  <2> QED
    BY <2>1, <2>2, <2>3, <2>4 DEF decodeSeq, encodeSeq
<1> QED
  BY <1>1, <1>2

\* What follows the number that was read is the number written next.
LEMMA NextNumber ==
    ASSUME NEW x \in 0 .. Word - 1
    PROVE  /\ (x + 1) % Word \in 0 .. Word - 1
           /\ nextSeq(x % Half) = ((x + 1) % Word) % Half
<1> USE HalfFacts
<1>1. (x + 1) % Word \in 0 .. Word - 1
  BY Division
<1>2. CASE x < Half - 1
  <2>1. x % Half = x /\ (x + 1) % Word = x + 1 /\ (x + 1) % Half = x + 1
    BY <1>2, SmallResidue
  <2> QED
    BY <1>1, <2>1 DEF nextSeq, Half
<1>3. CASE x = Half - 1
  <2>1. x % Half = x /\ (x + 1) % Word = x + 1
    BY <1>3, SmallResidue
  <2> QED
    BY <1>1, <1>3, <2>1 DEF nextSeq, Half
<1>4. CASE x >= Half
  <2> DEFINE y == x - Half
  <2>1. y \in Int /\ 0 <= y /\ y < Half /\ x = Half + y
    BY <1>4
  <2> HIDE DEF y
  <2>2. x % Half = y
    BY <2>1, NextResidue
  <2>3. CASE y < Half - 1
    <3>1. (x + 1) % Word = x + 1
      BY <2>1, <2>3, SmallResidue
    <3>2. (Half + (y + 1)) % Half = y + 1 /\ (y + 1) % Half = y + 1
      BY <2>1, <2>3, NextResidue, SmallResidue
    <3>3. x + 1 = Half + (y + 1)
      BY <2>1
    <3> QED
      BY <1>1, <2>2, <3>1, <3>2, <3>3 DEF nextSeq, Half
  <2>4. CASE y = Half - 1
    <3>1. x + 1 = Word + 0 /\ y + 1 = Half + 0
      BY <2>1, <2>4
    <3>2. (Word + 0) % Word = 0 /\ (Half + 0) % Half = 0 /\ 0 % Half = 0
      BY NextResidue, SmallResidue
    <3> QED
      BY <1>1, <2>2, <3>1, <3>2 DEF nextSeq, Half
  <2> QED
    BY <2>1, <2>3, <2>4
<1> QED
  BY <1>2, <1>3, <1>4

\* How many of the frames since a an acknowledgement of R covers.
LEMMA AckDistance ==
    ASSUME NEW a \in Int, NEW R \in Int, a <= R, R - a < Half
    PROVE  ((R % Half) - a) % Half = R - a
<1> USE HalfFacts
<1> DEFINE k == R \div Half
           r == R % Half
<1>1. k \in Int /\ r \in Int /\ R = Half * k + r
  BY Division
<1> HIDE DEF k, r
<1> DEFINE d == R - a
           j == -k
<1>2. d \in Int /\ 0 <= d /\ d < Half /\ j \in Int
  BY <1>1
<1>3. r - a = Half * j + d
  BY <1>1
<1> HIDE DEF d, j
<1>4. (Half * j + d) % Half = d
  BY <1>2, DivisionUnique
<1> QED
  BY <1>3, <1>4 DEF r, d

\* The server expects, modulo Half, the frame that the client sends next.
LEMMA Expected ==
    ASSUME NEW s \in Int
    PROVE  /\ (((s - 1) % Half) + 1) % Word \in 0 .. Word - 1
           /\ ((((s - 1) % Half) + 1) % Word) % Half = s % Half
<1> USE HalfFacts
<1> DEFINE k == (s - 1) \div Half
           r == (s - 1) % Half
<1>1. k \in Int /\ r \in 0 .. Half - 1 /\ s - 1 = Half * k + r
  BY Division
<1> HIDE DEF k, r
<1>2. (r + 1) % Word = r + 1
  BY <1>1, SmallResidue
<1>3. s = Half * k + (r + 1)
  BY <1>1
<1>4. (Half * k + (r + 1)) % Half = (r + 1) % Half
  BY <1>1, SameResidue
<1> QED
  BY <1>1, <1>2, <1>3, <1>4 DEF r

-----------------------------------------------------------------------------
(***************************************************************************)
(* Sequence numbers.                                                       *)
(***************************************************************************)
\* The client expects the number that the server writes next, and the server's
\* acknowledgement is one of a frame that the client sent and has not yet seen
\* acknowledged, or of the last one that it has.
Numbered ==
    /\ client.inOrder
    /\ sendSeq \in 0 .. Word - 1 /\ recvSeq \in 0 .. Word - 1
    /\ client.sent \in Nat /\ client.acked \in Nat
    /\ client.acked <= client.sent /\ client.sent - client.acked < Half
    /\ client.next = sendSeq % Half
    /\ \E R \in client.acked .. client.sent : recvSeq % Half = R % Half

\* A frame in hand carries the two numbers as they are.
Stamped(f) == f.ns = encodeSeq(sendSeq) /\ f.nr = encodeSeq(recvSeq)

SequenceInv ==
    /\ Numbered
    /\ reader.at = "I" => reader.ns = (client.sent - 1) % Half
    /\ reader.at = "writing" => loop.at # "writing" /\ Stamped(reader.sending)
    /\ loop.at = "writing" => reader.at # "startdt" /\ Stamped(loop.sending)

\* The client reads an acknowledgement.
LEMMA Acknowledged ==
    ASSUME Numbered
    PROVE  /\ plausible(encodeSeq(recvSeq))
           /\ LET acked == client.acked + newlyAcked(encodeSeq(recvSeq)) IN
              /\ acked \in Nat /\ acked <= client.sent /\ client.sent - acked < Half
              /\ \E R \in acked .. client.sent : recvSeq % Half = R % Half
<1>1. PICK R \in client.acked .. client.sent : recvSeq % Half = R % Half
  BY DEF Numbered
<1>2. R \in Int /\ client.acked \in Nat /\ client.sent \in Nat
      /\ client.acked \in Int /\ client.acked <= R /\ R <= client.sent
      /\ client.sent - client.acked < Half /\ R - client.acked < Half
  BY HalfFacts, <1>1 DEF Numbered
<1>3. decodeSeq(encodeSeq(recvSeq)) = R % Half
  BY <1>1, DecodeEncode DEF Numbered
<1>4. ((R % Half) - client.acked) % Half = R - client.acked
  BY <1>2, AckDistance
<1>5. newlyAcked(encodeSeq(recvSeq)) = R - client.acked
  BY <1>3, <1>4 DEF newlyAcked, Half
<1> QED
  BY HalfFacts, <1>1, <1>2, <1>5 DEF plausible

\* An I-frame, written and read, or the socket closed under it.
LEMMA FrameNumbered ==
    ASSUME DOMAIN client = ClientFields, Numbered, NEW f, Stamped(f), writeEnds(f)
    PROVE  Numbered' /\ recvSeq' = recvSeq /\ client'.sent = client.sent
<1>1. CASE open /\ clientReadsI(f) /\ sendSeq' = (sendSeq + 1) % Word /\ UNCHANGED recvSeq
  <2>1. /\ client'.sent = client.sent
        /\ client'.next = nextSeq(decodeSeq(f.ns))
        /\ client'.acked = client.acked + newlyAcked(f.nr)
        /\ client'.inOrder = (client.inOrder /\ decodeSeq(f.ns) = client.next /\ plausible(f.nr))
    BY <1>1, ReadsIFields
  <2>2. decodeSeq(f.ns) = sendSeq % Half /\ f.nr = encodeSeq(recvSeq)
    BY DecodeEncode DEF Stamped, Numbered
  <2>3. sendSeq' \in 0 .. Word - 1 /\ client'.next = sendSeq' % Half
    BY <1>1, <2>1, <2>2, NextNumber DEF Numbered
  <2>4. client'.inOrder
    BY <2>1, <2>2, Acknowledged DEF Numbered
  <2>5. /\ client'.acked \in Nat /\ client'.acked <= client'.sent
        /\ client'.sent - client'.acked < Half
        /\ \E R \in client'.acked .. client'.sent : recvSeq' % Half = R % Half
    BY <1>1, <2>1, <2>2, Acknowledged
  <2> QED
    BY <1>1, <2>1, <2>3, <2>4, <2>5 DEF Numbered, Half
<1>2. CASE UNCHANGED <<sendSeq, recvSeq, client>>
  BY <1>2 DEF Numbered, Half
<1> QED
  BY <1>1, <1>2 DEF writeEnds, tellVars

\* Most steps leave the numbers alone, and give nobody a frame to write.
LEMMA SequenceQuiet ==
    ASSUME SequenceInv, UNCHANGED <<sendSeq, recvSeq>>,
           client'.sent = client.sent, client'.next = client.next,
           client'.acked = client.acked, client'.inOrder = client.inOrder,
           reader' = reader \/ reader'.at \notin {"I", "writing", "startdt"},
           loop' = loop \/ loop'.at # "writing"
    PROVE  SequenceInv'
<1>1. Numbered'
  BY DEF SequenceInv, Numbered, Half
<1>2. reader'.at = "I" => reader'.ns = (client'.sent - 1) % Half
  BY DEF SequenceInv
<1>3. reader'.at = "writing" => loop'.at # "writing" /\ Stamped(reader'.sending)
  BY DEF SequenceInv, Stamped, encodeSeq
<1>4. loop'.at = "writing" => reader'.at # "startdt" /\ Stamped(loop'.sending)
  BY DEF SequenceInv, Stamped, encodeSeq
<1> QED
  BY <1>1, <1>2, <1>3, <1>4 DEF SequenceInv, Stamped, encodeSeq, Half

\* U-frames and acknowledgements number nothing.
LEMMA SequenceShort ==
    ASSUME ShapeInv, SequenceInv,
           \/ connectionEnds \/ testFrame \/ ignoresFrame \/ stopDataTransfer \/ startDataTransfer
           \/ confirmStart
    PROVE  SequenceInv'
<1>1. UNCHANGED <<sendSeq, recvSeq, loop>>
  BY DEF connectionEnds, testFrame, ignoresFrame, stopDataTransfer, startDataTransfer, confirmStart,
     readerVars, connVars
<1>2. /\ client'.sent = client.sent /\ client'.next = client.next
      /\ client'.acked = client.acked /\ client'.inOrder = client.inOrder
  BY ReadsUFields DEF ShapeInv, connectionEnds, testFrame, ignoresFrame, stopDataTransfer,
     startDataTransfer, confirmStart, tellVars, writeShort
<1>3. CASE ~confirmStart
  <2>1. reader' = reading \/ reader' = [reading EXCEPT !.at = "gone"]
    BY <1>3 DEF connectionEnds, testFrame, ignoresFrame, stopDataTransfer, startDataTransfer
  <2> QED
    BY <1>1, <1>2, <2>1, ReadingFields, SequenceQuiet
<1>4. CASE confirmStart
  <2>1. loop.at # "writing" /\ (reader' = [reader EXCEPT !.at = "startdt"] \/ reader' = reading)
    BY <1>4 DEF confirmStart, WriteMuFree
  <2>2. reader'.at \in {"startdt", "read"}
    BY <2>1, ReadingFields DEF ShapeInv, ReaderFields
  <2>3. Numbered'
    BY <1>1, <1>2 DEF SequenceInv, Numbered, Half
  <2> QED
    BY <1>1, <2>1, <2>2, <2>3 DEF SequenceInv
<1> QED
  BY <1>3, <1>4

\* The next number is that of the frame that the client has just sent.
LEMMA SequenceRead ==
    ASSUME ShapeInv, SequenceInv, NEW request \in Requests, readFrame(request)
    PROVE  SequenceInv'
<1>1. /\ UNCHANGED <<sendSeq, recvSeq, loop>> /\ reader.at = "read"
      /\ request.kind = "I" => client.sent - client.acked < Half - 1
  BY DEF readFrame, sends, Half
<1>2. /\ client'.sent = IF request.kind = "I" THEN client.sent + 1 ELSE client.sent
      /\ client'.next = client.next
      /\ client'.acked = client.acked /\ client'.inOrder = client.inOrder
  BY SentFields DEF ShapeInv, readFrame
<1>3. Numbered'
  <2>1. /\ client'.sent \in Nat /\ client'.acked \in Nat /\ client'.acked <= client'.sent
        /\ client'.sent - client'.acked < Half /\ client.sent <= client'.sent
    BY HalfFacts, <1>1, <1>2 DEF SequenceInv, Numbered
  <2>2. \E R \in client'.acked .. client'.sent : recvSeq' % Half = R % Half
    <3>1. PICK R \in client.acked .. client.sent : recvSeq % Half = R % Half
      BY DEF SequenceInv, Numbered
    <3>2. R \in client'.acked .. client'.sent
      BY <1>2, <2>1, <3>1 DEF SequenceInv, Numbered
    <3> QED
      BY <1>1, <3>1, <3>2
  <2> QED
    BY <1>1, <1>2, <2>1, <2>2 DEF SequenceInv, Numbered, Half
<1>4. CASE reader' = reader
  BY <1>1, <1>3, <1>4 DEF SequenceInv, Stamped, encodeSeq
<1>5. CASE reader' # reader
  <2>1. /\ request.kind \in {"U", "S", "I"} /\ reader'.at = request.kind
        /\ reader'.ns = client.sent % Half
    BY <1>5, ReadFrameFields DEF ShapeInv, Half
  <2>2. reader'.at = "I" => reader'.ns = (client'.sent - 1) % Half
    BY <1>2, <2>1 DEF SequenceInv, Numbered
  <2> QED
    BY <1>1, <1>3, <2>1, <2>2 DEF SequenceInv, Stamped, encodeSeq, Half
<1> QED
  BY <1>4, <1>5

\* setRecvSeq catches up with the client, writeSFrame tells it, and what
\* follows writes frames that carry both numbers.
LEMMA SequenceAnswer ==
    ASSUME ShapeInv, SequenceInv,
           \/ setRecvSeq \/ writeSFrame \/ handleASDU \/ written
           \/ writeIFrame \/ writeIFrameLocked \/ SnapshotDevice \/ heartbeatOverride \/ command
    PROVE  SequenceInv'
<1>1. CASE setRecvSeq
  <2>1. /\ reader.at = "I" /\ loop.at # "writing" /\ goto("ack")
        /\ recvSeq' = (reader.ns + 1) % Word /\ UNCHANGED <<sendSeq, loop, client>>
    BY <1>1 DEF setRecvSeq, WriteMuFree, readerVars, tellVars
  <2>2. reader'.at = "ack"
    BY <2>1, GotoFields DEF ShapeInv
  <2>3. /\ client.sent \in Int
        /\ recvSeq' = (((client.sent - 1) % Half) + 1) % Word
    BY <2>1 DEF SequenceInv, Numbered
  <2>4. recvSeq' \in 0 .. Word - 1 /\ recvSeq' % Half = client.sent % Half
    BY <2>3, Expected
  <2>5. Numbered'
    BY <2>1, <2>4 DEF SequenceInv, Numbered, Half
  <2> QED
    BY <2>1, <2>2, <2>5 DEF SequenceInv
<1>2. CASE writeSFrame
  <2>1. /\ reader.at = "ack" /\ loop.at # "writing" /\ goto("asdu")
        /\ UNCHANGED <<sendSeq, recvSeq, loop>>
        /\ (clientReadsS \/ client' = client)
    BY <1>2 DEF writeSFrame, writeShort, WriteMuFree, readerVars, tellVars
  <2>2. reader'.at = "asdu"
    BY <2>1, GotoFields DEF ShapeInv
  <2>3. CASE client' = client
    BY <2>1, <2>2, <2>3, SequenceQuiet
  <2>4. CASE clientReadsS
    <3>1. /\ client'.sent = client.sent /\ client'.next = client.next
          /\ client'.acked = client.acked + newlyAcked(encodeSeq(recvSeq))
          /\ client'.inOrder = (client.inOrder /\ plausible(encodeSeq(recvSeq)))
      BY <2>4, ReadsSFields DEF ShapeInv
    <3>2. Numbered'
      BY <2>1, <3>1, Acknowledged DEF SequenceInv, Numbered, Half
    <3> QED
      BY <2>1, <2>2, <3>2 DEF SequenceInv
  <2> QED
    BY <2>1, <2>3, <2>4
<1>3. CASE handleASDU \/ written \/ SnapshotDevice \/ heartbeatOverride \/ command
  <2>1. UNCHANGED <<sendSeq, recvSeq, loop, client>>
    BY <1>3 DEF handleASDU, written, SnapshotDevice, heartbeatOverride, command, readerVars,
       connVars, tellVars
  <2>2. reader'.at \in {"read", "command", "write", "snapshot", "override"}
    <3>1. CASE handleASDU \/ written \/ command
      <4>1. handleASDU => reader.frame.type \in {"C_IC", "C_S", "junk"}
        BY RequestKinds DEF handleASDU, ShapeInv, Answering
      <4>2. \/ reader' = reading \/ goto("command") \/ goto("snapshot")
            \/ \E asdu : reader' = [reader EXCEPT !.at = "write", !.todo = <<asdu>>]
        BY <3>1, <4>1 DEF handleASDU, written, command, goto
      <4> QED
        BY <4>2, ReadingFields, GotoFields, AnswerFields DEF ShapeInv
    <3>2. CASE SnapshotDevice \/ heartbeatOverride
      BY <3>2, SnapshotFields, OverrideFields DEF ShapeInv
    <3> QED
      BY <1>3, <3>1, <3>2
  <2> QED
    BY <2>1, <2>2, SequenceQuiet
<1>4. CASE writeIFrame
  <2>1. /\ loop.at # "writing" /\ UNCHANGED <<sendSeq, recvSeq, loop, client>>
        /\ reader'.at = "writing" /\ reader'.sending = IFrame(Head(reader.todo))
    BY <1>4, WriteFields DEF writeIFrame, WriteMuFree, ShapeInv, readerVars, connVars, tellVars
  <2>2. Stamped(reader'.sending)
    BY <2>1 DEF Stamped, IFrame
  <2>3. Numbered'
    BY <2>1 DEF SequenceInv, Numbered, Half
  <2> QED
    BY <2>1, <2>2, <2>3 DEF SequenceInv, Stamped, encodeSeq
<1>5. CASE writeIFrameLocked
  <2>1. /\ reader.at = "writing" /\ writeEnds(reader.sending) /\ loop' = loop
        /\ reader'.at = "write"
    BY <1>5, CountFields DEF writeIFrameLocked, ShapeInv, readerVars
  <2>2. Numbered' /\ loop.at # "writing"
    BY <2>1, FrameNumbered DEF SequenceInv, ShapeInv
  <2> QED
    BY <2>1, <2>2 DEF SequenceInv
<1> QED
  BY <1>1, <1>2, <1>3, <1>4, <1>5

\* The loop numbers its frames from the same counters, under the same writeMu.
LEMMA SequenceOthers ==
    ASSUME ShapeInv, SequenceInv,
           \/ updateLoops \/ Tick \/ doReset \/ UNCHANGED vars
           \/ Publishing
           \/ \E op \in LinkOps : LinkOp(op)
    PROVE  SequenceInv'
<1>1. CASE loopWrites
  <2>1. /\ loop.at = "writing" /\ writeEnds(loop.sending) /\ loop'.at = "recv" /\ reader' = reader
    BY <1>1 DEF loopWrites, idle
  <2>2. Numbered' /\ client'.sent = client.sent
    BY <2>1, FrameNumbered DEF SequenceInv, ShapeInv
  <2> QED
    BY <2>1, <2>2 DEF SequenceInv, Half
<1>2. CASE LoopsSend
  <2>1. UNCHANGED <<sendSeq, recvSeq, reader, client>> /\ reader.at \notin {"writing", "startdt"}
    BY <1>2 DEF LoopsSend, broadcast, hbLoop, sendIfStarted, loopVars, WriteMuFree, connVars, tellVars
  <2>2. CASE loop' = loop
    BY <2>1, <2>2, SequenceQuiet
  <2>3. CASE loop' # loop
    <3>1. PICK by, asdu : loop' = [at |-> "writing", by |-> by, sending |-> IFrame(asdu)]
      BY <1>2, <2>3 DEF LoopsSend, broadcast, hbLoop, sendIfStarted
    <3>2. Stamped(loop'.sending)
      BY <3>1 DEF Stamped, IFrame
    <3>3. Numbered'
      BY <2>1 DEF SequenceInv, Numbered, Half
    <3> QED
      BY <2>1, <3>2, <3>3 DEF SequenceInv, Stamped, encodeSeq
  <2> QED
    BY <2>2, <2>3
<1>3. CASE LoopSkips \/ Tick \/ doReset \/ UNCHANGED vars
  BY <1>3, SequenceQuiet DEF LoopSkips, loopSkips, admitHeartbeat, loopVars, Tick, doReset, resetBegins, resetEnters, resetRestores,
     resetClears, vars, tellVars, connVars
<1>4. CASE Publishing
  BY <1>4, SequenceQuiet DEF Publishing, publish, Inject, tellVars, connVars
<1>5. CASE \E op \in LinkOps : LinkOp(op)
  BY <1>5, SequenceQuiet DEF LinkOp, tellVars, connVars
<1> QED
  BY <1>1, <1>2, <1>3, <1>4, <1>5 DEF updateLoops, LoopSkips, LoopsSend

\* The sequence invariant, at every step.
LEMMA SequenceAlways == Spec => []SequenceInv
<1>1. Init => SequenceInv
  <2> SUFFICES ASSUME Init
               PROVE  SequenceInv
    OBVIOUS
  <2>1. /\ client.inOrder /\ client.sent = 0 /\ client.acked = 0 /\ client.next = 0
        /\ sendSeq = 0 /\ recvSeq = 0 /\ reader.at = "read" /\ loop.at = "recv"
    BY ReadingFields DEF Init, idle
  <2>2. 0 % Half = 0
    BY HalfFacts, SmallResidue
  <2> QED
    BY HalfFacts, <2>1, <2>2 DEF SequenceInv, Numbered
<1>2. ShapeInv /\ SequenceInv /\ [Next]_vars => SequenceInv'
  BY SequenceShort, SequenceRead, SequenceAnswer, SequenceOthers DEF Next, handleConn, Publishing
<1> QED
  BY <1>1, <1>2, ShapeAlways, PTL DEF Spec

-----------------------------------------------------------------------------
(***************************************************************************)
(* byAddress lists a set of points, each of them, and nothing else.        *)
(***************************************************************************)
Below(S, p) == {q \in S : ObjAddr[q] < ObjAddr[p]}
Rank(S) == [p \in S |-> Cardinality(Below(S, p))]

\* What SessionAssumption says of the points and their addresses.
LEMMA Addresses ==
    /\ IsFiniteSet(Points) /\ \A p \in Points : ObjAddr[p] \in Nat
    /\ \A p, q \in Points : ObjAddr[p] = ObjAddr[q] => p = q
  BY SessionAssumption DEF SessionAssumption

LEMMA FinitePoints ==
    ASSUME NEW S, S \subseteq Points
    PROVE  IsFiniteSet(S) /\ Cardinality(S) \in Nat
  BY Addresses, FS_Subset, FS_CardinalityType

\* A higher address has more points below it, ...
LEMMA RankGrows ==
    ASSUME NEW S, S \subseteq Points, NEW p \in S, NEW q \in S, ObjAddr[p] < ObjAddr[q]
    PROVE  Cardinality(Below(S, p)) < Cardinality(Below(S, q))
<1>1. ObjAddr[p] \in Nat /\ ObjAddr[q] \in Nat /\ \A x \in S : ObjAddr[x] \in Nat
  BY Addresses
<1>2. Below(S, p) \subseteq Below(S, q) /\ p \in Below(S, q) /\ p \notin Below(S, p)
  BY <1>1 DEF Below
<1>3. /\ IsFiniteSet(Below(S, q)) /\ Cardinality(Below(S, q)) \in Nat
      /\ Cardinality(Below(S, p)) \in Nat
  BY FinitePoints DEF Below
<1>4. Cardinality(Below(S, p)) <= Cardinality(Below(S, q))
      /\ Cardinality(Below(S, q)) # Cardinality(Below(S, p))
  BY <1>2, <1>3, FS_Subset
<1> QED
  BY <1>3, <1>4

\* ... so each rank below the size of the set is one point's, ...
LEMMA RankBijective ==
    ASSUME NEW S, S \subseteq Points
    PROVE  /\ \A p \in S : Rank(S)[p] \in 0 .. Cardinality(S) - 1
           /\ \A p, q \in S : Rank(S)[p] = Rank(S)[q] => p = q
           /\ \A i \in 0 .. Cardinality(S) - 1 : \E p \in S : Rank(S)[p] = i
<1>1. IsFiniteSet(S) /\ Cardinality(S) \in Nat
  BY FinitePoints
<1>2. ASSUME NEW p \in S
      PROVE  Rank(S)[p] \in 0 .. Cardinality(S) - 1
  <2>1. Below(S, p) \subseteq S \ {p}
    BY Addresses DEF Below
  <2>2. IsFiniteSet(S \ {p}) /\ Cardinality(S \ {p}) = Cardinality(S) - 1
    BY <1>1, FS_RemoveElement
  <2>3. Cardinality(Below(S, p)) <= Cardinality(S) - 1
    BY <2>1, <2>2, FS_Subset
  <2>4. Cardinality(Below(S, p)) \in Nat
    BY FinitePoints DEF Below
  <2> QED
    BY <1>1, <2>3, <2>4 DEF Rank
<1>3. ASSUME NEW p \in S, NEW q \in S, Rank(S)[p] = Rank(S)[q]
      PROVE  p = q
  <2>1. ObjAddr[p] \in Nat /\ ObjAddr[q] \in Nat
    BY Addresses
  <2>2. Cardinality(Below(S, p)) = Cardinality(Below(S, q))
        /\ Cardinality(Below(S, p)) \in Nat
    BY <1>3, FinitePoints DEF Rank, Below
  <2>3. ~(ObjAddr[p] < ObjAddr[q]) /\ ~(ObjAddr[q] < ObjAddr[p])
    BY <2>2, RankGrows
  <2> QED
    BY <2>1, <2>3, Addresses
<1>4. Rank(S) \in Injection(S, 0 .. Cardinality(S) - 1)
  BY <1>2, <1>3 DEF Rank, Injection, IsInjective
<1>5. IsFiniteSet(0 .. Cardinality(S) - 1)
      /\ Cardinality(0 .. Cardinality(S) - 1) = Cardinality(S)
  BY <1>1, FS_Interval
<1>6. Rank(S) \in Surjection(S, 0 .. Cardinality(S) - 1)
  BY <1>4, <1>5, FS_Injection
<1> QED
  BY <1>2, <1>3, <1>6 DEF Surjection

\* ... and byAddress lists each point once.
LEMMA AddressOrder ==
    ASSUME NEW S, S \subseteq Points
    PROVE  /\ Cardinality(S) \in Nat /\ DOMAIN byAddress(S) = 1 .. Cardinality(S)
           /\ \A i \in 1 .. Cardinality(S) : byAddress(S)[i] \in S
           /\ \A p \in S : \E i \in 1 .. Cardinality(S) : byAddress(S)[i] = p
<1>1. Cardinality(S) \in Nat /\ DOMAIN byAddress(S) = 1 .. Cardinality(S)
  BY FinitePoints DEF byAddress
<1>2. ASSUME NEW i \in 1 .. Cardinality(S)
      PROVE  byAddress(S)[i] \in S /\ Rank(S)[byAddress(S)[i]] = i - 1
  <2>1. byAddress(S)[i] = CHOOSE p \in S : Cardinality(Below(S, p)) = i - 1
    BY DEF byAddress, Below
  <2>2. \E p \in S : Cardinality(Below(S, p)) = i - 1
    <3>1. i - 1 \in 0 .. Cardinality(S) - 1
      BY <1>1
    <3> QED
      BY <3>1, RankBijective DEF Rank
  <2> QED
    BY <2>1, <2>2 DEF Rank
<1>3. ASSUME NEW p \in S
      PROVE  \E i \in 1 .. Cardinality(S) : byAddress(S)[i] = p
  <2>1. Rank(S)[p] \in 0 .. Cardinality(S) - 1
    BY RankBijective
  <2>2. PICK i \in 1 .. Cardinality(S) : i - 1 = Rank(S)[p]
    <3>1. Rank(S)[p] + 1 \in 1 .. Cardinality(S) /\ (Rank(S)[p] + 1) - 1 = Rank(S)[p]
      BY <1>1, <2>1
    <3> QED
      BY <3>1
  <2>3. byAddress(S)[i] = p
    BY <1>2, <2>2, RankBijective
  <2> QED
    BY <2>3
<1> QED
  BY <1>1, <1>2, <1>3

-----------------------------------------------------------------------------
(***************************************************************************)
(* The store, and the Changes on their way to the loop.                    *)
(***************************************************************************)
\* What a point can hold: numbers, and what commands and faults carry.
Datum == Nat \cup Values \cup {r.value : r \in Requests}
Change == [key : Points, value : Datum, version : Nat]

StoreInv ==
    /\ value \in [Points -> Datum] /\ version \in [Points -> Nat]
    /\ changes \in Seq(Change) /\ pub \in [Writers -> Seq(Change)] /\ hbQueue \in Seq(Change)
    /\ frozen \in Datum \cup {None} /\ ticks \in Nat

\* A Change is up to date, or it is of an older write.
TrueOf(c) == /\ c.version <= version[c.key]
             /\ c.version = version[c.key] => c.value = value[c.key]

\* What a writer commits and publishes.
LEMMA Published ==
    ASSUME StoreInv, NEW new, DOMAIN new \subseteq Points, \A p \in DOMAIN new : new[p] \in Datum,
           commit(new)
    PROVE  /\ value' \in [Points -> Datum] /\ version' \in [Points -> Nat]
           /\ published(new) \in Seq(Change)
           /\ \A i \in DOMAIN published(new) :
                /\ published(new)[i].version = version'[published(new)[i].key]
                /\ published(new)[i].value = value'[published(new)[i].key]
           /\ \A p \in DOMAIN new : \E i \in DOMAIN published(new) :
                published(new)[i].key = p /\ published(new)[i].version = version'[p]
           /\ \A p \in Points \ DOMAIN new : value'[p] = value[p] /\ version'[p] = version[p]
           /\ \A p \in DOMAIN new : version'[p] = version[p] + 1
<1> DEFINE keys == byAddress(DOMAIN new)
           n == Cardinality(DOMAIN new)
<1>1. /\ n \in Nat /\ DOMAIN keys = 1 .. n /\ \A i \in 1 .. n : keys[i] \in DOMAIN new
      /\ \A p \in DOMAIN new : \E i \in 1 .. n : keys[i] = p
  BY AddressOrder
<1>2. /\ published(new) = [i \in 1 .. n |-> [key |-> keys[i], value |-> new[keys[i]],
                                             version |-> version[keys[i]] + 1]]
  BY <1>1 DEF published
<1> HIDE DEF keys, n
<1>3. /\ value' \in [Points -> Datum] /\ version' \in [Points -> Nat]
      /\ \A p \in Points \ DOMAIN new : value'[p] = value[p] /\ version'[p] = version[p]
      /\ \A p \in DOMAIN new : version'[p] = version[p] + 1 /\ value'[p] = new[p]
  BY DEF StoreInv, commit
<1>4. /\ DOMAIN published(new) = 1 .. n
      /\ \A i \in 1 .. n : /\ published(new)[i] \in Change
                           /\ published(new)[i].key = keys[i]
                           /\ published(new)[i].value = new[keys[i]]
                           /\ published(new)[i].version = version[keys[i]] + 1
  BY <1>1, <1>2 DEF StoreInv, Change
<1>5. published(new) \in Seq(Change)
  BY <1>1, <1>2, <1>4
<1>6. \A i \in 1 .. n : /\ published(new)[i].version = version'[published(new)[i].key]
                        /\ published(new)[i].value = value'[published(new)[i].key]
  BY <1>1, <1>3, <1>4
<1>7. \A p \in DOMAIN new : \E i \in 1 .. n :
        published(new)[i].key = p /\ published(new)[i].version = version'[p]
  BY <1>1, <1>3, <1>4
<1> QED
  BY <1>3, <1>4, <1>5, <1>6, <1>7

\* A writer commits what the points can hold.
Writing ==
    \E w \in Writers : \E new :
        /\ DOMAIN new \subseteq Points
        /\ \A p \in DOMAIN new : new[p] \in Datum
        /\ writes(w, new)

\* What the writers write.
LEMMA TickWrites ==
    ASSUME StoreInv, Tick
    PROVE  Writing
<1> DEFINE new == [p \in {q \in Points : Class[q] = "telemetry" /\ q \notin Range(Readback)}
                     |-> ticks + 1]
<1>1. DOMAIN new \subseteq Points /\ \A p \in DOMAIN new : new[p] \in Datum
  BY DEF StoreInv, Datum
<1>2. writes("tick", new) /\ "tick" \in Writers
  BY DEF Tick, Writers
<1> QED
  BY <1>1, <1>2 DEF Writing

\* A command writes its setpoint, with the readback, or nothing.
LEMMA CommandWrites ==
    ASSUME StoreInv, ShapeInv, command
    PROVE  UNCHANGED storeVars \/ Writing
<1>1. reader.frame \in Requests
  BY DEF command, ShapeInv, Answering
<1> DEFINE v == reader.frame.value
<1>2. v \in Datum
  BY <1>1 DEF Datum
<1>3. ASSUME NEW p \in writable(reader.frame),
             LET new == IF p \in DOMAIN Readback THEN withReadback(p, v) ELSE justOne(p, v)
             IN  writes("command", new)
      PROVE  Writing
  <2> DEFINE new == IF p \in DOMAIN Readback THEN withReadback(p, v) ELSE justOne(p, v)
  <2>1. p \in Points /\ (p \in DOMAIN Readback => Readback[p] \in Points)
    BY SessionAssumption DEF SessionAssumption, writable
  <2>2. DOMAIN new \subseteq Points /\ \A q \in DOMAIN new : new[q] \in Datum
    BY <1>2, <2>1 DEF withReadback, justOne
  <2>3. writes("command", new) /\ "command" \in Writers
    BY <1>3 DEF Writers
  <2> QED
    BY <2>2, <2>3 DEF Writing
<1> QED
  BY <1>3 DEF command

\* A fault writes its alarm.
LEMMA InjectWrites ==
    ASSUME StoreInv, NEW i \in Injectors, NEW p \in Points, NEW v \in Values, Inject(i, p, v)
    PROVE  Writing
<1> DEFINE new == justOne(p, v)
<1>1. DOMAIN new \subseteq Points /\ \A q \in DOMAIN new : new[q] \in Datum
  BY DEF justOne, Datum
<1>2. writes(i, new) /\ i \in Writers
  BY DEF Inject, Writers
<1> QED
  BY <1>1, <1>2 DEF Writing

\* A reset writes what is not 0.
LEMMA ResetWrites ==
    ASSUME StoreInv, resetRestores
    PROVE  Writing
<1> DEFINE new == [p \in {q \in Points : value[q] # 0} |-> 0]
<1>1. DOMAIN new \subseteq Points /\ \A p \in DOMAIN new : new[p] \in Datum
  BY DEF Datum
<1>2. writes("reset", new) /\ "reset" \in Writers
  BY DEF resetRestores, restore, Writers
<1> QED
  BY <1>1, <1>2 DEF Writing

\* Nobody but the writers changes the store, nobody but they and
\* spontaneousLoop the channel, and nobody but the loops hbQueue.
LEMMA StoreSteps ==
    ASSUME ShapeInv, StoreInv, [Next]_vars
    PROVE  \/ UNCHANGED storeVars
           \/ Writing
           \/ \E w \in Writers : publish(w)
           \/ LoopSkips \/ broadcast
           \/ hbLoop /\ UNCHANGED <<value, version, changes, pub, lost>>
<1>1. CASE handleConn /\ ~command
  BY <1>1 DEF handleConn, readFrame, connectionEnds, confirmStart, startDataTransfer, stopDataTransfer,
     testFrame, ignoresFrame, setRecvSeq, writeSFrame, handleASDU, writeIFrame, writeIFrameLocked,
     written, SnapshotDevice, heartbeatOverride, readerVars
<1>2. CASE command
  BY <1>2, CommandWrites
<1>3. CASE updateLoops
  BY <1>3 DEF updateLoops, LoopSkips, hbLoop, loopWrites, sendIfStarted, loopVars
<1>4. CASE Tick
  BY <1>4, TickWrites
<1>5. CASE doReset
  BY <1>5, ResetWrites DEF doReset, resetBegins, resetEnters, resetClears
<1>6. CASE (\E op \in LinkOps : LinkOp(op)) \/ UNCHANGED vars
  BY <1>6 DEF LinkOp, vars
<1>7. CASE \E i \in Injectors, p \in Points, v \in Values : Inject(i, p, v)
  BY <1>7, InjectWrites
<1> QED
  BY <1>1, <1>2, <1>3, <1>4, <1>5, <1>6, <1>7 DEF Next

-----------------------------------------------------------------------------
(***************************************************************************)
(* The members of a sequence.                                              *)
(***************************************************************************)
LEMMA RangeConcat ==
    ASSUME NEW X, NEW s \in Seq(X), NEW t \in Seq(X)
    PROVE  s \o t \in Seq(X) /\ Range(s \o t) = Range(s) \cup Range(t)
<1>1. /\ s \o t \in Seq(X) /\ DOMAIN (s \o t) = 1 .. Len(s) + Len(t)
      /\ DOMAIN s = 1 .. Len(s) /\ DOMAIN t = 1 .. Len(t)
      /\ Len(s) \in Nat /\ Len(t) \in Nat
      /\ \A i \in 1 .. Len(s) : (s \o t)[i] = s[i]
      /\ \A i \in 1 .. Len(t) : (s \o t)[Len(s) + i] = t[i]
  OBVIOUS
<1> DEFINE u == s \o t
<1> HIDE DEF u
<1>2. ASSUME NEW x \in Range(u)
      PROVE  x \in Range(s) \cup Range(t)
  <2>1. PICK i \in DOMAIN u : x = u[i]
    BY DEF Range
  <2>2. CASE i <= Len(s)
    BY <1>1, <2>1, <2>2 DEF Range, u
  <2>3. CASE i > Len(s)
    <3>1. i - Len(s) \in 1 .. Len(t) /\ i = Len(s) + (i - Len(s))
      BY <1>1, <2>1, <2>3 DEF u
    <3>2. x = t[i - Len(s)]
      BY <1>1, <2>1, <3>1 DEF u
    <3> QED
      BY <1>1, <3>1, <3>2 DEF Range
  <2> QED
    BY <1>1, <2>1, <2>2, <2>3 DEF u
<1>3. ASSUME NEW x \in Range(s)
      PROVE  x \in Range(u)
  <2>1. PICK i \in 1 .. Len(s) : x = s[i]
    BY <1>1 DEF Range
  <2>2. i \in DOMAIN u /\ u[i] = x
    BY <1>1, <2>1 DEF u
  <2> QED
    BY <2>2 DEF Range
<1>4. ASSUME NEW x \in Range(t)
      PROVE  x \in Range(u)
  <2>1. PICK i \in 1 .. Len(t) : x = t[i]
    BY <1>1 DEF Range
  <2>2. Len(s) + i \in DOMAIN u /\ u[Len(s) + i] = x
    BY <1>1, <2>1 DEF u
  <2> QED
    BY <2>2 DEF Range
<1>5. Range(u) = Range(s) \cup Range(t)
  BY <1>2, <1>3, <1>4
<1> QED
  BY <1>1, <1>5 DEF u

LEMMA RangeTail ==
    ASSUME NEW X, NEW s \in Seq(X), s # << >>
    PROVE  /\ Tail(s) \in Seq(X) /\ Head(s) \in X
           /\ Range(s) = {Head(s)} \cup Range(Tail(s))
<1>1. /\ Tail(s) \in Seq(X) /\ Head(s) = s[1] /\ Head(s) \in X
      /\ Len(s) \in Nat /\ Len(s) >= 1
      /\ DOMAIN s = 1 .. Len(s) /\ DOMAIN Tail(s) = 1 .. Len(s) - 1
      /\ \A i \in 1 .. Len(s) - 1 : Tail(s)[i] = s[i + 1]
  OBVIOUS
<1> DEFINE u == Tail(s)
           h == Head(s)
<1> HIDE DEF u, h
<1>2. ASSUME NEW x \in Range(s)
      PROVE  x = h \/ x \in Range(u)
  <2>1. PICK i \in 1 .. Len(s) : x = s[i]
    BY <1>1 DEF Range
  <2>2. CASE i = 1
    BY <1>1, <2>1, <2>2 DEF h
  <2>3. CASE i # 1
    <3>1. i - 1 \in 1 .. Len(s) - 1 /\ i = (i - 1) + 1
      BY <1>1, <2>1, <2>3
    <3>2. u[i - 1] = x /\ i - 1 \in DOMAIN u
      BY <1>1, <2>1, <3>1 DEF u
    <3> QED
      BY <3>2 DEF Range
  <2> QED
    BY <2>2, <2>3
<1>3. ASSUME NEW x \in Range(u)
      PROVE  x \in Range(s)
  <2>1. PICK i \in 1 .. Len(s) - 1 : x = u[i]
    BY <1>1 DEF Range, u
  <2>2. i + 1 \in DOMAIN s /\ s[i + 1] = x
    BY <1>1, <2>1 DEF u
  <2> QED
    BY <2>2 DEF Range
<1>4. h \in Range(s)
  <2>1. 1 \in DOMAIN s /\ s[1] = h
    BY <1>1 DEF h
  <2> QED
    BY <2>1 DEF Range
<1>5. Range(s) = {h} \cup Range(u)
  BY <1>2, <1>3, <1>4
<1> QED
  BY <1>1, <1>5 DEF u, h

LEMMA RangeEmpty == Range(<< >>) = {}
  BY DEF Range

LEMMA RangeTyped ==
    ASSUME NEW X, NEW s \in Seq(X), NEW x \in Range(s)
    PROVE  x \in X
  BY DEF Range

LEMMA RangeOne ==
    ASSUME NEW X, NEW x \in X
    PROVE  <<x>> \in Seq(X) /\ Range(<<x>>) = {x}
<1>1. DOMAIN <<x>> = {1} /\ <<x>>[1] = x /\ <<x>> \in Seq(X)
  OBVIOUS
<1> QED
  BY <1>1 DEF Range

LEMMA RangeAppend ==
    ASSUME NEW X, NEW s \in Seq(X), NEW x \in X
    PROVE  Append(s, x) \in Seq(X) /\ Range(Append(s, x)) = Range(s) \cup {x}
<1>1. Append(s, x) = s \o <<x>>
  OBVIOUS
<1>2. Append(s, x) \in Seq(X)
  OBVIOUS
<1> DEFINE t == <<x>>
<1>3. t \in Seq(X) /\ Range(t) = {x}
  BY RangeOne
<1> HIDE DEF t
<1>4. Range(s \o t) = Range(s) \cup {x}
  BY <1>3, RangeConcat
<1> QED
  BY <1>1, <1>2, <1>4 DEF t

-----------------------------------------------------------------------------
(***************************************************************************)
(* Every Change on its way is up to date or of an older write.             *)
(***************************************************************************)
StoreTrue ==
    /\ \A c \in Range(changes) : TrueOf(c)
    /\ \A w \in Writers : \A c \in Range(pub[w]) : TrueOf(c)

HeartbeatsTrue == \A c \in Range(hbQueue) : TrueOf(c) /\ c.key = Heartbeat

\* A point's last write is on its way to the loop, or it was lost at the channel.
Latest(c, p) == c.key = p /\ c.version = version[p]
Channelled(p) ==
    \/ \E c \in Range(changes) : Latest(c, p)
    \/ \E w \in Writers : \E c \in Range(pub[w]) : Latest(c, p)
    \/ p \in lost

\* What one step does to the store and to the Changes on their way.
ChannelKept == \A p \in Points : version'[p] = version[p] /\ Channelled(p) => Channelled(p)'
Versioned == \A p \in Points : \/ version'[p] = version[p] /\ value'[p] = value[p]
                              \/ version'[p] = version[p] + 1
StoreStep ==
    /\ Versioned
    /\ \A p \in Points : version'[p] = version[p] \/ Channelled(p)'
    /\ ChannelKept \/ LoopSkips \/ broadcast

Typed == /\ value \in [Points -> Datum] /\ version \in [Points -> Nat]
         /\ changes \in Seq(Change) /\ pub \in [Writers -> Seq(Change)]

\* A Change stays true under a write.
LEMMA TrueStays ==
    ASSUME StoreInv, Versioned, NEW c \in Change, TrueOf(c)
    PROVE  TrueOf(c)'
<1>1. c.key \in Points /\ c.version \in Nat /\ version[c.key] \in Nat
  BY DEF Change, StoreInv
<1> QED
  BY <1>1 DEF TrueOf, Versioned

\* A write of some points, which their writer has yet to publish.
LEMMA StoreWritten ==
    ASSUME StoreInv, StoreTrue, Writing
    PROVE  Typed' /\ StoreTrue' /\ StoreStep
<1>0. PICK i \in Writers : \E new : /\ DOMAIN new \subseteq Points
                                    /\ \A p \in DOMAIN new : new[p] \in Datum
                                    /\ writes(i, new)
  BY DEF Writing
<1> PICK new : /\ DOMAIN new \subseteq Points
               /\ \A p \in DOMAIN new : new[p] \in Datum
               /\ writes(i, new)
  BY <1>0
<1> DEFINE s == published(new)
<1>1. /\ value' \in [Points -> Datum] /\ version' \in [Points -> Nat] /\ s \in Seq(Change)
      /\ \A k \in DOMAIN s : s[k].version = version'[s[k].key] /\ s[k].value = value'[s[k].key]
      /\ \A p \in DOMAIN new : \E k \in DOMAIN s : s[k].key = p /\ s[k].version = version'[p]
      /\ \A p \in Points \ DOMAIN new : value'[p] = value[p] /\ version'[p] = version[p]
      /\ \A p \in DOMAIN new : version'[p] = version[p] + 1
  BY Published DEF writes
<1>2. /\ changes' = changes /\ pub[i] = << >> /\ pub' = [pub EXCEPT ![i] = s]
      /\ lost' = lost \ DOMAIN new
  BY DEF writes, commit
<1> HIDE DEF s
<1>3. Versioned
  BY <1>1 DEF Versioned
<1>4. /\ \A c \in Range(s) : c.version = version'[c.key] /\ c.value = value'[c.key]
      /\ \A p \in DOMAIN new : \E c \in Range(s) : c.key = p /\ c.version = version'[p]
  BY <1>1 DEF Range
<1>5. \A c \in Range(s) : TrueOf(c)'
  <2> SUFFICES ASSUME NEW c \in Range(s)
               PROVE  TrueOf(c)'
    OBVIOUS
  <2>1. c \in Change
    BY <1>1, RangeTyped
  <2>2. c.version \in Nat
    BY <2>1 DEF Change
  <2> QED
    BY <1>4, <2>2 DEF TrueOf
<1>6. \A c \in Range(changes) : c \in Change
  BY RangeTyped DEF StoreInv
<1>7. \A w \in Writers : \A c \in Range(pub[w]) : c \in Change
  BY RangeTyped DEF StoreInv
<1>8. /\ pub' \in [Writers -> Seq(Change)]
      /\ Range(pub'[i]) = Range(s) /\ Range(pub[i]) = {}
      /\ \A w \in Writers \ {i} : Range(pub'[w]) = Range(pub[w])
  BY <1>1, <1>2, RangeEmpty DEF StoreInv
<1>9. StoreTrue'
  <2>1. \A c \in Range(changes') : TrueOf(c)'
    BY <1>2, <1>3, <1>6, TrueStays DEF StoreTrue
  <2>2. \A w \in Writers : \A c \in Range(pub'[w]) : TrueOf(c)'
    BY <1>3, <1>5, <1>7, <1>8, TrueStays DEF StoreTrue
  <2> QED
    BY <2>1, <2>2 DEF StoreTrue
<1>10. \A p \in Points : version'[p] = version[p] \/ Channelled(p)'
  <2>1. ASSUME NEW p \in DOMAIN new
        PROVE  Channelled(p)'
    <3>1. PICK c \in Range(s) : c.key = p /\ c.version = version'[p]
      BY <1>4
    <3>2. c \in Range(pub'[i])
      BY <1>8
    <3> QED
      BY <3>1, <3>2 DEF Channelled, Latest
  <2> QED
    BY <1>1, <2>1
<1>11. ChannelKept
  <2> SUFFICES ASSUME NEW p \in Points, version'[p] = version[p], Channelled(p)
               PROVE  Channelled(p)'
    BY DEF ChannelKept
  <2>1. p \notin DOMAIN new
    BY <1>1 DEF StoreInv
  <2> QED
    BY <1>2, <1>8, <2>1 DEF Channelled, Latest
<1> QED
  BY <1>1, <1>2, <1>3, <1>8, <1>9, <1>10, <1>11 DEF StoreStep, Typed, StoreInv

\* A Change goes into the channel, or, when that is full, is lost.
LEMMA StorePublished ==
    ASSUME StoreInv, StoreTrue, NEW w \in Writers, publish(w)
    PROVE  Typed' /\ StoreTrue' /\ StoreStep
<1> DEFINE c == Head(pub[w])
           t == Tail(pub[w])
<1>1. /\ t \in Seq(Change) /\ c \in Change /\ Range(pub[w]) = {c} \cup Range(t)
  <2>1. pub[w] \in Seq(Change) /\ pub[w] # << >>
    BY DEF StoreInv, publish
  <2> QED
    BY <2>1, RangeTail
<1>2. /\ pub' = [pub EXCEPT ![w] = t] /\ UNCHANGED <<value, version>>
      /\ \/ changes' = Append(changes, c) /\ lost' = lost
         \/ changes' = changes /\ lost' = lost /\ c.version # version[c.key]
         \/ changes' = changes /\ lost' = lost \cup {c.key}
  BY DEF publish
<1> HIDE DEF c, t
<1>3. /\ pub' \in [Writers -> Seq(Change)] /\ Range(pub'[w]) = Range(t)
      /\ \A v \in Writers \ {w} : Range(pub'[v]) = Range(pub[v])
  BY <1>1, <1>2 DEF StoreInv
<1>4. /\ changes' \in Seq(Change)
      /\ Range(changes) \subseteq Range(changes') /\ Range(changes') \subseteq Range(changes) \cup {c}
      /\ lost \subseteq lost'
      /\ (c \in Range(changes') \/ c.key \in lost' \/ c.version # version[c.key])
  <2>1. Append(changes, c) \in Seq(Change) /\ Range(Append(changes, c)) = Range(changes) \cup {c}
    BY <1>1, RangeAppend DEF StoreInv
  <2> QED
    BY <1>2, <2>1 DEF StoreInv
<1>5. StoreTrue'
  BY <1>1, <1>2, <1>3, <1>4 DEF StoreTrue, TrueOf
<1>6. \A p \in Points : Channelled(p) => Channelled(p)'
  <2> SUFFICES ASSUME NEW p \in Points, Channelled(p)
               PROVE  Channelled(p)'
    OBVIOUS
  <2>1. CASE Latest(c, p)
    BY <1>2, <1>4, <2>1 DEF Channelled, Latest
  <2>2. CASE p \in lost \/ \E d \in Range(changes) : Latest(d, p)
    BY <1>2, <1>4, <2>2 DEF Channelled, Latest
  <2>3. CASE \E d \in Range(t) : Latest(d, p)
    BY <1>2, <1>3, <2>3 DEF Channelled, Latest
  <2>4. CASE \E v \in Writers \ {w} : \E d \in Range(pub[v]) : Latest(d, p)
    BY <1>2, <1>3, <2>4 DEF Channelled, Latest
  <2> QED
    BY <1>1, <2>1, <2>2, <2>3, <2>4 DEF Channelled
<1> QED
  BY <1>2, <1>3, <1>4, <1>5, <1>6 DEF StoreStep, ChannelKept, Versioned, Typed, StoreInv

\* Every step keeps the Changes true, and every last write on its way or lost.
LEMMA StoreKept ==
    ASSUME ShapeInv, StoreInv, StoreTrue, [Next]_vars
    PROVE  Typed' /\ StoreTrue' /\ StoreStep
<1>1. CASE UNCHANGED <<value, version, changes, pub, lost>>
  BY <1>1 DEF StoreInv, StoreTrue, StoreStep, ChannelKept, Versioned, Typed, TrueOf, Channelled, Latest
<1>2. CASE LoopSkips \/ broadcast
  <2>1. changes # << >> /\ changes' = Tail(changes) /\ UNCHANGED <<value, version, pub>>
    BY <1>2 DEF LoopSkips, loopSkips, admitHeartbeat, broadcast, sendIfStarted, nextChange, loopVars
  <2>2. changes' \in Seq(Change) /\ Range(changes') \subseteq Range(changes)
    BY <2>1, RangeTail DEF StoreInv
  <2>3. StoreTrue'
    BY <2>1, <2>2 DEF StoreTrue, TrueOf
  <2> QED
    BY <1>2, <2>1, <2>2, <2>3 DEF StoreInv, StoreStep, Versioned, Typed
<1> QED
  BY <1>1, <1>2, StoreSteps, StoreWritten, StorePublished DEF storeVars

\* What hbQueue holds was taken from the channel.
LEMMA HeartbeatsKept ==
    ASSUME ShapeInv, StoreInv, StoreTrue, HeartbeatsTrue, [Next]_vars
    PROVE  hbQueue' \in Seq(Change) /\ HeartbeatsTrue'
<1>1. Versioned
  BY StoreKept DEF StoreStep
<1>2. /\ hbQueue' \in Seq(Change)
      /\ \A c \in Range(hbQueue') :
           c \in Range(hbQueue) \/ (c \in Range(changes) /\ c.key = Heartbeat)
  <2>1. CASE hbQueue' = hbQueue
    BY <2>1 DEF StoreInv
  <2>2. CASE hbLoop
    BY <2>2, RangeTail DEF hbLoop, StoreInv
  <2>3. CASE admitHeartbeat
    <3> DEFINE c == Head(changes)
    <3>1. /\ c \in Change /\ c \in Range(changes) /\ c.key = Heartbeat
          /\ (hbQueue' = hbQueue \/ hbQueue' = Append(hbQueue, c))
      BY <2>3, RangeTail DEF admitHeartbeat, nextChange, StoreInv
    <3> HIDE DEF c
    <3>2. Append(hbQueue, c) \in Seq(Change) /\ Range(Append(hbQueue, c)) = Range(hbQueue) \cup {c}
      BY <3>1, RangeAppend DEF StoreInv
    <3> QED
      BY <3>1, <3>2 DEF StoreInv
  <2>4. hbQueue' = hbQueue \/ hbLoop \/ admitHeartbeat
    <3>1. Writing => hbQueue' = hbQueue
      BY DEF Writing, writes, commit
    <3> QED
      BY <3>1, StoreSteps DEF storeVars, publish, LoopSkips, loopSkips, broadcast
  <2> QED
    BY <2>1, <2>2, <2>3, <2>4
<1>3. \A c \in Range(hbQueue) \cup Range(changes) : c \in Change
  BY RangeTyped DEF StoreInv
<1> QED
  BY <1>1, <1>2, <1>3, TrueStays DEF StoreTrue, HeartbeatsTrue

\* The override and the tick count.
LEMMA LinkKept ==
    ASSUME ShapeInv, StoreInv, [Next]_vars
    PROVE  frozen' \in Datum \cup {None} /\ ticks' \in Nat
<1>1. CASE handleConn \/ updateLoops
  BY <1>1 DEF StoreInv, handleConn, updateLoops, readFrame, connectionEnds, confirmStart,
     startDataTransfer, stopDataTransfer, testFrame, ignoresFrame, setRecvSeq, writeSFrame, handleASDU,
     writeIFrame, writeIFrameLocked, written, SnapshotDevice, heartbeatOverride, command,
     loopSkips, admitHeartbeat, broadcast, hbLoop, sendIfStarted, loopWrites, loopVars, readerVars,
     linkVars
<1>2. CASE Tick \/ doReset \/ UNCHANGED vars
  BY <1>2 DEF StoreInv, Tick, doReset, resetBegins, resetEnters, resetRestores, resetClears,
     vars, linkVars
<1>3. CASE Publishing
  BY <1>3 DEF StoreInv, Publishing, publish, Inject, linkVars
<1>4. CASE \E op \in LinkOps : LinkOp(op)
  <2>1. value[Heartbeat] \in Datum
    BY SessionAssumption DEF SessionAssumption, StoreInv
  <2> QED
    BY <1>4, <2>1 DEF StoreInv, LinkOp
<1> QED
  BY <1>1, <1>2, <1>3, <1>4 DEF Next, Publishing

\* The store's invariants, at every step.
LEMMA StoreAlways == Spec => [](StoreInv /\ StoreTrue /\ HeartbeatsTrue)
<1>1. Init => StoreInv /\ StoreTrue /\ HeartbeatsTrue
  <2> SUFFICES ASSUME Init
               PROVE  StoreInv /\ StoreTrue /\ HeartbeatsTrue
    OBVIOUS
  <2>1. StoreInv
    BY DEF Init, StoreInv, Datum
  <2>2. Range(changes) = {} /\ Range(hbQueue) = {} /\ \A w \in Writers : Range(pub[w]) = {}
    BY RangeEmpty DEF Init
  <2> QED
    BY <2>1, <2>2 DEF StoreTrue, HeartbeatsTrue
<1>2. ShapeInv /\ (StoreInv /\ StoreTrue /\ HeartbeatsTrue) /\ [Next]_vars
        => (StoreInv /\ StoreTrue /\ HeartbeatsTrue)'
  BY StoreKept, LinkKept, HeartbeatsKept DEF StoreInv, Typed
<1> QED
  BY <1>1, <1>2, ShapeAlways, PTL DEF Spec

-----------------------------------------------------------------------------
(***************************************************************************)
(* The probe: what it has been told, and where handleConn is then.         *)
(***************************************************************************)
ProbeMeets ==
    /\ probe = "start" => ~started /\ loop.at = "recv" /\ reader.at = "read"
    /\ probe = "startReply" =>
         /\ ~started /\ loop.at = "recv"
         /\ reader.at # "read" => reader.at = "U" /\ reader.frame = STARTDT
    /\ probe = "send" => reader.at \in {"startdt", "read"}
    /\ probe = "wait" /\ reader.at # "read" =>
         /\ reader.frame = interrogate(EMS) /\ reader.snap = None
         /\ reader.at \in {"I", "ack", "asdu", "write", "writing"}
         /\ reader.at = "write" => reader.todo = <<buildCICNA1("act_con")>>
         /\ reader.at = "writing" => /\ reader.todo = << >>
                                     /\ reader.sending.asdu = buildCICNA1("act_con")
    /\ probe = "confirmed" =>
         /\ reader.frame = interrogate(EMS)
         /\ reader.at \in {"write", "writing", "snapshot", "override"}
         /\ reader.at = "write" => \/ reader.todo = << >> /\ reader.snap = None
                                   \/ reader.todo # << >> /\ Head(reader.todo).cot = "interrogated"
         /\ reader.at = "writing" => reader.sending.asdu.cot = "interrogated"
         /\ reader.at = "override" => DOMAIN reader.snap = Points

ProbeInv ==
    /\ probe # "failed"
    /\ reader.at = "read" => reader.snap = None
    /\ loop.at = "writing" => loop.sending.asdu.cot = "spontaneous"
    /\ open => ProbeMeets

\* The goroutines that leave handleConn alone.
LEMMA ProbeOthers ==
    ASSUME ProbeInv, UNCHANGED <<probe, started, reader>>, open' => open,
           loop' = loop \/ loop'.at = "recv"
             \/ (started /\ loop'.sending.asdu.cot = "spontaneous")
    PROVE  ProbeInv'
  BY DEF ProbeInv, ProbeMeets, STARTDT, interrogate, buildCICNA1

\* A closed connection tells the probe nothing.
LEMMA ProbeClosed ==
    ASSUME ProbeInv, probe' \in {probe, "startReply", "wait"}, ~open', loop' = loop \/ loop'.at = "recv",
           reader'.at = "read" => reader'.snap = None
    PROVE  ProbeInv'
  BY DEF ProbeInv

\* Short frames, and the start of the data transfer.
LEMMA ProbeShort ==
    ASSUME ShapeInv, ProbeInv,
           \/ connectionEnds \/ testFrame \/ ignoresFrame \/ stopDataTransfer \/ startDataTransfer
           \/ confirmStart
    PROVE  ProbeInv'
<1>1. loop' = loop
  BY DEF connectionEnds, testFrame, ignoresFrame, stopDataTransfer, startDataTransfer, confirmStart,
     readerVars
<1>2. CASE connectionEnds
  <2>1. ~open' /\ probe' = probe /\ reader' = [reading EXCEPT !.at = "gone"]
    BY <1>2 DEF connectionEnds, connVars, tellVars
  <2> QED
    BY <1>1, <2>1, ReadingFields, ProbeClosed
<1>3. CASE ignoresFrame
  <2>1. /\ reader' = reading /\ UNCHANGED <<open, started, probe>>
        /\ reader.at = "S" \/ (reader.at = "U" /\ reader.frame # STARTDT)
    BY <1>3 DEF ignoresFrame, connVars, tellVars, STARTDT
  <2> QED
    BY <1>1, <2>1, ReadingFields DEF ProbeInv, ProbeMeets
<1>4. CASE startDataTransfer
  <2>1. /\ reader' = reading /\ UNCHANGED <<open, probe>> /\ reader.at \in {"startdt", "confirmed"}
    BY <1>4 DEF startDataTransfer, tellVars
  <2>2. reader.at = "startdt"
    BY <2>1 DEF ShapeInv, Places, Answering
  <2> QED
    BY <1>1, <2>1, <2>2, ReadingFields DEF ProbeInv, ProbeMeets
<1>5. CASE testFrame \/ stopDataTransfer
  <2>1. /\ reader' = reading /\ reader.at = "U" /\ reader.frame # STARTDT
        /\ \/ open' = FALSE /\ probe' = probe
           \/ /\ open' = open /\ open
              /\ probeReads("TESTFR_CON", "none") \/ probeReads("STOPDT_CON", "none")
    BY <1>5 DEF testFrame, stopDataTransfer, writeShort, tellVars, STARTDT, clientReadsU
  <2>2. CASE open' = FALSE /\ probe' = probe
    BY <1>1, <2>1, <2>2, ReadingFields, ProbeClosed
  <2>3. CASE open' /\ open /\ (probeReads("TESTFR_CON", "none") \/ probeReads("STOPDT_CON", "none"))
    <3>1. probe \notin {"start", "startReply", "send", "wait", "confirmed"}
      BY <2>1, <2>3 DEF ProbeInv, ProbeMeets
    <3>2. probe' = probe
      BY <2>3, <3>1 DEF probeReads
    <3> QED
      BY <1>1, <2>1, <3>1, <3>2, ReadingFields DEF ProbeInv, ProbeMeets
  <2> QED
    BY <2>1, <2>2, <2>3
<1>6. CASE confirmStart
  <2>1. /\ reader.at = "U" /\ started' = started
        /\ \/ open' = FALSE /\ probe' = probe /\ reader' = reading
           \/ /\ open' = open /\ open /\ probeReads("STARTDT_CON", "none")
              /\ reader' = [reader EXCEPT !.at = "startdt"]
    BY <1>6 DEF confirmStart, writeShort, tellVars, clientReadsU
  <2>2. CASE open' = FALSE /\ probe' = probe /\ reader' = reading
    BY <1>1, <2>2, ReadingFields, ProbeClosed
  <2>3. CASE open /\ probeReads("STARTDT_CON", "none") /\ reader' = [reader EXCEPT !.at = "startdt"]
    <3>1. probe \notin {"start", "send", "wait", "confirmed", "failed"}
      BY <2>1, <2>3 DEF ProbeInv, ProbeMeets
    <3>2. probe' = IF probe = "startReply" THEN "send" ELSE probe
      BY <2>3, <3>1 DEF probeReads
    <3>3. reader'.at = "startdt"
      BY <2>3 DEF ShapeInv, ReaderFields
    <3> QED
      BY <1>1, <2>1, <2>3, <3>1, <3>2, <3>3 DEF ProbeInv, ProbeMeets
  <2> QED
    BY <2>1, <2>2, <2>3
<1> QED
  BY <1>2, <1>3, <1>4, <1>5, <1>6

\* The probe sends its two frames in their turn, another client what it likes.
LEMMA ProbeSends ==
    ASSUME ShapeInv, ProbeInv, NEW request \in Requests, readFrame(request)
    PROVE  ProbeInv'
<1>1. /\ reader.at = "read" /\ open /\ UNCHANGED <<started, loop>>
      /\ probe # None => \/ probe = "start" /\ request = STARTDT
                         \/ probe = "send" /\ request = interrogate(EMS)
      /\ probe' = (CASE probe = "start" -> "startReply" [] probe = "send" -> "wait" [] OTHER -> probe)
  BY DEF readFrame, sends, clientSent
<1>2. None \notin ProbePlaces
  BY SessionAssumption DEF SessionAssumption
<1>3. CASE reader' = reader
  BY <1>1, <1>2, <1>3 DEF ProbeInv, ProbeMeets, ProbePlaces
<1>4. CASE reader' # reader
  <2>1. /\ reader'.at = request.kind /\ reader'.frame = request /\ reader'.snap = reader.snap
        /\ request.kind \in {"U", "S", "I"}
    BY <1>4, ReadFrameFields DEF ShapeInv
  <2>2. CASE probe = "start"
    <3>1. probe' = "startReply" /\ request = STARTDT /\ reader'.at = "U"
      BY <1>1, <1>2, <2>1, <2>2 DEF ProbePlaces, STARTDT
    <3> QED
      BY <1>1, <2>1, <2>2, <3>1 DEF ProbeInv, ProbeMeets, STARTDT
  <2>3. CASE probe = "send"
    <3>1. probe' = "wait" /\ request = interrogate(EMS) /\ reader'.at = "I"
      BY <1>1, <1>2, <2>1, <2>3 DEF ProbePlaces, interrogate
    <3> QED
      BY <1>1, <2>1, <2>3, <3>1 DEF ProbeInv, ProbeMeets, interrogate
  <2>4. CASE probe = None
    BY <1>1, <1>2, <2>1, <2>4 DEF ProbeInv, ProbeMeets, ProbePlaces
  <2> QED
    BY <1>1, <2>2, <2>3, <2>4
<1> QED
  BY <1>3, <1>4

\* The snapshot of the device with the heartbeat is reported in one frame at
\* least.
LEMMA FirstReport ==
    ASSUME NEW snap, DOMAIN snap = Points
    PROVE  LET todo == Append(reports(snap), buildCICNA1("act_term"))
           IN  todo # << >> /\ Head(todo).cot = "interrogated"
<1> DEFINE S == DOMAIN snap \cap Monitored
           keys == byAddress(S)
           n == Cardinality(S)
           todo == Append(reports(snap), buildCICNA1("act_term"))
<1>1. Heartbeat \in S
  BY SessionAssumption DEF SessionAssumption, Monitored
<1>2. n \in Nat /\ DOMAIN keys = 1 .. n /\ n # 0
  <2>1. n \in Nat /\ DOMAIN keys = 1 .. n /\ \E i \in 1 .. n : keys[i] = Heartbeat
    BY <1>1, AddressOrder
  <2> QED
    BY <2>1
<1>3. reports(snap) = [i \in 1 .. n |-> monitoredASDU(keys[i], snap[keys[i]], "interrogated",
                                                      reader.versions[keys[i]])]
  BY <1>2 DEF reports
<1> HIDE DEF keys, n, S
<1>4. DOMAIN reports(snap) = 1 .. n /\ reports(snap)[1].cot = "interrogated"
  BY <1>2, <1>3 DEF monitoredASDU
<1>5. reports(snap) \in Seq(Range(reports(snap)))
  BY <1>2, <1>3 DEF Range
<1> DEFINE s == reports(snap)
           e == buildCICNA1("act_term")
           X == Range(s) \cup {e}
<1>6. s \in Seq(X) /\ e \in X /\ DOMAIN s = 1 .. n /\ s[1].cot = "interrogated"
  BY <1>2, <1>3, <1>4 DEF Range
<1> HIDE DEF s, e, X
<1>7. Append(s, e) # << >> /\ Head(Append(s, e)) = s[1]
  BY <1>2, <1>6
<1> QED
  BY <1>6, <1>7 DEF s, e

\* The answer to an interrogation, up to its frames.
LEMMA ProbeAnswer ==
    ASSUME ShapeInv, StoreInv, ProbeInv,
           \/ setRecvSeq \/ writeSFrame \/ handleASDU \/ written
           \/ SnapshotDevice \/ heartbeatOverride \/ command
    PROVE  ProbeInv'
<1>1. loop' = loop /\ started' = started
  BY DEF setRecvSeq, writeSFrame, handleASDU, written, SnapshotDevice, heartbeatOverride, command,
     readerVars, connVars
<1>2. CASE setRecvSeq
  <2>1. reader.at = "I" /\ goto("ack") /\ UNCHANGED <<probe, open>>
    BY <1>2 DEF setRecvSeq, tellVars
  <2>2. /\ reader'.at = "ack" /\ reader'.frame = reader.frame /\ reader'.snap = reader.snap
    BY <2>1, GotoFields DEF ShapeInv
  <2> QED
    BY <1>1, <2>1, <2>2 DEF ProbeInv, ProbeMeets, interrogate, STARTDT
<1>3. CASE writeSFrame
  <2>1. /\ reader.at = "ack" /\ goto("asdu")
        /\ \/ open' = FALSE /\ probe' = probe
           \/ open' = open /\ open /\ probeReads("S", "none")
    BY <1>3 DEF writeSFrame, writeShort, clientReadsS, tellVars
  <2>2. /\ reader'.at = "asdu" /\ reader'.frame = reader.frame /\ reader'.snap = reader.snap
    BY <2>1, GotoFields DEF ShapeInv
  <2>3. CASE open' = FALSE /\ probe' = probe
    BY <1>1, <2>2, <2>3, ProbeClosed
  <2>4. CASE open /\ probeReads("S", "none")
    <3>1. probe \notin {"start", "startReply", "send", "confirmed", "failed"}
      BY <2>1, <2>4 DEF ProbeInv, ProbeMeets
    <3>2. probe' = probe
      BY <2>4, <3>1 DEF probeReads
    <3> QED
      BY <1>1, <2>1, <2>2, <2>4, <3>1, <3>2 DEF ProbeInv, ProbeMeets, interrogate
  <2> QED
    BY <2>1, <2>3, <2>4
<1>4. CASE handleASDU
  <2>1. reader.at = "asdu" /\ UNCHANGED <<probe, open>> /\ reader.frame.type \in {"C_IC", "C_S", "junk"}
    BY <1>4, RequestKinds DEF handleASDU, tellVars, connVars, ShapeInv, Answering
  <2>2. open => probe \notin {"start", "startReply", "send", "confirmed", "failed"}
                /\ (probe = "wait" => reader.frame = interrogate(EMS) /\ reader.snap = None)
    BY <2>1 DEF ProbeInv, ProbeMeets
  <2>3. reader.frame = interrogate(EMS) => reader.frame.type = "C_IC"
    BY DEF interrogate
  <2>4. \/ reader' = reading /\ reader.frame.type # "C_IC"
        \/ goto("command") /\ reader.frame.type # "C_IC"
        \/ reader' = [reader EXCEPT !.at = "write", !.todo = <<buildCICNA1("act_con")>>]
    BY <1>4, <2>1 DEF handleASDU, goto
  <2>5. CASE reader' = reading /\ reader.frame.type # "C_IC"
    BY <1>1, <2>1, <2>2, <2>3, <2>5, ReadingFields DEF ProbeInv, ProbeMeets
  <2>6. CASE goto("command") /\ reader.frame.type # "C_IC"
    <3>1. reader'.at = "command"
      BY <2>6, GotoFields DEF ShapeInv
    <3> QED
      BY <1>1, <2>1, <2>2, <2>3, <2>6, <3>1 DEF ProbeInv, ProbeMeets
  <2>7. CASE reader' = [reader EXCEPT !.at = "write", !.todo = <<buildCICNA1("act_con")>>]
    <3>1. /\ reader'.at = "write" /\ reader'.frame = reader.frame
          /\ reader'.todo = <<buildCICNA1("act_con")>> /\ reader'.snap = reader.snap
      BY <2>7, AnswerFields DEF ShapeInv
    <3> QED
      BY <1>1, <2>1, <2>2, <3>1 DEF ProbeInv, ProbeMeets, interrogate, buildCICNA1
  <2> QED
    BY <2>4, <2>5, <2>6, <2>7
<1>5. CASE written
  <2>1. /\ reader.at = "write" /\ reader.todo = << >> /\ UNCHANGED <<probe, open>>
        /\ IF reader.frame.type = "C_IC" /\ reader.snap = None
           THEN goto("snapshot") ELSE reader' = reading
    BY <1>5 DEF written, tellVars, connVars, goto
  <2>2. << >> # <<buildCICNA1("act_con")>>
    OBVIOUS
  <2>3. open => /\ probe \notin {"start", "startReply", "send", "wait", "failed"}
                /\ probe = "confirmed" => reader.frame = interrogate(EMS) /\ reader.snap = None
    BY <2>1, <2>2 DEF ProbeInv, ProbeMeets
  <2>4. CASE goto("snapshot")
    <3>1. reader'.at = "snapshot" /\ reader'.frame = reader.frame
      BY <2>4, GotoFields DEF ShapeInv
    <3> QED
      BY <1>1, <2>1, <2>3, <3>1 DEF ProbeInv, ProbeMeets, interrogate
  <2>5. CASE reader' = reading /\ ~(reader.frame.type = "C_IC" /\ reader.snap = None)
    BY <1>1, <2>1, <2>3, <2>5, ReadingFields DEF ProbeInv, ProbeMeets, interrogate
  <2> QED
    BY <2>1, <2>4, <2>5
<1>6. CASE SnapshotDevice
  <2>1. /\ reader.at = "snapshot" /\ UNCHANGED <<probe, open>>
        /\ reader'.at = "override" /\ reader'.frame = reader.frame
        /\ reader'.snap = (IF reader.frame.ca = EMS THEN value ELSE << >>)
    BY <1>6, SnapshotFields DEF SnapshotDevice, ShapeInv, connVars, tellVars
  <2>2. interrogate(EMS).ca = EMS /\ DOMAIN value = Points
    BY DEF interrogate, StoreInv
  <2> QED
    BY <1>1, <2>1, <2>2 DEF ProbeInv, ProbeMeets
<1>7. CASE heartbeatOverride
  <2>1. /\ reader.at = "override" /\ UNCHANGED <<probe, open>>
        /\ reader'.at = "write" /\ reader'.frame = reader.frame
        /\ reader'.todo = Append(reports(Laid), buildCICNA1("act_term"))
    BY <1>7, OverrideFields DEF heartbeatOverride, ShapeInv, connVars, tellVars
  <2>2. DOMAIN reader.snap = Points => DOMAIN Laid = Points
    BY DEF Laid, Overlaid
  <2>3. DOMAIN reader.snap = Points => reader'.todo # << >> /\ Head(reader'.todo).cot = "interrogated"
    BY <2>1, <2>2, FirstReport
  <2> QED
    BY <1>1, <2>1, <2>3 DEF ProbeInv, ProbeMeets, interrogate
<1>8. CASE command
  <2>1. /\ reader.at = "command" /\ UNCHANGED <<probe, open>>
        /\ \E cot : reader' = [reader EXCEPT !.at = "write", !.todo = <<commandASDU(cot)>>]
    BY <1>8 DEF command, connVars, tellVars
  <2>2. reader'.at = "write"
    BY <2>1, AnswerFields DEF ShapeInv
  <2> QED
    BY <1>1, <2>1, <2>2 DEF ProbeInv, ProbeMeets
<1> QED
  BY <1>2, <1>3, <1>4, <1>5, <1>6, <1>7, <1>8

\* The frames of the answer reach the probe.
LEMMA ProbeWrites ==
    ASSUME ShapeInv, ProbeInv, writeIFrame \/ writeIFrameLocked
    PROVE  ProbeInv'
<1>1. CASE writeIFrame
  <2>1. /\ reader.at = "write" /\ UNCHANGED <<probe, open, started, loop>> /\ reader.todo # << >>
        /\ reader'.at = "writing" /\ reader'.frame = reader.frame /\ reader'.snap = reader.snap
        /\ reader'.todo = Tail(reader.todo) /\ reader'.sending.asdu = Head(reader.todo)
    BY <1>1, WriteFields DEF writeIFrame, ShapeInv, readerVars, connVars, tellVars, IFrame
  <2>2. reader.todo = <<buildCICNA1("act_con")>> =>
          reader'.todo = << >> /\ reader'.sending.asdu = buildCICNA1("act_con")
    BY <2>1
  <2> QED
    BY <2>1, <2>2 DEF ProbeInv, ProbeMeets, interrogate, buildCICNA1
<1>2. CASE writeIFrameLocked
  <2>1. /\ reader.at = "writing" /\ UNCHANGED <<started, loop>>
        /\ reader'.at = "write" /\ reader'.frame = reader.frame /\ reader'.snap = reader.snap
        /\ reader'.todo = reader.todo
        /\ \/ open' = FALSE /\ probe' = probe
           \/ open' = open /\ open /\ probeReads("I", reader.sending.asdu.cot)
    BY <1>2, CountFields DEF writeIFrameLocked, writeEnds, clientReadsI, ShapeInv, readerVars, tellVars
  <2>2. CASE open' = FALSE /\ probe' = probe
    BY <2>1, <2>2, ProbeClosed
  <2>3. CASE open /\ probeReads("I", reader.sending.asdu.cot)
    <3>1. /\ probe \notin {"start", "startReply", "send", "failed"}
          /\ probe = "wait" => /\ reader.sending.asdu.cot = "act_con" /\ reader.todo = << >>
                               /\ reader.frame = interrogate(EMS) /\ reader.snap = None
          /\ probe = "confirmed" => reader.sending.asdu.cot = "interrogated"
      BY <2>1, <2>3 DEF ProbeInv, ProbeMeets, buildCICNA1
    <3>2. /\ probe = "wait" => probe' = "confirmed"
          /\ probe = "confirmed" => probe' = "data"
          /\ probe \notin {"wait", "confirmed"} => probe' \in {probe, "ok"}
      BY <2>3, <3>1 DEF probeReads
    <3> QED
      BY <2>1, <3>1, <3>2 DEF ProbeInv, ProbeMeets, interrogate
  <2> QED
    BY <2>1, <2>2, <2>3
<1> QED
  BY <1>1, <1>2

\* Spontaneous updates do not touch the probe, and nobody else reaches it.
LEMMA ProbeElsewhere ==
    ASSUME ShapeInv, ProbeInv,
           \/ updateLoops \/ Tick \/ doReset \/ UNCHANGED vars
           \/ Publishing
           \/ \E op \in LinkOps : LinkOp(op)
    PROVE  ProbeInv'
<1>1. CASE loopWrites
  <2>1. /\ loop.at = "writing" /\ loop'.at = "recv" /\ reader' = reader /\ started' = started
        /\ \/ open' = FALSE /\ probe' = probe
           \/ open' = open /\ open /\ probeReads("I", loop.sending.asdu.cot)
    BY <1>1 DEF loopWrites, writeEnds, clientReadsI, idle, tellVars
  <2>2. probe' = probe
    <3>1. CASE open /\ probeReads("I", loop.sending.asdu.cot)
      BY <2>1, <3>1 DEF ProbeInv, ProbeMeets, probeReads
    <3> QED
      BY <2>1, <3>1
  <2> QED
    BY <2>1, <2>2, ProbeOthers
<1>2. CASE LoopsSend
  <2>1. /\ UNCHANGED <<probe, started, reader, open>>
        /\ loop' = loop \/ (started /\ \E asdu, by : asdu.cot = "spontaneous"
              /\ loop' = [at |-> "writing", by |-> by, sending |-> IFrame(asdu)])
    BY <1>2 DEF LoopsSend, broadcast, hbLoop, sendIfStarted, loopVars, connVars, tellVars, monitoredASDU
  <2>2. loop' = loop \/ (started /\ loop'.sending.asdu.cot = "spontaneous")
    BY <2>1 DEF IFrame
  <2>3. open' => open
    BY <2>1
  <2> QED
    BY <2>1, <2>2, <2>3, ProbeOthers
<1>3. CASE LoopSkips \/ Tick \/ doReset \/ UNCHANGED vars
  BY <1>3, ProbeOthers DEF LoopSkips, loopSkips, admitHeartbeat, loopVars, Tick, doReset, resetBegins,
     resetEnters, resetRestores, resetClears, vars, tellVars, connVars
<1>4. CASE Publishing
  BY <1>4, ProbeOthers DEF Publishing, publish, Inject, tellVars, connVars
<1>5. CASE \E op \in LinkOps : LinkOp(op)
  BY <1>5, ProbeOthers DEF LinkOp, tellVars, connVars
<1> QED
  BY <1>1, <1>2, <1>3, <1>4, <1>5 DEF updateLoops, LoopSkips, LoopsSend

\* The probe's invariant, at every step.
LEMMA ProbeAlways == Spec => []ProbeInv
<1>1. Init => ProbeInv
  <2> SUFFICES ASSUME Init
               PROVE  ProbeInv
    OBVIOUS
  <2>1. /\ reader = reading /\ loop.at = "recv" /\ started = FALSE /\ probe \in {None, "start"}
    BY DEF Init, idle
  <2>2. None \notin ProbePlaces
    BY SessionAssumption DEF SessionAssumption
  <2> QED
    BY <2>1, <2>2, ReadingFields DEF ProbeInv, ProbeMeets, ProbePlaces
<1>2. ShapeInv /\ (StoreInv /\ StoreTrue /\ HeartbeatsTrue) /\ ProbeInv /\ [Next]_vars => ProbeInv'
  BY ProbeShort, ProbeSends, ProbeAnswer, ProbeWrites, ProbeElsewhere DEF Next, handleConn, Publishing
<1> QED
  BY <1>1, <1>2, ShapeAlways, StoreAlways, PTL DEF Spec

-----------------------------------------------------------------------------
(***************************************************************************)
(* What the frames say of the store.                                       *)
(***************************************************************************)
Report == [type : {"M"}, key : Monitored, cot : {"interrogated", "spontaneous"},
           version : Nat, value : Datum]
ASDU == Report \cup [type : {"C_IC"}, cot : {"act_con", "act_term"}]
               \cup [type : {"C_S"}, cot : {"act_con", "unknown_ioa", "refused"}]

Term(a) == a.cot = "act_term"

\* A report is of a point's last write and has its value, or of an older one.
Honest(a) ==
    a.type = "M" =>
        /\ a.version <= version[a.key]
        /\ a.version = version[a.key] /\ a.key # Heartbeat => a.value = shown(a.key, value[a.key])

TodoInv ==
    /\ reader.todo \in Seq(ASDU)
    /\ \A a \in Range(reader.todo) : Honest(a)
    /\ \A i \in DOMAIN reader.todo : Term(reader.todo[i]) => i = Len(reader.todo)

SendingInv ==
    /\ reader.at = "writing" =>
         /\ reader.sending.asdu \in ASDU /\ Honest(reader.sending.asdu)
         /\ Term(reader.sending.asdu) => reader.todo = << >>
    /\ loop.at = "writing" =>
         /\ loop.sending.asdu \in Report /\ Honest(loop.sending.asdu)
         /\ loop.sending.asdu.cot = "spontaneous"

SnapInv ==
    reader.at = "override" =>
        IF reader.frame.ca = EMS
        THEN /\ reader.snap \in [Points -> Datum] /\ reader.versions \in [Points -> Nat]
             /\ \A p \in Points :
                  /\ reader.versions[p] <= version[p]
                  /\ reader.versions[p] = version[p] => reader.snap[p] = value[p]
        ELSE reader.snap = << >>

FrameInv == TodoInv /\ SendingInv /\ SnapInv

LEMMA ShownType ==
    ASSUME NEW p, NEW v \in Datum
    PROVE  shown(p, v) \in Datum
  BY DEF shown, Datum

\* The reported points are points, the heartbeat one of them.
LEMMA MonitoredPoints == Monitored \subseteq Points /\ Heartbeat \in Monitored
  BY SessionAssumption DEF SessionAssumption, Monitored

\* What was true of a frame stays true: a write makes it one of an older write.
LEMMA HonestKept ==
    ASSUME StoreInv, StoreStep, NEW a \in ASDU, Honest(a)
    PROVE  Honest(a)'
<1>1. CASE a.type = "M"
  <2>1. a \in Report
    BY <1>1 DEF ASDU
  <2>2. a.version \in Nat /\ a.key \in Points /\ version[a.key] \in Nat
    BY <2>1, MonitoredPoints DEF Report, StoreInv
  <2>3. \/ version'[a.key] = version[a.key] /\ value'[a.key] = value[a.key]
        \/ version'[a.key] = version[a.key] + 1
    BY <2>2 DEF StoreStep, Versioned
  <2> QED
    BY <1>1, <2>2, <2>3 DEF Honest, shown
<1> QED
  BY <1>1 DEF Honest

\* The locals that a step leaves alone.
LEMMA TodoKept ==
    ASSUME StoreInv, StoreStep, TodoInv, reader'.todo = reader.todo
    PROVE  TodoInv'
<1>1. \A a \in Range(reader.todo) : a \in ASDU
  BY RangeTyped DEF TodoInv
<1>2. \A a \in Range(reader.todo) : Honest(a)'
  BY <1>1, HonestKept DEF TodoInv
<1> QED
  BY <1>2 DEF TodoInv, Term, ASDU, Report, Monitored, Datum

LEMMA LoopKept ==
    ASSUME StoreInv, StoreStep, SendingInv, loop' = loop, loop.at = "writing"
    PROVE  (/\ loop.sending.asdu \in Report /\ Honest(loop.sending.asdu)
            /\ loop.sending.asdu.cot = "spontaneous")'
<1>1. PICK a : a = loop.sending.asdu
  OBVIOUS
<1>2. a \in ASDU /\ Honest(a) /\ a \in Report
  BY <1>1 DEF SendingInv, ASDU, Honest
<1>3. Honest(a)'
  BY <1>2, HonestKept
<1>4. loop'.sending.asdu = a
  BY <1>1
<1>5. Honest(loop.sending.asdu)'
  BY <1>3, <1>4 DEF Honest, shown
<1>6. a.cot = "spontaneous"
  BY <1>1 DEF SendingInv
<1> QED
  BY <1>2, <1>4, <1>5, <1>6 DEF Report, Monitored, Datum

LEMMA ReaderKept ==
    ASSUME StoreInv, StoreStep, SendingInv, UNCHANGED reader, reader.at = "writing"
    PROVE  (/\ reader.sending.asdu \in ASDU /\ Honest(reader.sending.asdu)
            /\ Term(reader.sending.asdu) => reader.todo = << >>)'
<1>1. PICK a : a = reader.sending.asdu
  OBVIOUS
<1>2. a \in ASDU /\ Honest(a)
  BY <1>1 DEF SendingInv, Honest
<1>3. Honest(a)'
  BY <1>2, HonestKept
<1>4. reader'.sending.asdu = a
  BY <1>1
<1>5. Honest(reader.sending.asdu)'
  BY <1>3, <1>4 DEF Honest, shown
<1>6. Term(a) => reader.todo = << >>
  BY <1>1 DEF SendingInv
<1> QED
  BY <1>2, <1>4, <1>5, <1>6 DEF Term, ASDU, Report, Monitored, Datum

LEMMA SnapKept ==
    ASSUME StoreInv, StoreStep, SnapInv, UNCHANGED reader
    PROVE  SnapInv'
<1>1. ASSUME reader.at = "override", reader.frame.ca = EMS, NEW p \in Points
      PROVE  /\ reader.versions[p] <= version'[p]
             /\ reader.versions[p] = version'[p] => reader.snap[p] = value'[p]
  <2>1. /\ reader.versions[p] \in Nat /\ version[p] \in Nat /\ reader.versions[p] <= version[p]
        /\ reader.versions[p] = version[p] => reader.snap[p] = value[p]
    BY <1>1 DEF SnapInv, StoreInv
  <2> QED
    BY <2>1 DEF StoreStep, Versioned
<1> QED
  BY <1>1 DEF SnapInv, Datum

\* What an interrogation reports of the device.
LEMMA ReportsTrue ==
    ASSUME StoreInv, SnapInv, reader.at = "override"
    PROVE  /\ reports(Laid) \in Seq(Report)
           /\ \A a \in Range(reports(Laid)) : Honest(a) /\ a.cot = "interrogated"
           /\ reader.frame.ca = EMS =>
                \A p \in Monitored : \E a \in Range(reports(Laid)) :
                    a.key = p /\ a.version = reader.versions[p]
<1> DEFINE S == DOMAIN Laid \cap Monitored
           keys == byAddress(S)
           n == Cardinality(S)
           s == reports(Laid)
<1>1. S \subseteq Points
  BY MonitoredPoints
<1>2. /\ n \in Nat /\ DOMAIN keys = 1 .. n /\ \A i \in 1 .. n : keys[i] \in S
      /\ \A p \in S : \E i \in 1 .. n : keys[i] = p
  BY <1>1, AddressOrder
<1>3. s = [i \in 1 .. n |-> [type |-> "M", key |-> keys[i], cot |-> "interrogated",
                             version |-> reader.versions[keys[i]],
                             value |-> shown(keys[i], Laid[keys[i]])]]
  BY <1>2 DEF reports, monitoredASDU
<1> HIDE DEF keys, n, s
<1>4. CASE reader.frame.ca = EMS
  <2>1. /\ reader.snap \in [Points -> Datum] /\ reader.versions \in [Points -> Nat]
        /\ \A p \in Points : reader.versions[p] <= version[p]
        /\ \A p \in Points : reader.versions[p] = version[p] => reader.snap[p] = value[p]
    BY <1>4 DEF SnapInv
  <2>2. /\ Laid \in [Points -> Datum] /\ \A p \in Points \ {Heartbeat} : Laid[p] = reader.snap[p]
    BY <2>1, SessionAssumption DEF SessionAssumption, Laid, Overlaid, StoreInv
  <2>3. S = Monitored
    BY <2>2, MonitoredPoints
  <2> HIDE DEF S
  <2>4. ASSUME NEW i \in 1 .. n
        PROVE  /\ s[i] \in Report /\ s[i].key = keys[i] /\ s[i].version = reader.versions[keys[i]]
               /\ s[i].cot = "interrogated" /\ s[i].value = shown(keys[i], Laid[keys[i]])
               /\ Honest(s[i])
    <3>1. keys[i] \in Monitored /\ keys[i] \in Points
      BY <1>2, <2>3, MonitoredPoints
    <3>2. /\ s[i].type = "M" /\ s[i].key = keys[i] /\ s[i].version = reader.versions[keys[i]]
          /\ s[i].cot = "interrogated" /\ s[i].value = shown(keys[i], Laid[keys[i]])
      BY <1>3
    <3>3. reader.versions[keys[i]] \in Nat /\ shown(keys[i], Laid[keys[i]]) \in Datum
      BY <2>1, <2>2, <3>1, ShownType
    <3>4. s[i] \in Report
      BY <1>3, <3>1, <3>3 DEF Report
    <3>5. Honest(s[i])
      <4>1. PICK k \in Points : k = keys[i]
        BY <3>1
      <4>2. reader.versions[k] <= version[k]
        BY <2>1
      <4>3. reader.versions[k] = version[k] /\ k # Heartbeat => Laid[k] = value[k]
        BY <2>1, <2>2
      <4> QED
        BY <3>2, <4>1, <4>2, <4>3 DEF Honest
    <3> QED
      BY <3>2, <3>4, <3>5
  <2>5. s \in Seq(Report) /\ DOMAIN s = 1 .. n
    BY <1>2, <1>3, <2>4
  <2>6. \A a \in Range(s) : Honest(a) /\ a.cot = "interrogated"
    BY <2>4, <2>5 DEF Range
  <2>7. ASSUME NEW p \in Monitored
        PROVE  \E a \in Range(s) : a.key = p /\ a.version = reader.versions[p]
    <3>1. PICK i \in 1 .. n : keys[i] = p
      BY <1>2, <2>3
    <3>2. s[i] \in Range(s)
      BY <2>5 DEF Range
    <3> QED
      BY <2>4, <3>1, <3>2
  <2> QED
    BY <2>5, <2>6, <2>7 DEF s
<1>5. CASE reader.frame.ca # EMS
  <2>1. reader.snap = << >>
    BY <1>5 DEF SnapInv
  <2>2. DOMAIN << >> = {}
    OBVIOUS
  <2>3. DOMAIN Laid = {}
    BY <2>1, <2>2 DEF Laid
  <2>4. n = 0
    BY <2>3, FS_EmptySet DEF n
  <2>5. s = << >>
    BY <1>3, <2>4
  <2>6. s \in Seq(Report) /\ Range(s) = {}
    BY <2>5, RangeEmpty
  <2> QED
    BY <1>5, <2>6 DEF s
<1> QED
  BY <1>4, <1>5

\* The loop's frame stays true, goes, or is new.
LEMMA FrameStep ==
    ASSUME StoreInv, StoreStep, FrameInv, TodoInv', SnapInv',
           loop' = loop \/ loop'.at = "recv",
           (reader.at = "writing" =>
              /\ reader.sending.asdu \in ASDU /\ Honest(reader.sending.asdu)
              /\ Term(reader.sending.asdu) => reader.todo = << >>)'
    PROVE  FrameInv'
<1>1. loop'.at = "writing" => loop' = loop /\ loop.at = "writing"
  OBVIOUS
<1>2. (loop.at = "writing" =>
         /\ loop.sending.asdu \in Report /\ Honest(loop.sending.asdu)
         /\ loop.sending.asdu.cot = "spontaneous")'
  BY <1>1, LoopKept DEF FrameInv
<1>3. SendingInv'
  BY <1>2 DEF SendingInv
<1> QED
  BY <1>3 DEF FrameInv

\* The goroutines that leave handleConn alone.
LEMMA FrameOthers ==
    ASSUME StoreInv, StoreStep, FrameInv, UNCHANGED reader, loop' = loop \/ loop'.at = "recv"
    PROVE  FrameInv'
<1>1. TodoInv' /\ SnapInv'
  BY TodoKept, SnapKept DEF FrameInv
<1>2. (reader.at = "writing" =>
         /\ reader.sending.asdu \in ASDU /\ Honest(reader.sending.asdu)
         /\ Term(reader.sending.asdu) => reader.todo = << >>)'
  <2>1. CASE reader.at = "writing"
    BY <2>1, ReaderKept DEF FrameInv
  <2>2. CASE reader.at # "writing"
    BY <2>2
  <2> QED
    BY <2>1, <2>2
<1> QED
  BY <1>1, <1>2, FrameStep

\* handleConn where it has nothing to write.
LEMMA FrameElsewhere ==
    ASSUME StoreInv, StoreStep, ShapeInv', FrameInv, loop' = loop,
           reader'.at \notin {"write", "writing", "override"}
    PROVE  FrameInv'
<1>1. reader'.todo = << >>
  BY DEF ShapeInv
<1>2. TodoInv'
  <2>1. (/\ reader.todo \in Seq(ASDU) /\ \A a \in Range(reader.todo) : Honest(a)
         /\ \A i \in DOMAIN reader.todo : Term(reader.todo[i]) => i = Len(reader.todo))'
    <3>1. reader'.todo \in Seq(ASDU) /\ Range(reader'.todo) = {} /\ DOMAIN reader'.todo = {}
      BY <1>1, RangeEmpty
    <3> QED
      BY <3>1 DEF Datum, Monitored, Report, ASDU
  <2> QED
    BY <2>1 DEF TodoInv
<1>3. SnapInv'
  BY DEF SnapInv
<1> QED
  BY <1>2, <1>3, FrameStep

\* handleConn with an answer to write.
LEMMA FrameAnswer ==
    ASSUME StoreInv, StoreStep, FrameInv, loop' = loop, reader'.at = "write", TodoInv'
    PROVE  FrameInv'
<1>1. SnapInv'
  BY DEF SnapInv
<1> QED
  BY <1>1, FrameStep

LEMMA AnswerTodo ==
    ASSUME NEW a \in ASDU, a.type # "M", reader'.todo = <<a>>
    PROVE  TodoInv'
<1>1. reader'.todo \in Seq(ASDU) /\ Range(reader'.todo) = {a}
  BY RangeOne
<1>2. DOMAIN reader'.todo = {1} /\ Len(reader'.todo) = 1
  OBVIOUS
<1>3. Honest(a)'
  BY DEF Honest
<1> QED
  BY <1>1, <1>2, <1>3 DEF TodoInv, ASDU, Report, Monitored, Datum

\* The actions that change the store leave handleConn, the loop or both alone.
LEMMA FrameCommand ==
    ASSUME StoreInv, StoreStep, ShapeInv, FrameInv, handleASDU \/ command, ShapeInv'
    PROVE  FrameInv'
<1>1. loop' = loop
  BY DEF handleASDU, command, readerVars
<1>2. handleASDU => reader.frame.type \in {"C_IC", "C_S", "junk"}
  BY RequestKinds DEF handleASDU, ShapeInv, Answering
<1>3. \/ reader' = reading \/ goto("command")
      \/ reader' = [reader EXCEPT !.at = "write", !.todo = <<buildCICNA1("act_con")>>]
      \/ \E cot \in {"unknown_ioa", "refused", "act_con"} :
             reader' = [reader EXCEPT !.at = "write", !.todo = <<commandASDU(cot)>>]
  BY <1>2 DEF handleASDU, command, goto
<1>4. CASE reader' = reading \/ goto("command")
  BY <1>1, <1>4, ReadingFields, GotoFields, FrameElsewhere DEF ShapeInv
<1>5. ASSUME NEW a \in ASDU, a.type # "M",
             reader' = [reader EXCEPT !.at = "write", !.todo = <<a>>]
      PROVE  FrameInv'
  BY <1>1, <1>5, AnswerFields, AnswerTodo, FrameAnswer DEF ShapeInv
<1>6. CASE reader' = [reader EXCEPT !.at = "write", !.todo = <<buildCICNA1("act_con")>>]
  <2>1. buildCICNA1("act_con") \in ASDU /\ buildCICNA1("act_con").type # "M"
    BY DEF buildCICNA1, ASDU
  <2> QED
    BY <1>5, <1>6, <2>1
<1>7. ASSUME NEW cot \in {"unknown_ioa", "refused", "act_con"},
             reader' = [reader EXCEPT !.at = "write", !.todo = <<commandASDU(cot)>>]
      PROVE  FrameInv'
  <2>1. commandASDU(cot) \in ASDU /\ commandASDU(cot).type # "M"
    BY DEF commandASDU, ASDU
  <2> QED
    BY <1>5, <1>7, <2>1
<1> QED
  BY <1>3, <1>4, <1>6, <1>7

\* The steps that write no I-frame.
LEMMA FrameShort ==
    ASSUME StoreInv, StoreStep, ShapeInv, ShapeInv', FrameInv,
           \/ \E request \in Requests : readFrame(request)
           \/ connectionEnds \/ testFrame \/ ignoresFrame \/ stopDataTransfer \/ startDataTransfer
           \/ confirmStart \/ setRecvSeq \/ writeSFrame \/ written
    PROVE  FrameInv'
<1>1. loop' = loop
  BY DEF readFrame, connectionEnds, testFrame, ignoresFrame, stopDataTransfer, startDataTransfer,
     confirmStart, setRecvSeq, writeSFrame, written, readerVars
<1>2. reader' = reader \/ reader'.at \notin {"write", "writing", "override"}
  <2>1. CASE \E request \in Requests : readFrame(request)
    BY <2>1, ReadFrameFields DEF ShapeInv
  <2>2. CASE setRecvSeq \/ writeSFrame \/ written
    <3>1. goto("ack") \/ goto("asdu") \/ goto("snapshot") \/ reader' = reading
      BY <2>2 DEF setRecvSeq, writeSFrame, written, goto
    <3> QED
      BY <3>1, GotoFields, ReadingFields DEF ShapeInv
  <2>3. CASE connectionEnds \/ testFrame \/ ignoresFrame \/ stopDataTransfer \/ startDataTransfer
    BY <2>3, ReadingFields DEF connectionEnds, testFrame, ignoresFrame, stopDataTransfer,
       startDataTransfer
  <2>4. CASE confirmStart
    <3>1. reader' = [reader EXCEPT !.at = "startdt"] \/ reader' = reading
      BY <2>4 DEF confirmStart
    <3> QED
      BY <3>1, ReadingFields DEF ShapeInv, ReaderFields
  <2> QED
    BY <2>1, <2>2, <2>3, <2>4
<1> QED
  BY <1>1, <1>2, FrameOthers, FrameElsewhere

\* The frame in hand is the first of what there is to write.
LEMMA FrameWrites ==
    ASSUME StoreInv, StoreStep, ShapeInv, FrameInv, writeIFrame \/ writeIFrameLocked
    PROVE  FrameInv'
<1>1. CASE writeIFrame
  <2> DEFINE s == reader.todo
  <2>1. /\ reader'.at = "writing" /\ reader.todo # << >> /\ loop' = loop
        /\ reader'.todo = Tail(s) /\ reader'.sending.asdu = Head(s)
    BY <1>1, WriteFields DEF ShapeInv, writeIFrame, readerVars, IFrame
  <2>2. /\ s \in Seq(ASDU) /\ \A a \in Range(s) : Honest(a)
        /\ \A i \in DOMAIN s : Term(s[i]) => i = Len(s)
    BY DEF FrameInv, TodoInv
  <2>3. /\ Tail(s) \in Seq(ASDU) /\ Head(s) \in ASDU /\ Range(s) = {Head(s)} \cup Range(Tail(s))
    BY <2>1, <2>2, RangeTail
  <2>4. \A a \in Range(s) : Honest(a)'
    BY <2>2, RangeTyped, HonestKept
  <2>5. /\ Len(Tail(s)) = Len(s) - 1 /\ Head(s) = s[1] /\ Len(s) \in Nat /\ Len(s) >= 1
        /\ DOMAIN s = 1 .. Len(s)
        /\ \A i \in DOMAIN Tail(s) : Tail(s)[i] = s[i + 1] /\ i + 1 \in DOMAIN s /\ i \in Nat
    BY <2>1, <2>2
  <2>6. PICK h : h = Head(s)
    OBVIOUS
  <2>7. PICK t : t = Tail(s)
    OBVIOUS
  <2> HIDE DEF s
  <2>8. TodoInv'
    <3>1. \A a \in Range(t) : Honest(a)'
      BY <2>3, <2>4, <2>7
    <3>2. \A i \in DOMAIN t : Term(t[i]) => i = Len(t)
      BY <2>2, <2>5, <2>7
    <3>3. reader'.todo = t /\ t \in Seq(ASDU)
      BY <2>1, <2>3, <2>7 DEF s
    <3> QED
      BY <3>1, <3>2, <3>3 DEF TodoInv, Term, ASDU, Report, Monitored, Datum
  <2>9. Term(h) => t = << >>
    <3>1. Term(h) => Len(t) = 0
      BY <2>2, <2>5, <2>6, <2>7
    <3> QED
      BY <2>3, <2>7, <3>1
  <2>10. (reader.at = "writing" =>
           /\ reader.sending.asdu \in ASDU /\ Honest(reader.sending.asdu)
           /\ Term(reader.sending.asdu) => reader.todo = << >>)'
    <3>1. Honest(h)' /\ h \in ASDU
      BY <2>3, <2>4, <2>6
    <3>2. reader'.sending.asdu = h /\ reader'.todo = t
      BY <2>1, <2>6, <2>7 DEF s
    <3>3. Honest(reader.sending.asdu)'
      BY <3>1, <3>2 DEF Honest, shown
    <3> QED
      BY <2>9, <3>1, <3>2, <3>3 DEF Term, ASDU, Report, Monitored, Datum
  <2>11. SnapInv'
    BY <2>1 DEF SnapInv
  <2> QED
    BY <2>1, <2>8, <2>10, <2>11, FrameStep
<1>2. CASE writeIFrameLocked
  <2>1. reader'.at = "write" /\ reader'.todo = reader.todo /\ loop' = loop
    BY <1>2, CountFields DEF ShapeInv, writeIFrameLocked, readerVars
  <2> QED
    BY <2>1, TodoKept, FrameAnswer DEF FrameInv
<1> QED
  BY <1>1, <1>2

\* The snapshot, and the frames made of it.
LEMMA FrameInterrogation ==
    ASSUME StoreInv, StoreStep, ShapeInv, ShapeInv', FrameInv, SnapshotDevice \/ heartbeatOverride
    PROVE  FrameInv'
<1>1. CASE SnapshotDevice
  <2>1. /\ reader'.at = "override" /\ reader'.frame = reader.frame /\ reader'.todo = reader.todo
        /\ reader'.snap = (IF reader.frame.ca = EMS THEN value ELSE << >>)
        /\ reader'.versions = version /\ UNCHANGED <<value, version, loop>>
    BY <1>1, SnapshotFields DEF SnapshotDevice, ShapeInv, readerVars, storeVars
  <2>2. SnapInv'
    BY <2>1 DEF SnapInv, StoreInv, Datum
  <2>3. TodoInv'
    BY <2>1, TodoKept DEF FrameInv
  <2> QED
    BY <2>1, <2>2, <2>3, FrameStep
<1>2. CASE heartbeatOverride
  <2>1. /\ reader.at = "override" /\ loop' = loop /\ UNCHANGED <<value, version>>
        /\ reader'.at = "write" /\ reader'.todo = Append(reports(Laid), buildCICNA1("act_term"))
    BY <1>2, OverrideFields DEF heartbeatOverride, ShapeInv, readerVars, storeVars
  <2>2. PICK s : s = reports(Laid)
    OBVIOUS
  <2>3. /\ s \in Seq(Report) /\ \A a \in Range(s) : Honest(a) /\ a.cot = "interrogated"
    BY <2>1, <2>2, ReportsTrue DEF FrameInv
  <2>4. PICK e : e = buildCICNA1("act_term")
    OBVIOUS
  <2>5. e \in ASDU /\ e.type # "M" /\ s \in Seq(ASDU)
    BY <2>3, <2>4 DEF ASDU, buildCICNA1
  <2>6. Append(s, e) \in Seq(ASDU) /\ Range(Append(s, e)) = Range(s) \cup {e}
    BY <2>5, RangeAppend
  <2>7. \A a \in Range(Append(s, e)) : Honest(a)'
    <3>1. \A a \in Range(Append(s, e)) : Honest(a)
      BY <2>3, <2>5, <2>6 DEF Honest
    <3> QED
      BY <2>6, <3>1, RangeTyped, HonestKept
  <2>8. ASSUME NEW i \in DOMAIN Append(s, e), Term(Append(s, e)[i])
        PROVE  i = Len(Append(s, e))
    <3>1. /\ Len(s) \in Nat /\ Len(Append(s, e)) = Len(s) + 1 /\ i \in 1 .. Len(s) + 1
          /\ i # Len(s) + 1 => Append(s, e)[i] = s[i] /\ i \in DOMAIN s
      BY <2>3, <2>5
    <3>2. i # Len(s) + 1 => s[i] \in Range(s)
      BY <3>1 DEF Range
    <3> QED
      BY <2>3, <2>8, <3>1, <3>2 DEF Term
  <2>9. TodoInv'
    <3>1. reader'.todo = Append(s, e)
      BY <2>1, <2>2, <2>4
    <3> QED
      BY <2>6, <2>7, <2>8, <3>1 DEF TodoInv, Term, ASDU, Report, Monitored, Datum
  <2> QED
    BY <2>1, <2>9, FrameAnswer
<1> QED
  BY <1>1, <1>2

\* A loop takes a Change for a frame of its own.
LEMMA FrameLoop ==
    ASSUME StoreInv, StoreStep, FrameInv, UNCHANGED <<value, version>>,
           NEW c \in Change, TrueOf(c), c.key \in Monitored, NEW goroutine, sendIfStarted(goroutine, c)
    PROVE  FrameInv'
<1>1. CASE loop' = loop
  BY <1>1, FrameOthers DEF sendIfStarted, loopVars
<1>2. CASE loop' # loop
  <2> DEFINE m == monitoredASDU(c.key, c.value, "spontaneous", c.version)
  <2>1. /\ UNCHANGED reader /\ reader.at # "writing"
        /\ loop' = [at |-> "writing", by |-> goroutine, sending |-> IFrame(m)]
    BY <1>2 DEF sendIfStarted, WriteMuFree, loopVars
  <2>2. c.version \in Nat /\ c.value \in Datum
    BY DEF Change
  <2>3. m = [type |-> "M", key |-> c.key, cot |-> "spontaneous", version |-> c.version,
             value |-> shown(c.key, c.value)]
    BY DEF monitoredASDU
  <2> HIDE DEF m
  <2>4. m \in Report /\ m.cot = "spontaneous"
    BY <2>2, <2>3, ShownType DEF Report
  <2>5. Honest(m)
    BY <2>2, <2>3 DEF Honest, TrueOf
  <2>6. PICK a : a = m
    OBVIOUS
  <2>7. loop'.sending.asdu = a
    BY <2>1, <2>6 DEF IFrame
  <2>8. Honest(loop.sending.asdu)'
    BY <2>5, <2>6, <2>7 DEF Honest, shown
  <2>9. TodoInv' /\ SnapInv'
    BY <2>1, TodoKept, SnapKept DEF FrameInv
  <2>10. SendingInv'
    BY <2>1, <2>4, <2>6, <2>7, <2>8 DEF SendingInv, Report, Monitored, Datum
  <2> QED
    BY <2>9, <2>10 DEF FrameInv
<1> QED
  BY <1>1, <1>2

\* spontaneousLoop's from the channel, hbLoop's from hbQueue.
LEMMA FrameLoops ==
    ASSUME StoreInv, StoreStep, StoreTrue, HeartbeatsTrue, FrameInv, LoopsSend
    PROVE  FrameInv'
<1>1. UNCHANGED <<value, version>>
  BY DEF LoopsSend, broadcast, hbLoop, sendIfStarted, loopVars
<1>2. CASE broadcast
  <2>1. PICK c : c = Head(changes)
    OBVIOUS
  <2>2. changes # << >> /\ c.key \in Monitored /\ sendIfStarted("spontaneousLoop", c)
    BY <1>2, <2>1 DEF broadcast, nextChange
  <2>3. c \in Change /\ TrueOf(c)
    BY <2>1, <2>2, RangeTail DEF StoreInv, StoreTrue
  <2> QED
    BY <1>1, <2>2, <2>3, FrameLoop
<1>3. CASE hbLoop
  <2>1. PICK c : c = Head(hbQueue)
    OBVIOUS
  <2>2. hbQueue # << >> /\ sendIfStarted("hbLoop", c)
    BY <1>3, <2>1 DEF hbLoop
  <2>3. c \in Change /\ TrueOf(c) /\ c.key \in Monitored
    BY <2>1, <2>2, RangeTail, MonitoredPoints DEF StoreInv, HeartbeatsTrue
  <2> QED
    BY <1>1, <2>2, <2>3, FrameLoop
<1> QED
  BY <1>2, <1>3 DEF LoopsSend

\* Every step keeps the frames honest.
LEMMA FrameKept ==
    ASSUME ShapeInv, ShapeInv', StoreInv, StoreTrue, HeartbeatsTrue, FrameInv, [Next]_vars
    PROVE  FrameInv'
<1>1. StoreStep
  BY StoreKept
<1>2. CASE handleConn
  BY <1>1, <1>2, FrameCommand, FrameShort, FrameWrites, FrameInterrogation DEF handleConn
<1>3. CASE LoopsSend
  BY <1>1, <1>3, FrameLoops
<1>4. CASE LoopSkips \/ loopWrites
  BY <1>1, <1>4, FrameOthers DEF LoopSkips, loopSkips, admitHeartbeat, loopVars, loopWrites, idle
<1>5. CASE Tick \/ doReset \/ UNCHANGED vars
  BY <1>1, <1>5, FrameOthers DEF Tick, doReset, resetBegins, resetEnters, resetRestores,
     resetClears, vars
<1>6. CASE Publishing
  BY <1>1, <1>6, FrameOthers DEF Publishing, publish, Inject
<1>7. CASE \E op \in LinkOps : LinkOp(op)
  BY <1>1, <1>7, FrameOthers DEF LinkOp
<1> QED
  BY <1>2, <1>3, <1>4, <1>5, <1>6, <1>7 DEF Next, Publishing, updateLoops, LoopsSend, LoopSkips

\* The frames' invariant, at every step.
LEMMA FrameAlways == Spec => []FrameInv
<1>1. Init => FrameInv
  <2> SUFFICES ASSUME Init
               PROVE  FrameInv
    OBVIOUS
  <2>1. reader.at = "read" /\ reader.todo = << >> /\ loop.at = "recv"
    BY ReadingFields DEF Init, idle
  <2>2. reader.todo \in Seq(ASDU) /\ Range(reader.todo) = {} /\ DOMAIN reader.todo = {}
    BY <2>1, RangeEmpty
  <2> QED
    BY <2>1, <2>2 DEF FrameInv, TodoInv, SendingInv, SnapInv
<1>2. ShapeInv /\ ShapeInv' /\ (StoreInv /\ StoreTrue /\ HeartbeatsTrue) /\ FrameInv /\ [Next]_vars
        => FrameInv'
  BY FrameKept
<1> QED
  BY <1>1, <1>2, ShapeAlways, StoreAlways, PTL DEF Spec

-----------------------------------------------------------------------------
(***************************************************************************)
(* What the client has been told, and what it is about to be told.         *)
(***************************************************************************)
\* The heartbeat is left to HeartbeatFence.
Others == Monitored \ {Heartbeat}

\* The client has a point's last write, or was told an older one after it.
Fresh(p) ==
    /\ newest[p] = version[p]
    /\ p \in overtaken \/ client.told[p] = shown(p, value[p])

ToldInv ==
    /\ DOMAIN client.told = Monitored
    /\ newest \in [Monitored -> Nat]
    /\ \A p \in Monitored : newest[p] <= version[p]
    /\ \A p \in Others : newest[p] = version[p] => Fresh(p)

\* It is on its way as a spontaneous update, or was lost at the channel ...
Pending(p) == Channelled(p) \/ (loop.at = "writing" /\ Latest(loop.sending.asdu, p))

\* ... or as a part of the answer to an interrogation.
Reported(p) ==
    \/ reader.at = "override" /\ reader.versions[p] = version[p]
    \/ \E a \in Range(reader.todo) : a.type = "M" /\ Latest(a, p)
    \/ reader.at = "writing" /\ reader.sending.asdu.type = "M" /\ Latest(reader.sending.asdu, p)

\* The answer to an interrogation of the EMS, from its snapshot to its end.
Ending ==
    \/ reader.at \in {"write", "writing"} /\ \E a \in Range(reader.todo) : Term(a)
    \/ reader.at = "writing" /\ Term(reader.sending.asdu)
Reporting == reader.frame.ca = EMS /\ (reader.at = "override" \/ Ending)

CurrentInv ==
    /\ reader.at = "gone" => ~open
    /\ client.caughtUp => client.active
    /\ open /\ client.caughtUp => \A p \in Others : Fresh(p) \/ Pending(p)
    /\ open /\ client.active /\ Reporting =>
         \A p \in Others : Fresh(p) \/ Pending(p) \/ Reported(p)

\* The client reads a report: its point is fresh if the report is of the last
\* write, and a fresh point stays fresh.
LEMMA FreshTold ==
    ASSUME DOMAIN client = ClientFields, StoreInv, ToldInv, UNCHANGED <<version, value>>,
           NEW f, clientReadsI(f), f.asdu \in ASDU, Honest(f.asdu)
    PROVE  /\ ToldInv'
           /\ \A p \in Others : Fresh(p) \/ (f.asdu.type = "M" /\ Latest(f.asdu, p)) => Fresh(p)'
<1>1. CASE f.asdu.type # "M"
  <2>1. UNCHANGED <<newest, overtaken>> /\ client'.told = client.told
    BY <1>1, ReadsIFields DEF clientReadsI
  <2>2. \A p \in Others : Fresh(p) => Fresh(p)'
    BY <2>1 DEF Fresh, shown
  <2>3. ToldInv'
    BY <2>1, <2>2 DEF ToldInv, Monitored, Others
  <2> QED
    BY <1>1, <2>2, <2>3
<1>2. CASE f.asdu.type = "M"
  <2> DEFINE a == f.asdu
             p == a.key
  <2>1. /\ client'.told = [client.told EXCEPT ![p] = a.value]
        /\ overtaken' = (IF a.version < newest[p] THEN overtaken \cup {p} ELSE overtaken \ {p})
        /\ newest' = [newest EXCEPT ![p] = IF a.version > newest[p] THEN a.version ELSE newest[p]]
    BY <1>2, ReadsIFields DEF clientReadsI
  <2>2. a \in Report
    BY <1>2 DEF ASDU
  <2>3. p \in Monitored /\ p \in Points /\ a.version \in Nat
    BY <2>2, MonitoredPoints DEF Report
  <2>4. /\ a.version <= version[p]
        /\ a.version = version[p] /\ p # Heartbeat => a.value = shown(p, value[p])
    BY <1>2 DEF Honest
  <2>5. newest[p] \in Nat /\ version[p] \in Nat /\ newest[p] <= version[p]
    BY <2>3 DEF ToldInv, StoreInv
  <2>6. PICK b : b = f.asdu
    OBVIOUS
  <2>7. PICK k : k = b.key
    OBVIOUS
  <2>8. /\ client'.told = [client.told EXCEPT ![k] = b.value]
        /\ overtaken' = (IF b.version < newest[k] THEN overtaken \cup {k} ELSE overtaken \ {k})
        /\ newest' = [newest EXCEPT ![k] = IF b.version > newest[k] THEN b.version ELSE newest[k]]
        /\ k \in Monitored /\ b.version \in Nat /\ b.version <= version[k]
        /\ b.version = version[k] /\ k # Heartbeat => b.value = shown(k, value[k])
        /\ newest[k] \in Nat /\ version[k] \in Nat /\ newest[k] <= version[k]
    BY <2>1, <2>3, <2>4, <2>5, <2>6, <2>7
  <2> HIDE DEF a, p
  <2>10. ASSUME NEW q \in Others, Fresh(q) \/ Latest(b, q)
         PROVE  Fresh(q)'
    <3>1. q \in Monitored /\ q # Heartbeat /\ q \in DOMAIN client.told /\ q \in DOMAIN newest
      BY DEF Others, ToldInv
    <3>2. CASE q # k
      <4>1. /\ client'.told[q] = client.told[q] /\ newest'[q] = newest[q]
            /\ (q \in overtaken' <=> q \in overtaken)
        BY <2>8, <3>1, <3>2
      <4>2. Fresh(q)
        BY <2>7, <2>10, <3>2 DEF Latest
      <4> QED
        BY <4>1, <4>2 DEF Fresh, shown
    <3>3. CASE q = k /\ b.version = version[k]
      <4>1. /\ client'.told[q] = shown(q, value[q]) /\ newest'[q] = version[q]
        BY <2>8, <3>1, <3>3
      <4> QED
        BY <4>1 DEF Fresh, shown
    <3>4. CASE q = k /\ b.version # version[k]
      <4>1. Fresh(q)
        BY <2>10, <3>4 DEF Latest
      <4>2. newest[q] = version[q] /\ b.version < newest[q]
        BY <2>8, <3>4, <4>1 DEF Fresh
      <4>3. newest'[q] = version[q] /\ q \in overtaken'
        BY <2>8, <3>1, <3>4, <4>2
      <4> QED
        BY <4>3 DEF Fresh
    <3> QED
      BY <3>2, <3>3, <3>4
  <2>11. ToldInv'
    <3>1. DOMAIN client'.told = Monitored /\ newest' \in [Monitored -> Nat]
      BY <2>8 DEF ToldInv
    <3>2. \A q \in Monitored : newest'[q] <= version[q]
      BY <2>8 DEF ToldInv
    <3>3. ASSUME NEW q \in Others, newest'[q] = version[q]
          PROVE  Fresh(q)'
      <4>1. q \in Monitored
        BY DEF Others
      <4>2. newest[q] = version[q] \/ Latest(b, q)
        BY <2>7, <2>8, <3>3, <4>1 DEF Latest, ToldInv
      <4> QED
        BY <2>10, <4>2 DEF ToldInv
    <3> QED
      BY <3>1, <3>2, <3>3 DEF ToldInv, Monitored, Others
  <2> QED
    BY <1>2, <2>6, <2>10, <2>11
<1> QED
  BY <1>1, <1>2

\* OtherPoints, as a definition: it is used under a prime.
OthersArePoints == \A p \in Others : p \in Monitored /\ p \in Points /\ p # Heartbeat

LEMMA OtherPoints == OthersArePoints
  BY MonitoredPoints DEF OthersArePoints, Others

\* A step that tells the client nothing of the store.
LEMMA FreshKept ==
    ASSUME StoreInv, StoreStep, ToldInv, UNCHANGED <<newest, overtaken>>,
           client'.told = client.told
    PROVE  /\ ToldInv'
           /\ \A p \in Points : version'[p] = version[p] /\ Fresh(p) => Fresh(p)'
<1>1. ASSUME NEW p \in Points, version'[p] = version[p], Fresh(p)
      PROVE  Fresh(p)'
  <2>1. value'[p] = value[p]
    <3>1. version[p] \in Nat
      BY DEF StoreInv
    <3> QED
      BY <1>1, <3>1 DEF StoreStep, Versioned
  <2> QED
    BY <1>1, <2>1 DEF Fresh, shown
<1>2. ASSUME NEW p \in Monitored
      PROVE  /\ newest'[p] <= version'[p]
             /\ newest'[p] = version'[p] => version'[p] = version[p]
  <2>1. p \in Points
    BY MonitoredPoints
  <2>2. newest[p] \in Nat /\ version[p] \in Nat /\ newest[p] <= version[p]
    BY <2>1 DEF ToldInv, StoreInv
  <2> QED
    BY <2>1, <2>2 DEF StoreStep, Versioned
<1>3. ASSUME NEW p \in Others, newest'[p] = version'[p]
      PROVE  Fresh(p)'
  <2>1. p \in Monitored /\ p \in Points
    BY OtherPoints DEF OthersArePoints
  <2>2. version'[p] = version[p]
    BY <1>2, <1>3, <2>1
  <2>3. Fresh(p)
    BY <1>3, <2>2 DEF ToldInv
  <2> QED
    BY <1>1, <2>1, <2>2, <2>3
<1>4. ToldInv'
  BY <1>2, <1>3 DEF ToldInv, Monitored, Others
<1> QED
  BY <1>1, <1>4

\* What is on its way stays so, until a step tells the client.
LEMMA PendingKept ==
    ASSUME StoreInv, StoreStep, ChannelKept, ToldInv, UNCHANGED <<newest, overtaken, loop>>,
           client'.told = client.told, NEW p \in Others
    PROVE  /\ version'[p] # version[p] => Pending(p)'
           /\ Fresh(p) \/ Pending(p) => Fresh(p)' \/ Pending(p)'
<1>1. p \in Points
  BY OtherPoints DEF OthersArePoints
<1>2. version'[p] # version[p] => Channelled(p)'
  BY <1>1 DEF StoreStep
<1>3. version'[p] = version[p] /\ Fresh(p) => Fresh(p)'
  BY <1>1, FreshKept
<1>4. version'[p] = version[p] /\ Channelled(p) => Channelled(p)'
  BY <1>1 DEF ChannelKept
<1>5. version'[p] = version[p] /\ loop.at = "writing" /\ Latest(loop.sending.asdu, p)
        => (loop.at = "writing" /\ Latest(loop.sending.asdu, p))'
  BY DEF Latest
<1> QED
  BY <1>2, <1>3, <1>4, <1>5 DEF Pending

\* The goroutines that leave handleConn, the loop and the client alone.
LEMMA CurrentOthers ==
    ASSUME StoreInv, StoreStep, ChannelKept, ToldInv, CurrentInv,
           UNCHANGED <<newest, overtaken, loop, reader>>, client'.told = client.told,
           open' => open, client'.active = client.active, client'.caughtUp = client.caughtUp
    PROVE  ToldInv' /\ CurrentInv'
<1>1. ASSUME NEW p \in Others, Fresh(p) \/ Pending(p) \/ Reported(p)
      PROVE  Fresh(p)' \/ Pending(p)' \/ Reported(p)'
  <2>1. Reported(p) /\ version'[p] = version[p] => Reported(p)'
    BY DEF Reported, Latest
  <2> QED
    BY <1>1, <2>1, PendingKept
<1>2. Reporting' <=> Reporting
  BY DEF Reporting, Ending, Term
<1>3. ToldInv'
  BY FreshKept
<1>4. \A p \in Others : Fresh(p) \/ Pending(p) => Fresh(p)' \/ Pending(p)'
  BY PendingKept
<1> QED
  BY <1>1, <1>2, <1>3, <1>4 DEF CurrentInv, Others, Monitored

\* handleConn away from the answer to an interrogation.
LEMMA CurrentQuiet ==
    ASSUME StoreInv, StoreStep, ChannelKept, ToldInv, CurrentInv,
           UNCHANGED <<newest, overtaken, loop>>, client'.told = client.told,
           open' => open, ~Reporting', reader'.at = "gone" => ~open',
           client'.caughtUp => client.caughtUp /\ client'.active
    PROVE  ToldInv' /\ CurrentInv'
<1>1. ToldInv'
  BY FreshKept
<1>2. \A p \in Others : Fresh(p) \/ Pending(p) => Fresh(p)' \/ Pending(p)'
  BY PendingKept
<1> QED
  BY <1>1, <1>2 DEF CurrentInv, Others, Monitored

\* Short frames tell the client nothing of the store.
LEMMA CurrentShort ==
    ASSUME ShapeInv, ShapeInv', StoreInv, StoreStep, ChannelKept, ToldInv, CurrentInv,
           \/ \E request \in Requests : readFrame(request)
           \/ connectionEnds \/ testFrame \/ ignoresFrame \/ stopDataTransfer \/ startDataTransfer
           \/ confirmStart \/ setRecvSeq \/ writeSFrame \/ written
    PROVE  ToldInv' /\ CurrentInv'
<1>1. UNCHANGED <<loop, newest, overtaken>> /\ client'.told = client.told
  BY ReadsUFields, ReadsSFields, SentFields DEF ShapeInv, readFrame, connectionEnds, testFrame,
     ignoresFrame, stopDataTransfer, startDataTransfer, confirmStart, setRecvSeq, writeSFrame, written,
     readerVars, tellVars, writeShort, clientReadsU, clientReadsS
<1>2. open' => open
  BY DEF readFrame, connectionEnds, testFrame, ignoresFrame, stopDataTransfer, startDataTransfer,
     confirmStart, setRecvSeq, writeSFrame, written, connVars, writeShort
<1>3. ~Reporting' /\ (reader'.at = "gone" => ~open')
  <2>1. ASSUME reader'.at \notin {"override", "write", "writing", "gone"}
        PROVE  ~Reporting' /\ (reader'.at = "gone" => ~open')
    BY <2>1 DEF Reporting, Ending
  <2>2. CASE \E request \in Requests : readFrame(request)
    <3>1. reader.at = "read"
      BY <2>2 DEF readFrame
    <3>2. reader'.at \in {"read", "U", "S", "I"}
      BY <2>2, <3>1, ReadFrameFields DEF ShapeInv
    <3> QED
      BY <2>1, <3>2
  <2>3. CASE connectionEnds
    <3>1. reader'.at = "gone" /\ ~open'
      BY <2>3, ReadingFields DEF connectionEnds, connVars
    <3> QED
      BY <3>1 DEF Reporting, Ending
  <2>4. CASE testFrame \/ ignoresFrame \/ stopDataTransfer \/ startDataTransfer
    <3>1. reader'.at = "read"
      BY <2>4, ReadingFields DEF testFrame, ignoresFrame, stopDataTransfer, startDataTransfer
    <3> QED
      BY <2>1, <3>1
  <2>5. CASE confirmStart
    <3>1. reader' = [reader EXCEPT !.at = "startdt"] \/ reader' = reading
      BY <2>5 DEF confirmStart
    <3>2. reader'.at \in {"startdt", "read"}
      BY <3>1, ReadingFields DEF ShapeInv, ReaderFields
    <3> QED
      BY <2>1, <3>2
  <2>6. CASE setRecvSeq \/ writeSFrame \/ written
    <3>1. goto("ack") \/ goto("asdu") \/ goto("snapshot") \/ reader' = reading
      BY <2>6 DEF setRecvSeq, writeSFrame, written, goto
    <3>2. reader'.at \in {"ack", "asdu", "snapshot", "read"}
      BY <3>1, GotoFields, ReadingFields DEF ShapeInv
    <3> QED
      BY <2>1, <3>2
  <2> QED
    BY <2>2, <2>3, <2>4, <2>5, <2>6
<1>4. client'.caughtUp => client.caughtUp /\ client'.active
  <2>1. CASE testFrame \/ stopDataTransfer \/ confirmStart
    BY <2>1, ReadsUFields DEF ShapeInv, CurrentInv, testFrame, stopDataTransfer, confirmStart,
       writeShort, tellVars
  <2>2. CASE \E request \in Requests : readFrame(request)
    BY <2>2, SentFields DEF ShapeInv, CurrentInv, readFrame
  <2>3. CASE writeSFrame
    BY <2>3, ReadsSFields DEF ShapeInv, CurrentInv, writeSFrame, writeShort, tellVars
  <2>4. CASE connectionEnds \/ ignoresFrame \/ startDataTransfer \/ setRecvSeq \/ written
    BY <2>4 DEF CurrentInv, connectionEnds, ignoresFrame, startDataTransfer, setRecvSeq, written,
       tellVars
  <2> QED
    BY <2>1, <2>2, <2>3, <2>4
<1> QED
  BY <1>1, <1>2, <1>3, <1>4, CurrentQuiet

\* The answer to a command tells it nothing either.
LEMMA CurrentCommand ==
    ASSUME ShapeInv, StoreInv, StoreStep, ChannelKept, ToldInv, CurrentInv, handleASDU \/ command
    PROVE  ToldInv' /\ CurrentInv'
<1>1. UNCHANGED <<loop, newest, overtaken, client, open>>
  BY DEF handleASDU, command, readerVars, connVars, tellVars
<1>2. handleASDU => reader.frame.type \in {"C_IC", "C_S", "junk"}
  BY RequestKinds DEF handleASDU, ShapeInv, Answering
<1>3. \/ reader' = reading \/ goto("command")
      \/ reader' = [reader EXCEPT !.at = "write", !.todo = <<buildCICNA1("act_con")>>]
      \/ \E cot \in {"unknown_ioa", "refused", "act_con"} :
             reader' = [reader EXCEPT !.at = "write", !.todo = <<commandASDU(cot)>>]
  BY <1>2 DEF handleASDU, command, goto
<1>4. reader'.at \in {"read", "command"}
      \/ (reader'.at = "write" /\ \E a : reader'.todo = <<a>> /\ ~Term(a))
  <2>1. CASE reader' = reading \/ goto("command")
    BY <2>1, ReadingFields, GotoFields DEF ShapeInv
  <2>2. CASE reader' = [reader EXCEPT !.at = "write", !.todo = <<buildCICNA1("act_con")>>]
    <3>1. ~Term(buildCICNA1("act_con"))
      BY DEF Term, buildCICNA1
    <3> QED
      BY <2>2, <3>1, AnswerFields DEF ShapeInv
  <2>3. ASSUME NEW cot \in {"unknown_ioa", "refused", "act_con"},
               reader' = [reader EXCEPT !.at = "write", !.todo = <<commandASDU(cot)>>]
        PROVE  reader'.at = "write" /\ \E a : reader'.todo = <<a>> /\ ~Term(a)
    <3>1. ~Term(commandASDU(cot))
      BY DEF Term, commandASDU
    <3> QED
      BY <2>3, <3>1, AnswerFields DEF ShapeInv
  <2> QED
    BY <1>3, <2>1, <2>2, <2>3
<1>5. ~Reporting' /\ reader'.at # "gone"
  <2>1. ASSUME NEW a, reader'.at = "write", reader'.todo = <<a>>, ~Term(a)
        PROVE  ~Reporting'
    <3>1. Range(reader'.todo) = {a}
      BY <2>1, RangeOne
    <3>2. \A b \in Range(reader'.todo) : ~Term(b)
      BY <2>1, <3>1
    <3> QED
      BY <2>1, <3>2 DEF Reporting, Ending, Term
  <2> QED
    BY <1>4, <2>1 DEF Reporting, Ending
<1> QED
  BY <1>1, <1>5, CurrentQuiet DEF CurrentInv

\* The first of what there is to write is in hand.
LEMMA CurrentTakes ==
    ASSUME ShapeInv, StoreInv, StoreStep, ChannelKept, TodoInv, ToldInv, CurrentInv, writeIFrame
    PROVE  ToldInv' /\ CurrentInv'
<1> DEFINE s == reader.todo
<1>1. /\ reader.at = "write" /\ s # << >> /\ UNCHANGED <<loop, newest, overtaken, client, open>>
      /\ UNCHANGED <<version, value>>
      /\ reader'.at = "writing" /\ reader'.frame = reader.frame
      /\ reader'.todo = Tail(s) /\ reader'.sending.asdu = Head(s)
  BY WriteFields DEF ShapeInv, writeIFrame, readerVars, connVars, tellVars, storeVars, IFrame
<1>2. Range(s) = {Head(s)} \cup Range(Tail(s))
  BY <1>1, RangeTail DEF TodoInv
<1>3. Range(s) = {reader'.sending.asdu} \cup Range(reader'.todo)
  BY <1>1, <1>2
<1> HIDE DEF s
<1>4. Reporting' => Reporting
  BY <1>1, <1>3 DEF Reporting, Ending, Term, s
<1>5. ASSUME NEW p \in Others, Reported(p)
      PROVE  Reported(p)'
  <2>1. \E a \in Range(s) : a.type = "M" /\ Latest(a, p)
    BY <1>1, <1>5 DEF Reported, s
  <2> QED
    BY <1>1, <1>3, <2>1 DEF Reported, Latest
<1>6. ToldInv'
  BY <1>1, FreshKept
<1>7. \A p \in Others : Fresh(p) \/ Pending(p) => Fresh(p)' \/ Pending(p)'
  BY <1>1, PendingKept
<1> QED
  BY <1>1, <1>4, <1>5, <1>6, <1>7 DEF CurrentInv, Others, Monitored

\* A frame is out: what it reported is fresh, and after the last frame of an
\* interrogation everything is fresh or on its way.
LEMMA CurrentWritten ==
    ASSUME ShapeInv, StoreInv, StoreStep, ChannelKept, TodoInv, SendingInv, ToldInv, CurrentInv,
           writeIFrameLocked
    PROVE  ToldInv' /\ CurrentInv'
<1>1. /\ reader.at = "writing" /\ UNCHANGED <<loop, version, value>>
      /\ writeEnds(reader.sending)
      /\ reader'.at = "write" /\ reader'.frame = reader.frame /\ reader'.todo = reader.todo
      /\ DOMAIN client = ClientFields
  BY CountFields DEF ShapeInv, writeIFrameLocked, readerVars, storeVars
<1>2. CASE ~open'
  <2>1. UNCHANGED <<newest, overtaken, client>>
    BY <1>1, <1>2 DEF writeEnds, tellVars
  <2>2. ToldInv'
    BY <2>1, FreshKept
  <2> QED
    BY <1>1, <1>2, <2>1, <2>2 DEF CurrentInv
<1>3. CASE open'
  <2>1. open /\ clientReadsI(reader.sending)
    BY <1>1, <1>3 DEF writeEnds
  <2>2. reader.sending.asdu \in ASDU /\ Honest(reader.sending.asdu)
        /\ (Term(reader.sending.asdu) => reader.todo = << >>)
    BY <1>1 DEF SendingInv
  <2>3. PICK f : f = reader.sending
    OBVIOUS
  <2>4. /\ ToldInv'
        /\ \A p \in Others : Fresh(p) \/ (f.asdu.type = "M" /\ Latest(f.asdu, p)) => Fresh(p)'
    BY <1>1, <2>1, <2>2, <2>3, FreshTold
  <2>5. /\ client'.active = client.active
        /\ client'.caughtUp = (client.caughtUp
             \/ (client.active /\ f.asdu.cot = "act_term" /\ reader.frame.ca = EMS))
    BY <1>1, <2>1, <2>3, ReadsIFields
  <2>6. ASSUME NEW p \in Others, Pending(p)
        PROVE  Pending(p)'
    <3>1. p \in Points
      BY OtherPoints DEF OthersArePoints
    <3> QED
      BY <1>1, <2>6, <3>1 DEF Pending, ChannelKept, Latest
  <2>7. ASSUME NEW p \in Others, Reported(p)
        PROVE  Fresh(p)' \/ Reported(p)'
    <3>1. \/ \E a \in Range(reader.todo) : a.type = "M" /\ Latest(a, p)
          \/ f.asdu.type = "M" /\ Latest(f.asdu, p)
      BY <1>1, <2>3, <2>7 DEF Reported
    <3>2. CASE \E a \in Range(reader.todo) : a.type = "M" /\ Latest(a, p)
      BY <1>1, <3>2 DEF Reported, Latest
    <3> QED
      BY <2>4, <3>1, <3>2
  <2>8. Reporting' => Reporting
    BY <1>1 DEF Reporting, Ending, Term
  <2>9. ASSUME client.active, f.asdu.cot = "act_term", reader.frame.ca = EMS, NEW p \in Others
        PROVE  Fresh(p)' \/ Pending(p)'
    <3>1. Reporting /\ reader.todo = << >> /\ f.asdu.type # "M"
      BY <1>1, <2>2, <2>3, <2>9 DEF Reporting, Ending, Term, ASDU, Report
    <3>2. ~Reported(p)
      BY <1>1, <2>3, <3>1, RangeEmpty DEF Reported
    <3>3. Fresh(p) \/ Pending(p)
      BY <2>1, <2>9, <3>1, <3>2 DEF CurrentInv
    <3> QED
      BY <2>4, <2>6, <3>3
  <2>10. ASSUME client.caughtUp, NEW p \in Others
         PROVE  Fresh(p)' \/ Pending(p)'
    BY <2>1, <2>4, <2>6, <2>10 DEF CurrentInv
  <2>11. ASSUME client.active, Reporting, NEW p \in Others
         PROVE  Fresh(p)' \/ Pending(p)' \/ Reported(p)'
    BY <2>1, <2>4, <2>6, <2>7, <2>11 DEF CurrentInv
  <2>12. client.caughtUp => client.active
    BY DEF CurrentInv
  <2> QED
    BY <1>1, <2>4, <2>5, <2>8, <2>9, <2>10, <2>11, <2>12 DEF CurrentInv, Others, Monitored
<1> QED
  BY <1>2, <1>3

\* The snapshot has every point's last write, and the frames report it.
LEMMA CurrentInterrogation ==
    ASSUME ShapeInv, StoreInv, StoreStep, ChannelKept, FrameInv, ToldInv, CurrentInv,
           SnapshotDevice \/ heartbeatOverride
    PROVE  ToldInv' /\ CurrentInv'
<1>1. UNCHANGED <<loop, newest, overtaken, client, open, version, value>>
  BY DEF SnapshotDevice, heartbeatOverride, readerVars, connVars, tellVars, storeVars
<1>2. ToldInv'
  BY <1>1, FreshKept
<1>3. \A p \in Others : Fresh(p) \/ Pending(p) => Fresh(p)' \/ Pending(p)'
  BY <1>1, PendingKept
<1>4. CASE SnapshotDevice
  <2>1. reader'.at = "override" /\ reader'.versions = version
    BY <1>4, SnapshotFields DEF ShapeInv
  <2>2. \A p \in Others : Reported(p)'
    BY <1>1, <2>1 DEF Reported
  <2> QED
    BY <1>1, <1>2, <1>3, <2>1, <2>2 DEF CurrentInv, Others, Monitored
<1>5. CASE heartbeatOverride
  <2>1. /\ reader.at = "override" /\ reader'.at = "write" /\ reader'.frame = reader.frame
        /\ reader'.todo = Append(reports(Laid), buildCICNA1("act_term"))
    BY <1>5, OverrideFields DEF heartbeatOverride, ShapeInv
  <2>2. Reporting' => Reporting
    BY <2>1 DEF Reporting
  <2>3. ASSUME Reporting, NEW p \in Others, Reported(p)
        PROVE  Reported(p)'
    <3>1. reader.frame.ca = EMS /\ reader.versions[p] = version[p]
      <4>1. reader.frame.ca = EMS
        BY <2>3 DEF Reporting
      <4>2. reader.todo = << >>
        BY <2>1 DEF ShapeInv
      <4> QED
        BY <2>1, <2>3, <4>1, <4>2, RangeEmpty DEF Reported
    <3>2. p \in Monitored
      BY OtherPoints DEF OthersArePoints
    <3>3. PICK s, e : s = reports(Laid) /\ e = buildCICNA1("act_term")
      OBVIOUS
    <3>4. /\ s \in Seq(Report) /\ \E a \in Range(s) : a.key = p /\ a.version = version[p]
      BY <2>1, <3>1, <3>2, <3>3, ReportsTrue DEF FrameInv
    <3>5. e \in ASDU /\ s \in Seq(ASDU)
      BY <3>3, <3>4 DEF ASDU, buildCICNA1
    <3>6. Range(reader'.todo) = Range(s) \cup {e}
      BY <2>1, <3>3, <3>5, RangeAppend
    <3>7. PICK a \in Range(s) : a.key = p /\ a.version = version[p]
      BY <3>4
    <3>8. a.type = "M"
      <4>1. a \in Report
        BY <3>4, RangeTyped
      <4> QED
        BY <4>1 DEF Report
    <3> QED
      BY <1>1, <3>6, <3>7, <3>8 DEF Reported, Latest
  <2> QED
    BY <1>1, <1>2, <1>3, <2>1, <2>2, <2>3 DEF CurrentInv, Others, Monitored
<1> QED
  BY <1>4, <1>5

\* The loop takes a Change off the channel: only the last write of its point
\* leaves the channel.
LEMMA ChannelTaken ==
    ASSUME StoreInv, changes # << >>, changes' = Tail(changes), UNCHANGED <<pub, lost, version>>,
           NEW p \in Others, Channelled(p)
    PROVE  Channelled(p)' \/ Latest(Head(changes), p)
<1>1. Range(changes) = {Head(changes)} \cup Range(Tail(changes))
  BY RangeTail DEF StoreInv
<1> QED
  BY <1>1 DEF Channelled, Latest

\* It takes one that the client does not need, or is not there for, ...
LEMMA CurrentSkips ==
    ASSUME StoreInv, StoreStep, ToldInv, CurrentInv, LoopSkips
    PROVE  ToldInv' /\ CurrentInv'
<1>1. /\ changes # << >> /\ changes' = Tail(changes) /\ UNCHANGED <<pub, lost, version, value>>
      /\ UNCHANGED <<loop, reader, client, newest, overtaken>> /\ (open' => open)
      /\ (Head(changes).key \notin Others \/ (reader.at = "gone" /\ open' = open))
  BY DEF LoopSkips, loopSkips, admitHeartbeat, nextChange, loopVars, connVars, tellVars, Others
<1>2. ToldInv'
  BY <1>1, FreshKept
<1>3. CASE reader.at = "gone"
  BY <1>1, <1>2, <1>3 DEF CurrentInv
<1>4. CASE Head(changes).key \notin Others
  <2>1. ASSUME NEW p \in Others
        PROVE  /\ Fresh(p) => Fresh(p)'
               /\ Pending(p) => Pending(p)'
               /\ Reported(p) => Reported(p)'
    <3>1. Channelled(p) => Channelled(p)'
      BY <1>1, <1>4, ChannelTaken DEF Latest
    <3> QED
      BY <1>1, <3>1 DEF Fresh, shown, Pending, Reported, Latest
  <2>2. Reporting' <=> Reporting
    BY <1>1 DEF Reporting, Ending, Term
  <2> QED
    BY <1>1, <1>2, <2>1, <2>2 DEF CurrentInv, Others, Monitored
<1> QED
  BY <1>1, <1>3, <1>4

\* ... or is not subscribed for, or one that it has in hand from then on.
LEMMA CurrentSends ==
    ASSUME ShapeInv, SubscribedInv, StoreInv, StoreStep, ToldInv, CurrentInv, broadcast
    PROVE  ToldInv' /\ CurrentInv'
<1> DEFINE c == Head(changes)
           m == monitoredASDU(c.key, c.value, "spontaneous", c.version)
<1>1. /\ changes # << >> /\ changes' = Tail(changes) /\ UNCHANGED <<pub, lost, version, value>>
      /\ UNCHANGED <<reader, open, client, newest, overtaken>>
      /\ loop.at = "recv" /\ reader.at # "startdt"
      /\ loop' = IF started THEN [at |-> "writing", by |-> "spontaneousLoop", sending |-> IFrame(m)]
                            ELSE loop
  BY DEF broadcast, nextChange, sendIfStarted, loopVars, connVars, tellVars, WriteMuFree, ShapeInv
<1>2. ToldInv'
  BY <1>1, FreshKept
<1>3. CASE ~started
  <2>1. open => ~client.active
    BY <1>1, <1>3 DEF SubscribedInv
  <2> QED
    BY <1>1, <1>2, <2>1 DEF CurrentInv
<1>4. CASE started
  <2>1. m.key = c.key /\ m.version = c.version
    BY DEF monitoredASDU
  <2>2. PICK a : a = m
    OBVIOUS
  <2>3. a.key = c.key /\ a.version = c.version /\ loop'.at = "writing" /\ loop'.sending.asdu = a
    BY <1>1, <1>4, <2>1, <2>2 DEF IFrame
  <2> HIDE DEF m
  <2>4. ASSUME NEW p \in Others
        PROVE  /\ Fresh(p) => Fresh(p)'
               /\ Pending(p) => Pending(p)'
               /\ Reported(p) => Reported(p)'
    <3>1. Channelled(p) => Channelled(p)' \/ Latest(c, p)
      BY <1>1, ChannelTaken
    <3>2. Latest(c, p) => Pending(p)'
      BY <1>1, <2>3 DEF Pending, Latest
    <3> QED
      BY <1>1, <3>1, <3>2 DEF Fresh, shown, Pending, Reported, Latest
  <2>5. Reporting' <=> Reporting
    BY <1>1 DEF Reporting, Ending, Term
  <2> QED
    BY <1>1, <1>2, <2>4, <2>5 DEF CurrentInv, Others, Monitored
<1> QED
  BY <1>3, <1>4

\* A heartbeat is none of the points that are on their way.
LEMMA CurrentHeartbeat ==
    ASSUME ShapeInv, StoreInv, StoreStep, ChannelKept, ToldInv, CurrentInv, hbLoop
    PROVE  ToldInv' /\ CurrentInv'
<1>1. /\ UNCHANGED <<changes, pub, lost, version, value>>
      /\ UNCHANGED <<reader, open, client, newest, overtaken>>
      /\ loop.at # "writing"
  BY DEF hbLoop, sendIfStarted, loopVars, connVars, tellVars, WriteMuFree
<1>2. ToldInv'
  BY <1>1, FreshKept
<1>3. ASSUME NEW p \in Others
      PROVE  /\ Fresh(p) => Fresh(p)'
             /\ Pending(p) => Pending(p)'
             /\ Reported(p) => Reported(p)'
  BY <1>1 DEF Fresh, shown, Pending, Channelled, Reported, Latest
<1>4. Reporting' <=> Reporting
  BY <1>1 DEF Reporting, Ending, Term
<1> QED
  BY <1>1, <1>2, <1>3, <1>4 DEF CurrentInv, Others, Monitored

\* A spontaneous update is out, and its point is fresh.
LEMMA CurrentUpdates ==
    ASSUME ShapeInv, StoreInv, StoreStep, ChannelKept, SendingInv, ToldInv, CurrentInv, loopWrites
    PROVE  ToldInv' /\ CurrentInv'
<1>1. /\ loop.at = "writing" /\ UNCHANGED <<reader, version, value>>
      /\ writeEnds(loop.sending) /\ DOMAIN client = ClientFields
  BY DEF ShapeInv, loopWrites, storeVars
<1>2. CASE ~open'
  <2>1. UNCHANGED <<newest, overtaken, client>>
    BY <1>1, <1>2 DEF writeEnds, tellVars
  <2>2. ToldInv'
    BY <2>1, FreshKept
  <2> QED
    BY <1>1, <1>2, <2>1, <2>2 DEF CurrentInv
<1>3. CASE open'
  <2>1. open /\ clientReadsI(loop.sending)
    BY <1>1, <1>3 DEF writeEnds
  <2>2. /\ loop.sending.asdu \in ASDU /\ Honest(loop.sending.asdu)
        /\ loop.sending.asdu.type = "M" /\ loop.sending.asdu.cot = "spontaneous"
    BY <1>1 DEF SendingInv, ASDU, Report
  <2>3. PICK f : f = loop.sending
    OBVIOUS
  <2>4. /\ ToldInv'
        /\ \A p \in Others : Fresh(p) \/ (f.asdu.type = "M" /\ Latest(f.asdu, p)) => Fresh(p)'
    BY <1>1, <2>1, <2>2, <2>3, FreshTold
  <2>5. client'.active = client.active /\ client'.caughtUp = (client.caughtUp \/ FALSE)
    BY <1>1, <2>1, <2>2, <2>3, ReadsIFields
  <2>6. ASSUME NEW p \in Others, Pending(p)
        PROVE  Fresh(p)' \/ Pending(p)'
    <3>1. p \in Points
      BY OtherPoints DEF OthersArePoints
    <3>2. Channelled(p) => Pending(p)'
      BY <1>1, <3>1 DEF Pending, ChannelKept
    <3> QED
      BY <2>2, <2>3, <2>4, <2>6, <3>2 DEF Pending
  <2>7. ASSUME NEW p \in Others, Reported(p)
        PROVE  Reported(p)'
    BY <1>1, <2>7 DEF Reported, Latest
  <2>8. Reporting' <=> Reporting
    BY <1>1 DEF Reporting, Ending, Term
  <2> QED
    BY <1>1, <2>1, <2>4, <2>5, <2>6, <2>7, <2>8 DEF CurrentInv, Others, Monitored
<1> QED
  BY <1>2, <1>3

\* Every step keeps the client current.
LEMMA CurrentKept ==
    ASSUME ShapeInv, ShapeInv', SubscribedInv, StoreInv, StoreTrue, FrameInv, ToldInv, CurrentInv,
           [Next]_vars
    PROVE  ToldInv' /\ CurrentInv'
<1>1. StoreStep
  BY StoreKept
<1>2. CASE LoopSkips \/ broadcast
  BY <1>1, <1>2, CurrentSkips, CurrentSends
<1>3. CASE ~(LoopSkips \/ broadcast)
  <2>1. ChannelKept
    BY <1>1, <1>3 DEF StoreStep
  <2>2. CASE handleConn
    BY <1>1, <2>1, <2>2, CurrentShort, CurrentCommand, CurrentTakes, CurrentWritten,
       CurrentInterrogation DEF handleConn, FrameInv
  <2>3. CASE loopWrites
    BY <1>1, <2>1, <2>3, CurrentUpdates DEF FrameInv
  <2>4. CASE hbLoop
    BY <1>1, <2>1, <2>4, CurrentHeartbeat
  <2>5. CASE Tick \/ doReset \/ UNCHANGED vars
    BY <1>1, <2>1, <2>5, CurrentOthers DEF Tick, doReset, resetBegins, resetEnters, resetRestores,
       resetClears, vars, connVars, tellVars
  <2>6. CASE Publishing
    BY <1>1, <2>1, <2>6, CurrentOthers DEF Publishing, publish, Inject, connVars, tellVars
  <2>7. CASE \E op \in LinkOps : LinkOp(op)
    BY <1>1, <2>1, <2>7, CurrentOthers DEF LinkOp, connVars, tellVars
  <2> QED
    BY <1>3, <2>2, <2>3, <2>4, <2>5, <2>6, <2>7 DEF Next, Publishing, updateLoops, LoopSkips
<1> QED
  BY <1>2, <1>3

\* The client's invariants, at every step.
LEMMA CurrentAlways == Spec => [](ToldInv /\ CurrentInv)
<1>1. Init => ToldInv /\ CurrentInv
  <2> SUFFICES ASSUME Init
               PROVE  ToldInv /\ CurrentInv
    OBVIOUS
  <2>1. /\ client.told = [p \in Monitored |-> None] /\ ~client.active /\ ~client.caughtUp
        /\ newest = [p \in Monitored |-> 0] /\ version = [p \in Points |-> 1]
        /\ reader.at = "read"
    BY ReadingFields DEF Init
  <2>2. ToldInv
    BY <2>1, MonitoredPoints DEF ToldInv, Others
  <2>3. CurrentInv
    BY <2>1 DEF CurrentInv
  <2> QED
    BY <2>2, <2>3
<1>2. ShapeInv /\ ShapeInv' /\ SessionIInv /\ (StoreInv /\ StoreTrue /\ HeartbeatsTrue) /\ FrameInv
        /\ (ToldInv /\ CurrentInv) /\ [Next]_vars => (ToldInv /\ CurrentInv)'
  BY CurrentKept DEF SessionIInv
<1> QED
  BY <1>1, <1>2, ShapeAlways, SessionCorrect, StoreAlways, FrameAlways, PTL DEF Spec

\* Whoever writes them and wherever the numbers wrap, the frames reach the
\* client in order and acknowledge what it has sent (writeIFrameLocked and
\* setRecvSeq under writeMu, encodeSeq).
THEOREM NumbersUnbroken == Spec => []SequenceUnbroken
<1>1. SequenceInv => SequenceUnbroken
  BY DEF SequenceInv, Numbered, SequenceUnbroken
<1> QED
  BY <1>1, SequenceAlways, PTL

\* The probe reads the confirmation, a report and the termination in this
\* order, with spontaneous updates and acknowledgements between them
\* (ProbeGeneralInterrogation, handleGeneralInterrogation).
THEOREM ProbeAlwaysServed == Spec => []ProbeNeverFails
<1>1. ProbeInv => ProbeNeverFails
  BY DEF ProbeInv, ProbeNeverFails
<1> QED
  BY <1>1, ProbeAlways, PTL

\* Between its interrogation and the next STOPDT a subscribed client has the
\* last write of every point, or that write is on its way, or it found
\* spontaneousLoop's channel full, whatever its capacity, and was not reported
\* by an interrogation since (publish, handleGeneralInterrogation,
\* sendIfStarted).
THEOREM ClientStaysCurrent == Spec => []ClientIsCurrent
<1>1. ShapeInv /\ (StoreInv /\ StoreTrue /\ HeartbeatsTrue) /\ (ToldInv /\ CurrentInv) => ClientIsCurrent
  <2> SUFFICES ASSUME ShapeInv, StoreInv, ToldInv, CurrentInv, settled, client.caughtUp,
                      NEW p \in Monitored \ (overtaken \cup missed \cup {Heartbeat})
               PROVE  client.told[p] = shown(p, value[p])
    BY DEF ClientIsCurrent
  <2>1. /\ open /\ changes = << >> /\ loop.at = "recv" /\ p \in Others /\ p \notin overtaken
        /\ \A w \in Writers : pub[w] = << >>
    BY DEF settled, idle, Others
  <2>2. Pending(p) => p \in lost
    BY <2>1, RangeEmpty DEF Pending, Channelled
  <2>3. p \in lost => newest[p] = version[p]
    <3>1. p \in Monitored /\ p \in Points
      BY <2>1, OtherPoints DEF OthersArePoints
    <3>2. newest[p] \in Nat /\ version[p] \in Nat /\ newest[p] <= version[p]
      BY <3>1 DEF ToldInv, StoreInv
    <3> QED
      BY <3>1, <3>2 DEF missed
  <2>4. Fresh(p)
    BY <2>1, <2>2, <2>3 DEF CurrentInv, ToldInv
  <2> QED
    BY <2>1, <2>4 DEF Fresh
<1> QED
  BY <1>1, ShapeAlways, StoreAlways, CurrentAlways, PTL
=============================================================================

---------------------------- MODULE ModbusServer ----------------------------
(***************************************************************************)
(* The Modbus TCP server (simulator/internal/modbustcp): accepting and     *)
(* dropping connections, one handler goroutine per connection, the         *)
(* functions 02, 03, 04, 06 and 16, and the link faults that reach it      *)
(* through linkfault.ApplyCoordinated, one operation at a time.            *)
(*                                                                         *)
(* Other goroutines: the accept loop, the physics tick (one SetBatch of    *)
(* the telemetry), POST /reset, and one link operation.  The locks are     *)
(* read off where their holders are: linkCoord, the gate's shared side,    *)
(* commands.writeMu and the store's read lock are held by a handler from   *)
(* one of its steps to another, so nothing here assumes that a request is  *)
(* answered in one step.  The store's write lock and connMu are held over  *)
(* memory only, for one step.                                              *)
(***************************************************************************)
EXTENDS RegisterCodec, FiniteSets

CONSTANTS
    Points,         \* the points of one unit; another unit has none of them
    Catalog,        \* point -> [class, addr], its Modbus address on the wire
    Heartbeat,      \* linkfault.HeartbeatKey
    Valid,          \* holding-register point -> the values Validate accepts
    Startup,        \* point -> its value at startup, and after a reset
    Order,          \* the configured byte order
    Addresses,      \* 2^16: the number of register addresses
    MaxQty,         \* function -> the greatest quantity: 2000, 125, 125 and 123
    Conns,          \* TCP connections
    Frames,         \* the frames a client may send; None is a malformed one
    LinkOps,        \* the link operations: [mode, targets]
    MaxBeat,        \* bound on the heartbeat: the number of ticks
    MaxOps,         \* bound on the number of link operations and resets
    MaxFrames,      \* bound on the number of frames sent
    None

LinkModes == {"drop", "hang", "delay", "heartbeat_pause", "clear"}

ASSUME ModbusAssumption ==
    /\ Catalog \in [Points -> [class : {2, 3, 4}, addr : 0..Addresses - 1]]
    /\ Heartbeat \in Points /\ Catalog[Heartbeat].class = 4
    /\ Order \in ByteOrder
    /\ LinkOps \subseteq [mode : LinkModes, targets : SUBSET {"iec104", "modbus"}]
    /\ None \notin Conns \cup {"link", "reset"}

\* Two points of a class share no register, a quantity is less than the
\* register space, and what a client writes is registers of two bytes.
ASSUME RegisterAssumption ==
    /\ Addresses \in Nat \ {0} /\ MaxQty \in [{2, 3, 4, 6, 16} -> 1..Addresses]
    /\ \A p, q \in Points : Catalog[p].class = Catalog[q].class /\ Catalog[p].class # 2 =>
         p = q \/ Catalog[p].addr \notin {Catalog[q].addr, Catalog[q].addr + 1}
    /\ Startup \in [Points -> Int32] /\ MaxBeat \in Int32
    /\ \A f \in Frames \ {None} :
         /\ f.fc \in {6, 16} => "regs" \in DOMAIN f /\ f.regs \in Seq(Byte \X Byte)
         /\ f.fc \in Nat /\ f.start \in Nat
    /\ None \notin Int

VARIABLES
    value,          \* the store
    link,           \* linkState: drop, hang, delay > 0, and the frozen heartbeat or None
    iec,            \* the same of the IEC-104 server, the other target
    conns,          \* s.conns
    open,           \* the connections whose socket is open at our side
    accepting,      \* the connection that Accept has returned, or None
    handler,        \* connection -> its goroutine: where it is, and its locals
    coord,          \* who else holds linkCoord: "link", "reset", or None
    admin,          \* the link operation: where it is, which one, the captured heartbeat
    reset,          \* where POST /reset is
    frames, ops,    \* the bounded counters
    seen            \* auxiliary: the heartbeat last resolved for any client, or None

vars == <<value, link, iec, conns, open, accepting, handler, coord, admin, reset, frames, ops,
          seen>>

NoFault == [drop |-> FALSE, hang |-> FALSE, delay |-> FALSE, frozen |-> None]

\* The response so far, the exception it is instead, and the encoded points:
\* handleReadRegisters' cache, applyRegisterWrites' touched.
gone == [at |-> "none", req |-> None, buf |-> << >>, exc |-> 0, cache |-> << >>]
idle == [gone EXCEPT !.at = "read"]
noOp == [at |-> "idle", op |-> None, captured |-> None]

Init ==
    /\ value = Startup
    /\ link = NoFault /\ iec = NoFault
    /\ conns = {} /\ open = {}
    /\ accepting = None
    /\ handler = [c \in Conns |-> gone]
    /\ coord = None
    /\ admin = noOp /\ reset = "idle"
    /\ frames = 0 /\ ops = 0
    /\ seen = None

-----------------------------------------------------------------------------
\* The locks, read off where their holders are.
Holders(places) == {c \in Conns : handler[c].at \in places}

\* Mutant: a register read does not wait for a link operation.
CoordAlwaysFree == TRUE

\* linkfault.Coordinator.
CoordFree == coord = None /\ Holders({"enter", "registers"}) = {}

\* The gate's shared side lets nobody in past a reset that waits or holds.
GateOpen == reset \notin {"waits", "restore", "clear"}

GateEmpty == Holders({"bits", "registers", "writeMu", "merge", "commit"}) = {}

\* Mutant: writers only exclude a reset.
WritesUnlocked == TRUE

\* commands.Processor.LockWrites.
WritesFree == Holders({"merge", "commit"}) = {}

\* Mutant: a response is not one read transaction.
StoreUnlocked == TRUE

\* The store's write lock waits for its readers.
StoreFree == Holders({"bits", "registers"}) = {}

-----------------------------------------------------------------------------
\* buildRegisterSlots: class 2 is addressed by bits and has none.
slots == {[class |-> Catalog[p].class, addr |-> Catalog[p].addr + w, key |-> p, which |-> w] :
             p \in {p \in Points : Catalog[p].class # 2}, w \in {0, 1}}

SlotsAt(class, addr) == {s \in slots : s.class = class /\ s.addr = addr}

TheSlot(class, addr) == CHOOSE s \in SlotsAt(class, addr) : TRUE

\* start + uint16(i), which wraps.
Address(req, i) == (req.start + i) % Addresses

\* What a read sees of a point: the store's value, but for the heartbeat of a
\* paused link the frozen one.
Visible(p) == IF p = Heartbeat /\ link.frozen # None THEN link.frozen ELSE value[p]

\* An alarm's bit, which is 0 where there is no alarm.
BitAt(addr) ==
    IF \E p \in Points : Catalog[p] = [class |-> 2, addr |-> addr] /\ value[p] # 0 THEN 1 ELSE 0

\* Unmapped registers read as 0x0000.
RegisterAt(class, addr) ==
    IF SlotsAt(class, addr) = {} THEN <<0, 0>>
    ELSE LET s == TheSlot(class, addr) IN
           encodeRegisterPair(Visible(s.key), Order)[s.which + 1]

-----------------------------------------------------------------------------
to(c, place) == handler' = [handler EXCEPT ![c].at = place]

\* m[key] = v, for a map m.
put(m, key, v) == [k \in DOMAIN m \cup {key} |-> IF k = key THEN v ELSE m[k]]

replyWith(c, response) ==
    handler' = [handler EXCEPT ![c] = [idle EXCEPT !.at = "reply", !.buf = response]]

exceptionPDU(c, code) ==
    handler' = [handler EXCEPT ![c] = [idle EXCEPT !.at = "reply", !.exc = code]]

\* handleConn's deferred calls: off the table, and the socket closed.
leave(c) ==
    /\ handler' = [handler EXCEPT ![c] = gone]
    /\ conns' = conns \ {c}
    /\ open' = open \ {c}

others == <<value, link, iec, accepting, coord, admin, reset, ops>>

\* A client connects, and acceptLoop's Accept returns.
Accept(c) ==
    /\ accepting = None /\ handler[c] = gone
    /\ accepting' = c
    /\ open' = open \cup {c}
    /\ UNCHANGED <<value, link, iec, conns, handler, coord, admin, reset, frames, ops, seen>>

serve(c) ==
    /\ conns' = conns \cup {c}
    /\ handler' = [handler EXCEPT ![c] = idle]
    /\ UNCHANGED open

\* One critical section either refuses the connection or registers it.
refuseOrServe(c) ==
    IF link.drop
    THEN open' = open \ {c} /\ UNCHANGED <<conns, handler>>
    ELSE serve(c)

acceptLoop(c) ==
    /\ accepting = c
    /\ refuseOrServe(c)
    /\ accepting' = None
    /\ UNCHANGED <<value, link, iec, coord, admin, reset, frames, ops, seen>>

\* readMBAPFrame returns a frame, which a hanging link swallows and a delayed
\* one answers later.
Receive(c, frame) ==
    /\ handler[c].at = "read" /\ c \in open
    /\ frames < MaxFrames
    /\ frames' = frames + 1
    /\ IF frame = None THEN leave(c)
       ELSE /\ handler' = IF link.hang THEN handler
                          ELSE [handler EXCEPT ![c].req = frame,
                                               ![c].at = IF link.delay THEN "sleep" ELSE "handle"]
            /\ UNCHANGED <<conns, open>>
    /\ UNCHANGED <<others, seen>>

\* The peer is gone, or drop has closed the socket.
readFails(c) ==
    /\ handler[c].at = "read"
    /\ leave(c)
    /\ UNCHANGED <<others, frames, seen>>

sleeps(c) ==
    /\ handler[c].at = "sleep"
    /\ to(c, "handle")
    /\ UNCHANGED <<others, conns, open, frames, seen>>

-----------------------------------------------------------------------------
\* An FC06 frame is one register; the others carry a quantity.
Quantity(req) == IF "regs" \in DOMAIN req THEN Len(req.regs) ELSE req.qty

excIllegalFunction == 1
excIllegalDataAddress == 2
excIllegalDataValue == 3

\* handleRequest's refusals that look at nothing but the frame.
refuses(c) ==
    LET req == handler[c].req IN
    /\ handler[c].at = "handle"
    /\ \/ /\ req.fc \notin DOMAIN MaxQty
          /\ exceptionPDU(c, excIllegalFunction)
       \/ /\ req.fc \in DOMAIN MaxQty
          /\ Quantity(req) = 0 \/ Quantity(req) > MaxQty[req.fc]
          /\ exceptionPDU(c, excIllegalDataValue)
    /\ UNCHANGED <<others, conns, open, frames, seen>>

wellFormed(c, functions) ==
    LET req == handler[c].req IN
    /\ handler[c].at = "handle"
    /\ req.fc \in functions
    /\ Quantity(req) \in 1..MaxQty[req.fc]

\* handleReadBits takes the gate, then the store's read lock ...
bitsEnter(c) ==
    /\ wellFormed(c, {2})
    /\ GateOpen
    /\ to(c, "bits")
    /\ UNCHANGED <<others, conns, open, frames, seen>>

readBit(c) ==
    LET req == handler[c].req
        i == Len(handler[c].buf) IN
    /\ handler[c].at = "bits"
    /\ i < req.qty
    /\ handler' = [handler EXCEPT ![c].buf = Append(@, <<BitAt(Address(req, i))>>)]
    /\ UNCHANGED <<others, conns, open, frames, seen>>

\* ... handleReadRegisters linkCoord first.
registersCoord(c) ==
    /\ wellFormed(c, {3, 4})
    /\ CoordFree
    /\ to(c, "enter")
    /\ UNCHANGED <<others, conns, open, frames, seen>>

registersEnter(c) ==
    /\ handler[c].at = "enter"
    /\ GateOpen
    /\ to(c, "registers")
    /\ UNCHANGED <<others, conns, open, frames, seen>>

\* The next register: a point is resolved at its first register, and cached.
readRegister(c) ==
    LET h == handler[c]
        i == Len(h.buf)
        addr == Address(h.req, i) IN
    /\ h.at = "registers"
    /\ i < h.req.qty
    /\ IF SlotsAt(h.req.fc, addr) = {}
       THEN handler' = [handler EXCEPT ![c].buf = Append(@, <<0, 0>>)] /\ UNCHANGED seen
       ELSE LET s == TheSlot(h.req.fc, addr)
                pair == IF s.key \in DOMAIN h.cache THEN h.cache[s.key]
                        ELSE encodeRegisterPair(Visible(s.key), Order) IN
            /\ handler' = [handler EXCEPT ![c].buf = Append(@, pair[s.which + 1]),
                                          ![c].cache = put(@, s.key, pair)]
            /\ seen' = IF s.key = Heartbeat THEN decodeRegisterPair(pair, Order) ELSE seen
    /\ UNCHANGED <<others, conns, open, frames>>

\* The response is complete; the deferred unlocks.
answers(c) ==
    /\ handler[c].at \in {"bits", "registers"}
    /\ Len(handler[c].buf) = handler[c].req.qty
    /\ replyWith(c, handler[c].buf)
    /\ UNCHANGED <<others, conns, open, frames, seen>>

-----------------------------------------------------------------------------
\* applyRegisterWrites: the gate, then writeMu, for the whole read-modify-write.
writeGate(c) ==
    /\ wellFormed(c, {6, 16})
    /\ GateOpen
    /\ to(c, "writeMu")
    /\ UNCHANGED <<others, conns, open, frames, seen>>

writeLock(c) ==
    /\ handler[c].at = "writeMu"
    /\ WritesFree
    /\ to(c, "merge")
    /\ UNCHANGED <<others, conns, open, frames, seen>>

\* The next register overwrites its half of the point's current pair.
mergeRegister(c) ==
    LET h == handler[c]
        i == Len(h.buf)
        found == SlotsAt(3, Address(h.req, i)) IN
    /\ h.at = "merge"
    /\ IF found = {} THEN exceptionPDU(c, excIllegalDataAddress)
       ELSE LET s == CHOOSE s \in found : TRUE
                pair == IF s.key \in DOMAIN h.cache THEN h.cache[s.key]
                        ELSE encodeRegisterPair(value[s.key], Order)
                word == h.req.regs[i + 1] IN
            handler' = [handler EXCEPT
                          ![c].cache = put(@, s.key, [pair EXCEPT ![s.which + 1] = word]),
                          ![c].buf = Append(@, word),
                          ![c].at = IF i + 1 = Len(h.req.regs) THEN "commit" ELSE "merge"]
    /\ UNCHANGED <<others, conns, open, frames, seen>>

decoded(c) == [p \in DOMAIN handler[c].cache |-> decodeRegisterPair(handler[c].cache[p], Order)]

\* Mutant: every point is committed that is valid itself.
commitTheValid(c) ==
    LET new == decoded(c) IN
    /\ value' = [p \in Points |-> IF p \in DOMAIN new /\ new[p] \in Valid[p] THEN new[p]
                                                                             ELSE value[p]]
    /\ IF \A p \in DOMAIN new : new[p] \in Valid[p] THEN replyWith(c, handler[c].req.regs)
                                                    ELSE exceptionPDU(c, excIllegalDataValue)

commitBatch(new) == value' = [p \in Points |-> IF p \in DOMAIN new THEN new[p] ELSE value[p]]

\* Every touched point is validated before any is committed, as one batch.
validateAndCommit(c) ==
    LET new == decoded(c) IN
    IF \A p \in DOMAIN new : new[p] \in Valid[p]
    THEN commitBatch(new) /\ replyWith(c, handler[c].req.regs)
    ELSE UNCHANGED value /\ exceptionPDU(c, excIllegalDataValue)

commits(c) ==
    /\ handler[c].at = "commit"
    /\ StoreFree
    /\ validateAndCommit(c)
    /\ UNCHANGED <<link, iec, conns, open, accepting, coord, admin, reset, frames, ops, seen>>

\* conn.Write: on a socket that was closed it fails and ends the handler.
replies(c) ==
    /\ handler[c].at = "reply"
    /\ IF c \in open THEN handler' = [handler EXCEPT ![c] = idle] /\ UNCHANGED <<conns, open>>
                     ELSE leave(c)
    /\ UNCHANGED <<others, frames, seen>>

-----------------------------------------------------------------------------
\* A physics tick: its one SetBatch moves the heartbeat and the rest together.
Tick ==
    /\ GateOpen /\ StoreFree
    /\ value[Heartbeat] < MaxBeat
    /\ value' = [p \in Points |-> IF Catalog[p].class = 3 THEN value[p] ELSE value[Heartbeat] + 1]
    /\ UNCHANGED <<link, iec, conns, open, accepting, handler, coord, admin, reset, frames, ops,
                   seen>>

-----------------------------------------------------------------------------
\* ApplyCoordinated: under linkCoord the heartbeat is read once, for all targets.
linkBegins(op) ==
    /\ admin = noOp /\ ops < MaxOps
    /\ CoordFree
    /\ coord' = "link"
    /\ admin' = [at |-> "iec104", op |-> op,
                 captured |-> IF op.mode = "heartbeat_pause" THEN value[Heartbeat] ELSE 0]
    /\ ops' = ops + 1
    /\ UNCHANGED <<value, link, iec, conns, open, accepting, handler, reset, frames, seen>>

heartbeatValue == admin.captured

\* A server's Set and Clear methods.
applied(state, mode) ==
    CASE mode = "drop" -> [state EXCEPT !.drop = TRUE]
      [] mode = "hang" -> [state EXCEPT !.hang = TRUE]
      [] mode = "delay" -> [state EXCEPT !.delay = TRUE]
      [] mode = "heartbeat_pause" -> [state EXCEPT !.frozen = heartbeatValue]
      [] mode = "clear" -> NoFault

linkIec104 ==
    /\ admin.at = "iec104"
    /\ iec' = IF "iec104" \in admin.op.targets THEN applied(iec, admin.op.mode) ELSE iec
    /\ admin' = [admin EXCEPT !.at = "modbus"]
    /\ UNCHANGED <<value, link, conns, open, accepting, handler, coord, reset, frames, ops, seen>>

linkModbus ==
    /\ admin.at = "modbus"
    /\ link' = IF "modbus" \in admin.op.targets THEN applied(link, admin.op.mode) ELSE link
    /\ admin' = [admin EXCEPT !.at = "close"]
    /\ UNCHANGED <<value, iec, conns, open, accepting, handler, coord, reset, frames, ops, seen>>

\* SetDrop's second critical section closes what is registered; the end.
linkEnds ==
    /\ admin.at = "close"
    /\ open' = IF admin.op.mode = "drop" /\ "modbus" \in admin.op.targets THEN open \ conns ELSE open
    /\ coord' = None
    /\ admin' = noOp
    /\ UNCHANGED <<value, link, iec, conns, accepting, handler, reset, frames, ops, seen>>

\* POST /reset: linkCoord, then the gate's exclusive side.
resetCoord ==
    /\ reset = "idle" /\ ops < MaxOps
    /\ CoordFree
    /\ coord' = "reset"
    /\ reset' = "waits"
    /\ ops' = ops + 1
    /\ UNCHANGED <<value, link, iec, conns, open, accepting, handler, admin, frames, seen>>

resetEnters ==
    /\ reset = "waits"
    /\ GateEmpty
    /\ reset' = "restore"
    /\ UNCHANGED <<value, link, iec, conns, open, accepting, handler, coord, admin, frames, ops,
                   seen>>

resetRestores ==
    /\ reset = "restore"
    /\ value' = Startup
    /\ seen' = None
    /\ reset' = "clear"
    /\ UNCHANGED <<link, iec, conns, open, accepting, handler, coord, admin, frames, ops>>

resetClears ==
    /\ reset = "clear"
    /\ link' = NoFault /\ iec' = NoFault
    /\ coord' = None
    /\ reset' = "idle"
    /\ UNCHANGED <<value, conns, open, accepting, handler, admin, frames, ops, seen>>

-----------------------------------------------------------------------------
\* The steps of a handler that has a frame.
handleRequest(c) ==
    \/ sleeps(c) \/ refuses(c)
    \/ bitsEnter(c) \/ readBit(c)
    \/ registersCoord(c) \/ registersEnter(c) \/ readRegister(c) \/ answers(c)
    \/ writeGate(c) \/ writeLock(c) \/ mergeRegister(c) \/ commits(c)
    \/ replies(c)

handleConn(c) ==
    \/ \E frame \in Frames : Receive(c, frame)
    \/ readFails(c)
    \/ handleRequest(c)

linkOperation == (\E op \in LinkOps : linkBegins(op)) \/ linkIec104 \/ linkModbus \/ linkEnds

doReset == resetCoord \/ resetEnters \/ resetRestores \/ resetClears

Next ==
    \/ \E c \in Conns : Accept(c) \/ acceptLoop(c) \/ handleConn(c)
    \/ Tick
    \/ linkOperation
    \/ doReset

Spec == Init /\ [][Next]_vars

-----------------------------------------------------------------------------
\* "Decode(Encode(x)) == x for every mode" (codec.go), at every width, negative
\* numbers included, and through the pair of registers; what is written in one
\* byte order and read in the same one is the same number, as is every value
\* that the store comes to hold.
DecodeInvertsEncode ==
    /\ RoundTrips
    /\ \A p \in Points : decodeRegisterPair(encodeRegisterPair(value[p], Order), Order) = value[p]

\* A response under construction agrees, bit by bit and register by register,
\* with the state of the store and of the link as they are now: no tick, write,
\* pause or reset comes between two of its registers, so when it is complete it
\* is one instant's view (handleReadBits, handleReadRegisters).
ResponseIsOneInstant ==
    \A c \in Conns : \A i \in DOMAIN handler[c].buf :
        LET addr == Address(handler[c].req, i - 1) IN
        /\ handler[c].at = "bits" => handler[c].buf[i] = <<BitAt(addr)>>
        /\ handler[c].at = "registers" => handler[c].buf[i] = RegisterAt(handler[c].req.fc, addr)

\* The heartbeat never runs backwards between resets, through any pauses and
\* clears: a pause freezes it at a value that no client has seen exceeded
\* (ApplyCoordinated captures the value under linkCoord).
HeartbeatNeverGoesBack ==
    [][seen # None /\ seen' # None => seen' >= seen]_seen

\* A register changes only by a request that addressed it and was accepted, or
\* by a reset; an accepted request leaves every one of its registers as
\* written, and a refused one changes nothing (applyRegisterWrites).
registerOf(s, v) == encodeRegisterPair(v, Order)[s.which + 1]

accepts(c) == handler[c].at = "commit" /\ handler'[c].at = "reply" /\ handler'[c].exc = 0

WritesTouchOnlyTheirRegisters ==
    [][/\ value' # value => \A s \in slots :
            s.class = 3 /\ registerOf(s, value'[s.key]) # registerOf(s, value[s.key]) =>
              \/ reset = "restore"
              \/ \E c \in Conns : /\ accepts(c)
                                  /\ \E i \in DOMAIN handler[c].req.regs :
                                       Address(handler[c].req, i - 1) = s.addr
       /\ \A c \in Conns : accepts(c) =>
            \A i \in DOMAIN handler[c].req.regs :
            \A s \in SlotsAt(3, Address(handler[c].req, i - 1)) :
                registerOf(s, value'[s.key]) = handler[c].req.regs[i]]_<<value, handler>>

\* Once a drop is complete, and until it is cleared, no registered connection
\* has an open socket, whenever it was accepted (acceptLoop, SetDrop).
DropLeavesNobodyConnected == link.drop /\ admin.at # "close" => conns \cap open = {}

=============================================================================

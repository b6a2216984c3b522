---------------------------- MODULE FenceProofs ----------------------------
(***************************************************************************)
(* Proofs about HeartbeatFence, for any number of connections, link        *)
(* operations in flight, points, queue sizes and bounds: the pipeline is a *)
(* user of the store, so what is proved of the store holds of it; no       *)
(* channel overflows; what a pause froze never leaves; a drop closes       *)
(* everything; heartbeats arrive in order; only stale ones are discarded;  *)
(* and nothing stale follows a fence, if link operations do not overlap.   *)
(***************************************************************************)
EXTENDS HeartbeatFence, StoreProofs

Acks == Conns \X (1..MaxOps)

AdminRecord == [at : {"idle", "apply", "bump", "closeAll", "fence", "wait"},
                op : LinkOps \cup {None}, boundary : 0..MaxRev, awaits : SUBSET Acks]

\* What the link operations are at, and how many there have been: a barrier's
\* generation and a transition's number are within the bound.
AdminInv ==
    /\ drop \in BOOLEAN /\ hang \in BOOLEAN /\ hbFrozen \in BOOLEAN
    /\ boundary \in 0..MaxRev /\ fenced \in 0..MaxRev
    /\ coord \in Admins \cup {None}
    /\ admin \in [Admins -> AdminRecord]
    /\ pendingFenceAcks \subseteq Acks
    /\ ops \in 0..MaxOps /\ gen \in 0..ops
    /\ genOf \in [0..MaxRev -> 0..MaxOps]
    /\ \A a \in Admins :
         /\ admin[a].at \in {"apply", "bump", "closeAll"} => coord = a
         /\ admin[a].at # "idle" => ops > 0
         /\ admin[a].at = "apply" => gen < ops

\* A step that moves a's link operation, and no other.
Moves(a, from, to) ==
    /\ admin[a].at = from /\ admin'[a].at = to
    /\ admin' \in [Admins -> AdminRecord]
    /\ \A b \in Admins \ {a} : admin'[b] = admin[b]

\* The connections and the goroutines that serve them.
ConnInv ==
    /\ conns \subseteq Conns
    /\ open \in [Conns -> BOOLEAN]
    /\ peer \in [Conns -> {"up", "half", "down"}]
    /\ reader \in [Conns -> {"none", "read", "start", "stop", "close", "gone"}]
    /\ started \in [Conns -> BOOLEAN]
    /\ drop /\ (\A a \in Admins : admin[a].at # "closeAll") => \A c \in conns : ~open[c]

\* The Change in spontaneousLoop's hands is a change that the store has made.
LoopInv ==
    /\ loop \in [at : {"recv", "admit", "lock", "broadcast"},
                 change : Change \cup {None}, owes : SUBSET Conns]
    /\ loop.at = "admit" => loop.change \in Change /\ loop.change.rev <= rev

\* The heartbeats under way: hbLoop writes what it has in hand.
QueueInv ==
    /\ writer \in [Conns -> {None, "loop", "hbLoop", "reader"}]
    /\ hbQueue \in [Conns -> Seq(HbMsg)]
    /\ \A c \in Conns : Len(hbQueue[c]) <= HeartbeatQueueSize
    /\ inHand \in [Conns -> (1..MaxRev) \cup {None}]
    /\ \A c \in Conns : writer[c] = "hbLoop" => inHand[c] # None
    /\ acked \subseteq Acks
    /\ lastSent \in [Conns -> 0..MaxRev]

\* A revision is clean if it is the store's and was not committed under a pause.
Clean(r) == r <= rev /\ r \notin paused

\* What a pause froze is behind the boundary once the pause is over, or will be
\* as soon as the clear that ends it has moved the boundary; and nothing of it
\* is under way.
PauseInv ==
    /\ paused \subseteq 1..rev
    /\ ~hbFrozen => \A a \in Admins : admin[a].at = "bump" => \A r \in paused : r <= admin[a].boundary
    /\ ~hbFrozen /\ (\A a \in Admins : admin[a].at # "bump") => \A r \in paused : r <= boundary

CleanInv ==
    \A c \in Conns :
        /\ \A i \in DOMAIN hbQueue[c] : ~IsBarrier(hbQueue[c][i]) => Clean(hbQueue[c][i].frame)
        /\ inHand[c] # None => Clean(inHand[c])
        /\ Clean(lastSent[c])

FenceIInv == StoreIInv /\ AdminInv /\ ConnInv /\ LoopInv /\ QueueInv /\ PauseInv /\ CleanInv

-----------------------------------------------------------------------------

\* Every step of the pipeline is a step of the store, or leaves it alone.
LEMMA FenceStepStore == [FenceNext]_fenceVars => [Next]_storeVars
<1> SUFFICES ASSUME [FenceNext]_fenceVars PROVE [Next]_storeVars
  OBVIOUS
<1> USE FenceAssumption
<1>1. CASE UNCHANGED fenceVars
  BY <1>1 DEF fenceVars, storeVars
<1>2. CASE Start
  BY <1>2 DEF Start, Next
<1>3. CASE TickOnce
  <2>1. Tick \in Writers
    BY DEF Tick
  <2>2. [p \in Writable |-> Zero] \in [Writable -> Values] /\ Writable \in (SUBSET Writable) \ {{}}
    <3>1. Writable # {}
      OBVIOUS
    <3>2. [p \in Writable |-> Zero] \in [Writable -> Values]
      BY StoreAssumption
    <3> QED BY <3>1, <3>2
  <2>3. SetBatch(Tick, [p \in Writable |-> Zero])
    BY <1>3 DEF TickOnce
  <2>4. Mutate(Tick)
    BY <2>2, <2>3 DEF Mutate
  <2> QED BY <2>1, <2>4 DEF Next
<1>4. CASE Publish
  <2>1. Tick \in Writers
    BY DEF Tick
  <2> QED BY <1>4, <2>1 DEF Publish, Next
<1>5. CASE ReceiveNext
  BY <1>5 DEF ReceiveNext, Next
<1>6. CASE admitHeartbeat \/ broadcast \/ broadcastDone
  BY <1>6 DEF admitHeartbeat, broadcast, broadcastDone
<1>7. ASSUME NEW c \in Conns, hbLoop(c) \/ hbSend(c) \/ writeEnds(c) \/ handleConn(c)
                                \/ peerCloses(c) \/ broadcastTo(c)
      PROVE  UNCHANGED storeVars
  BY <1>7 DEF hbLoop, hbSend, writeEnds, handleConn, peerCloses, broadcastTo, acceptConn,
      readUFrame,
        startOrStopDataTransfer, cleanup, closeSocket
<1>8. ASSUME NEW a \in Admins, ApplyCoordinated(a) \/ FenceHeartbeat(a) \/ fenceReturns(a)
      PROVE  UNCHANGED storeVars
  BY <1>8 DEF ApplyCoordinated, FenceHeartbeat, fenceReturns, lockCoord, applyHeartbeatTransition,
        bumpHeartbeatGeneration, setDrop, closeAll, setHang
<1> QED BY <1>1, <1>2, <1>3, <1>4, <1>5, <1>6, <1>7, <1>8 DEF FenceNext, spontaneousLoop

\* The pipeline is one of the users that Store is written for.
THEOREM FenceImplementsStore == FenceSpec => Spec
<1>1. FenceInit => Init
  BY DEF FenceInit
<1> QED BY <1>1, FenceStepStore, PTL DEF FenceSpec, Spec

\* The store's revision: what StoreIInv says of it, and that it only grows.
LEMMA RevFacts ==
    ASSUME StoreIInv, StoreIInv'
    PROVE  rev \in 0..MaxRev /\ rev' \in 0..MaxRev /\ MaxRev \in Nat
BY StoreAssumption DEF StoreIInv, TypeOK

LEMMA TickCommits ==
    ASSUME TickOnce
    PROVE  rev' = rev + 1 /\ rev < MaxRev
BY DEF TickOnce, SetBatch, CommitLocked

\* The records of a link operation, as its steps make them.
LEMMA AdminRecords ==
    ASSUME NEW r \in AdminRecord
    PROVE  /\ [r EXCEPT !.at = "closeAll"] \in AdminRecord
           /\ [r EXCEPT !.at = "fence"] \in AdminRecord
           /\ \A n \in 0..MaxRev : [r EXCEPT !.at = "bump", !.boundary = n] \in AdminRecord
           /\ \A S \in SUBSET Acks : [r EXCEPT !.at = "wait", !.awaits = S] \in AdminRecord
BY DEF AdminRecord

LEMMA FreshRecords ==
    ASSUME MaxRev \in Nat
    PROVE  /\ idleAdmin \in AdminRecord
           /\ \A op \in LinkOps : [idleAdmin EXCEPT !.at = "apply", !.op = op] \in AdminRecord
<1>1. idleAdmin \in AdminRecord
  <2>1. 0 \in 0..MaxRev /\ {} \in SUBSET Acks
    OBVIOUS
  <2> QED BY <2>1 DEF idleAdmin, AdminRecord
<1>2. ASSUME NEW op \in LinkOps PROVE [idleAdmin EXCEPT !.at = "apply", !.op = op] \in AdminRecord
  BY <1>1 DEF AdminRecord
<1> QED BY <1>1, <1>2

\* Where each step of a link operation starts and ends.
LEMMA AdminMoves ==
    ASSUME StoreIInv, AdminInv, NEW a \in Admins
    PROVE  /\ lockCoord(a) => Moves(a, "idle", "apply")
           /\ applyHeartbeatTransition(a) => Moves(a, "apply", "bump") /\ admin'[a].boundary = rev
           /\ bumpHeartbeatGeneration(a) => Moves(a, "bump", "fence")
           /\ setDrop(a) => Moves(a, "apply", "closeAll")
           /\ closeAll(a) => Moves(a, "closeAll", "fence")
           /\ setHang(a) => Moves(a, "apply", "fence")
           /\ FenceHeartbeat(a) => Moves(a, "fence", "wait")
           /\ fenceReturns(a) => Moves(a, "wait", "idle")
<1>1. /\ admin \in [Admins -> AdminRecord] /\ admin[a] \in AdminRecord
      /\ rev \in 0..MaxRev /\ MaxRev \in Nat /\ pendingFenceAcks \in SUBSET Acks
  BY StoreAssumption DEF AdminInv, StoreIInv, TypeOK
<1>2. ASSUME NEW r \in AdminRecord, NEW from, NEW to,
             admin' = [admin EXCEPT ![a] = r], r.at = to, admin[a].at = from
      PROVE  Moves(a, from, to) /\ admin'[a] = r
  BY <1>1, <1>2 DEF Moves
<1>3. ASSUME lockCoord(a) PROVE Moves(a, "idle", "apply")
  <2>1. PICK op \in LinkOps : admin' = [admin EXCEPT ![a] = [idleAdmin EXCEPT !.at = "apply",
      !.op = op]]
    BY <1>3 DEF lockCoord
  <2> DEFINE r == [idleAdmin EXCEPT !.at = "apply", !.op = op]
  <2>2. admin[a].at = "idle"
    BY <1>3 DEF lockCoord
  <2>3. r \in AdminRecord
    BY <1>1, FreshRecords
  <2>4. r.at = "apply"
    BY DEF idleAdmin
  <2>5. admin' = [admin EXCEPT ![a] = r]
    BY <2>1
  <2> HIDE DEF r
  <2> QED BY <1>2, <2>2, <2>3, <2>4, <2>5
<1>4. ASSUME applyHeartbeatTransition(a) PROVE Moves(a, "apply", "bump") /\ admin'[a].boundary = rev
  <2> DEFINE r == [admin[a] EXCEPT !.at = "bump", !.boundary = rev]
  <2>1. admin' = [admin EXCEPT ![a] = r]
    BY <1>1, <1>4 DEF applyHeartbeatTransition
  <2>2. admin[a].at = "apply"
    BY <1>4 DEF applyHeartbeatTransition
  <2>3. r \in AdminRecord
    BY <1>1, AdminRecords
  <2>4. r.at = "bump" /\ r.boundary = rev
    BY <1>1 DEF AdminRecord
  <2> HIDE DEF r
  <2> QED BY <1>2, <2>1, <2>2, <2>3, <2>4
<1>5. ASSUME bumpHeartbeatGeneration(a) PROVE Moves(a, "bump", "fence")
  <2> DEFINE r == [admin[a] EXCEPT !.at = "fence"]
  <2>1. admin' = [admin EXCEPT ![a] = r]
    BY <1>1, <1>5 DEF bumpHeartbeatGeneration
  <2>2. admin[a].at = "bump"
    BY <1>5 DEF bumpHeartbeatGeneration
  <2>3. r \in AdminRecord
    BY <1>1, AdminRecords
  <2>4. r.at = "fence"
    BY <1>1 DEF AdminRecord
  <2> HIDE DEF r
  <2> QED BY <1>2, <2>1, <2>2, <2>3, <2>4
<1>6. ASSUME setDrop(a) PROVE Moves(a, "apply", "closeAll")
  <2> DEFINE r == [admin[a] EXCEPT !.at = "closeAll"]
  <2>1. admin' = [admin EXCEPT ![a] = r]
    BY <1>1, <1>6 DEF setDrop
  <2>2. admin[a].at = "apply"
    BY <1>6 DEF setDrop
  <2>3. r \in AdminRecord
    BY <1>1, AdminRecords
  <2>4. r.at = "closeAll"
    BY <1>1 DEF AdminRecord
  <2> HIDE DEF r
  <2> QED BY <1>2, <2>1, <2>2, <2>3, <2>4
<1>7. ASSUME closeAll(a) PROVE Moves(a, "closeAll", "fence")
  <2> DEFINE r == [admin[a] EXCEPT !.at = "fence"]
  <2>1. admin' = [admin EXCEPT ![a] = r]
    BY <1>1, <1>7 DEF closeAll
  <2>2. admin[a].at = "closeAll"
    BY <1>7 DEF closeAll
  <2>3. r \in AdminRecord
    BY <1>1, AdminRecords
  <2>4. r.at = "fence"
    BY <1>1 DEF AdminRecord
  <2> HIDE DEF r
  <2> QED BY <1>2, <2>1, <2>2, <2>3, <2>4
<1>8. ASSUME setHang(a) PROVE Moves(a, "apply", "fence")
  <2> DEFINE r == [admin[a] EXCEPT !.at = "fence"]
  <2>1. admin' = [admin EXCEPT ![a] = r]
    BY <1>1, <1>8 DEF setHang
  <2>2. admin[a].at = "apply"
    BY <1>8 DEF setHang
  <2>3. r \in AdminRecord
    BY <1>1, AdminRecords
  <2>4. r.at = "fence"
    BY <1>1 DEF AdminRecord
  <2> HIDE DEF r
  <2> QED BY <1>2, <2>1, <2>2, <2>3, <2>4
<1>9. ASSUME FenceHeartbeat(a) PROVE Moves(a, "fence", "wait")
  <2> DEFINE r == [admin[a] EXCEPT !.at = "wait", !.awaits = pendingFenceAcks]
  <2>1. admin' = [admin EXCEPT ![a] = r]
    BY <1>1, <1>9 DEF FenceHeartbeat
  <2>2. admin[a].at = "fence"
    BY <1>9 DEF FenceHeartbeat
  <2>3. r \in AdminRecord
    BY <1>1, AdminRecords
  <2>4. r.at = "wait"
    BY <1>1 DEF AdminRecord
  <2> HIDE DEF r
  <2> QED BY <1>2, <2>1, <2>2, <2>3, <2>4
<1>10. ASSUME fenceReturns(a) PROVE Moves(a, "wait", "idle")
  <2> DEFINE r == idleAdmin
  <2>1. admin' = [admin EXCEPT ![a] = r]
    BY <1>1, <1>10 DEF fenceReturns
  <2>2. admin[a].at = "wait"
    BY <1>10 DEF fenceReturns
  <2>3. r \in AdminRecord
    BY <1>1, FreshRecords
  <2>4. r.at = "idle"
    BY <1>1 DEF AdminRecord, idleAdmin
  <2> HIDE DEF r
  <2> QED BY <1>2, <2>1, <2>2, <2>3, <2>4
<1> QED BY <1>3, <1>4, <1>5, <1>6, <1>7, <1>8, <1>9, <1>10

\* One link operation at a time is applied, and each moves on as it must.
LEMMA AdminStep == StoreIInv /\ AdminInv /\ ConnInv /\ [FenceNext]_fenceVars => AdminInv'
<1> SUFFICES ASSUME StoreIInv, AdminInv, ConnInv, [FenceNext]_fenceVars PROVE AdminInv'
  OBVIOUS
<1> USE DEF AdminInv, AdminRecord, Acks
<1>1. CASE UNCHANGED fenceVars
  BY <1>1 DEF fenceVars, storeVars, linkVars, connVars, adminVars, auxVars
<1>2. CASE Start
  BY <1>2, FenceAssumption DEF Start, linkVars, connVars, adminVars, auxVars, Subscribe
<1>3. CASE TickOnce
  <2>1. rev + 1 \in 0..MaxRev /\ gen \in 0..MaxOps
    BY <1>3, TickCommits, FenceAssumption, StoreAssumption DEF StoreIInv, TypeOK
  <2>2. genOf' = [genOf EXCEPT ![rev + 1] = gen]
    BY <1>3 DEF TickOnce
  <2>3. genOf' \in [0..MaxRev -> 0..MaxOps]
    BY <2>1, <2>2
  <2>4. UNCHANGED <<linkVars, adminVars, gen>>
    BY <1>3 DEF TickOnce
  <2> QED BY <2>3, <2>4 DEF linkVars, adminVars
<1>4. CASE Publish
  BY <1>4, FenceAssumption DEF Publish, linkVars, connVars, adminVars, auxVars, publish
<1>5. CASE ReceiveNext
  BY <1>5, FenceAssumption DEF ReceiveNext, linkVars, connVars, adminVars, auxVars, idleLoop,
      ReceiveChange
<1>6. CASE admitHeartbeat
  BY <1>6, FenceAssumption DEF admitHeartbeat, storeVars, linkVars, adminVars, auxVars, idleLoop,
      enqueueOrDisconnect
<1>7. CASE broadcast
  BY <1>7, FenceAssumption DEF broadcast, storeVars, linkVars, connVars, adminVars, auxVars
<1>8. CASE broadcastDone
  BY <1>8, FenceAssumption DEF broadcastDone, storeVars, linkVars, connVars, adminVars, auxVars,
      idleLoop
<1>9. ASSUME NEW c \in Conns,
    hbLoop(c) \/ hbSend(c) \/ writeEnds(c) \/ handleConn(c) \/ peerCloses(c) \/ broadcastTo(c) PROVE AdminInv'
  <2>1. CASE broadcastTo(c)
    BY <2>1, FenceAssumption DEF broadcastTo, storeVars, linkVars, adminVars, auxVars
  <2>2. CASE hbLoop(c)
    BY <2>2, FenceAssumption DEF hbLoop, storeVars, linkVars, adminVars, auxVars
  <2>3. CASE hbSend(c)
    BY <2>3, FenceAssumption DEF hbSend, storeVars, linkVars, adminVars, auxVars
  <2>4. CASE writeEnds(c)
    BY <2>4, FenceAssumption DEF writeEnds, storeVars, linkVars, adminVars, auxVars
  <2>5. CASE acceptConn(c)
    BY <2>5, FenceAssumption DEF acceptConn, storeVars, linkVars, adminVars, auxVars
  <2>6. CASE readUFrame(c)
    BY <2>6, FenceAssumption DEF readUFrame, storeVars, linkVars, adminVars, auxVars
  <2>7. CASE startOrStopDataTransfer(c)
    BY <2>7, FenceAssumption DEF startOrStopDataTransfer, storeVars, linkVars, adminVars, auxVars
  <2>8. CASE cleanup(c)
    BY <2>8, FenceAssumption DEF cleanup, storeVars, linkVars, adminVars, auxVars
  <2>9. CASE closeSocket(c)
    BY <2>9, FenceAssumption DEF closeSocket, storeVars, linkVars, adminVars, auxVars
  <2>10. CASE peerCloses(c)
    BY <2>10, FenceAssumption DEF peerCloses, storeVars, linkVars, adminVars, auxVars
  <2> QED BY <1>9, <2>1, <2>2, <2>3, <2>4, <2>5, <2>6, <2>7, <2>8, <2>9, <2>10 DEF handleConn
<1>10. ASSUME NEW a \in Admins,
    ApplyCoordinated(a) \/ FenceHeartbeat(a) \/ fenceReturns(a) PROVE AdminInv'
  <2>1. CASE lockCoord(a)
    <3>1. Moves(a, "idle", "apply")
      BY <2>1, AdminMoves DEF StoreIInv, TypeOK
    <3> QED BY <2>1, <3>1, FenceAssumption DEF lockCoord, storeVars, linkVars, connVars, auxVars,
        Moves
  <2>2. CASE applyHeartbeatTransition(a)
    <3>1. Moves(a, "apply", "bump")
      BY <2>2, AdminMoves
    <3>2. drop' \in BOOLEAN /\ hang' \in BOOLEAN /\ hbFrozen' \in BOOLEAN
      BY <2>2, Zenon DEF applyHeartbeatTransition
    <3>3. coord = a /\ gen < ops /\ gen' = gen + 1
      BY <2>2 DEF applyHeartbeatTransition
    <3>4. UNCHANGED <<boundary, coord, pendingFenceAcks, ops, fenced, genOf>>
      BY <2>2 DEF applyHeartbeatTransition
    <3>5. gen' \in 0..ops'
      BY <3>3, <3>4, FenceAssumption
    <3>6. \A b \in Admins \ {a} : admin'[b].at = admin[b].at /\ admin'[b].at # "apply"
      BY <3>1, <3>3 DEF Moves
    <3>7. admin' \in [Admins -> AdminRecord] /\ admin'[a].at = "bump" /\ ops > 0
      BY <3>1 DEF Moves
    <3> QED BY <3>2, <3>3, <3>4, <3>5, <3>6, <3>7
  <2>3. CASE bumpHeartbeatGeneration(a)
    <3>1. Moves(a, "bump", "fence")
      BY <2>3, AdminMoves
    <3>2. coord = a /\ ops \in 1..MaxOps /\ admin[a] \in AdminRecord
      BY <2>3, FenceAssumption DEF bumpHeartbeatGeneration
    <3>3. boundary' \in 0..MaxRev
      BY <2>3, <3>2 DEF bumpHeartbeatGeneration
    <3>4. barriersOf(ops) \subseteq Acks /\ pendingFenceAcks' \subseteq Acks
      BY <2>3, <3>2 DEF bumpHeartbeatGeneration, barriersOf, ConnInv
    <3>5. coord' = None /\ UNCHANGED <<drop, hang, hbFrozen, ops, fenced, gen, genOf>>
      BY <2>3 DEF bumpHeartbeatGeneration, auxVars
    <3>6. \A b \in Admins : admin'[b].at \notin {"apply", "bump", "closeAll"} /\ ops > 0
      BY <3>1, <3>2 DEF Moves
    <3>7. admin' \in [Admins -> AdminRecord]
      BY <3>1 DEF Moves
    <3> QED BY <3>3, <3>4, <3>5, <3>6, <3>7
  <2>4. CASE setDrop(a)
    <3>1. Moves(a, "apply", "closeAll")
      BY <2>4, AdminMoves DEF StoreIInv, TypeOK
    <3> QED BY <2>4, <3>1, FenceAssumption DEF setDrop, storeVars, connVars, auxVars, Moves
  <2>5. CASE closeAll(a)
    <3>1. Moves(a, "closeAll", "fence")
      BY <2>5, AdminMoves DEF StoreIInv, TypeOK
    <3> QED BY <2>5, <3>1, FenceAssumption DEF closeAll, storeVars, linkVars, auxVars, Moves
  <2>6. CASE setHang(a)
    <3>1. Moves(a, "apply", "fence")
      BY <2>6, AdminMoves DEF StoreIInv, TypeOK
    <3> QED BY <2>6, <3>1, FenceAssumption DEF setHang, storeVars, connVars, auxVars, Moves
  <2>7. CASE FenceHeartbeat(a)
    <3>1. Moves(a, "fence", "wait")
      BY <2>7, AdminMoves DEF StoreIInv, TypeOK
    <3> QED BY <2>7, <3>1, FenceAssumption DEF FenceHeartbeat, storeVars, linkVars, connVars,
        auxVars, Moves
  <2>8. CASE fenceReturns(a)
    <3>1. Moves(a, "wait", "idle")
      BY <2>8, AdminMoves DEF StoreIInv, TypeOK
    <3> QED BY <2>8, <3>1, FenceAssumption DEF fenceReturns, storeVars, linkVars, connVars,
        auxVars, Moves
  <2> QED BY <1>10, <2>1, <2>2, <2>3, <2>4, <2>5, <2>6, <2>7, <2>8 DEF ApplyCoordinated
<1> QED BY <1>1, <1>2, <1>3, <1>4, <1>5, <1>6, <1>7, <1>8, <1>9, <1>10 DEF FenceNext,
    spontaneousLoop

\* Nobody is registered under a drop that has closed what it found.
LEMMA ConnStep == StoreIInv /\ AdminInv /\ ConnInv /\ [FenceNext]_fenceVars => ConnInv'
<1> SUFFICES ASSUME StoreIInv, AdminInv, ConnInv, [FenceNext]_fenceVars PROVE ConnInv'
  OBVIOUS
<1> USE DEF ConnInv
<1>1. CASE UNCHANGED fenceVars
  BY <1>1 DEF fenceVars, storeVars, linkVars, connVars, adminVars, auxVars
<1>2. CASE Start
  BY <1>2, FenceAssumption DEF Start, linkVars, connVars, adminVars, auxVars, Subscribe
<1>3. CASE TickOnce
  BY <1>3, FenceAssumption DEF TickOnce, linkVars, connVars, adminVars, SetBatch, CommitLocked
<1>4. CASE Publish
  BY <1>4, FenceAssumption DEF Publish, linkVars, connVars, adminVars, auxVars, publish
<1>5. CASE ReceiveNext
  BY <1>5, FenceAssumption DEF ReceiveNext, linkVars, connVars, adminVars, auxVars, idleLoop,
      ReceiveChange
<1>6. CASE admitHeartbeat
  BY <1>6, FenceAssumption DEF admitHeartbeat, storeVars, linkVars, adminVars, auxVars, idleLoop,
      enqueueOrDisconnect
<1>7. CASE broadcast
  BY <1>7, FenceAssumption DEF broadcast, storeVars, linkVars, connVars, adminVars, auxVars
<1>8. CASE broadcastDone
  BY <1>8, FenceAssumption DEF broadcastDone, storeVars, linkVars, connVars, adminVars, auxVars,
      idleLoop
<1>9. ASSUME NEW c \in Conns,
    hbLoop(c) \/ hbSend(c) \/ writeEnds(c) \/ handleConn(c) \/ peerCloses(c) \/ broadcastTo(c) PROVE ConnInv'
  <2>1. CASE broadcastTo(c)
    BY <2>1, FenceAssumption DEF broadcastTo, storeVars, linkVars, adminVars, auxVars
  <2>2. CASE hbLoop(c)
    BY <2>2, FenceAssumption DEF hbLoop, storeVars, linkVars, adminVars, auxVars
  <2>3. CASE hbSend(c)
    BY <2>3, FenceAssumption DEF hbSend, storeVars, linkVars, adminVars, auxVars
  <2>4. CASE writeEnds(c)
    <3>1. PICK written \in {open[c], FALSE} : open' = [open EXCEPT ![c] = written]
      BY <2>4 DEF writeEnds
    <3>2. started' \in [Conns -> BOOLEAN] /\ reader' \in [Conns -> {"none", "read", "start",
        "stop", "close", "gone"}]
      BY <2>4 DEF writeEnds
    <3>3. UNCHANGED <<drop, conns, peer, admin>>
      BY <2>4 DEF writeEnds, linkVars, adminVars
    <3> QED BY <3>1, <3>2, <3>3
  <2>5. CASE acceptConn(c)
    <3>1. CASE drop
      BY <2>5, <3>1 DEF acceptConn, linkVars, adminVars
    <3>2. CASE ~drop
      BY <2>5, <3>2 DEF acceptConn, linkVars, adminVars
    <3> QED BY <3>1, <3>2
  <2>6. CASE readUFrame(c)
    BY <2>6, FenceAssumption DEF readUFrame, storeVars, linkVars, adminVars, auxVars
  <2>7. CASE startOrStopDataTransfer(c)
    BY <2>7, FenceAssumption DEF startOrStopDataTransfer, storeVars, linkVars, adminVars, auxVars
  <2>8. CASE cleanup(c)
    BY <2>8, FenceAssumption DEF cleanup, storeVars, linkVars, adminVars, auxVars
  <2>9. CASE closeSocket(c)
    BY <2>9, FenceAssumption DEF closeSocket, storeVars, linkVars, adminVars, auxVars
  <2>10. CASE peerCloses(c)
    BY <2>10, FenceAssumption DEF peerCloses, storeVars, linkVars, adminVars, auxVars
  <2> QED BY <1>9, <2>1, <2>2, <2>3, <2>4, <2>5, <2>6, <2>7, <2>8, <2>9, <2>10 DEF handleConn
<1>10. ASSUME NEW a \in Admins,
    ApplyCoordinated(a) \/ FenceHeartbeat(a) \/ fenceReturns(a) PROVE ConnInv'
  <2>1. CASE lockCoord(a)
    <3>1. Moves(a, "idle", "apply")
      BY <2>1, AdminMoves
    <3> QED BY <2>1, <3>1, FenceAssumption DEF lockCoord, storeVars, linkVars, connVars, auxVars,
        Moves
  <2>2. CASE applyHeartbeatTransition(a)
    <3>1. Moves(a, "apply", "bump")
      BY <2>2, AdminMoves
    <3> QED BY <2>2, <3>1, FenceAssumption DEF applyHeartbeatTransition, storeVars, connVars, Moves
  <2>3. CASE bumpHeartbeatGeneration(a)
    <3>1. Moves(a, "bump", "fence")
      BY <2>3, AdminMoves
    <3> QED BY <2>3, <3>1, FenceAssumption DEF bumpHeartbeatGeneration, storeVars, auxVars,
        enqueueOrDisconnect, Moves
  <2>4. CASE setDrop(a)
    <3>1. Moves(a, "apply", "closeAll")
      BY <2>4, AdminMoves
    <3> QED BY <2>4, <3>1, FenceAssumption DEF setDrop, storeVars, connVars, auxVars, Moves
  <2>5. CASE closeAll(a)
    <3>1. Moves(a, "closeAll", "fence")
      BY <2>5, AdminMoves
    <3> QED BY <2>5, <3>1, FenceAssumption DEF closeAll, storeVars, linkVars, auxVars, Moves
  <2>6. CASE setHang(a)
    <3>1. Moves(a, "apply", "fence")
      BY <2>6, AdminMoves
    <3> QED BY <2>6, <3>1, FenceAssumption DEF setHang, storeVars, connVars, auxVars, Moves
  <2>7. CASE FenceHeartbeat(a)
    <3>1. Moves(a, "fence", "wait")
      BY <2>7, AdminMoves
    <3> QED BY <2>7, <3>1, FenceAssumption DEF FenceHeartbeat, storeVars, linkVars, connVars,
        auxVars, Moves
  <2>8. CASE fenceReturns(a)
    <3>1. Moves(a, "wait", "idle")
      BY <2>8, AdminMoves
    <3> QED BY <2>8, <3>1, FenceAssumption DEF fenceReturns, storeVars, linkVars, connVars,
        auxVars, Moves
  <2> QED BY <1>10, <2>1, <2>2, <2>3, <2>4, <2>5, <2>6, <2>7, <2>8 DEF ApplyCoordinated
<1> QED BY <1>1, <1>2, <1>3, <1>4, <1>5, <1>6, <1>7, <1>8, <1>9, <1>10 DEF FenceNext,
    spontaneousLoop

\* spontaneousLoop takes what the store has published.
LEMMA LoopStep == StoreIInv /\ ConnInv /\ LoopInv /\ [FenceNext]_fenceVars => LoopInv'
<1> SUFFICES ASSUME StoreIInv, ConnInv, LoopInv, [FenceNext]_fenceVars PROVE LoopInv'
  OBVIOUS
<1> USE DEF LoopInv
<1>1. CASE UNCHANGED fenceVars
  BY <1>1 DEF fenceVars, storeVars, linkVars, connVars, adminVars, auxVars
<1>2. CASE Start
  BY <1>2, FenceAssumption DEF Start, linkVars, connVars, adminVars, auxVars, Subscribe
<1>3. CASE TickOnce
  <2>1. loop' = loop /\ rev' = rev + 1 /\ rev \in Nat
    BY <1>3, TickCommits, StoreAssumption DEF TickOnce, StoreIInv, TypeOK
  <2> QED BY <2>1 DEF Change
<1>4. CASE Publish
  BY <1>4, FenceAssumption DEF Publish, linkVars, connVars, adminVars, auxVars, publish
<1>5. CASE ReceiveNext
  <2> DEFINE change == Head(subQ[Feed])
  <2>1. subQ[Feed] \in Seq(Change) /\ subQ[Feed] # << >>
    BY <1>5, FenceAssumption DEF ReceiveNext, ReceiveChange, StoreIInv, TypeOK
  <2>2. change = subQ[Feed][1] /\ 1 \in DOMAIN subQ[Feed] /\ change \in Change
    BY <2>1
  <2>3. change.rev <= rev
    BY <2>2, FenceAssumption DEF StoreIInv, ChangesAreStamped
  <2>4. rev' = rev /\ \E place \in {"admit",
      "lock"} : loop' = [idleLoop EXCEPT !.change = change, !.at = place]
    BY <1>5 DEF ReceiveNext, ReceiveChange
  <2> HIDE DEF change
  <2> QED BY <2>2, <2>3, <2>4 DEF idleLoop
<1>6. CASE admitHeartbeat
  BY <1>6, FenceAssumption DEF admitHeartbeat, storeVars, linkVars, adminVars, auxVars, idleLoop,
      enqueueOrDisconnect
<1>7. CASE broadcast
  <2>1. loop' = [loop EXCEPT !.at = "broadcast", !.owes = conns] /\ conns \in SUBSET Conns
    BY <1>7 DEF broadcast, ConnInv
  <2> QED BY <1>7, <2>1 DEF broadcast, storeVars
<1>8. CASE broadcastDone
  BY <1>8, FenceAssumption DEF broadcastDone, storeVars, linkVars, connVars, adminVars, auxVars,
      idleLoop
<1>9. ASSUME NEW c \in Conns,
    hbLoop(c) \/ hbSend(c) \/ writeEnds(c) \/ handleConn(c) \/ peerCloses(c) \/ broadcastTo(c) PROVE LoopInv'
  <2>1. CASE broadcastTo(c)
    BY <2>1, FenceAssumption DEF broadcastTo, storeVars, linkVars, adminVars, auxVars
  <2>2. CASE hbLoop(c)
    BY <2>2, FenceAssumption DEF hbLoop, storeVars, linkVars, adminVars, auxVars
  <2>3. CASE hbSend(c)
    BY <2>3, FenceAssumption DEF hbSend, storeVars, linkVars, adminVars, auxVars
  <2>4. CASE writeEnds(c)
    BY <2>4, FenceAssumption DEF writeEnds, storeVars, linkVars, adminVars, auxVars
  <2>5. CASE acceptConn(c)
    BY <2>5, FenceAssumption DEF acceptConn, storeVars, linkVars, adminVars, auxVars
  <2>6. CASE readUFrame(c)
    BY <2>6, FenceAssumption DEF readUFrame, storeVars, linkVars, adminVars, auxVars
  <2>7. CASE startOrStopDataTransfer(c)
    BY <2>7, FenceAssumption DEF startOrStopDataTransfer, storeVars, linkVars, adminVars, auxVars
  <2>8. CASE cleanup(c)
    BY <2>8, FenceAssumption DEF cleanup, storeVars, linkVars, adminVars, auxVars
  <2>9. CASE closeSocket(c)
    BY <2>9, FenceAssumption DEF closeSocket, storeVars, linkVars, adminVars, auxVars
  <2>10. CASE peerCloses(c)
    BY <2>10, FenceAssumption DEF peerCloses, storeVars, linkVars, adminVars, auxVars
  <2> QED BY <1>9, <2>1, <2>2, <2>3, <2>4, <2>5, <2>6, <2>7, <2>8, <2>9, <2>10 DEF handleConn
<1>10. ASSUME NEW a \in Admins,
    ApplyCoordinated(a) \/ FenceHeartbeat(a) \/ fenceReturns(a) PROVE LoopInv'
  <2>1. CASE lockCoord(a)
    BY <2>1, FenceAssumption DEF lockCoord, storeVars, linkVars, connVars, auxVars, idleAdmin
  <2>2. CASE applyHeartbeatTransition(a)
    BY <2>2, FenceAssumption DEF applyHeartbeatTransition, storeVars, connVars
  <2>3. CASE bumpHeartbeatGeneration(a)
    BY <2>3, FenceAssumption DEF bumpHeartbeatGeneration, storeVars, auxVars, enqueueOrDisconnect
  <2>4. CASE setDrop(a)
    BY <2>4, FenceAssumption DEF setDrop, storeVars, connVars, auxVars
  <2>5. CASE closeAll(a)
    BY <2>5, FenceAssumption DEF closeAll, storeVars, linkVars, auxVars
  <2>6. CASE setHang(a)
    BY <2>6, FenceAssumption DEF setHang, storeVars, connVars, auxVars
  <2>7. CASE FenceHeartbeat(a)
    BY <2>7, FenceAssumption DEF FenceHeartbeat, storeVars, linkVars, connVars, auxVars
  <2>8. CASE fenceReturns(a)
    BY <2>8, FenceAssumption DEF fenceReturns, storeVars, linkVars, connVars, auxVars, idleAdmin
  <2> QED BY <1>10, <2>1, <2>2, <2>3, <2>4, <2>5, <2>6, <2>7, <2>8 DEF ApplyCoordinated
<1> QED BY <1>1, <1>2, <1>3, <1>4, <1>5, <1>6, <1>7, <1>8, <1>9, <1>10 DEF FenceNext,
    spontaneousLoop

-----------------------------------------------------------------------------
\* What a heartbeat channel carries.
LEMMA Messages ==
    /\ \A r \in 1..MaxRev : Frame(r) \in HbMsg /\ ~IsBarrier(Frame(r)) /\ Frame(r).frame = r
    /\ \A c \in Conns, n \in 1..MaxOps : Barrier(c, n) \in HbMsg /\ IsBarrier(Barrier(c, n))
    /\ \A m \in HbMsg : IF IsBarrier(m) THEN m.ack \in Acks ELSE m.frame \in 1..MaxRev
BY DEF HbMsg, Frame, Barrier, IsBarrier, Acks

\* An entry of a channel after a send is an older one, or what was sent.
LEMMA Appended ==
    ASSUME NEW M, NEW q \in Seq(M), NEW m \in M
    PROVE  /\ Append(q, m) \in Seq(M) /\ Len(Append(q, m)) = Len(q) + 1
           /\ \A i \in DOMAIN Append(q, m) :
                \/ Append(q, m)[i] = m
                \/ i \in DOMAIN q /\ Append(q, m)[i] = q[i]
OBVIOUS

\* A send that finds room leaves no channel too full, and what finds none is
\* not sent.
LEMMA Enqueued ==
    ASSUME QueueInv, NEW msgs \in [Conns -> HbMsg], enqueueOrDisconnect(msgs)
    PROVE  /\ hbQueue' \in [Conns -> Seq(HbMsg)]
           /\ \A c \in Conns :
                /\ Len(hbQueue'[c]) <= HeartbeatQueueSize
                /\ \A i \in DOMAIN hbQueue'[c] :
                     \/ hbQueue'[c][i] = msgs[c]
                     \/ i \in DOMAIN hbQueue[c] /\ hbQueue'[c][i] = hbQueue[c][i]
<1>1. hbQueue' = [c \in Conns |->
                    IF c \in conns /\ ~Full(c) THEN Append(hbQueue[c], msgs[c]) ELSE hbQueue[c]]
  BY DEF enqueueOrDisconnect
<1>2. ASSUME NEW c \in Conns
      PROVE  /\ hbQueue'[c] \in Seq(HbMsg)
             /\ Len(hbQueue'[c]) <= HeartbeatQueueSize
             /\ \A i \in DOMAIN hbQueue'[c] :
                  \/ hbQueue'[c][i] = msgs[c]
                  \/ i \in DOMAIN hbQueue[c] /\ hbQueue'[c][i] = hbQueue[c][i]
  <2>1. hbQueue[c] \in Seq(HbMsg) /\ msgs[c] \in HbMsg /\ Len(hbQueue[c]) <= HeartbeatQueueSize
    BY DEF QueueInv
  <2>2. CASE hbQueue'[c] = hbQueue[c]
    BY <2>1, <2>2
  <2>3. CASE ~Full(c) /\ hbQueue'[c] = Append(hbQueue[c], msgs[c])
    <3>1. Len(hbQueue[c]) < HeartbeatQueueSize /\ Len(hbQueue[c]) \in Nat
      BY <2>1, <2>3, FenceAssumption DEF Full
    <3>2. Len(Append(hbQueue[c], msgs[c])) = Len(hbQueue[c]) + 1
      BY <2>1, Appended
    <3>3. Len(hbQueue'[c]) <= HeartbeatQueueSize
      BY <2>3, <3>1, <3>2, FenceAssumption
    <3> QED BY <2>1, <2>3, <3>3, Appended
  <2> QED BY <1>1, <2>2, <2>3
<1>3. hbQueue' \in [Conns -> Seq(HbMsg)]
  BY <1>1, <1>2
<1> QED BY <1>2, <1>3

\* hbLoop takes the oldest message.
LEMMA Dequeued ==
    ASSUME QueueInv, NEW c \in Conns, hbLoop(c)
    PROVE  /\ hbQueue' \in [Conns -> Seq(HbMsg)]
           /\ Head(hbQueue[c]) = hbQueue[c][1] /\ 1 \in DOMAIN hbQueue[c]
           /\ Head(hbQueue[c]) \in HbMsg
           /\ \A d \in Conns :
                /\ Len(hbQueue'[d]) <= HeartbeatQueueSize
                /\ \A i \in DOMAIN hbQueue'[d] : \E j \in DOMAIN hbQueue[d] :
                     hbQueue'[d][i] = hbQueue[d][j]
<1>1. hbQueue[c] \in Seq(HbMsg) /\ hbQueue[c] # << >>
      /\ hbQueue' = [hbQueue EXCEPT ![c] = Tail(hbQueue[c])] /\ hbQueue \in [Conns -> Seq(HbMsg)]
  BY DEF hbLoop, QueueInv
<1>2. /\ Tail(hbQueue[c]) \in Seq(HbMsg) /\ Len(Tail(hbQueue[c])) = Len(hbQueue[c]) - 1
      /\ \A i \in DOMAIN Tail(hbQueue[c]) :
           i + 1 \in DOMAIN hbQueue[c] /\ Tail(hbQueue[c])[i] = hbQueue[c][i + 1]
  BY <1>1, TailFacts
<1>3. Head(hbQueue[c]) = hbQueue[c][1] /\ 1 \in DOMAIN hbQueue[c] /\ Head(hbQueue[c]) \in HbMsg
      /\ Len(hbQueue[c]) \in Nat
  BY <1>1
<1>4. Len(Tail(hbQueue[c])) <= HeartbeatQueueSize
  BY <1>2, <1>3, FenceAssumption DEF QueueInv
<1>5. hbQueue'[c] = Tail(hbQueue[c]) /\ \A d \in Conns \ {c} : hbQueue'[d] = hbQueue[d]
  BY <1>1
<1>6. hbQueue' \in [Conns -> Seq(HbMsg)]
  BY <1>1, <1>2
<1>7. ASSUME NEW d \in Conns
      PROVE  /\ Len(hbQueue'[d]) <= HeartbeatQueueSize
             /\ \A i \in DOMAIN hbQueue'[d] : \E j \in DOMAIN hbQueue[d] :
                  hbQueue'[d][i] = hbQueue[d][j]
  <2>1. CASE d = c
    BY <1>2, <1>4, <1>5, <2>1
  <2>2. CASE d # c
    BY <1>5, <2>2 DEF QueueInv
  <2> QED BY <2>1, <2>2
<1> QED BY <1>3, <1>6, <1>7

\* The messages that a step of admitHeartbeat or of a bump sends.
LEMMA Sent ==
    ASSUME QueueInv
    PROVE  /\ \A r \in 1..MaxRev : [c \in Conns |-> Frame(r)] \in [Conns -> HbMsg]
           /\ \A n \in 1..MaxOps : [c \in Conns |-> Barrier(c, n)] \in [Conns -> HbMsg]
BY Messages

\* No channel is sent more than it holds, and what it carries is a message.
LEMMA QueueStep == AdminInv /\ ConnInv /\ LoopInv /\ QueueInv /\ [FenceNext]_fenceVars => QueueInv'
<1> SUFFICES ASSUME AdminInv, ConnInv, LoopInv, QueueInv, [FenceNext]_fenceVars PROVE QueueInv'
  OBVIOUS
<1> USE DEF QueueInv
<1>1. CASE UNCHANGED fenceVars
  BY <1>1 DEF fenceVars, storeVars, linkVars, connVars, adminVars, auxVars
<1>2. CASE Start
  BY <1>2, FenceAssumption DEF Start, linkVars, connVars, adminVars, auxVars, Subscribe
<1>3. CASE TickOnce
  BY <1>3, FenceAssumption DEF TickOnce, linkVars, connVars, adminVars, SetBatch, CommitLocked
<1>4. CASE Publish
  BY <1>4, FenceAssumption DEF Publish, linkVars, connVars, adminVars, auxVars, publish
<1>5. CASE ReceiveNext
  BY <1>5, FenceAssumption DEF ReceiveNext, linkVars, connVars, adminVars, auxVars, idleLoop,
      ReceiveChange
<1>6. CASE admitHeartbeat
  <2>1. CASE Discards(loop.change)
    BY <1>6, <2>1 DEF admitHeartbeat
  <2>2. CASE ~Discards(loop.change)
    <3>1. loop.change.rev \in 1..MaxRev
      BY <1>6 DEF admitHeartbeat, LoopInv, Change
    <3>2. enqueueOrDisconnect([c \in Conns |-> Frame(loop.change.rev)])
          /\ [c \in Conns |-> Frame(loop.change.rev)] \in [Conns -> HbMsg]
      BY <1>6, <2>2, <3>1, Sent DEF admitHeartbeat
    <3> QED BY <1>6, <3>2, Enqueued DEF admitHeartbeat
  <2> QED BY <2>1, <2>2
<1>7. CASE broadcast
  BY <1>7, FenceAssumption DEF broadcast, storeVars, linkVars, connVars, adminVars, auxVars
<1>8. CASE broadcastDone
  BY <1>8, FenceAssumption DEF broadcastDone, storeVars, linkVars, connVars, adminVars, auxVars,
      idleLoop
<1>9. ASSUME NEW c \in Conns,
    hbLoop(c) \/ hbSend(c) \/ writeEnds(c) \/ handleConn(c) \/ peerCloses(c) \/ broadcastTo(c) PROVE QueueInv'
  <2>1. CASE broadcastTo(c)
    BY <2>1, FenceAssumption DEF broadcastTo, storeVars, linkVars, adminVars, auxVars
  <2>2. CASE hbLoop(c)
    <3> DEFINE m == Head(hbQueue[c])
    <3>1. m \in HbMsg /\ hbQueue' \in [Conns -> Seq(HbMsg)]
          /\ \A d \in Conns : Len(hbQueue'[d]) <= HeartbeatQueueSize
      BY <2>2, Dequeued
    <3>2. inHand[c] = None /\ writer' = writer /\ lastSent' = lastSent
          /\ IF IsBarrier(m) THEN acked' = acked \cup {m.ack} /\ inHand' = inHand
                             ELSE inHand' = [inHand EXCEPT ![c] = m.frame] /\ acked' = acked
      BY <2>2 DEF hbLoop
    <3>3. IF IsBarrier(m) THEN m.ack \in Acks ELSE m.frame \in 1..MaxRev
      BY <3>1, Messages
    <3> HIDE DEF m
    <3>4. acked' \subseteq Acks /\ inHand' \in [Conns -> (1..MaxRev) \cup {None}]
      BY <3>2, <3>3
    <3>5. \A d \in Conns : writer[d] = "hbLoop" => inHand'[d] # None
      BY <3>2
    <3> QED BY <3>1, <3>2, <3>4, <3>5
  <2>3. CASE hbSend(c)
    BY <2>3, FenceAssumption DEF hbSend, storeVars, linkVars, adminVars, auxVars
  <2>4. CASE writeEnds(c)
    <3>1. PICK written \in BOOLEAN :
                lastSent' = IF writer[c] = "hbLoop" /\ written /\ peer[c] # "down"
                            THEN [lastSent EXCEPT ![c] = inHand[c]] ELSE lastSent
      BY <2>4 DEF writeEnds, ConnInv
    <3>2. lastSent' \in [Conns -> 0..MaxRev]
      BY <3>1
    <3>3. writer' = [writer EXCEPT ![c] = None] /\ UNCHANGED <<hbQueue, acked>>
          /\ inHand' = IF writer[c] = "hbLoop" THEN [inHand EXCEPT ![c] = None] ELSE inHand
      BY <2>4 DEF writeEnds
    <3>4. inHand' \in [Conns -> (1..MaxRev) \cup {None}]
          /\ \A d \in Conns : writer'[d] = "hbLoop" => inHand'[d] # None
      BY <3>3, FenceAssumption
    <3> QED BY <3>2, <3>3, <3>4
  <2>5. CASE acceptConn(c)
    BY <2>5, FenceAssumption DEF acceptConn, storeVars, linkVars, adminVars, auxVars
  <2>6. CASE readUFrame(c)
    BY <2>6, FenceAssumption DEF readUFrame, storeVars, linkVars, adminVars, auxVars
  <2>7. CASE startOrStopDataTransfer(c)
    BY <2>7, FenceAssumption DEF startOrStopDataTransfer, storeVars, linkVars, adminVars, auxVars
  <2>8. CASE cleanup(c)
    BY <2>8, FenceAssumption DEF cleanup, storeVars, linkVars, adminVars, auxVars
  <2>9. CASE closeSocket(c)
    BY <2>9, FenceAssumption DEF closeSocket, storeVars, linkVars, adminVars, auxVars
  <2>10. CASE peerCloses(c)
    BY <2>10, FenceAssumption DEF peerCloses, storeVars, linkVars, adminVars, auxVars
  <2> QED BY <1>9, <2>1, <2>2, <2>3, <2>4, <2>5, <2>6, <2>7, <2>8, <2>9, <2>10 DEF handleConn
<1>10. ASSUME NEW a \in Admins,
    ApplyCoordinated(a) \/ FenceHeartbeat(a) \/ fenceReturns(a) PROVE QueueInv'
  <2>1. CASE lockCoord(a)
    BY <2>1, FenceAssumption DEF lockCoord, storeVars, linkVars, connVars, auxVars, idleAdmin
  <2>2. CASE applyHeartbeatTransition(a)
    BY <2>2, FenceAssumption DEF applyHeartbeatTransition, storeVars, connVars
  <2>3. CASE bumpHeartbeatGeneration(a)
    <3>1. ops \in 1..MaxOps
      <4>1. admin[a].at = "bump"
        BY <2>3 DEF bumpHeartbeatGeneration
      <4>2. ops \in 0..MaxOps /\ ops > 0
        BY <4>1 DEF AdminInv
      <4> QED BY <4>2, FenceAssumption
    <3>2. enqueueOrDisconnect([c \in Conns |-> Barrier(c, ops)])
          /\ [c \in Conns |-> Barrier(c, ops)] \in [Conns -> HbMsg]
      BY <2>3, <3>1, Sent DEF bumpHeartbeatGeneration
    <3> QED BY <2>3, <3>2, Enqueued DEF bumpHeartbeatGeneration
  <2>4. CASE setDrop(a)
    BY <2>4, FenceAssumption DEF setDrop, storeVars, connVars, auxVars
  <2>5. CASE closeAll(a)
    BY <2>5, FenceAssumption DEF closeAll, storeVars, linkVars, auxVars
  <2>6. CASE setHang(a)
    BY <2>6, FenceAssumption DEF setHang, storeVars, connVars, auxVars
  <2>7. CASE FenceHeartbeat(a)
    BY <2>7, FenceAssumption DEF FenceHeartbeat, storeVars, linkVars, connVars, auxVars
  <2>8. CASE fenceReturns(a)
    BY <2>8, FenceAssumption DEF fenceReturns, storeVars, linkVars, connVars, auxVars, idleAdmin
  <2> QED BY <1>10, <2>1, <2>2, <2>3, <2>4, <2>5, <2>6, <2>7, <2>8 DEF ApplyCoordinated
<1> QED BY <1>1, <1>2, <1>3, <1>4, <1>5, <1>6, <1>7, <1>8, <1>9, <1>10 DEF FenceNext,
    spontaneousLoop

\* A pause is not over before the boundary is on its way.
LEMMA PauseStep == StoreIInv /\ AdminInv /\ PauseInv /\ [FenceNext]_fenceVars => PauseInv'
<1> SUFFICES ASSUME StoreIInv, AdminInv, PauseInv, [FenceNext]_fenceVars PROVE PauseInv'
  OBVIOUS
<1> USE DEF PauseInv
<1>1. CASE UNCHANGED fenceVars
  BY <1>1 DEF fenceVars, storeVars, linkVars, connVars, adminVars, auxVars
<1>2. CASE Start
  BY <1>2, FenceAssumption DEF Start, linkVars, connVars, adminVars, auxVars, Subscribe
<1>3. CASE TickOnce
  <2>1. rev' = rev + 1 /\ rev \in Nat
    BY <1>3, TickCommits, StoreAssumption DEF StoreIInv, TypeOK
  <2>2. paused' = IF hbFrozen THEN paused \cup {rev + 1} ELSE paused
    BY <1>3 DEF TickOnce
  <2>3. UNCHANGED <<hbFrozen, boundary, admin>>
    BY <1>3 DEF TickOnce, linkVars, adminVars
  <2>4. paused' \subseteq 1..rev'
    BY <2>1, <2>2
  <2> QED BY <2>2, <2>3, <2>4
<1>4. CASE Publish
  BY <1>4, FenceAssumption DEF Publish, linkVars, connVars, adminVars, auxVars, publish
<1>5. CASE ReceiveNext
  BY <1>5, FenceAssumption DEF ReceiveNext, linkVars, connVars, adminVars, auxVars, idleLoop,
      ReceiveChange
<1>6. CASE admitHeartbeat
  BY <1>6, FenceAssumption DEF admitHeartbeat, storeVars, linkVars, adminVars, auxVars, idleLoop,
      enqueueOrDisconnect
<1>7. CASE broadcast
  BY <1>7, FenceAssumption DEF broadcast, storeVars, linkVars, connVars, adminVars, auxVars
<1>8. CASE broadcastDone
  BY <1>8, FenceAssumption DEF broadcastDone, storeVars, linkVars, connVars, adminVars, auxVars,
      idleLoop
<1>9. ASSUME NEW c \in Conns,
    hbLoop(c) \/ hbSend(c) \/ writeEnds(c) \/ handleConn(c) \/ peerCloses(c) \/ broadcastTo(c) PROVE PauseInv'
  <2>1. CASE broadcastTo(c)
    BY <2>1, FenceAssumption DEF broadcastTo, storeVars, linkVars, adminVars, auxVars
  <2>2. CASE hbLoop(c)
    BY <2>2, FenceAssumption DEF hbLoop, storeVars, linkVars, adminVars, auxVars
  <2>3. CASE hbSend(c)
    BY <2>3, FenceAssumption DEF hbSend, storeVars, linkVars, adminVars, auxVars
  <2>4. CASE writeEnds(c)
    BY <2>4, FenceAssumption DEF writeEnds, storeVars, linkVars, adminVars, auxVars
  <2>5. CASE acceptConn(c)
    BY <2>5, FenceAssumption DEF acceptConn, storeVars, linkVars, adminVars, auxVars
  <2>6. CASE readUFrame(c)
    BY <2>6, FenceAssumption DEF readUFrame, storeVars, linkVars, adminVars, auxVars
  <2>7. CASE startOrStopDataTransfer(c)
    BY <2>7, FenceAssumption DEF startOrStopDataTransfer, storeVars, linkVars, adminVars, auxVars
  <2>8. CASE cleanup(c)
    BY <2>8, FenceAssumption DEF cleanup, storeVars, linkVars, adminVars, auxVars
  <2>9. CASE closeSocket(c)
    BY <2>9, FenceAssumption DEF closeSocket, storeVars, linkVars, adminVars, auxVars
  <2>10. CASE peerCloses(c)
    BY <2>10, FenceAssumption DEF peerCloses, storeVars, linkVars, adminVars, auxVars
  <2> QED BY <1>9, <2>1, <2>2, <2>3, <2>4, <2>5, <2>6, <2>7, <2>8, <2>9, <2>10 DEF handleConn
<1>10. ASSUME NEW a \in Admins,
    ApplyCoordinated(a) \/ FenceHeartbeat(a) \/ fenceReturns(a) PROVE PauseInv'
  <2>1. CASE lockCoord(a)
    <3>1. Moves(a, "idle", "apply")
      BY <2>1, AdminMoves
    <3> QED BY <2>1, <3>1, FenceAssumption DEF lockCoord, storeVars, linkVars, connVars, auxVars,
        Moves
  <2>2. CASE applyHeartbeatTransition(a)
    <3>1. Moves(a, "apply", "bump") /\ admin'[a].boundary = rev /\ rev \in Nat
      BY <2>2, AdminMoves, StoreAssumption DEF StoreIInv, TypeOK
    <3>2. paused' = paused /\ rev' = rev /\ \A r \in paused : r <= rev
      BY <2>2, <3>1 DEF applyHeartbeatTransition, storeVars
    <3>3. \A b \in Admins : admin'[b].at = "bump" => b = a
      BY <2>2, <3>1 DEF Moves, applyHeartbeatTransition, AdminInv
    <3> QED BY <3>1, <3>2, <3>3 DEF Moves
  <2>3. CASE bumpHeartbeatGeneration(a)
    <3>1. Moves(a, "bump", "fence")
      BY <2>3, AdminMoves
    <3>2. paused' = paused /\ rev' = rev /\ hbFrozen' = hbFrozen /\ boundary' = admin[a].boundary
      BY <2>3 DEF bumpHeartbeatGeneration, storeVars, auxVars
    <3>3. \A b \in Admins : admin'[b].at # "bump"
      BY <2>3, <3>1 DEF Moves, bumpHeartbeatGeneration, AdminInv
    <3> QED BY <3>1, <3>2, <3>3 DEF Moves
  <2>4. CASE setDrop(a)
    <3>1. Moves(a, "apply", "closeAll")
      BY <2>4, AdminMoves
    <3> QED BY <2>4, <3>1, FenceAssumption DEF setDrop, storeVars, connVars, auxVars, Moves
  <2>5. CASE closeAll(a)
    <3>1. Moves(a, "closeAll", "fence")
      BY <2>5, AdminMoves
    <3> QED BY <2>5, <3>1, FenceAssumption DEF closeAll, storeVars, linkVars, auxVars, Moves
  <2>6. CASE setHang(a)
    <3>1. Moves(a, "apply", "fence")
      BY <2>6, AdminMoves
    <3> QED BY <2>6, <3>1, FenceAssumption DEF setHang, storeVars, connVars, auxVars, Moves
  <2>7. CASE FenceHeartbeat(a)
    <3>1. Moves(a, "fence", "wait")
      BY <2>7, AdminMoves
    <3> QED BY <2>7, <3>1, FenceAssumption DEF FenceHeartbeat, storeVars, linkVars, connVars,
        auxVars, Moves
  <2>8. CASE fenceReturns(a)
    <3>1. Moves(a, "wait", "idle")
      BY <2>8, AdminMoves
    <3> QED BY <2>8, <3>1, FenceAssumption DEF fenceReturns, storeVars, linkVars, connVars,
        auxVars, Moves
  <2> QED BY <1>10, <2>1, <2>2, <2>3, <2>4, <2>5, <2>6, <2>7, <2>8 DEF ApplyCoordinated
<1> QED BY <1>1, <1>2, <1>3, <1>4, <1>5, <1>6, <1>7, <1>8, <1>9, <1>10 DEF FenceNext,
    spontaneousLoop

\* A clean revision stays clean: only the next one can be a pause's.
LEMMA StaysClean ==
    ASSUME StoreIInv, [FenceNext]_fenceVars
    PROVE  \A r \in Nat : Clean(r) => r <= rev' /\ r \notin paused'
<1>1. TickOnce \/ (rev' = rev /\ paused' = paused)
  BY DEF FenceNext, fenceVars, storeVars, auxVars, Start, Subscribe, Publish, publish,
      spontaneousLoop,
        ReceiveNext, ReceiveChange, admitHeartbeat, broadcast, broadcastDone, broadcastTo, hbLoop,
        hbSend, writeEnds, handleConn, peerCloses, acceptConn, readUFrame, startOrStopDataTransfer,
        cleanup, closeSocket, ApplyCoordinated, FenceHeartbeat, fenceReturns, lockCoord,
        applyHeartbeatTransition, bumpHeartbeatGeneration, setDrop, closeAll, setHang
<1>2. CASE TickOnce
  <2>1. rev' = rev + 1 /\ rev \in Nat
    BY <1>2, TickCommits, StoreAssumption DEF StoreIInv, TypeOK
  <2>2. paused' = paused \/ paused' = paused \cup {rev + 1}
    BY <1>2 DEF TickOnce
  <2> QED BY <2>1, <2>2 DEF Clean
<1> QED BY <1>1, <1>2 DEF Clean

\* The same of all that is under way: a step need only show that it is clean
\* now, before it.
LEMMA CleanBefore ==
    ASSUME StoreIInv, [FenceNext]_fenceVars, QueueInv',
           \A c \in Conns :
               /\ \A i \in DOMAIN hbQueue'[c] :
                    ~IsBarrier(hbQueue'[c][i]) => Clean(hbQueue'[c][i].frame)
               /\ inHand'[c] # None => Clean(inHand'[c])
               /\ Clean(lastSent'[c])
    PROVE  CleanInv'
<1>1. ASSUME NEW c \in Conns, NEW i \in DOMAIN hbQueue'[c], ~IsBarrier(hbQueue'[c][i])
      PROVE  hbQueue'[c][i].frame <= rev' /\ hbQueue'[c][i].frame \notin paused'
  <2>1. hbQueue'[c] \in Seq(HbMsg)
    BY DEF QueueInv
  <2>2. hbQueue'[c][i] \in HbMsg
    BY <2>1
  <2>3. hbQueue'[c][i].frame \in Nat
    BY <1>1, <2>2, Messages
  <2> QED BY <1>1, <2>3, StaysClean
<1>2. ASSUME NEW c \in Conns, inHand'[c] # None
      PROVE  inHand'[c] <= rev' /\ inHand'[c] \notin paused'
  <2>1. inHand'[c] \in Nat
    BY <1>2 DEF QueueInv
  <2> QED BY <1>2, <2>1, StaysClean
<1>3. ASSUME NEW c \in Conns PROVE lastSent'[c] <= rev' /\ lastSent'[c] \notin paused'
  <2>1. lastSent'[c] \in Nat
    BY DEF QueueInv
  <2> QED BY <2>1, StaysClean
<1> QED BY <1>1, <1>2, <1>3 DEF CleanInv, Clean, IsBarrier

\* Nothing that a pause froze gets under way.
LEMMA CleanStep == StoreIInv /\ AdminInv /\ LoopInv /\ QueueInv /\ QueueInv' /\ PauseInv /\ CleanInv /\ [FenceNext]_fenceVars => CleanInv'
<1> SUFFICES ASSUME StoreIInv, AdminInv, LoopInv, QueueInv, QueueInv', PauseInv, CleanInv,
    [FenceNext]_fenceVars PROVE CleanInv'
  OBVIOUS
<1>1. CASE UNCHANGED fenceVars
  <2>1. UNCHANGED <<hbQueue, inHand, lastSent>>
    BY <1>1 DEF fenceVars, connVars
  <2> QED BY <2>1, CleanBefore DEF CleanInv
<1>2. CASE Start
  <2>1. UNCHANGED <<hbQueue, inHand, lastSent>>
    BY <1>2 DEF Start, connVars
  <2> QED BY <2>1, CleanBefore DEF CleanInv
<1>3. CASE TickOnce
  <2>1. UNCHANGED <<hbQueue, inHand, lastSent>>
    BY <1>3 DEF TickOnce, connVars
  <2> QED BY <2>1, CleanBefore DEF CleanInv
<1>4. CASE Publish
  <2>1. UNCHANGED <<hbQueue, inHand, lastSent>>
    BY <1>4 DEF Publish, connVars
  <2> QED BY <2>1, CleanBefore DEF CleanInv
<1>5. CASE ReceiveNext
  <2>1. UNCHANGED <<hbQueue, inHand, lastSent>>
    BY <1>5 DEF ReceiveNext, connVars
  <2> QED BY <2>1, CleanBefore DEF CleanInv
<1>6. CASE admitHeartbeat
  <2>1. UNCHANGED <<inHand, lastSent>>
    BY <1>6 DEF admitHeartbeat
  <2>2. CASE Discards(loop.change)
    BY <1>6, <2>1, <2>2, CleanBefore DEF admitHeartbeat, CleanInv
  <2>3. CASE ~Discards(loop.change)
    <3> DEFINE r == loop.change.rev
    <3>1. loop.change \in Change /\ r <= rev /\ r \in 1..MaxRev /\ coord = None
      BY <1>6 DEF admitHeartbeat, LoopInv, Change
    <3>2. Clean(r)
      <4>1. \A a \in Admins : admin[a].at # "bump"
        BY <3>1, FenceAssumption DEF AdminInv
      <4>2. boundary \in Nat /\ r > boundary /\ ~hbFrozen
        BY <2>3, <3>1 DEF Discards, AdminInv
      <4>3. \A p \in paused : p <= boundary
        BY <4>1, <4>2 DEF PauseInv
      <4>4. rev \in Nat /\ paused \subseteq 1..rev
        BY StoreAssumption DEF PauseInv, StoreIInv, TypeOK
      <4> QED BY <3>1, <4>2, <4>3, <4>4 DEF Clean
    <3>3. enqueueOrDisconnect([c \in Conns |-> Frame(r)])
          /\ [c \in Conns |-> Frame(r)] \in [Conns -> HbMsg]
      BY <1>6, <2>3, <3>1, Sent DEF admitHeartbeat
    <3>4. ~IsBarrier(Frame(r)) /\ Frame(r).frame = r
      BY <3>1, Messages
    <3> HIDE DEF r
    <3>5. ASSUME NEW c \in Conns, NEW i \in DOMAIN hbQueue'[c], ~IsBarrier(hbQueue'[c][i])
          PROVE  Clean(hbQueue'[c][i].frame)
      BY <3>2, <3>3, <3>4, <3>5, Enqueued DEF CleanInv
    <3> QED BY <2>1, <3>5, CleanBefore DEF CleanInv
  <2> QED BY <2>2, <2>3
<1>7. CASE broadcast
  <2>1. UNCHANGED <<hbQueue, inHand, lastSent>>
    BY <1>7 DEF broadcast, connVars
  <2> QED BY <2>1, CleanBefore DEF CleanInv
<1>8. CASE broadcastDone
  <2>1. UNCHANGED <<hbQueue, inHand, lastSent>>
    BY <1>8 DEF broadcastDone, connVars
  <2> QED BY <2>1, CleanBefore DEF CleanInv
<1>9. ASSUME NEW c \in Conns,
    hbLoop(c) \/ hbSend(c) \/ writeEnds(c) \/ handleConn(c) \/ peerCloses(c) \/ broadcastTo(c) PROVE CleanInv'
  <2>1. CASE broadcastTo(c)
    <3>1. UNCHANGED <<hbQueue, inHand, lastSent>>
      BY <2>1 DEF broadcastTo
    <3> QED BY <3>1, CleanBefore DEF CleanInv
  <2>2. CASE hbLoop(c)
    <3> DEFINE m == Head(hbQueue[c])
    <3>1. m = hbQueue[c][1] /\ 1 \in DOMAIN hbQueue[c]
      BY <2>2, Dequeued
    <3>2. ~IsBarrier(m) => Clean(m.frame)
      BY <3>1 DEF CleanInv
    <3>3. lastSent' = lastSent /\ (inHand' = inHand
            \/ (~IsBarrier(m) /\ inHand' = [inHand EXCEPT ![c] = m.frame]))
      BY <2>2 DEF hbLoop
    <3> HIDE DEF m
    <3>4. \A d \in Conns : inHand'[d] # None => Clean(inHand'[d])
      BY <3>2, <3>3 DEF CleanInv, QueueInv
    <3>5. ASSUME NEW d \in Conns, NEW i \in DOMAIN hbQueue'[d], ~IsBarrier(hbQueue'[d][i])
          PROVE  Clean(hbQueue'[d][i].frame)
      BY <2>2, <3>5, Dequeued DEF CleanInv
    <3> QED BY <3>3, <3>4, <3>5, CleanBefore DEF CleanInv
  <2>3. CASE hbSend(c)
    <3>1. UNCHANGED <<hbQueue,
        lastSent>> /\ (inHand' = inHand \/ inHand' = [inHand EXCEPT ![c] = None])
      BY <2>3 DEF hbSend
    <3>2. \A d \in Conns : inHand'[d] # None => Clean(inHand'[d])
      BY <3>1 DEF CleanInv, QueueInv
    <3> QED BY <3>1, <3>2, CleanBefore DEF CleanInv
  <2>4. CASE writeEnds(c)
    <3>1. hbQueue' = hbQueue /\ (inHand' = inHand \/ inHand' = [inHand EXCEPT ![c] = None])
      BY <2>4 DEF writeEnds
    <3>2. \A d \in Conns : inHand'[d] # None => Clean(inHand'[d])
      BY <3>1 DEF CleanInv, QueueInv
    <3>3. lastSent' = lastSent
            \/ (writer[c] = "hbLoop" /\ lastSent' = [lastSent EXCEPT ![c] = inHand[c]])
      BY <2>4 DEF writeEnds
    <3>4. \A d \in Conns : Clean(lastSent'[d])
      BY <3>3 DEF CleanInv, QueueInv
    <3> QED BY <3>1, <3>2, <3>4, CleanBefore DEF CleanInv
  <2>5. CASE acceptConn(c)
    <3>1. UNCHANGED <<hbQueue, inHand, lastSent>>
      BY <2>5 DEF acceptConn
    <3> QED BY <3>1, CleanBefore DEF CleanInv
  <2>6. CASE readUFrame(c)
    <3>1. UNCHANGED <<hbQueue, inHand, lastSent>>
      BY <2>6 DEF readUFrame
    <3> QED BY <3>1, CleanBefore DEF CleanInv
  <2>7. CASE startOrStopDataTransfer(c)
    <3>1. UNCHANGED <<hbQueue, inHand, lastSent>>
      BY <2>7 DEF startOrStopDataTransfer
    <3> QED BY <3>1, CleanBefore DEF CleanInv
  <2>8. CASE cleanup(c)
    <3>1. UNCHANGED <<hbQueue, inHand, lastSent>>
      BY <2>8 DEF cleanup
    <3> QED BY <3>1, CleanBefore DEF CleanInv
  <2>9. CASE closeSocket(c)
    <3>1. UNCHANGED <<hbQueue, inHand, lastSent>>
      BY <2>9 DEF closeSocket
    <3> QED BY <3>1, CleanBefore DEF CleanInv
  <2>10. CASE peerCloses(c)
    <3>1. UNCHANGED <<hbQueue, inHand, lastSent>>
      BY <2>10 DEF peerCloses
    <3> QED BY <3>1, CleanBefore DEF CleanInv
  <2> QED BY <1>9, <2>1, <2>2, <2>3, <2>4, <2>5, <2>6, <2>7, <2>8, <2>9, <2>10 DEF handleConn
<1>10. ASSUME NEW a \in Admins,
    ApplyCoordinated(a) \/ FenceHeartbeat(a) \/ fenceReturns(a) PROVE CleanInv'
  <2>1. CASE lockCoord(a)
    <3>1. UNCHANGED <<hbQueue, inHand, lastSent>>
      BY <2>1 DEF lockCoord, connVars
    <3> QED BY <3>1, CleanBefore DEF CleanInv
  <2>2. CASE applyHeartbeatTransition(a)
    <3>1. UNCHANGED <<hbQueue, inHand, lastSent>>
      BY <2>2 DEF applyHeartbeatTransition, connVars
    <3> QED BY <3>1, CleanBefore DEF CleanInv
  <2>3. CASE bumpHeartbeatGeneration(a)
    <3>1. UNCHANGED <<inHand, lastSent>>
      BY <2>3 DEF bumpHeartbeatGeneration
    <3>2. ops \in 1..MaxOps
      <4>1. admin[a].at = "bump"
        BY <2>3 DEF bumpHeartbeatGeneration
      <4>2. ops \in 0..MaxOps /\ ops > 0
        BY <4>1 DEF AdminInv
      <4> QED BY <4>2, FenceAssumption
    <3>3. enqueueOrDisconnect([c \in Conns |-> Barrier(c, ops)])
          /\ [c \in Conns |-> Barrier(c, ops)] \in [Conns -> HbMsg]
      BY <2>3, <3>2, Sent DEF bumpHeartbeatGeneration
    <3>4. \A c \in Conns : IsBarrier(Barrier(c, ops))
      BY <3>2, Messages
    <3>5. ASSUME NEW c \in Conns, NEW i \in DOMAIN hbQueue'[c], ~IsBarrier(hbQueue'[c][i])
          PROVE  Clean(hbQueue'[c][i].frame)
      BY <3>3, <3>4, <3>5, Enqueued DEF CleanInv
    <3> QED BY <3>1, <3>5, CleanBefore DEF CleanInv
  <2>4. CASE setDrop(a)
    <3>1. UNCHANGED <<hbQueue, inHand, lastSent>>
      BY <2>4 DEF setDrop, connVars
    <3> QED BY <3>1, CleanBefore DEF CleanInv
  <2>5. CASE closeAll(a)
    <3>1. UNCHANGED <<hbQueue, inHand, lastSent>>
      BY <2>5 DEF closeAll
    <3> QED BY <3>1, CleanBefore DEF CleanInv
  <2>6. CASE setHang(a)
    <3>1. UNCHANGED <<hbQueue, inHand, lastSent>>
      BY <2>6 DEF setHang, connVars
    <3> QED BY <3>1, CleanBefore DEF CleanInv
  <2>7. CASE FenceHeartbeat(a)
    <3>1. UNCHANGED <<hbQueue, inHand, lastSent>>
      BY <2>7 DEF FenceHeartbeat, connVars
    <3> QED BY <3>1, CleanBefore DEF CleanInv
  <2>8. CASE fenceReturns(a)
    <3>1. UNCHANGED <<hbQueue, inHand, lastSent>>
      BY <2>8 DEF fenceReturns, connVars
    <3> QED BY <3>1, CleanBefore DEF CleanInv
  <2> QED BY <1>10, <2>1, <2>2, <2>3, <2>4, <2>5, <2>6, <2>7, <2>8 DEF ApplyCoordinated
<1> QED BY <1>1, <1>2, <1>3, <1>4, <1>5, <1>6, <1>7, <1>8, <1>9, <1>10 DEF FenceNext,
    spontaneousLoop

-----------------------------------------------------------------------------
LEMMA FenceInitInv == FenceInit => FenceIInv
<1> SUFFICES ASSUME FenceInit PROVE FenceIInv
  OBVIOUS
<1> USE FenceAssumption, StoreAssumption DEF FenceInit
<1>1. StoreIInv /\ rev = 0
  BY InitInv DEF Init
<1>2. AdminInv
  <2>1. idleAdmin \in AdminRecord
    BY FreshRecords
  <2> HIDE DEF FenceInit
  <2>2. admin = [a \in Admins |-> idleAdmin] /\ idleAdmin.at = "idle"
    BY DEF FenceInit, idleAdmin
  <2>3. admin \in [Admins -> AdminRecord] /\ \A a \in Admins : admin[a].at = "idle"
    BY <2>1, <2>2
  <2>4. drop \in BOOLEAN /\ hang \in BOOLEAN /\ hbFrozen \in BOOLEAN
    BY DEF FenceInit
  <2>5. /\ boundary \in 0..MaxRev /\ fenced \in 0..MaxRev /\ ops \in 0..MaxOps /\ gen \in 0..ops
        /\ coord \in Admins \cup {None} /\ pendingFenceAcks \subseteq Acks
    BY DEF FenceInit
  <2>6. genOf \in [0..MaxRev -> 0..MaxOps]
    BY DEF FenceInit
  <2> QED BY <2>3, <2>4, <2>5, <2>6 DEF AdminInv
<1>3. ConnInv
  BY DEF ConnInv
<1>4. LoopInv
  BY DEF LoopInv, idleLoop
<1>5. QueueInv
  <2>1. << >> \in Seq(HbMsg) /\ Len(<< >>) = 0
    OBVIOUS
  <2> QED BY <2>1 DEF QueueInv
<1>6. PauseInv
  BY DEF PauseInv
<1>7. CleanInv
  BY <1>1 DEF CleanInv, Clean
<1> QED BY <1>1, <1>2, <1>3, <1>4, <1>5, <1>6, <1>7 DEF FenceIInv

\* The inductive invariant always holds.
THEOREM FenceCorrect == FenceSpec => []FenceIInv
<1>1. FenceIInv /\ [FenceNext]_fenceVars => FenceIInv'
  <2> SUFFICES ASSUME FenceIInv, [FenceNext]_fenceVars PROVE FenceIInv'
    OBVIOUS
  <2>1. StoreIInv'
    BY StepInv, FenceStepStore DEF FenceIInv
  <2>2. AdminInv' /\ ConnInv' /\ LoopInv' /\ QueueInv' /\ PauseInv'
    BY AdminStep, ConnStep, LoopStep, QueueStep, PauseStep DEF FenceIInv
  <2>3. CleanInv'
    BY <2>2, CleanStep DEF FenceIInv
  <2> QED BY <2>1, <2>2, <2>3 DEF FenceIInv
<1> QED BY <1>1, FenceInitInv, PTL DEF FenceSpec

\* Every variable keeps its type, and no heartbeat channel overflows
\* (enqueueOrDisconnect).
THEOREM FenceTypeCorrect == FenceSpec => []FenceTypeOK
<1>1. FenceIInv => FenceTypeOK
  <2> SUFFICES ASSUME FenceIInv PROVE FenceTypeOK
    OBVIOUS
  <2>1. TypeOK /\ rev \in 0..MaxRev /\ MaxRev \in Nat
    BY StoreAssumption DEF FenceIInv, StoreIInv, TypeOK
  <2>2. gen \in 0..MaxOps /\ paused \subseteq 1..MaxRev
    BY <2>1, FenceAssumption DEF FenceIInv, AdminInv, PauseInv
  <2> QED BY <2>1, <2>2 DEF FenceIInv, AdminInv, AdminRecord, Acks, ConnInv, LoopInv, QueueInv,
      FenceTypeOK
<1> QED BY <1>1, FenceCorrect, PTL

\* No heartbeat generated under a pause is ever queued for a connection or written
\* to it, during the pause or after it.  One admitted before the pause may still be
\* written during it; when that ends is NothingStaleAfterFence's (admitHeartbeat,
\* applyHeartbeatTransition, bumpHeartbeatGeneration).
THEOREM PausedHeartbeatsStay == FenceSpec => []PausedHeartbeatsNeverLeave
<1>1. FenceIInv => PausedHeartbeatsNeverLeave
  BY DEF FenceIInv, CleanInv, Clean, PausedHeartbeatsNeverLeave, frames
<1> QED BY <1>1, FenceCorrect, PTL

\* A drop in force has closed every registered connection (SetDrop, acceptLoop).
THEOREM DropAlwaysCloses == FenceSpec => []DropClosesEverything
<1>1. FenceIInv => DropClosesEverything
  BY DEF FenceIInv, ConnInv, DropClosesEverything
<1> QED BY <1>1, FenceCorrect, PTL

-----------------------------------------------------------------------------
\* Heartbeats in order.

\* Nothing upstream of the heartbeat channels is older than r: not the store,
\* not the server's own channel, not the heartbeat that is being admitted.
Upstream(r) ==
    /\ r <= rev
    /\ \A i \in DOMAIN subQ[Feed] : r <= subQ[Feed][i].rev
    /\ loop.at = "admit" => r <= loop.change.rev

\* The server receives the store's Changes in the order of their revisions.
FeedInv ==
    /\ \A change \in pub[Tick] : change.rev = rev
    /\ \A i, j \in DOMAIN subQ[Feed] : i < j => subQ[Feed][i].rev <= subQ[Feed][j].rev
    /\ loop.at = "admit" => \A i \in DOMAIN subQ[Feed] : loop.change.rev <= subQ[Feed][i].rev

\* No frame of channel q is older than r.
NoneBefore(q, r) == \A i \in DOMAIN q : ~IsBarrier(q[i]) => r <= q[i].frame

\* A channel q, the frame h in hand and the last one sent, l: from the peer
\* back to the store, no heartbeat is newer than the next.
OrderAt(q, h, l) ==
    /\ \A i, j \in DOMAIN q :
         i < j /\ ~IsBarrier(q[i]) /\ ~IsBarrier(q[j]) => q[i].frame <= q[j].frame
    /\ \A i \in DOMAIN q : ~IsBarrier(q[i]) => Upstream(q[i].frame)
    /\ NoneBefore(q, l)
    /\ h # None => NoneBefore(q, h) /\ Upstream(h) /\ l <= h
    /\ Upstream(l)

OrderInv == FeedInv /\ \A c \in Conns : OrderAt(hbQueue[c], inHand[c], lastSent[c])

\* Most steps leave what is upstream alone, or take from it.
Quiet ==
    /\ UNCHANGED <<rev, pub, subQ>>
    /\ loop'.at = "admit" => loop.at = "admit" /\ loop'.change = loop.change

LEMMA QuietSteps ==
    ASSUME LoopInv, [FenceNext]_fenceVars
    PROVE  Quiet \/ Start \/ TickOnce \/ Publish \/ ReceiveNext
<1>1. CASE UNCHANGED fenceVars
  BY <1>1 DEF fenceVars, storeVars, Quiet
<1>2. CASE admitHeartbeat
  BY <1>2 DEF admitHeartbeat, storeVars, Quiet, idleLoop
<1>3. CASE broadcast
  BY <1>3 DEF broadcast, storeVars, Quiet, LoopInv
<1>4. CASE broadcastDone
  BY <1>4 DEF broadcastDone, storeVars, Quiet, idleLoop
<1>5. ASSUME NEW c \in Conns, broadcastTo(c) PROVE Quiet
  BY <1>5 DEF broadcastTo, storeVars, Quiet, LoopInv
<1>6. ASSUME NEW c \in Conns, writeEnds(c) PROVE Quiet
  BY <1>6 DEF writeEnds, storeVars, Quiet, LoopInv
<1>7. ASSUME NEW c \in Conns, hbLoop(c) \/ hbSend(c) \/ handleConn(c) \/ peerCloses(c)
      PROVE  Quiet
  BY <1>7 DEF hbLoop, hbSend, handleConn, peerCloses, acceptConn, readUFrame,
        startOrStopDataTransfer, cleanup, closeSocket, storeVars, Quiet
<1>8. ASSUME NEW a \in Admins, ApplyCoordinated(a) \/ FenceHeartbeat(a) \/ fenceReturns(a)
      PROVE  Quiet
  BY <1>8 DEF ApplyCoordinated, FenceHeartbeat, fenceReturns, lockCoord, applyHeartbeatTransition,
        bumpHeartbeatGeneration, setDrop, closeAll, setHang, storeVars, Quiet
<1> QED BY <1>1, <1>2, <1>3, <1>4, <1>5, <1>6, <1>7, <1>8 DEF FenceNext, spontaneousLoop

\* What the store's side knows of the server's channel.
LEMMA FeedFacts ==
    ASSUME StoreIInv
    PROVE  /\ rev \in Nat /\ subQ \in [Subscribers -> Seq(Change)]
           /\ pub \in [Writers -> SUBSET Change] /\ Tick \in Writers /\ Feed \in Subscribers
           /\ subQ[Feed] \in Seq(Change)
           /\ \A i \in DOMAIN subQ[Feed] :
                subQ[Feed][i] \in Change /\ subQ[Feed][i].rev \in Nat /\ subQ[Feed][i].rev <= rev
<1>1. Tick \in Writers /\ Feed \in Subscribers
  BY FenceAssumption DEF Tick
<1>2. rev \in Nat /\ subQ \in [Subscribers -> Seq(Change)] /\ pub \in [Writers -> SUBSET Change]
  BY StoreAssumption DEF StoreIInv, TypeOK
<1>3. subQ[Feed] \in Seq(Change)
  BY <1>1, <1>2
<1>4. ASSUME NEW i \in DOMAIN subQ[Feed]
      PROVE  subQ[Feed][i] \in Change /\ subQ[Feed][i].rev \in Nat /\ subQ[Feed][i].rev <= rev
  <2>1. subQ[Feed][i] \in Change
    BY <1>3
  <2>2. subQ[Feed][i].rev <= rev
    BY <1>1 DEF StoreIInv, ChangesAreStamped
  <2> QED BY <2>1, <2>2 DEF Change
<1> QED BY <1>1, <1>2, <1>3, <1>4

\* The server's channel stays in order, and what is upstream gets no older.
LEMMA FeedStep ==
    ASSUME FenceIInv, FeedInv, [FenceNext]_fenceVars
    PROVE  FeedInv' /\ \A r \in Nat : Upstream(r) => Upstream(r)'
<1> DEFINE Goal == FeedInv' /\ \A r \in Nat : Upstream(r) => Upstream(r)'
<1>1. /\ StoreIInv /\ LoopInv
      /\ loop.at = "admit" => loop.change.rev \in Nat /\ loop.change.rev <= rev
  BY DEF FenceIInv, LoopInv, Change
<1>2. CASE Quiet
  BY <1>2 DEF Quiet, FeedInv, Upstream
<1>3. CASE Start
  <2>1. subQ' = [subQ EXCEPT ![Feed] = << >>] /\ UNCHANGED <<rev, pub, loop>>
    BY <1>3 DEF Start, Subscribe
  <2>2. subQ'[Feed] = << >>
    BY <1>1, <2>1, FeedFacts
  <2> QED BY <2>1, <2>2 DEF FeedInv, Upstream
<1>4. CASE TickOnce
  <2>1. rev' = rev + 1 /\ rev \in Nat /\ UNCHANGED <<subQ, loop>>
    BY <1>1, <1>4, TickCommits, FeedFacts DEF TickOnce, SetBatch, CommitLocked
  <2>2. PICK changes : changes = WithReadback([p \in Writable |-> Zero])
    OBVIOUS
  <2>3. pub' = [pub EXCEPT ![Tick] =
            {[key |-> p, value |-> changes[p], rev |-> rev + 1] : p \in DOMAIN changes}]
    BY <1>4, <2>2 DEF TickOnce, SetBatch, CommitLocked
  <2>4. \A change \in pub'[Tick] : change.rev = rev'
    BY <1>1, <2>1, <2>3, FeedFacts
  <2> QED BY <2>1, <2>4 DEF FeedInv, Upstream
<1>5. CASE Publish
  <2>1. PICK c \in pub[Tick] :
           /\ pub' = [pub EXCEPT ![Tick] = @ \ {c}]
           /\ subQ' = [s \in Subscribers |-> IF s \in subs THEN Offer(subQ[s], c) ELSE subQ[s]]
           /\ rev' = rev
    BY <1>5 DEF Publish, publish
  <2>2. loop' = loop
    BY <1>5 DEF Publish
  <2>3. c \in Change /\ c.rev = rev /\ \A change \in pub'[Tick] : change.rev = rev'
    BY <1>1, <2>1, FeedFacts DEF FeedInv
  <2>4. CASE subQ'[Feed] = subQ[Feed]
    BY <2>1, <2>2, <2>3, <2>4 DEF FeedInv, Upstream
  <2>5. CASE subQ'[Feed] = Append(subQ[Feed], c)
    <3> DEFINE q == subQ[Feed]
    <3>1. q \in Seq(Change) /\ rev \in Nat /\ \A i \in DOMAIN q : q[i].rev \in Nat /\ q[i].rev <= rev
      BY <1>1, FeedFacts
    <3>2. /\ Len(q) \in Nat /\ DOMAIN q = 1..Len(q) /\ DOMAIN subQ'[Feed] = 1..(Len(q) + 1)
          /\ subQ'[Feed][Len(q) + 1] = c /\ \A i \in DOMAIN q : subQ'[Feed][i] = q[i]
      BY <2>3, <2>5, <3>1
    <3>3. \A i \in DOMAIN subQ'[Feed] : i \in DOMAIN q \/ subQ'[Feed][i].rev = rev
      BY <2>3, <3>2
    <3>4. \A i, j \in DOMAIN subQ'[Feed] : i < j => subQ'[Feed][i].rev <= subQ'[Feed][j].rev
      <4>1. SUFFICES ASSUME NEW i \in DOMAIN subQ'[Feed], NEW j \in DOMAIN subQ'[Feed], i < j
                     PROVE  subQ'[Feed][i].rev <= subQ'[Feed][j].rev
        OBVIOUS
      <4>2. i \in DOMAIN q
        BY <3>2, <4>1
      <4> QED BY <3>1, <3>2, <3>3, <4>1, <4>2 DEF FeedInv
    <3>5. loop'.at = "admit" => \A i \in DOMAIN subQ'[Feed] : loop'.change.rev <= subQ'[Feed][i].rev
      BY <1>1, <2>2, <3>2, <3>3 DEF FeedInv
    <3>6. \A r \in Nat : Upstream(r) => Upstream(r)'
      BY <2>1, <2>2, <3>2, <3>3 DEF Upstream
    <3> QED BY <2>3, <3>4, <3>5, <3>6 DEF FeedInv
  <2>6. subQ'[Feed] = subQ[Feed] \/ subQ'[Feed] = Append(subQ[Feed], c)
    <3>1. Feed \in Subscribers
      BY FenceAssumption
    <3>2. subQ'[Feed] = IF Feed \in subs THEN Offer(subQ[Feed], c) ELSE subQ[Feed]
      BY <2>1, <3>1
    <3> QED BY <3>2 DEF Offer
  <2> QED BY <2>4, <2>5, <2>6
<1>6. CASE ReceiveNext
  <2> DEFINE q == subQ[Feed]
  <2>1. /\ q # << >> /\ subQ' = [subQ EXCEPT ![Feed] = Tail(q)] /\ UNCHANGED <<rev, pub>>
        /\ loop'.change = Head(q)
    BY <1>6 DEF ReceiveNext, ReceiveChange, idleLoop
  <2>2. q \in Seq(Change) /\ \A i \in DOMAIN q : q[i].rev \in Nat
    BY <1>1, FeedFacts
  <2>3. /\ subQ'[Feed] = Tail(q) /\ Head(q) = q[1] /\ 1 \in DOMAIN q
        /\ \A i \in DOMAIN Tail(q) : i + 1 \in DOMAIN q /\ Tail(q)[i] = q[i + 1] /\ i \in Nat \ {0}
    BY <1>1, <2>1, <2>2, FeedFacts, TailFacts
  <2>4. DOMAIN Tail(q) \subseteq Nat \ {0}
    BY <2>3
  <2>5. ASSUME NEW i \in DOMAIN Tail(q), NEW j \in DOMAIN Tail(q), i < j
        PROVE  Tail(q)[i].rev <= Tail(q)[j].rev
    <3>1. i \in Nat /\ j \in Nat /\ i + 1 \in DOMAIN q /\ j + 1 \in DOMAIN q /\ i + 1 < j + 1
      BY <2>3, <2>5
    <3> QED BY <2>3, <3>1 DEF FeedInv
  <2>6. \A i \in DOMAIN Tail(q) : q[1].rev <= Tail(q)[i].rev
    BY <2>3 DEF FeedInv
  <2>7. \A r \in Nat : Upstream(r) => Upstream(r)'
    BY <2>1, <2>3 DEF Upstream
  <2> QED BY <2>1, <2>3, <2>5, <2>6, <2>7 DEF FeedInv
<1> QED BY <1>1, <1>2, <1>3, <1>4, <1>5, <1>6, QuietSteps

-----------------------------------------------------------------------------
\* The types of what is under way to a connection.
LEMMA ChannelTypes ==
    ASSUME QueueInv, NEW c \in Conns
    PROVE  /\ hbQueue[c] \in Seq(HbMsg) /\ lastSent[c] \in Nat
           /\ inHand[c] # None => inHand[c] \in Nat
           /\ \A i \in DOMAIN hbQueue[c] : hbQueue[c][i] \in HbMsg
           /\ \A i \in DOMAIN hbQueue[c] : ~IsBarrier(hbQueue[c][i]) => hbQueue[c][i].frame \in Nat
<1>1. hbQueue[c] \in Seq(HbMsg)
  BY DEF QueueInv
<1>2. \A i \in DOMAIN hbQueue[c] : hbQueue[c][i] \in HbMsg
  BY <1>1
<1>3. \A i \in DOMAIN hbQueue[c] : ~IsBarrier(hbQueue[c][i]) => hbQueue[c][i].frame \in Nat
  BY <1>2, Messages
<1> QED BY <1>1, <1>2, <1>3 DEF QueueInv

\* What a channel in order stays in order under: a barrier is sent on it ...
LEMMA OrderBarrier ==
    ASSUME NEW q \in Seq(HbMsg), NEW m \in HbMsg, IsBarrier(m), NEW h, NEW l, OrderAt(q, h, l)
    PROVE  OrderAt(Append(q, m), h, l)
<1>1. /\ Len(q) \in Nat /\ DOMAIN q = 1..Len(q) /\ DOMAIN Append(q, m) = 1..(Len(q) + 1)
      /\ Append(q, m)[Len(q) + 1] = m /\ \A i \in DOMAIN q : Append(q, m)[i] = q[i]
  OBVIOUS
<1>2. \A i \in DOMAIN Append(q, m) :
        ~IsBarrier(Append(q, m)[i]) => i \in DOMAIN q /\ Append(q, m)[i] = q[i]
  BY <1>1
<1> QED BY <1>2 DEF OrderAt, NoneBefore

\* ... the heartbeat being admitted is sent on it ...
LEMMA OrderFrame ==
    ASSUME NEW q \in Seq(HbMsg), NEW r \in 1..MaxRev, NEW h, NEW l, OrderAt(q, h, l),
           loop.at = "admit", loop.change.rev = r, Upstream(r)
    PROVE  OrderAt(Append(q, Frame(r)), h, l)
<1> DEFINE m == Frame(r)
<1>1. m \in HbMsg /\ m.frame = r
  BY Messages
<1> HIDE DEF m
<1>2. /\ Len(q) \in Nat /\ DOMAIN q = 1..Len(q) /\ DOMAIN Append(q, m) = 1..(Len(q) + 1)
      /\ Append(q, m)[Len(q) + 1] = m /\ \A i \in DOMAIN q : Append(q, m)[i] = q[i]
  BY <1>1
<1>3. \A i \in DOMAIN Append(q, m) :
        \/ i = Len(q) + 1 /\ Append(q, m)[i] = m
        \/ i \in DOMAIN q /\ i < Len(q) + 1 /\ Append(q, m)[i] = q[i]
  BY <1>2
<1>4. \A i \in DOMAIN q : ~IsBarrier(q[i]) => q[i].frame <= r
  BY DEF OrderAt, Upstream
<1>5. l <= r /\ (h # None => h <= r)
  BY DEF OrderAt, Upstream
<1>6. \A i, j \in DOMAIN Append(q, m) :
         i < j /\ ~IsBarrier(Append(q, m)[i]) /\ ~IsBarrier(Append(q, m)[j])
           => Append(q, m)[i].frame <= Append(q, m)[j].frame
  <2>1. SUFFICES ASSUME NEW i \in DOMAIN Append(q, m), NEW j \in DOMAIN Append(q, m), i < j,
                        ~IsBarrier(Append(q, m)[i]), ~IsBarrier(Append(q, m)[j])
                 PROVE  Append(q, m)[i].frame <= Append(q, m)[j].frame
    OBVIOUS
  <2>2. i \in DOMAIN q /\ Append(q, m)[i] = q[i]
    BY <1>2, <2>1
  <2> QED BY <1>1, <1>3, <1>4, <2>1, <2>2 DEF OrderAt
<1>7. OrderAt(Append(q, m), h, l)
  BY <1>1, <1>3, <1>5, <1>6 DEF OrderAt, NoneBefore
<1> QED BY <1>7 DEF m

\* ... its oldest message is taken from it ...
LEMMA OrderTaken ==
    ASSUME NEW q \in Seq(HbMsg), q # << >>, NEW l, OrderAt(q, None, l)
    PROVE  IF IsBarrier(Head(q)) THEN OrderAt(Tail(q), None, l)
                                 ELSE OrderAt(Tail(q), Head(q).frame, l)
<1>1. /\ Head(q) = q[1] /\ 1 \in DOMAIN q
      /\ \A i \in DOMAIN Tail(q) : i + 1 \in DOMAIN q /\ Tail(q)[i] = q[i + 1] /\ i \in Nat \ {0}
  BY TailFacts
<1>2. OrderAt(Tail(q), None, l)
  BY <1>1 DEF OrderAt, NoneBefore
<1>3. ASSUME ~IsBarrier(Head(q)) PROVE OrderAt(Tail(q), Head(q).frame, l)
  <2>1. NoneBefore(Tail(q), Head(q).frame)
    BY <1>1, <1>3 DEF OrderAt, NoneBefore
  <2>2. Upstream(Head(q).frame) /\ l <= Head(q).frame
    BY <1>1, <1>3 DEF OrderAt, NoneBefore
  <2> QED BY <1>2, <2>1, <2>2 DEF OrderAt
<1> QED BY <1>2, <1>3

\* ... and the frame in hand is sent, or not.
LEMMA OrderSent ==
    ASSUME NEW q, NEW h, NEW l, OrderAt(q, h, l), h # None
    PROVE  OrderAt(q, None, l) /\ OrderAt(q, None, h)
BY DEF OrderAt

\* The steps that touch what is under way to a connection.
LEMMA UnderWaySteps ==
    ASSUME [FenceNext]_fenceVars
    PROVE  \/ UNCHANGED <<hbQueue, inHand, lastSent>>
           \/ admitHeartbeat
           \/ \E c \in Conns : hbLoop(c) \/ hbSend(c) \/ writeEnds(c)
           \/ \E a \in Admins : bumpHeartbeatGeneration(a)
<1>1. CASE UNCHANGED fenceVars
  BY <1>1 DEF fenceVars, connVars
<1>2. CASE Start \/ TickOnce \/ Publish
  BY <1>2 DEF Start, TickOnce, Publish, connVars
<1>3. CASE ReceiveNext \/ broadcast \/ broadcastDone
  BY <1>3 DEF ReceiveNext, broadcast, broadcastDone, connVars
<1>4. ASSUME NEW c \in Conns, broadcastTo(c) \/ handleConn(c) \/ peerCloses(c)
      PROVE  UNCHANGED <<hbQueue, inHand, lastSent>>
  BY <1>4 DEF broadcastTo, handleConn, peerCloses, acceptConn, readUFrame,
        startOrStopDataTransfer, cleanup, closeSocket
<1>5. ASSUME NEW a \in Admins, FenceHeartbeat(a) \/ fenceReturns(a) \/ lockCoord(a)
               \/ applyHeartbeatTransition(a) \/ setDrop(a) \/ closeAll(a) \/ setHang(a)
      PROVE  UNCHANGED <<hbQueue, inHand, lastSent>>
  BY <1>5 DEF FenceHeartbeat, fenceReturns, lockCoord, applyHeartbeatTransition, setDrop,
        closeAll, setHang, connVars
<1> QED BY <1>1, <1>2, <1>3, <1>4, <1>5 DEF FenceNext, spontaneousLoop, ApplyCoordinated

\* An entry of a channel before a send, and after it.
LEMMA SentTo ==
    ASSUME NEW msgs, enqueueOrDisconnect(msgs), NEW c \in Conns
    PROVE  \/ hbQueue'[c] = hbQueue[c]
           \/ hbQueue'[c] = Append(hbQueue[c], msgs[c]) /\ c \in conns /\ ~Full(c)
BY DEF enqueueOrDisconnect

\* Heartbeats stay in order on their way, whatever step is taken.
LEMMA OrderStep ==
    ASSUME FenceIInv, FenceIInv', OrderInv, [FenceNext]_fenceVars
    PROVE  OrderInv'
<1>1. FeedInv' /\ \A r \in Nat : Upstream(r) => Upstream(r)'
  BY FeedStep DEF OrderInv
<1>2. QueueInv /\ QueueInv' /\ LoopInv /\ AdminInv
  BY DEF FenceIInv
<1>3. ASSUME NEW c \in Conns, OrderAt(hbQueue'[c], inHand'[c], lastSent'[c])
      PROVE  OrderAt(hbQueue[c], inHand[c], lastSent[c])'
  <2>1. /\ lastSent'[c] \in Nat
        /\ inHand'[c] # None => inHand'[c] \in Nat
        /\ \A i \in DOMAIN hbQueue'[c] :
             ~IsBarrier(hbQueue'[c][i]) => hbQueue'[c][i].frame \in Nat
    <3>1. QueueInv' /\ c \in Conns
      BY <1>2
    <3>2. hbQueue'[c] \in Seq(HbMsg) /\ lastSent'[c] \in Nat /\ (inHand'[c] # None => inHand'[c] \in Nat)
      BY <3>1 DEF QueueInv
    <3>3. \A i \in DOMAIN hbQueue'[c] : hbQueue'[c][i] \in HbMsg
      BY <3>2
    <3> QED BY <3>2, <3>3, Messages
  <2> QED BY <1>1, <1>3, <2>1 DEF OrderAt, NoneBefore, IsBarrier
<1>4. SUFFICES ASSUME NEW c \in Conns
               PROVE  OrderAt(hbQueue'[c], inHand'[c], lastSent'[c])
  BY <1>1, <1>3 DEF OrderInv
<1>5. OrderAt(hbQueue[c], inHand[c], lastSent[c]) /\ hbQueue[c] \in Seq(HbMsg)
  BY <1>2, ChannelTypes DEF OrderInv
<1>6. CASE UNCHANGED <<hbQueue, inHand, lastSent>>
  BY <1>5, <1>6
<1>7. CASE admitHeartbeat
  <2>1. UNCHANGED <<inHand, lastSent>> /\ loop.at = "admit"
    BY <1>7 DEF admitHeartbeat
  <2>2. CASE hbQueue'[c] = hbQueue[c]
    BY <1>5, <2>1, <2>2
  <2>3. CASE hbQueue'[c] # hbQueue[c]
    <3> DEFINE r == loop.change.rev
    <3>1. r \in 1..MaxRev /\ r <= rev
      BY <1>2, <2>1 DEF LoopInv, Change
    <3>2. Upstream(r)
      BY <2>1, <3>1 DEF OrderInv, FeedInv, Upstream
    <3>3. enqueueOrDisconnect([d \in Conns |-> Frame(r)])
      BY <1>7, <2>3 DEF admitHeartbeat
    <3>4. hbQueue'[c] = Append(hbQueue[c], Frame(r))
      BY <2>3, <3>3, SentTo
    <3> QED BY <1>5, <2>1, <3>1, <3>2, <3>4, OrderFrame
  <2> QED BY <2>2, <2>3
<1>8. ASSUME NEW d \in Conns, hbLoop(d) PROVE OrderAt(hbQueue'[c], inHand'[c], lastSent'[c])
  <2>1. lastSent' = lastSent /\ inHand[d] = None /\ hbQueue[d] # << >>
        /\ hbQueue' = [hbQueue EXCEPT ![d] = Tail(@)]
        /\ IF IsBarrier(Head(hbQueue[d])) THEN inHand' = inHand
                                          ELSE inHand' = [inHand EXCEPT ![d] = Head(hbQueue[d]).frame]
    BY <1>8 DEF hbLoop
  <2>2. hbQueue \in [Conns -> Seq(HbMsg)] /\ DOMAIN inHand = Conns
    BY <1>2 DEF QueueInv
  <2>3. CASE c # d
    BY <1>5, <2>1, <2>2, <2>3
  <2>4. CASE c = d
    <3>1. OrderAt(hbQueue[c], None, lastSent[c]) /\ hbQueue'[c] = Tail(hbQueue[c])
      BY <1>5, <2>1, <2>2, <2>4
    <3>2. IF IsBarrier(Head(hbQueue[c])) THEN inHand'[c] = None
                                         ELSE inHand'[c] = Head(hbQueue[c]).frame
      BY <2>1, <2>2, <2>4
    <3>3. IF IsBarrier(Head(hbQueue[c])) THEN OrderAt(Tail(hbQueue[c]), None, lastSent[c])
                            ELSE OrderAt(Tail(hbQueue[c]), Head(hbQueue[c]).frame, lastSent[c])
      BY <1>5, <2>1, <2>4, <3>1, OrderTaken
    <3> QED BY <2>1, <3>1, <3>2, <3>3
  <2> QED BY <2>3, <2>4
<1>9. ASSUME NEW d \in Conns, hbSend(d) PROVE OrderAt(hbQueue'[c], inHand'[c], lastSent'[c])
  <2>1. /\ UNCHANGED <<hbQueue, lastSent>> /\ inHand[d] # None
        /\ inHand' = inHand \/ inHand' = [inHand EXCEPT ![d] = None]
    BY <1>9 DEF hbSend
  <2>2. inHand'[c] = inHand[c] \/ (inHand[c] # None /\ inHand'[c] = None)
    BY <1>2, <2>1 DEF QueueInv
  <2> QED BY <1>5, <2>1, <2>2, OrderSent
<1>10. ASSUME NEW d \in Conns, writeEnds(d) PROVE OrderAt(hbQueue'[c], inHand'[c], lastSent'[c])
  <2>1. /\ hbQueue' = hbQueue
        /\ \/ inHand' = inHand /\ lastSent' = lastSent
           \/ /\ writer[d] = "hbLoop" /\ inHand' = [inHand EXCEPT ![d] = None]
              /\ lastSent' = lastSent \/ lastSent' = [lastSent EXCEPT ![d] = inHand[d]]
    BY <1>10 DEF writeEnds
  <2>2. \/ inHand'[c] = inHand[c] /\ lastSent'[c] = lastSent[c]
        \/ /\ inHand[c] # None /\ inHand'[c] = None
           /\ lastSent'[c] = lastSent[c] \/ lastSent'[c] = inHand[c]
    BY <1>2, <2>1 DEF QueueInv
  <2> QED BY <1>5, <2>1, <2>2, OrderSent
<1>11. ASSUME NEW a \in Admins, bumpHeartbeatGeneration(a)
       PROVE  OrderAt(hbQueue'[c], inHand'[c], lastSent'[c])
  <2>1. UNCHANGED <<inHand, lastSent>> /\ enqueueOrDisconnect([d \in Conns |-> Barrier(d, ops)])
    BY <1>11 DEF bumpHeartbeatGeneration
  <2>2. ops \in 1..MaxOps
    BY <1>2, <1>11, FenceAssumption DEF bumpHeartbeatGeneration, AdminInv
  <2>3. Barrier(c, ops) \in HbMsg /\ IsBarrier(Barrier(c, ops))
    BY <2>2, Messages
  <2>4. hbQueue'[c] = hbQueue[c] \/ hbQueue'[c] = Append(hbQueue[c], Barrier(c, ops))
    BY <2>1, SentTo
  <2> QED BY <1>5, <2>1, <2>3, <2>4, OrderBarrier
<1> QED BY <1>6, <1>7, <1>8, <1>9, <1>10, <1>11, UnderWaySteps

LEMMA OrderInit == FenceInit => OrderInv
<1> SUFFICES ASSUME FenceInit PROVE OrderInv
  OBVIOUS
<1>1. Tick \in Writers /\ Feed \in Subscribers
  BY FenceAssumption DEF Tick
<1>2. rev = 0 /\ subQ[Feed] = << >> /\ pub[Tick] = {} /\ loop.at = "recv"
  BY <1>1 DEF FenceInit, Init, idleLoop
<1>3. \A c \in Conns : hbQueue[c] = << >> /\ inHand[c] = None /\ lastSent[c] = 0
  BY DEF FenceInit
<1> QED BY <1>2, <1>3 DEF OrderInv, FeedInv, OrderAt, NoneBefore, Upstream

THEOREM OrderCorrect == FenceSpec => []OrderInv
<1>1. FenceIInv /\ FenceIInv' /\ OrderInv /\ [FenceNext]_fenceVars => OrderInv'
  BY OrderStep
<1> QED BY <1>1, OrderInit, FenceCorrect, PTL DEF FenceSpec

\* A client's heartbeats arrive in the order they were generated: whatever is
\* still under way, or yet to be admitted, is no older (admitHeartbeat, hbLoop).
THEOREM HeartbeatsAlwaysInOrder == FenceSpec => HeartbeatsInOrder
<1>1. FenceIInv /\ OrderInv /\ [FenceNext]_fenceVars
        => [\A c \in Conns : lastSent'[c] >= lastSent[c]]_fenceVars
  <2> SUFFICES ASSUME FenceIInv, OrderInv, [FenceNext]_fenceVars, NEW c \in Conns
               PROVE  lastSent'[c] >= lastSent[c]
    OBVIOUS
  <2>1. lastSent[c] \in Nat /\ QueueInv /\ (inHand[c] # None => inHand[c] \in Nat)
    BY ChannelTypes DEF FenceIInv
  <2>2. CASE lastSent' = lastSent
    BY <2>1, <2>2
  <2>3. ASSUME NEW d \in Conns, writeEnds(d), lastSent' # lastSent PROVE lastSent'[c] >= lastSent[c]
    <3>1. writer[d] = "hbLoop" /\ lastSent' = [lastSent EXCEPT ![d] = inHand[d]]
      BY <2>3 DEF writeEnds
    <3>2. lastSent'[c] = lastSent[c] \/ (inHand[c] # None /\ lastSent'[c] = inHand[c])
      BY <2>1, <3>1 DEF QueueInv
    <3>3. inHand[c] # None => lastSent[c] <= inHand[c]
      BY DEF OrderInv, OrderAt
    <3> QED BY <2>1, <3>2, <3>3
  <2> QED BY <2>2, <2>3, UnderWaySteps DEF admitHeartbeat, hbLoop, hbSend, bumpHeartbeatGeneration
<1> QED BY <1>1, FenceCorrect, OrderCorrect, PTL DEF FenceSpec, HeartbeatsInOrder

-----------------------------------------------------------------------------
\* Only stale heartbeats are discarded.

\* Every revision up to b belongs to an earlier generation.
Superseded(b) == \A r \in 1..b : genOf[r] < gen

\* What admitHeartbeat discards is of an earlier generation, or a pause's: the
\* boundary, and the one that is about to be set, are the store's revision at a
\* transition, and a transition begins a generation.
GenInv ==
    /\ boundary <= rev /\ Superseded(boundary)
    /\ \A r \in 1..rev : genOf[r] <= gen
    /\ \A a \in Admins : admin[a].at = "bump" =>
         admin[a].boundary <= rev /\ Superseded(admin[a].boundary)
    /\ hbFrozen => \A r \in 1..rev : genOf[r] < gen \/ r \in paused

\* The steps that begin a generation, set the boundary or add a revision.
LEMMA GenSteps ==
    ASSUME StoreIInv, AdminInv, [FenceNext]_fenceVars
    PROVE  \/ /\ UNCHANGED <<rev, boundary, hbFrozen, gen, genOf, paused>>
              /\ \A a \in Admins : admin'[a].at = "bump" => admin'[a] = admin[a]
           \/ TickOnce
           \/ \E a \in Admins : applyHeartbeatTransition(a) \/ bumpHeartbeatGeneration(a)
<1> DEFINE Same == /\ UNCHANGED <<rev, boundary, hbFrozen, gen, genOf, paused>>
                   /\ \A a \in Admins : admin'[a].at = "bump" => admin'[a] = admin[a]
<1>1. CASE UNCHANGED fenceVars
  BY <1>1 DEF fenceVars, storeVars, linkVars, adminVars, auxVars
<1>2. CASE Start \/ Publish \/ ReceiveNext
  BY <1>2 DEF Start, Subscribe, Publish, publish, ReceiveNext, ReceiveChange, linkVars, adminVars,
        auxVars
<1>3. CASE admitHeartbeat \/ broadcast \/ broadcastDone
  BY <1>3 DEF admitHeartbeat, broadcast, broadcastDone, storeVars, linkVars, adminVars, auxVars
<1>4. ASSUME NEW c \in Conns, hbLoop(c) \/ hbSend(c) \/ writeEnds(c) \/ handleConn(c)
                                \/ peerCloses(c) \/ broadcastTo(c)
      PROVE  Same
  BY <1>4 DEF hbLoop, hbSend, writeEnds, handleConn, peerCloses, broadcastTo, acceptConn,
        readUFrame, startOrStopDataTransfer, cleanup, closeSocket, storeVars, linkVars,
        adminVars, auxVars
<1>5. ASSUME NEW a \in Admins, lockCoord(a) \/ setDrop(a) \/ closeAll(a) \/ setHang(a)
                                 \/ FenceHeartbeat(a) \/ fenceReturns(a)
      PROVE  Same
  <2>1. UNCHANGED <<rev, boundary, hbFrozen, gen, genOf, paused>>
    BY <1>5 DEF lockCoord, setDrop, closeAll, setHang, FenceHeartbeat, fenceReturns, storeVars,
          linkVars, auxVars
  <2>2. \E from, to : Moves(a, from, to) /\ to # "bump"
    BY <1>5, AdminMoves
  <2>3. \A b \in Admins : admin'[b].at = "bump" => admin'[b] = admin[b]
    BY <2>2 DEF Moves
  <2> QED BY <2>1, <2>3
<1> QED BY <1>1, <1>2, <1>3, <1>4, <1>5 DEF FenceNext, spontaneousLoop, ApplyCoordinated

LEMMA GenStep ==
    ASSUME FenceIInv, GenInv, [FenceNext]_fenceVars
    PROVE  GenInv'
<1>1. StoreIInv /\ AdminInv /\ rev \in Nat /\ rev \in 0..MaxRev /\ MaxRev \in Nat
  BY StoreAssumption DEF FenceIInv, StoreIInv, TypeOK
<1>2. /\ gen \in Nat /\ boundary \in Nat /\ genOf \in [0..MaxRev -> Nat]
      /\ \A a \in Admins : admin[a].boundary \in Nat
  <2>1. genOf \in [0..MaxRev -> 0..MaxOps] /\ gen \in 0..ops /\ boundary \in 0..MaxRev
        /\ admin \in [Admins -> AdminRecord]
    BY <1>1 DEF AdminInv
  <2>2. genOf \in [0..MaxRev -> Nat]
    BY <2>1, FenceAssumption
  <2>3. \A a \in Admins : admin[a].boundary \in 0..MaxRev
    BY <2>1 DEF AdminRecord
  <2> QED BY <1>1, <2>1, <2>2, <2>3
<1>3. CASE /\ UNCHANGED <<rev, boundary, hbFrozen, gen, genOf, paused>>
           /\ \A a \in Admins : admin'[a].at = "bump" => admin'[a] = admin[a]
  BY <1>3 DEF GenInv, Superseded
<1>4. CASE TickOnce
  <2>1. /\ rev' = rev + 1 /\ rev < MaxRev
        /\ UNCHANGED <<boundary, hbFrozen, gen, admin>>
        /\ genOf' = [genOf EXCEPT ![rev + 1] = gen]
        /\ paused' = IF hbFrozen THEN paused \cup {rev + 1} ELSE paused
    BY <1>4, TickCommits DEF TickOnce, linkVars, adminVars
  <2>2. genOf'[rev + 1] = gen /\ \A r \in 1..rev : genOf'[r] = genOf[r]
    BY <1>1, <1>2, <2>1
  <2>3. ASSUME NEW b \in Nat, b <= rev, Superseded(b) PROVE \A r \in 1..b : genOf'[r] < gen'
    BY <1>1, <2>1, <2>2, <2>3 DEF Superseded
  <2>4. boundary' <= rev' /\ Superseded(boundary)'
    BY <1>1, <1>2, <2>1, <2>3 DEF GenInv, Superseded
  <2>5. \A a \in Admins : admin'[a].at = "bump" =>
          admin'[a].boundary <= rev' /\ \A r \in 1..admin'[a].boundary : genOf'[r] < gen'
    <3>1. SUFFICES ASSUME NEW a \in Admins, admin[a].at = "bump"
                   PROVE  admin[a].boundary <= rev' /\ \A r \in 1..admin[a].boundary : genOf'[r] < gen'
      BY <2>1
    <3>2. admin[a].boundary <= rev /\ Superseded(admin[a].boundary) /\ admin[a].boundary \in Nat
      BY <1>2, <3>1 DEF GenInv
    <3> QED BY <1>1, <2>1, <2>3, <3>2
  <2>6. \A r \in 1..rev' : r \in 1..rev \/ r = rev + 1
    BY <1>1, <2>1
  <2>7. \A r \in 1..rev' : genOf'[r] <= gen'
    BY <1>2, <2>1, <2>2, <2>6 DEF GenInv
  <2>8. hbFrozen' => \A r \in 1..rev' : genOf'[r] < gen' \/ r \in paused'
    BY <1>2, <2>1, <2>2, <2>6 DEF GenInv
  <2> QED BY <2>4, <2>5, <2>7, <2>8 DEF GenInv, Superseded
<1>5. ASSUME NEW a \in Admins, applyHeartbeatTransition(a) PROVE GenInv'
  <2>1. /\ UNCHANGED <<rev, boundary, genOf, paused>> /\ gen' = gen + 1 /\ coord = a
    BY <1>1, <1>5 DEF applyHeartbeatTransition, storeVars, AdminInv
  <2>2. Moves(a, "apply", "bump") /\ admin'[a].boundary = rev
    BY <1>1, <1>5, AdminMoves
  <2>3. \A r \in 1..rev : genOf'[r] < gen'
    BY <1>1, <1>2, <2>1 DEF GenInv
  <2>4. \A b \in Admins \ {a} : admin'[b].at # "bump"
    BY <1>1, <2>1, <2>2 DEF Moves, AdminInv
  <2>5. Superseded(boundary)'
    BY <1>1, <1>2, <2>1, <2>3 DEF GenInv, Superseded
  <2>6. \A b \in Admins : admin'[b].at = "bump" =>
          admin'[b].boundary <= rev' /\ Superseded(admin[b].boundary)'
    BY <1>1, <2>1, <2>2, <2>3, <2>4 DEF Superseded
  <2>7. \A r \in 1..rev' : genOf'[r] < gen' /\ genOf'[r] <= gen'
    BY <1>1, <1>2, <2>1, <2>3
  <2> QED BY <1>1, <2>1, <2>5, <2>6, <2>7 DEF GenInv
<1>6. ASSUME NEW a \in Admins, bumpHeartbeatGeneration(a) PROVE GenInv'
  <2>1. /\ UNCHANGED <<rev, hbFrozen, gen, genOf, paused>> /\ boundary' = admin[a].boundary
        /\ admin[a].at = "bump" /\ coord = a
    BY <1>1, <1>6 DEF bumpHeartbeatGeneration, storeVars, auxVars, AdminInv
  <2>2. Moves(a, "bump", "fence")
    BY <1>1, <1>6, AdminMoves
  <2>3. \A b \in Admins : admin'[b].at # "bump"
    BY <1>1, <2>1, <2>2 DEF Moves, AdminInv
  <2> QED BY <2>1, <2>3 DEF GenInv, Superseded
<1> QED BY <1>1, <1>3, <1>4, <1>5, <1>6, GenSteps

LEMMA GenInit == FenceInit => GenInv
BY DEF FenceInit, Init, GenInv, Superseded, idleAdmin

THEOREM GenCorrect == FenceSpec => []GenInv
<1>1. FenceIInv /\ GenInv /\ [FenceNext]_fenceVars => GenInv'
  BY GenStep
<1> QED BY <1>1, GenInit, FenceCorrect, PTL DEF FenceSpec

\* The step that takes a heartbeat out of the loop's hands is admitHeartbeat's.
LEMMA AdmitSteps ==
    ASSUME LoopInv, [FenceNext]_fenceVars, loop.at = "admit", loop'.at = "recv"
    PROVE  admitHeartbeat
<1>1. CASE UNCHANGED <<loop>>
  BY <1>1
<1>2. ASSUME NEW c \in Conns, writeEnds(c) PROVE FALSE
  <2>1. loop' = loop \/ loop' = [loop EXCEPT !.owes = @ \ {c}]
    BY <1>2 DEF writeEnds
  <2> QED BY <2>1 DEF LoopInv
<1>3. ASSUME NEW c \in Conns, hbLoop(c) \/ hbSend(c) \/ handleConn(c) \/ peerCloses(c)
      PROVE  UNCHANGED <<loop>>
  BY <1>3 DEF hbLoop, hbSend, handleConn, peerCloses, acceptConn, readUFrame,
        startOrStopDataTransfer, cleanup, closeSocket
<1>4. ASSUME NEW a \in Admins, ApplyCoordinated(a) \/ FenceHeartbeat(a) \/ fenceReturns(a)
      PROVE  UNCHANGED <<loop>>
  BY <1>4 DEF ApplyCoordinated, FenceHeartbeat, fenceReturns, lockCoord, applyHeartbeatTransition,
        bumpHeartbeatGeneration, setDrop, closeAll, setHang
<1>5. CASE Start \/ TickOnce \/ Publish \/ UNCHANGED fenceVars
  BY <1>5 DEF Start, TickOnce, Publish, fenceVars
<1>6. ~ReceiveNext /\ ~broadcast /\ ~broadcastDone /\ \A c \in Conns : ~broadcastTo(c)
  BY DEF ReceiveNext, broadcast, broadcastDone, broadcastTo
<1> QED BY <1>1, <1>2, <1>3, <1>4, <1>5, <1>6 DEF FenceNext, spontaneousLoop

\* A heartbeat that is discarded was generated under a pause, or before the
\* latest pause or clear: a genuine one is never lost (admitHeartbeat).
THEOREM OnlyStaleHeartbeatsEverDiscarded == FenceSpec => OnlyStaleHeartbeatsAreDiscarded
<1> DEFINE Discarded == /\ loop.at = "admit" /\ loop'.at = "recv" /\ hbQueue' = hbQueue
                        /\ \E c \in conns : ~Full(c)
           Stale == genOf[loop.change.rev] < gen \/ loop.change.rev \in paused
<1>1. FenceIInv /\ GenInv /\ [FenceNext]_fenceVars => [Discarded => Stale]_fenceVars
  <2>1. SUFFICES ASSUME FenceIInv, GenInv, [FenceNext]_fenceVars, Discarded PROVE Stale
    OBVIOUS
  <2>2. admitHeartbeat /\ LoopInv /\ QueueInv /\ ConnInv
    BY <2>1, AdmitSteps DEF FenceIInv
  <2>3. loop.change.rev \in 1..rev /\ rev \in Nat
    BY <2>1, <2>2, StoreAssumption DEF LoopInv, Change, FenceIInv, StoreIInv, TypeOK
  <2>4. Discards(loop.change)
    <3>1. SUFFICES ASSUME ~Discards(loop.change) PROVE FALSE
      OBVIOUS
    <3>2. PICK c \in Conns : c \in conns /\ ~Full(c)
      BY <2>1, <2>2 DEF ConnInv
    <3>3. hbQueue'[c] = Append(hbQueue[c], Frame(loop.change.rev))
      BY <2>2, <3>1, <3>2 DEF admitHeartbeat, enqueueOrDisconnect
    <3>4. hbQueue[c] \in Seq(HbMsg)
      BY <2>2 DEF QueueInv
    <3>5. Len(Append(hbQueue[c], Frame(loop.change.rev))) = Len(hbQueue[c]) + 1
          /\ Len(hbQueue[c]) \in Nat
      BY <3>4
    <3> QED BY <2>1, <3>3, <3>5
  <2>5. boundary \in Nat
    BY <2>1 DEF FenceIInv, AdminInv
  <2> QED BY <2>1, <2>3, <2>4, <2>5 DEF Discards, GenInv, Superseded
<1> QED BY <1>1, FenceCorrect, GenCorrect, PTL DEF FenceSpec, OnlyStaleHeartbeatsAreDiscarded

-----------------------------------------------------------------------------
\* No stale frame.

\* The barriers of c's channel q, when A has been acknowledged: they are c's,
\* of ever later operations, and none of them is acknowledged.
BarriersAt(c, q, A) ==
    \A i \in DOMAIN q : IsBarrier(q[i]) =>
        /\ q[i].ack[1] = c
        /\ \A ack \in A : ack[1] = c => ack[2] < q[i].ack[2]
        /\ \A j \in DOMAIN q : i < j /\ IsBarrier(q[j]) => q[i].ack[2] < q[j].ack[2]

\* Every barrier in c's channel is of generation n or an earlier one.
UpTo(q, n) == \A i \in DOMAIN q : IsBarrier(q[i]) => q[i].ack[2] <= n

\* A generation is given to one bump only.
BarrierInv ==
    /\ \A ack \in acked : ack[2] <= ops
    /\ \A c \in Conns : BarriersAt(c, hbQueue[c], acked) /\ UpTo(hbQueue[c], ops)
    /\ \A a \in Admins : admin[a].at \in {"apply", "bump"} =>
         /\ \A ack \in acked : ack[2] <= ops - 1
         /\ \A c \in Conns : UpTo(hbQueue[c], ops - 1)

LEMMA BarrierTypes ==
    ASSUME NEW m \in HbMsg, IsBarrier(m)
    PROVE  m.ack \in Acks /\ m.ack[1] \in Conns /\ m.ack[2] \in Nat /\ m.ack = <<m.ack[1], m.ack[2]>>
BY Messages, FenceAssumption DEF Acks

LEMMA BarrierFields ==
    ASSUME NEW c \in Conns, NEW n \in 1..MaxOps
    PROVE  Barrier(c, n).ack = <<c, n>> /\ IsBarrier(Barrier(c, n)) /\ Barrier(c, n) \in HbMsg
BY Messages DEF Barrier

\* A channel's entries after a send.
LEMMA AppendEntries ==
    ASSUME NEW q \in Seq(HbMsg), NEW m \in HbMsg
    PROVE  /\ Len(q) \in Nat /\ DOMAIN q = 1..Len(q) /\ DOMAIN Append(q, m) = 1..(Len(q) + 1)
           /\ Append(q, m) \in Seq(HbMsg)
           /\ \A i \in DOMAIN q : i < Len(q) + 1 /\ Append(q, m)[i] = q[i]
           /\ Append(q, m)[Len(q) + 1] = m
           /\ \A i \in DOMAIN Append(q, m) : i \in DOMAIN q \/ i = Len(q) + 1
OBVIOUS

LEMMA TailEntries ==
    ASSUME NEW q \in Seq(HbMsg), q # << >>
    PROVE  /\ Tail(q) \in Seq(HbMsg) /\ Head(q) = q[1] /\ 1 \in DOMAIN q /\ Head(q) \in HbMsg
           /\ \A i \in DOMAIN Tail(q) :
                i \in Nat /\ 1 < i + 1 /\ i + 1 \in DOMAIN q /\ Tail(q)[i] = q[i + 1]
           /\ \A i \in DOMAIN q : i # 1 => i - 1 \in DOMAIN Tail(q) /\ (i - 1) + 1 = i
<1>1. /\ Tail(q) \in Seq(HbMsg) /\ Len(Tail(q)) = Len(q) - 1 /\ Head(q) = q[1] /\ Head(q) \in HbMsg
      /\ \A i \in DOMAIN Tail(q) : i + 1 \in DOMAIN q /\ Tail(q)[i] = q[i + 1]
  BY TailFacts
<1>2. Len(q) \in Nat \ {0} /\ DOMAIN q = 1..Len(q) /\ DOMAIN Tail(q) = 1..(Len(q) - 1)
  BY <1>1
<1> QED BY <1>1, <1>2

\* A barrier of a later generation than all before it may be sent ...
LEMMA BarrierSent ==
    ASSUME NEW c \in Conns, NEW q \in Seq(HbMsg), NEW A, NEW n \in 1..MaxOps,
           BarriersAt(c, q, A), UpTo(q, n - 1), \A ack \in A : ack[2] <= n - 1,
           A \subseteq Acks
    PROVE  BarriersAt(c, Append(q, Barrier(c, n)), A) /\ UpTo(Append(q, Barrier(c, n)), n)
<1>1. PICK m : m = Barrier(c, n)
  OBVIOUS
<1>2. m \in HbMsg /\ m.ack[1] = c /\ m.ack[2] = n /\ n \in Nat
  BY <1>1, BarrierFields, FenceAssumption
<1>3. \A i \in DOMAIN q : IsBarrier(q[i]) => q[i].ack[2] \in Nat /\ q[i].ack[2] < n
  <2>1. \A i \in DOMAIN q : q[i] \in HbMsg
    OBVIOUS
  <2>2. \A i \in DOMAIN q : IsBarrier(q[i]) => q[i].ack[2] \in Nat
    BY <2>1, BarrierTypes
  <2> QED BY <1>2, <2>2 DEF UpTo
<1>4. \A ack \in A : ack[2] \in Nat /\ ack[2] < n
  BY <1>2, FenceAssumption DEF Acks
<1>5. UpTo(Append(q, m), n)
  BY <1>2, <1>3, AppendEntries DEF UpTo
<1>6. ASSUME NEW i \in DOMAIN Append(q, m), IsBarrier(Append(q, m)[i])
      PROVE  /\ Append(q, m)[i].ack[1] = c
             /\ \A ack \in A : ack[1] = c => ack[2] < Append(q, m)[i].ack[2]
             /\ \A j \in DOMAIN Append(q, m) : i < j /\ IsBarrier(Append(q, m)[j]) =>
                  Append(q, m)[i].ack[2] < Append(q, m)[j].ack[2]
  <2>1. CASE i = Len(q) + 1
    <3>1. Append(q, m)[i] = m /\ \A j \in DOMAIN Append(q, m) : ~(i < j)
      BY <1>2, <2>1, AppendEntries
    <3> QED BY <1>2, <1>4, <3>1
  <2>2. CASE i \in DOMAIN q
    <3>1. Append(q, m)[i] = q[i] /\ IsBarrier(q[i])
      BY <1>2, <1>6, <2>2, AppendEntries
    <3>2. \A j \in DOMAIN Append(q, m) : Append(q, m)[j] = m \/ (j \in DOMAIN q /\ Append(q, m)[j] = q[j])
      BY <1>2, AppendEntries
    <3> QED BY <1>2, <1>3, <2>2, <3>1, <3>2 DEF BarriersAt
  <2> QED BY <1>2, <1>6, <2>1, <2>2, AppendEntries
<1>7. BarriersAt(c, Append(q, m), A)
  BY <1>6 DEF BarriersAt
<1> QED BY <1>1, <1>5, <1>7

\* ... a frame may be sent ...
LEMMA BarriersUnderFrame ==
    ASSUME NEW c \in Conns, NEW q \in Seq(HbMsg), NEW m \in HbMsg, ~IsBarrier(m), NEW A, NEW n,
           BarriersAt(c, q, A)
    PROVE  /\ BarriersAt(c, Append(q, m), A)
           /\ UpTo(q, n) => UpTo(Append(q, m), n)
<1>1. \A i \in DOMAIN Append(q, m) :
        IsBarrier(Append(q, m)[i]) => i \in DOMAIN q /\ Append(q, m)[i] = q[i]
  BY AppendEntries
<1> QED BY <1>1 DEF BarriersAt, UpTo

\* ... and the oldest message may be taken, and acknowledged.
LEMMA BarrierTaken ==
    ASSUME NEW c \in Conns, NEW q \in Seq(HbMsg), q # << >>, NEW A, NEW n, BarriersAt(c, q, A)
    PROVE  /\ BarriersAt(c, Tail(q), A)
           /\ IsBarrier(Head(q)) => Head(q).ack[1] = c /\ BarriersAt(c, Tail(q), A \cup {Head(q).ack})
           /\ UpTo(q, n) => UpTo(Tail(q), n) /\ (IsBarrier(Head(q)) => Head(q).ack[2] <= n)
<1>1. BarriersAt(c, Tail(q), A)
  <2>1. SUFFICES ASSUME NEW i \in DOMAIN Tail(q), IsBarrier(Tail(q)[i])
                 PROVE  /\ Tail(q)[i].ack[1] = c
                        /\ \A ack \in A : ack[1] = c => ack[2] < Tail(q)[i].ack[2]
                        /\ \A j \in DOMAIN Tail(q) : i < j /\ IsBarrier(Tail(q)[j]) =>
                             Tail(q)[i].ack[2] < Tail(q)[j].ack[2]
    BY DEF BarriersAt
  <2>2. i \in Nat /\ i + 1 \in DOMAIN q /\ Tail(q)[i] = q[i + 1]
    BY TailEntries
  <2>3. ASSUME NEW j \in DOMAIN Tail(q), i < j, IsBarrier(Tail(q)[j])
        PROVE  Tail(q)[i].ack[2] < Tail(q)[j].ack[2]
    <3>1. j \in Nat /\ j + 1 \in DOMAIN q /\ Tail(q)[j] = q[j + 1] /\ i + 1 < j + 1
      BY <2>2, <2>3, TailEntries
    <3> QED BY <2>1, <2>2, <2>3, <3>1 DEF BarriersAt
  <2> QED BY <2>1, <2>2, <2>3 DEF BarriersAt
<1>2. ASSUME IsBarrier(Head(q))
      PROVE  Head(q).ack[1] = c /\ BarriersAt(c, Tail(q), A \cup {Head(q).ack})
  <2>1. Head(q).ack[1] = c
    BY <1>2, TailEntries DEF BarriersAt
  <2>2. \A i \in DOMAIN Tail(q) : IsBarrier(Tail(q)[i]) => Head(q).ack[2] < Tail(q)[i].ack[2]
    BY <1>2, TailEntries DEF BarriersAt
  <2> QED BY <1>1, <2>1, <2>2 DEF BarriersAt
<1>3. ASSUME UpTo(q, n) PROVE UpTo(Tail(q), n) /\ (IsBarrier(Head(q)) => Head(q).ack[2] <= n)
  BY <1>3, TailEntries DEF UpTo
<1> QED BY <1>1, <1>2, <1>3

\* The steps that send, take or acknowledge a message, or count an operation.
LEMMA BarrierSteps ==
    ASSUME StoreIInv, AdminInv, [FenceNext]_fenceVars
    PROVE  \/ /\ UNCHANGED <<hbQueue, acked, ops>>
              /\ \A a \in Admins : admin'[a].at \in {"apply", "bump"} => admin[a].at \in {"apply", "bump"}
           \/ admitHeartbeat
           \/ \E c \in Conns : hbLoop(c)
           \/ \E a \in Admins : lockCoord(a) \/ bumpHeartbeatGeneration(a)
<1> DEFINE Same == /\ UNCHANGED <<hbQueue, acked, ops>>
                   /\ \A a \in Admins : admin'[a].at \in {"apply", "bump"} => admin[a].at \in {"apply", "bump"}
<1>1. CASE UNCHANGED fenceVars
  BY <1>1 DEF fenceVars, connVars, adminVars
<1>2. CASE Start \/ TickOnce \/ Publish
  BY <1>2 DEF Start, TickOnce, Publish, connVars, adminVars
<1>3. CASE ReceiveNext \/ broadcast \/ broadcastDone
  BY <1>3 DEF ReceiveNext, broadcast, broadcastDone, connVars, adminVars
<1>4. ASSUME NEW c \in Conns, broadcastTo(c) \/ handleConn(c) \/ peerCloses(c) \/ hbSend(c)
                                \/ writeEnds(c)
      PROVE  Same
  BY <1>4 DEF broadcastTo, handleConn, peerCloses, acceptConn, readUFrame, hbSend, writeEnds,
        startOrStopDataTransfer, cleanup, closeSocket, adminVars
<1>5. ASSUME NEW a \in Admins, FenceHeartbeat(a) \/ fenceReturns(a)
               \/ applyHeartbeatTransition(a) \/ setDrop(a) \/ closeAll(a) \/ setHang(a)
      PROVE  Same
  <2>1. UNCHANGED <<hbQueue, acked, ops>>
    BY <1>5 DEF FenceHeartbeat, fenceReturns, applyHeartbeatTransition, setDrop, closeAll, setHang,
          connVars
  <2>2. \E from, to : Moves(a, from, to) /\ (to \notin {"apply", "bump"} \/ from = "apply")
    BY <1>5, AdminMoves
  <2> QED BY <2>1, <2>2 DEF Moves
<1> QED BY <1>1, <1>2, <1>3, <1>4, <1>5 DEF FenceNext, spontaneousLoop, ApplyCoordinated

LEMMA BarrierStep ==
    ASSUME FenceIInv, BarrierInv, [FenceNext]_fenceVars
    PROVE  BarrierInv'
<1>1. StoreIInv /\ AdminInv /\ QueueInv /\ LoopInv
  BY DEF FenceIInv
<1>2. /\ hbQueue \in [Conns -> Seq(HbMsg)] /\ acked \subseteq Acks /\ ops \in Nat /\ MaxOps \in Nat
      /\ \A ack \in acked : ack[2] \in Nat
  BY <1>1, FenceAssumption DEF QueueInv, AdminInv, Acks
<1>3. CASE /\ UNCHANGED <<hbQueue, acked, ops>>
           /\ \A a \in Admins : admin'[a].at \in {"apply", "bump"} => admin[a].at \in {"apply", "bump"}
  BY <1>3 DEF BarrierInv, BarriersAt, UpTo, IsBarrier
<1>4. CASE admitHeartbeat
  <2>1. UNCHANGED <<acked, ops, admin>> /\ loop.change.rev \in 1..MaxRev
    BY <1>1, <1>4 DEF admitHeartbeat, adminVars, LoopInv, Change
  <2>2. Frame(loop.change.rev) \in HbMsg /\ ~IsBarrier(Frame(loop.change.rev))
    BY <2>1, Messages
  <2>3. \A c \in Conns : hbQueue'[c] = hbQueue[c]
                           \/ hbQueue'[c] = Append(hbQueue[c], Frame(loop.change.rev))
    BY <1>4 DEF admitHeartbeat, enqueueOrDisconnect
  <2>4. ASSUME NEW c \in Conns
        PROVE  /\ BarriersAt(c, hbQueue'[c], acked) /\ UpTo(hbQueue'[c], ops)
               /\ UpTo(hbQueue[c], ops - 1) => UpTo(hbQueue'[c], ops - 1)
    BY <1>2, <2>2, <2>3, BarriersUnderFrame DEF BarrierInv
  <2> QED BY <2>1, <2>4 DEF BarrierInv, BarriersAt, UpTo, IsBarrier
<1>5. ASSUME NEW d \in Conns, hbLoop(d) PROVE BarrierInv'
  <2> DEFINE q == hbQueue[d]
  <2>1. /\ UNCHANGED <<ops, admin>> /\ q # << >> /\ hbQueue' = [hbQueue EXCEPT ![d] = Tail(q)]
        /\ acked' = IF IsBarrier(Head(q)) THEN acked \cup {Head(q).ack} ELSE acked
    BY <1>5 DEF hbLoop, adminVars
  <2>2. q \in Seq(HbMsg) /\ hbQueue'[d] = Tail(q) /\ \A c \in Conns \ {d} : hbQueue'[c] = hbQueue[c]
    BY <1>2, <2>1
  <2>3. /\ BarriersAt(d, Tail(q), acked)
        /\ IsBarrier(Head(q)) => Head(q).ack[1] = d /\ BarriersAt(d, Tail(q), acked \cup {Head(q).ack})
        /\ \A n : UpTo(q, n) => UpTo(Tail(q), n) /\ (IsBarrier(Head(q)) => Head(q).ack[2] <= n)
    BY <2>1, <2>2, BarrierTaken DEF BarrierInv
  <2> HIDE DEF q
  <2>4. ASSUME NEW c \in Conns
        PROVE  BarriersAt(c, hbQueue'[c], acked') /\ \A n : UpTo(hbQueue[c], n) => UpTo(hbQueue'[c], n)
    <3>1. CASE c = d
      BY <2>1, <2>2, <2>3, <3>1 DEF q
    <3>2. CASE c # d
      <4>1. BarriersAt(c, hbQueue[c], acked) /\ hbQueue'[c] = hbQueue[c]
        BY <2>2, <3>2 DEF BarrierInv
      <4>2. \A ack \in acked' : ack \in acked \/ ack[1] # c
        BY <2>1, <2>3, <3>2
      <4> QED BY <4>1, <4>2 DEF BarriersAt
    <3> QED BY <3>1, <3>2
  <2>5. \A n : UpTo(hbQueue[d], n) /\ (\A ack \in acked : ack[2] <= n) => \A ack \in acked' : ack[2] <= n
    BY <2>1, <2>3 DEF q
  <2>6. \A ack \in acked' : ack[2] <= ops
    BY <2>5 DEF BarrierInv
  <2>7. \A c \in Conns : BarriersAt(c, hbQueue'[c], acked') /\ UpTo(hbQueue'[c], ops)
    BY <2>4 DEF BarrierInv
  <2>8. ASSUME NEW a \in Admins, admin[a].at \in {"apply", "bump"}
        PROVE  (\A ack \in acked' : ack[2] <= ops - 1) /\ \A c \in Conns : UpTo(hbQueue'[c], ops - 1)
    <3>1. (\A ack \in acked : ack[2] <= ops - 1) /\ \A c \in Conns : UpTo(hbQueue[c], ops - 1)
      BY <2>8 DEF BarrierInv
    <3> QED BY <2>4, <2>5, <3>1
  <2> QED BY <2>1, <2>6, <2>7, <2>8 DEF BarrierInv, BarriersAt, UpTo, IsBarrier
<1>6. ASSUME NEW a \in Admins, lockCoord(a) PROVE BarrierInv'
  <2>1. UNCHANGED <<hbQueue, acked>> /\ ops' = ops + 1 /\ ops' - 1 = ops
    BY <1>2, <1>6 DEF lockCoord, connVars
  <2>2. ASSUME NEW c \in Conns PROVE UpTo(hbQueue[c], ops + 1)
    <3>1. \A i \in DOMAIN hbQueue[c] : hbQueue[c][i] \in HbMsg
      BY <1>2
    <3>2. \A i \in DOMAIN hbQueue[c] : IsBarrier(hbQueue[c][i]) => hbQueue[c][i].ack[2] \in Nat
      BY <3>1, BarrierTypes
    <3> QED BY <1>2, <3>2 DEF BarrierInv, UpTo
  <2>3. \A ack \in acked : ack[2] <= ops + 1
    BY <1>2 DEF BarrierInv
  <2> QED BY <2>1, <2>2, <2>3 DEF BarrierInv, BarriersAt, UpTo, IsBarrier
<1>7. ASSUME NEW a \in Admins, bumpHeartbeatGeneration(a) PROVE BarrierInv'
  <2>1. UNCHANGED <<acked, ops>> /\ admin[a].at = "bump" /\ coord = a
    BY <1>1, <1>7 DEF bumpHeartbeatGeneration, AdminInv
  <2>2. ops \in 1..MaxOps
    BY <1>1, <2>1, FenceAssumption DEF AdminInv
  <2>3. \A c \in Conns : hbQueue'[c] = hbQueue[c] \/ hbQueue'[c] = Append(hbQueue[c], Barrier(c, ops))
    BY <1>7 DEF bumpHeartbeatGeneration, enqueueOrDisconnect
  <2>4. ASSUME NEW c \in Conns
        PROVE  BarriersAt(c, hbQueue'[c], acked) /\ UpTo(hbQueue'[c], ops)
    <3>1. /\ BarriersAt(c, hbQueue[c], acked) /\ UpTo(hbQueue[c], ops) /\ hbQueue[c] \in Seq(HbMsg)
          /\ UpTo(hbQueue[c], ops - 1) /\ \A ack \in acked : ack[2] <= ops - 1
      BY <1>2, <2>1 DEF BarrierInv
    <3> QED BY <1>2, <2>2, <2>3, <3>1, BarrierSent
  <2>5. \A b \in Admins : admin'[b].at \notin {"apply", "bump"}
    <3>1. Moves(a, "bump", "fence")
      BY <1>1, <1>7, AdminMoves
    <3> QED BY <1>1, <2>1, <3>1 DEF Moves, AdminInv
  <2> QED BY <2>1, <2>4, <2>5 DEF BarrierInv, BarriersAt, UpTo, IsBarrier
<1> QED BY <1>1, <1>3, <1>4, <1>5, <1>6, <1>7, BarrierSteps

LEMMA BarrierInit == FenceInit => BarrierInv
BY DEF FenceInit, BarrierInv, BarriersAt, UpTo, idleAdmin

LEMMA BarrierCorrect == FenceSpec => []BarrierInv
<1>1. FenceIInv /\ BarrierInv /\ [FenceNext]_fenceVars => BarrierInv'
  BY BarrierStep
<1> QED BY <1>1, BarrierInit, FenceCorrect, PTL DEF FenceSpec

-----------------------------------------------------------------------------
\* Nothing is on its way to a connection that is not accepted yet.
FreshInv ==
    \A c \in Conns : reader[c] = "none" => c \notin conns /\ hbQueue[c] = << >> /\ inHand[c] = None

LEMMA FreshStep ==
    ASSUME FenceIInv, FreshInv, [FenceNext]_fenceVars
    PROVE  FreshInv'
<1>1. QueueInv /\ ConnInv
  BY DEF FenceIInv
<1> DEFINE Kept(c) == /\ reader[c] = "none"
                      /\ c \notin conns => c \notin conns'
                      /\ c \notin conns /\ hbQueue[c] = << >> /\ inHand[c] = None
                           => hbQueue'[c] = << >> /\ inHand'[c] = None
<1>2. SUFFICES ASSUME NEW c \in Conns, reader'[c] = "none" PROVE Kept(c)
  BY DEF FreshInv
<1>3. CASE UNCHANGED <<reader, conns, hbQueue, inHand>>
  BY <1>2, <1>3
<1>4. CASE UNCHANGED fenceVars \/ Start \/ TickOnce \/ Publish
  BY <1>2, <1>4 DEF fenceVars, Start, TickOnce, Publish, connVars
<1>5. CASE ReceiveNext \/ broadcast \/ broadcastDone
  BY <1>2, <1>5 DEF ReceiveNext, broadcast, broadcastDone, connVars
<1>6. CASE admitHeartbeat
  <2>1. UNCHANGED <<reader, conns, inHand>> /\ (c \notin conns => hbQueue'[c] = hbQueue[c])
    BY <1>6 DEF admitHeartbeat, enqueueOrDisconnect
  <2> QED BY <1>2, <2>1
<1>7. ASSUME NEW d \in Conns, hbLoop(d) PROVE Kept(c)
  <2>1. UNCHANGED <<reader, conns>> /\ hbQueue[d] # << >>
        /\ (c # d => hbQueue'[c] = hbQueue[c] /\ inHand'[c] = inHand[c])
    BY <1>1, <1>7 DEF hbLoop, QueueInv
  <2> QED BY <1>2, <2>1
<1>8. ASSUME NEW d \in Conns, hbSend(d) PROVE Kept(c)
  <2>1. UNCHANGED <<reader, conns, hbQueue>> /\ (inHand'[c] = inHand[c] \/ inHand'[c] = None)
    BY <1>1, <1>8 DEF hbSend, QueueInv
  <2> QED BY <1>2, <2>1
<1>9. ASSUME NEW d \in Conns, writeEnds(d) PROVE Kept(c)
  <2>1. UNCHANGED <<conns, hbQueue>> /\ (inHand'[c] = inHand[c] \/ inHand'[c] = None)
    BY <1>1, <1>9 DEF writeEnds, QueueInv
  <2>2. reader'[c] = reader[c] \/ reader'[c] = "read"
    BY <1>1, <1>9 DEF writeEnds, ConnInv
  <2> QED BY <1>2, <2>1, <2>2
<1>10. ASSUME NEW d \in Conns, handleConn(d) PROVE Kept(c)
  <2>1. UNCHANGED <<hbQueue, inHand>> /\ conns' \subseteq conns \cup {d}
    BY <1>10 DEF handleConn, acceptConn, readUFrame, startOrStopDataTransfer, cleanup, closeSocket
  <2>2. CASE c # d
    <3>1. reader'[c] = reader[c]
      BY <1>1, <1>10, <2>2 DEF handleConn, acceptConn, readUFrame, startOrStopDataTransfer, cleanup,
            closeSocket, ConnInv
    <3> QED BY <1>2, <2>1, <2>2, <3>1
  <2>3. CASE c = d
    <3>1. ~acceptConn(d) /\ ~cleanup(d) /\ ~closeSocket(d) /\ ~readUFrame(d)
      BY <1>1, <1>2, <2>3 DEF acceptConn, cleanup, closeSocket, readUFrame, ConnInv
    <3>2. startOrStopDataTransfer(d)
      BY <1>10, <3>1 DEF handleConn
    <3>3. UNCHANGED <<conns, reader>>
      BY <3>2 DEF startOrStopDataTransfer
    <3> QED BY <1>2, <2>1, <3>3
  <2> QED BY <2>2, <2>3
<1>11. ASSUME NEW d \in Conns, broadcastTo(d) \/ peerCloses(d) PROVE Kept(c)
  BY <1>2, <1>11 DEF broadcastTo, peerCloses
<1>12. ASSUME NEW a \in Admins, FenceHeartbeat(a) \/ fenceReturns(a) \/ lockCoord(a)
               \/ applyHeartbeatTransition(a) \/ setDrop(a) \/ closeAll(a) \/ setHang(a)
       PROVE  Kept(c)
  BY <1>2, <1>12 DEF FenceHeartbeat, fenceReturns, lockCoord, applyHeartbeatTransition, setDrop,
        closeAll, setHang, connVars
<1>13. ASSUME NEW a \in Admins, bumpHeartbeatGeneration(a) PROVE Kept(c)
  <2>1. UNCHANGED <<reader, conns, inHand>> /\ (c \notin conns => hbQueue'[c] = hbQueue[c])
    BY <1>13 DEF bumpHeartbeatGeneration, enqueueOrDisconnect
  <2> QED BY <1>2, <2>1
<1> QED BY <1>4, <1>5, <1>6, <1>7, <1>8, <1>9, <1>10, <1>11, <1>12, <1>13
        DEF FenceNext, spontaneousLoop, ApplyCoordinated

\* No frame in channel q or in hand is of revision b or older ...
Cleared(q, h, b) ==
    /\ \A i \in DOMAIN q : ~IsBarrier(q[i]) => q[i].frame > b
    /\ h # None => h > b

\* ... or else none is behind a barrier whose ack is in S.
Guarded(q, h, b, S) ==
    \/ Cleared(q, h, b)
    \/ \E i \in DOMAIN q :
         /\ IsBarrier(q[i]) /\ q[i].ack \in S
         /\ \A j \in DOMAIN q : i < j /\ ~IsBarrier(q[j]) => q[j].frame > b

\* A channel that is cleared or guarded stays so under a send of a newer frame,
LEMMA GuardFrame ==
    ASSUME NEW q \in Seq(HbMsg), NEW h, NEW b, NEW m \in HbMsg, ~IsBarrier(m), m.frame > b
    PROVE  /\ Cleared(q, h, b) => Cleared(Append(q, m), h, b)
           /\ \A S : Guarded(q, h, b, S) => Guarded(Append(q, m), h, b, S)
<1>1. Cleared(q, h, b) => Cleared(Append(q, m), h, b)
  BY AppendEntries DEF Cleared
<1>2. ASSUME NEW S, NEW i \in DOMAIN q, IsBarrier(q[i]), q[i].ack \in S,
             \A j \in DOMAIN q : i < j /\ ~IsBarrier(q[j]) => q[j].frame > b
      PROVE  Guarded(Append(q, m), h, b, S)
  <2>1. i \in DOMAIN Append(q, m) /\ Append(q, m)[i] = q[i]
    BY AppendEntries
  <2>2. \A j \in DOMAIN Append(q, m) :
          i < j /\ ~IsBarrier(Append(q, m)[j]) => Append(q, m)[j].frame > b
    BY <1>2, AppendEntries
  <2> QED BY <1>2, <2>1, <2>2 DEF Guarded
<1> QED BY <1>1, <1>2 DEF Guarded

\* under a send of a barrier, which is itself a guard,
LEMMA GuardBarrier ==
    ASSUME NEW q \in Seq(HbMsg), NEW h, NEW b, NEW m \in HbMsg, IsBarrier(m)
    PROVE  /\ Cleared(q, h, b) => Cleared(Append(q, m), h, b)
           /\ \A S : Guarded(q, h, b, S) => Guarded(Append(q, m), h, b, S)
           /\ \A S : m.ack \in S => Guarded(Append(q, m), h, b, S)
<1>1. Cleared(q, h, b) => Cleared(Append(q, m), h, b)
  BY AppendEntries DEF Cleared
<1>2. ASSUME NEW S, NEW i \in DOMAIN q, IsBarrier(q[i]), q[i].ack \in S,
             \A j \in DOMAIN q : i < j /\ ~IsBarrier(q[j]) => q[j].frame > b
      PROVE  Guarded(Append(q, m), h, b, S)
  <2>1. i \in DOMAIN Append(q, m) /\ Append(q, m)[i] = q[i]
    BY AppendEntries
  <2>2. \A j \in DOMAIN Append(q, m) :
          i < j /\ ~IsBarrier(Append(q, m)[j]) => Append(q, m)[j].frame > b
    BY <1>2, AppendEntries
  <2> QED BY <1>2, <2>1, <2>2 DEF Guarded
<1>3. ASSUME NEW S, m.ack \in S PROVE Guarded(Append(q, m), h, b, S)
  <2>1. /\ Len(q) + 1 \in DOMAIN Append(q, m) /\ Append(q, m)[Len(q) + 1] = m
        /\ \A j \in DOMAIN Append(q, m) : ~(Len(q) + 1 < j)
    BY AppendEntries
  <2> QED BY <1>3, <2>1 DEF Guarded
<1> QED BY <1>1, <1>2, <1>3 DEF Guarded

\* when its oldest message is taken,
LEMMA GuardTaken ==
    ASSUME NEW q \in Seq(HbMsg), q # << >>, NEW b, NEW h,
           h = IF IsBarrier(Head(q)) THEN None ELSE Head(q).frame
    PROVE  /\ Cleared(q, None, b) => Cleared(Tail(q), h, b)
           /\ \A S : Guarded(q, None, b, S) => Guarded(Tail(q), h, b, S)
<1>1. ASSUME Cleared(q, None, b) PROVE Cleared(Tail(q), h, b)
  BY <1>1, TailEntries DEF Cleared
<1>2. ASSUME NEW S, NEW i \in DOMAIN q, IsBarrier(q[i]), q[i].ack \in S,
             \A j \in DOMAIN q : i < j /\ ~IsBarrier(q[j]) => q[j].frame > b
      PROVE  Guarded(Tail(q), h, b, S)
  <2>1. CASE i = 1
    <3>1. h = None
      BY <1>2, <2>1, TailEntries
    <3>2. \A j \in DOMAIN Tail(q) : ~IsBarrier(Tail(q)[j]) => Tail(q)[j].frame > b
      BY <1>2, <2>1, TailEntries
    <3> QED BY <3>1, <3>2 DEF Guarded, Cleared
  <2>2. CASE i # 1
    <3>1. PICK k \in DOMAIN Tail(q) : k \in Nat /\ k + 1 = i /\ Tail(q)[k] = q[i]
      BY <2>2, TailEntries
    <3>2. ASSUME NEW j \in DOMAIN Tail(q), k < j, ~IsBarrier(Tail(q)[j]) PROVE Tail(q)[j].frame > b
      <4>1. j \in Nat /\ j + 1 \in DOMAIN q /\ Tail(q)[j] = q[j + 1] /\ i < j + 1
        BY <3>1, <3>2, TailEntries
      <4> QED BY <1>2, <3>2, <4>1
    <3> QED BY <1>2, <3>1, <3>2 DEF Guarded
  <2> QED BY <2>1, <2>2
<1> QED BY <1>1, <1>2 DEF Guarded

\* and when the frame in hand has been sent.
LEMMA GuardSent ==
    ASSUME NEW q, NEW h, NEW b
    PROVE  /\ Cleared(q, h, b) => Cleared(q, None, b)
           /\ \A S : Guarded(q, h, b, S) => Guarded(q, None, b, S)
BY DEF Cleared, Guarded

\* Whatever step is taken, what is newer than b on its way to c stays newer, if
\* the boundary keeps everything older out.
LEMMA GuardKept ==
    ASSUME FenceIInv, [FenceNext]_fenceVars, NEW c \in Conns, NEW b \in Nat, b <= boundary
    PROVE  /\ Cleared(hbQueue[c], inHand[c], b) => Cleared(hbQueue'[c], inHand'[c], b)
           /\ \A S : Guarded(hbQueue[c], inHand[c], b, S) => Guarded(hbQueue'[c], inHand'[c], b, S)
<1> DEFINE q == hbQueue[c]
           Kept(qq, hh) == /\ Cleared(q, inHand[c], b) => Cleared(qq, hh, b)
                           /\ \A S : Guarded(q, inHand[c], b, S) => Guarded(qq, hh, b, S)
<1>1. QueueInv /\ LoopInv /\ AdminInv /\ q \in Seq(HbMsg) /\ boundary \in Nat
  BY DEF FenceIInv, QueueInv, AdminInv
<1>2. SUFFICES Kept(hbQueue'[c], inHand'[c])
  OBVIOUS
<1>3. Kept(q, inHand[c])
  OBVIOUS
<1>4. Kept(q, None)
  BY GuardSent
<1> HIDE DEF Kept, q
<1>5. CASE UNCHANGED <<hbQueue, inHand, lastSent>>
  BY <1>3, <1>5 DEF q
<1>6. CASE admitHeartbeat
  <2> DEFINE m == Frame(loop.change.rev)
  <2>1. inHand' = inHand /\ loop.change.rev \in 1..MaxRev
    BY <1>1, <1>6 DEF admitHeartbeat, LoopInv, Change
  <2>2. m \in HbMsg /\ ~IsBarrier(m) /\ m.frame = loop.change.rev
    BY <2>1, Messages
  <2>3. CASE hbQueue'[c] = q
    BY <1>3, <2>1, <2>3 DEF q
  <2>4. CASE ~Discards(loop.change) /\ hbQueue'[c] = Append(q, m)
    <3>1. m.frame > b
      BY <1>1, <2>1, <2>2, <2>4 DEF Discards
    <3> HIDE DEF m
    <3> QED BY <1>1, <2>1, <2>2, <2>4, <3>1, GuardFrame DEF Kept
  <2> QED BY <1>6, <2>3, <2>4 DEF admitHeartbeat, enqueueOrDisconnect, q
<1>7. ASSUME NEW d \in Conns, hbLoop(d) PROVE Kept(hbQueue'[c], inHand'[c])
  <2>1. CASE d # c
    <3>1. hbQueue'[c] = q /\ inHand'[c] = inHand[c]
      BY <1>1, <1>7, <2>1 DEF hbLoop, QueueInv, q
    <3> QED BY <1>3, <3>1
  <2>2. CASE d = c
    <3>1. /\ q # << >> /\ inHand[c] = None /\ hbQueue'[c] = Tail(q)
          /\ inHand'[c] = IF IsBarrier(Head(q)) THEN None ELSE Head(q).frame
      BY <1>1, <1>7, <2>2 DEF hbLoop, QueueInv, q
    <3> QED BY <1>1, <3>1, GuardTaken DEF Kept
  <2> QED BY <2>1, <2>2
<1>8. ASSUME NEW d \in Conns, hbSend(d) \/ writeEnds(d) PROVE Kept(hbQueue'[c], inHand'[c])
  <2>1. hbQueue' = hbQueue /\ (inHand' = inHand \/ inHand' = [inHand EXCEPT ![d] = None])
    BY <1>8 DEF hbSend, writeEnds
  <2>2. inHand'[c] = inHand[c] \/ inHand'[c] = None
    BY <1>1, <2>1 DEF QueueInv
  <2> QED BY <1>3, <1>4, <2>1, <2>2 DEF q
<1>9. ASSUME NEW a \in Admins, bumpHeartbeatGeneration(a) PROVE Kept(hbQueue'[c], inHand'[c])
  <2> DEFINE m == Barrier(c, ops)
  <2>1. inHand' = inHand /\ ops \in 1..MaxOps
    BY <1>1, <1>9, FenceAssumption DEF bumpHeartbeatGeneration, AdminInv
  <2>2. m \in HbMsg /\ IsBarrier(m)
    BY <2>1, Messages
  <2>3. hbQueue'[c] = q \/ hbQueue'[c] = Append(q, m)
    BY <1>9 DEF bumpHeartbeatGeneration, enqueueOrDisconnect, q
  <2> HIDE DEF m
  <2>4. Kept(Append(q, m), inHand[c])
    BY <1>1, <2>2, GuardBarrier DEF Kept
  <2> QED BY <1>3, <2>1, <2>3, <2>4
<1> QED BY <1>5, <1>6, <1>7, <1>8, <1>9, UnderWaySteps

\* An open connection that is registered was so before, or is new.
LEMMA OpenBefore ==
    ASSUME FenceIInv, FreshInv, [FenceNext]_fenceVars, NEW c \in Conns,
           c \in conns', open'[c]
    PROVE  (c \in conns /\ open[c]) \/ (hbQueue'[c] = << >> /\ inHand'[c] = None)
<1>1. ConnInv /\ ConnInv'
  BY ConnStep DEF FenceIInv
<1>2. conns \subseteq Conns
  BY <1>1 DEF ConnInv
<1>3. CASE UNCHANGED <<conns, open>>
  BY <1>3
<1>4. CASE UNCHANGED fenceVars \/ Start \/ TickOnce \/ Publish
  BY <1>4 DEF fenceVars, Start, TickOnce, Publish, connVars
<1>5. CASE ReceiveNext \/ broadcast \/ broadcastDone
  BY <1>5 DEF ReceiveNext, broadcast, broadcastDone, connVars
<1>6. CASE admitHeartbeat
  BY <1>2, <1>6 DEF admitHeartbeat, enqueueOrDisconnect
<1>7. ASSUME NEW d \in Conns, hbLoop(d) \/ hbSend(d) \/ broadcastTo(d) \/ peerCloses(d)
      PROVE  UNCHANGED <<conns, open>>
  BY <1>7 DEF hbLoop, hbSend, broadcastTo, peerCloses
<1>8. ASSUME NEW d \in Conns, writeEnds(d) PROVE c \in conns /\ open[c]
  <2>1. PICK written \in {open[d], FALSE} : open' = [open EXCEPT ![d] = written] /\ conns' = conns
    BY <1>8 DEF writeEnds
  <2> QED BY <1>1, <1>2, <2>1 DEF ConnInv
<1>9. ASSUME NEW d \in Conns, handleConn(d)
      PROVE  (c \in conns /\ open[c]) \/ (hbQueue'[c] = << >> /\ inHand'[c] = None)
  <2>1. CASE acceptConn(d)
    <3>1. reader[d] = "none" /\ UNCHANGED <<hbQueue, inHand>> /\ conns' \subseteq conns \cup {d}
          /\ (c # d => open'[c] = open[c])
      BY <1>1, <1>2, <2>1 DEF acceptConn, ConnInv
    <3> QED BY <3>1 DEF FreshInv
  <2>2. CASE readUFrame(d) \/ startOrStopDataTransfer(d)
    BY <2>2 DEF readUFrame, startOrStopDataTransfer
  <2>3. CASE cleanup(d)
    BY <2>3 DEF cleanup
  <2>4. CASE closeSocket(d)
    BY <1>1, <1>2, <2>4 DEF closeSocket, ConnInv
  <2> QED BY <1>9, <2>1, <2>2, <2>3, <2>4 DEF handleConn
<1>10. ASSUME NEW a \in Admins, FenceHeartbeat(a) \/ fenceReturns(a) \/ lockCoord(a)
               \/ applyHeartbeatTransition(a) \/ setDrop(a) \/ setHang(a)
       PROVE  UNCHANGED <<conns, open>>
  BY <1>10 DEF FenceHeartbeat, fenceReturns, lockCoord, applyHeartbeatTransition, setDrop,
        setHang, connVars
<1>11. ASSUME NEW a \in Admins, closeAll(a) \/ bumpHeartbeatGeneration(a) PROVE c \in conns /\ open[c]
  BY <1>2, <1>11 DEF closeAll, bumpHeartbeatGeneration, enqueueOrDisconnect
<1> QED BY <1>3, <1>4, <1>5, <1>6, <1>7, <1>8, <1>9, <1>10, <1>11
        DEF FenceNext, spontaneousLoop, ApplyCoordinated

\* The acks that a's FenceHeartbeat is to wait for, or waits for.
Awaited(a) == IF admin[a].at = "fence" THEN pendingFenceAcks ELSE admin[a].awaits

\* Whatever is not behind a barrier that is still awaited is newer than the
\* boundary of the operation that awaits it, and everything is newer than the
\* boundary of one that has answered.
GuardInv ==
    /\ fenced <= boundary
    /\ \A c \in conns : open[c] => Cleared(hbQueue[c], inHand[c], fenced)
    /\ \A a \in Admins :
         /\ admin[a].at \in {"apply", "closeAll"} => admin[a].boundary = 0
         /\ admin[a].at = "bump" => boundary <= admin[a].boundary
         /\ admin[a].at \in {"fence", "wait"} =>
              /\ admin[a].boundary <= boundary
              /\ \A c \in conns : open[c] =>
                   Guarded(hbQueue[c], inHand[c], admin[a].boundary, Awaited(a))

\* No two link operations are under way.
OneOperation == \A a, b \in Admins : admin[a].at # "idle" /\ admin[b].at # "idle" => a = b

\* What is newer than b on its way to every open connection stays newer.
LEMMA GuardsStay ==
    ASSUME FenceIInv, FreshInv, [FenceNext]_fenceVars, NEW b \in Nat, b <= boundary
    PROVE  /\ (\A c \in conns : open[c] => Cleared(hbQueue[c], inHand[c], b))
                => \A c \in conns' : open'[c] => Cleared(hbQueue'[c], inHand'[c], b)
           /\ \A S : (\A c \in conns : open[c] => Guarded(hbQueue[c], inHand[c], b, S))
                => \A c \in conns' : open'[c] => Guarded(hbQueue'[c], inHand'[c], b, S)
<1>1. ConnInv' /\ conns' \subseteq Conns
  BY ConnStep DEF FenceIInv, ConnInv
<1>2. ASSUME NEW c \in Conns, hbQueue'[c] = << >>, inHand'[c] = None
      PROVE  Cleared(hbQueue'[c], inHand'[c], b)
  BY <1>2 DEF Cleared
<1>3. \A c \in conns' : c \in Conns
  BY <1>1
<1>4. (\A c \in conns : open[c] => Cleared(hbQueue[c], inHand[c], b))
                => \A c \in conns' : open'[c] => Cleared(hbQueue'[c], inHand'[c], b)
  BY <1>2, <1>3, OpenBefore, GuardKept
<1>5. ASSUME NEW S
      PROVE  (\A c \in conns : open[c] => Guarded(hbQueue[c], inHand[c], b, S))
                => \A c \in conns' : open'[c] => Guarded(hbQueue'[c], inHand'[c], b, S)
  <2>1. \A c \in Conns : Cleared(hbQueue'[c], inHand'[c], b) => Guarded(hbQueue'[c], inHand'[c], b, S)
    BY DEF Guarded
  <2> QED BY <1>2, <1>3, <2>1, OpenBefore, GuardKept
<1> QED BY <1>4, <1>5

\* Every step but those of a link operation leaves them all alone.
LEMMA GuardSteps ==
    ASSUME [FenceNext]_fenceVars
    PROVE  \/ UNCHANGED <<adminVars, boundary>>
           \/ \E a \in Admins : ApplyCoordinated(a) \/ FenceHeartbeat(a) \/ fenceReturns(a)
<1>1. CASE UNCHANGED fenceVars \/ Start \/ TickOnce \/ Publish
  BY <1>1 DEF fenceVars, Start, TickOnce, Publish, linkVars
<1>2. CASE ReceiveNext \/ broadcast \/ broadcastDone \/ admitHeartbeat
  BY <1>2 DEF ReceiveNext, broadcast, broadcastDone, admitHeartbeat, linkVars
<1>3. ASSUME NEW d \in Conns, hbLoop(d) \/ hbSend(d) \/ broadcastTo(d) \/ peerCloses(d) \/ writeEnds(d)
                \/ handleConn(d)
      PROVE  UNCHANGED <<adminVars, boundary>>
  BY <1>3 DEF hbLoop, hbSend, broadcastTo, peerCloses, writeEnds, handleConn, acceptConn, readUFrame,
        startOrStopDataTransfer, cleanup, closeSocket, linkVars
<1> QED BY <1>1, <1>2, <1>3 DEF FenceNext, spontaneousLoop

\* A revision that is on its way is positive.
LEMMA ClearedOfNone ==
    ASSUME NEW q \in Seq(HbMsg), NEW h \in (1..MaxRev) \cup {None}
    PROVE  Cleared(q, h, 0)
<1>1. \A i \in DOMAIN q : q[i] \in HbMsg
  OBVIOUS
<1>2. \A i \in DOMAIN q : ~IsBarrier(q[i]) => q[i].frame > 0
  BY <1>1, Messages
<1> QED BY <1>2 DEF Cleared

\* A barrier in a channel has not been acknowledged.
LEMMA AnsweredMeansCleared ==
    ASSUME BarrierInv, QueueInv, NEW c \in Conns, NEW b, NEW S, S \subseteq acked,
           Guarded(hbQueue[c], inHand[c], b, S)
    PROVE  Cleared(hbQueue[c], inHand[c], b)
<1>1. SUFFICES ASSUME NEW i \in DOMAIN hbQueue[c], IsBarrier(hbQueue[c][i]), hbQueue[c][i].ack \in acked
               PROVE  FALSE
  BY DEF Guarded
<1>2. hbQueue[c][i].ack[2] < hbQueue[c][i].ack[2] /\ hbQueue[c][i] \in HbMsg
  BY <1>1, ChannelTypes DEF BarrierInv, BarriersAt
<1> QED BY <1>1, <1>2, BarrierTypes

\* The steps of a link operation, for its boundary and for what it awaits.
LEMMA BoundaryMoves ==
    ASSUME StoreIInv, AdminInv, NEW a \in Admins
    PROVE  /\ lockCoord(a) => admin'[a].boundary = 0
           /\ setDrop(a) \/ closeAll(a) \/ setHang(a) \/ bumpHeartbeatGeneration(a)
                => admin'[a].boundary = admin[a].boundary
           /\ FenceHeartbeat(a) => /\ admin'[a].boundary = admin[a].boundary
                                   /\ admin'[a].awaits = pendingFenceAcks
<1>1. admin \in [Admins -> AdminRecord] /\ admin[a] \in AdminRecord
  BY DEF AdminInv
<1>2. ASSUME lockCoord(a) PROVE admin'[a].boundary = 0
  BY <1>1, <1>2 DEF lockCoord, idleAdmin
<1>3. ASSUME setDrop(a) \/ closeAll(a) \/ setHang(a) \/ bumpHeartbeatGeneration(a)
      PROVE  admin'[a].boundary = admin[a].boundary
  BY <1>1, <1>3 DEF setDrop, closeAll, setHang, bumpHeartbeatGeneration, AdminRecord
<1>4. ASSUME FenceHeartbeat(a)
      PROVE  admin'[a].boundary = admin[a].boundary /\ admin'[a].awaits = pendingFenceAcks
  BY <1>1, <1>4 DEF FenceHeartbeat, AdminRecord
<1> QED BY <1>2, <1>3, <1>4

LEMMA GuardStep ==
    ASSUME OneOperation, OneOperation', FenceIInv, GenInv, BarrierInv, FreshInv, GuardInv, [FenceNext]_fenceVars
    PROVE  GuardInv'
<1>1. StoreIInv /\ AdminInv /\ QueueInv /\ QueueInv' /\ ConnInv /\ ConnInv'
  BY QueueStep, ConnStep DEF FenceIInv
<1>2. /\ fenced \in Nat /\ boundary \in Nat /\ rev \in Nat /\ conns \subseteq Conns /\ conns' \subseteq Conns
      /\ admin \in [Admins -> AdminRecord] /\ \A a \in Admins : admin[a].boundary \in Nat
  <2>1. admin \in [Admins -> AdminRecord] /\ fenced \in Nat /\ boundary \in Nat
    BY <1>1 DEF AdminInv
  <2>2. \A a \in Admins : admin[a].boundary \in Nat
    BY <2>1 DEF AdminRecord
  <2> QED BY <1>1, <2>1, <2>2, StoreAssumption DEF ConnInv, StoreIInv, TypeOK
<1> DEFINE ClearedNext(b) == \A c \in conns' : open'[c] => Cleared(hbQueue'[c], inHand'[c], b)
           GuardedNext(b, S) == \A c \in conns' : open'[c] => Guarded(hbQueue'[c], inHand'[c], b, S)
<1>3. ClearedNext(fenced)
  BY <1>2, GuardsStay DEF GuardInv
<1>4. ASSUME NEW a \in Admins, admin[a].at \in {"fence", "wait"}
      PROVE  GuardedNext(admin[a].boundary, Awaited(a)) /\ admin[a].boundary <= boundary
  BY <1>2, <1>4, GuardsStay DEF GuardInv
<1>5. ClearedNext(0) /\ \A S : GuardedNext(0, S)
  <2>1. \A c \in Conns : hbQueue'[c] \in Seq(HbMsg) /\ inHand'[c] \in (1..MaxRev) \cup {None}
    BY <1>1 DEF QueueInv
  <2> QED BY <1>2, <2>1, ClearedOfNone DEF Guarded
<1> HIDE DEF ClearedNext, GuardedNext
\* What is to be shown of the only operation there is.
<1>6. SUFFICES /\ fenced' <= boundary' /\ ClearedNext(fenced')
               /\ \A a \in Admins :
                    /\ admin'[a].at \in {"apply", "closeAll"} => admin'[a].boundary = 0
                    /\ admin'[a].at = "bump" => boundary' <= admin'[a].boundary
                    /\ admin'[a].at \in {"fence", "wait"} =>
                         admin'[a].boundary <= boundary' /\ GuardedNext(admin'[a].boundary, Awaited(a)')
  BY DEF GuardInv, ClearedNext, GuardedNext, Cleared, Guarded, IsBarrier
<1>7. CASE UNCHANGED <<adminVars, boundary>>
  BY <1>3, <1>4, <1>7 DEF adminVars, GuardInv, Awaited
<1>8. ASSUME NEW a \in Admins, ApplyCoordinated(a) \/ FenceHeartbeat(a) \/ fenceReturns(a)
      PROVE  /\ fenced' <= boundary' /\ ClearedNext(fenced')
             /\ admin'[a].at \in {"apply", "closeAll"} => admin'[a].boundary = 0
             /\ admin'[a].at = "bump" => boundary' <= admin'[a].boundary
             /\ admin'[a].at \in {"fence", "wait"} =>
                  admin'[a].boundary <= boundary' /\ GuardedNext(admin'[a].boundary, Awaited(a)')
  <2>1. CASE lockCoord(a)
    <3>1. admin'[a].at = "apply" /\ admin'[a].boundary = 0
      BY <1>1, <2>1, AdminMoves, BoundaryMoves DEF Moves
    <3>2. UNCHANGED <<fenced, boundary>>
      BY <2>1 DEF lockCoord, linkVars
    <3> QED BY <1>3, <3>1, <3>2 DEF GuardInv
  <2>2. CASE applyHeartbeatTransition(a)
    <3>1. admin'[a].at = "bump" /\ admin'[a].boundary = rev
      BY <1>1, <2>2, AdminMoves DEF Moves
    <3>2. UNCHANGED <<fenced, boundary>>
      BY <2>2 DEF applyHeartbeatTransition
    <3> QED BY <1>3, <3>1, <3>2 DEF GuardInv, GenInv
  <2>3. CASE bumpHeartbeatGeneration(a)
    <3> DEFINE b == admin[a].boundary
    <3>1. admin[a].at = "bump" /\ admin'[a].at = "fence" /\ admin'[a].boundary = b
      BY <1>1, <2>3, AdminMoves, BoundaryMoves DEF Moves
    <3>2. /\ fenced' = fenced /\ boundary' = b /\ UNCHANGED <<conns, inHand>>
          /\ enqueueOrDisconnect([c \in Conns |-> Barrier(c, ops)])
          /\ pendingFenceAcks' = pendingFenceAcks \cup barriersOf(ops)
      BY <2>3 DEF bumpHeartbeatGeneration
    <3>3. boundary <= b /\ b \in Nat
      BY <1>2, <3>1 DEF GuardInv
    <3>4. ops \in 1..MaxOps
      BY <1>1, <3>1, FenceAssumption DEF AdminInv
    <3>5. ASSUME NEW c \in conns', open'[c]
          PROVE  Guarded(hbQueue'[c], inHand'[c], b, pendingFenceAcks')
      <4>1. c \in Conns /\ c \in conns /\ ~Full(c)
            /\ hbQueue'[c] = Append(hbQueue[c], Barrier(c, ops))
        BY <1>2, <3>2, <3>5 DEF enqueueOrDisconnect
      <4>2. hbQueue[c] \in Seq(HbMsg)
        BY <1>1, <4>1 DEF QueueInv
      <4>3. /\ Barrier(c, ops) \in HbMsg /\ IsBarrier(Barrier(c, ops))
            /\ Barrier(c, ops).ack = <<c, ops>> /\ <<c, ops>> \in pendingFenceAcks'
        BY <3>2, <3>4, <4>1, BarrierFields DEF barriersOf
      <4> QED BY <4>1, <4>2, <4>3, GuardBarrier
    <3>6. GuardedNext(b, pendingFenceAcks')
      BY <3>5 DEF GuardedNext
    <3>7. Awaited(a)' = pendingFenceAcks'
      BY <3>1 DEF Awaited
    <3> HIDE DEF b
    <3> QED BY <1>2, <1>3, <3>1, <3>2, <3>3, <3>6, <3>7 DEF GuardInv
  <2>4. CASE setDrop(a)
    <3>1. admin[a].at = "apply" /\ admin'[a].at = "closeAll" /\ admin'[a].boundary = admin[a].boundary
      BY <1>1, <2>4, AdminMoves, BoundaryMoves DEF Moves
    <3>2. UNCHANGED <<fenced, boundary>>
      BY <2>4 DEF setDrop
    <3> QED BY <1>3, <3>1, <3>2 DEF GuardInv
  <2>5. CASE closeAll(a) \/ setHang(a)
    <3>1. admin[a].at \in {"apply", "closeAll"} /\ admin'[a].at = "fence"
          /\ admin'[a].boundary = admin[a].boundary
      BY <1>1, <2>5, AdminMoves, BoundaryMoves DEF Moves
    <3>2. UNCHANGED <<fenced, boundary>>
      BY <2>5 DEF closeAll, setHang, linkVars
    <3>3. admin'[a].boundary = 0
      BY <3>1 DEF GuardInv
    <3> QED BY <1>2, <1>3, <1>5, <3>1, <3>2, <3>3 DEF GuardInv
  <2>6. CASE FenceHeartbeat(a)
    <3>1. admin[a].at = "fence" /\ admin'[a].at = "wait" /\ admin'[a].boundary = admin[a].boundary
          /\ admin'[a].awaits = pendingFenceAcks
      BY <1>1, <2>6, AdminMoves, BoundaryMoves DEF Moves
    <3>2. UNCHANGED <<fenced, boundary>>
      BY <2>6 DEF FenceHeartbeat, linkVars
    <3>3. Awaited(a)' = Awaited(a)
      BY <3>1 DEF Awaited
    <3> QED BY <1>3, <1>4, <3>1, <3>2, <3>3 DEF GuardInv
  <2>7. CASE fenceReturns(a)
    <3> DEFINE b == admin[a].boundary
    <3>1. admin[a].at = "wait" /\ admin'[a].at = "idle" /\ b \in Nat
      BY <1>1, <1>2, <2>7, AdminMoves DEF Moves
    <3>2. /\ boundary' = boundary /\ UNCHANGED connVars /\ admin[a].awaits \subseteq acked
          /\ fenced' = IF b > fenced THEN b ELSE fenced
      BY <2>7 DEF fenceReturns, linkVars
    <3>3. b <= boundary /\ \A c \in conns : open[c] => Cleared(hbQueue[c], inHand[c], b)
      BY <1>1, <1>2, <3>1, <3>2, AnsweredMeansCleared DEF GuardInv, Awaited
    <3>4. ClearedNext(b)
      BY <3>2, <3>3 DEF ClearedNext, connVars
    <3> HIDE DEF b
    <3> QED BY <1>3, <3>1, <3>2, <3>3, <3>4 DEF GuardInv
  <2> QED BY <1>8, <2>1, <2>2, <2>3, <2>4, <2>5, <2>6, <2>7 DEF ApplyCoordinated
<1>9. ASSUME NEW a \in Admins, ApplyCoordinated(a) \/ FenceHeartbeat(a) \/ fenceReturns(a)
      PROVE  /\ fenced' <= boundary' /\ ClearedNext(fenced')
             /\ \A o \in Admins :
                  /\ admin'[o].at \in {"apply", "closeAll"} => admin'[o].boundary = 0
                  /\ admin'[o].at = "bump" => boundary' <= admin'[o].boundary
                  /\ admin'[o].at \in {"fence", "wait"} =>
                       admin'[o].boundary <= boundary' /\ GuardedNext(admin'[o].boundary, Awaited(o)')
  <2>1. ASSUME NEW o \in Admins, o # a PROVE admin'[o].at = "idle"
    <3>1. \E from, to : Moves(a, from, to) /\ (from # "idle" \/ to # "idle")
      BY <1>1, <1>9, AdminMoves DEF ApplyCoordinated
    <3>2. admin'[o] = admin[o] /\ (admin[a].at # "idle" \/ admin'[a].at # "idle")
      BY <2>1, <3>1 DEF Moves
    <3> QED BY <2>1, <3>2 DEF OneOperation
  <2> QED BY <1>8, <1>9, <2>1
<1> QED BY <1>7, <1>9, GuardSteps

LEMMA GuardInit == FenceInit => FreshInv /\ GuardInv
<1> SUFFICES ASSUME FenceInit PROVE FreshInv /\ GuardInv
  OBVIOUS
<1>1. \A a \in Admins : admin[a].at = "idle"
  BY DEF FenceInit, idleAdmin
<1> QED BY <1>1 DEF FenceInit, FreshInv, GuardInv

LEMMA FreshCorrect == FenceSpec => []FreshInv
<1>1. FenceIInv /\ FreshInv /\ [FenceNext]_fenceVars => FreshInv'
  BY FreshStep
<1> QED BY <1>1, GuardInit, FenceCorrect, PTL DEF FenceSpec

\* Once FenceHeartbeat has returned to the caller of a pause, clear or reset, no
\* registered client is sent a heartbeat older than that operation, if link
\* operations do not overlap (FenceHeartbeat, bumpHeartbeatGeneration, hbLoop).
THEOREM NothingStaleAfterFence == FenceSpec /\ []OneOperation => NoStaleFrame
<1>1. OneOperation /\ OneOperation' /\ FenceIInv /\ GenInv /\ BarrierInv /\ FreshInv /\ GuardInv /\ [FenceNext]_fenceVars => GuardInv'
  BY GuardStep
<1>2. FenceInit => GuardInv
  BY GuardInit
<1>3. FenceIInv /\ GuardInv /\ [FenceNext]_fenceVars
        => [\A c \in conns : lastSent'[c] # lastSent[c] => lastSent'[c] > fenced]_fenceVars
  <2> SUFFICES ASSUME FenceIInv, GuardInv, [FenceNext]_fenceVars, NEW c \in conns,
                      lastSent'[c] # lastSent[c]
               PROVE  lastSent'[c] > fenced
    OBVIOUS
  <2>1. QueueInv /\ ConnInv /\ c \in Conns
    BY DEF FenceIInv, ConnInv
  <2>2. PICK d \in Conns : writeEnds(d)
    BY UnderWaySteps DEF admitHeartbeat, hbLoop, hbSend, bumpHeartbeatGeneration
  <2>3. d = c
    BY <2>1, <2>2 DEF writeEnds, QueueInv
  <2>4. writer[c] = "hbLoop" /\ open[c] /\ lastSent'[c] = inHand[c]
    BY <2>1, <2>2, <2>3 DEF writeEnds, QueueInv, ConnInv
  <2>5. inHand[c] # None /\ Cleared(hbQueue[c], inHand[c], fenced)
    BY <2>1, <2>4 DEF QueueInv, GuardInv
  <2> QED BY <2>4, <2>5 DEF Cleared
<1> QED BY <1>1, <1>2, <1>3, FenceCorrect, GenCorrect, BarrierCorrect, FreshCorrect, PTL
        DEF FenceSpec, NoStaleFrame
=============================================================================

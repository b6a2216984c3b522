---------------------------- MODULE DispatchProofs ----------------------------
(***************************************************************************)
(* Theorems about Dispatch: the type invariant and the mutual exclusion of *)
(* the writers, no lost update between half-register and whole-register    *)
(* writes, the watchdog's latched safe state, that a tick dispatches what  *)
(* was asked for, and that rounding changes no verdict of the validation.  *)
(*                                                                         *)
(* What makes DispatchIInv inductive is, for the updates, that a           *)
(* half-register write in its transaction still agrees with the store on   *)
(* the half it does not replace (HalfInv).  The watchdog needs that the    *)
(* time since the last refresh is the ticks since the last commit, up to   *)
(* the timeout, unless a commit is under way (AgeInv).                     *)
(***************************************************************************)
EXTENDS Dispatch, TLAPS, WellFoundedInduction, NaturalsInduction

Places  == {"idle", "decoded", "commit"}
Replace == {"high", "low", "both"}
Writes  == UNION {[S -> Int] : S \in SUBSET Setpoints}

\* The writers' records, and mutual exclusion.
WriterInv ==
    /\ writeMu \in Writers \cup {None}
    /\ writer \in [Writers -> [at : Places, half : Replace, writes : Writes]]
    /\ \A w \in Writers : /\ writer[w].at = "idle" => writer[w] = idle
                          /\ writer[w].at # "idle" <=> writeMu = w

\* Only acceptable values are committed, and so only those are stored.
PointInv ==
    /\ point \in [Setpoints -> Int]
    /\ \A k \in Setpoints : point[k] \in Accepted[k]
    /\ \A w \in Writers : writer[w].at = "commit" => Validated(writer[w].writes)

\* A half-register write agrees with the store on the other half.
HalfInv ==
    /\ halves = halvesOf(point["active"])
    /\ \A w \in Writers : writer[w].half # "both" =>
          LET v == writer[w].writes["active"] IN
          /\ DOMAIN writer[w].writes = {"active"}
          /\ writer[w].half = "high" => v % Half = point["active"] % Half
          /\ writer[w].half = "low" => v \div Half = point["active"] \div Half

\* The clock and the watchdog's fields.
ClockInv ==
    /\ watchdogMode \in WatchdogModes
    /\ now \in 0 .. MaxNow
    /\ lastAt \in 0 .. MaxNow \cup {None}
    /\ latched \in BOOLEAN
    /\ lastObserved \in {-1, Manual, AutoStrategy, Remote}
    /\ age \in 0 .. Timeout \cup {None}

DispatchIInv == WriterInv /\ PointInv /\ HalfInv /\ ClockInv

-----------------------------------------------------------------------------
(***************************************************************************)
(* Register halves.                                                        *)
(***************************************************************************)
\* Division and remainder are determined by their defining equation.
LEMMA DivisionUnique ==
    ASSUME NEW q \in Int, NEW m \in Int, m > 0, NEW r \in Int, 0 <= r, r < m
    PROVE  (m * q + r) \div m = q /\ (m * q + r) % m = r
<1> DEFINE n == m * q + r
<1>1. n \in Int
  OBVIOUS
<1>2. q = n \div m /\ r = n % m
  BY <1>1, SMTT(60)
<1> QED
  BY <1>2

\* The halves of a setpoint are integers, the low one a digit in base Half.
LEMMA HalvesType ==
    ASSUME NEW v \in Int
    PROVE  /\ v \div Half \in Int /\ v % Half \in 0 .. Half - 1
           /\ halvesOf(v) \in [high : Int, low : 0 .. Half - 1]
           /\ halvesOf(v).high = v \div Half /\ halvesOf(v).low = v % Half
<1>1. Half \in Int /\ Half > 0
  BY DispatchAssumption DEF DispatchAssumption
<1>2. v \div Half \in Int /\ v % Half \in 0 .. Half - 1
  BY <1>1, SMT
<1> QED
  BY <1>2 DEF halvesOf

\* A pair put together from two halves has these halves.
LEMMA Reassembled ==
    ASSUME NEW high \in Int, NEW low \in 0 .. Half - 1
    PROVE  /\ Half * high + low \in Int
           /\ (Half * high + low) \div Half = high
           /\ (Half * high + low) % Half = low
<1>1. Half \in Int /\ Half > 0
  BY DispatchAssumption DEF DispatchAssumption
<1>2. low \in Int /\ 0 <= low /\ low < Half
  BY <1>1
<1> QED
  BY <1>1, <1>2, DivisionUnique

\* A function from some setpoints to integers is a member of Writes, and back.
LEMMA WritesIntro ==
    ASSUME NEW f, DOMAIN f \subseteq Setpoints, f \in [DOMAIN f -> Int]
    PROVE  f \in Writes
  BY DEF Writes

LEMMA WritesElim ==
    ASSUME NEW f \in Writes
    PROVE  /\ DOMAIN f \subseteq Setpoints
           /\ \A k \in DOMAIN f : f[k] \in Int
  BY DEF Writes

\* So is a write of one value.
LEMMA SingleWrite ==
    ASSUME NEW k \in Setpoints, NEW v \in Int
    PROVE  [x \in {k} |-> v] \in Writes
<1> DEFINE f == [x \in {k} |-> v]
<1>1. DOMAIN f = {k} /\ f \in [{k} -> Int]
  OBVIOUS
<1>2. DOMAIN f \subseteq Setpoints /\ f \in [DOMAIN f -> Int]
  BY <1>1
<1> HIDE DEF f
<1>3. f \in Writes
  BY <1>2, WritesIntro
<1> QED
  BY <1>3 DEF f

\* Facts about the constants that the proofs use.
LEMMA Constants ==
    /\ {"active", "reactive", "mode"} \subseteq Setpoints
    /\ \A k \in Setpoints : Accepted[k] \subseteq Int
    /\ Accepted["mode"] \subseteq {Manual, AutoStrategy, Remote}
    /\ None \notin Writers /\ None \notin Int
    /\ Timeout \in Nat \ {0} /\ MaxNow \in Nat /\ Instants \subseteq 0 .. MaxNow
    /\ Startup \in [Setpoints -> Int] /\ \A k \in Setpoints : Startup[k] \in Accepted[k]
  BY DispatchAssumption DEF DispatchAssumption, Power

-----------------------------------------------------------------------------
(***************************************************************************)
(* The writers.                                                            *)
(***************************************************************************)
\* A writer that takes writeMu and goes on with its request.
LEMMA LockKeepsWriterInv ==
    ASSUME WriterInv, NEW w \in Writers, LockWrites(w),
           NEW r \in [at : Places, half : Replace, writes : Writes], r.at # "idle",
           writer' = [writer EXCEPT ![w] = r]
    PROVE  WriterInv'
<1>1. w # None
  BY Constants
<1>2. writeMu' = w /\ writeMu = None
  BY DEF LockWrites
<1>3. \A x \in Writers : writer'[x] = IF x = w THEN r ELSE writer[x]
  BY DEF WriterInv
<1>4. writer' \in [Writers -> [at : Places, half : Replace, writes : Writes]]
  BY DEF WriterInv
<1>5. ASSUME NEW x \in Writers
      PROVE  /\ writer'[x].at = "idle" => writer'[x] = idle
             /\ writer'[x].at # "idle" <=> writeMu' = x
  <2>1. CASE x = w
    BY <2>1, <1>2, <1>3
  <2>2. CASE x # w
    BY <2>2, <1>2, <1>3, Constants DEF WriterInv
  <2> QED
    BY <2>1, <2>2
<1> QED
  BY <1>2, <1>4, <1>5 DEF WriterInv

\* The idle writer is a writer.
LEMMA IdleType == idle \in [at : Places, half : Replace, writes : Writes]
<1>1. [k \in {} |-> 0] \in Writes
  BY DEF Writes
<1> QED
  BY <1>1 DEF idle, Places, Replace

\* A writer that gives writeMu back.
LEMMA UnlockKeepsWriterInv ==
    ASSUME WriterInv, NEW w \in Writers, writer[w].at # "idle", UnlockWrites(w)
    PROVE  /\ WriterInv'
           /\ \A x \in Writers : writer'[x] = idle
<1>1. w # None /\ writeMu = w
  BY Constants DEF WriterInv
<1>2. writeMu' = None /\ writer' = [writer EXCEPT ![w] = idle]
  BY DEF UnlockWrites
<1>3. \A x \in Writers : writer'[x] = IF x = w THEN idle ELSE writer[x]
  BY <1>2 DEF WriterInv
<1>4. \A x \in Writers : writer'[x] = idle
  BY <1>1, <1>3 DEF WriterInv
<1>5. writer' \in [Writers -> [at : Places, half : Replace, writes : Writes]]
  BY <1>2, IdleType DEF WriterInv
<1>6. idle.at = "idle"
  BY DEF idle
<1> QED
  BY <1>2, <1>4, <1>5, <1>6, Constants DEF WriterInv

\* What a request puts into its writer's record.
LEMMA WriteRecord ==
    ASSUME NEW k \in Setpoints, NEW v \in Int
    PROVE  [at |-> "commit", half |-> "both", writes |-> [x \in {k} |-> v]]
             \in [at : Places, half : Replace, writes : Writes]
<1> DEFINE f == [x \in {k} |-> v]
<1>1. f \in Writes
  BY SingleWrite
<1> HIDE DEF f
<1>2. [at |-> "commit", half |-> "both", writes |-> f]
         \in [at : Places, half : Replace, writes : Writes]
  BY <1>1 DEF Places, Replace
<1> QED
  BY <1>2 DEF f

LEMMA BatchRecord ==
    ASSUME NEW b \in Batches
    PROVE  [at |-> "decoded", half |-> "both", writes |-> b]
             \in [at : Places, half : Replace, writes : Writes]
<1>1. b \in Writes
  BY DispatchAssumption, WritesIntro DEF DispatchAssumption
<1> QED
  BY <1>1 DEF Places, Replace

\* The pair that a half-register write puts together.
LEMMA HalfRecord ==
    ASSUME NEW stored \in Int, NEW half \in {"high", "low"},
           NEW v \in Int, half = "low" => v \in 0 .. Half - 1
    PROVE  LET buf == [halvesOf(stored) EXCEPT ![half] = v]
               value == Half * buf.high + buf.low
               r == [at |-> "decoded", half |-> half, writes |-> [x \in {"active"} |-> value]]
           IN  /\ value \in Int
               /\ half = "high" => value % Half = stored % Half
               /\ half = "low" => value \div Half = stored \div Half
               /\ r \in [at : Places, half : Replace, writes : Writes]
<1> DEFINE buf == [halvesOf(stored) EXCEPT ![half] = v]
           value == Half * buf.high + buf.low
<1>1. /\ stored \div Half \in Int /\ stored % Half \in 0 .. Half - 1
      /\ halvesOf(stored) = [high |-> stored \div Half, low |-> stored % Half]
  BY HalvesType DEF halvesOf
<1>2. half = "high" => buf.high = v /\ buf.low = stored % Half
  BY <1>1
<1>3. half = "low" => buf.high = stored \div Half /\ buf.low = v
  BY <1>1
<1>4. buf.high \in Int /\ buf.low \in 0 .. Half - 1
  BY <1>1, <1>2, <1>3
<1>5. value \in Int /\ value \div Half = buf.high /\ value % Half = buf.low
  <2> HIDE DEF buf
  <2> QED
    BY <1>4, Reassembled
<1>6. [x \in {"active"} |-> value] \in Writes
  <2> HIDE DEF value
  <2> QED
    BY <1>5, Constants, SingleWrite
<1>7. [at |-> "decoded", half |-> half, writes |-> [x \in {"active"} |-> value]]
         \in [at : Places, half : Replace, writes : Writes]
  <2> HIDE DEF value
  <2> QED
    BY <1>6 DEF Places, Replace
<1> QED
  BY <1>2, <1>3, <1>5, <1>7

\* The value of a half-register request is a half of an acceptable value.
LEMMA HalfValue ==
    ASSUME NEW half \in {"high", "low"},
           NEW v \in {halvesOf(x)[half] : x \in Accepted["active"]}
    PROVE  v \in Int /\ (half = "low" => v \in 0 .. Half - 1)
<1>1. PICK x \in Accepted["active"] : v = halvesOf(x)[half]
  OBVIOUS
<1>2. x \in Int
  BY Constants
<1>3. /\ x \div Half \in Int /\ x % Half \in 0 .. Half - 1
      /\ halvesOf(x).high = x \div Half /\ halvesOf(x).low = x % Half
  BY <1>2, HalvesType
<1>4. CASE half = "high"
  BY <1>1, <1>3, <1>4
<1>5. CASE half = "low"
  BY <1>1, <1>3, <1>5, DispatchAssumption DEF DispatchAssumption
<1> QED
  BY <1>4, <1>5

-----------------------------------------------------------------------------
(***************************************************************************)
(* Every step preserves the invariant, one lemma per action.               *)
(***************************************************************************)
\* The start of a request changes no setpoint.
LEMMA RequestKeepsPoints ==
    ASSUME DispatchIInv, NEW w \in Writers, LockWrites(w),
           NEW r \in [at : Places, half : Replace, writes : Writes], r.at # "idle",
           writer' = [writer EXCEPT ![w] = r], UNCHANGED setpoints,
           r.at = "commit" => Validated(r.writes),
           r.half # "both" =>
              LET v == r.writes["active"] IN
              /\ DOMAIN r.writes = {"active"}
              /\ r.half = "high" => v % Half = point["active"] % Half
              /\ r.half = "low" => v \div Half = point["active"] \div Half
    PROVE  WriterInv' /\ PointInv' /\ HalfInv'
<1> USE DEF DispatchIInv
<1>1. WriterInv'
  BY LockKeepsWriterInv
<1>2. \A x \in Writers : writer'[x] = IF x = w THEN r ELSE writer[x]
  BY DEF WriterInv
<1>3. point' = point /\ halves' = halves
  BY DEF setpoints
<1>4. PointInv'
  <2>1. \A x \in Writers : writer'[x].at = "commit" => Validated(writer'[x].writes)
    BY <1>2 DEF PointInv
  <2> QED
    BY <2>1, <1>3 DEF PointInv, Validated
<1>5. HalfInv'
  <2>1. halves' = halvesOf(point'["active"])
    BY <1>3 DEF HalfInv, halvesOf
  <2>2. ASSUME NEW x \in Writers, writer'[x].half # "both"
        PROVE  LET v == writer'[x].writes["active"] IN
               /\ DOMAIN writer'[x].writes = {"active"}
               /\ writer'[x].half = "high" => v % Half = point'["active"] % Half
               /\ writer'[x].half = "low" => v \div Half = point'["active"] \div Half
    <3>1. CASE x = w
      BY <3>1, <2>2, <1>2, <1>3
    <3>2. CASE x # w
      BY <3>2, <2>2, <1>2, <1>3 DEF HalfInv
    <3> QED
      BY <3>1, <3>2
  <2> QED
    BY <2>1, <2>2 DEF HalfInv
<1> QED
  BY <1>1, <1>4, <1>5

\* Whatever the writes, the watchdog's time stays a time.
LEMMA SideEffectsType ==
    ASSUME ClockInv, NEW f, applySideEffects(f)
    PROVE  lastAt' \in 0 .. MaxNow \cup {None}
  BY DEF ClockInv, applySideEffects

LEMMA WriteStep ==
    ASSUME DispatchIInv, NEW w \in Writers, NEW k \in Setpoints, NEW v \in Accepted[k], Write(w, k, v)
    PROVE  DispatchIInv'
<1> USE DEF DispatchIInv
<1> DEFINE r == [at |-> "commit", half |-> "both", writes |-> [x \in {k} |-> v]]
<1>1. v \in Int
  BY Constants
<1>2. r \in [at : Places, half : Replace, writes : Writes]
  BY <1>1, WriteRecord
<1>3. r.at = "commit" /\ r.half = "both" /\ Validated(r.writes)
  BY DEF Validated
<1>4. LockWrites(w) /\ writer' = [writer EXCEPT ![w] = r] /\ UNCHANGED setpoints
  BY DEF Write
<1>5. applySideEffects([x \in {k} |-> v])
      /\ UNCHANGED <<watchdogMode, now, latched, lastObserved, age>>
  BY DEF Write
<1>6. ClockInv'
  BY <1>5, SideEffectsType DEF ClockInv
<1>7. WriterInv' /\ PointInv' /\ HalfInv'
  <2> HIDE DEF r
  <2> QED
    BY <1>2, <1>3, <1>4, RequestKeepsPoints
<1> QED
  BY <1>6, <1>7

LEMMA SingleRegisterStep ==
    ASSUME DispatchIInv, NEW w \in Writers, NEW half \in {"high", "low"},
           NEW v \in {halvesOf(x)[half] : x \in Accepted["active"]},
           handleWriteSingleRegister(w, half, v)
    PROVE  DispatchIInv'
<1> USE DEF DispatchIInv
<1> DEFINE buf == [halvesOf(point["active"]) EXCEPT ![half] = v]
           value == Half * buf.high + buf.low
           r == [at |-> "decoded", half |-> half, writes |-> [x \in {"active"} |-> value]]
<1>1. point["active"] \in Int
  BY Constants DEF PointInv
<1>2. v \in Int /\ (half = "low" => v \in 0 .. Half - 1)
  BY HalfValue
<1>3. /\ half = "high" => value % Half = point["active"] % Half
      /\ half = "low" => value \div Half = point["active"] \div Half
      /\ r \in [at : Places, half : Replace, writes : Writes]
  BY <1>1, <1>2, HalfRecord
<1>4. LockWrites(w) /\ writer' = [writer EXCEPT ![w] = r] /\ UNCHANGED setpoints
  BY DEF handleWriteSingleRegister
<1>5. /\ r.at = "decoded" /\ r.half = half /\ half # "both"
      /\ DOMAIN r.writes = {"active"} /\ r.writes["active"] = value
  <2> HIDE DEF value
  <2> QED
    OBVIOUS
<1>6. ClockInv'
  BY DEF handleWriteSingleRegister, ClockInv, watchdog
<1>7. WriterInv' /\ PointInv' /\ HalfInv'
  <2> HIDE DEF r, value
  <2> QED
    BY <1>3, <1>4, <1>5, RequestKeepsPoints
<1> QED
  BY <1>6, <1>7

LEMMA MultipleRegistersStep ==
    ASSUME DispatchIInv, NEW w \in Writers, NEW b \in Batches, handleWriteMultipleRegisters(w, b)
    PROVE  DispatchIInv'
<1> USE DEF DispatchIInv
<1> DEFINE r == [at |-> "decoded", half |-> "both", writes |-> b]
<1>1. r \in [at : Places, half : Replace, writes : Writes]
  BY BatchRecord
<1>2. r.at = "decoded" /\ r.half = "both"
  OBVIOUS
<1>3. LockWrites(w) /\ writer' = [writer EXCEPT ![w] = r] /\ UNCHANGED setpoints
  BY DEF handleWriteMultipleRegisters
<1>4. ClockInv'
  BY DEF handleWriteMultipleRegisters, ClockInv, watchdog
<1>5. WriterInv' /\ PointInv' /\ HalfInv'
  <2> HIDE DEF r
  <2> QED
    BY <1>1, <1>2, <1>3, RequestKeepsPoints
<1> QED
  BY <1>4, <1>5

\* When every writer is idle, only the stored setpoints are to be looked at.
LEMMA AllIdle ==
    ASSUME \A x \in Writers : writer'[x] = idle,
           point' \in [Setpoints -> Int], \A k \in Setpoints : point'[k] \in Accepted[k],
           halves' = halvesOf(point'["active"])
    PROVE  PointInv' /\ HalfInv'
<1>1. idle.at = "idle" /\ idle.half = "both"
  BY DEF idle
<1>2. PointInv'
  BY <1>1 DEF PointInv
<1>3. HalfInv'
  BY <1>1 DEF HalfInv, halvesOf
<1> QED
  BY <1>2, <1>3

LEMMA RejectStep ==
    ASSUME DispatchIInv, NEW w \in Writers, reject(w)
    PROVE  DispatchIInv'
<1> USE DEF DispatchIInv
<1>1. writer[w].at # "idle" /\ UnlockWrites(w) /\ point' = point /\ halves' = halves
  BY DEF reject, setpoints
<1>2. WriterInv' /\ \A x \in Writers : writer'[x] = idle
  BY <1>1, UnlockKeepsWriterInv
<1>3. PointInv' /\ HalfInv'
  <2>1. halves' = halvesOf(point'["active"])
    BY <1>1 DEF HalfInv, halvesOf
  <2> QED
    BY <1>1, <1>2, <2>1, AllIdle DEF PointInv
<1>4. ClockInv'
  BY DEF reject, ClockInv, watchdog
<1> QED
  BY <1>2, <1>3, <1>4

LEMMA WriteBatchStep ==
    ASSUME DispatchIInv, NEW w \in Writers, WriteBatch(w)
    PROVE  DispatchIInv'
<1> USE DEF DispatchIInv
<1>1. /\ writer[w].at = "decoded" /\ Validated(writer[w].writes)
      /\ applySideEffects(writer[w].writes)
      /\ writer' = [writer EXCEPT ![w].at = "commit"]
      /\ writeMu' = writeMu /\ point' = point /\ halves' = halves
      /\ UNCHANGED <<watchdogMode, now, latched, lastObserved, age>>
  BY DEF WriteBatch, setpoints
<1>2. ClockInv'
  BY <1>1, SideEffectsType DEF ClockInv
<1>3. \A x \in Writers : x # w => writer'[x] = writer[x]
  BY <1>1 DEF WriterInv
<1>4. /\ writer'[w].at = "commit" /\ writer'[w].half = writer[w].half
      /\ writer'[w].writes = writer[w].writes
  BY <1>1 DEF WriterInv
<1>5. writer' \in [Writers -> [at : Places, half : Replace, writes : Writes]]
  BY <1>1 DEF WriterInv, Places
<1>6. WriterInv'
  BY <1>1, <1>3, <1>4, <1>5 DEF WriterInv
<1>7. PointInv'
  BY <1>1, <1>3, <1>4 DEF PointInv, Validated
<1>8. HalfInv'
  <2>1. halves' = halvesOf(point'["active"])
    BY <1>1 DEF HalfInv, halvesOf
  <2>2. \A x \in Writers : writer'[x].half = writer[x].half /\ writer'[x].writes = writer[x].writes
    BY <1>3, <1>4
  <2> QED
    BY <2>1, <2>2, <1>1 DEF HalfInv
<1> QED
  BY <1>2, <1>6, <1>7, <1>8

\* A commit leaves each half of the setpoint as it was last written.
LEMMA CommitStep ==
    ASSUME DispatchIInv, NEW w \in Writers, Commit(w)
    PROVE  DispatchIInv'
<1> USE DEF DispatchIInv
<1> DEFINE writes == writer[w].writes
           half   == writer[w].half
<1>1. writer[w].at = "commit" /\ UnlockWrites(w)
  BY DEF Commit
<1>2. WriterInv' /\ \A x \in Writers : writer'[x] = idle
  BY <1>1, UnlockKeepsWriterInv
<1>3. point' = [k \in Setpoints |-> IF k \in DOMAIN writes THEN writes[k] ELSE point[k]]
  BY DEF Commit
<1>4. Validated(writes) /\ writes \in Writes /\ half \in Replace
  BY <1>1 DEF PointInv, WriterInv
<1>5. /\ point' \in [Setpoints -> Int]
      /\ \A k \in Setpoints : point'[k] \in Accepted[k]
  <2> HIDE DEF writes
  <2> QED
    BY <1>3, <1>4, Constants DEF PointInv, Validated
<1>6. halves' = halvesOf(point'["active"])
  <2>1. point["active"] \in Int /\ point'["active"] \in Int
    BY <1>5, Constants DEF PointInv
  <2>2. halves' = IF "active" \notin DOMAIN writes THEN halves
                  ELSE IF half = "both" THEN halvesOf(writes["active"])
                  ELSE [halves EXCEPT ![half] = halvesOf(writes["active"])[half]]
    BY DEF Commit
  <2>3. halves = halvesOf(point["active"])
    BY DEF HalfInv
  <2>4. point'["active"] = IF "active" \in DOMAIN writes THEN writes["active"] ELSE point["active"]
    <3> HIDE DEF writes
    <3> QED
      BY <1>3, Constants
  <2>5. CASE "active" \notin DOMAIN writes
    BY <2>5, <2>2, <2>3, <2>4
  <2>6. CASE "active" \in DOMAIN writes /\ half = "both"
    BY <2>6, <2>2, <2>4
  <2>7. ASSUME "active" \in DOMAIN writes, half \in {"high", "low"}
        PROVE  halves' = halvesOf(point'["active"])
    <3>1. /\ half = "high" => writes["active"] % Half = point["active"] % Half
          /\ half = "low" => writes["active"] \div Half = point["active"] \div Half
      BY <2>7 DEF HalfInv
    <3>2. halves = [high |-> point["active"] \div Half, low |-> point["active"] % Half]
      BY <2>3 DEF halvesOf
    <3>3. halvesOf(writes["active"])
            = [high |-> writes["active"] \div Half, low |-> writes["active"] % Half]
      BY DEF halvesOf
    <3>4. halves' = [halves EXCEPT ![half] = halvesOf(writes["active"])[half]]
      BY <2>2, <2>7
    <3>5. halves' = halvesOf(writes["active"])
      <4> DEFINE v == writes["active"]  p == point["active"]
      <4>1. CASE half = "high"
        <5>1. halves' = [halves EXCEPT !["high"] = v \div Half]
          BY <4>1, <3>3, <3>4
        <5>2. halves' = [high |-> v \div Half, low |-> p % Half]
          BY <5>1, <3>2
        <5> QED
          BY <5>2, <4>1, <3>1, <3>3
      <4>2. CASE half = "low"
        <5>1. halves' = [halves EXCEPT !["low"] = v % Half]
          BY <4>2, <3>3, <3>4
        <5>2. halves' = [high |-> p \div Half, low |-> v % Half]
          BY <5>1, <3>2
        <5> QED
          BY <5>2, <4>2, <3>1, <3>3
      <4> QED
        BY <4>1, <4>2, <2>7
    <3> QED
      BY <3>5, <2>4, <2>7
  <2> QED
    BY <2>5, <2>6, <2>7, <1>4 DEF Replace
<1>7. PointInv' /\ HalfInv'
  BY <1>2, <1>5, <1>6, AllIdle
<1>8. ClockInv'
  <2>1. /\ UNCHANGED <<watchdogMode, now, lastAt, latched, lastObserved>>
        /\ age' = 0 \/ age' = age
    BY DEF Commit, watchdog
  <2> QED
    BY <2>1, Constants DEF ClockInv
<1> QED
  BY <1>2, <1>7, <1>8

LEMMA TickStep ==
    ASSUME DispatchIInv, NEW engine, Tick(engine)
    PROVE  DispatchIInv'
<1> USE DEF DispatchIInv
<1>1. UNCHANGED <<watchdogMode, point, halves, lastAt, writeMu, writer>>
  BY DEF Tick, setpoints
<1>2. WriterInv'
  BY <1>1 DEF WriterInv
<1>3. PointInv'
  BY <1>1 DEF PointInv, Validated
<1>4. HalfInv'
  BY <1>1 DEF HalfInv, halvesOf
<1>5. now' \in 0 .. MaxNow
  BY Constants DEF Tick, ClockInv
<1>6. lastObserved' \in {-1, Manual, AutoStrategy, Remote}
  <2>1. point["mode"] \in {Manual, AutoStrategy, Remote}
    BY Constants DEF PointInv
  <2> QED
    BY <2>1 DEF Tick, ResolveDispatch
<1>7. latched' \in BOOLEAN
  BY DEF Tick, ResolveDispatch, applyWatchdog, ClockInv
<1>8. age' \in 0 .. Timeout \cup {None}
  <2>1. age' = IF age = None \/ age = Timeout THEN age ELSE age + 1
    BY DEF Tick
  <2> QED
    BY <2>1, Constants DEF ClockInv
<1>9. ClockInv'
  BY <1>1, <1>5, <1>6, <1>7, <1>8 DEF ClockInv
<1> QED
  BY <1>2, <1>3, <1>4, <1>9

LEMMA StartStep ==
    ASSUME DispatchIInv, NEW t \in Instants, Start(t)
    PROVE  DispatchIInv'
<1> USE DEF DispatchIInv
<1>1. /\ UNCHANGED <<watchdogMode, point, halves, writeMu, writer>>
      /\ UNCHANGED <<lastAt, latched, lastObserved, age>> /\ now' = t
  BY DEF Start, setpoints, watchdog
<1>2. WriterInv'
  BY <1>1 DEF WriterInv
<1>3. PointInv'
  BY <1>1 DEF PointInv, Validated
<1>4. HalfInv'
  BY <1>1 DEF HalfInv, halvesOf
<1>5. ClockInv'
  BY <1>1, Constants DEF ClockInv
<1> QED
  BY <1>2, <1>3, <1>4, <1>5

LEMMA ResetStep ==
    ASSUME DispatchIInv, Reset
    PROVE  DispatchIInv'
<1> USE DEF DispatchIInv
<1>1. /\ \A w \in Writers : writer'[w] = idle
      /\ UNCHANGED <<watchdogMode, writeMu, writer>>
      /\ point' = Startup /\ halves' = halvesOf(Startup["active"])
      /\ now' = 0 /\ lastAt' = None /\ latched' = FALSE /\ lastObserved' = -1 /\ age' = None
  BY DEF Reset
<1>2. WriterInv'
  BY <1>1 DEF WriterInv
<1>3. halves' = halvesOf(point'["active"])
  BY <1>1 DEF halvesOf
<1>4. PointInv' /\ HalfInv'
  BY <1>1, <1>3, AllIdle, Constants
<1>5. ClockInv'
  <2>1. 0 \in 0 .. MaxNow /\ -1 \in {-1, Manual, AutoStrategy, Remote} /\ FALSE \in BOOLEAN
    BY Constants
  <2>2. None \in 0 .. MaxNow \cup {None} /\ None \in 0 .. Timeout \cup {None}
    OBVIOUS
  <2>3. watchdogMode' \in WatchdogModes
    BY <1>1 DEF ClockInv
  <2> QED
    BY <1>1, <2>1, <2>2, <2>3 DEF ClockInv
<1> QED
  BY <1>2, <1>4, <1>5

LEMMA StutterStep ==
    ASSUME DispatchIInv, UNCHANGED vars
    PROVE  DispatchIInv'
<1>1. /\ UNCHANGED <<watchdogMode, point, halves, writeMu, writer>>
      /\ UNCHANGED <<now, lastAt, latched, lastObserved, age>>
  BY DEF vars, setpoints, watchdog
<1>2. WriterInv'
  BY <1>1 DEF DispatchIInv, WriterInv
<1>3. PointInv'
  BY <1>1 DEF DispatchIInv, PointInv, Validated
<1>4. HalfInv'
  BY <1>1 DEF DispatchIInv, HalfInv, halvesOf
<1>5. ClockInv'
  BY <1>1 DEF DispatchIInv, ClockInv
<1> QED
  BY <1>2, <1>3, <1>4, <1>5 DEF DispatchIInv

LEMMA DispatchInit == Init => DispatchIInv
<1> SUFFICES ASSUME Init
             PROVE  DispatchIInv
  OBVIOUS
<1> USE DEF Init
<1>1. idle.at = "idle" /\ idle.half = "both"
  BY DEF idle
<1>2. \A w \in Writers : writer[w] = idle
  OBVIOUS
<1>3. WriterInv
  BY <1>1, <1>2, IdleType, Constants DEF WriterInv
<1>4. PointInv
  BY <1>1, <1>2, Constants DEF PointInv
<1>5. HalfInv
  BY <1>1, <1>2 DEF HalfInv
<1>6. ClockInv
  <2>1. 0 \in 0 .. MaxNow /\ -1 \in {-1, Manual, AutoStrategy, Remote} /\ FALSE \in BOOLEAN
    BY Constants
  <2>2. None \in 0 .. MaxNow \cup {None} /\ None \in 0 .. Timeout \cup {None}
    OBVIOUS
  <2> QED
    BY <2>1, <2>2 DEF ClockInv
<1> QED
  BY <1>3, <1>4, <1>5, <1>6 DEF DispatchIInv

LEMMA DispatchNext == DispatchIInv /\ [Next]_vars => DispatchIInv'
<1> SUFFICES ASSUME DispatchIInv, [Next]_vars
             PROVE  DispatchIInv'
  OBVIOUS
<1>1. ASSUME NEW w \in Writers, Request(w, Accepted, Batches)
      PROVE  DispatchIInv'
  <2>1. CASE \E k \in Setpoints : \E v \in Accepted[k] : Write(w, k, v)
    BY <2>1, WriteStep
  <2>2. CASE \E half \in {"high", "low"} :
               \E v \in {halvesOf(x)[half] : x \in Accepted["active"]} :
                 handleWriteSingleRegister(w, half, v)
    BY <2>2, SingleRegisterStep
  <2>3. CASE \E b \in Batches : handleWriteMultipleRegisters(w, b)
    BY <2>3, MultipleRegistersStep
  <2>4. CASE reject(w) \/ WriteBatch(w) \/ Commit(w)
    BY <2>4, RejectStep, WriteBatchStep, CommitStep
  <2> QED
    BY <1>1, <2>1, <2>2, <2>3, <2>4 DEF Request
<1>2. CASE \E engine \in Physical : Tick(engine)
  BY <1>2, TickStep
<1>3. CASE \E t \in Instants : Start(t)
  BY <1>3, StartStep
<1>4. CASE Reset
  BY <1>4, ResetStep
<1>5. CASE UNCHANGED vars
  BY <1>5, StutterStep
<1> QED
  BY <1>1, <1>2, <1>3, <1>4, <1>5 DEF Next

\* The inductive invariant of the dispatch always holds: the writers exclude
\* each other, only acceptable setpoints are stored, and a half-register write
\* agrees with the store on the half it keeps (processor.go writeMu).
THEOREM DispatchCorrect == Spec => []DispatchIInv
  BY DispatchInit, DispatchNext, PTL DEF Spec

\* The type invariant, and mutual exclusion of the writers, for any number of
\* writers, any setpoints and any schedule (processor.go LockWrites).
THEOREM DispatchTypeCorrect == Spec => []TypeOK
<1>1. DispatchIInv => TypeOK
  <2> SUFFICES ASSUME DispatchIInv
               PROVE  TypeOK
    OBVIOUS
  <2>1. point["active"] \in Int
    BY Constants DEF DispatchIInv, PointInv
  <2>2. halves \in [high : Int, low : 0 .. Half - 1]
    BY <2>1, HalvesType DEF DispatchIInv, HalfInv
  <2>3. \A w \in Writers : writer[w] # idle <=> writeMu = w
    BY DEF DispatchIInv, WriterInv, idle
  <2> QED
    BY <2>2, <2>3 DEF TypeOK, DispatchIInv, PointInv, ClockInv
<1> QED
  BY <1>1, DispatchCorrect, PTL

\* No interleaving of half-register, whole-register and single writes loses an
\* update, for any values and any base of a register half (modbustcp/handlers.go
\* handleWriteSingleRegister under processor.go writeMu).
THEOREM UpdatesNeverLost == Spec => []NoLostUpdate
<1>1. DispatchIInv => NoLostUpdate
  BY DEF DispatchIInv, HalfInv, NoLostUpdate
<1> QED
  BY <1>1, DispatchCorrect, PTL

-----------------------------------------------------------------------------
(***************************************************************************)
(* The watchdog, while no scenario start moves the clock.                  *)
(***************************************************************************)
\* A power setpoint is on its way to the store.
Committing == \E w \in Writers : writer[w].at = "commit" /\ DOMAIN writer[w].writes \cap Power # {}

\* The watchdog's clock counts the ticks since the last commit of a power
\* setpoint, unless one is under way.
AgeInv ==
    /\ Committing => lastAt = now
    /\ ~ Committing => IF age = None THEN lastAt = None
                       ELSE lastAt # None /\ age = smaller(now - lastAt, Timeout)

\* A trip in the Remote session that still lasts is latched.
TripInv ==
    watchdogMode = "safe_state_after" /\ tripped =>
        /\ latched /\ lastObserved = Remote /\ point["mode"] = Remote
        /\ fresh => out.active = 0 /\ out.reactive = 0

\* No half-open state: what a request does to AgeInv before it commits.
LEMMA AgeOfRequest ==
    ASSUME DispatchIInv, AgeInv, NEW w \in Writers, writeMu \in {w, None},
           writer[w].at # "commit",
           NEW f, applySideEffects(f), UNCHANGED <<now, age>>,
           writer'[w].at = "commit", writer'[w].writes = f,
           \A x \in Writers \ {w} : writer'[x] = writer[x]
    PROVE  AgeInv'
<1>1. \A x \in Writers \ {w} : writer[x].at = "idle"
  BY Constants DEF DispatchIInv, WriterInv
<1>2. ~ Committing
  BY <1>1 DEF Committing
<1>3. Committing' <=> DOMAIN f \cap Power # {}
  BY <1>1 DEF Committing
<1>4. CASE DOMAIN f \cap Power # {}
  BY <1>3, <1>4 DEF AgeInv, applySideEffects
<1>5. CASE DOMAIN f \cap Power = {}
  <2>1. lastAt' = lastAt
    BY <1>5 DEF applySideEffects
  <2> QED
    BY <2>1, <1>2, <1>3, <1>5 DEF AgeInv
<1> QED
  BY <1>4, <1>5

\* The same while nothing is committed before or after.
LEMMA AgeUnchanged ==
    ASSUME AgeInv, ~ Committing, ~ Committing', UNCHANGED <<now, age, lastAt>>
    PROVE  AgeInv'
  BY DEF AgeInv

\* The writer inside its transaction is the only one there.
LEMMA OneTransaction ==
    ASSUME DispatchIInv, NEW w \in Writers, writeMu \in {w, None}
    PROVE  \A x \in Writers \ {w} : writer[x].at = "idle"
  BY Constants DEF DispatchIInv, WriterInv

LEMMA AgeStep ==
    ASSUME Instants = {}, DispatchIInv, AgeInv, [Next]_vars
    PROVE  AgeInv'
<1>1. ASSUME NEW w \in Writers, NEW k \in Setpoints, NEW v \in Accepted[k], Write(w, k, v)
      PROVE  AgeInv'
  <2>1. writeMu = None /\ writer[w] = idle /\ applySideEffects([x \in {k} |-> v])
        /\ UNCHANGED <<now, age>>
    BY <1>1 DEF Write, LockWrites
  <2>2. /\ writer'[w].at = "commit" /\ writer'[w].writes = [x \in {k} |-> v]
        /\ \A x \in Writers \ {w} : writer'[x] = writer[x]
    BY <1>1 DEF Write, DispatchIInv, WriterInv
  <2>3. writer[w].at # "commit"
    BY <2>1 DEF idle
  <2> QED
    BY <2>1, <2>2, <2>3, AgeOfRequest
<1>2. ASSUME NEW w \in Writers, WriteBatch(w)
      PROVE  AgeInv'
  <2>1. writer[w].at = "decoded" /\ applySideEffects(writer[w].writes) /\ UNCHANGED <<now, age>>
    BY <1>2 DEF WriteBatch
  <2>2. /\ writer'[w].at = "commit" /\ writer'[w].writes = writer[w].writes
        /\ \A x \in Writers \ {w} : writer'[x] = writer[x]
    BY <1>2 DEF WriteBatch, DispatchIInv, WriterInv
  <2>3. writeMu = w
    BY <2>1 DEF DispatchIInv, WriterInv
  <2> QED
    BY <2>1, <2>2, <2>3, AgeOfRequest
<1>3. ASSUME NEW w \in Writers,
             \/ \E half \in {"high", "low"} : \E v : handleWriteSingleRegister(w, half, v)
             \/ \E b : handleWriteMultipleRegisters(w, b)
             \/ reject(w)
      PROVE  AgeInv'
  <2>1. writer[w].at # "commit" /\ writeMu \in {w, None} /\ UNCHANGED <<now, age, lastAt>>
    <3>1. CASE reject(w)
      BY <3>1 DEF reject, watchdog, DispatchIInv, WriterInv
    <3>2. CASE \E half \in {"high", "low"} : \E v : handleWriteSingleRegister(w, half, v)
      BY <3>2 DEF handleWriteSingleRegister, LockWrites, watchdog, idle
    <3>3. CASE \E b : handleWriteMultipleRegisters(w, b)
      BY <3>3 DEF handleWriteMultipleRegisters, LockWrites, watchdog, idle
    <3> QED
      BY <1>3, <3>1, <3>2, <3>3
  <2>2. writer'[w].at # "commit" /\ \A x \in Writers \ {w} : writer'[x] = writer[x]
    <3>1. CASE reject(w)
      BY <3>1 DEF reject, UnlockWrites, idle, DispatchIInv, WriterInv
    <3>2. ASSUME NEW half \in {"high", "low"}, NEW v, handleWriteSingleRegister(w, half, v)
          PROVE  writer'[w].at # "commit" /\ \A x \in Writers \ {w} : writer'[x] = writer[x]
      <4>1. PICK f : writer' = [writer EXCEPT ![w] = [at |-> "decoded", half |-> half, writes |-> f]]
        BY <3>2 DEF handleWriteSingleRegister
      <4> QED
        BY <4>1 DEF DispatchIInv, WriterInv
    <3>3. ASSUME NEW b, handleWriteMultipleRegisters(w, b)
          PROVE  writer'[w].at # "commit" /\ \A x \in Writers \ {w} : writer'[x] = writer[x]
      BY <3>3 DEF handleWriteMultipleRegisters, DispatchIInv, WriterInv
    <3> QED
      BY <1>3, <3>1, <3>2, <3>3
  <2>3. ~ Committing /\ ~ Committing'
    BY <2>1, <2>2, OneTransaction DEF Committing
  <2> QED
    BY <2>1, <2>3, AgeUnchanged
<1>4. ASSUME NEW w \in Writers, Commit(w)
      PROVE  AgeInv'
  <2>1. /\ writer[w].at = "commit" /\ UnlockWrites(w) /\ UNCHANGED <<now, lastAt>>
        /\ age' = IF DOMAIN writer[w].writes \cap Power # {} THEN 0 ELSE age
    BY <1>4 DEF Commit, watchdog
  <2>2. \A x \in Writers : writer'[x] = idle
    BY <2>1, UnlockKeepsWriterInv DEF DispatchIInv
  <2>3. ~ Committing'
    BY <2>2 DEF Committing, idle
  <2>4. writeMu = w
    BY <2>1 DEF DispatchIInv, WriterInv
  <2>5. Committing <=> DOMAIN writer[w].writes \cap Power # {}
    BY <2>1, <2>4, OneTransaction DEF Committing
  <2>6. CASE Committing
    <3>1. lastAt' = now' /\ age' = 0 /\ now \in Int
      BY <2>1, <2>5, <2>6, Constants DEF AgeInv, DispatchIInv, ClockInv
    <3>2. smaller(now' - lastAt', Timeout) = 0 /\ lastAt' # None /\ age' # None
      BY <3>1, <2>1, Constants DEF smaller
    <3> QED
      BY <2>3, <3>1, <3>2 DEF AgeInv
  <2>7. CASE ~ Committing
    BY <2>1, <2>3, <2>5, <2>7, AgeUnchanged
  <2> QED
    BY <2>6, <2>7
<1>5. ASSUME NEW engine, Tick(engine)
      PROVE  AgeInv'
  <2>1. /\ writeMu = None /\ now' = now + 1 /\ UNCHANGED <<lastAt, writer>>
        /\ age' = IF age = None \/ age = Timeout THEN age ELSE age + 1
    BY <1>5 DEF Tick, ResolveDispatch, Snapshot
  <2>2. ~ Committing /\ ~ Committing'
    BY <2>1, Constants DEF Committing, DispatchIInv, WriterInv
  <2>3. CASE age = None
    BY <2>1, <2>2, <2>3 DEF AgeInv
  <2>4. CASE age # None
    <3>1. age \in Int /\ age <= Timeout /\ age' = IF age = Timeout THEN age ELSE age + 1
      BY <2>1, <2>4, Constants DEF DispatchIInv, ClockInv
    <3>2. lastAt # None /\ lastAt \in Int /\ now \in Int /\ age = smaller(now - lastAt, Timeout)
      BY <2>2, <2>4, Constants DEF AgeInv, DispatchIInv, ClockInv
    <3>3. age' # None /\ lastAt' # None /\ age' = smaller(now' - lastAt', Timeout)
      BY <3>1, <3>2, <2>1, Constants DEF smaller
    <3> QED
      BY <2>2, <3>3 DEF AgeInv
  <2> QED
    BY <2>3, <2>4
<1>6. CASE Reset
  <2>1. (\A w \in Writers : writer'[w] = idle) /\ age' = None /\ lastAt' = None
    BY <1>6 DEF Reset
  <2> QED
    BY <2>1 DEF AgeInv, Committing, idle
<1>7. CASE UNCHANGED vars
  BY <1>7 DEF vars, watchdog, AgeInv, Committing
<1> QED
  <2>1. ASSUME NEW w \in Writers, Request(w, Accepted, Batches)
        PROVE  AgeInv'
    BY <2>1, <1>1, <1>2, <1>3, <1>4 DEF Request
  <2> QED
    BY <2>1, <1>5, <1>6, <1>7 DEF Next

LEMMA AgeInit == Init => AgeInv
<1> SUFFICES ASSUME Init
             PROVE  AgeInv
  OBVIOUS
<1>1. ~ Committing
  BY DEF Init, Committing, idle
<1> QED
  BY <1>1 DEF Init, AgeInv

\* A tick whose watchdog trips, or stays tripped, moves no power.
LEMMA TrippedDispatch ==
    ASSUME NEW t, NEW engine, watchdogMode = "safe_state_after", point["mode"] = Remote,
           applyWatchdog(t), ResolveDispatch(t, engine)
    PROVE  latched' /\ lastObserved' = Remote /\ out'.active = 0 /\ out'.reactive = 0
<1>1. requested(t) = [active |-> 0, reactive |-> 0]
  BY DEF requested, expired, Remote, AutoStrategy
<1>2. applyPowerLimits(0, engine) = 0
  BY DEF applyPowerLimits
<1>3. applyPowerLimits(requested(t).active, engine) = 0 /\ requested(t).reactive = 0
  BY <1>1, <1>2
<1> DEFINE active == applyPowerLimits(requested(t).active, engine)
           on     == point["on"] # 0
<1>4. out' = [active   |-> IF on /\ ~ prohibited(active, engine) THEN active ELSE 0,
              reactive |-> IF on THEN requested(t).reactive ELSE 0,
              engine   |-> engine]
  BY DEF ResolveDispatch
<1>5. out'.active = 0 /\ out'.reactive = 0
  BY <1>3, <1>4
<1>6. latched' /\ lastObserved' = Remote
  BY DEF ResolveDispatch
<1> QED
  BY <1>5, <1>6

LEMMA TripStep ==
    ASSUME Instants = {}, DispatchIInv, AgeInv, AgeInv', TripInv, [Next]_vars
    PROVE  TripInv'
<1>1. ASSUME NEW engine, Tick(engine)
      PROVE  TripInv'
  <2>1. /\ ResolveDispatch(now + 1, engine) /\ now' = now + 1 /\ writeMu = None
        /\ UNCHANGED <<watchdogMode, point, lastAt, writer>>
        /\ tripped' = (tripped \/ (point["mode"] = Remote /\ age' = Timeout))
    BY <1>1 DEF Tick, ResolveDispatch, Snapshot, setpoints
  <2>2. ASSUME watchdogMode' = "safe_state_after", tripped'
        PROVE  point["mode"] = Remote /\ applyWatchdog(now + 1)
    <3>1. CASE tripped
      BY <3>1, <2>1, <2>2 DEF TripInv, applyWatchdog
    <3>2. CASE point["mode"] = Remote /\ age' = Timeout
      <4>1. ~ Committing'
        BY <2>1, Constants DEF Committing, DispatchIInv, WriterInv
      <4>2. age' # None
        BY <3>2, Constants
      <4>3. lastAt' # None /\ age' = smaller(now' - lastAt', Timeout)
        BY <4>1, <4>2 DEF AgeInv
      <4>4. lastAt \in Int /\ now \in Int
        BY <2>1, <4>3, Constants DEF DispatchIInv, ClockInv
      <4>5. stale(now + 1)
        BY <4>3, <4>4, <3>2, <2>1, Constants DEF stale, smaller
      <4> QED
        BY <4>5, <3>2, <2>1, <2>2 DEF applyWatchdog
    <3> QED
      BY <3>1, <3>2, <2>1, <2>2
  <2>3. ASSUME watchdogMode' = "safe_state_after", tripped'
        PROVE  latched' /\ lastObserved' = Remote /\ out'.active = 0 /\ out'.reactive = 0
    BY <2>1, <2>2, <2>3, TrippedDispatch
  <2> QED
    BY <2>1, <2>2, <2>3 DEF TripInv
<1>2. ASSUME NEW w \in Writers, Commit(w)
      PROVE  TripInv'
  <2> DEFINE writes == writer[w].writes
  <2>1. /\ UNCHANGED <<watchdogMode, latched, lastObserved>> /\ fresh' = FALSE
        /\ tripped' = (tripped /\ (IF "mode" \in DOMAIN writes THEN writes["mode"] = Remote ELSE TRUE))
        /\ point' = [k \in Setpoints |-> IF k \in DOMAIN writes THEN writes[k] ELSE point[k]]
    BY <1>2 DEF Commit, watchdog
  <2>2. point'["mode"] = IF "mode" \in DOMAIN writes THEN writes["mode"] ELSE point["mode"]
    <3> HIDE DEF writes
    <3> QED
      BY <2>1, Constants
  <2> QED
    BY <2>1, <2>2 DEF TripInv
<1>3. CASE UNCHANGED <<watchdogMode, point, latched, lastObserved, tripped, fresh, out>>
  BY <1>3 DEF TripInv
<1>4. CASE Reset
  BY <1>4 DEF Reset, TripInv
<1> QED
  <2>1. ASSUME NEW w \in Writers, Request(w, Accepted, Batches)
        PROVE  TripInv'
    <3>1. CASE Commit(w)
      BY <3>1, <1>2
    <3>2. CASE ~ Commit(w)
      <4>1. UNCHANGED <<watchdogMode, point, latched, lastObserved, tripped, fresh, out>>
        BY <2>1, <3>2 DEF Request, Write, handleWriteSingleRegister, handleWriteMultipleRegisters,
           reject, WriteBatch, setpoints, watchdog
      <4> QED
        BY <4>1, <1>3
    <3> QED
      BY <3>1, <3>2
  <2>2. CASE UNCHANGED vars
    BY <2>2, <1>3 DEF vars, setpoints, watchdog
  <2> QED
    BY <2>1, <2>2, <1>1, <1>4 DEF Next

\* Once safe_state_after has tripped, no tick moves power, active or reactive,
\* until the operator leaves Remote mode - for any timeout, any setpoints and
\* any interleaving of the writers - as long as no scenario start sets the clock
\* (processor.go applyWatchdog; a start that sets it back lengthens the timeout).
THEOREM TripAlwaysHolds ==
    ASSUME Instants = {}
    PROVE  Spec => []TripHolds
<1>1. Init => AgeInv /\ TripInv
  BY AgeInit DEF Init, TripInv
<1>2. DispatchIInv /\ AgeInv /\ TripInv /\ [Next]_vars => AgeInv' /\ TripInv'
  BY AgeStep, TripStep
<1>3. TripInv => TripHolds
  BY DEF TripInv, TripHolds
<1> QED
  BY <1>1, <1>2, <1>3, DispatchInit, DispatchNext, PTL DEF Spec

-----------------------------------------------------------------------------
(***************************************************************************)
(* A tick dispatches what was asked for.                                   *)
(***************************************************************************)
\* A set of numbers has a smallest one.
LEMMA Smallest ==
    ASSUME NEW T, T \subseteq Nat, T # {}
    PROVE  \E x \in T : \A y \in T : x <= y
<1>1. PICK x \in T : \A y \in T : ~ (<<y, x>> \in OpToRel(<, Nat))
  BY NatLessThanWellFounded, WFMin
<1>2. \A y \in T : ~ (y < x)
  BY <1>1 DEF OpToRel
<1>3. x \in Nat /\ \A y \in T : y \in Nat
  OBVIOUS
<1>4. \A y \in T : x <= y
  BY ONLY <1>2, <1>3
<1> QED
  BY <1>4

\* The remainder of what is less than two days.
LEMMA TimeOfDay ==
    ASSUME NEW n \in Nat, n < 2 * Day
    PROVE  /\ n % Day = IF n < Day THEN n ELSE n - Day
           /\ n % Day \in 0 .. Day - 1
<1>1. Day \in Int /\ Day > 0 /\ n \in Int
  BY DispatchAssumption DEF DispatchAssumption
<1>2. CASE n < Day
  <2>1. (Day * 0 + n) % Day = n
    BY <1>1, <1>2, DivisionUnique
  <2> QED
    BY <1>1, <1>2, <2>1
<1>3. CASE n >= Day
  <2>1. n - Day \in Int /\ 0 <= n - Day /\ n - Day < Day
    BY <1>1, <1>3
  <2>2. (Day * 1 + (n - Day)) % Day = n - Day
    BY <1>1, <2>1, DivisionUnique
  <2>3. Day * 1 + (n - Day) = n
    BY <1>1
  <2> QED
    BY <1>1, <1>3, <2>1, <2>2, <2>3
<1> QED
  BY <1>1, <1>2, <1>3

\* A period is active in the slots that it covers, overnight or not.
LEMMA ActiveInWindow ==
    ASSUME NEW cur \in 0 .. Day - 1, NEW start \in 0 .. Day, NEW end \in 0 .. Day
    PROVE  periodActive(cur, start, end) <=> cur \in Window(start, end)
<1> DEFINE length == IF start <= end THEN end - start ELSE end - start + Day
<1>1. /\ Day \in Int /\ Day > 0 /\ cur \in Int /\ start \in Int /\ end \in Int
      /\ 0 <= cur /\ cur < Day /\ 0 <= start /\ start <= Day /\ 0 <= end /\ end <= Day
  BY DispatchAssumption DEF DispatchAssumption
<1>2. length \in Int /\ start + length = IF start <= end THEN end ELSE end + Day
  BY <1>1
<1>3. cur \in Window(start, end) <=> \E i \in 0 .. length - 1 : cur = (start + i) % Day
  BY DEF Window
<1> HIDE DEF length
<1>4. \A i \in 0 .. length - 1 :
         (start + i) % Day = IF start + i < Day THEN start + i ELSE start + i - Day
  <2> SUFFICES ASSUME NEW i \in 0 .. length - 1
               PROVE  (start + i) % Day = IF start + i < Day THEN start + i ELSE start + i - Day
    OBVIOUS
  <2>1. PICK n : n = start + i
    OBVIOUS
  <2>2. n \in Nat /\ n < 2 * Day
    BY <1>1, <1>2, <2>1
  <2>3. n % Day = IF n < Day THEN n ELSE n - Day
    BY <2>2, TimeOfDay
  <2>4. (start + i) % Day = n % Day
    BY <2>1
  <2>5. (start + i) % Day = IF n < Day THEN n ELSE n - Day
    BY <2>3, <2>4
  <2> QED
    BY <1>1, <1>2, <2>1, <2>5
<1>5. periodActive(cur, start, end) <=>
         \E i \in 0 .. length - 1 : cur = IF start + i < Day THEN start + i ELSE start + i - Day
  <2>1. ASSUME periodActive(cur, start, end)
        PROVE  \E i \in 0 .. length - 1 : cur = IF start + i < Day THEN start + i ELSE start + i - Day
    <3>1. CASE cur >= start
      <4>1. cur - start \in 0 .. length - 1 /\ start + (cur - start) = cur
        BY <1>1, <1>2, <2>1, <3>1 DEF periodActive
      <4> QED
        BY <1>1, <4>1
    <3>2. CASE cur < start
      <4>1. cur - start + Day \in 0 .. length - 1 /\ start + (cur - start + Day) = cur + Day
        BY <1>1, <1>2, <2>1, <3>2 DEF periodActive
      <4> QED
        BY <1>1, <4>1
    <3> QED
      BY <1>1, <3>1, <3>2
  <2>2. ASSUME NEW i \in 0 .. length - 1,
               cur = IF start + i < Day THEN start + i ELSE start + i - Day
        PROVE  periodActive(cur, start, end)
    BY <1>1, <1>2, <2>2 DEF periodActive
  <2> QED
    BY <2>1, <2>2
<1> QED
  BY <1>3, <1>4, <1>5
-----------------------------------------------------------------------------
\* The properties of a tick's outcome, as statements about values: pt are the
\* setpoints, t is the time, wm the watchdog's mode, a the age of the power
\* setpoints, o the outcome, e the engine's state.
Covers(pt, t, i) == t % Day \in Window(pt[Schedule[i].start], pt[Schedule[i].end])

First(pt, t, i) == Covers(pt, t, i) /\ \A j \in 1 .. i - 1 : ~ Covers(pt, t, j)

ScheduledOf(pt, t) ==
    IF \A i \in DOMAIN Schedule : ~ Covers(pt, t, i) THEN 0
    ELSE pt[Schedule[CHOOSE i \in DOMAIN Schedule : First(pt, t, i)].power]

Live(wm, a) == wm = "hold" \/ a # Timeout

DemandOf(pt, t, wm, a) ==
    CASE pt["mode"] = Manual -> 0
      [] pt["mode"] = Remote -> IF Live(wm, a) THEN pt["active"] ELSE 0
      [] OTHER -> ScheduledOf(pt, t)

ReactiveOf(pt, wm, a) ==
    IF pt["on"] # 0 /\ pt["mode"] = Remote /\ Live(wm, a) THEN pt["reactive"] ELSE 0

FeasibleOf(pt, e) ==
    LET may(cap, room) == IF pt["on"] = 0 \/ cap < 0 THEN 0 ELSE smaller(cap, room)
        charge == IF e.chargeProhibited \/ e.soc >= pt["maxSOC"] THEN 0
                  ELSE may(pt["chargeCap"], e.charge)
        discharge == IF e.dischargeProhibited \/ e.soc <= pt["minSOC"] THEN 0
                     ELSE may(pt["dischargeCap"], e.discharge)
    IN  (-charge) .. discharge

NearestOf(pt, e, active, kw) ==
    /\ active \in FeasibleOf(pt, e)
    /\ \A x \in FeasibleOf(pt, e) : distance(active, kw) <= distance(x, kw)

Follows(pt, t, wm, a, o) ==
    /\ NearestOf(pt, o.engine, o.active, DemandOf(pt, t, wm, a))
    /\ o.reactive = ReactiveOf(pt, wm, a)

LEMMA DemandRestated ==
    /\ Demand = DemandOf(point, now, watchdogMode, age)
    /\ Demand' = DemandOf(point', now', watchdogMode', age')
  BY DEF Demand, DemandOf, ScheduledOf, Live, Covers, First

LEMMA FollowsRestated ==
    /\ DispatchFollowsDemand <=> (fresh /\ ~ latched => Follows(point, now, watchdogMode, age, out))
    /\ DispatchFollowsDemand'
         <=> (fresh' /\ ~ latched' => Follows(point', now', watchdogMode', age', out'))
<1>1. Feasible = FeasibleOf(point, out.engine) /\ Feasible' = FeasibleOf(point', out'.engine)
  BY DEF Feasible, FeasibleOf
<1>2. ReactiveDemand = ReactiveOf(point, watchdogMode, age)
      /\ ReactiveDemand' = ReactiveOf(point', watchdogMode', age')
  BY DEF ReactiveDemand, ReactiveOf, Live
<1> QED
  BY <1>1, <1>2, DemandRestated DEF DispatchFollowsDemand, Follows, Nearest, NearestOf

\* A period covers its slots by the setpoints in the store.
TimesOfDay ==
    \A i \in DOMAIN Schedule :
        Accepted[Schedule[i].start] \subseteq 0 .. Day /\ Accepted[Schedule[i].end] \subseteq 0 .. Day

LEMMA ScheduleFields ==
    ASSUME NEW i \in DOMAIN Schedule
    PROVE  i \in Nat \ {0} /\ (\A j \in 1 .. i : j \in DOMAIN Schedule)
           /\ {Schedule[i].start, Schedule[i].end, Schedule[i].power} \subseteq Setpoints
<1> DEFINE Period == [start : Setpoints, end : Setpoints, power : Setpoints]
<1>1. Schedule \in Seq(Period)
  BY DispatchAssumption DEF DispatchAssumption
<1>2. Schedule[i] \in Period /\ DOMAIN Schedule = 1 .. Len(Schedule) /\ Len(Schedule) \in Nat
  <2> HIDE DEF Period
  <2> QED
    BY <1>1
<1>3. {Schedule[i].start, Schedule[i].end, Schedule[i].power} \subseteq Setpoints
  BY <1>2
<1> QED
  BY <1>2, <1>3

\* The schedule is read as it was written: the lowest-numbered period that
\* covers the time of day, and idle outside every one.
LEMMA LookupIsSchedule ==
    ASSUME TimesOfDay, PointInv, NEW t \in Nat
    PROVE  scheduleLookup(t) = ScheduledOf(point, t) /\ scheduleLookup(t) \in Int
<1> DEFINE covers(i) == Covers(point, t, i)
           active == {i \in DOMAIN Schedule :
                        periodActive(t % Day, point[Schedule[i].start], point[Schedule[i].end])}
           first  == CHOOSE i \in active : \A j \in active : i <= j
<1>1. t % Day \in 0 .. Day - 1
  BY DispatchAssumption, SMT DEF DispatchAssumption
<1>2. active = {i \in DOMAIN Schedule : Covers(point, t, i)}
  <2> SUFFICES ASSUME NEW i \in DOMAIN Schedule
               PROVE  periodActive(t % Day, point[Schedule[i].start], point[Schedule[i].end])
                        <=> Covers(point, t, i)
    OBVIOUS
  <2>1. point[Schedule[i].start] \in 0 .. Day /\ point[Schedule[i].end] \in 0 .. Day
    BY ScheduleFields DEF TimesOfDay, PointInv
  <2> QED
    BY <1>1, <2>1, ActiveInWindow DEF Covers
<1>3. scheduleLookup(t) = IF active = {} THEN 0 ELSE point[Schedule[first].power]
  BY DEF scheduleLookup
<1> HIDE DEF active
<1>4. CASE active = {}
  BY <1>2, <1>3, <1>4 DEF ScheduledOf
<1>5. CASE active # {}
  <2>1. active \subseteq Nat
    BY <1>2, ScheduleFields
  <2>2. \E i \in active : \A j \in active : i <= j
    BY <1>5, <2>1, Smallest
  <2>3. first \in active
    BY <2>2
  <2>4. \A i \in DOMAIN Schedule :
           (i \in active /\ \A j \in active : i <= j) <=> First(point, t, i)
    <3> SUFFICES ASSUME NEW i \in DOMAIN Schedule, i \in active
                 PROVE  (\A j \in active : i <= j) <=> (\A j \in 1 .. i - 1 : j \notin active)
      BY <1>2, ScheduleFields DEF First
    <3>1. i \in Nat /\ \A j \in active : j \in Nat \ {0}
      BY <1>2, ScheduleFields
    <3> QED
      BY <3>1
  <2>5. first = CHOOSE i \in DOMAIN Schedule : First(point, t, i)
    <3>1. \A i : (i \in active /\ \A j \in active : i <= j)
                  <=> (i \in DOMAIN Schedule /\ First(point, t, i))
      BY <1>2, <2>4
    <3> QED
      BY <3>1
  <2>6. ~ \A i \in DOMAIN Schedule : ~ Covers(point, t, i)
    BY <1>2, <1>5
  <2>7. point[Schedule[first].power] \in Int
    BY <1>2, <2>3, ScheduleFields DEF PointInv
  <2> QED
    BY <1>3, <1>5, <2>5, <2>6, <2>7 DEF ScheduledOf
<1> QED
  BY <1>4, <1>5

\* The limits leave the feasible power that is nearest to the request.
LEMMA LimitsAreNearest ==
    ASSUME PointInv, NEW engine \in Physical, NEW kw \in Int,
           NEW active, active = applyPowerLimits(kw, engine)
    PROVE  NearestOf(point, engine,
                     IF point["on"] # 0 /\ ~ prohibited(active, engine) THEN active ELSE 0, kw)
<1>1. /\ engine.soc \in Int /\ engine.charge \in Nat /\ engine.discharge \in Nat
      /\ engine.chargeProhibited \in BOOLEAN /\ engine.dischargeProhibited \in BOOLEAN
  BY DispatchAssumption DEF DispatchAssumption
<1>2. /\ point["maxSOC"] \in Int /\ point["minSOC"] \in Int
      /\ point["chargeCap"] \in Int /\ point["dischargeCap"] \in Int /\ point["on"] \in Int
  BY DispatchAssumption DEF DispatchAssumption, PointInv
<1>3. PICK c \in Nat : c = larger(0, smaller(point["chargeCap"], engine.charge))
  BY <1>1, <1>2 DEF larger, smaller
<1>4. PICK d \in Nat : d = larger(0, smaller(point["dischargeCap"], engine.discharge))
  BY <1>1, <1>2 DEF larger, smaller
<1>5. FeasibleOf(point, engine) =
        (-(IF engine.chargeProhibited \/ engine.soc >= point["maxSOC"] \/ point["on"] = 0 THEN 0 ELSE c))
          .. (IF engine.dischargeProhibited \/ engine.soc <= point["minSOC"] \/ point["on"] = 0 THEN 0 ELSE d)
  BY <1>1, <1>2, <1>3, <1>4 DEF FeasibleOf, larger, smaller
<1>6. active = CASE kw < 0 /\ engine.soc < point["maxSOC"] -> larger(kw, -c)
                 [] kw > 0 /\ engine.soc > point["minSOC"] -> smaller(kw, d)
                 [] OTHER                                  -> 0
  BY <1>3, <1>4 DEF applyPowerLimits
<1> DEFINE shut(barred, full) == barred \/ full \/ point["on"] = 0
           low  == IF shut(engine.chargeProhibited, engine.soc >= point["maxSOC"]) THEN 0 ELSE c
           high == IF shut(engine.dischargeProhibited, engine.soc <= point["minSOC"]) THEN 0 ELSE d
           kept == IF point["on"] # 0 /\ ~ prohibited(active, engine) THEN active ELSE 0
<1>7. low \in Nat /\ high \in Nat /\ FeasibleOf(point, engine) = (-low) .. high
  BY <1>5
<1>8. kept = IF kw < 0 THEN larger(kw, -low) ELSE IF kw > 0 THEN smaller(kw, high) ELSE 0
  <2>1. CASE kw < 0
    <3>1. active = IF engine.soc < point["maxSOC"] THEN larger(kw, -c) ELSE 0
      BY <1>6, <2>1
    <3> QED
      BY <1>1, <1>2, <2>1, <3>1 DEF prohibited, larger, smaller
  <2>2. CASE kw > 0
    <3>1. active = IF engine.soc > point["minSOC"] THEN smaller(kw, d) ELSE 0
      BY <1>6, <2>2
    <3> QED
      BY <1>1, <1>2, <2>2, <3>1 DEF prohibited, larger, smaller
  <2>3. CASE kw = 0
    <3>1. active = 0
      BY <1>6, <2>3
    <3> QED
      BY <2>3, <3>1
  <2> QED
    BY <2>1, <2>2, <2>3
<1> HIDE DEF low, high, kept
<1>9. kept \in (-low) .. high /\ \A x \in (-low) .. high : distance(kept, kw) <= distance(x, kw)
  BY <1>7, <1>8 DEF distance, larger, smaller
<1> QED
  BY <1>7, <1>9 DEF NearestOf, kept
\* With the age of the setpoints exact, the watchdog has expired just when
\* nothing refreshed them for Timeout ticks.
LEMMA ExpiresOnTime ==
    ASSUME DispatchIInv, AgeInv, AgeInv', NEW engine, Tick(engine), ~ latched',
           point["mode"] = Remote
    PROVE  expired(now + 1) <=> ~ Live(watchdogMode, age')
<1>1. /\ now' = now + 1 /\ writeMu = None /\ writer' = writer /\ lastAt' = lastAt
      /\ latched' = applyWatchdog(now + 1)
  BY DEF Tick, ResolveDispatch, Snapshot
<1>2. ~ Committing'
  BY <1>1, Constants DEF Committing, DispatchIInv, WriterInv
<1>3. watchdogMode \in {"hold", "zero_after", "safe_state_after"}
  BY DispatchAssumption DEF DispatchAssumption, DispatchIInv, ClockInv
<1>4. stale(now + 1) <=> age' = Timeout
  <2>1. CASE age' = None
    BY <2>1, <1>1, <1>2, Constants DEF AgeInv, stale
  <2>2. CASE age' # None
    <3>1. lastAt' # None /\ age' = smaller(now' - lastAt', Timeout)
      BY <2>2, <1>2 DEF AgeInv
    <3>2. lastAt # None /\ lastAt \in Int /\ now \in Int
      BY <3>1, <1>1, Constants DEF DispatchIInv, ClockInv
    <3> QED
      BY <1>1, <3>1, <3>2, Constants DEF stale, smaller
  <2> QED
    BY <2>1, <2>2
<1>5. CASE watchdogMode = "hold"
  BY <1>5 DEF expired, Live
<1>6. CASE watchdogMode = "zero_after"
  BY <1>4, <1>6 DEF expired, Live
<1>7. CASE watchdogMode = "safe_state_after"
  <2>1. ~ applyWatchdog(now + 1)
    BY <1>1
  <2>2. age' # Timeout
    BY <2>1, <1>4, <1>7 DEF applyWatchdog
  <2> QED
    BY <2>1, <2>2, <1>7 DEF expired, Live
<1> QED
  BY <1>3, <1>5, <1>6, <1>7

\* What a tick is asked for is the demand.
LEMMA RequestedIsDemand ==
    ASSUME TimesOfDay, DispatchIInv, NEW engine, Tick(engine),
           point["mode"] = Remote => (expired(now + 1) <=> ~ Live(watchdogMode, age'))
    PROVE  /\ requested(now + 1).active = DemandOf(point, now', watchdogMode, age')
           /\ requested(now + 1).active \in Int
           /\ (IF point["on"] # 0 THEN requested(now + 1).reactive ELSE 0)
                = ReactiveOf(point, watchdogMode, age')
<1>1. now' = now + 1 /\ now + 1 \in Nat
  BY Constants DEF Tick, DispatchIInv, ClockInv
<1>2. point["active"] \in Int /\ point["mode"] \in {Manual, AutoStrategy, Remote} /\ PointInv
  BY Constants DEF DispatchIInv, PointInv
<1>3. CASE point["mode"] = Manual
  <2>1. requested(now + 1) = [active |-> 0, reactive |-> 0]
    BY <1>3 DEF requested, Manual, AutoStrategy, Remote
  <2>2. DemandOf(point, now', watchdogMode, age') = 0 /\ ReactiveOf(point, watchdogMode, age') = 0
    BY <1>3 DEF DemandOf, ReactiveOf, Manual, Remote
  <2> QED
    BY <2>1, <2>2
<1>4. CASE point["mode"] = AutoStrategy
  <2>1. requested(now + 1) = [active |-> scheduleLookup(now + 1), reactive |-> 0]
    BY <1>4 DEF requested, AutoStrategy, Remote
  <2>2. DemandOf(point, now', watchdogMode, age') = ScheduledOf(point, now + 1)
        /\ ReactiveOf(point, watchdogMode, age') = 0
    BY <1>1, <1>4 DEF DemandOf, ReactiveOf, Manual, AutoStrategy, Remote
  <2> QED
    BY <1>1, <1>2, <2>1, <2>2, LookupIsSchedule
<1>5. CASE point["mode"] = Remote /\ Live(watchdogMode, age')
  <2>1. requested(now + 1) = [active |-> point["active"], reactive |-> point["reactive"]]
    BY <1>5 DEF requested, AutoStrategy, Remote
  <2>2. DemandOf(point, now', watchdogMode, age') = point["active"]
        /\ ReactiveOf(point, watchdogMode, age') = IF point["on"] # 0 THEN point["reactive"] ELSE 0
    BY <1>5 DEF DemandOf, ReactiveOf, Manual, Remote
  <2> QED
    BY <1>2, <2>1, <2>2
<1>6. CASE point["mode"] = Remote /\ ~ Live(watchdogMode, age')
  <2>1. requested(now + 1) = [active |-> 0, reactive |-> 0]
    BY <1>6 DEF requested, AutoStrategy, Remote
  <2>2. DemandOf(point, now', watchdogMode, age') = 0 /\ ReactiveOf(point, watchdogMode, age') = 0
    BY <1>6 DEF DemandOf, ReactiveOf, Manual, Remote
  <2> QED
    BY <2>1, <2>2
<1> QED
  BY <1>2, <1>3, <1>4, <1>5, <1>6

LEMMA TickFollows ==
    ASSUME TimesOfDay, DispatchIInv, NEW engine \in Physical, Tick(engine),
           point["mode"] = Remote => (expired(now + 1) <=> ~ Live(watchdogMode, age'))
    PROVE  Follows(point', now', watchdogMode', age', out')
<1> DEFINE kw == requested(now + 1).active
           active == applyPowerLimits(kw, engine)
<1>1. /\ point' = point /\ watchdogMode' = watchdogMode
      /\ out' = [active   |-> IF point["on"] # 0 /\ ~ prohibited(active, engine) THEN active ELSE 0,
                 reactive |-> IF point["on"] # 0 THEN requested(now + 1).reactive ELSE 0,
                 engine   |-> engine]
  BY DEF Tick, ResolveDispatch, setpoints
<1>2. kw = DemandOf(point, now', watchdogMode, age') /\ kw \in Int
      /\ (IF point["on"] # 0 THEN requested(now + 1).reactive ELSE 0)
           = ReactiveOf(point, watchdogMode, age')
  BY RequestedIsDemand
<1> HIDE DEF kw
<1>3. NearestOf(point, engine,
                IF point["on"] # 0 /\ ~ prohibited(active, engine) THEN active ELSE 0, kw)
  BY <1>2, LimitsAreNearest DEF DispatchIInv
<1>4. /\ out'.engine = engine /\ out'.reactive = ReactiveOf(point, watchdogMode, age')
      /\ out'.active = IF point["on"] # 0 /\ ~ prohibited(active, engine) THEN active ELSE 0
  <2> HIDE DEF active
  <2> QED
    BY <1>1, <1>2
<1> HIDE DEF active
<1> QED
  BY <1>1, <1>2, <1>3, <1>4 DEF Follows

\* Whatever is no tick leaves its outcome as it was, or is not judged by it.
LEMMA FollowsStep ==
    ASSUME TimesOfDay, DispatchIInv, DispatchFollowsDemand, [Next]_vars,
           watchdogMode = "hold" \/ (AgeInv /\ AgeInv')
    PROVE  DispatchFollowsDemand'
<1>1. ASSUME NEW engine \in Physical, Tick(engine)
      PROVE  DispatchFollowsDemand'
  <2> SUFFICES ASSUME ~ latched'
               PROVE  Follows(point', now', watchdogMode', age', out')
    BY FollowsRestated
  <2>1. point["mode"] = Remote => (expired(now + 1) <=> ~ Live(watchdogMode, age'))
    <3>1. CASE watchdogMode = "hold"
      BY <3>1 DEF expired, Live
    <3>2. CASE AgeInv /\ AgeInv'
      BY <1>1, <3>2, ExpiresOnTime
    <3> QED
      BY <3>1, <3>2
  <2> QED
    BY <1>1, <2>1, TickFollows
<1>2. CASE fresh' = FALSE
  BY <1>2, FollowsRestated
<1>3. CASE UNCHANGED <<fresh, latched, point, now, watchdogMode, age, out>>
  BY <1>3, FollowsRestated
<1>4. ASSUME NEW w \in Writers, Request(w, Accepted, Batches)
      PROVE  DispatchFollowsDemand'
  <2>1. CASE Commit(w)
    BY <2>1, <1>2 DEF Commit
  <2>2. CASE ~ Commit(w)
    BY <1>3, <1>4, <2>2 DEF Request, Write, handleWriteSingleRegister, handleWriteMultipleRegisters,
       reject, WriteBatch, setpoints, watchdog
  <2> QED
    BY <2>1, <2>2
<1>5. ASSUME NEW t, Start(t)
      PROVE  DispatchFollowsDemand'
  BY <1>2, <1>5 DEF Start
<1>6. CASE Reset
  BY <1>2, <1>6 DEF Reset
<1>7. CASE UNCHANGED vars
  BY <1>3, <1>7 DEF vars, setpoints, watchdog
<1> QED
  BY <1>1, <1>4, <1>5, <1>6, <1>7 DEF Next

\* Whatever was written and in whatever order, by whole, half and batched
\* writes, a tick dispatches the feasible power nearest to the demand, for any
\* schedule of times of a day, any limits and any state of the battery
\* (processor.go ResolveDispatch).  No scenario start sets the clock while a
\* watchdog watches: one that sets it back lengthens the timeout.
THEOREM DispatchAlwaysFollowsDemand ==
    ASSUME TimesOfDay, Instants = {} \/ WatchdogModes \subseteq {"hold"}
    PROVE  Spec => []DispatchFollowsDemand
<1>1. Init => DispatchFollowsDemand
  BY DEF Init, DispatchFollowsDemand
<1>2. CASE Instants = {}
  <2>1. DispatchIInv /\ AgeInv /\ [Next]_vars => AgeInv'
    BY <1>2, AgeStep
  <2>2. DispatchIInv /\ AgeInv /\ AgeInv' /\ DispatchFollowsDemand /\ [Next]_vars
          => DispatchFollowsDemand'
    BY FollowsStep
  <2> QED
    BY <1>1, <2>1, <2>2, AgeInit, DispatchCorrect, PTL DEF Spec
<1>3. CASE WatchdogModes \subseteq {"hold"}
  <2>1. DispatchIInv /\ DispatchFollowsDemand /\ [Next]_vars => DispatchFollowsDemand'
    BY <1>3, FollowsStep DEF DispatchIInv, ClockInv
  <2> QED
    BY <1>1, <2>1, DispatchCorrect, PTL DEF Spec
<1> QED
  BY <1>2, <1>3

-----------------------------------------------------------------------------
(***************************************************************************)
(* Validation.  What floats must offer for rounding to change no verdict.  *)
(* float64 offers it to every value but those within their own rounding of *)
(* a range's limit or of the largest float32, which no float64 can tell    *)
(* from that limit; today's catalog has no range.                          *)
(***************************************************************************)
\* The spacings go far enough for t tenths, and what they are rounded to.
Room(t) == \E top \in Spacings : (absolute(t) + 2) * Unit <= Significands * top

\* The numbers that an integer type or an enum allows are small: for float64,
\* below 2^42.
Small(S) == S \subseteq Int /\ \A x \in S : 2048 * absolute(x) <= Significands

isFloat(x) == \E k \in Int : x = spacing(x, 1) * k

\* t/d is off a limit by more than it is rounded by, or is that limit.
OffOrOn(t, d, limit) ==
    /\ limit \in Int
    /\ \/ Significands * absolute(t * Unit - d * limit) > absolute(t * Unit)
       \/ t * Unit = d * limit /\ isFloat(limit)

\* t/10, as the raw value of a point of scale 1/c, is off the largest float32 by
\* more than it is rounded by, or is that one and the scale does not round it.
OffOrOnMax(t, c) ==
    \/ 2 * Significands * absolute(absolute(t * Unit) - 10 * MaxFloat32) > 7 * absolute(t * Unit)
    \/ /\ absolute(t * Unit) = 10 * MaxFloat32 /\ c = 1
       /\ isFloat(MaxFloat32) /\ isFloat(Unit)

\* Scales are far above the denormals, and there are significands enough to keep
\* the three roundings of a value within the tolerance, and the tolerance below a
\* tenth of one for the numbers that a type or an enum allows.
FloatsSuffice ==
    /\ Significands >= 2048
    /\ \A meta \in Metas : meta.per \in Nat \ {0} /\ 64 * meta.per * Significands <= Unit
    /\ Tenths \subseteq Int /\ \A t \in Tenths : Room(t)
    /\ Small(MinI16..MaxI16)
    /\ \A meta \in Metas : "enum" \in DOMAIN meta => Small(meta.enum)
    /\ \A meta \in Metas, t \in Tenths :
          /\ meta.type = "F32" => OffOrOnMax(t, meta.per)
          /\ "range" \in DOMAIN meta => /\ OffOrOn(t, 10 * meta.per, meta.range.min)
                                         /\ OffOrOn(t, 10 * meta.per, meta.range.max)

-----------------------------------------------------------------------------
(***************************************************************************)
(* Rounding: the whole-number arithmetic that its bounds rest on, and the  *)
(* bounds of a spacing, a nearest float and a literal.                     *)
(***************************************************************************)
\* Multiplication by a number that is not negative is monotone, and by one that
\* is positive strictly so.
LEMMA Scaled ==
    ASSUME NEW a \in Int, NEW b \in Int, NEW c \in Int, c >= 0
    PROVE  /\ a * c \in Int /\ b * c \in Int
           /\ a <= b => a * c <= b * c
           /\ a < b /\ c > 0 => a * c < b * c
  OBVIOUS

\* And so it can be cancelled.
LEMMA Cancelled ==
    ASSUME NEW a \in Int, NEW b \in Int, NEW c \in Int, c > 0
    PROVE  /\ a * c <= b * c => a <= b
           /\ a * c < b * c => a < b
  BY Scaled

\* Division by a positive number.
LEMMA Division ==
    ASSUME NEW n \in Int, NEW g \in Int, g > 0
    PROVE  /\ n \div g \in Int /\ n % g \in Int
           /\ n = g * (n \div g) + (n % g) /\ 0 <= n % g /\ n % g < g
  BY SMT

\* The absolute value is one of the number and its negative, and bounds both.
LEMMA Absolute ==
    ASSUME NEW x \in Int
    PROVE  /\ absolute(x) \in Int /\ absolute(x) >= 0
           /\ x <= absolute(x) /\ -x <= absolute(x)
           /\ absolute(x) = x \/ absolute(x) = -x
  BY DEF absolute

\* The absolute value of a multiple.
LEMMA AbsoluteScaled ==
    ASSUME NEW x \in Int, NEW c \in Int, c >= 0
    PROVE  absolute(x * c) = absolute(x) * c
<1>1. CASE x >= 0
  <2>1. x * c >= 0
    BY <1>1
  <2> QED
    BY <1>1, <2>1 DEF absolute
<1>2. CASE x < 0
  <2>1. -x * c >= 0 /\ x * c = -(-x * c)
    BY <1>2
  <2> QED
    BY <1>2, <2>1 DEF absolute
<1> QED
  BY <1>1, <1>2

\* What is assumed of the floats.
LEMMA FloatConstants ==
    /\ Significands \in Int /\ Significands > 0 /\ Unit \in Int /\ Unit > 0
    /\ 1 \in Spacings /\ \A s \in Spacings : s \in Int /\ s > 0
    /\ \A s \in Spacings : s = 1 \/ \E half \in Spacings : s = 2 * half
    /\ MinI16 \in Int /\ MaxI16 \in Int /\ MaxFloat32 \in Nat
    /\ NotFinite \notin Int
  BY FloatsAssumption, ValidationAssumption DEF FloatsAssumption, ValidationAssumption

\* The same for a multiple of the unit.
LEMMA AbsoluteUnits == \A x \in Int : absolute(x * Unit) = absolute(x) * Unit
  BY FloatConstants, AbsoluteScaled

\* The least spacing that fits exists if any fits.
LEMMA SpacingLeast ==
    ASSUME NEW n \in Int, NEW d \in Int, d > 0,
           NEW top \in Spacings, absolute(n) < d * Significands * top
    PROVE  /\ spacing(n, d) \in Spacings
           /\ absolute(n) < d * Significands * spacing(n, d)
           /\ \A r \in Spacings : r < spacing(n, d) => ~(absolute(n) < d * Significands * r)
<1> DEFINE fits(s) == absolute(n) < d * Significands * s
           S == {s \in Spacings : fits(s)}
           spread == spacing(n, d)
<1>1. S \subseteq Nat /\ top \in S
  BY FloatConstants
<1>2. PICK x \in S : \A y \in S : x <= y
  <2> HIDE DEF S
  <2> QED
    BY <1>1, Smallest
<1>3. x \in Spacings /\ fits(x) /\ \A r \in Spacings : r < x => ~fits(r)
  <2>1. x \in Int /\ \A r \in Spacings : r \in Int
    BY FloatConstants
  <2>2. \A r \in Spacings : fits(r) => x <= r
    BY <1>2
  <2> QED
    BY <2>1, <2>2
<1>4. spread \in Spacings /\ fits(spread) /\ \A r \in Spacings : r < spread => ~fits(r)
  <2>1. spread = CHOOSE s \in Spacings : fits(s) /\ \A r \in Spacings : r < s => ~fits(r)
    BY DEF spacing
  <2> HIDE DEF fits, spread
  <2> QED
    BY <1>3, <2>1
<1> QED
  BY <1>4

\* It leaves one of the significands, and unless it is the least one half of it
\* does not.
LEMMA SpacingBounds ==
    ASSUME NEW n \in Int, NEW d \in Int, d > 0,
           NEW top \in Spacings, absolute(n) < d * Significands * top
    PROVE  /\ spacing(n, d) \in Int /\ spacing(n, d) > 0
           /\ absolute(n) < d * Significands * spacing(n, d)
           /\ \/ spacing(n, d) = 1
              \/ 2 * absolute(n) >= d * Significands * spacing(n, d)
<1> DEFINE fits(s) == absolute(n) < d * Significands * s
           spread == spacing(n, d)
<1>1. spread \in Spacings /\ fits(spread) /\ \A r \in Spacings : r < spread => ~fits(r)
  BY SpacingLeast
<1>2. spread \in Int /\ spread > 0 /\ absolute(n) \in Int
  BY <1>1, FloatConstants, Absolute
<1>3. ASSUME spread # 1
      PROVE  2 * absolute(n) >= d * Significands * spread
  <2>1. PICK half \in Spacings : spread = 2 * half
    BY <1>1, <1>3, FloatConstants
  <2>2. half \in Int /\ half > 0 /\ half < spread
    BY <2>1, <1>2, FloatConstants
  <2>3. ~fits(half)
    BY <1>1, <2>2
  <2> DEFINE A == d * Significands
  <2>4. A \in Int
    BY FloatConstants
  <2>5. ~(absolute(n) < A * half)
    BY <2>3
  <2> HIDE DEF A, spread
  <2>6. 2 * absolute(n) >= A * spread
    BY <1>2, <2>1, <2>2, <2>4, <2>5
  <2> QED
    BY <2>6 DEF A
<1> HIDE DEF spread
<1>4. spread = 1 \/ 2 * absolute(n) >= d * Significands * spread
  BY <1>3
<1> QED
  BY <1>1, <1>2, <1>4 DEF spread

\* The nearest float is a multiple of the spacing, at most half of it away.
LEMMA NearestError ==
    ASSUME NEW n \in Int, NEW d \in Int, d > 0,
           NEW top \in Spacings, absolute(n) < d * Significands * top
    PROVE  /\ nearest(n, d) \in Int
           /\ \E k \in Int : nearest(n, d) = spacing(n, d) * k
           /\ 2 * absolute(nearest(n, d) * d - n) <= spacing(n, d) * d
<1> DEFINE s == spacing(n, d)
           g == s * d
           q == n \div g
           twice == 2 * (n % g)
           k == IF twice < g \/ (twice = g /\ q % 2 = 0) THEN q ELSE q + 1
<1>1. s \in Int /\ s > 0
  BY SpacingBounds
<1>2. nearest(n, d) = s * k
  BY DEF nearest
<1> HIDE DEF s
<1>3. g \in Int /\ g > 0
  BY <1>1, Scaled
<1> HIDE DEF g
<1>4. q \in Int /\ n % g \in Int /\ n = g * q + (n % g) /\ 0 <= n % g /\ n % g < g
  BY <1>3, Division
<1> DEFINE r == n % g
<1> HIDE DEF r
<1> HIDE DEF q
<1>5. q \in Int /\ r \in Int /\ n = g * q + r /\ 0 <= r /\ r < g
  BY <1>4 DEF q, r
<1>6. twice = 2 * r
  BY DEF r
<1> HIDE DEF twice
<1>7. (k = q /\ 2 * r <= g) \/ (k = q + 1 /\ 2 * r >= g)
  BY <1>3, <1>5, <1>6
<1> HIDE DEF k
<1>8. k \in Int
  BY <1>5, <1>7
<1>9. (s * k) * d = g * k
  BY <1>1, <1>8 DEF g
<1>10. (g * k - n = -r /\ 2 * r <= g) \/ (g * k - n = g - r /\ 2 * r >= g)
  BY <1>3, <1>5, <1>7
<1>11. 2 * absolute(g * k - n) <= g
  BY ONLY <1>3, <1>5, <1>10 DEF absolute
<1>12. s * k \in Int
  BY <1>1, <1>8
<1> QED
  BY <1>2, <1>8, <1>9, <1>11, <1>12 DEF s, g

\* A float that is not a denormal is off by less than its last significand.
LEMMA NearestRelative ==
    ASSUME NEW n \in Int, NEW d \in Int, d > 0,
           NEW top \in Spacings, absolute(n) < d * Significands * top,
           n = 0 \/ 2 * absolute(n) >= d * Significands
    PROVE  Significands * absolute(nearest(n, d) * d - n) <= absolute(n)
<1> DEFINE s == spacing(n, d)
           m == nearest(n, d)
           e == absolute(m * d - n)
           C == d * Significands
<1>1. s \in Int /\ s > 0 /\ (s = 1 \/ 2 * absolute(n) >= C * s)
  BY SpacingBounds
<1>2. m \in Int /\ 2 * e <= s * d /\ \E k \in Int : m = s * k
  BY NearestError
<1> HIDE DEF s, m
<1>3. m * d \in Int /\ m * d - n \in Int
  BY <1>2
<1>4. e \in Int /\ e >= 0 /\ absolute(n) \in Int
  BY <1>3, Absolute
<1>5. C \in Int /\ C > 0 /\ Significands \in Int /\ Significands > 0
  BY FloatConstants, Scaled
<1>6. CASE n = 0
  <2>1. absolute(n) = 0
    BY <1>6 DEF absolute
  <2>2. C * s > 0
    BY <1>1, <1>5
  <2>3. s = 1
    BY <1>1, <1>5, <2>1, <2>2
  <2>4. e = absolute(m) * d
    BY <1>2, <1>3, <1>6, AbsoluteScaled
  <2>5. absolute(m) \in Int /\ absolute(m) >= 0
    BY <1>2, Absolute
  <2>6. 2 * (absolute(m) * d) <= d
    BY <1>2, <2>3, <2>4
  <2> HIDE DEF e
  <2>7. absolute(m) = 0
    <3>1. SUFFICES ASSUME absolute(m) >= 1 PROVE FALSE
      BY <2>5
    <3>2. absolute(m) * d >= d
      BY <2>5, <3>1
    <3> QED
      BY <2>5, <2>6, <3>2
  <2>8. e = 0
    BY <2>4, <2>7
  <2> QED
    BY <1>5, <2>1, <2>8 DEF e, m
<1>7. CASE 2 * absolute(n) >= C * s
  <2> HIDE DEF e, C
  <2>1. (2 * e) * Significands <= (s * d) * Significands
    <3>1. s * d \in Int /\ 2 * e \in Int
      BY <1>1, <1>4
    <3> QED
      BY <1>2, <1>5, <3>1, Scaled
  <2>2. (s * d) * Significands = C * s
    BY <1>1, <1>5 DEF C
  <2>3. (2 * e) * Significands = 2 * (Significands * e) /\ Significands * e \in Int
    BY <1>4, <1>5
  <2>4. C * s \in Int
    BY <1>1, <1>5
  <2> QED
    BY <1>4, <1>7, <2>1, <2>2, <2>3, <2>4 DEF e, m
<1>8. s = 1 => C * s = C
  BY <1>5
<1> QED
  BY <1>1, <1>6, <1>7, <1>8

\* The absolute value of a product, and of a sum.
LEMMA AbsoluteProduct ==
    ASSUME NEW x \in Int, NEW y \in Int
    PROVE  absolute(x * y) = absolute(x) * absolute(y)
<1>1. CASE y >= 0
  BY <1>1, AbsoluteScaled DEF absolute
<1>2. CASE y < 0
  <2>1. x * y = (-x) * (-y) /\ -x \in Int /\ -y \in Int /\ -y >= 0
    BY <1>2
  <2>2. absolute(x * y) = absolute(-x) * (-y)
    BY <2>1, AbsoluteScaled
  <2>3. absolute(-x) = absolute(x) /\ absolute(y) = -y
    BY <1>2 DEF absolute
  <2> QED
    BY <2>2, <2>3
<1> QED
  BY <1>1, <1>2

LEMMA Triangle ==
    ASSUME NEW x \in Int, NEW y \in Int
    PROVE  /\ absolute(x + y) <= absolute(x) + absolute(y)
           /\ absolute(x - y) <= absolute(x) + absolute(y)
           /\ absolute(x) - absolute(y) <= absolute(x + y)
  BY DEF absolute

\* What two rounded literals and their rounded quotient are off by together:
\* e is 1/c and v is t/(10 * c), in units, and raw is v/e.
LEMMA RawArithmetic ==
    ASSUME NEW P \in Int, P >= 9, NEW U \in Int, U > 0, NEW c \in Int, c > 0, NEW t \in Int,
           NEW e \in Int, NEW v \in Int, NEW raw \in Int,
           P * absolute(e * c - U) <= U,
           P * absolute(v * (10 * c) - t * U) <= absolute(t * U),
           P * absolute(raw * e - v * U) <= absolute(v * U)
    PROVE  2 * P * absolute(10 * raw - t * U) <= 7 * absolute(t * U)
<1> DEFINE E == e * c - U
           V == v * (10 * c) - t * U
           R == raw * e - v * U
           A == absolute(t * U)
           W == 10 * raw - t * U
           aE == absolute(E)
           aV == absolute(V)
           aW == absolute(W)
           aR == 10 * c * absolute(R)
<1>1. E \in Int /\ V \in Int /\ R \in Int /\ t * U \in Int /\ W \in Int /\ v * U \in Int
  OBVIOUS
<1>2. A \in Int /\ A >= 0 /\ aE \in Int /\ aE >= 0 /\ aV \in Int /\ aV >= 0
      /\ aW \in Int /\ aW >= 0 /\ absolute(R) \in Int /\ absolute(R) >= 0
      /\ absolute(v * U) \in Int
  BY <1>1, Absolute
<1>3. W * (U + E) = U * V + (10 * c) * R - (t * U) * E
  OBVIOUS
<1>4. 10 * c \in Int /\ 10 * c >= 0
  OBVIOUS
<1>5. aR \in Int /\ absolute((10 * c) * R) = aR
  <2>1. absolute(R * (10 * c)) = absolute(R) * (10 * c)
    BY <1>1, <1>4, AbsoluteScaled
  <2> HIDE DEF R
  <2> QED
    BY <1>1, <1>2, <1>4, <2>1
<1>6. P * aR <= U * (A + aV)
  <2>1. absolute(v * U) * (10 * c) = absolute((v * U) * (10 * c))
    BY <1>1, <1>4, AbsoluteScaled
  <2>2. (v * U) * (10 * c) = (t * U + V) * U
    OBVIOUS
  <2>3. absolute((t * U + V) * U) = absolute(t * U + V) * U
    BY <1>1, AbsoluteScaled
  <2>4. absolute(t * U + V) <= A + aV /\ absolute(t * U + V) \in Int
    BY <1>1, Triangle, Absolute
  <2>5. absolute(t * U + V) * U <= (A + aV) * U
    BY <1>2, <2>4, Scaled
  <2>6. (P * absolute(R)) * (10 * c) <= absolute(v * U) * (10 * c)
    <3> DEFINE r == absolute(R)
               y == absolute(v * U)
    <3>1. r \in Int /\ y \in Int /\ P * r <= y
      BY <1>2
    <3> HIDE DEF r, y
    <3>2. P * r \in Int
      BY <3>1
    <3>3. (P * r) * (10 * c) <= y * (10 * c)
      BY <1>4, <3>1, <3>2, Scaled
    <3> QED
      BY <3>3 DEF r, y
  <2>7. (P * absolute(R)) * (10 * c) = P * aR
    BY <1>2, <1>4
  <2> DEFINE sum == absolute(t * U + V)
  <2>8. (P * absolute(R)) * (10 * c) <= sum * U
    BY <2>1, <2>2, <2>3, <2>6
  <2>9. sum \in Int /\ sum * U <= (A + aV) * U
    BY <2>4, <2>5
  <2> HIDE DEF sum, R, A, aV, aR
  <2>10. P * aR <= sum * U
    BY <2>7, <2>8
  <2>11. sum * U \in Int /\ P * aR \in Int /\ (A + aV) * U = U * (A + aV) /\ U * (A + aV) \in Int
    BY <1>2, <1>5, <2>9
  <2> QED
    BY <2>9, <2>10, <2>11
<1>7. aW * absolute(U + E) <= U * aV + aR + A * aE
  <2>1. absolute(W * (U + E)) = aW * absolute(U + E)
    BY <1>1, AbsoluteProduct
  <2>2. absolute(U * V) = U * aV
    <3>1. absolute(V * U) = aV * U
      BY <1>1, AbsoluteScaled
    <3> HIDE DEF V
    <3> QED
      BY <1>1, <1>2, <3>1
  <2>3. absolute((t * U) * E) = A * aE
    BY <1>1, AbsoluteProduct
  <2> DEFINE X == U * V
             Y == (10 * c) * R
             Z == (t * U) * E
  <2>4. X \in Int /\ Y \in Int /\ Z \in Int
    <3> HIDE DEF V, R, E
    <3> QED
      BY <1>1
  <2>5. absolute(W * (U + E)) = absolute(X + Y - Z)
    BY <1>3
  <2>6. absolute(X) = U * aV /\ absolute(Y) = aR /\ absolute(Z) = A * aE
    BY <1>5, <2>2, <2>3
  <2> HIDE DEF X, Y, Z
  <2>7. absolute(X + Y - Z) <= absolute(X) + absolute(Y) + absolute(Z)
    BY <2>4 DEF absolute
  <2> HIDE DEF W, E, aW, aV, aR, A, aE
  <2> QED
    BY <2>1, <2>5, <2>6, <2>7
<1>8. absolute(U + E) \in Int /\ U - aE <= absolute(U + E)
  <2>1. absolute(U) = U
    BY DEF absolute
  <2>2. absolute(U) - absolute(E) <= absolute(U + E)
    BY <1>1, Triangle
  <2> QED
    BY <1>1, <2>1, <2>2, Absolute
<1>9. P * aE <= U /\ P * aV <= A
  OBVIOUS
<1>10. P >= 9 /\ U > 0
  OBVIOUS
<1> DEFINE N == absolute(U + E)
<1> HIDE DEF E, V, R, A, W, aE, aV, aW, aR, N
<1>11. P * N >= (P - 1) * U
  BY <1>2, <1>8, <1>9 DEF N
<1>12. P * (U * aV) <= U * A /\ P * (A * aE) <= U * A
  BY <1>2, <1>9
<1>13. aW * N \in Int /\ U * aV \in Int /\ A * aE \in Int /\ U * A \in Int
  BY <1>2, <1>8 DEF N
<1>14. P * (aW * N) <= 3 * (U * A) + U * aV
  <2>1. P * (aW * N) <= P * (U * aV + aR + A * aE)
    BY <1>5, <1>7, <1>10, <1>13 DEF N
  <2>2. P * (U * aV + aR + A * aE) = P * (U * aV) + P * aR + P * (A * aE)
    BY <1>5, <1>13
  <2>3. U * (A + aV) = U * A + U * aV
    BY <1>2
  <2> QED
    BY <1>5, <1>6, <1>12, <1>13, <2>1, <2>2, <2>3
<1>15. P * (P * (aW * N)) <= (U * A) * (3 * P + 1)
  <2> DEFINE M == aW * N
             B == U * A
             D == U * aV
  <2> HIDE DEF M, B, D
  <2>1. M \in Int /\ B \in Int /\ D \in Int /\ P * M <= 3 * B + D /\ P * D <= B
    BY <1>12, <1>13, <1>14 DEF M, B, D
  <2>2. P * (P * M) <= P * (3 * B + D)
    BY <1>10, <2>1
  <2>3. P * (3 * B + D) = 3 * (P * B) + P * D
    BY <2>1
  <2>4. B * (3 * P + 1) = 3 * (P * B) + B
    BY <2>1
  <2> QED
    BY <2>1, <2>2, <2>3, <2>4 DEF M, B
<1>16. aW * ((P - 1) * U) <= aW * (P * N)
  BY <1>2, <1>8, <1>11 DEF N
<1>17. (P * aW) * (P - 1) <= A * (3 * P + 1)
  <2> DEFINE x == (P * aW) * (P - 1)
             y == A * (3 * P + 1)
  <2>1. x \in Int /\ y \in Int /\ aW * ((P - 1) * U) \in Int /\ aW * (P * N) \in Int
    BY <1>2, <1>8 DEF N
  <2>2. x * U = P * (aW * ((P - 1) * U))
    BY <1>2
  <2>3. P * (aW * (P * N)) = P * (P * (aW * N))
    BY <1>2, <1>8 DEF N
  <2>4. y * U = (U * A) * (3 * P + 1)
    BY <1>2
  <2>5. P * (aW * ((P - 1) * U)) <= P * (aW * (P * N))
    BY <1>10, <1>16, <2>1
  <2> DEFINE least == P * (aW * ((P - 1) * U))
             most == P * (P * (aW * N))
  <2>6. least \in Int /\ most \in Int /\ least <= most /\ most <= y * U /\ x * U = least
    BY <1>13, <1>15, <2>1, <2>2, <2>3, <2>4, <2>5
  <2> HIDE DEF least, most
  <2> HIDE DEF x, y
  <2>7. x <= y
    BY <1>10, <2>1, <2>6, Cancelled, Scaled
  <2> QED
    BY <2>7 DEF x, y
<1>18. (2 * P * aW) * (P - 1) <= (7 * A) * (P - 1)
  <2>1. A * (3 * P + 1) = 3 * (P * A) + A /\ (7 * A) * (P - 1) = 7 * (P * A) - 7 * A
    BY <1>2
  <2>2. P * A >= 9 * A
    BY <1>2, <1>10
  <2>3. (2 * P * aW) * (P - 1) = 2 * ((P * aW) * (P - 1))
    BY <1>2
  <2> DEFINE x == (P * aW) * (P - 1)
             y == P * A
  <2>4. y \in Int /\ x \in Int /\ x <= 3 * y + A
    BY <1>2, <1>17, <2>1
  <2> HIDE DEF x, y
  <2>5. 2 * x <= 7 * y - 7 * A
    BY <1>2, <2>2, <2>4 DEF y
  <2> QED
    BY <2>1, <2>3, <2>5 DEF x, y
<1>19. 2 * P * aW <= 7 * A
  <2>1. 2 * P * aW \in Int /\ 7 * A \in Int /\ P - 1 \in Int /\ P - 1 > 0
    BY <1>2
  <2> QED
    BY <1>18, <2>1, Cancelled
<1> QED
  BY <1>19 DEF aW, W, A

\* A literal is off by less than its last significand.
LEMMA LiteralError ==
    ASSUME NEW c \in Int, c > 0, NEW t \in Int, c * Significands <= 2 * Unit,
           NEW top \in Spacings, absolute(t) * Unit < Significands * top
    PROVE  /\ literal(t, c) \in Int
           /\ Significands * absolute(literal(t, c) * c - t * Unit) <= absolute(t * Unit)
<1> DEFINE P == Significands
           U == Unit
           n == t * U
<1>1. P \in Int /\ P > 0 /\ U \in Int /\ U > 0 /\ top \in Int /\ top > 0
  BY FloatConstants
<1>2. n \in Int /\ absolute(n) = absolute(t) * U /\ absolute(n) \in Int
  BY <1>1, AbsoluteScaled, Absolute
<1>3. absolute(n) < c * P * top
  <2>1. P * top \in Int /\ P * top > 0
    BY <1>1, Scaled
  <2>2. P * top <= c * (P * top)
    BY <2>1
  <2>3. c * (P * top) = c * P * top /\ c * (P * top) \in Int
    BY <1>1, <2>1
  <2> QED
    BY <1>2, <2>1, <2>2, <2>3
<1>4. n = 0 \/ 2 * absolute(n) >= c * P
  <2>1. CASE t = 0
    BY <1>1, <2>1
  <2>2. CASE t # 0
    <3>1. absolute(t) \in Int /\ absolute(t) >= 1
      BY <2>2 DEF absolute
    <3>2. absolute(t) * U >= U
      BY <1>1, <3>1
    <3>3. c * P \in Int
      BY <1>1
    <3> QED
      BY <1>1, <1>2, <3>2, <3>3
  <2> QED
    BY <2>1, <2>2
<1> HIDE DEF n
<1>5. nearest(n, c) \in Int
  BY <1>2, <1>3, NearestError
<1>6. P * absolute(nearest(n, c) * c - n) <= absolute(n)
  BY <1>2, <1>3, <1>4, NearestRelative
<1> QED
  BY <1>5, <1>6 DEF n, literal

\* The literals of a scale and of a value, and the float quotient of the two.
LEMMA RawError ==
    ASSUME NEW c \in Int, c > 0, NEW t \in Int,
           Significands >= 2048, 64 * c * Significands <= Unit,
           NEW top \in Spacings, (absolute(t) + 2) * Unit <= Significands * top,
           NEW v, v = literal(t, 10 * c), NEW raw, raw = quotient(v, literal(1, c))
    PROVE  /\ v \in Int /\ raw \in Int
           /\ Significands * absolute(v * (10 * c) - t * Unit) <= absolute(t * Unit)
           /\ 2 * Significands * absolute(10 * raw - t * Unit) <= 7 * absolute(t * Unit)
<1> DEFINE P == Significands
           U == Unit
           e == literal(1, c)
           E == e * c - U
           V == v * (10 * c) - t * U
           A == absolute(t) * U
<1>1. P \in Int /\ P >= 2048 /\ U \in Int /\ U > 0 /\ top \in Int /\ top > 0 /\ c * P \in Int
  BY FloatConstants
<1>2. absolute(t) \in Int /\ absolute(t) >= 0 /\ absolute(1) = 1
  BY Absolute DEF absolute
<1>3. A \in Int /\ A >= 0 /\ absolute(t * U) = A /\ A < P * top /\ 1 * U < P * top /\ P * top \in Int
  <2>1. A \in Int /\ A >= 0 /\ (absolute(t) + 2) * U = A + 2 * U /\ P * top \in Int
    BY <1>1, <1>2, Scaled
  <2>2. absolute(t * U) = A
    BY <1>1, AbsoluteScaled
  <2>3. (absolute(t) + 2) * U <= P * top
    OBVIOUS
  <2> HIDE DEF A, P, U
  <2>4. A < P * top /\ 1 * U < P * top
    BY <1>1, <2>1, <2>3
  <2> QED
    BY <2>1, <2>2, <2>4
<1>4. 64 * (c * P) <= U
  BY <1>1
<1>5. e \in Int /\ P * absolute(E) <= U
  <2>1. c * P <= 2 * U /\ absolute(1 * U) = U /\ 1 * U = U /\ absolute(1) * U < P * top
    BY <1>1, <1>2, <1>3, <1>4 DEF absolute
  <2>2. e \in Int /\ P * absolute(e * c - 1 * U) <= absolute(1 * U)
    BY <1>1, <2>1, LiteralError
  <2> QED
    BY <2>1, <2>2
<1>6. v \in Int /\ P * absolute(V) <= A
  <2>1. (10 * c) * P = 10 * (c * P) /\ 10 * c \in Int /\ 10 * c > 0
    BY <1>1
  <2>2. (10 * c) * P <= 2 * U
    BY <1>1, <1>4, <2>1
  <2> QED
    BY <1>1, <1>3, <2>1, <2>2, LiteralError
<1> HIDE DEF e
<1>7. E \in Int /\ V \in Int /\ t * U \in Int /\ v * U \in Int
  BY <1>1, <1>5, <1>6
<1>8. 2 * (e * c) >= U /\ e * c <= 2 * U /\ e * c \in Int /\ e > 0
  <2>1. absolute(E) \in Int /\ absolute(E) >= 0 /\ E <= absolute(E) /\ -E <= absolute(E)
    BY <1>7, Absolute
  <2>2. 2 * absolute(E) <= P * absolute(E) /\ P * absolute(E) \in Int
    BY <1>1, <2>1
  <2>3. 2 * absolute(E) <= U
    BY <1>1, <1>5, <2>1, <2>2
  <2>4. e * c \in Int /\ E = e * c - U
    BY <1>5
  <2> HIDE DEF E
  <2>5. 2 * (e * c) >= U /\ e * c <= 2 * U
    BY <1>1, <1>7, <2>1, <2>3, <2>4
  <2>6. e > 0
    <3>1. SUFFICES ASSUME e <= 0 PROVE FALSE
      BY <1>5
    <3>2. e * c <= 0
      BY <1>5, <3>1
    <3> QED
      BY <1>1, <2>4, <2>5, <3>2
  <2> QED
    BY <2>4, <2>5, <2>6
<1> DEFINE w == absolute(v)
<1>9. w \in Int /\ w >= 0 /\ absolute(v * U) = w * U /\ (10 * c) * w = absolute(v * (10 * c))
  <2>1. w \in Int /\ w >= 0
    BY <1>6, Absolute
  <2>2. absolute(v * U) = w * U
    BY <1>1, <1>6, AbsoluteScaled
  <2>3. 10 * c \in Int /\ 10 * c >= 0
    OBVIOUS
  <2>4. absolute(v * (10 * c)) = w * (10 * c)
    BY <1>6, <2>3, AbsoluteScaled
  <2> QED
    BY <2>1, <2>2, <2>3, <2>4
<1>10. 2 * ((10 * c) * w) >= A /\ (10 * c) * w <= 2 * A /\ (10 * c) * w \in Int
  <2> DEFINE x == v * (10 * c)
  <2>1. absolute(V) \in Int /\ absolute(V) >= 0
    BY <1>7, Absolute
  <2>2. 2 * absolute(V) <= P * absolute(V) /\ P * absolute(V) \in Int
    BY <1>1, <2>1
  <2>3. 2 * absolute(V) <= A
    BY <1>3, <1>6, <2>1, <2>2
  <2>4. x \in Int /\ V = x - t * U
    BY <1>6
  <2> HIDE DEF x, V
  <2>5. absolute(x) \in Int /\ absolute(x) <= absolute(V) + absolute(t * U)
        /\ absolute(t * U) <= absolute(V) + absolute(x)
    BY <1>7, <2>4 DEF absolute
  <2>6. absolute(x) = (10 * c) * w
    BY <1>9 DEF x
  <2> HIDE DEF w, A
  <2> QED
    BY <1>3, <2>1, <2>3, <2>5, <2>6
<1>11. absolute(v * U) < e * P * top
  <2> DEFINE x == 10 * (w * U)
             y == 4 * (A * e)
  <2>1. x \in Int /\ y \in Int /\ A * e \in Int /\ A * e >= 0 /\ A * (e * c) \in Int
    BY <1>1, <1>3, <1>5, <1>8, <1>9
  <2>2. x * c = ((10 * c) * w) * U /\ y * c = 4 * (A * (e * c))
    BY <1>1, <1>3, <1>5, <1>9
  <2>3. ((10 * c) * w) * U <= (2 * A) * U
    BY <1>1, <1>3, <1>10, Scaled
  <2>4. A * U <= A * (2 * (e * c))
    BY <1>1, <1>3, <1>8
  <2>5. (2 * A) * U = 2 * (A * U) /\ A * (2 * (e * c)) = 2 * (A * (e * c)) /\ A * U \in Int
    BY <1>1, <1>3, <1>8
  <2>6. x * c <= y * c
    <3> DEFINE i == ((10 * c) * w) * U
               j == A * U
               k == A * (e * c)
    <3>1. i \in Int /\ j \in Int /\ k \in Int /\ i <= 2 * j /\ j <= 2 * k
      BY <1>1, <1>10, <2>1, <2>3, <2>4, <2>5
    <3> HIDE DEF i, j, k
    <3>2. i <= 4 * k
      BY <3>1
    <3> QED
      BY <2>2, <3>2 DEF i, k
  <2> HIDE DEF x, y
  <2>7. x <= y
    BY <2>1, <2>6, Cancelled
  <2>8. w * U \in Int /\ w * U <= A * e
    <3> DEFINE i == w * U
               k == A * e
    <3>1. i \in Int /\ k \in Int /\ k >= 0 /\ 10 * i <= 4 * k
      BY <1>1, <1>9, <2>1, <2>7 DEF x, y
    <3> HIDE DEF i, k
    <3>2. i <= k
      BY <3>1
    <3> QED
      BY <3>1, <3>2 DEF i, k
  <2>9. A * e < (P * top) * e
    BY <1>3, <1>5, <1>8, Scaled
  <2>10. (P * top) * e = e * P * top /\ e * P * top \in Int
    BY <1>1, <1>5
  <2> QED
    BY <1>9, <2>1, <2>8, <2>9, <2>10
<1>12. v * U = 0 \/ 2 * absolute(v * U) >= e * P
  <2>1. CASE t = 0
    <3>1. (10 * c) * w <= 0
      BY <1>1, <1>3, <1>10, <2>1 DEF absolute
    <3>2. w = 0
      <4>1. SUFFICES ASSUME w >= 1 PROVE FALSE
        BY <1>9
      <4>2. (10 * c) * w >= 10 * c
        BY <1>9, <4>1
      <4> QED
        BY <1>9, <1>10, <3>1, <4>2
    <3>3. v = 0
      BY <1>6, <3>2 DEF absolute
    <3> QED
      BY <1>1, <3>3
  <2>2. CASE t # 0
    <3>1. absolute(t) >= 1
      BY <2>2 DEF absolute
    <3>2. A >= U
      BY <1>1, <1>2, <3>1
    <3>3. 2 * ((10 * c) * w) >= U
      BY <1>1, <1>3, <1>10, <3>2
    <3> DEFINE x == 20 * (w * U)
               y == 64 * (P * U)
    <3>4. x \in Int /\ y \in Int /\ P * U \in Int
      BY <1>1, <1>9
    <3>5. x * c = (2 * ((10 * c) * w)) * U
      BY <1>1, <1>9
    <3>6. U * U <= (2 * ((10 * c) * w)) * U
      BY <1>1, <1>10, <3>3, Scaled
    <3>7. (64 * (c * P)) * U <= U * U
      BY <1>1, <1>4, Scaled
    <3>8. y * c = (64 * (c * P)) * U
      BY <1>1
    <3>9. y * c <= x * c
      <4>1. U * U \in Int /\ y * c \in Int /\ x * c \in Int
        BY <1>1, <3>4
      <4> HIDE DEF x, y
      <4> QED
        BY <3>5, <3>6, <3>7, <3>8, <4>1
    <3> HIDE DEF x, y
    <3>10. y <= x
      BY <3>4, <3>9, Cancelled
    <3>11. e <= 2 * U
      <4>1. e <= e * c
        BY <1>5, <1>8
      <4> QED
        BY <1>1, <1>5, <1>8, <4>1
    <3>12. e * P <= (2 * U) * P /\ e * P \in Int
      BY <1>1, <1>5, <3>11, Scaled
    <3>13. (2 * U) * P = 2 * (P * U)
      BY <1>1
    <3>14. 2 * (w * U) >= e * P
      <4> DEFINE i == w * U
                 k == P * U
                 j == e * P
      <4>1. i \in Int /\ k \in Int /\ j \in Int /\ 20 * i >= 64 * k /\ j <= 2 * k /\ k >= 0
        BY <1>1, <1>9, <3>4, <3>10, <3>12, <3>13 DEF x, y
      <4> HIDE DEF i, j, k
      <4>2. 2 * i >= j
        BY <4>1
      <4> QED
        BY <4>2 DEF i, j
    <3> QED
      BY <1>9, <3>14
  <2> QED
    BY <2>1, <2>2
<1>13. raw = nearest(v * U, e)
  BY <1>5, <1>8 DEF quotient, e
<1>14. raw \in Int
  BY <1>5, <1>7, <1>8, <1>11, <1>13, NearestError
<1>15. P * absolute(raw * e - v * U) <= absolute(v * U)
  BY <1>5, <1>7, <1>8, <1>11, <1>12, <1>13, NearestRelative
<1>16. 2 * P * absolute(10 * raw - t * U) <= 7 * absolute(t * U)
  <2>1. P >= 9 /\ P * absolute(e * c - U) <= U
    BY <1>1, <1>5
  <2>2. P * absolute(v * (10 * c) - t * U) <= absolute(t * U)
    BY <1>3, <1>6
  <2>3. P \in Int /\ P >= 9 /\ U \in Int /\ U > 0 /\ c \in Int /\ c > 0 /\ t \in Int
        /\ e \in Int /\ v \in Int /\ raw \in Int
    BY <1>1, <1>5, <1>6, <1>14, <2>1
  <2> HIDE DEF P, U
  <2> QED
    BY ONLY <1>15, <2>1, <2>2, <2>3, RawArithmetic
<1> QED
  BY <1>3, <1>6, <1>14, <1>16

\* math.Round gives a whole number of units, at most half a unit away.
LEMMA RoundedBounds ==
    ASSUME NEW x \in Int
    PROVE  /\ snapped(x) \in Int /\ Rounded(x) = snapped(x) * Unit
           /\ 2 * absolute(x - snapped(x) * Unit) <= Unit
<1> DEFINE U == Unit
           n == 2 * absolute(x) + U
           k == n \div (2 * U)
           r == n % (2 * U)
<1>1. U \in Int /\ U > 0 /\ 2 * U \in Int /\ 2 * U > 0
  BY FloatConstants
<1>2. absolute(x) \in Int /\ n \in Int
  BY <1>1, Absolute
<1>3. k \in Int /\ r \in Int /\ n = (2 * U) * k + r /\ 0 <= r /\ r < 2 * U
  <2> HIDE DEF n
  <2> QED
    BY <1>1, <1>2, Division
<1>4. Rounded(x) = IF x < 0 THEN -(k * U) ELSE k * U
  BY DEF Rounded
<1> HIDE DEF k, r
<1>5. 2 * absolute(x) - 2 * (k * U) <= U /\ 2 * absolute(x) - 2 * (k * U) >= -U /\ k * U \in Int
  BY <1>1, <1>2, <1>3
<1>6. PICK m \in Int : Rounded(x) = m * U /\ 2 * absolute(x - m * U) <= U
  <2>1. CASE x < 0
    <3>1. absolute(x) = -x /\ -k \in Int /\ (-k) * U = -(k * U)
      BY <1>1, <1>3, <2>1 DEF absolute
    <3>2. 2 * absolute(x - (-k) * U) <= U
      <4> DEFINE y == k * U
      <4>1. y \in Int /\ 2 * absolute(x) - 2 * y <= U /\ 2 * absolute(x) - 2 * y >= -U
        BY <1>5
      <4> HIDE DEF y
      <4>2. 2 * absolute(x + y) <= U
        BY <1>1, <3>1, <4>1 DEF absolute
      <4>3. x - (-k) * U = x + y
        BY <1>1, <1>3 DEF y
      <4> QED
        BY <4>2, <4>3
    <3> QED
      BY <1>4, <2>1, <3>1, <3>2
  <2>2. CASE x >= 0
    <3>1. absolute(x) = x
      BY <2>2 DEF absolute
    <3>2. 2 * absolute(x - k * U) <= U
      <4> DEFINE y == k * U
      <4>1. y \in Int /\ 2 * absolute(x) - 2 * y <= U /\ 2 * absolute(x) - 2 * y >= -U
        BY <1>5
      <4> HIDE DEF y
      <4>2. 2 * absolute(x - y) <= U
        BY <1>1, <3>1, <4>1 DEF absolute
      <4> QED
        BY <4>2 DEF y
    <3> QED
      BY <1>3, <1>4, <2>2, <3>2
  <2> QED
    BY <2>1, <2>2
<1>7. snapped(x) = m
  <2>1. (U * m + 0) \div U = m
    BY <1>1, DivisionUnique
  <2>2. U * m + 0 = m * U
    BY <1>1
  <2> QED
    BY <1>6, <2>1, <2>2 DEF snapped
<1> QED
  BY <1>6, <1>7

\* One ulp is about a significand's worth of the number, and never less.
LEMMA UlpBounds ==
    ASSUME NEW x \in Int, NEW top \in Spacings, absolute(x) < Significands * top
    PROVE  /\ ulp(x) \in Int /\ ulp(x) > 0
           /\ absolute(x) <= Significands * ulp(x)
           /\ Significands * ulp(x) <= Significands + 2 * absolute(x)
<1> DEFINE P == Significands
           n == IF x < 0 THEN absolute(x) - 1 ELSE x
           s == spacing(n, 1)
<1>1. ulp(x) = s
  BY DEF ulp
<1>2. absolute(x) \in Int /\ n \in Int /\ absolute(n) \in Int /\ absolute(n) <= absolute(x)
      /\ (x < 0 => absolute(x) = absolute(n) + 1) /\ (x >= 0 => absolute(x) = absolute(n))
  BY DEF absolute
<1>3. P \in Int /\ P > 0 /\ top \in Int /\ P * top \in Int /\ 1 * P * top = P * top
  BY FloatConstants
<1>4. absolute(n) < 1 * P * top
  BY <1>2, <1>3
<1> HIDE DEF n
<1>5. s \in Int /\ s > 0 /\ absolute(n) < 1 * P * s /\ (s = 1 \/ 2 * absolute(n) >= 1 * P * s)
  BY <1>2, <1>4, SpacingBounds
<1> HIDE DEF s
<1>6. P * s \in Int /\ 1 * P * s = P * s /\ P * 1 = P
  BY <1>3, <1>5
<1>7. absolute(x) <= P * s
  BY <1>2, <1>5, <1>6
<1>8. P * s <= P + 2 * absolute(x)
  BY <1>2, <1>3, <1>5, <1>6, Absolute
<1> QED
  BY <1>1, <1>5, <1>7, <1>8

-----------------------------------------------------------------------------
(***************************************************************************)
(* Snapping.  What is known of a raw value that stands for t tenths.       *)
(***************************************************************************)
StandsFor(raw, t) ==
    /\ raw \in Int
    /\ 2 * Significands * absolute(10 * raw - t * Unit) <= 7 * absolute(t * Unit)

\* The room is enough for half a unit above the value as well.
LEMMA RoomAbove ==
    ASSUME NEW t \in Int, NEW top \in Spacings, (absolute(t) + 2) * Unit <= Significands * top,
           NEW x \in Int, absolute(x) <= absolute(t) * Unit + Unit
    PROVE  absolute(x) < Significands * top
<1> DEFINE A == absolute(t) * Unit
           B == Significands * top
<1>1. Unit \in Int /\ Unit > 0 /\ Significands \in Int /\ top \in Int
  BY FloatConstants
<1>2. absolute(t) \in Int /\ absolute(x) \in Int
  BY Absolute
<1>3. A \in Int /\ B \in Int /\ (absolute(t) + 2) * Unit = A + 2 * Unit
  BY <1>1, <1>2
<1>4. A + 2 * Unit <= B /\ absolute(x) <= A + Unit
  BY <1>3
<1> HIDE DEF A, B
<1>5. absolute(x) < B
  BY <1>1, <1>2, <1>3, <1>4
<1> QED
  BY <1>5 DEF B

\* A whole number that is not large is snapped to.
LEMMA SnapsToWhole ==
    ASSUME NEW t \in Int, NEW n \in Int, t = 10 * n, 7 * absolute(n) < Significands, Room(t),
           NEW raw, StandsFor(raw, t)
    PROVE  snaps(raw) /\ snapped(raw) = n
<1> DEFINE P == Significands
           U == Unit
           m == snapped(raw)
           B == absolute(n)
           C == absolute(n * U)
           D == absolute(raw - n * U)
<1>1. P \in Int /\ P > 0 /\ U \in Int /\ U > 0
  BY FloatConstants
<1>2. raw \in Int /\ n * U \in Int /\ t * U \in Int /\ B \in Int /\ B >= 0
      /\ C \in Int /\ C >= 0 /\ D \in Int /\ D >= 0 /\ C = B * U
  <2>1. raw \in Int /\ n * U \in Int /\ t * U \in Int
    BY <1>1 DEF StandsFor
  <2>2. C = B * U
    BY <1>1, AbsoluteScaled
  <2>3. raw - n * U \in Int
    BY <2>1
  <2> QED
    BY <2>1, <2>2, <2>3, Absolute
<1>3. 2 * (P * D) <= 7 * C /\ P * D \in Int
  <2>1. 10 * raw - t * U = (raw - n * U) * 10 /\ t * U = (n * U) * 10 /\ raw - n * U \in Int
    BY <1>1, <1>2
  <2>2. absolute(10 * raw - t * U) = D * 10 /\ absolute(t * U) = C * 10
    BY <1>2, <2>1, AbsoluteScaled
  <2>3. 2 * P * (D * 10) <= 7 * (C * 10)
    BY <2>2 DEF StandsFor
  <2>4. 2 * P * (D * 10) = 10 * (2 * (P * D)) /\ 7 * (C * 10) = 10 * (7 * C) /\ P * D \in Int
    BY <1>1, <1>2
  <2> QED
    BY <1>2, <2>3, <2>4
<1>4. 2 * D < U
  <2>1. 7 * C < P * U
    <3>1. (7 * B) * U < P * U
      BY <1>1, <1>2, Scaled
    <3>2. (7 * B) * U = 7 * (B * U)
      BY <1>1, <1>2
    <3> QED
      BY <1>2, <3>1, <3>2
  <2>2. (2 * D) * P < U * P
    BY <1>1, <1>2, <1>3, <2>1
  <2> QED
    BY <1>1, <1>2, <2>2, Cancelled
<1>5. m = n
  <2>1. m \in Int /\ 2 * absolute(raw - m * U) <= U
    BY <1>2, RoundedBounds
  <2> HIDE DEF m
  <2>2. m * U \in Int
    BY <1>1, <2>1
  <2>3. 2 * D < U /\ n * U \in Int
    BY <1>2, <1>4
  <2> DEFINE x == m * U
             y == n * U
  <2>4. x \in Int /\ y \in Int /\ 2 * absolute(raw - x) <= U /\ 2 * absolute(raw - y) < U
    BY <2>1, <2>2, <2>3
  <2> HIDE DEF x, y
  <2>5. x - y < U /\ y - x < U
    BY <1>1, <1>2, <2>4 DEF absolute
  <2>6. m * U < (n + 1) * U /\ n * U < (m + 1) * U
    BY <1>1, <2>1, <2>5 DEF x, y
  <2>7. m < n + 1 /\ n < m + 1
    BY <1>1, <2>1, <2>6, Cancelled
  <2> QED
    BY <2>1, <2>7
<1>6. Rounded(raw) = n * U
  BY <1>2, <1>5, RoundedBounds
<1>7. D <= 4 * ulp(n * U)
  <2>1. PICK top \in Spacings : (absolute(t) + 2) * U <= P * top
    BY DEF Room
  <2>2. C <= absolute(t) * U + U
    <3>1. absolute(t) \in Int /\ absolute(t) >= B
      BY DEF absolute
    <3>2. B * U <= absolute(t) * U /\ absolute(t) * U \in Int
      BY <1>1, <1>2, <3>1, Scaled
    <3> QED
      BY <1>1, <1>2, <3>2
  <2>3. C < P * top
    BY <1>2, <2>1, <2>2, RoomAbove
  <2> DEFINE u == ulp(n * U)
  <2>4. u \in Int /\ u > 0 /\ C <= P * u
    BY <1>2, <2>1, <2>3, UlpBounds
  <2> HIDE DEF u, C, D
  <2>5. D * P <= (4 * u) * P
    <3>1. P * u \in Int /\ (4 * u) * P = 4 * (P * u) /\ D * P = P * D
      BY <1>1, <1>2, <2>4
    <3> DEFINE x == P * u
               y == P * D
    <3>2. x \in Int /\ y \in Int /\ 2 * y <= 7 * C /\ C <= x /\ C >= 0 /\ C \in Int
      BY <1>2, <1>3, <2>4, <3>1
    <3> HIDE DEF x, y
    <3>3. y <= 4 * x
      BY <3>2
    <3> QED
      BY <3>1, <3>3 DEF x, y
  <2>6. D <= 4 * u
    BY <1>1, <1>2, <2>4, <2>5, Cancelled
  <2> QED
    BY <2>6 DEF u
<1>8. snaps(raw)
  BY <1>6, <1>7 DEF snaps, tolerance, integralityToleranceULPs
<1> QED
  BY <1>5, <1>8

\* The whole number nearest to the raw value is about a tenth of t.
LEMMA NearWhole ==
    ASSUME NEW t \in Int, NEW raw, StandsFor(raw, t), NEW m, m = snapped(raw), Significands >= 2048
    PROVE  /\ m \in Int /\ Rounded(raw) = m * Unit
           /\ 4096 * absolute(10 * m - t) <= 20480 + 7 * absolute(t)
<1> DEFINE P == Significands
           U == Unit
           a == absolute(t)
           W == absolute(10 * raw - t * U)
           e == absolute(10 * m - t)
<1>1. P \in Int /\ P > 0 /\ U \in Int /\ U > 0 /\ raw \in Int /\ a \in Int /\ a >= 0
  BY FloatConstants, Absolute DEF StandsFor
<1>2. m \in Int /\ Rounded(raw) = m * U /\ 2 * absolute(raw - m * U) <= U
  BY <1>1, RoundedBounds
<1>3. t * U \in Int /\ m * U \in Int /\ a * U \in Int
  BY <1>1, <1>2
<1>4. W \in Int /\ W >= 0 /\ absolute(t * U) = a * U
  <2>1. absolute(t * U) = a * U
    BY <1>1, AbsoluteScaled
  <2>2. 10 * raw - t * U \in Int
    BY <1>1, <1>3
  <2> QED
    BY <2>1, <2>2, Absolute
<1>5. 4096 * W <= 7 * (a * U)
  <2>1. 2 * P * W <= 7 * (a * U)
    BY <1>4 DEF StandsFor
  <2>2. 2 * P * W >= 4096 * W /\ 2 * P * W \in Int
    BY <1>1, <1>4
  <2> QED
    BY <1>3, <1>4, <2>1, <2>2
<1>6. e \in Int /\ e >= 0 /\ absolute(10 * (m * U) - t * U) = e * U
  <2>1. (10 * m - t) * U = 10 * (m * U) - t * U /\ 10 * m - t \in Int
    BY <1>1, <1>2
  <2> QED
    BY <1>1, <2>1, Absolute, AbsoluteScaled
<1>7. e * U <= 5 * U + W /\ e * U \in Int
  <2> DEFINE x == m * U
             y == t * U
  <2>1. x \in Int /\ y \in Int /\ e * U = absolute(10 * x - y) /\ W = absolute(10 * raw - y)
        /\ 2 * absolute(raw - x) <= U
    BY <1>2, <1>3, <1>6
  <2> HIDE DEF x, y, e, W
  <2>2. absolute(10 * x - y) <= 5 * U + absolute(10 * raw - y)
    BY <1>1, <2>1 DEF absolute
  <2> QED
    BY <1>1, <1>6, <2>1, <2>2
<1>8. (4096 * e) * U <= (20480 + 7 * a) * U
  <2>1. (4096 * e) * U = 4096 * (e * U) /\ (20480 + 7 * a) * U = 20480 * U + 7 * (a * U)
    BY <1>1, <1>6
  <2> DEFINE x == e * U
             y == a * U
  <2>2. x \in Int /\ y \in Int /\ x <= 5 * U + W /\ 4096 * W <= 7 * y
    BY <1>3, <1>5, <1>7
  <2> HIDE DEF x, y, W
  <2>3. 4096 * x <= 20480 * U + 7 * y
    BY <1>1, <1>4, <2>2
  <2> QED
    BY <2>1, <2>3 DEF x, y
<1>9. 4096 * e <= 20480 + 7 * a
  BY <1>1, <1>6, <1>8, Cancelled
<1> QED
  BY <1>2, <1>9

\* A large number is snapped, if at all, to another large one.
LEMMA LargeStaysLarge ==
    ASSUME NEW t \in Int, NEW raw, StandsFor(raw, t), Significands >= 2048,
           64 * absolute(t) > Significands
    PROVE  /\ 2048 * absolute(snapped(raw)) > Significands
           /\ 2048 * absolute(t \div 10) > Significands
<1> DEFINE m == snapped(raw)
<1>1. m \in Int /\ 4096 * absolute(10 * m - t) <= 20480 + 7 * absolute(t)
  BY NearWhole
<1>2. Significands \in Int
  BY FloatConstants
<1> HIDE DEF m
<1>3. 2048 * absolute(m) > Significands
  BY <1>1, <1>2 DEF absolute
<1> DEFINE n == t \div 10
           r == t % 10
<1>4. n \in Int /\ r \in Int /\ t = 10 * n + r /\ 0 <= r /\ r < 10
  BY Division
<1> HIDE DEF n, r
<1>5. 2048 * absolute(n) > Significands
  BY <1>2, <1>4 DEF absolute
<1> QED
  BY <1>3, <1>5 DEF m, n

\* A number that is not whole is not snapped.
LEMMA NoSnapToFraction ==
    ASSUME NEW t \in Int, t % 10 # 0, 64 * absolute(t) <= Significands, Room(t),
           Significands >= 2048, 64 * Significands <= Unit, NEW raw, StandsFor(raw, t)
    PROVE  ~ snaps(raw)
<1> DEFINE P == Significands
           U == Unit
           m == snapped(raw)
           a == absolute(t)
           W == absolute(10 * raw - t * U)
           D == absolute(raw - m * U)
           u == ulp(m * U)
<1>1. P \in Int /\ P > 0 /\ U \in Int /\ U > 0 /\ raw \in Int /\ a \in Int /\ a >= 0
  BY FloatConstants, Absolute DEF StandsFor
<1>2. m \in Int /\ Rounded(raw) = m * U /\ 4096 * absolute(10 * m - t) <= 20480 + 7 * a
  BY NearWhole
<1>3. t # 10 * m
  <2>1. (10 * m + 0) % 10 = 0 /\ 10 * m + 0 = 10 * m
    BY <1>2, DivisionUnique
  <2> QED
    BY <2>1
<1> HIDE DEF m
<1>4. t * U \in Int /\ m * U \in Int /\ a * U \in Int /\ absolute(t * U) = a * U
  <2>1. t \in Int
    OBVIOUS
  <2>2. absolute(t * U) = a * U
    BY ONLY <2>1, AbsoluteUnits
  <2> QED
    BY <1>1, <1>2, <2>2
<1>5. W \in Int /\ W >= 0 /\ D \in Int /\ D >= 0
  <2>1. 10 * raw - t * U \in Int /\ raw - m * U \in Int
    BY <1>1, <1>4
  <2> QED
    BY <2>1, Absolute
<1>6. 128 * W <= 7 * U
  <2>1. (2 * P) * W <= 7 * (a * U)
    BY <1>4 DEF StandsFor
  <2>2. (64 * a) * U <= P * U
    BY <1>1, Scaled
  <2>3. (64 * a) * U = 64 * (a * U) /\ P * U \in Int /\ P * W \in Int
    BY <1>1, <1>5
  <2>4. 128 * (P * W) <= 7 * (P * U)
    <3>1. (2 * P) * W = 2 * (P * W)
      BY <1>1, <1>5
    <3> DEFINE x == P * W
               y == P * U
               z == a * U
    <3>2. x \in Int /\ y \in Int /\ z \in Int /\ 2 * x <= 7 * z /\ 64 * z <= y
      BY <1>4, <2>1, <2>2, <2>3, <3>1
    <3> HIDE DEF x, y, z
    <3>3. 128 * x <= 7 * y
      BY <3>2
    <3> QED
      BY <3>3 DEF x, y
  <2>5. (128 * W) * P = 128 * (P * W) /\ (7 * U) * P = 7 * (P * U)
    BY <1>1, <1>5
  <2>6. (128 * W) * P <= (7 * U) * P
    BY <2>4, <2>5
  <2> HIDE DEF W
  <2> QED
    BY <1>1, <1>5, <2>6, Cancelled
<1>7. 1280 * D >= 121 * U
  <2> DEFINE e == 10 * m - t
             x == m * U
             y == t * U
  <2>1. e \in Int /\ (e >= 1 \/ e <= -1)
    BY <1>2, <1>3
  <2>2. e * U = 10 * x - y /\ (e >= 1 => e * U >= U) /\ (e <= -1 => e * U <= -U)
    <3>1. e * U = 10 * x - y
      BY <1>1, <1>2
    <3> HIDE DEF e
    <3> QED
      BY <1>1, <2>1, <3>1
  <2>3. x \in Int /\ y \in Int /\ W = absolute(10 * raw - y) /\ D = absolute(raw - x)
    BY <1>4
  <2> HIDE DEF x, y, e, D, W
  <2>4. 10 * x - y >= U \/ 10 * x - y <= -U
    BY <2>1, <2>2
  <2>5. 10 * D + W >= U
    BY <1>1, <2>3, <2>4 DEF absolute
  <2> QED
    BY <1>1, <1>5, <1>6, <2>5
<1> DEFINE b == absolute(m)
<1>8. b \in Int /\ b >= 0 /\ 10 * b <= 2 * a + 5 /\ absolute(m * U) = b * U /\ b * U \in Int
  <2>1. b \in Int /\ b >= 0 /\ absolute(m * U) = b * U
    <3>1. m \in Int
      BY <1>2
    <3> QED
      BY ONLY <3>1, AbsoluteUnits, Absolute
  <2>2. 10 * b <= 2 * a + 5
    BY <1>2 DEF absolute
  <2> QED
    BY <1>1, <2>1, <2>2
<1>9. 10 * (b * U) <= 2 * (a * U) + 5 * U
  <2>1. (10 * b) * U <= (2 * a + 5) * U
    BY <1>1, <1>8, Scaled
  <2>2. (10 * b) * U = 10 * (b * U) /\ (2 * a + 5) * U = 2 * (a * U) + 5 * U
    BY <1>1, <1>8
  <2> QED
    BY <2>1, <2>2
<1>10. u \in Int /\ u > 0 /\ P * u <= P + 2 * (b * U)
  <2>1. PICK top \in Spacings : (absolute(t) + 2) * U <= P * top
    BY DEF Room
  <2>2. a * U >= 0
    BY <1>1
  <2> HIDE DEF a
  <2>3. b * U <= a * U + U
    <3> DEFINE x == b * U
               y == a * U
    <3>1. x \in Int /\ y \in Int /\ y >= 0 /\ 10 * x <= 2 * y + 5 * U
      BY <1>4, <1>8, <1>9, <2>2
    <3> HIDE DEF x, y
    <3>2. x <= y + U
      BY <1>1, <3>1
    <3> QED
      BY <3>2 DEF x, y
  <2>4. absolute(m * U) < P * top
    BY <1>4, <1>8, <2>1, <2>3, RoomAbove DEF a
  <2>5. u \in Int /\ u > 0 /\ P * u <= P + 2 * absolute(m * U)
    BY <1>4, <2>4, UlpBounds
  <2> QED
    BY <1>8, <2>5
<1>11. 640 * u <= 5 * U
  <2>1. (64 * a) * U <= P * U
    BY <1>1, Scaled
  <2>2. 650 * U <= P * U
    BY <1>1, Scaled
  <2>3. (64 * a) * U = 64 * (a * U) /\ P * U \in Int /\ P * u \in Int
    BY <1>1, <1>10
  <2> DEFINE i == P * u
             j == P * U
             x == b * U
             y == a * U
  <2>4. i \in Int /\ j \in Int /\ x \in Int /\ y \in Int /\ i <= P + 2 * x /\ 10 * x <= 2 * y + 5 * U
        /\ 64 * y <= j /\ 650 * U <= j /\ 64 * P <= U
    BY <1>4, <1>8, <1>9, <1>10, <2>1, <2>2, <2>3
  <2> HIDE DEF i, j, x, y
  <2>5. 640 * i <= 5 * j
    BY <1>1, <2>4
  <2>6. (640 * u) * P = 640 * i /\ (5 * U) * P = 5 * j
    BY <1>1, <1>10 DEF i, j
  <2> HIDE DEF u
  <2>7. (640 * u) * P <= (5 * U) * P
    BY <2>5, <2>6
  <2> QED
    BY <1>1, <1>10, <2>7, Cancelled
<1>12. 4 * u < D
  BY <1>1, <1>5, <1>7, <1>10, <1>11
<1>13. tolerance(Rounded(raw)) = 4 * u /\ absolute(raw - Rounded(raw)) = D
  BY <1>2 DEF tolerance, integralityToleranceULPs
<1> QED
  BY <1>5, <1>10, <1>12, <1>13 DEF snaps

\* A raw value snaps to one of them exactly when it stands for it.
LEMMA SnapsExactly ==
    ASSUME NEW t \in Int, Room(t), Significands >= 2048, 64 * Significands <= Unit,
           NEW raw, StandsFor(raw, t), NEW S, Small(S)
    PROVE  snaps(raw) /\ snapped(raw) \in S <=> t % 10 = 0 /\ t \div 10 \in S
<1>1. CASE 64 * absolute(t) > Significands
  <2>1. 2048 * absolute(snapped(raw)) > Significands /\ 2048 * absolute(t \div 10) > Significands
    BY <1>1, LargeStaysLarge
  <2>2. snapped(raw) \in Int /\ t \div 10 \in Int /\ Significands \in Int
    BY RoundedBounds, Division, FloatConstants DEF StandsFor
  <2>3. snapped(raw) \notin S /\ t \div 10 \notin S
    BY <2>1, <2>2, Absolute DEF Small
  <2> QED
    BY <2>3
<1>2. CASE 64 * absolute(t) <= Significands /\ t % 10 # 0
  BY <1>2, NoSnapToFraction
<1>3. CASE 64 * absolute(t) <= Significands /\ t % 10 = 0
  <2> DEFINE n == t \div 10
  <2>1. n \in Int /\ t = 10 * n
    BY <1>3, Division
  <2> HIDE DEF n
  <2>2. 7 * absolute(n) < Significands
    BY <1>3, <2>1, FloatConstants DEF absolute
  <2>3. snaps(raw) /\ snapped(raw) = n
    BY <2>1, <2>2, SnapsToWhole
  <2> QED
    BY <1>3, <2>3 DEF n
<1>4. absolute(t) \in Int /\ Significands \in Int
  BY Absolute, FloatConstants
<1> QED
  BY <1>1, <1>2, <1>3, <1>4

-----------------------------------------------------------------------------
(***************************************************************************)
(* Limits.                                                                 *)
(***************************************************************************)
\* A fraction that is a float is its own nearest one.
LEMMA NearestExact ==
    ASSUME NEW x \in Int, isFloat(x), NEW d \in Int, d > 0,
           NEW top \in Spacings, absolute(x) < Significands * top
    PROVE  nearest(x * d, d) = x
<1> DEFINE P == Significands
           n == x * d
           s == spacing(n, d)
           s1 == spacing(x, 1)
           m == nearest(n, d)
<1>1. P \in Int /\ P > 0 /\ (\A r \in Spacings : r \in Int /\ r > 0) /\ n \in Int
  BY FloatConstants
<1>2. absolute(x) \in Int /\ absolute(n) = absolute(x) * d
  BY Absolute, AbsoluteScaled
<1>3. \A r \in Spacings : absolute(n) < d * P * r <=> absolute(x) < 1 * P * r
  <2>1. TAKE r \in Spacings
  <2>2. P * r \in Int /\ d * P * r = (P * r) * d /\ 1 * P * r = P * r
    BY <1>1
  <2> DEFINE y == P * r
             a == absolute(x)
  <2>3. y \in Int /\ a \in Int
    BY <1>2, <2>2
  <2> HIDE DEF y, a
  <2>4. a * d < y * d <=> a < y
    BY <2>3, Scaled, Cancelled
  <2> QED
    BY <1>2, <2>2, <2>4 DEF y, a
<1>4. absolute(x) < 1 * P * top /\ absolute(n) < d * P * top
  <2>1. 1 * P * top = P * top
    BY <1>1
  <2> QED
    BY <1>3, <2>1
<1>5. s1 \in Spacings /\ absolute(x) < 1 * P * s1
      /\ \A r \in Spacings : r < s1 => ~(absolute(x) < 1 * P * r)
  BY <1>4, SpacingLeast
<1> HIDE DEF n
<1>6. s \in Spacings /\ absolute(n) < d * P * s
      /\ \A r \in Spacings : r < s => ~(absolute(n) < d * P * r)
  BY <1>1, <1>4, SpacingLeast
<1>7. s = s1
  <2>1. ~(s < s1) /\ ~(s1 < s)
    BY <1>3, <1>5, <1>6
  <2> HIDE DEF s, s1
  <2> QED
    BY <1>1, <1>5, <1>6, <2>1
<1>8. PICK k \in Int : m = s * k
  BY <1>1, <1>4, NearestError
<1>9. 2 * absolute(m * d - n) <= s * d
  BY <1>1, <1>4, NearestError
<1>10. PICK j \in Int : x = s * j
  BY <1>7 DEF isFloat
<1>11. s \in Int /\ s > 0
  BY <1>1, <1>6
<1> HIDE DEF s, m
<1> DEFINE i == k - j
           g == s * d
<1>12. m * d - n = i * g /\ g \in Int /\ g > 0
  <2>1. g \in Int /\ g > 0
    BY <1>11, Scaled
  <2>2. m * d - n = (s * k) * d - (s * j) * d
    BY <1>8, <1>10 DEF n
  <2>3. (s * k) * d - (s * j) * d = (k - j) * (s * d)
    BY <1>11
  <2> QED
    BY <2>1, <2>2, <2>3
<1> HIDE DEF g
<1>13. 2 * (absolute(i) * g) <= g /\ absolute(i) \in Int /\ absolute(i) >= 0
  <2>1. i \in Int
    OBVIOUS
  <2> HIDE DEF i
  <2>2. absolute(i * g) = absolute(i) * g
    BY <1>12, <2>1, AbsoluteScaled
  <2> QED
    BY <1>9, <1>12, <2>1, <2>2, Absolute DEF g
<1>14. absolute(i) = 0
  <2>1. SUFFICES ASSUME absolute(i) >= 1 PROVE FALSE
    BY <1>13
  <2>2. absolute(i) * g >= g
    BY <1>12, <1>13, <2>1
  <2>3. absolute(i) * g \in Int
    BY <1>12, <1>13
  <2> HIDE DEF i
  <2> QED
    BY <1>12, <1>13, <2>2, <2>3
<1>15. k = j
  BY <1>14 DEF absolute
<1> QED
  BY <1>8, <1>10, <1>15 DEF m, n

\* The literal compares with it as the decimal does.
LEMMA ComparesExactly ==
    ASSUME NEW t \in Int, NEW d \in Int, d > 0, NEW limit, OffOrOn(t, d, limit), Room(t),
           NEW v \in Int, v = literal(t, d),
           Significands * absolute(v * d - t * Unit) <= absolute(t * Unit)
    PROVE  /\ limit <= v <=> d * limit <= t * Unit
           /\ v <= limit <=> t * Unit <= d * limit
<1> DEFINE P == Significands
           x == t * Unit
           y == d * limit
           z == v * d
<1>1. P \in Int /\ P > 0 /\ x \in Int /\ y \in Int /\ z \in Int /\ limit \in Int
  BY FloatConstants DEF OffOrOn
<1>2. CASE P * absolute(x - y) > absolute(x)
  <2>1. absolute(x - y) > absolute(z - x)
    <3>1. absolute(x - y) \in Int /\ absolute(z - x) \in Int /\ absolute(x) \in Int
      BY <1>1, Absolute
    <3> DEFINE i == absolute(x - y)
               j == absolute(z - x)
               k == absolute(x)
    <3>2. i \in Int /\ j \in Int /\ k \in Int /\ P * i > k /\ P * j <= k
      BY <1>2, <3>1
    <3> HIDE DEF i, j, k, P
    <3>3. j * P < i * P
      BY <1>1, <3>2
    <3>4. j < i
      BY <1>1, <3>2, <3>3, Cancelled
    <3> QED
      BY <3>4 DEF i, j
  <2> HIDE DEF x, y, z
  <2>2. (x < y => z < y) /\ (x > y => z > y) /\ x # y
    BY <1>1, <2>1 DEF absolute
  <2>3. (z < y => v < limit) /\ (z > y => v > limit)
    <3>1. y = limit * d /\ z = v * d
      BY <1>1 DEF y, z
    <3> QED
      BY <1>1, <3>1, Cancelled
  <2>4. (limit <= v <=> y <= x) /\ (v <= limit <=> x <= y)
    BY <1>1, <2>2, <2>3
  <2> QED
    BY <2>4 DEF x, y
<1>3. CASE x = y /\ isFloat(limit)
  <2>1. PICK top \in Spacings : (absolute(t) + 2) * Unit <= P * top
    BY DEF Room
  <2>2. absolute(limit) <= absolute(t) * Unit + Unit
    <3>1. absolute(x) = absolute(t) * Unit
      BY AbsoluteUnits
    <3>2. absolute(x) = absolute(limit) * d /\ absolute(limit) \in Int /\ absolute(limit) >= 0
      <4>1. x = limit * d
        BY <1>1, <1>3
      <4> HIDE DEF x
      <4> QED
        BY <1>1, <4>1, AbsoluteScaled, Absolute
    <3>3. absolute(limit) <= absolute(limit) * d /\ absolute(limit) * d \in Int
      BY <3>2
    <3> QED
      BY <3>1, <3>2, <3>3, FloatConstants
  <2>3. absolute(limit) < P * top
    BY <1>1, <2>1, <2>2, RoomAbove
  <2>4. nearest(limit * d, d) = limit
    BY <1>1, <1>3, <2>3, NearestExact
  <2>5. limit * d = x
    BY <1>1, <1>3
  <2>6. v = limit
    BY <2>4, <2>5 DEF literal
  <2> QED
    BY <1>1, <1>3, <2>6
<1> QED
  BY <1>2, <1>3 DEF OffOrOn

\* A float with its sign changed is a float.
LEMMA NegativeFloat ==
    ASSUME NEW x \in Int, isFloat(x), NEW top \in Spacings, absolute(x) < Significands * top
    PROVE  isFloat(-x)
<1> DEFINE s == spacing(x, 1)
<1>1. absolute(-x) = absolute(x) /\ -x \in Int
  BY DEF absolute
<1>2. spacing(-x, 1) = s
  BY <1>1 DEF spacing
<1>3. s \in Int
  <2>1. 1 * Significands * top = Significands * top
    BY FloatConstants
  <2> QED
    BY <2>1, SpacingBounds
<1>4. PICK k \in Int : x = s * k
  BY DEF isFloat
<1> HIDE DEF s
<1>5. -x = s * (-k) /\ -k \in Int
  BY <1>3, <1>4
<1> QED
  BY <1>2, <1>5 DEF isFloat

\* The raw value compares with the largest float32 as the decimal does.
LEMMA LargestExactly ==
    ASSUME NEW t \in Int, NEW c \in Int, c > 0, OffOrOnMax(t, c), Room(t),
           NEW raw, raw = quotient(literal(t, 10 * c), literal(1, c)), StandsFor(raw, t)
    PROVE  absolute(raw) <= MaxFloat32 <=> t * Unit \in -(10 * MaxFloat32)..10 * MaxFloat32
<1> DEFINE P == Significands
           U == Unit
           M == MaxFloat32
           x == t * U
<1>1. P \in Int /\ P > 0 /\ U \in Int /\ U > 0 /\ M \in Int /\ M >= 0 /\ x \in Int /\ raw \in Int
  BY FloatConstants DEF StandsFor
<1>2. x \in -(10 * M)..10 * M <=> absolute(x) <= 10 * M
  <2> HIDE DEF x, M
  <2> QED
    BY <1>1 DEF absolute
<1>3. CASE 2 * P * absolute(absolute(x) - 10 * M) > 7 * absolute(x)
  <2> DEFINE i == absolute(absolute(x) - 10 * M)
             j == absolute(10 * raw - x)
             k == absolute(x)
  <2>1. i \in Int /\ j \in Int /\ k \in Int
    <3>1. k \in Int
      BY <1>1, Absolute
    <3>2. k - 10 * M \in Int /\ 10 * raw - x \in Int
      BY <1>1, <3>1
    <3> QED
      BY <3>1, <3>2, Absolute
  <2>2. 2 * P * i > 7 * k /\ 2 * P * j <= 7 * k
    BY <1>3 DEF StandsFor
  <2>3. j < i
    <3> HIDE DEF i, j, k, P
    <3>1. 2 * P \in Int /\ 2 * P > 0 /\ j * (2 * P) < i * (2 * P)
      BY <1>1, <2>1, <2>2
    <3> QED
      BY <2>1, <3>1, Cancelled
  <2> HIDE DEF x, M
  <2>4. absolute(raw) <= M <=> absolute(x) <= 10 * M
    BY <1>1, <2>3 DEF absolute
  <2> QED
    BY <1>2, <2>4 DEF x, M
<1>4. CASE absolute(x) = 10 * M /\ c = 1 /\ isFloat(M) /\ isFloat(U)
  <2>1. PICK top \in Spacings : (absolute(t) + 2) * U <= P * top
    BY DEF Room
  <2>2. absolute(x) = absolute(t) * U /\ absolute(t) \in Int /\ absolute(t) >= 0
        /\ absolute(t) * U \in Int /\ absolute(t) * U >= 0
    BY <1>1, AbsoluteUnits, Absolute
  <2>3. absolute(U) < P * top
    <3>1. absolute(U) = U
      BY <1>1 DEF absolute
    <3> QED
      BY <1>1, <2>1, <2>2, <3>1, RoomAbove
  <2>4. literal(1, c) = U
    <3>1. nearest(U * 1, 1) = U /\ U * 1 = 1 * U
      BY <1>1, <1>4, <2>3, NearestExact
    <3> QED
      BY <1>4, <3>1 DEF literal
  <2>5. PICK m \in Int : (m = M \/ m = -M) /\ x = m * 10
    BY <1>1, <1>4 DEF absolute
  <2>6. absolute(m) = M /\ absolute(M) = M
    BY <1>1, <2>5 DEF absolute
  <2>7. M < P * top
    <3>1. M <= absolute(t) * U + U
      BY <1>1, <1>4, <2>2
    <3> QED
      BY <1>1, <2>1, <2>6, <3>1, RoomAbove
  <2>8. isFloat(m)
    BY <1>1, <1>4, <2>5, <2>6, <2>7, NegativeFloat
  <2>9. literal(t, 10 * c) = m
    <3>1. nearest(m * 10, 10) = m
      BY <2>6, <2>7, <2>8, NearestExact
    <3> QED
      BY <1>4, <2>5, <3>1 DEF literal
  <2>10. raw = m
    <3>1. nearest(m * U, U) = m
      BY <1>1, <2>6, <2>7, <2>8, NearestExact
    <3> QED
      BY <1>1, <2>4, <2>9, <3>1 DEF quotient
  <2> QED
    BY <1>1, <1>2, <1>4, <2>6, <2>10
<1> QED
  BY <1>3, <1>4 DEF OffOrOnMax

-----------------------------------------------------------------------------
\* All of validateValue, for one value of one point.
LEMMA DeclaredAccepted ==
    ASSUME FloatsSuffice
    PROVE  AcceptsDeclared
<1> SUFFICES ASSUME NEW meta \in Metas, NEW t \in Tenths
             PROVE  Validate(meta, literal(t, 10 * meta.per)) <=>
                    /\ meta.device = "EMS" /\ meta.class = "setpoint"
                    /\ meta.dangerous => AllowDangerous
                    /\ meta.type = "I16" => t % 10 = 0 /\ t \div 10 \in MinI16..MaxI16
                    /\ meta.type = "F32" => t * Unit \in -(10 * MaxFloat32)..10 * MaxFloat32
                    /\ "enum" \in DOMAIN meta => t % 10 = 0 /\ t \div 10 \in meta.enum
                    /\ "range" \in DOMAIN meta =>
                           /\ t * Unit >= 10 * meta.per * meta.range.min
                           /\ t * Unit <= 10 * meta.per * meta.range.max
  BY DEF AcceptsDeclared
<1> DEFINE c == meta.per
           v == literal(t, 10 * c)
           raw == quotient(v, literal(1, c))
           I16 == MinI16..MaxI16
           F32 == -(10 * MaxFloat32)..10 * MaxFloat32
<1>1. c \in Int /\ c > 0 /\ 10 * c \in Int /\ 10 * c > 0 /\ t \in Int /\ Room(t)
      /\ Significands >= 2048 /\ 64 * c * Significands <= Unit
  BY DEF FloatsSuffice
<1>2. /\ v \in Int /\ raw \in Int /\ StandsFor(raw, t)
      /\ Significands * absolute(v * (10 * c) - t * Unit) <= absolute(t * Unit)
  <2>1. PICK top \in Spacings : (absolute(t) + 2) * Unit <= Significands * top
    BY <1>1 DEF Room
  <2>2. v = literal(t, 10 * c) /\ raw = quotient(v, literal(1, c))
    OBVIOUS
  <2> HIDE DEF c, v, raw
  <2>3. /\ v \in Int /\ raw \in Int
        /\ Significands * absolute(v * (10 * c) - t * Unit) <= absolute(t * Unit)
        /\ 2 * Significands * absolute(10 * raw - t * Unit) <= 7 * absolute(t * Unit)
    BY ONLY <1>1, <2>1, <2>2, RawError
  <2> QED
    BY <2>3 DEF StandsFor
<1>3. 64 * Significands <= Unit
  <2>1. 64 * Significands <= 64 * c * Significands
    BY <1>1, FloatConstants
  <2> QED
    BY <1>1, <2>1, FloatConstants
<1>4. ASSUME NEW S, Small(S)
      PROVE  snaps(raw) /\ snapped(raw) \in S <=> t % 10 = 0 /\ t \div 10 \in S
  <2> HIDE DEF c, v, raw
  <2> QED
    BY ONLY <1>1, <1>2, <1>3, <1>4, SnapsExactly
<1>5. snaps(raw) /\ snapped(raw) \in I16 <=> t % 10 = 0 /\ t \div 10 \in I16
  <2>1. Small(I16)
    BY DEF FloatsSuffice
  <2> HIDE DEF raw, I16
  <2> QED
    BY <1>4, <2>1
<1>6. meta.type = "F32" => (absolute(raw) <= MaxFloat32 <=> t * Unit \in F32)
  <2>1. SUFFICES ASSUME meta.type = "F32"
                 PROVE  absolute(raw) <= MaxFloat32 <=> t * Unit \in F32
    OBVIOUS
  <2>2. OffOrOnMax(t, c)
    BY <2>1 DEF FloatsSuffice
  <2>3. raw = quotient(literal(t, 10 * c), literal(1, c))
    OBVIOUS
  <2> HIDE DEF c, v, raw
  <2> QED
    BY ONLY <1>1, <1>2, <2>2, <2>3, LargestExactly DEF F32
<1>7. "enum" \in DOMAIN meta =>
        (snaps(raw) /\ snapped(raw) \in meta.enum <=> t % 10 = 0 /\ t \div 10 \in meta.enum)
  <2>1. "enum" \in DOMAIN meta => Small(meta.enum)
    BY DEF FloatsSuffice
  <2> HIDE DEF raw
  <2> QED
    BY <1>4, <2>1
<1>8. "range" \in DOMAIN meta =>
        /\ meta.range.min <= v <=> t * Unit >= 10 * c * meta.range.min
        /\ v <= meta.range.max <=> t * Unit <= 10 * c * meta.range.max
  <2>1. SUFFICES ASSUME "range" \in DOMAIN meta
                 PROVE  /\ meta.range.min <= v <=> t * Unit >= 10 * c * meta.range.min
                        /\ v <= meta.range.max <=> t * Unit <= 10 * c * meta.range.max
    OBVIOUS
  <2>2. OffOrOn(t, 10 * c, meta.range.min) /\ OffOrOn(t, 10 * c, meta.range.max)
    BY <2>1, ZenonT(30) DEF FloatsSuffice
  <2>3. v = literal(t, 10 * c)
    OBVIOUS
  <2> DEFINE low == meta.range.min
             high == meta.range.max
             d == 10 * c
  <2> HIDE DEF c, v, raw, low, high, d
  <2>4. (low <= v <=> d * low <= t * Unit) /\ (v <= high <=> t * Unit <= d * high)
    <3>1. OffOrOn(t, d, low) /\ OffOrOn(t, d, high) /\ v = literal(t, d) /\ d \in Int /\ d > 0
          /\ Significands * absolute(v * d - t * Unit) <= absolute(t * Unit)
      BY <1>1, <1>2, <2>2, <2>3 DEF low, high, d
    <3>2. t \in Int /\ Room(t) /\ v \in Int
      BY <1>1, <1>2
    <3> QED
      BY ONLY <3>1, <3>2, ComparesExactly
  <2>5. (t * Unit >= d * low <=> d * low <= t * Unit)
    BY <1>1, <2>2, FloatConstants DEF OffOrOn, low, d
  <2> QED
    BY <2>4, <2>5 DEF low, high, d
<1>9. v # NotFinite
  BY <1>2, FloatConstants
<1>10. Validate(meta, v) <=>
                    /\ meta.device = "EMS" /\ meta.class = "setpoint"
                    /\ meta.dangerous => AllowDangerous
                    /\ meta.type = "I16" => snaps(raw) /\ snapped(raw) \in I16
                    /\ meta.type = "F32" => absolute(raw) <= MaxFloat32
                    /\ "enum" \in DOMAIN meta => snaps(raw) /\ snapped(raw) \in meta.enum
                    /\ "range" \in DOMAIN meta => meta.range.min <= v /\ v <= meta.range.max
  <2> HIDE DEF v
  <2> QED
    BY <1>9 DEF Validate, validateValue
<1> HIDE DEF raw, v, I16, F32
<1> QED
  BY <1>5, <1>6, <1>7, <1>8, <1>10 DEF I16, F32, v

\* Whatever the rounding of its literals and of the division, a value is let
\* through exactly when it is what the catalog declares, for any catalog and any
\* floats precise enough for it, and only values that are let through are ever
\* in the store (validateValue, Write, WriteBatch).
THEOREM ValidateAlwaysExact ==
    ASSUME FloatsSuffice
    PROVE  Spec => []ValidateIsExact
<1>1. DispatchIInv => Validated(point)
  BY DEF DispatchIInv, PointInv, Validated
<1>2. DispatchIInv => ValidateIsExact
  BY <1>1, DeclaredAccepted DEF ValidateIsExact
<1> QED
  BY <1>2, DispatchCorrect, PTL
=============================================================================

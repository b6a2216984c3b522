------------------------------ MODULE Dispatch ------------------------------
(***************************************************************************)
(* The command processor (simulator/internal/commands/processor.go): the   *)
(* EMS setpoints that protocol clients write, and the power it dispatches  *)
(* to the physics engine on every tick - mode arbitration, the strategy    *)
(* schedule, the watchdog on a stale Remote setpoint, and the power limits.*)
(* IEC-104 writes replace a setpoint (Write); Modbus writes replace one    *)
(* half of one or a batch of whole ones (applyRegisterWrites in            *)
(* modbustcp/handlers.go).  writeMu orders every writer and every tick.    *)
(*                                                                         *)
(* A setpoint is an integer; a 32-bit register pair is Half * high + low,  *)
(* and only values in Accepted pass Validate.  Time is counted in physics  *)
(* ticks, and a day has Day of them.                                       *)
(***************************************************************************)
EXTENDS Validation, FiniteSets, Sequences

CONSTANTS
    Writers,        \* protocol handlers that write setpoints
    Accepted,       \* setpoint -> the values Validate lets through
    Startup,        \* setpoint -> its value once NewProcessor has published
    Batches,        \* the FC16 requests: functions from setpoints to values
    Half,           \* the base of a register half
    Schedule,       \* the strategy periods: their [start, end, power] setpoints
    Physical,       \* what physics.Engine.State may report at a tick
    WatchdogModes,  \* the configurable ones: hold, zero_after, safe_state_after
    Timeout,        \* the watchdog's timeout, in ticks
    Day,            \* ticks in a day
    Instants,       \* clock.start of the scenarios that may be started
    MaxNow,         \* bound on the clock
    None

Setpoints == DOMAIN Accepted
Power == {"active", "reactive"}

Manual == 0  AutoStrategy == 1  Remote == 2

ASSUME DispatchAssumption ==
    /\ Power \cup {"mode", "on", "chargeCap", "dischargeCap", "maxSOC", "minSOC"} \subseteq Setpoints
    /\ \A k \in Setpoints : Accepted[k] \subseteq Int
    /\ Accepted["mode"] \subseteq {Manual, AutoStrategy, Remote}
    /\ Startup \in [Setpoints -> Int] /\ \A k \in Setpoints : Startup[k] \in Accepted[k]
    /\ \A b \in Batches : /\ DOMAIN b \subseteq Setpoints /\ b \in [DOMAIN b -> Int]
                          /\ \A k \in DOMAIN b : b[k] \in Accepted[k]
    /\ Half \in Nat \ {0, 1}
    /\ Schedule \in Seq([start : Setpoints, end : Setpoints, power : Setpoints])
    /\ Physical \subseteq [soc : Int, charge : Nat, discharge : Nat,
                           chargeProhibited : BOOLEAN, dischargeProhibited : BOOLEAN]
    /\ WatchdogModes \subseteq {"hold", "zero_after", "safe_state_after"}
    /\ Timeout \in Nat \ {0} /\ Day \in Nat \ {0} /\ MaxNow \in Nat
    /\ Instants \subseteq 0 .. MaxNow
    /\ None \notin Writers \cup Int

VARIABLES
    watchdogMode,   \* cfg.WatchdogMode, fixed at startup
    point,          \* the EMS setpoints in the store
    now,            \* the shared clock
    lastAt,         \* lastRemoteSetpointAt, None for the zero time
    latched,        \* safeStateLatched
    lastObserved,   \* lastObservedMode
    writeMu,        \* its holder or None
    writer,         \* writer -> where its handler is and what it will commit
    out,            \* what the last tick dispatched, and the engine state it read
    fresh,          \* auxiliary: nothing was written since that tick
    age,            \* auxiliary: ticks since the last commit of a power setpoint
    halves,         \* auxiliary: each half of "active" as last written
    tripped         \* auxiliary: the watchdog tripped in the Remote session that still lasts

setpoints == <<point, halves>>
watchdog  == <<lastAt, latched, lastObserved>>
vars == <<watchdogMode, setpoints, now, watchdog, writeMu, writer, out, fresh, age, tripped>>

idle == [at |-> "idle", half |-> "both", writes |-> [k \in {} |-> 0]]
halvesOf(v) == [high |-> v \div Half, low |-> v % Half]

Init ==
    /\ watchdogMode \in WatchdogModes
    /\ point = Startup
    /\ halves = halvesOf(Startup["active"])
    /\ now = 0
    /\ lastAt = None /\ latched = FALSE /\ lastObserved = -1
    /\ writeMu = None
    /\ writer = [w \in Writers |-> idle]
    /\ out = [active |-> 0, reactive |-> 0, engine |-> None]
    /\ fresh = FALSE
    /\ age = None
    /\ tripped = FALSE

-----------------------------------------------------------------------------
\* The writers.

\* Mutant: a writer that does not wait for writeMu.
LockWritesNever(w) == writer[w] = idle /\ writeMu' = w

LockWrites(w) == writer[w] = idle /\ writeMu = None /\ writeMu' = w
\* Mutant: an early return that forgets the unlock.
UnlockWritesForgotten(w) == writer' = [writer EXCEPT ![w] = idle] /\ UNCHANGED writeMu

UnlockWrites(w) == writeMu' = None /\ writer' = [writer EXCEPT ![w] = idle]

\* Mutant: only the active power setpoint refreshes the watchdog.
applySideEffectsActiveOnly(writes) ==
    lastAt' = IF "active" \in DOMAIN writes THEN now ELSE lastAt

\* A power setpoint counts as a live update of the remote command.
applySideEffects(writes) ==
    lastAt' = IF DOMAIN writes \cap Power # {} THEN now ELSE lastAt

\* Processor.Write takes writeMu; its commit is still to come.
Write(w, k, v) ==
    /\ LockWrites(w)
    /\ applySideEffects([x \in {k} |-> v])
    /\ writer' = [writer EXCEPT ![w] =
                     [at |-> "commit", half |-> "both", writes |-> [x \in {k} |-> v]]]
    /\ UNCHANGED <<watchdogMode, setpoints, now, latched, lastObserved, out, fresh, age, tripped>>

\* FC06 takes it, reads the pair and replaces one half of it,
handleWriteSingleRegister(w, half, v) ==
    /\ LockWrites(w)
    /\ LET buf == [halvesOf(point["active"]) EXCEPT ![half] = v]
       IN  writer' = [writer EXCEPT ![w] =
                        [at |-> "decoded", half |-> half,
                         writes |-> [x \in {"active"} |-> Half * buf.high + buf.low]]]
    /\ UNCHANGED <<watchdogMode, setpoints, now, watchdog, out, fresh, age, tripped>>

\* FC16 takes it to replace whole pairs.
handleWriteMultipleRegisters(w, batch) ==
    /\ LockWrites(w)
    /\ writer' = [writer EXCEPT ![w] = [at |-> "decoded", half |-> "both", writes |-> batch]]
    /\ UNCHANGED <<watchdogMode, setpoints, now, watchdog, out, fresh, age, tripped>>

Validated(writes) == \A k \in DOMAIN writes : writes[k] \in Accepted[k]

\* One unacceptable value rejects the whole request,
reject(w) ==
    /\ writer[w].at = "decoded" /\ ~ Validated(writer[w].writes)
    /\ UnlockWrites(w)
    /\ UNCHANGED <<watchdogMode, setpoints, now, watchdog, out, fresh, age, tripped>>

\* and otherwise WriteBatch's side effects come before its commit.
WriteBatch(w) ==
    /\ writer[w].at = "decoded" /\ Validated(writer[w].writes)
    /\ applySideEffects(writer[w].writes)
    /\ writer' = [writer EXCEPT ![w].at = "commit"]
    /\ UNCHANGED <<watchdogMode, setpoints, now, latched, lastObserved, writeMu, out, fresh, age, tripped>>

\* Store.Set or SetBatch, under the store's own lock, then the unlock.
Commit(w) ==
    LET writes == writer[w].writes IN
    /\ writer[w].at = "commit"
    /\ point' = [k \in Setpoints |-> IF k \in DOMAIN writes THEN writes[k] ELSE point[k]]
    /\ halves' = IF "active" \notin DOMAIN writes THEN halves
                 ELSE IF writer[w].half = "both" THEN halvesOf(writes["active"])
                 ELSE [halves EXCEPT ![writer[w].half] = halvesOf(writes["active"])[writer[w].half]]
    /\ age' = IF DOMAIN writes \cap Power # {} THEN 0 ELSE age
    /\ tripped' = (tripped /\ (IF "mode" \in DOMAIN writes THEN writes["mode"] = Remote ELSE TRUE))
    /\ fresh' = FALSE
    /\ UnlockWrites(w)
    /\ UNCHANGED <<watchdogMode, now, watchdog, out>>

-----------------------------------------------------------------------------
\* The dispatch decision of one tick.

\* Mutant: an overnight period is taken for an empty one.
periodActiveNoWrap(cur, start, end) == start < end /\ cur >= start /\ cur < end

periodActive(cur, start, end) ==
    /\ start # end
    /\ \/ start < end /\ cur >= start /\ cur < end
       \/ start > end /\ (cur >= start \/ cur < end)

\* The lowest-numbered active period wins; outside every period it idles.
scheduleLookup(t) ==
    LET active == {i \in DOMAIN Schedule :
                     periodActive(t % Day, point[Schedule[i].start], point[Schedule[i].end])}
        first  == CHOOSE i \in active : \A j \in active : i <= j
    IN  IF active = {} THEN 0 ELSE point[Schedule[first].power]

stale(t) == lastAt # None /\ t - lastAt >= Timeout

\* Mutant: a trip that a fresh setpoint heals, as zero_after would.
applyWatchdogUnlatched(t) ==
    point["mode"] = Remote /\ watchdogMode = "safe_state_after" /\ stale(t)

\* The watchdog only runs in Remote mode; entering it re-arms a trip.
applyWatchdog(t) ==
    LET remote == point["mode"] = Remote
        held   == latched /\ ~ (remote /\ lastObserved # Remote)
    IN  held \/ (remote /\ watchdogMode = "safe_state_after" /\ stale(t))

expired(t) ==
    \/ watchdogMode = "zero_after" /\ stale(t)
    \/ watchdogMode = "safe_state_after" /\ applyWatchdog(t)

requested(t) ==
    CASE point["mode"] = AutoStrategy              -> [active |-> scheduleLookup(t), reactive |-> 0]
      [] point["mode"] = Remote /\ ~ expired(t)    -> [active   |-> point["active"],
                                                       reactive |-> point["reactive"]]
      [] OTHER                                     -> [active |-> 0, reactive |-> 0]

smaller(a, b) == IF a < b THEN a ELSE b
larger(a, b)  == IF a > b THEN a ELSE b

\* Mutant: a negative limit is taken literally and turns the power around.
applyPowerLimitsUnfloored(kw, engine) ==
    CASE kw < 0 /\ engine.soc < point["maxSOC"] ->
           larger(kw, - smaller(point["chargeCap"], engine.charge))
      [] kw > 0 /\ engine.soc > point["minSOC"] ->
           smaller(kw, smaller(point["dischargeCap"], engine.discharge))
      [] OTHER -> 0

applyPowerLimits(kw, engine) ==
    LET chargeCap    == larger(0, smaller(point["chargeCap"], engine.charge))
        dischargeCap == larger(0, smaller(point["dischargeCap"], engine.discharge))
    IN  CASE kw < 0 /\ engine.soc < point["maxSOC"] -> larger(kw, -chargeCap)
          [] kw > 0 /\ engine.soc > point["minSOC"] -> smaller(kw, dischargeCap)
          [] OTHER                                  -> 0

prohibited(kw, engine) ==
    \/ kw < 0 /\ engine.chargeProhibited
    \/ kw > 0 /\ engine.dischargeProhibited

\* Mutant: the setpoints are read in the middle of a write's transaction.
SnapshotUnlocked == TRUE

\* ResolveDispatch holds writeMu (and the store's lock) for all of it.
Snapshot == writeMu = None

ResolveDispatch(t, engine) ==
    /\ Snapshot
    /\ latched' = applyWatchdog(t)
    /\ lastObserved' = point["mode"]
    /\ LET active == applyPowerLimits(requested(t).active, engine)
           on     == point["on"] # 0
       IN  out' = [active   |-> IF on /\ ~ prohibited(active, engine) THEN active ELSE 0,
                   reactive |-> IF on THEN requested(t).reactive ELSE 0,
                   engine   |-> engine]

\* physics.Runner.Tick, one step of the clock.  The clock moves a moment before
\* ResolveDispatch takes writeMu; a write that commits in that moment is, here, a
\* write after the tick, one dispatch younger than the clock makes it.
Tick(engine) ==
    /\ now < MaxNow
    /\ now' = now + 1
    /\ ResolveDispatch(now + 1, engine)
    /\ fresh' = TRUE
    /\ age' = IF age = None \/ age = Timeout THEN age ELSE age + 1
    /\ tripped' = (tripped \/ (point["mode"] = Remote /\ age' = Timeout))
    /\ UNCHANGED <<watchdogMode, setpoints, lastAt, writeMu, writer>>

-----------------------------------------------------------------------------
\* The first Start of a scenario moves the clock to its clock.start.
Start(t) ==
    /\ now' = t
    /\ fresh' = FALSE
    /\ UNCHANGED <<watchdogMode, setpoints, watchdog, writeMu, writer, out, age, tripped>>

\* POST /reset, which the gate orders behind every writer.
Reset ==
    /\ \A w \in Writers : writer[w] = idle
    /\ now' = 0
    /\ lastAt' = None /\ latched' = FALSE /\ lastObserved' = -1
    /\ point' = Startup /\ halves' = halvesOf(Startup["active"])
    /\ fresh' = FALSE /\ age' = None /\ tripped' = FALSE
    /\ UNCHANGED <<watchdogMode, writeMu, writer, out>>

Request(w, values, batches) ==
    \/ \E k \in Setpoints : \E v \in values[k] : Write(w, k, v)
    \/ \E half \in {"high", "low"} :
         \E v \in {halvesOf(x)[half] : x \in values["active"]} : handleWriteSingleRegister(w, half, v)
    \/ \E batch \in batches : handleWriteMultipleRegisters(w, batch)
    \/ reject(w) \/ WriteBatch(w) \/ Commit(w)

Next ==
    \/ \E w \in Writers : Request(w, Accepted, Batches)
    \/ \E engine \in Physical : Tick(engine)
    \/ \E t \in Instants : Start(t)
    \/ Reset

Spec == Init /\ [][Next]_vars

-----------------------------------------------------------------------------
(***************************************************************************)
(* Properties                                                              *)
(***************************************************************************)
\* The state is well formed, and writeMu is held exactly while one writer is
\* inside its transaction (processor.go LockWrites, Write).
TypeOK ==
    /\ point \in [Setpoints -> Int]
    /\ halves \in [high : Int, low : 0 .. Half - 1]
    /\ now \in 0 .. MaxNow
    /\ lastAt \in 0 .. MaxNow \cup {None}
    /\ watchdogMode \in WatchdogModes /\ latched \in BOOLEAN
    /\ lastObserved \in {-1, Manual, AutoStrategy, Remote}
    /\ age \in 0 .. Timeout \cup {None}
    /\ \A w \in Writers : writer[w] # idle <=> writeMu = w

\* Whatever the rounding of its literals and of the division, a value is let
\* through exactly when it is what the catalog declares (validateValue), and
\* only such values are ever in the store, by whole, half or batched writes.
ValidateIsExact == AcceptsDeclared /\ Validated(point)

\* The power the engine and the operator's limits leave room for.
Feasible ==
    LET engine == out.engine
        may(cap, room) == IF point["on"] = 0 \/ cap < 0 THEN 0 ELSE smaller(cap, room)
        charge == IF engine.chargeProhibited \/ engine.soc >= point["maxSOC"] THEN 0
                  ELSE may(point["chargeCap"], engine.charge)
        discharge == IF engine.dischargeProhibited \/ engine.soc <= point["minSOC"] THEN 0
                     ELSE may(point["dischargeCap"], engine.discharge)
    IN  (-charge) .. discharge

\* The slots of the day that a period from start to end covers, either of which
\* may be the end of the day itself.
Window(start, end) ==
    LET length == IF start <= end THEN end - start ELSE end - start + Day
    IN  {(start + i) % Day : i \in 0 .. length - 1}

\* What the operator asked for, from the setpoints alone.
Demand ==
    LET covers(i) == now % Day \in Window(point[Schedule[i].start], point[Schedule[i].end])
    IN  CASE point["mode"] = Manual -> 0
          [] point["mode"] = Remote -> IF watchdogMode = "hold" \/ age # Timeout
                                       THEN point["active"] ELSE 0
          [] OTHER ->
               IF \A i \in DOMAIN Schedule : ~ covers(i) THEN 0
               ELSE LET i == CHOOSE i \in DOMAIN Schedule :
                               covers(i) /\ \A j \in 1 .. i - 1 : ~ covers(j)
                    IN  point[Schedule[i].power]

distance(a, b) == larger(a - b, b - a)
Nearest(kw) ==
    /\ out.active \in Feasible
    /\ \A x \in Feasible : distance(out.active, kw) <= distance(x, kw)

\* Reactive power is passed on in a live Remote session, and nowhere else.
ReactiveDemand ==
    IF point["on"] # 0 /\ point["mode"] = Remote /\ (watchdogMode = "hold" \/ age # Timeout)
    THEN point["reactive"] ELSE 0

\* Whatever was written and in whatever order, a tick dispatches the feasible
\* power nearest to the demand: it never reverses a direction, never passes a
\* limit, never gives up power without a limit, a dead schedule or a watchdog
\* trip to account for it, and moves no power, active or reactive, on a command
\* that nothing refreshed for Timeout ticks (processor.go ResolveDispatch,
\* commands/config.go WatchdogZeroAfter and WatchdogSafeStateAfter).
DispatchFollowsDemand ==
    fresh /\ ~ latched => Nearest(Demand) /\ out.reactive = ReactiveDemand

\* After a trip, safe_state_after moves no power until the operator has left
\* Remote mode, however often the setpoint is refreshed (processor.go applyWatchdog).
TripHolds ==
    fresh /\ watchdogMode = "safe_state_after" /\ tripped
      => out.active = 0 /\ out.reactive = 0

\* Concurrent half-register and whole-register writes lose no update: each
\* half of the setpoint is the one written last (processor.go writeMu).
NoLostUpdate == halvesOf(point["active"]) = halves
=============================================================================

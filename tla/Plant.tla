-------------------------------- MODULE Plant -------------------------------
(***************************************************************************)
(* The battery (simulator/internal/physics/engine.go) as the physics       *)
(* runner drives it (runner.go): live ticks, POST /clock/advance, and a    *)
(* scenario (scenario/runner.go) on its way from step to step, in advances *)
(* that fastForwardLocked cuts into increments and paces.  The locks that  *)
(* keep the drivers apart, and the places where a run can be stopped, are  *)
(* ControlPlane's; which power is asked for is Dispatch's, here any demand.*)
(*                                                                         *)
(* Energies, powers and temperatures are whole numbers, rounded where the  *)
(* code divides.  The meter's counters only ever grow, and the model keeps *)
(* what a tick adds to them.  The cells' spread and the electrical values  *)
(* that recompute derives from the power have no effect on a later tick.   *)
(***************************************************************************)
EXTENDS Pacing, Sequences

CONSTANTS
    Capacity, InitialEnergy,
    Nominal,            \* NominalACPowerKW
    EffNum, EffDen,     \* the square root of RoundTripEfficiency
    Hour,               \* durations to an hour
    Band,               \* SOCTaperBandPercent, as energy
    Epsilon,            \* boundaryEpsilonPercent, as energy
    Ambient, DerateStart, DerateFull,
    Heat,               \* the heat of the nominal power
    Chiller, PassiveLoss, ThermalMass,
    StepInterval,
    Demands,            \* the powers that may be asked for
    Totals,             \* the advances asked for, and the times from step to step
    ScenarioSpeeds,     \* the speeds that a scenario may have
    MaxLate,            \* bound on how late a scenario is resumed
    Saturates           \* which of its choices the build makes

\* The battery has a middle, and one increment at the power of the taper band
\* does not cross the band.
ASSUME PlantAssumption ==
    /\ Capacity \in Nat /\ InitialEnergy \in 0..Capacity
    /\ {Nominal, EffNum, EffDen, Hour, Band, ThermalMass, StepInterval} \subseteq Nat \ {0}
    /\ {Ambient, DerateStart, DerateFull, Heat, Chiller, PassiveLoss} \subseteq Int
    /\ Epsilon \in Nat /\ MaxLate \in Nat /\ Saturates \in BOOLEAN
    /\ 2 * Band <= Capacity /\ EffNum <= EffDen
    /\ StepInterval * Nominal * EffDen <= Band * EffNum * Hour
    /\ Ambient < DerateStart /\ DerateStart < DerateFull
    /\ Demands \subseteq Int /\ Totals \subseteq Nat /\ ScenarioSpeeds \subseteq Speeds

VARIABLES
    stored, temp,   \* storedEnergyKWh and BatteryTempC
    power,          \* ActualPowerKW
    forward, reverse, \* what the last tick added to the meter's two counters
    inverted,       \* MeterDirectionInverted
    published,      \* the limits and prohibitions in the store
    demand,         \* the power and the meter's direction asked for
    advance,        \* what is left of the advance that a request has asked for
    scenario        \* the loaded scenario, at its cursor

plant == <<stored, temp, power, forward, reverse, inverted, published>>
vars == <<plant, demand, advance, scenario>>

\* A scenario before its next step: how long after the last one that is due, and
\* how far from the clock (a late step's due is negative).
noScenario == [at |-> "none", gap |-> 0, due |-> 0, speed |-> 0]

\* At cursor 0 and without a start instant: Start will set the clock to it.
loaded(gap, speed) == [at |-> "loaded", gap |-> gap, due |-> gap, speed |-> speed]

\* The times from step to step that Load accepts at a speed, in a form that TLC
\* computes once.
accepted ==
    UNION {IF ValidatePacing(gap, StepInterval, speed, Saturates) THEN {<<gap, speed>>} ELSE {} :
               gap \in Totals, speed \in ScenarioSpeeds}

-----------------------------------------------------------------------------
clamp(v, lo, hi) == IF v < lo THEN lo ELSE IF v > hi THEN hi ELSE v
magnitude(p) == IF p < 0 THEN -p ELSE p

\* 1 to 0 between the two temperatures, in parts of their distance.
thermalDerate(t) == clamp(DerateFull - t, 0, DerateFull - DerateStart)

\* Mutant: the charge limit looks at the energy that is there.
headroomStored(s) == s

chargeHeadroom(s) == Capacity - s

\* taperFactor, in parts of the band.
taper(headroom) == clamp(headroom, 0, Band)

limit(headroom, t) ==
    (Nominal * thermalDerate(t) * taper(headroom)) \div ((DerateFull - DerateStart) * Band)

MaxChargeable(s, t) == limit(chargeHeadroom(s), t)
MaxDischargeable(s, t) == limit(s, t)

\* Mutant: the efficiency is a gain.
integrateGaining(s, p, dt) ==
    clamp(IF p < 0 THEN s + (-p * dt * EffDen) \div (Hour * EffNum)
                   ELSE s - (p * dt * EffNum) \div (Hour * EffDen), 0, Capacity)

integrate(s, p, dt) ==
    clamp(IF p < 0 THEN s + (-p * dt * EffNum) \div (Hour * EffDen)
                   ELSE s - (p * dt * EffDen) \div (Hour * EffNum), 0, Capacity)

\* Mutant: the boundary is approached for ever.
snapNever(s) == s

\* Within the margin of a boundary the battery is full or empty.
snap(s) == IF s > Capacity - Epsilon THEN Capacity ELSE IF s < Epsilon THEN 0 ELSE s

integrateSOC(s, p, dt) == snap(integrate(s, p, dt))

updateThermal(t, p, dt) ==
    LET heat    == (Heat * p * p) \div (Nominal * Nominal)
        removed == (IF t > Ambient THEN Chiller ELSE 0) + (t - Ambient) * PassiveLoss
    IN  t + ((heat - removed) * dt) \div (Hour * ThermalMass)

\* What a tick adds to the counter that a discharge, or with the direction
\* inverted a charge, goes to; and to the other.
updateMeter(p, dt, inv) ==
    LET energy == (magnitude(p) * dt) \div Hour
        out    == (p > 0) # inv
    IN  /\ forward' = IF p # 0 /\ out THEN energy ELSE 0
        /\ reverse' = IF p # 0 /\ ~out THEN energy ELSE 0

\* writeState: the limits and prohibitions that recompute derives.
writeState(s, t) ==
    [chargeable |-> MaxChargeable(s, t), dischargeable |-> MaxDischargeable(s, t),
     chargeProhibited |-> s >= Capacity, dischargeProhibited |-> s <= 0]

\* Engine.Step under Runner.step: the demand is clipped to the limits that the
\* last tick left, and the direction is the demand's.
step(dt) ==
    /\ inverted' = demand.inverted
    /\ power' = clamp(demand.power, -MaxChargeable(stored, temp), MaxDischargeable(stored, temp))
    /\ stored' = integrateSOC(stored, power', dt)
    /\ temp' = updateThermal(temp, power', dt)
    /\ updateMeter(power', dt, demand.inverted)
    /\ published' = writeState(stored', temp')

\* The clock moves, and a scenario that has been started comes nearer to its next
\* step, or misses it.
elapse(dt) ==
    LET due == scenario.due - dt IN
    scenario' = IF scenario.at \in {"running", "stopped"}
                THEN [scenario EXCEPT !.due = IF due < -MaxLate THEN -(MaxLate + 1) ELSE due]
                ELSE scenario

-----------------------------------------------------------------------------
\* physics.New and writeState.
Init ==
    /\ stored = InitialEnergy /\ temp = Ambient /\ power = 0
    /\ forward = 0 /\ reverse = 0 /\ inverted = FALSE
    /\ published = writeState(InitialEnergy, Ambient)
    /\ demand = [power |-> 0, inverted |-> FALSE]
    /\ advance = 0 /\ scenario = noScenario

\* A client or an operation mode asks for another power, or turns the meter.
Demand(p, inv) ==
    /\ demand' = [power |-> p, inverted |-> inv]
    /\ UNCHANGED <<plant, advance, scenario>>

idle == advance = 0 /\ scenario.at # "running"

\* A tick of PacedRun.
LiveTick ==
    /\ idle
    /\ step(StepInterval) /\ elapse(StepInterval)
    /\ UNCHANGED <<demand, advance>>

\* POST /clock/advance.
FastForward(total) ==
    /\ idle
    /\ advance' = total
    /\ UNCHANGED <<plant, demand, scenario>>

\* One turn of fastForwardLocked's loop for a request, which is not paced.
requestTick ==
    LET next == nextChunk(StepInterval, advance) IN
    /\ advance > 0
    /\ step(next) /\ elapse(next)
    /\ advance' = advance - next
    /\ UNCHANGED demand

\* Load: every step's distance from the one before is looked at; the model draws
\* the later ones when they are reached.
Load(gap, speed) ==
    /\ scenario.at # "running" /\ <<gap, speed>> \in accepted
    /\ scenario' = loaded(gap, speed)
    /\ UNCHANGED <<plant, demand, advance>>

\* Start, the first time or again after Stop or an error.
Start ==
    /\ idle /\ scenario.at \in {"loaded", "stopped"} /\ scenario.due >= -MaxLate
    /\ scenario' = [scenario EXCEPT !.at = "running"]
    /\ UNCHANGED <<plant, demand, advance>>

\* advanceTo goes from wherever the clock is to the next step's deadline, a total
\* that nobody has validated, and is on its way until that is no longer due.
chunk == nextChunk(StepInterval, scenario.due)
paced == representable(chunk, scenario.speed, Saturates)

\* One turn of fastForwardLocked's loop for a scenario: pace, then tick.
runTick ==
    /\ scenario.at = "running" /\ scenario.due > 0 /\ paced
    /\ step(chunk) /\ elapse(chunk)
    /\ UNCHANGED <<demand, advance>>

\* The pace fails, and the run with it, wherever the clock has got to.
paceFails ==
    /\ scenario.at = "running" /\ scenario.due > 0 /\ ~paced
    /\ scenario' = [scenario EXCEPT !.at = "stopped"]
    /\ UNCHANGED <<plant, demand, advance>>

\* The step itself, at its deadline or at once when that has passed: it succeeds
\* and another follows, or it was the last, or it fails and ends the run.
executeStep ==
    /\ scenario.at = "running" /\ scenario.due <= 0
    /\ \/ \E gap \in Totals :
             /\ <<gap, scenario.speed>> \in accepted
             /\ scenario' = [scenario EXCEPT !.gap = gap, !.due = @ + gap]
       \/ scenario' = [scenario EXCEPT !.gap = 0, !.due = 0, !.at = "ended"]
       \/ scenario' = [scenario EXCEPT !.at = "stopped"]
    /\ UNCHANGED <<plant, demand, advance>>

\* POST /scenario/stop, between two increments or anywhere else.
Stop ==
    /\ scenario.at = "running"
    /\ scenario' = [scenario EXCEPT !.at = "stopped"]
    /\ UNCHANGED <<plant, demand, advance>>

\* POST /reset: the run is stopped and its playback rewound (LockForReset), and
\* Runner.Reset takes a new engine; the gate keeps it out of a request's advance.
Reset ==
    /\ advance = 0
    /\ stored' = InitialEnergy /\ temp' = Ambient /\ power' = 0
    /\ forward' = 0 /\ reverse' = 0 /\ inverted' = FALSE
    /\ published' = writeState(InitialEnergy, Ambient)
    /\ demand' = [power |-> 0, inverted |-> FALSE]
    /\ IF scenario.at = "none" THEN UNCHANGED scenario
       ELSE \E gap \in Totals : /\ <<gap, scenario.speed>> \in accepted
                                /\ scenario' = loaded(gap, scenario.speed)
    /\ UNCHANGED advance

Tick == LiveTick \/ requestTick \/ runTick

Next ==
    \/ \E p \in Demands, inv \in BOOLEAN : Demand(p, inv)
    \/ Tick
    \/ \E total \in Totals : FastForward(total)
    \/ \E gap \in Totals, speed \in ScenarioSpeeds : Load(gap, speed)
    \/ Start \/ paceFails \/ executeStep \/ Stop
    \/ Reset

\* PacedRun's ticker goes on as long as the process does.
Spec == Init /\ [][Next]_vars /\ WF_vars(LiveTick)

-----------------------------------------------------------------------------
\* The state is well formed; the power never exceeds the inverter's.
TypeOK ==
    /\ stored \in 0..Capacity
    /\ temp \in Int
    /\ power \in -Nominal..Nominal
    /\ forward \in Nat /\ reverse \in Nat /\ inverted \in BOOLEAN
    /\ published = writeState(stored, temp)
    /\ advance \in Nat
    /\ scenario.gap \in Nat /\ scenario.due \in -(MaxLate + 1)..scenario.gap

\* The battery gives what it has: it gains no more than the meter counted in,
\* and the meter counts no more out than it lost, but for the margin that a
\* boundary snaps (integrateSOC, updateMeter).  The counters agree on this
\* whichever way the meter is turned.
NoFreeEnergy ==
    [][Tick =>
         LET in  == IF inverted' THEN forward' ELSE reverse'
             out == IF inverted' THEN reverse' ELSE forward'
         IN  stored' - stored <= in - out + (IF stored' \in {0, Capacity} THEN Epsilon ELSE 0)]_vars

\* A tick after a prohibition was published does not move power that way.
ProhibitionIsObeyed ==
    [][Tick => /\ published.chargeProhibited => power' >= 0
               /\ published.dischargeProhibited => power' <= 0]_vars

\* The clock is past the next step's deadline, or a part of an increment past
\* the last one's.
drifted ==
    \/ scenario.due < 0
    \/ scenario.due > 0 /\ (scenario.gap - scenario.due) % StepInterval # 0

\* Load's ValidatePacing covers every pace of a run, over stops, resumes and live
\* ticks, as long as the clock has not drifted, and no run makes it drift.  What
\* others do between two runs may, and the next one can then fail half done
\* (validateAll against advanceTo and fastForwardLocked's CheckedPace).
PacingIsPromised ==
    [][/\ paceFails => drifted
       /\ drifted' => drifted \/ scenario.at # "running"]_vars

\* At every speed, and the loaded scenario's among them, an accepted pace is the
\* duration divided by the speed, for all that float64 rounds and int64 cuts off
\* (CheckedPace).
AcceptedPaceIsClose ==
    Speeds \cup ({scenario.speed} \ {noScenario.speed}) \subseteq closeSpeeds

\* A battery that live ticks charge at full power for good is full in the end:
\* neither the taper nor the derating stops it short (integrateSOC).
ChargingEndsFull ==
    <>[](demand.power = -Nominal /\ idle) => <>[](stored = Capacity)
=============================================================================

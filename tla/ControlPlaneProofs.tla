------------------------- MODULE ControlPlaneProofs -------------------------
(***************************************************************************)
(* Proofs about ControlPlane, for any scenario, any number of requests in  *)
(* flight and any bounds.  The inductive invariant says, for each place a  *)
(* goroutine can be at, which locks it holds there, what that keeps the    *)
(* others from, and how far the reset, the run or the start under way is.  *)
(***************************************************************************)
EXTENDS ControlPlane, TLAPS

\* The types of the two variables whose records are updated field by field.
HandlerType == [Handlers -> [at : Places, left : 0..MaxAdvance]]
ScenarioType == [loaded : BOOLEAN, running : BOOLEAN, stop : BOOLEAN, haveStart : BOOLEAN,
                 start : 0..Later, cursor : 0..Len(Steps)]

\* The types of the others.
OtherTypes ==
    /\ clk \in 0..Later /\ last \in 0..Later
    /\ lifecycle \in Mutex /\ owner \in Mutex /\ tickMu \in Mutex
    /\ coord \in Mutex /\ physMu \in Mutex
    /\ pauseRequested \in 0..1
    /\ ops \subseteq Drivers
    /\ exclusive \in Handlers \cup {None} /\ waiting \in Handlers \cup {None}
    /\ run \in [at : RunPlaces, left : 0..Later]
    /\ pacer \in {"idle", "try", "op", "tick", "unlock"}
    /\ touched \subseteq Components
    /\ executed \in Seq(DOMAIN Steps)

\* What a request holds at each place.
Holding(h) ==
    LET at == handler[h].at IN
    /\ at \in {"load", "start", "stop", "stopWait", "reset",
        "resetWait"} \cup Starting \cup Resetting
         => lifecycle = h
    /\ at \in Starting => owner = "run" /\ run = dead
    /\ at \in Starting \ {"startTicks"} => tickMu = "run"
    /\ at \in Advancing => owner = h
    /\ at \in Advancing \ {"advTicks"} => tickMu = h
    /\ at \in {"advPhys", "advTick", "write", "snapshot"} => h \in ops
    /\ at = "advTick" => physMu = h
    /\ at \in {"link", "read", "snapshot", "resetGate",
        "resetExclusive"} \cup InExclusive => coord = h
    /\ at = "resetExclusive" => waiting = h
    /\ at \in InExclusive => exclusive = h
    /\ at \in Resetting => run = dead /\ scenario.cursor = 0
    /\ at \in Resetting \cup {"resetWait"} => ~scenario.running

\* The same of the pacer and of the run, and of the locks that stay free.
LocksHeld ==
    /\ \A h \in Handlers : Holding(h)
    /\ pacer \in {"op", "tick", "unlock"} => tickMu = "pacer"
    /\ pacer = "tick" => "pacer" \in ops
    /\ run.at \notin {"dead", "done"} => owner = "run" /\ tickMu = "run"
    /\ run.at = "dead" => run = dead
    /\ run.at \in {"phys", "tick"} => "run" \in ops
    /\ run.at = "tick" => physMu = "run"
    /\ run.at = "act" => IF action = "write" THEN "run" \in ops ELSE coord = "run"
    /\ exclusive # None => ops = {} /\ handler[exclusive].at \in InExclusive
    /\ pauseRequested = IF owner = None THEN 0 ELSE 1

\* Where the run is in its scenario.
Progress ==
    /\ scenario.start \in {StartupInstant, ClockStart}
    /\ run.at \in {"op", "phys", "tick", "exec", "act", "next"} => scenario.cursor < Len(Steps)
    /\ StepsExecutedOnce

\* The clock and its baseline, and what a reset has put back so far.
ClockInv ==
    /\ DtBaselineIsClock
    /\ StepsNotEarly
    /\ run.at \in {"op", "phys", "tick"} =>
          clk + run.left = scenario.start + Steps[scenario.cursor + 1].at
    /\ \A h \in Handlers :
         LET at == handler[h].at IN
         /\ at = "rebase" => clk = ClockStart
         /\ at \in {"resetPhysics", "resetStore", "resetLink"} => clk = StartupInstant
         /\ at \in {"resetStore", "resetLink"} => last = StartupInstant
         /\ at = "resetPhysics" => touched \subseteq Components \ {"clock"}
         /\ at = "resetStore" => touched \subseteq {"store", "processor", "link"}
         /\ at = "resetLink" => touched \subseteq {"link"}

ControlIInv == TypeOK /\ LocksHeld /\ Progress /\ ClockInv

-----------------------------------------------------------------------------
\* A scenario has finitely many steps, and each is due before the bound.
LEMMA StepsFacts ==
    /\ Len(Steps) \in Nat /\ DOMAIN Steps = 1..Len(Steps)
    /\ \A i \in 1..Len(Steps) :
         /\ Steps[i].at \in Nat /\ Steps[i].action \in {"write", "link", "expect"}
         /\ Steps[i].at < Later /\ ClockStart + Steps[i].at < Later
<1> DEFINE S == [at : Nat, action : {"write", "link", "expect"}]
<1>1. Len(Steps) \in Nat /\ DOMAIN Steps = 1..Len(Steps) /\ \A i \in 1..Len(Steps) : Steps[i] \in S
  <2>1. Steps \in Seq(S)
    BY ControlAssumption
  <2> HIDE DEF S
  <2> QED BY <2>1
<1>2. ASSUME NEW i \in 1..Len(Steps)
      PROVE  Steps[i].at \in Nat /\ Steps[i].action \in {"write", "link", "expect"}
  BY <1>1
<1>3. ASSUME NEW i \in 1..Len(Steps) PROVE ClockStart + Steps[i].at < Later
  BY <1>1, ControlAssumption
<1> QED BY <1>1, <1>2, <1>3, ControlAssumption

\* A scenario's record stays one when its counters are set, ...
LEMMA ScenarioCounters ==
    ASSUME NEW s \in ScenarioType
    PROVE  /\ \A n \in 0..Len(Steps) : [s EXCEPT !.cursor = n] \in ScenarioType
           /\ \A t \in 0..Later : [s EXCEPT !.start = t] \in ScenarioType
BY StepsFacts DEF ScenarioType

\* ... and when its flags are.
LEMMA ScenarioUpdates ==
    ASSUME NEW s \in ScenarioType
    PROVE  /\ [s EXCEPT !.loaded = TRUE, !.cursor = 0, !.haveStart = FALSE] \in ScenarioType
           /\ [s EXCEPT !.start = ClockStart, !.haveStart = TRUE] \in ScenarioType
           /\ [s EXCEPT !.running = TRUE, !.stop = FALSE] \in ScenarioType
           /\ [s EXCEPT !.running = FALSE, !.stop = TRUE] \in ScenarioType
           /\ [s EXCEPT !.running = FALSE] \in ScenarioType
           /\ [s EXCEPT !.cursor = 0, !.haveStart = FALSE] \in ScenarioType
<1> DEFINE rewound == [s EXCEPT !.cursor = 0]
           started == [s EXCEPT !.start = ClockStart]
<1>1. rewound \in ScenarioType
  <2>1. 0 \in 0..Len(Steps)
    BY StepsFacts
  <2> QED BY <2>1, ScenarioCounters
<1>2. started \in ScenarioType
  <2>1. ClockStart \in 0..Later
    BY ControlAssumption
  <2> QED BY <2>1, ScenarioCounters
<1>3. /\ [rewound EXCEPT !.loaded = TRUE, !.haveStart = FALSE] \in ScenarioType
      /\ [rewound EXCEPT !.haveStart = FALSE] \in ScenarioType
  <2> HIDE DEF rewound
  <2> QED BY <1>1 DEF ScenarioType
<1>4. [started EXCEPT !.haveStart = TRUE] \in ScenarioType
  <2> HIDE DEF started
  <2> QED BY <1>2 DEF ScenarioType
<1>5. /\ [s EXCEPT !.running = TRUE, !.stop = FALSE] \in ScenarioType
      /\ [s EXCEPT !.running = FALSE, !.stop = TRUE] \in ScenarioType
      /\ [s EXCEPT !.running = FALSE] \in ScenarioType
  BY DEF ScenarioType
<1>6. /\ [s EXCEPT !.loaded = TRUE, !.cursor = 0, !.haveStart = FALSE]
           = [rewound EXCEPT !.loaded = TRUE, !.haveStart = FALSE]
      /\ [s EXCEPT !.cursor = 0, !.haveStart = FALSE] = [rewound EXCEPT !.haveStart = FALSE]
      /\ [s EXCEPT !.start = ClockStart, !.haveStart = TRUE] = [started EXCEPT !.haveStart = TRUE]
  BY DEF ScenarioType
<1> QED BY <1>3, <1>4, <1>5, <1>6

-----------------------------------------------------------------------------

\* The scenario's record stays one.
LEMMA ScenarioStep == TypeOK /\ Progress /\ [Next]_vars => scenario' \in ScenarioType
<1> SUFFICES ASSUME TypeOK, Progress, [Next]_vars PROVE scenario' \in ScenarioType
  OBVIOUS
<1>1. scenario \in ScenarioType
  BY DEF TypeOK, ScenarioType
<1>2. \/ scenario' = scenario
      \/ \E s \in {[scenario EXCEPT !.loaded = TRUE, !.cursor = 0, !.haveStart = FALSE],
                   [scenario EXCEPT !.start = ClockStart, !.haveStart = TRUE],
                   [scenario EXCEPT !.running = TRUE, !.stop = FALSE],
                   [scenario EXCEPT !.running = FALSE, !.stop = TRUE],
                   [scenario EXCEPT !.running = FALSE],
                   [scenario EXCEPT !.cursor = 0, !.haveStart = FALSE]} : scenario' = s
      \/ runNext
  <2>1. CASE UNCHANGED vars
    BY <2>1 DEF vars
  <2>2. CASE PacedRun
    BY <2>2 DEF PacedRun, pacerWakes, pacerTryLock, pacerOp, pacerTick, pacerUnlock
  <2>3. CASE runLoop
    BY <2>3 DEF runLoop, runCheck, runOp, runPhys, runTick, runAdvanced, runPaceFails,
                runFails, runLock, runAct, runExpect,
                runRelease, runDone
  <2>4. ASSUME NEW h \in Handlers, arrives(h) \/ contends(h) PROVE scenario' = scenario
    BY <2>4 DEF arrives, takeLifecycle, takeCoord, advanceClaims, writeOp, contends, startTicks,
                resetCoord, advanceTicks, advanceOp, interrogateOp
  <2>5. ASSUME NEW h \in Handlers, proceeds(h) PROVE <1>2!1 \/ <1>2!2
    BY <2>5 DEF proceeds, Load, startRefused, startClaims, startSetsClock, startRebases,
                startLaunches, stopLocked, stopReturns, resetRewinds, resetWaits, resetExclusive,
                resetClock, resetPhysics, resetStore, resetLink, resetReturns, advancePhys,
                advanceTick, advanceReturns, writeCommits, linkApplies, interrogated
  <2> QED BY <2>1, <2>2, <2>3, <2>4, <2>5 DEF Next
<1>3. CASE runNext
  <2>1. scenario.cursor + 1 \in 0..Len(Steps)
    BY <1>1, <1>3, StepsFacts DEF runNext, Progress, ScenarioType
  <2> QED BY <1>1, <1>3, <2>1, ScenarioCounters DEF runNext
<1> QED BY <1>1, <1>2, <1>3, ScenarioUpdates


\* Every request stays where a request may be.
LEMMA HandlerStep == TypeOK /\ [Next]_vars => handler' \in HandlerType
<1> SUFFICES ASSUME TypeOK, [Next]_vars PROVE handler' \in HandlerType
  OBVIOUS
<1>1. handler \in HandlerType
  BY DEF TypeOK, HandlerType
<1>2. ASSUME NEW h \in Handlers, NEW at \in Places, goto(h, at) PROVE handler' \in HandlerType
  BY <1>1, <1>2 DEF goto, HandlerType
<1> USE DEF Places, Starting, Resetting, InExclusive, Advancing
<1>3. CASE UNCHANGED vars \/ PacedRun \/ runLoop
  BY <1>1, <1>3 DEF vars, PacedRun, pacerWakes, pacerTryLock, pacerOp, pacerTick, pacerUnlock,
        runLoop, runCheck, runOp, runPhys, runTick, runAdvanced, runPaceFails,
                runFails, runLock, runAct, runExpect,
            runNext,
        runRelease, runDone
<1>4. ASSUME NEW h \in Handlers, arrives(h) \/ contends(h) PROVE handler' \in HandlerType
  <2>1. CASE advanceClaims(h)
    BY <1>1, <2>1 DEF advanceClaims, HandlerType
  <2>2. ASSUME ~advanceClaims(h) PROVE \E at \in Places : goto(h, at)
    BY <1>4, <2>2 DEF arrives, takeLifecycle, takeCoord, writeOp, contends, startTicks, resetCoord,
                advanceTicks, advanceOp, interrogateOp
  <2> QED BY <1>2, <2>1, <2>2
<1>5. ASSUME NEW h \in Handlers, proceeds(h) PROVE handler' \in HandlerType
  <2>1. CASE advanceTick(h)
    BY <1>1, <2>1, ControlAssumption DEF advanceTick, HandlerType
  <2>2. ASSUME ~advanceTick(h) PROVE \E at \in Places : goto(h, at)
    BY <1>5, <2>2 DEF proceeds, Load, startRefused, startClaims, startSetsClock, startRebases,
                startLaunches, stopLocked, stopReturns, resetRewinds, resetWaits, resetExclusive,
                resetClock, resetPhysics, resetStore, resetLink, resetReturns, advancePhys,
                advanceReturns, writeCommits, linkApplies, interrogated
  <2> QED BY <1>2, <2>1, <2>2
<1> QED BY <1>3, <1>4, <1>5 DEF Next


\* When the next step is due, and that it is before the bound.
Due == scenario.start + Steps[scenario.cursor + 1].at

LEMMA DueBound ==
    ASSUME TypeOK, Progress, scenario.cursor < Len(Steps)
    PROVE  Due \in Nat /\ Due < Later
<1>1. scenario.cursor \in Nat /\ scenario.start \in {0, ClockStart}
  BY StepsFacts DEF TypeOK, Progress, StartupInstant
<1>2. scenario.cursor + 1 \in 1..Len(Steps)
  BY <1>1, StepsFacts
<1> DEFINE at == Steps[scenario.cursor + 1].at
<1>3. at \in Nat /\ at < Later /\ ClockStart + at < Later
  BY <1>2, StepsFacts
<1>4. ClockStart \in Nat /\ Later \in Nat
  BY ControlAssumption
<1> HIDE DEF at
<1>5. scenario.start + at \in Nat /\ scenario.start + at < Later
  BY <1>1, <1>3, <1>4
<1> QED BY <1>5 DEF Due, at

\* What Load, and an expectation, do to the cursor.
LEMMA LoadEffect ==
    ASSUME TypeOK, NEW h \in Handlers, Load(h)
    PROVE  /\ run' = run
           /\ \/ scenario' = scenario /\ executed' = executed
              \/ /\ run = dead /\ executed' = << >>
                 /\ scenario'.cursor = 0 /\ scenario'.start = scenario.start
<1>1. CASE scenario.running \/ run # dead
  BY <1>1 DEF Load
<1>2. CASE ~(scenario.running \/ run # dead)
  <2>1. scenario' = [scenario EXCEPT !.loaded = TRUE, !.cursor = 0, !.haveStart = FALSE]
    BY <1>2 DEF Load
  <2>2. scenario'.cursor = 0 /\ scenario'.start = scenario.start
    BY <2>1 DEF TypeOK
  <2> QED BY <1>2, <2>2 DEF Load
<1> QED BY <1>1, <1>2

\* One more step executed.
LEMMA OneMore ==
    ASSUME NEW n \in Nat
    PROVE  Append([i \in 1..n |-> i], n + 1) = [i \in 1..n + 1 |-> i]
OBVIOUS

LEMMA ExpectEffect ==
    ASSUME TypeOK, runExpect
    PROVE  /\ run.at = "exec"
           /\ scenario'.cursor = scenario.cursor /\ scenario'.start = scenario.start
           /\ \/ run'.at = "next" /\ executed' = Append(executed, scenario.cursor + 1)
              \/ run'.at = "exit" /\ executed' = executed
BY DEF runExpect, TypeOK

\* Both leave the executed steps as the cursor says.
LEMMA LoadSteps ==
    ASSUME TypeOK, StepsExecutedOnce, NEW h \in Handlers, Load(h)
    PROVE  StepsExecutedOnce'
<1>1. CASE scenario' = scenario /\ executed' = executed
  BY <1>1, LoadEffect DEF StepsExecutedOnce
<1>2. CASE run = dead /\ executed' = << >> /\ scenario'.cursor = 0
  <2>1. run'.at = "dead"
    BY <1>2, LoadEffect DEF dead
  <2>2. << >> = [i \in 1..0 |-> i]
    OBVIOUS
  <2> QED BY <1>2, <2>1, <2>2 DEF StepsExecutedOnce
<1> QED BY <1>1, <1>2, LoadEffect

LEMMA ExpectSteps ==
    ASSUME TypeOK, StepsExecutedOnce, runExpect
    PROVE  StepsExecutedOnce'
<1>1. scenario.cursor \in Nat
  BY StepsFacts DEF TypeOK
<1>2. executed = [i \in 1..scenario.cursor |-> i]
  BY <1>1, ExpectEffect DEF StepsExecutedOnce
<1>3. CASE run'.at = "next" /\ executed' = Append(executed, scenario.cursor + 1)
  BY <1>1, <1>2, <1>3, ExpectEffect, OneMore DEF StepsExecutedOnce
<1>4. CASE run'.at = "exit" /\ executed' = executed
  BY <1>1, <1>2, <1>4, ExpectEffect DEF StepsExecutedOnce
<1> QED BY <1>3, <1>4, ExpectEffect

LEMMA CheckEffect ==
    ASSUME TypeOK, runCheck
    PROVE  /\ run.at = "check" /\ executed' = executed
           /\ scenario'.cursor = scenario.cursor /\ scenario'.start = scenario.start
           /\ \/ run'.at = "exit"
              \/ /\ run'.at = "op" /\ run'.left = Due - clk /\ clk < Due
                 /\ scenario.cursor < Len(Steps)
              \/ run'.at = "exec" /\ ~(Due > clk) /\ scenario.cursor < Len(Steps)
BY DEF runCheck, aux, TypeOK, Due

LEMMA CheckClock ==
    ASSUME TypeOK, Progress, runCheck
    PROVE  /\ StepsNotEarly'
           /\ run'.at = "op" => clk + run'.left = Due
<1>1. Due' = Due /\ clk' = clk /\ clk \in Nat
  BY CheckEffect, ControlAssumption DEF Due, runCheck, time, TypeOK
<1>2. scenario.cursor < Len(Steps) => Due \in Nat
  BY DueBound
<1>3. run'.at \in {"exec", "act"} => clk >= Due
  BY <1>1, <1>2, CheckEffect
<1>4. run'.at = "op" => clk + run'.left = Due
  BY <1>1, <1>2, CheckEffect
<1> QED BY <1>1, <1>3, <1>4 DEF StepsNotEarly, Due

\* Where the run goes next, and for how long it will tick.
LEMMA RunPlacesStep ==
    ASSUME TypeOK, Progress, runCheck \/ runTick \/ runNext
    PROVE  run' \in [at : RunPlaces, left : 0..Later]
<1>1. run.at \in RunPlaces /\ run.left \in 0..Later /\ Later \in Nat /\ clk \in 0..Later
  BY ControlAssumption DEF TypeOK
<1>2. CASE runCheck
  <2>1. scenario.cursor < Len(Steps) => Due \in Nat /\ Due < Later
    BY DueBound
  <2>2. scenario.cursor < Len(Steps) /\ clk < Due => Due - clk \in 0..Later
    BY <1>1, <2>1
  <2>3. \/ run' = [run EXCEPT !.at = "exit"]
        \/ scenario.cursor < Len(Steps) /\ Due > clk /\ run' = [at |-> "op", left |-> Due - clk]
        \/ run' = [run EXCEPT !.at = "exec"]
    BY <1>2 DEF runCheck, Due
  <2>4. CASE run' = [run EXCEPT !.at = "exit"] \/ run' = [run EXCEPT !.at = "exec"]
    BY <2>4 DEF TypeOK, RunPlaces
  <2>5. CASE scenario.cursor < Len(Steps) /\ Due > clk /\ run' = [at |-> "op", left |-> Due - clk]
    <3>1. Due - clk \in 0..Later
      BY <1>1, <2>1, <2>2, <2>5
    <3> QED BY <2>5, <3>1 DEF RunPlaces
  <2> QED BY <2>3, <2>4, <2>5
<1>3. CASE runTick
  <2>1. run' = [run EXCEPT !.left = @ - 1] /\ run.left - 1 \in 0..Later
    BY <1>1, <1>3 DEF runTick
  <2> QED BY <2>1 DEF TypeOK, RunPlaces
<1>4. CASE runNext
  BY <1>4 DEF runNext, TypeOK, RunPlaces
<1> QED BY <1>2, <1>3, <1>4

\* While a run ticks, no request has moved the clock and not yet answered for it.
LEMMA RunTicksAlone ==
    ASSUME LocksHeld, run.at = "tick", NEW h \in Handlers
    PROVE  handler[h].at \notin {"rebase", "resetPhysics", "resetStore", "resetLink"}
BY DEF LocksHeld, Holding, dead, Starting, Resetting, InExclusive


\* The other variables keep their types.
LEMMA OtherStep == OtherTypes /\ TypeOK /\ LocksHeld /\ Progress /\ [Next]_vars => OtherTypes'
<1> SUFFICES ASSUME OtherTypes, TypeOK, LocksHeld, Progress, [Next]_vars PROVE OtherTypes'
  OBVIOUS
<1> USE ControlAssumption DEF OtherTypes, Mutex, Drivers, Components, RunPlaces, dead
<1>1. CASE UNCHANGED vars
  BY <1>1 DEF vars, time, locks, aux, action
<1>2. CASE PacedRun
  <2>1. CASE pacerWakes
    BY <2>1 DEF pacerWakes, locks, aux, time
  <2>2. CASE pacerTryLock
    BY <2>2 DEF pacerTryLock, aux, time
  <2>3. CASE pacerOp
    BY <2>3 DEF pacerOp, Op, aux, time
  <2>4. CASE pacerTick
    BY <2>4 DEF pacerTick, step, Touch, Advance, opDone
  <2>5. CASE pacerUnlock
    BY <2>5 DEF pacerUnlock, aux, time
  <2> QED BY <1>2, <2>1, <2>2, <2>3, <2>4, <2>5 DEF PacedRun
<1>3. CASE runLoop
  <2>1. CASE runCheck
    <3>1. run' \in [at : RunPlaces, left : 0..Later]
      BY <2>1, RunPlacesStep
    <3> QED BY <2>1, <3>1 DEF runCheck, locks, aux, time
  <2>2. CASE runOp
    BY <2>2 DEF runOp, Op, aux, time
  <2>3. CASE runPhys
    BY <2>3 DEF runPhys, aux, time
  <2>4. CASE runTick
    <3>1. run' \in [at : RunPlaces, left : 0..Later]
      BY <2>4, RunPlacesStep
    <3> QED BY <2>4, <3>1 DEF runTick, step, Touch, Advance, locks
  <2>5. CASE runAdvanced
    BY <2>5 DEF runAdvanced, opDone, aux, time
  <2>6. CASE runLock
    BY SMTT(60), <2>6 DEF runLock, Op, aux, time
  <2>7. CASE runAct
    <3>1. scenario.cursor + 1 \in DOMAIN Steps
      <4>1. scenario.cursor \in 0..Len(Steps) /\ scenario.cursor < Len(Steps)
        BY <2>7 DEF runAct, TypeOK, Progress
      <4> QED BY <4>1, StepsFacts
    <3>2. Append(executed, scenario.cursor + 1) \in Seq(DOMAIN Steps)
      BY <3>1
    <3>3. executed' \in Seq(DOMAIN Steps)
      BY <2>7, <3>2, Zenon DEF runAct
    <3>4. run' \in [at : RunPlaces, left : 0..Later]
      BY <2>7 DEF runAct
    <3> QED BY <2>7, <3>3, <3>4 DEF runAct, opDone, Touch, time
  <2>8. CASE runExpect
    <3>1. scenario.cursor + 1 \in DOMAIN Steps
      <4>1. scenario.cursor \in 0..Len(Steps) /\ scenario.cursor < Len(Steps)
        BY <2>8 DEF runExpect, TypeOK, Progress
      <4> QED BY <4>1, StepsFacts
    <3>2. Append(executed, scenario.cursor + 1) \in Seq(DOMAIN Steps)
      BY <3>1
    <3>3. executed' \in Seq(DOMAIN Steps)
      BY <2>8, <3>2, Zenon DEF runExpect
    <3>4. run' \in [at : RunPlaces, left : 0..Later]
      BY <2>8 DEF runExpect
    <3> QED BY <2>8, <3>3, <3>4 DEF runExpect, locks, time
  <2>9. CASE runNext
    <3>1. run' \in [at : RunPlaces, left : 0..Later]
      BY <2>9, RunPlacesStep
    <3> QED BY <2>9, <3>1 DEF runNext, locks, aux, time
  <2>10. CASE runRelease
    BY <2>10 DEF runRelease, ReleaseDrive, time, LocksHeld
  <2>11. CASE runDone
    BY <2>11 DEF runDone, locks, aux, time
  <2>12. CASE runPaceFails
    BY <2>12 DEF runPaceFails, opDone, aux, time
  <2>13. CASE runFails
    BY <2>13 DEF runFails, locks, aux, time
  <2> QED BY <1>3, <2>1, <2>2, <2>3, <2>4, <2>5, <2>6, <2>7, <2>8, <2>9, <2>10, <2>11,
             <2>12, <2>13 DEF runLoop
<1>4. ASSUME NEW h \in Handlers, arrives(h) PROVE OtherTypes'
  <2>1. ASSUME NEW request \in Requests, takeLifecycle(h, request), request \in {"load", "start",
      "stop", "reset"} PROVE OtherTypes'
    BY <2>1 DEF takeLifecycle, goto, aux, time
  <2>2. ASSUME NEW request \in Requests, takeCoord(h, request), request \in {"link",
      "read"} PROVE OtherTypes'
    BY <2>2 DEF takeCoord, goto, aux, time
  <2>3. CASE advanceClaims(h)
    BY <2>3 DEF advanceClaims, claimDrive, aux, time, LocksHeld
  <2>4. CASE writeOp(h)
    BY <2>4 DEF writeOp, Op, goto, aux, time
  <2> QED BY <1>4, <2>1, <2>2, <2>3, <2>4 DEF arrives
<1>5. ASSUME NEW h \in Handlers, proceeds(h) PROVE OtherTypes'
  <2>1. CASE Load(h)
    <3>1. executed' \in Seq(DOMAIN Steps)
      <4>1. << >> \in Seq(DOMAIN Steps)
        OBVIOUS
      <4> QED BY <2>1, <4>1 DEF Load
    <3> QED BY <2>1, <3>1 DEF Load, dropLifecycle, goto, time
  <2>2. CASE startRefused(h)
    BY <2>2 DEF startRefused, dropLifecycle, goto, aux, time
  <2>3. CASE startClaims(h)
    BY <2>3 DEF startClaims, claimDrive, goto, aux, time, LocksHeld
  <2>4. CASE startSetsClock(h)
    BY <2>4 DEF startSetsClock, Touch, goto, locks
  <2>5. CASE startRebases(h)
    BY <2>5 DEF startRebases, goto, locks, aux
  <2>6. CASE startLaunches(h)
    BY <2>6 DEF startLaunches, dropLifecycle, goto, time
  <2>7. CASE stopLocked(h, "stop", "stopWait")
    BY <2>7 DEF stopLocked, goto, locks, aux, time
  <2>8. CASE stopReturns(h)
    BY <2>8 DEF stopReturns, dropLifecycle, goto, aux, time
  <2>9. CASE stopLocked(h, "reset", "resetWait")
    BY <2>9 DEF stopLocked, goto, locks, aux, time
  <2>10. CASE resetRewinds(h)
    BY <2>10 DEF resetRewinds, goto, locks, time
  <2>11. CASE resetWaits(h)
    BY <2>11 DEF resetWaits, goto, aux, time
  <2>12. CASE resetExclusive(h)
    BY <2>12 DEF resetExclusive, goto, time
  <2>13. CASE resetClock(h)
    BY <2>13 DEF resetClock, goto, locks, StartupInstant
  <2>14. CASE resetPhysics(h)
    BY <2>14 DEF resetPhysics, goto, locks, StartupInstant
  <2>15. CASE resetStore(h)
    BY <2>15 DEF resetStore, goto, locks, time
  <2>16. CASE resetLink(h)
    BY <2>16 DEF resetLink, goto, time
  <2>17. CASE resetReturns(h)
    BY <2>17 DEF resetReturns, dropLifecycle, goto, aux, time
  <2>18. CASE advancePhys(h)
    BY <2>18 DEF advancePhys, goto, aux, time
  <2>19. CASE advanceTick(h)
    BY <2>19 DEF advanceTick, step, Touch, Advance, locks
  <2>20. CASE advanceReturns(h)
    BY <2>20 DEF advanceReturns, opDone, ReleaseDrive, goto, aux, time, LocksHeld, Holding,
        Advancing
  <2>21. CASE writeCommits(h)
    BY <2>21 DEF writeCommits, Touch, opDone, goto, time
  <2>22. CASE linkApplies(h)
    BY <2>22 DEF linkApplies, Touch, goto, time
  <2>23. CASE interrogated(h)
    BY <2>23 DEF interrogated, opDone, goto, aux, time
  <2> QED BY <1>5, <2>1, <2>2, <2>3, <2>4, <2>5, <2>6, <2>7, <2>8, <2>9, <2>10, <2>11, <2>12,
      <2>13, <2>14, <2>15, <2>16, <2>17, <2>18, <2>19, <2>20, <2>21, <2>22, <2>23 DEF proceeds
<1>6. ASSUME NEW h \in Handlers, contends(h) PROVE OtherTypes'
  <2>1. CASE startTicks(h)
    BY <2>1 DEF startTicks, takeTicks, goto, aux, time
  <2>2. CASE resetCoord(h)
    BY <2>2 DEF resetCoord, goto, aux, time
  <2>3. CASE advanceTicks(h)
    BY <2>3 DEF advanceTicks, takeTicks, goto, aux, time
  <2>4. CASE advanceOp(h)
    BY <2>4 DEF advanceOp, Op, goto, aux, time
  <2>5. CASE interrogateOp(h)
    BY <2>5 DEF interrogateOp, Op, goto, aux, time
  <2> QED BY <1>6, <2>1, <2>2, <2>3, <2>4, <2>5 DEF contends
<1> QED BY <1>1, <1>2, <1>3, <1>4, <1>5, <1>6 DEF Next

LEMMA TypeStep == TypeOK /\ LocksHeld /\ Progress /\ [Next]_vars => TypeOK'
<1>1. TypeOK <=> OtherTypes /\ scenario \in ScenarioType /\ handler \in HandlerType
  BY DEF TypeOK, OtherTypes, ScenarioType, HandlerType
<1>2. TypeOK' <=> OtherTypes' /\ scenario' \in ScenarioType /\ handler' \in HandlerType
  BY DEF TypeOK, OtherTypes, ScenarioType, HandlerType
<1> QED BY <1>1, <1>2, OtherStep, ScenarioStep, HandlerStep


\* No step takes a lock that another goroutine holds, or leaves one behind.
LEMMA LocksStep == TypeOK /\ LocksHeld /\ [Next]_vars => LocksHeld'
<1> SUFFICES ASSUME TypeOK, LocksHeld, [Next]_vars PROVE LocksHeld'
  OBVIOUS
<1> USE ControlAssumption DEF TypeOK, LocksHeld, Mutex, Drivers, idle, dead, Places, RunPlaces,
    Starting, Resetting, InExclusive, Advancing, Holding, action
<1>1. CASE UNCHANGED vars
  BY <1>1 DEF vars, time, locks, aux, action
<1>2. CASE PacedRun
  <2>1. CASE pacerWakes
    BY <2>1 DEF pacerWakes, locks, aux, time
  <2>2. CASE pacerTryLock
    BY <2>2 DEF pacerTryLock, aux, time
  <2>3. CASE pacerOp
    BY <2>3 DEF pacerOp, Op, aux, time
  <2>4. CASE pacerTick
    BY <2>4 DEF pacerTick, step, Touch, Advance, opDone
  <2>5. CASE pacerUnlock
    BY <2>5 DEF pacerUnlock, aux, time
  <2> QED BY <1>2, <2>1, <2>2, <2>3, <2>4, <2>5 DEF PacedRun
<1>3. CASE runLoop
  <2>1. CASE runCheck
    BY <2>1 DEF runCheck, locks, aux, time
  <2>2. CASE runOp
    BY <2>2 DEF runOp, Op, aux, time
  <2>3. CASE runPhys
    BY <2>3 DEF runPhys, aux, time
  <2>4. CASE runTick
    BY <2>4 DEF runTick, step, Touch, Advance, locks
  <2>5. CASE runAdvanced
    BY <2>5 DEF runAdvanced, opDone, aux, time
  <2>6. CASE runLock
    BY SMTT(60), <2>6 DEF runLock, Op, aux, time
  <2>7. CASE runAct
    BY <2>7 DEF runAct, opDone, Touch, time
  <2>8. CASE runExpect
    BY SMTT(60), <2>8 DEF runExpect, locks, time
  <2>9. CASE runNext
    BY <2>9 DEF runNext, locks, aux, time
  <2>10. CASE runRelease
    BY <2>10 DEF runRelease, ReleaseDrive, time
  <2>11. CASE runDone
    BY <2>11 DEF runDone, locks, aux, time
  <2>12. CASE runPaceFails
    BY <2>12 DEF runPaceFails, opDone, aux, time
  <2>13. CASE runFails
    BY <2>13 DEF runFails, locks, aux, time
  <2> QED BY <1>3, <2>1, <2>2, <2>3, <2>4, <2>5, <2>6, <2>7, <2>8, <2>9, <2>10, <2>11,
             <2>12, <2>13 DEF runLoop
<1>4. ASSUME NEW h \in Handlers, arrives(h) PROVE LocksHeld'
  <2>1. ASSUME NEW request \in Requests, takeLifecycle(h, request), request \in {"load", "start",
      "stop", "reset"} PROVE LocksHeld'
    BY <2>1 DEF takeLifecycle, goto, aux, time
  <2>2. ASSUME NEW request \in Requests, takeCoord(h, request), request \in {"link",
      "read"} PROVE LocksHeld'
    BY <2>2 DEF takeCoord, goto, aux, time
  <2>3. CASE advanceClaims(h)
    BY <2>3 DEF advanceClaims, claimDrive, aux, time
  <2>4. CASE writeOp(h)
    BY <2>4 DEF writeOp, Op, goto, aux, time
  <2> QED BY <1>4, <2>1, <2>2, <2>3, <2>4 DEF arrives
<1>5. ASSUME NEW h \in Handlers, proceeds(h) PROVE LocksHeld'
  <2>1. CASE Load(h)
    BY SMTT(60), <2>1 DEF Load, dropLifecycle, goto, time
  <2>2. CASE startRefused(h)
    BY <2>2 DEF startRefused, dropLifecycle, goto, aux, time
  <2>3. CASE startClaims(h)
    BY <2>3 DEF startClaims, claimDrive, goto, aux, time
  <2>4. CASE startSetsClock(h)
    BY <2>4 DEF startSetsClock, Touch, goto, locks
  <2>5. CASE startRebases(h)
    BY <2>5 DEF startRebases, goto, locks, aux
  <2>6. CASE startLaunches(h)
    BY <2>6 DEF startLaunches, dropLifecycle, goto, time
  <2>7. CASE stopLocked(h, "stop", "stopWait")
    BY <2>7 DEF stopLocked, goto, locks, aux, time
  <2>8. CASE stopReturns(h)
    BY <2>8 DEF stopReturns, dropLifecycle, goto, aux, time
  <2>9. CASE stopLocked(h, "reset", "resetWait")
    BY <2>9 DEF stopLocked, goto, locks, aux, time
  <2>10. CASE resetRewinds(h)
    BY <2>10 DEF resetRewinds, goto, locks, time
  <2>11. CASE resetWaits(h)
    BY <2>11 DEF resetWaits, goto, aux, time
  <2>12. CASE resetExclusive(h)
    BY <2>12 DEF resetExclusive, goto, time
  <2>13. CASE resetClock(h)
    BY <2>13 DEF resetClock, goto, locks
  <2>14. CASE resetPhysics(h)
    BY <2>14 DEF resetPhysics, goto, locks
  <2>15. CASE resetStore(h)
    BY <2>15 DEF resetStore, goto, locks, time
  <2>16. CASE resetLink(h)
    BY <2>16 DEF resetLink, goto, time
  <2>17. CASE resetReturns(h)
    BY <2>17 DEF resetReturns, dropLifecycle, goto, aux, time
  <2>18. CASE advancePhys(h)
    BY <2>18 DEF advancePhys, goto, aux, time
  <2>19. CASE advanceTick(h)
    BY <2>19 DEF advanceTick, step, Touch, Advance, locks
  <2>20. CASE advanceReturns(h)
    BY <2>20 DEF advanceReturns, opDone, ReleaseDrive, goto, aux, time
  <2>21. CASE writeCommits(h)
    BY <2>21 DEF writeCommits, Touch, opDone, goto, time
  <2>22. CASE linkApplies(h)
    BY <2>22 DEF linkApplies, Touch, goto, time
  <2>23. CASE interrogated(h)
    BY <2>23 DEF interrogated, opDone, goto, aux, time
  <2> QED BY <1>5, <2>1, <2>2, <2>3, <2>4, <2>5, <2>6, <2>7, <2>8, <2>9, <2>10, <2>11, <2>12,
      <2>13, <2>14, <2>15, <2>16, <2>17, <2>18, <2>19, <2>20, <2>21, <2>22, <2>23 DEF proceeds
<1>6. ASSUME NEW h \in Handlers, contends(h) PROVE LocksHeld'
  <2>1. CASE startTicks(h)
    BY <2>1 DEF startTicks, takeTicks, goto, aux, time
  <2>2. CASE resetCoord(h)
    BY <2>2 DEF resetCoord, goto, aux, time
  <2>3. CASE advanceTicks(h)
    BY <2>3 DEF advanceTicks, takeTicks, goto, aux, time
  <2>4. CASE advanceOp(h)
    BY <2>4 DEF advanceOp, Op, goto, aux, time
  <2>5. CASE interrogateOp(h)
    BY <2>5 DEF interrogateOp, Op, goto, aux, time
  <2> QED BY <1>6, <2>1, <2>2, <2>3, <2>4, <2>5 DEF contends
<1> QED BY <1>1, <1>2, <1>3, <1>4, <1>5, <1>6 DEF Next

\* What has been executed stays what the cursor says.
LEMMA ProgressStep == TypeOK /\ LocksHeld /\ Progress /\ [Next]_vars => Progress'
<1> SUFFICES ASSUME TypeOK, LocksHeld, Progress, [Next]_vars PROVE Progress'
  OBVIOUS
<1> USE ControlAssumption DEF TypeOK, LocksHeld, Progress, StepsExecutedOnce, Mutex, Drivers,
    StartupInstant, idle, dead, Places, RunPlaces, Starting, Resetting, InExclusive, Advancing,
        Holding, action
<1>1. CASE UNCHANGED vars
  BY <1>1 DEF vars, time, locks, aux, action
<1>2. CASE PacedRun
  <2>1. CASE pacerWakes
    BY <2>1 DEF pacerWakes, locks, aux, time
  <2>2. CASE pacerTryLock
    BY <2>2 DEF pacerTryLock, aux, time
  <2>3. CASE pacerOp
    BY <2>3 DEF pacerOp, Op, aux, time
  <2>4. CASE pacerTick
    BY <2>4 DEF pacerTick, step, Touch, Advance, opDone
  <2>5. CASE pacerUnlock
    BY <2>5 DEF pacerUnlock, aux, time
  <2> QED BY <1>2, <2>1, <2>2, <2>3, <2>4, <2>5 DEF PacedRun
<1>3. CASE runLoop
  <2>1. CASE runCheck
    BY <2>1, CheckEffect
  <2>2. CASE runOp
    BY <2>2 DEF runOp, Op, aux, time
  <2>3. CASE runPhys
    BY <2>3 DEF runPhys, aux, time
  <2>4. CASE runTick
    BY <2>4 DEF runTick, step, Touch, Advance, locks
  <2>5. CASE runAdvanced
    BY <2>5 DEF runAdvanced, opDone, aux, time
  <2>6. CASE runLock
    BY <2>6 DEF runLock, Op, aux, time
  <2>7. CASE runAct
    <3>1. scenario.cursor \in Nat
      BY StepsFacts
    <3>2. executed' = [i \in 1..scenario.cursor + 1 |-> i]
      BY <2>7, <3>1, OneMore DEF runAct
    <3>3. run' = [run EXCEPT !.at = "next"] /\ UNCHANGED scenario
      BY <2>7 DEF runAct
    <3>4. StepsExecutedOnce'
      BY <3>1, <3>2, <3>3
    <3>5. run.at = "act" /\ scenario.cursor < Len(Steps)
      BY <2>7 DEF runAct
    <3> QED BY <3>3, <3>4, <3>5
  <2>8. CASE runExpect
    <3>1. StepsExecutedOnce'
      BY <2>8, ExpectSteps
    <3> QED BY <2>8, <3>1, ExpectEffect
  <2>9. CASE runNext
    BY <2>9 DEF runNext, locks, aux, time
  <2>10. CASE runRelease
    BY <2>10 DEF runRelease, ReleaseDrive, time
  <2>11. CASE runDone
    BY <2>11 DEF runDone, locks, aux, time
  <2>12. CASE runPaceFails
    BY <2>12 DEF runPaceFails, opDone, aux, time
  <2>13. CASE runFails
    BY <2>13 DEF runFails, locks, aux, time
  <2> QED BY <1>3, <2>1, <2>2, <2>3, <2>4, <2>5, <2>6, <2>7, <2>8, <2>9, <2>10, <2>11,
             <2>12, <2>13 DEF runLoop
<1>4. ASSUME NEW h \in Handlers, arrives(h) PROVE Progress'
  <2>1. ASSUME NEW request \in Requests, takeLifecycle(h, request), request \in {"load", "start",
      "stop", "reset"} PROVE Progress'
    BY <2>1 DEF takeLifecycle, goto, aux, time
  <2>2. ASSUME NEW request \in Requests, takeCoord(h, request), request \in {"link",
      "read"} PROVE Progress'
    BY <2>2 DEF takeCoord, goto, aux, time
  <2>3. CASE advanceClaims(h)
    BY <2>3 DEF advanceClaims, claimDrive, aux, time
  <2>4. CASE writeOp(h)
    BY <2>4 DEF writeOp, Op, goto, aux, time
  <2> QED BY <1>4, <2>1, <2>2, <2>3, <2>4 DEF arrives
<1>5. ASSUME NEW h \in Handlers, proceeds(h) PROVE Progress'
  <2>1. CASE Load(h)
    <3>1. StepsExecutedOnce'
      BY <2>1, LoadSteps
    <3>2. run' = run /\ scenario'.start = scenario.start
          /\ (run.at # "dead" => scenario'.cursor = scenario.cursor)
      BY <2>1, LoadEffect
    <3> QED BY <3>1, <3>2
  <2>2. CASE startRefused(h)
    BY <2>2 DEF startRefused, dropLifecycle, goto, aux, time
  <2>3. CASE startClaims(h)
    BY <2>3 DEF startClaims, claimDrive, goto, aux, time
  <2>4. CASE startSetsClock(h)
    BY <2>4 DEF startSetsClock, Touch, goto, locks
  <2>5. CASE startRebases(h)
    BY <2>5 DEF startRebases, goto, locks, aux
  <2>6. CASE startLaunches(h)
    BY <2>6 DEF startLaunches, dropLifecycle, goto, time
  <2>7. CASE stopLocked(h, "stop", "stopWait")
    BY <2>7 DEF stopLocked, goto, locks, aux, time
  <2>8. CASE stopReturns(h)
    BY <2>8 DEF stopReturns, dropLifecycle, goto, aux, time
  <2>9. CASE stopLocked(h, "reset", "resetWait")
    BY <2>9 DEF stopLocked, goto, locks, aux, time
  <2>10. CASE resetRewinds(h)
    BY <2>10 DEF resetRewinds, goto, locks, time
  <2>11. CASE resetWaits(h)
    BY <2>11 DEF resetWaits, goto, aux, time
  <2>12. CASE resetExclusive(h)
    BY <2>12 DEF resetExclusive, goto, time
  <2>13. CASE resetClock(h)
    BY <2>13 DEF resetClock, goto, locks
  <2>14. CASE resetPhysics(h)
    BY <2>14 DEF resetPhysics, goto, locks
  <2>15. CASE resetStore(h)
    BY <2>15 DEF resetStore, goto, locks, time
  <2>16. CASE resetLink(h)
    BY <2>16 DEF resetLink, goto, time
  <2>17. CASE resetReturns(h)
    BY <2>17 DEF resetReturns, dropLifecycle, goto, aux, time
  <2>18. CASE advancePhys(h)
    BY <2>18 DEF advancePhys, goto, aux, time
  <2>19. CASE advanceTick(h)
    BY <2>19 DEF advanceTick, step, Touch, Advance, locks
  <2>20. CASE advanceReturns(h)
    BY <2>20 DEF advanceReturns, opDone, ReleaseDrive, goto, aux, time
  <2>21. CASE writeCommits(h)
    BY <2>21 DEF writeCommits, Touch, opDone, goto, time
  <2>22. CASE linkApplies(h)
    BY <2>22 DEF linkApplies, Touch, goto, time
  <2>23. CASE interrogated(h)
    BY <2>23 DEF interrogated, opDone, goto, aux, time
  <2> QED BY <1>5, <2>1, <2>2, <2>3, <2>4, <2>5, <2>6, <2>7, <2>8, <2>9, <2>10, <2>11, <2>12,
      <2>13, <2>14, <2>15, <2>16, <2>17, <2>18, <2>19, <2>20, <2>21, <2>22, <2>23 DEF proceeds
<1>6. ASSUME NEW h \in Handlers, contends(h) PROVE Progress'
  <2>1. CASE startTicks(h)
    BY <2>1 DEF startTicks, takeTicks, goto, aux, time
  <2>2. CASE resetCoord(h)
    BY <2>2 DEF resetCoord, goto, aux, time
  <2>3. CASE advanceTicks(h)
    BY <2>3 DEF advanceTicks, takeTicks, goto, aux, time
  <2>4. CASE advanceOp(h)
    BY <2>4 DEF advanceOp, Op, goto, aux, time
  <2>5. CASE interrogateOp(h)
    BY <2>5 DEF interrogateOp, Op, goto, aux, time
  <2> QED BY <1>6, <2>1, <2>2, <2>3, <2>4, <2>5 DEF contends
<1> QED BY <1>1, <1>2, <1>3, <1>4, <1>5, <1>6 DEF Next

\* Nobody moves the clock that the run, a start or a reset relies on.
LEMMA ClockStep == TypeOK /\ LocksHeld /\ Progress /\ ClockInv /\ [Next]_vars => ClockInv'
<1> SUFFICES ASSUME TypeOK, LocksHeld, Progress, ClockInv, [Next]_vars PROVE ClockInv'
  OBVIOUS
<1> USE ControlAssumption DEF TypeOK, LocksHeld, Progress, ClockInv, DtBaselineIsClock,
    StepsNotEarly, Mutex, Drivers, Components, StartupInstant, idle, dead, Places, RunPlaces,
        Starting, Resetting, InExclusive, Advancing, Holding, action
<1>1. CASE UNCHANGED vars
  BY <1>1 DEF vars, time, locks, aux, action
<1>2. CASE PacedRun
  <2>1. CASE pacerWakes
    BY <2>1 DEF pacerWakes, locks, aux, time
  <2>2. CASE pacerTryLock
    BY <2>2 DEF pacerTryLock, aux, time
  <2>3. CASE pacerOp
    BY <2>3 DEF pacerOp, Op, aux, time
  <2>4. CASE pacerTick
    BY <2>4 DEF pacerTick, step, Touch, Advance, opDone
  <2>5. CASE pacerUnlock
    BY <2>5 DEF pacerUnlock, aux, time
  <2> QED BY <1>2, <2>1, <2>2, <2>3, <2>4, <2>5 DEF PacedRun
<1>3. CASE runLoop
  <2>1. CASE runCheck
    <3>1. /\ clk' = clk /\ last' = last /\ handler' = handler /\ touched' = touched
          /\ exclusive' = exclusive
      BY <2>1 DEF runCheck, time, aux, locks
    <3>3. StepsNotEarly'
      BY <2>1, CheckClock
    <3>4. DtBaselineIsClock'
      BY <3>1
    <3>5. run'.at = "op" => clk + run'.left = Due
      BY <2>1, CheckClock
    <3>6. run'.at \notin {"phys", "tick"}
      BY <2>1, CheckEffect
    <3> QED BY <2>1, <3>1, <3>3, <3>4, <3>5, <3>6, CheckEffect DEF Due
  <2>2. CASE runOp
    BY <2>2 DEF runOp, Op, aux, time
  <2>3. CASE runPhys
    BY <2>3 DEF runPhys, aux, time
  <2>4. CASE runTick
    <3>1. Due \in Nat /\ Due < Later /\ clk + run.left = Due
      BY <2>4, DueBound DEF runTick, Due
    <3>2. clk' = clk + 1 /\ last' = clk + 1
      BY <2>4, <3>1 DEF runTick, step, Advance
    <3>3. run'.left = run.left - 1 /\ run'.at = "tick"
      BY <2>4 DEF runTick
    <3>4. handler' = handler /\ exclusive' = exclusive /\ scenario' = scenario
      BY <2>4 DEF runTick, locks
    <3>5. \A h \in Handlers : handler[h].at \notin {"rebase", "resetPhysics", "resetStore",
        "resetLink"}
      BY <2>4, RunTicksAlone DEF runTick
    <3>6. DtBaselineIsClock' /\ StepsNotEarly'
      BY <3>2, <3>3, <3>4
    <3>7. clk' + run'.left = Due'
      BY <3>1, <3>2, <3>3, <3>4 DEF Due
    <3> QED BY <3>3, <3>4, <3>5, <3>6, <3>7 DEF Due
  <2>5. CASE runAdvanced
    BY <2>5 DEF runAdvanced, opDone, aux, time
  <2>6. CASE runLock
    BY <2>6 DEF runLock, Op, aux, time
  <2>7. CASE runAct
    BY <2>7 DEF runAct, opDone, Touch, time
  <2>8. CASE runExpect
    BY SMTT(60), <2>8 DEF runExpect, locks, time
  <2>9. CASE runNext
    BY <2>9 DEF runNext, locks, aux, time
  <2>10. CASE runRelease
    BY <2>10 DEF runRelease, ReleaseDrive, time
  <2>11. CASE runDone
    BY <2>11 DEF runDone, locks, aux, time
  <2>12. CASE runPaceFails
    BY <2>12 DEF runPaceFails, opDone, aux, time
  <2>13. CASE runFails
    BY <2>13 DEF runFails, locks, aux, time
  <2> QED BY <1>3, <2>1, <2>2, <2>3, <2>4, <2>5, <2>6, <2>7, <2>8, <2>9, <2>10, <2>11,
             <2>12, <2>13 DEF runLoop
<1>4. ASSUME NEW h \in Handlers, arrives(h) PROVE ClockInv'
  <2>1. ASSUME NEW request \in Requests, takeLifecycle(h, request), request \in {"load", "start",
      "stop", "reset"} PROVE ClockInv'
    BY <2>1 DEF takeLifecycle, goto, aux, time
  <2>2. ASSUME NEW request \in Requests, takeCoord(h, request), request \in {"link",
      "read"} PROVE ClockInv'
    BY SMTT(60), <2>2 DEF takeCoord, goto, aux, time
  <2>3. CASE advanceClaims(h)
    BY <2>3 DEF advanceClaims, claimDrive, aux, time
  <2>4. CASE writeOp(h)
    BY <2>4 DEF writeOp, Op, goto, aux, time
  <2> QED BY <1>4, <2>1, <2>2, <2>3, <2>4 DEF arrives
<1>5. ASSUME NEW h \in Handlers, proceeds(h) PROVE ClockInv'
  <2>1. CASE Load(h)
    BY SMTT(60), <2>1 DEF Load, dropLifecycle, goto, time
  <2>2. CASE startRefused(h)
    BY <2>2 DEF startRefused, dropLifecycle, goto, aux, time
  <2>3. CASE startClaims(h)
    BY <2>3 DEF startClaims, claimDrive, goto, aux, time
  <2>4. CASE startSetsClock(h)
    BY <2>4 DEF startSetsClock, Touch, goto, locks
  <2>5. CASE startRebases(h)
    BY <2>5 DEF startRebases, goto, locks, aux
  <2>6. CASE startLaunches(h)
    BY <2>6 DEF startLaunches, dropLifecycle, goto, time
  <2>7. CASE stopLocked(h, "stop", "stopWait")
    BY <2>7 DEF stopLocked, goto, locks, aux, time
  <2>8. CASE stopReturns(h)
    BY <2>8 DEF stopReturns, dropLifecycle, goto, aux, time
  <2>9. CASE stopLocked(h, "reset", "resetWait")
    BY <2>9 DEF stopLocked, goto, locks, aux, time
  <2>10. CASE resetRewinds(h)
    BY <2>10 DEF resetRewinds, goto, locks, time
  <2>11. CASE resetWaits(h)
    BY <2>11 DEF resetWaits, goto, aux, time
  <2>12. CASE resetExclusive(h)
    BY <2>12 DEF resetExclusive, goto, time
  <2>13. CASE resetClock(h)
    BY <2>13 DEF resetClock, goto, locks
  <2>14. CASE resetPhysics(h)
    BY <2>14 DEF resetPhysics, goto, locks
  <2>15. CASE resetStore(h)
    BY <2>15 DEF resetStore, goto, locks, time
  <2>16. CASE resetLink(h)
    BY <2>16 DEF resetLink, goto, time
  <2>17. CASE resetReturns(h)
    BY <2>17 DEF resetReturns, dropLifecycle, goto, aux, time
  <2>18. CASE advancePhys(h)
    BY <2>18 DEF advancePhys, goto, aux, time
  <2>19. CASE advanceTick(h)
    BY SMTT(60), <2>19 DEF advanceTick, step, Touch, Advance, locks
  <2>20. CASE advanceReturns(h)
    BY <2>20 DEF advanceReturns, opDone, ReleaseDrive, goto, aux, time
  <2>21. CASE writeCommits(h)
    BY <2>21 DEF writeCommits, Touch, opDone, goto, time
  <2>22. CASE linkApplies(h)
    BY <2>22 DEF linkApplies, Touch, goto, time
  <2>23. CASE interrogated(h)
    BY <2>23 DEF interrogated, opDone, goto, aux, time
  <2> QED BY <1>5, <2>1, <2>2, <2>3, <2>4, <2>5, <2>6, <2>7, <2>8, <2>9, <2>10, <2>11, <2>12,
      <2>13, <2>14, <2>15, <2>16, <2>17, <2>18, <2>19, <2>20, <2>21, <2>22, <2>23 DEF proceeds
<1>6. ASSUME NEW h \in Handlers, contends(h) PROVE ClockInv'
  <2>1. CASE startTicks(h)
    BY <2>1 DEF startTicks, takeTicks, goto, aux, time
  <2>2. CASE resetCoord(h)
    BY <2>2 DEF resetCoord, goto, aux, time
  <2>3. CASE advanceTicks(h)
    BY <2>3 DEF advanceTicks, takeTicks, goto, aux, time
  <2>4. CASE advanceOp(h)
    BY <2>4 DEF advanceOp, Op, goto, aux, time
  <2>5. CASE interrogateOp(h)
    BY <2>5 DEF interrogateOp, Op, goto, aux, time
  <2> QED BY <1>6, <2>1, <2>2, <2>3, <2>4, <2>5 DEF contends
<1> QED BY <1>1, <1>2, <1>3, <1>4, <1>5, <1>6 DEF Next

-----------------------------------------------------------------------------
LEMMA ControlInit == Init => ControlIInv
<1> SUFFICES ASSUME Init PROVE ControlIInv
  OBVIOUS
<1> USE ControlAssumption DEF Init, idle, dead, StartupInstant
<1>1. scenario \in ScenarioType
  BY StepsFacts DEF ScenarioType
<1>2. handler \in HandlerType
  BY DEF HandlerType, Places
<1>3. OtherTypes
  <2>1. << >> \in Seq(DOMAIN Steps)
    OBVIOUS
  <2> QED BY <2>1 DEF OtherTypes, Mutex, RunPlaces, Components
<1>4. TypeOK
  BY <1>1, <1>2, <1>3 DEF TypeOK, OtherTypes, ScenarioType, HandlerType
<1>5. LocksHeld
  BY DEF LocksHeld, Holding, Starting, Resetting, InExclusive, Advancing
<1>6. Progress
  <2>1. << >> = [i \in 1..0 |-> i]
    OBVIOUS
  <2> QED BY <2>1 DEF Progress, StepsExecutedOnce
<1>7. ClockInv
  BY DEF ClockInv, DtBaselineIsClock, StepsNotEarly
<1> QED BY <1>4, <1>5, <1>6, <1>7 DEF ControlIInv

\* The inductive invariant always holds.
THEOREM ControlCorrect == Spec => []ControlIInv
<1>1. ControlIInv /\ [Next]_vars => ControlIInv'
  BY TypeStep, LocksStep, ProgressStep, ClockStep DEF ControlIInv
<1> QED BY <1>1, ControlInit, PTL DEF Spec

\* Every variable keeps its type (the Go fields' shapes).
THEOREM ControlTypeCorrect == Spec => []TypeOK
<1>1. ControlIInv => TypeOK
  BY DEF ControlIInv
<1> QED BY <1>1, ControlCorrect, PTL

\* Only a living run drives the clock (TryAcquireDrive, stopLocked).
THEOREM RunAlwaysOwnsDrive == Spec => []RunOwnsDrive
<1>1. ControlIInv => RunOwnsDrive
  BY DEF ControlIInv, LocksHeld, RunOwnsDrive
<1> QED BY <1>1, ControlCorrect, PTL

\* Each step of a scenario is executed once and in order (run, advanceTo).
THEOREM StepsAlwaysExecutedOnce == Spec => []StepsExecutedOnce
<1>1. ControlIInv => StepsExecutedOnce
  BY DEF ControlIInv, Progress
<1> QED BY <1>1, ControlCorrect, PTL

\* No step is executed before it is due (advanceTo).
THEOREM StepsNeverEarly == Spec => []StepsNotEarly
<1>1. ControlIInv => StepsNotEarly
  BY DEF ControlIInv, ClockInv
<1> QED BY <1>1, ControlCorrect, PTL

\* The dt baseline is the clock whenever a tick may run (Start, Reset).
THEOREM BaselineAlwaysClock == Spec => []DtBaselineIsClock
<1>1. ControlIInv => DtBaselineIsClock
  BY DEF ControlIInv, ClockInv
<1> QED BY <1>1, ControlCorrect, PTL

\* A reset is atomic to every other request, run and tick (resetLocked).
THEOREM ResetAlwaysAtomic == Spec => []ResetIsAtomic
<1>1. ControlIInv => ResetIsAtomic
  BY DEF ControlIInv, LocksHeld, Holding, ClockInv, ResetIsAtomic, Resetting, InExclusive
<1> QED BY <1>1, ControlCorrect, PTL
=============================================================================

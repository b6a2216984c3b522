---------------------------- MODULE ControlPlane ----------------------------
(***************************************************************************)
(* Who may drive the simulator's one clock, and when: the scenario runner  *)
(* (simulator/internal/scenario/runner.go), the physics runner's drive     *)
(* lock (simulator/internal/physics/runner.go), live pacing, and the       *)
(* requests of the control API that start, stop, load, advance, write,     *)
(* interrogate and reset (simulator/internal/controlapi/handlers.go), with *)
(* the locks they take and the order they take them in.                    *)
(*                                                                         *)
(* Locks: `lifecycle` (scenario lifecycleMu), `owner` and `tickMu` (the    *)
(* drive lock), `coord` (linkfault.Coordinator), the gate (appgate: shared *)
(* holders, an exclusive holder, a waiting exclusive), `physMu`            *)
(* (physics.Runner.mu).  commands.writeMu and the store's lock are always  *)
(* innermost and held over memory-only sections, which are one step here.  *)
(* Time is counted in physics steps; Later stands for every instant past   *)
(* the last one a scenario can name.                                       *)
(***************************************************************************)
EXTENDS Naturals, FiniteSets, Sequences

CONSTANTS
    Handlers,       \* request handlers in flight
    Requests,       \* the kinds of request they may serve
    Steps,          \* the scenario: a sequence of [at, action]
    ClockStart,     \* its clock.start
    Later,          \* bound on the clock
    MaxAdvance,     \* bound on one POST /clock/advance, in physics steps
    None

StartupInstant == 0

ASSUME ControlAssumption ==
    /\ Steps \in Seq([at : Nat, action : {"write", "link", "expect"}])
    /\ ClockStart \in Nat /\ Later \in Nat /\ MaxAdvance \in Nat
    /\ ClockStart < Later /\ \A i \in DOMAIN Steps : ClockStart + Steps[i].at < Later
    /\ Requests \subseteq {"load", "start", "stop", "reset", "advance", "write", "link", "read"}
    /\ None \notin Handlers \cup {"pacer", "run"}
    /\ {"pacer", "run"} \cap Handlers = {}

VARIABLES
    clk,            \* the shared clock.Fake
    last,           \* physics.Runner.last, the dt baseline
    lifecycle, owner, tickMu, coord, physMu,   \* mutexes: the holder or None
    pauseRequested, \* physics.Runner.pauseRequested
    ops,            \* the gate's shared holders
    exclusive,      \* the gate's exclusive holder
    waiting,        \* who waits for the gate's exclusive side
    scenario,       \* the scenario runner's fields
    run,            \* its run() goroutine: [at, left]
    pacer,          \* where PacedRun is
    handler,        \* handler -> [at, left]
    touched,        \* auxiliary: what a reset in its exclusive section has yet to put back
    executed        \* auxiliary: the steps executed since load or rewind

locks == <<lifecycle, owner, tickMu, coord, physMu, pauseRequested, ops, exclusive, waiting>>
time  == <<clk, last>>
aux   == <<touched, executed>>
vars  == <<time, locks, scenario, run, pacer, handler, aux>>

Drivers == {"pacer", "run"} \cup Handlers

idle == [at |-> "idle", left |-> 0]
dead == [at |-> "dead", left |-> 0]

Init ==
    /\ clk = StartupInstant /\ last = StartupInstant
    /\ lifecycle = None /\ owner = None /\ tickMu = None /\ coord = None /\ physMu = None
    /\ pauseRequested = 0
    /\ ops = {} /\ exclusive = None /\ waiting = None
    /\ scenario = [loaded |-> FALSE, running |-> FALSE, stop |-> FALSE, haveStart |-> FALSE,
                   start |-> 0, cursor |-> 0]
    /\ run = dead
    /\ pacer = "idle"
    /\ handler = [h \in Handlers |-> idle]
    /\ touched = {}
    /\ executed = << >>

-----------------------------------------------------------------------------
\* Mutant: an operation that does not wait for an exclusive section.
OpAlways(p) == ops' = ops \cup {p}

\* Gate.Op: shared, behind any waiting or holding Exclusive.
Op(p) ==
    /\ exclusive = None /\ waiting = None
    /\ ops' = ops \cup {p}

opDone(p) == ops' = ops \ {p}

Components == {"clock", "engine", "store", "processor", "link"}

\* A change of some components matters to a reset that is putting them back.
Touch(changed) == touched' = IF exclusive = None THEN touched ELSE touched \cup changed

Advance(t) == IF t < Later THEN t + 1 ELSE t

\* One physics step: the clock, the baseline and the store move together.
step ==
    /\ clk' = Advance(clk)
    /\ last' = Advance(clk)
    /\ Touch({"engine", "store", "clock"})

-----------------------------------------------------------------------------
\* PacedRun: on its ticker it yields to a driver that asked for a pause ...
pacerWakes ==
    /\ pacer = "idle"
    /\ pauseRequested = 0
    /\ pacer' = "try"
    /\ UNCHANGED <<time, locks, scenario, run, handler, aux>>

\* ... and to one that already owns the tick lock,
pacerTryLock ==
    /\ pacer = "try"
    /\ IF tickMu = None
       THEN tickMu' = "pacer" /\ pacer' = "op"
       ELSE pacer' = "idle" /\ UNCHANGED tickMu
    /\ UNCHANGED <<time, lifecycle, owner, coord, physMu, pauseRequested, ops, exclusive,
                   waiting, scenario, run, handler, aux>>

\* and otherwise does one TickOnce: the gate, then physics.Runner.mu.
pacerOp ==
    /\ pacer = "op"
    /\ Op("pacer")
    /\ pacer' = "tick"
    /\ UNCHANGED <<time, lifecycle, owner, tickMu, coord, physMu, pauseRequested, exclusive,
                   waiting, scenario, run, handler, aux>>

pacerTick ==
    /\ pacer = "tick"
    /\ physMu = None
    /\ step
    /\ opDone("pacer")
    /\ pacer' = "unlock"
    /\ UNCHANGED <<lifecycle, owner, tickMu, coord, physMu, pauseRequested, exclusive, waiting,
                   scenario, run, handler, executed>>

pacerUnlock ==
    /\ pacer = "unlock"
    /\ tickMu' = None
    /\ pacer' = "idle"
    /\ UNCHANGED <<time, lifecycle, owner, coord, physMu, pauseRequested, ops, exclusive,
                   waiting, scenario, run, handler, aux>>

PacedRun == pacerWakes \/ pacerTryLock \/ pacerOp \/ pacerTick \/ pacerUnlock

-----------------------------------------------------------------------------
\* Mutant: the drive is claimed whoever owns it.
claimDriveAnyway(p) ==
    /\ owner' = p
    /\ pauseRequested' = pauseRequested + 1

\* Mutant: the pause request is not withdrawn.
ReleaseDrivePaused ==
    /\ tickMu' = None
    /\ owner' = None
    /\ UNCHANGED pauseRequested

\* TryAcquireDrive's two halves, and ReleaseDrive.
claimDrive(p) ==
    /\ owner = None
    /\ owner' = p
    /\ pauseRequested' = pauseRequested + 1

takeTicks(p) ==
    /\ tickMu = None
    /\ tickMu' = p

ReleaseDrive ==
    /\ tickMu' = None
    /\ pauseRequested' = pauseRequested - 1
    /\ owner' = None

-----------------------------------------------------------------------------
\* run(): look at the cursor; advanceTo the next step's deadline if it is ahead.
runCheck ==
    /\ run.at = "check"
    /\ \/ /\ ~scenario.running
          /\ run' = [run EXCEPT !.at = "exit"]
          /\ UNCHANGED scenario
       \/ /\ scenario.running /\ scenario.cursor = Len(Steps)
          /\ scenario' = [scenario EXCEPT !.running = FALSE]
          /\ run' = [run EXCEPT !.at = "exit"]
       \/ /\ scenario.running /\ scenario.cursor < Len(Steps)
          /\ LET deadline == scenario.start + Steps[scenario.cursor + 1].at IN
               run' = IF deadline > clk THEN [at |-> "op", left |-> deadline - clk]
                                        ELSE [run EXCEPT !.at = "exec"]
          /\ UNCHANGED scenario
    /\ UNCHANGED <<time, locks, pacer, handler, aux>>

\* PacedFastForwardLocked holds the gate and physics.Runner.mu for the whole
\* advance ...
runOp ==
    /\ run.at = "op"
    /\ Op("run")
    /\ run' = [run EXCEPT !.at = "phys"]
    /\ UNCHANGED <<time, lifecycle, owner, tickMu, coord, physMu, pauseRequested, exclusive,
                   waiting, scenario, pacer, handler, aux>>

runPhys ==
    /\ run.at = "phys"
    /\ physMu = None
    /\ physMu' = "run"
    /\ run' = [run EXCEPT !.at = "tick"]
    /\ UNCHANGED <<time, lifecycle, owner, tickMu, coord, pauseRequested, ops, exclusive,
                   waiting, scenario, pacer, handler, aux>>

\* ... one step at a time, until the deadline or until stop is closed.
runTick ==
    /\ run.at = "tick"
    /\ run.left > 0
    /\ ~scenario.stop
    /\ step
    /\ run' = [run EXCEPT !.left = @ - 1]
    /\ UNCHANGED <<locks, scenario, pacer, handler, executed>>

\* Mutant: an advance that was stopped counts as completed.
runAdvancedAnyway ==
    /\ run.at = "tick"
    /\ run.left = 0 \/ scenario.stop
    /\ physMu' = None
    /\ opDone("run")
    /\ run' = [at |-> "exec", left |-> 0]
    /\ UNCHANGED <<time, lifecycle, owner, tickMu, coord, pauseRequested, exclusive, waiting,
                   scenario, pacer, handler, aux>>

runAdvanced ==
    /\ run.at = "tick"
    /\ run.left = 0 \/ scenario.stop
    /\ physMu' = None
    /\ opDone("run")
    /\ run' = [at |-> IF run.left = 0 THEN "exec" ELSE "exit", left |-> 0]
    /\ UNCHANGED <<time, lifecycle, owner, tickMu, coord, pauseRequested, exclusive, waiting,
                   scenario, pacer, handler, aux>>

\* A pace fails when the clock has drifted before the run was resumed and leaves a
\* remainder that Load has not looked at (Plant's PacingIsPromised).  Here, where
\* time is counted in whole steps, any pace may.
runPaceFails ==
    /\ run.at = "tick"
    /\ run.left > 0
    /\ physMu' = None
    /\ opDone("run")
    /\ run' = [at |-> "failed", left |-> 0]
    /\ UNCHANGED <<time, lifecycle, owner, tickMu, coord, pauseRequested, exclusive, waiting,
                   scenario, pacer, handler, aux>>

\* advanceTo ends the run with the error.
runFails ==
    /\ run.at = "failed"
    /\ scenario' = [scenario EXCEPT !.running = FALSE]
    /\ run' = [run EXCEPT !.at = "exit"]
    /\ UNCHANGED <<time, locks, pacer, handler, aux>>

action == Steps[scenario.cursor + 1].action

\* executeStep takes the lock its action needs ...
runLock ==
    /\ run.at = "exec"
    /\ \/ action = "write" /\ Op("run") /\ UNCHANGED coord
       \/ action = "link" /\ coord = None /\ coord' = "run" /\ UNCHANGED ops
    /\ run' = [run EXCEPT !.at = "act"]
    /\ UNCHANGED <<time, lifecycle, owner, tickMu, physMu, pauseRequested, exclusive, waiting,
                   scenario, pacer, handler, aux>>

\* ... applies it, and lets go of the lock.
runAct ==
    /\ run.at = "act"
    /\ IF action = "write"
       THEN opDone("run") /\ Touch({"store", "processor"}) /\ UNCHANGED coord
       ELSE coord' = None /\ Touch({"link"}) /\ UNCHANGED ops
    /\ executed' = Append(executed, scenario.cursor + 1)
    /\ run' = [run EXCEPT !.at = "next"]
    /\ UNCHANGED <<time, lifecycle, owner, tickMu, physMu, pauseRequested, exclusive, waiting,
                   scenario, pacer, handler>>

\* checkExpect only reads; a failed expectation ends the run at this step.
runExpect ==
    /\ run.at = "exec" /\ action = "expect"
    /\ \/ /\ executed' = Append(executed, scenario.cursor + 1)
          /\ run' = [run EXCEPT !.at = "next"]
          /\ UNCHANGED scenario
       \/ /\ scenario' = [scenario EXCEPT !.running = FALSE]
          /\ run' = [run EXCEPT !.at = "exit"]
          /\ UNCHANGED executed
    /\ UNCHANGED <<time, locks, pacer, handler, touched>>

\* Mutant: the cursor stays behind when a stop came during the step.
runNextUnlessStopped ==
    /\ run.at = "next"
    /\ scenario' = [scenario EXCEPT !.cursor = IF scenario.running THEN @ + 1 ELSE @]
    /\ run' = [run EXCEPT !.at = "check"]
    /\ UNCHANGED <<time, locks, pacer, handler, aux>>

runNext ==
    /\ run.at = "next"
    /\ scenario' = [scenario EXCEPT !.cursor = @ + 1]
    /\ run' = [run EXCEPT !.at = "check"]
    /\ UNCHANGED <<time, locks, pacer, handler, aux>>

\* The deferred calls: first the drive lock, then close(done).
runRelease ==
    /\ run.at = "exit"
    /\ ReleaseDrive
    /\ run' = [run EXCEPT !.at = "done"]
    /\ UNCHANGED <<time, lifecycle, coord, physMu, ops, exclusive, waiting, scenario, pacer,
                   handler, touched, executed>>

\* Mutant: close(done) is missed.
runDoneForgotten == run.at = "done" /\ UNCHANGED vars

runDone ==
    /\ run.at = "done"
    /\ run' = dead
    /\ UNCHANGED <<time, locks, scenario, pacer, handler, aux>>

runLoop ==
    \/ runCheck \/ runOp \/ runPhys \/ runTick \/ runAdvanced
    \/ runPaceFails \/ runFails \/ runLock \/ runAct \/ runExpect \/ runNext \/ runRelease \/ runDone

-----------------------------------------------------------------------------
goto(h, at) == handler' = [handler EXCEPT ![h].at = at]

\* Every request but an advance and a write begins by taking a lock.
takeLifecycle(h, next) ==
    /\ handler[h].at = "idle"
    /\ lifecycle = None
    /\ lifecycle' = h
    /\ goto(h, next)
    /\ UNCHANGED <<time, owner, tickMu, coord, physMu, pauseRequested, ops, exclusive, waiting,
                   scenario, run, pacer, aux>>

dropLifecycle ==
    /\ lifecycle' = None
    /\ UNCHANGED <<coord, physMu, ops, exclusive, waiting>>

\* POST /scenario/load, whole: refused while running or while the last run()
\* has not confirmed its exit.
Load(h) ==
    /\ handler[h].at = "load"
    /\ goto(h, "idle")
    /\ dropLifecycle
    /\ IF scenario.running \/ run # dead
       THEN UNCHANGED <<scenario, executed>>
       ELSE /\ scenario' = [scenario EXCEPT !.loaded = TRUE, !.cursor = 0, !.haveStart = FALSE]
            /\ executed' = << >>
    /\ UNCHANGED <<time, owner, tickMu, pauseRequested, run, pacer, touched>>

\* POST /scenario/start: 409 without a scenario, while one runs, or while
\* another driver owns the clock ...
startRefused(h) ==
    /\ handler[h].at = "start"
    /\ ~scenario.loaded \/ scenario.running \/ run # dead \/ owner # None
    /\ goto(h, "idle")
    /\ dropLifecycle
    /\ UNCHANGED <<time, owner, tickMu, pauseRequested, scenario, run, pacer, aux>>

\* ... else it claims the drive lock for the whole run,
startClaims(h) ==
    /\ handler[h].at = "start"
    /\ scenario.loaded /\ ~scenario.running /\ run = dead
    /\ claimDrive("run")
    /\ goto(h, "startTicks")
    /\ UNCHANGED <<time, lifecycle, tickMu, coord, physMu, ops, exclusive, waiting, scenario,
                   run, pacer, aux>>

startTicks(h) ==
    /\ handler[h].at = "startTicks"
    /\ takeTicks("run")
    /\ goto(h, IF scenario.haveStart THEN "launch" ELSE "setClock")
    /\ UNCHANGED <<time, lifecycle, owner, coord, physMu, pauseRequested, ops, exclusive,
                   waiting, scenario, run, pacer, aux>>

\* sets the clock and the physics baseline on the first start only,
startSetsClock(h) ==
    /\ handler[h].at = "setClock"
    /\ clk' = ClockStart
    /\ scenario' = [scenario EXCEPT !.start = ClockStart, !.haveStart = TRUE]
    /\ Touch({"clock"})
    /\ goto(h, "rebase")
    /\ UNCHANGED <<last, locks, run, pacer, executed>>

startRebases(h) ==
    /\ handler[h].at = "rebase"
    /\ physMu = None
    /\ last' = ClockStart
    /\ goto(h, "launch")
    /\ UNCHANGED <<clk, locks, scenario, run, pacer, aux>>

\* and launches run().
startLaunches(h) ==
    /\ handler[h].at = "launch"
    /\ scenario' = [scenario EXCEPT !.running = TRUE, !.stop = FALSE]
    /\ run' = [at |-> "check", left |-> 0]
    /\ goto(h, "idle")
    /\ dropLifecycle
    /\ UNCHANGED <<time, owner, tickMu, pauseRequested, pacer, touched, executed>>

\* stopLocked: ask, and wait for run() to be gone.
stopLocked(h, from, to) ==
    /\ handler[h].at = from
    /\ scenario' = [scenario EXCEPT !.running = FALSE, !.stop = TRUE]
    /\ goto(h, to)
    /\ UNCHANGED <<time, locks, run, pacer, aux>>

stopReturns(h) ==
    /\ handler[h].at = "stopWait"
    /\ run = dead
    /\ goto(h, "idle")
    /\ dropLifecycle
    /\ UNCHANGED <<time, owner, tickMu, pauseRequested, scenario, run, pacer, aux>>

-----------------------------------------------------------------------------
\* POST /reset keeps the lifecycle lock LockForReset took: rewind, then
\* linkCoord, then the gate's exclusive side.
resetRewinds(h) ==
    /\ handler[h].at = "resetWait"
    /\ run = dead
    /\ scenario' = [scenario EXCEPT !.cursor = 0, !.haveStart = FALSE]
    /\ executed' = << >>
    /\ goto(h, "resetCoord")
    /\ UNCHANGED <<time, locks, run, pacer, touched>>

resetCoord(h) ==
    /\ handler[h].at = "resetCoord"
    /\ coord = None
    /\ coord' = h
    /\ goto(h, "resetGate")
    /\ UNCHANGED <<time, lifecycle, owner, tickMu, physMu, pauseRequested, ops, exclusive,
                   waiting, scenario, run, pacer, aux>>

resetWaits(h) ==
    /\ handler[h].at = "resetGate"
    /\ waiting = None
    /\ waiting' = h
    /\ goto(h, "resetExclusive")
    /\ UNCHANGED <<time, lifecycle, owner, tickMu, coord, physMu, pauseRequested, ops,
                   exclusive, scenario, run, pacer, aux>>

resetExclusive(h) ==
    /\ handler[h].at = "resetExclusive"
    /\ ops = {} /\ exclusive = None
    /\ exclusive' = h /\ waiting' = None
    /\ touched' = Components
    /\ goto(h, "resetClock")
    /\ UNCHANGED <<time, lifecycle, owner, tickMu, coord, physMu, pauseRequested, ops, scenario,
                   run, pacer, executed>>

\* resetLocked's sequence, one component after the other.
resetClock(h) ==
    /\ handler[h].at = "resetClock"
    /\ clk' = StartupInstant
    /\ touched' = touched \ {"clock"}
    /\ goto(h, "resetPhysics")
    /\ UNCHANGED <<last, locks, scenario, run, pacer, executed>>

\* Mutant: the engine is replaced, but its baseline is not.
resetPhysicsBaselineKept(h) ==
    /\ handler[h].at = "resetPhysics"
    /\ physMu = None
    /\ touched' = touched \ {"engine"}
    /\ goto(h, "resetStore")
    /\ UNCHANGED <<time, locks, scenario, run, pacer, executed>>

resetPhysics(h) ==
    /\ handler[h].at = "resetPhysics"
    /\ physMu = None
    /\ last' = StartupInstant
    /\ touched' = touched \ {"engine"}
    /\ goto(h, "resetStore")
    /\ UNCHANGED <<clk, locks, scenario, run, pacer, executed>>

resetStore(h) ==
    /\ handler[h].at = "resetStore"
    /\ touched' = touched \ {"processor", "store"}
    /\ goto(h, "resetLink")
    /\ UNCHANGED <<time, locks, scenario, run, pacer, executed>>

resetLink(h) ==
    /\ handler[h].at = "resetLink"
    /\ touched' = touched \ {"link"}
    /\ exclusive' = None /\ coord' = None
    /\ goto(h, "resetFence")
    /\ UNCHANGED <<time, lifecycle, owner, tickMu, physMu, pauseRequested, ops, waiting,
                   scenario, run, pacer, executed>>

\* FenceHeartbeat (module HeartbeatFence), and only then the answer.
resetReturns(h) ==
    /\ handler[h].at = "resetFence"
    /\ goto(h, "idle")
    /\ dropLifecycle
    /\ UNCHANGED <<time, owner, tickMu, pauseRequested, scenario, run, pacer, aux>>

-----------------------------------------------------------------------------
\* POST /clock/advance: refused while the clock is owned, else FastForward.
advanceClaims(h) ==
    /\ handler[h].at = "idle"
    /\ claimDrive(h)
    /\ \E n \in 0..MaxAdvance :
         handler' = [handler EXCEPT ![h] = [at |-> "advTicks", left |-> n]]
    /\ UNCHANGED <<time, lifecycle, tickMu, coord, physMu, ops, exclusive, waiting, scenario,
                   run, pacer, aux>>

advanceTicks(h) ==
    /\ handler[h].at = "advTicks"
    /\ takeTicks(h)
    /\ goto(h, "advOp")
    /\ UNCHANGED <<time, lifecycle, owner, coord, physMu, pauseRequested, ops, exclusive,
                   waiting, scenario, run, pacer, aux>>

advanceOp(h) ==
    /\ handler[h].at = "advOp"
    /\ Op(h)
    /\ goto(h, "advPhys")
    /\ UNCHANGED <<time, lifecycle, owner, tickMu, coord, physMu, pauseRequested, exclusive,
                   waiting, scenario, run, pacer, aux>>

advancePhys(h) ==
    /\ handler[h].at = "advPhys"
    /\ physMu = None
    /\ physMu' = h
    /\ goto(h, "advTick")
    /\ UNCHANGED <<time, lifecycle, owner, tickMu, coord, pauseRequested, ops, exclusive,
                   waiting, scenario, run, pacer, aux>>

advanceTick(h) ==
    /\ handler[h].at = "advTick"
    /\ handler[h].left > 0
    /\ step
    /\ handler' = [handler EXCEPT ![h].left = @ - 1]
    /\ UNCHANGED <<locks, scenario, run, pacer, executed>>

advanceReturns(h) ==
    /\ handler[h].at = "advTick"
    /\ handler[h].left = 0
    /\ physMu' = None
    /\ opDone(h)
    /\ ReleaseDrive
    /\ goto(h, "idle")
    /\ UNCHANGED <<time, lifecycle, coord, exclusive, waiting, scenario, run, pacer, aux>>

-----------------------------------------------------------------------------
\* A command from any protocol, or an injected fault: one gated operation.
writeOp(h) ==
    /\ handler[h].at = "idle"
    /\ Op(h)
    /\ goto(h, "write")
    /\ UNCHANGED <<time, lifecycle, owner, tickMu, coord, physMu, pauseRequested, exclusive,
                   waiting, scenario, run, pacer, aux>>

writeCommits(h) ==
    /\ handler[h].at = "write"
    /\ Touch({"store", "processor"})
    /\ opDone(h)
    /\ goto(h, "idle")
    /\ UNCHANGED <<time, lifecycle, owner, tickMu, coord, physMu, pauseRequested, exclusive,
                   waiting, scenario, run, pacer, executed>>

\* POST /link under linkCoord; a general interrogation or a Modbus register
\* read takes the gate's shared side inside it.
takeCoord(h, next) ==
    /\ handler[h].at = "idle"
    /\ coord = None
    /\ coord' = h
    /\ goto(h, next)
    /\ UNCHANGED <<time, lifecycle, owner, tickMu, physMu, pauseRequested, ops, exclusive,
                   waiting, scenario, run, pacer, aux>>

linkApplies(h) ==
    /\ handler[h].at = "link"
    /\ Touch({"link"})
    /\ coord' = None
    /\ goto(h, "idle")
    /\ UNCHANGED <<time, lifecycle, owner, tickMu, physMu, pauseRequested, ops, exclusive,
                   waiting, scenario, run, pacer, executed>>

interrogateOp(h) ==
    /\ handler[h].at = "read"
    /\ Op(h)
    /\ goto(h, "snapshot")
    /\ UNCHANGED <<time, lifecycle, owner, tickMu, coord, physMu, pauseRequested, exclusive,
                   waiting, scenario, run, pacer, aux>>

interrogated(h) ==
    /\ handler[h].at = "snapshot"
    /\ opDone(h)
    /\ coord' = None
    /\ goto(h, "idle")
    /\ UNCHANGED <<time, lifecycle, owner, tickMu, physMu, pauseRequested, exclusive, waiting,
                   scenario, run, pacer, aux>>

-----------------------------------------------------------------------------
arrives(h) ==
    \/ \E request \in Requests \cap {"load", "start", "stop", "reset"} : takeLifecycle(h, request)
    \/ \E request \in Requests \cap {"link", "read"} : takeCoord(h, request)
    \/ "advance" \in Requests /\ advanceClaims(h)
    \/ "write" \in Requests /\ writeOp(h)

\* The steps of a request under way that wait for no lock, or only for one
\* whose holder asks for nothing more ...
proceeds(h) ==
    \/ Load(h) \/ startRefused(h) \/ startClaims(h)
    \/ startSetsClock(h) \/ startRebases(h) \/ startLaunches(h)
    \/ stopLocked(h, "stop", "stopWait") \/ stopReturns(h)
    \/ stopLocked(h, "reset", "resetWait") \/ resetRewinds(h)
    \/ resetWaits(h) \/ resetExclusive(h)
    \/ resetClock(h) \/ resetPhysics(h) \/ resetStore(h) \/ resetLink(h) \/ resetReturns(h)
    \/ advancePhys(h) \/ advanceTick(h) \/ advanceReturns(h)
    \/ writeCommits(h) \/ linkApplies(h) \/ interrogated(h)

\* ... and those that contend for one.
contends(h) ==
    startTicks(h) \/ resetCoord(h) \/ advanceTicks(h) \/ advanceOp(h) \/ interrogateOp(h)

Next ==
    \/ PacedRun
    \/ runLoop
    \/ \E h \in Handlers : arrives(h) \/ proceeds(h) \/ contends(h)

Spec == Init /\ [][Next]_vars

\* Every goroutine that holds a lock runs on, and one that keeps asking for a
\* lock gets it.  No request has to arrive, and the pacer's ticker may stop.
Fairness ==
    /\ WF_vars(pacerTryLock \/ pacerTick \/ pacerUnlock)
    /\ SF_vars(pacerOp)
    /\ WF_vars(runCheck \/ runPhys \/ runTick \/ runAdvanced \/ runFails \/ runAct \/ runExpect
                 \/ runNext \/ runRelease \/ runDone)
    /\ SF_vars(runOp \/ runLock)
    /\ \A h \in Handlers : WF_vars(proceeds(h)) /\ SF_vars(contends(h))

FairSpec == Spec /\ Fairness

-----------------------------------------------------------------------------
Mutex == Drivers \cup {None}

Starting == {"startTicks", "setClock", "rebase", "launch"}
InExclusive == {"resetClock", "resetPhysics", "resetStore", "resetLink"}
Resetting == {"resetCoord", "resetGate", "resetExclusive", "resetFence"} \cup InExclusive
Advancing == {"advTicks", "advOp", "advPhys", "advTick"}

\* Where a run, and a request, may be.
RunPlaces == {"dead", "check", "op", "phys", "tick", "failed", "exec", "act", "next", "exit",
              "done"}

Places ==
    {"idle", "load", "start", "stop", "stopWait", "reset", "resetWait", "write", "link", "read",
     "snapshot"} \cup Starting \cup Resetting \cup Advancing

\* Every variable has the shape its Go field gives it.
TypeOK ==
    /\ clk \in 0..Later /\ last \in 0..Later
    /\ lifecycle \in Mutex /\ owner \in Mutex /\ tickMu \in Mutex
    /\ coord \in Mutex /\ physMu \in Mutex
    /\ pauseRequested \in 0..1
    /\ ops \subseteq Drivers
    /\ exclusive \in Handlers \cup {None} /\ waiting \in Handlers \cup {None}
    /\ scenario \in [loaded : BOOLEAN, running : BOOLEAN, stop : BOOLEAN, haveStart : BOOLEAN,
                     start : 0..Later, cursor : 0..Len(Steps)]
    /\ run \in [at : RunPlaces, left : 0..Later]
    /\ pacer \in {"idle", "try", "op", "tick", "unlock"}
    /\ handler \in [Handlers -> [at : Places, left : 0..MaxAdvance]]
    /\ touched \subseteq Components
    /\ executed \in Seq(DOMAIN Steps)

\* The physics model's idea of "now" is the clock whenever a tick may run: no
\* driver sees a dt that another driver's set or reset of the clock distorted
\* (Start, Reset, TickOnce).
DtBaselineIsClock ==
    exclusive = None /\ (\A h \in Handlers : handler[h].at # "rebase") => last = clk

\* Steps are executed in order, each once, across any stops, resumes and
\* failures: what has been executed since the load is what the cursor says.
StepsExecutedOnce ==
    executed = [i \in 1..(scenario.cursor + IF run.at = "next" THEN 1 ELSE 0) |-> i]

\* No step is executed before its deadline, whatever drives the clock in
\* between (advanceTo).
StepsNotEarly ==
    run.at \in {"exec", "act"} =>
        clk >= scenario.start + Steps[scenario.cursor + 1].at

\* While a run is alive it alone drives the clock; after Stop or a reset's own
\* stop has waited for it, and until the next launch, it does not (stopLocked).
RunOwnsDrive == run.at \notin {"dead", "done"} => owner = "run" /\ tickMu = "run"

\* A reset's exclusive section sees nobody inside an operation, and ends with
\* every component as it was at startup: nothing slips in between two of its
\* steps, and no run is alive to do so later (resetLocked).
ResetIsAtomic ==
    /\ exclusive # None => ops = {}
    /\ \A h \in Handlers : handler[h].at \in Resetting =>
           run = dead /\ ~scenario.running /\ scenario.cursor = 0
    /\ \A h \in Handlers : handler[h].at = "resetLink" => touched \subseteq {"link"}

\* Every request is answered: no order of the locks, no run that waits for
\* the gate and no waiting reset leaves a request hanging.
RequestsReturn == \A h \in Handlers : handler[h].at # "idle" ~> handler[h].at = "idle"

=============================================================================

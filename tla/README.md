# Formal models of the PETZ M261 simulator

This directory specifies the core of `simulator/` (Go) and the part of `webui/`
that follows its event stream, in TLA+. TLC checks the models on small instances;
TLAPS proves results about every one of them for all instances. `PROJECT.json` maps every definition to the source lines it stands for.
All paths below are relative to the repository.

    tlc -config MCStore.cfg MCStore        # a run; PROJECT.json lists them all
    tlapm TelemetryProofs.tla              # a proof

## 1. The system

One process, `m261sim`, pretends to be a battery cabinet. Protocol clients
(IEC-104, Modbus TCP) read its points and write its setpoints; a physics engine
moves the points on every tick of a simulated clock; a control API (HTTP and
server-sent events) starts scenarios, injects faults, breaks links and resets
everything; a web page follows the points live.

| Component (source under `simulator/internal/`) | State | Operations | What makes it correct |
|---|---|---|---|
| Store `store/store.go` | values, revision counter, point and batch subscribers | Set, SetBatch, Restore, Subscribe, SubscribeBatchesWithSnapshot, WithCurrentRevision | batches whole and in order, readback twins equal, revisions true although delivery is outside the lock |
| Telemetry stream `controlapi/v1.go`, `webui/src/use-simulator.ts` | per-connection window, last revision; the page's points and revision | bootstrap, fold, flush, gap report, reconnect | the page shows one real state and never goes back; it catches up |
| Rare-event journal `controlapi/eventhub.go` | next ID, bounded history, subscriber channels | publish, nextID, subscribe with replay | nothing missed without being told |
| IEC-104 heartbeat pipeline `iec104/heartbeat.go`, `linkstate.go`, `server.go` | link modes, generation boundary, connections with queue and writer | spontaneousLoop, admitHeartbeat, hbLoop, accept, STARTDT/STOPDT, cleanup, pause/clear/drop/hang, FenceHeartbeat | no stale or paused heartbeat after the link operation has answered, no genuine one lost, every operation answers |
| Link faults `linkfault/` | the coordinator | Apply, ApplyCoordinated | one operation at a time over both protocols |
| Physics runner `physics/runner.go` | drive lock (owner, tick lock, pause flag), dt baseline | PacedRun, TryAcquireDrive, FastForward, Rebase, Reset | one driver of the clock; dt never spans a clock jump |
| Scenario runner `scenario/runner.go` | loaded scenario, cursor, run goroutine | Load, Start, Stop, resume, LockForReset | steps once, in order, not early |
| Gate `appgate/gate.go` | shared and exclusive holders | Op, Exclusive | a reset is atomic |
| Command processor `commands/processor.go` | setpoints, watchdog, writeMu | Write, WriteBatch, ResolveDispatch, Reset | no lost update; dispatch follows demand, limits and watchdog |
| IEC-104 session `iec104/server.go`, `apci.go`, `asdu.go`, `probe.go` | per-connection sequence numbers, started flag | STARTDT/STOPDT/TESTFR, interrogation, commands, spontaneous updates | unbroken sequence, one-instant interrogation, a subscribed client ends up current |
| Fault injection `faults/` | alarms in the store | Inject, Clear | a refused fault leaves nothing behind |
| Modbus server `modbustcp/` | connections, link state | FC02/03/04 reads, FC06/FC16 writes | a response is one instant; a write is one transaction and touches its own registers only |
| Register codec `gen/go/m261points/codec.go`, `modbustcp/handlers.go` | none | byte and word orders, integer widths | decode inverts encode |
| Physics engine `physics/engine.go` | energy, temperature, power, meter | Step | no energy for free, limits and prohibitions obeyed, boundaries reached |
| Config, scenario files, deployment probe, catalog, code generation | see `PROJECT.json` "components" | | |

**How they interact.** One `clock.Fake`, one gate, one link coordinator and one
store are shared by all (`cmd/m261sim/main.go`). Locks nest in this order: the
scenario lifecycle lock; the drive lock; `linkCoord`; the gate (shared for an
operation, exclusive for a reset); `physics.Runner.mu`; `commands.writeMu`; the
store's lock. Data flows from the store to the protocol servers and the event
stream through bounded, non-blocking channels that drop when full. Admin requests
mutate link state under `linkCoord` and then wait, outside it, on acks from every
connection's `hbLoop`.

**What is hard.** Publishing outside the store's lock; channels that drop; a
socket write that blocks under a lock others want; acks that may never come; four
drivers of one clock; a run goroutine that outlives the request that stopped it;
a reset across seven components; half-register writes; a clock that jumps, or has
moved between a stop and a resume; three goroutines that number frames on one socket; conversions
and comparisons at the edge of their type.
`PROJECT.json` "hazards" lists these at their lines.

## 2. The modules

| Module | Models | Extends / instantiates |
|---|---|---|
| `Store` | the point store | |
| `ConsistentView` | the promise to any observer of the store: a view is one past state and only moves forward | |
| `TelemetryStream` | `handleV1Events`, the wire, the page | extends `Store`; refines `ConsistentView` |
| `HeartbeatFence` | the IEC-104 heartbeat pipeline, connections, link operations | extends `Store` |
| `Iec104Session` | one IEC-104 connection: its reader, the two loops that update it, its client | |
| `ControlPlane` | clock, drive lock, scenario runner, gate, reset, the requests that use them | |
| `EventHub` | the rare-event journal and a resuming client | |
| `Floats` | rounding to float64 | |
| `Validation` | which setpoint values are let through | extends `Floats` |
| `Dispatch` | setpoint writers, writeMu, the dispatch decision at a tick | extends `Validation` |
| `RegisterCodec` | a value's bytes and registers | |
| `ModbusServer` | Modbus connections, reads, writes, link state | extends `RegisterCodec` |
| `Pacing` | durations, their pacing and its validation | extends `Floats` |
| `Plant` | the battery under live ticks, advances and scenario runs | extends `Pacing` |
| `StoreProofs`, `TelemetryProofs`, `FenceProofs`, `SessionProofs`, `ControlPlaneProofs`, `DispatchProofs`, `ModbusProofs`, `PlantProofs` | theorems | extend the module they are about; `TelemetryProofs` extends `TelemetryStream` and `EventHub`, the two halves of one connection |
| `MC*` | small instances | |

Actions carry the names of the functions they model; a function that blocks or
releases a lock in the middle is split there and nowhere else. A critical section
that touches memory only is one step.

*Store.* `values` and `rev` are the Go fields. A mutation commits, bumps `rev` and
offers its batch to the batch channels in one step (all under `mu`), and leaves
its Changes in `pub[w]`; `publish(w)` delivers them later, as the code does after
the unlock. The order in which one mutation's Changes reach a channel is the map
iteration order, hence arbitrary. `history` is auxiliary: the values of every
revision.

*TelemetryStream.* `batchQ` is the handler's channel, `pending*` its window, `wire`
what HTTP and TCP buffer, `points`/`revision` what the page holds. The page consumes
a snapshot or telemetry that follows on (`ConsumeSnapshot`, `ConsumeTelemetry`) and
answers a gap or `resync_required` with a deliberate `CloseAndReconnect`; after a
`TransportError` EventSource retries by itself. Both lead back to `Bootstrap`.

*HeartbeatFence.* `boundary` is `heartbeatGenBoundaryRev`; a frame is identified by
the revision of its Change. connMu is held across steps only while `broadcast` goes
from socket to socket; a write in progress is `writer[c]` and ends in success, a
deadline or an error. `admin[a]` walks through lock, transition, bump, fence and
wait. `gen`, `genOf`, `paused`, `fenced`, `lastSent` are auxiliary.

*Iec104Session.* `reader` is the handleConn goroutine: a frame is read, its N(S) is
recorded, its ASDU handled, and each answer taken through `clientConn.writeMu` and
the socket in steps of their own. `loop` says which of spontaneousLoop and hbLoop
writes to the same socket under the same lock. `changes` is spontaneousLoop's
channel, of `SubscriberBufferSize`: `publish` drops a Change that finds it full, and
the auxiliary `lost` remembers the points whose last Change was. Heartbeats pass
through `admitHeartbeat` into `hbQueue` and from there to hbLoop; barriers are
`HeartbeatFence`'s. Numbers are sent shifted and wrap (`encodeSeq`);
an acknowledgement is compared modulo the numbers' range, and a client sends no further frame
while a whole range of its own but one is unacknowledged. An
interrogation takes a device snapshot, lays a paused heartbeat over it, and writes
confirmation, points and termination. A command ends in a store mutation and its
readback. `client` checks what arrives as a conforming peer would, and `probe`
follows `ProbeGeneralInterrogation`. Injectors, ticks and the reset commit first
and publish later, as in `Store`.

*ControlPlane.* One program counter for the pacer, the run goroutine and every
request. Time is in physics steps; `Later` stands for all later instants. A waiting
`Exclusive` stops new `Op`s, as Go's RWMutex does. `touched` and `executed` are
auxiliary; `touched` is kept only while a reset is in its exclusive section, and
says what it has yet to put back. As time is in whole steps, any pace of a run may
fail (`runPaceFails`), which ends the run; when one does is `Plant`'s.

*EventHub.* `journal` is the hub's `history`, of IDs only; the names are distinct from
`TelemetryStream`'s, so that one module can speak of both. The client keeps `lastID`
the way EventSource does, also from frames whose ID is 0, and sends it again.

*Floats.* A float64 is a whole number of the smallest denormal (`Unit` of them to 1)
with one of `Significands` significands; results are rounded to the nearest, ties to
even. With `Significands = 2^53` and `Unit = 2^1074` these are the finite float64s; the
upper limit of the exponent is left out, and `Spacings` is to go far enough.

*Validation.* `validateValue` computes in float64, and the model in `Floats`, so that the
tolerance for a scaled value (`processor.go:809`) is tried where it matters. The reference, `AcceptsDeclared`,
states in exact fractions what a client may mean.

*Dispatch.* Power is an integer and a register pair is `Half * high + low`. The
engine may report any state in `Physical`. `Demand`, `Feasible` and `Window` restate
from the setpoints alone what a tick should dispatch, independently of the code's
order of tests. A tick is one step and needs a free writeMu; a writer's transaction
is two or three steps. In the code the clock moves a moment before `ResolveDispatch`
takes writeMu (`physics/runner.go:245`, `processor.go:478`); a write that commits in
between carries the new instant and is dispatched by the same tick. Measured by the
clock, as the watchdog does it, nothing differs; the auxiliary `age`, which counts
dispatches, takes that write for one made before the tick. The gate that orders `Reset` behind the writers is a guard
here, and is itself modelled in `ControlPlane`.

*RegisterCodec.* The four byte orders, two's complement at one, two and four bytes,
and the pair of registers that every point but an alarm is given. A width is the
number of values it holds (`Size16`, `Size32`), a product of bytes and not a power.

*ModbusServer.* `handler[c]` is the goroutine of one connection: it receives a frame,
sleeps for an injected delay, and then builds its response register by register
while holding linkCoord, the gate and the store's read lock, or merges and commits
a write under writeMu. Addresses wrap at `Addresses`. `link` and `iec` are the two
targets of one link operation, which captures the heartbeat once and then changes
one target after the other. Accept returns a socket (`accepting`) that the accept
loop registers, or not, in a later step. `ModbusAssumption` types the constants;
`RegisterAssumption` says that points of a class share no register and that
frames carry registers of two bytes, and is needed for writes and the codec only.
`WritesTouchOnlyTheirRegisters` says of a step that changes a holding register that
it is an accepted request which addressed it, or a reset, and of an accepted
request that it leaves all its registers as written.

*Pacing, Plant.* `CheckedPace` and `ValidatePacing` over whole nanoseconds of a bounded
width: the duration is rounded to a float64, divided, rounded again and cut off to
whole nanoseconds; a conversion out of range is the build's choice (`saturates`). `Plant` has
`engine.go`'s step in whole numbers that are rounded where the code divides: taper,
thermal derating, efficiency both ways, the boundary margin, the meter and its
inverted direction. It is ticked live, by a request's advance, or by a scenario on its
way to its next step; `fastForwardLocked` cuts both advances into increments, and paces
the scenario's. `scenario` is the playback at its cursor: `gap` is the next step's
distance from the one before, which `Load` has looked at, and `due` its distance from
the clock, which is what a run paces. They differ once a run has been stopped, or has
failed, and live ticks or a request have moved the clock before it is resumed.
How long ago a step was due is kept up to `MaxLate`. A scenario's later steps are drawn
when they are reached, from those that `Load` accepts (`accepted`).

## 3. The runs

| Run | Question | Bounds |
|---|---|---|
| `store` | Are deliveries whole, ordered and stamped with two writers? | 3 points (setpoint, readback, alarm), 2 values, 3 mutations, buffer of 2: two publishes interleave and the third mutation overflows a channel |
| `telemetry` | Does the page always show one state, and catch up? | 3 mutations, channel of 1, wire of 2, 1 break: gaps, coalescing over several batches, a blocked writer and a reconnect all occur |
| `fence` | Does anything slip past a fence? | 1 connection, 1 operation at a time, 2 operations of all 4 kinds, 2 ticks, queue of 2, the heartbeat as the only point |
| `fence_live` | Does every link operation answer, also while broadcasts of another point hold connMu across their writes? | 1 tick and a queue of 1, so that a barrier meets a full queue; pause and drop only: a clear shares the pause's path, and a hang only stops the readers |
| `control_plane` | One driver, steps once and on time, atomic reset, no deadlock, every request answered? | 2 concurrent requests of all 8 kinds, 3 steps of which two are due together |
| `event_hub` | Do replay and channel join? | journal and channel of 2, 6 IDs, 2 breaks: eviction, overflow and resync occur |
| `dispatch` | Do writers, ticks, policy and watchdog agree, and is validation exact? | two instances: Remote operation (2 writers, setpoints -2..2, timeout of 2 in 5 ticks, both expiring watchdog modes), and the policy under hold (1 writer, 5 engine states, a day of 4 slots, 2 periods of which one ends at midnight (24:00) and one wraps past it, limits -1 and 2, scenario starts); validation for every tenth in -9..9 with floats of 9 bits (512 significands) |
| `modbus` | Is a response one instant, a write exact, a drop complete? | 2 clients, 5 points, bytes of one bit, 8 registers that wrap, 12 frames of every function and a malformed one, 2 requests, 2 ticks, 2 operations or resets |
| `session` | Is the sequence unbroken, an interrogation one instant, a client current? | 1 connection, 5 points, 13 kinds of frame of which 3 are sent, 1 tick, 1 operation, fault or reset; numbers of three bits, so that an interrogation wraps them; a channel of two Changes, which one tick's three overflow |
| `plant` | Is energy conserved, a limit obeyed, a pace kept? | capacity 24, full power either way, heat past the derating; requested advances and distances between steps of 0, 2, 4 and 5 in increments of 3, at a speed at which 1 has no pace, so that `Load` refuses 4 and accepts 5, and a clock off the grid leaves a 1; paces of every duration up to 255 at 5 speeds, in floats of 6 bits |

Bounds on mutations, breaks, IDs, operations, frames, ticks and resets (`MaxRev`,
`MaxBreaks`, `MaxReconnects`, `MaxID`, `MaxOps`, `MaxFrames`, `MaxNow`, `MaxBeat`, `MaxTicks`, `MaxResets`,
`Later`, `MaxAdvance`, `MaxLate`) are guards. Where a model stops only because a bound or a
failure is reached (`telemetry`, `fence*`, `event_hub*`, `modbus`, `session`, `plant`)
its configuration switches deadlock checking off; `store`, `control_plane` and
`dispatch` check it. `fence` needs no second connection for its safety
properties, as queues, barriers and writers of two connections share only
`connMu`; with two connections the state space is out of reach. `session` has one
connection for the same reason. In `modbus` the two connections are symmetric; its
properties quantify over both alike, and none is a liveness property.

### What the code does not keep

Two runs are expected to fail; each property is a claim of the repository.

- `fence_stealing`: **two link operations in flight share `pendingFenceAcks`.** The
  second one's `FenceHeartbeat` takes the first one's acks; the first finds none,
  answers, and a client is still sent a heartbeat older than the pause
  (`linkfault.go:51`, `handlers.go:176`).
- `event_hub_telemetry`: **telemetry IDs overtake queued rare events**, so that a
  reconnect resumes past one it never got (`eventhub.go:9`).

Further limits of the code shape the properties, which do not claim what
the code does not do:

- A link operation may wait for a socket while it holds linkCoord, because
  `broadcast` holds `connMu` across socket writes (`iec104/server.go:196`; the comment
  at `heartbeat.go:47` has it otherwise). `fence_live` shows that the wait ends.
- When a scenario resumes, the clock is not where the stop left it: live pacing
  has moved it on (`scenario/runner.go:348` against the comment at `:310`).
  `StepsNotEarly` and `DtBaselineIsClock` hold all the same.
- **A resumed scenario can fail half done on its pacing.** `Load` validates the distance
  from step to step (`scenario/runner.go:253`); `advanceTo` paces the distance from the
  clock (`:569`), and `ValidatePacing`'s comment (`physics/runner.go:393-399`) says that
  this cannot fail mid-run. In the run's instance of `Plant`: load a first step at 5 and
  a second 2 later, start and stop at once; two live ticks of 3 go past the first step by
  1; resume, and the first step is executed, the second is 1 away, for which there is no
  pace at this speed, and `paceFails`.
  `PacingIsPromised` says what is left of the promise: a run fails only if the clock had
  drifted off the grid of its steps before, and no run makes it drift.
- `NoStaleFrame` speaks of registered connections. A client that has closed its
  sending side is unregistered before its socket is closed, and no barrier covers
  what its hbLoop still sends.
- `ClientIsCurrent` excepts two kinds of points. Of some an older value came last: an
  interrogation's snapshot may be written after a spontaneous frame that is newer
  (`iec104/server.go:484` against `:163`), and two writers may publish in the
  opposite order of their commits (`store.go:497`). Of others the last Change found
  spontaneousLoop's channel full and was dropped (`store.go:497-506`; a real tick
  publishes hundreds of Changes through 64 slots): such a point stays stale at the client
  until it changes again or the client interrogates, as `Subscribe`'s comment says.
- `ReplayIsComplete` speaks of a real Last-Event-ID. The bootstrap frames carry ID 0
  and reset it; a client that breaks right after them asks from 0 and is not told
  of evicted events (`EventHub` with `Telemetry = FALSE` violates
  `ReconnectMissesNothing` for this reason).
- The watchdog compares clock instants (`processor.go:627`), so that a scenario
  start that sets the clock back prolongs a stale setpoint. The run has scenario
  starts under hold only; `TripAlwaysHolds` assumes that there are none, and
  `DispatchAlwaysFollowsDemand` that there are none unless every mode is hold.
- Nothing refuses a strategy period's hour beyond 24 (the catalog gives the hours no
  range, and `scheduleLookup`, `processor.go:661`, multiplies whatever it reads). What
  such a period should cover nobody says: `Window` reads times within one day, and
  `DispatchAlwaysFollowsDemand` assumes them (`TimesOfDay`).
- `TripHolds` ends when Remote mode is left, sampled or not. Leaving and
  re-entering it between two ticks does not re-arm the trip.
- `AcceptedPaceIsClose` allows the relative error of two roundings and a nanosecond: a
  duration above 2^53 ns is rounded before it is divided, and the quotient after
  (`physics/runner.go:377`). At the other end the comparison with `float64(MaxInt64)`,
  which is the power of two above it, lets one value too many through, and only what the
  build makes of its conversion decides whether it is refused.
- `PageCatchesUp` makes one exception: a page whose newest batch was dropped stays
  stale until the next one, for the code has no periodic revision check.

### Fairness

Only `PageCatchesUp`, `LinkOperationsReturn`, `RequestsReturn` and `ChargingEndsFull`
use it.

- Weak fairness for a goroutine that can run on: the Go scheduler is preemptive.
- Strong fairness for taking a lock: `sync.Mutex` hands over to a starving waiter
  after 1 ms, and an RWMutex's writer stops new readers.
- Weak fairness for the end of a socket write: `withWriteDeadline` bounds it.
- Weak fairness for the page's retry and for the stream's 150 ms ticker.
- Weak fairness for a live tick in `Plant`: `PacedRun`'s ticker goes on as long as the
  process does. `ControlPlane` does without it, for no request waits for a tick.
- None for requests, peers, the accept loop, readers, or breaks: a liveness
  property never relies on the environment doing something helpful.

### Mutants

Each property of each passing run has a mutant, and some have several: an operator
beside the original, marked `Mutant:`, that changes it the way a plausible bug would
(a dropped guard, a lost unlock, an off-by-one, a swapped order). Put in place of
the original it makes the run report that very property.

## 4. The proofs

Each proof module proves an inductive invariant of its component for any value of
the constants that meets the component's assumptions: any number of points, values,
writers, connections, requests and operations, any buffer, and any bound on the
counters. The assumptions say what the constants are (types, that a setpoint's
readback is another point, that the catalog's defaults are acceptable) and are
named in the module that declares the constants.

| Theorems | Inductive invariant | What it needs beyond the property |
|---|---|---|
| `StoreTypeCorrect`, `StoreCorrect` | `StoreIInv` | a batch is whole only because `history[rev] = values`; batches are in order because none is newer than `rev` |
| `StreamCorrect`, `PageShowsOneRevisionAlways`, `StreamImplementsConsistentView` | `StreamIInv` | every telemetry event on the wire is the difference between two states of the history, hence so is the handler's window (`WindowIsDifference`), hence its batches are consecutive (`ChannelAhead`); no snapshot on the wire is older than the page (`SnapshotFirst`) |
| `HubCorrect`, `StreamAlwaysGapless`, `ReplayAlwaysComplete` | `HubIInv` | the journal is the newest end of all events (`JournalInv`); what is replayed is in order and nothing above it is missing from it, so that wire and channel join (`Gapless`); an order to resynchronise precedes every rare event on the wire (`ResyncInv`). That the scan of the journal (`after`, a recursive function) exists and keeps what is later is shown by the least number for which it does not (`Smallest`) |
| `FenceImplementsStore`, `FenceCorrect`, `FenceTypeCorrect`, `PausedHeartbeatsStay`, `DropAlwaysCloses` | `FenceIInv` | every step of the pipeline is a step of the store or a stutter, which carries `StoreIInv` over; what a pause froze is behind the boundary once the pause is over (`PauseInv`), and nothing of it is under way (`CleanInv`) |
| `HeartbeatsAlwaysInOrder` | `OrderInv` over `FenceIInv` | whatever is further upstream is newer: the tick that has yet to be published, the channel, the Change in the loop's hands, the queue, the frame in hand |
| `OnlyStaleHeartbeatsEverDiscarded` | `GenInv` over `FenceIInv` | every revision up to the boundary, or up to the one a transition is about to set, is of an earlier generation; while frozen, a revision of the present one was generated under the pause |
| `NothingStaleAfterFence` | `BarrierInv`, `FreshInv`, `GuardInv` over `FenceIInv` and `GenInv` | FIFO: a channel's barriers are its own, of ever later operations and not yet acknowledged; a channel that still holds something older than the boundary holds a barrier that the operation awaits, and nothing older behind it |
| `SessionCorrect`, `InterrogationAlwaysOneInstant`, `UpdatesOnlyWhileConfirmed` | `SessionIInv` | nobody changes the override or resets between the snapshot and the overlay (`InstantInv`); the client is told before the server starts, and the server stops before the client is told (`SubscribedInv`) |
| `NumbersUnbroken` | `SequenceInv` over `ShapeInv` | what the goroutines hold at each place (`ShapeInv`); the frame in hand carries the two counters as they are, and the other goroutines have none; what the server has received lies between the client's acknowledged and sent frames, less than a modulus apart |
| `ProbeAlwaysServed` | `ProbeInv` over `ShapeInv`, `StoreInv`, `StoreTrue` | at each place of the probe, which frames the server has yet to write, and that spontaneous updates are told from them by their cause |
| `ClientStaysCurrent` | `FrameInv`, `ToldInv`, `CurrentInv` over those and `SessionIInv` | a Change or a report is of the last write or of an older one (`StoreTrue`, `FrameInv`); the last write of a point is known to the client (or was overtaken by an older one), or lost at the full channel, or on its way: unpublished, in the channel, or in a frame; during an interrogation, also in its snapshot or its unsent part |
| `ControlCorrect`, `ControlTypeCorrect`, `RunAlwaysOwnsDrive`, `StepsAlwaysExecutedOnce`, `StepsNeverEarly`, `BaselineAlwaysClock`, `ResetAlwaysAtomic` | `ControlIInv` | which locks are held at which place of the pacer, the run and every request (`LocksHeld`); where the run is in its scenario (`Progress`); clock plus remaining increment is the step's deadline, and what a reset has put back so far (`ClockInv`) |
| `DispatchCorrect`, `DispatchTypeCorrect`, `UpdatesNeverLost`, `TripAlwaysHolds` | `DispatchIInv` | a half-register write in its transaction agrees with the store on the half it keeps (`HalfInv`); for the trip, the watchdog's clock is exactly the ticks since the last commit, up to the timeout (`AgeInv`), and a lasting trip is latched (`TripInv`) |
| `DispatchAlwaysFollowsDemand` | the property itself over `DispatchIInv` and `AgeInv` | an exact age makes the watchdog expire on time (`ExpiresOnTime`); `periodActive` on a time of day is membership of a window of slots (`ActiveInWindow`), and the first active period in order is the lowest (`LookupIsSchedule`, by the well-ordering of the naturals, `Smallest`); clamping to the limits is the nearest feasible power (`LimitsAreNearest`) |
| `ValidateAlwaysExact` | `PointInv` of `DispatchIInv` | a chain of bounds in whole numbers: the spacing of floats at a magnitude (`SpacingBounds`), hence what a rounding is off by (`NearestRelative`), hence two literals and their quotient together: 3.5/10 of the last significand (`RawArithmetic`, `RawError`), which is within 4 ulps of a whole number of the value's own size (`SnapsToWhole`) and, for numbers as small as an integer type or an enum allows, far from a tenth (`NoSnapToFraction`); larger ones stay too large (`LargeStaysLarge`) |
| `ModbusCorrect`, `DropAlwaysDisconnects`, `ResponseIsAlwaysOneInstant` | `ModbusIInv` | who is kept out of which section (`Excluded`); the response so far is a prefix of what it would be now (`ResponseInv`) |
| `CodecRoundTrips`, `CodecAlwaysRoundTrips` | `WriteInv` | the division of a number into its digits and back, byte by byte (`RegisterCodec`), and that what is stored is a number of the width |
| `WritesTouchOnlyTheirOwn` | `WriteInv` over `ModbusIInv` | one handler at a time merges; each half of a point it holds is what the store holds or what its frame writes there (`HalvesAccounted`), and every register merged so far is in its point (`RegistersMerged`) |
| `HeartbeatAlwaysAdvances` | `BeatInv` over `ModbusIInv` and `WriteInv` | what a client was told is no newer than what it would be told now, an override, and one that a pause is about to impose, no newer than the store |
| `AcceptedPaceAlwaysClose` | `PlantIInv`, for a scenario's speed; the rest is about constants | a rounding is off by at most one part in `Significands`, above the denormals, where every duration and every quotient of a nanosecond is; the two roundings multiply |
| `FailsOnlyWhenDrifted`, `PlantCorrect`, `ProhibitionAlwaysObeyed`, `EnergyNeverFree`, `PlantTypeCorrect` | `PlantIInv` | the next step is one that `Load` has looked at, and a run on the grid has only whole increments and that step's remainder before it (`ScenarioInv`); the limits in the store are those of the state (`PlantInv`) |

The proof that a step preserves an invariant goes through one lemma or step per
action. Where most actions leave a conjunct alone, a lemma says what disturbs it
(`Keep*` in `TelemetryProofs`, `MutateCommits` in `StoreProofs`, `RunTicksAlone` in
`ControlPlaneProofs`, `ResponseKept` in `ModbusProofs`). `StreamImplementsConsistentView` maps
`view <- points` and `viewRev <- revision`: a mutation is a Commit, a consumed
snapshot or telemetry event an Observe (by `StreamIInv`), everything else a
stutter. Arithmetic on products and quotients (register halves, pacing, energy) is
kept in lemmas about whole numbers that mention no variable.

Invariants are layered. Where one reads "over" another, the lower one is proved first
(`Spec => []A`), and the step of the upper one has both sides of it at hand; so each
layer's proof deals with one idea. Facts about queues and frames are stated of the
values (a sequence, the item in hand, a number), not of the variables, and so hold of
the state before a step and of the one after it.

Four theorems have a hypothesis besides the assumptions of the modules.
`TripAlwaysHolds` assumes `Instants = {}`, and `DispatchAlwaysFollowsDemand` `TimesOfDay`
and either `Instants = {}` or no mode but hold (see above); the two instances of
`dispatch` meet the latter each in its way. `NothingStaleAfterFence` assumes
`[]OneOperation`, that no two link operations are in flight: `fence_stealing` shows
what happens otherwise. In `fence` it holds by the choice of `Admins`; no other theorem
about the fence needs it. `ValidateAlwaysExact` assumes `FloatsSuffice`: at least 2048
significands; every scale at least 64 times as many denormals; the I16 domain and the
enum's members no larger than 1/2048 of the significands; spacings that go far enough;
and values that are not within their own rounding of a range's limit or of the largest
float32, unless they are that limit and it is a float. float64 has 2^53 significands and
meets all but the last for every scale 1/1, 1/2, 1/3, ... down to 1/2^1000 and enum codes
up to 2^42. The last excludes no more than what float64 cannot tell apart: the largest
float32 and that plus a tenth are one float64, and both are let through. TLC's 32-bit
integers cannot meet it, so run and theorem complement each other: the run tries a small
catalog in floats of 9 bits, denormal scales included.

TLC was asked about an invariant before it was proved: `StoreIInv`, `StreamIInv`,
`HubIInv`, `WriteInv` and `BeatInv`, `OrderInv`, `GenInv`, `BarrierInv` and `GuardInv` hold on the
instances of the runs, and all of the fence's but `GuardInv` with two operations in
flight.

Only model-checked is all liveness: fairness and ENABLED are beyond the prover. Every
safety property that a passing run checks is stated by a theorem.

No module declares a RECURSIVE operator.

## 5. Not modelled

- The generated point tables (`gen/go/m261points/`), more than half of the
  implementation's lines: data, which the models take as constants. Of that package
  only the codec computes; of its operations, the bits of a float and the
  `DecodeValue`/`EncodeValue` pair, which no production code calls, are left out.
- The spread of the cells and their overrides, pack and cell voltage, and the
  electrical values derived from the power: floating point, and no later tick
  reads them. `TickHealthy` and the diagnostics: reports that decide nothing.
- The bytes of an ASDU, the transaction IDs that Modbus echoes.
- Scenario files, configuration, HTTP routing, decoding and error bodies: parsing
  and validation without state. The `expect` operators of a scenario.
- `Close` and shutdown: the process ends, and nothing is persisted.
- The deployment probe, and the page's rendering and forms.
- Catalog and code generation: sequential batch programs.
- Memory-only sections are atomic: the models do not look for data races.
- In `session`, an hbQueue that overflows (`admitHeartbeat` then closes the connection) is
  in the model but out of the run's reach: one tick generates one heartbeat. `fence` and
  `fence_live` fill it.

## 6. What could follow

1. An abstract fence, "when a link operation answers, every older frame is gone",
   refined by `HeartbeatFence` for one operation at a time.
2. Scenario validation (`scenario/parse.go`) against a reference definition over
   bounded inputs.

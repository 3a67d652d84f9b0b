# Verification of the four-wheel-steering inspection AGV

This directory holds TLA+ models of the control software of the inspection
vehicle in `src/`, the TLC configurations that check them, and theorems about
them proved with TLAPS. Paths below are relative to the repository.

The vehicle drives a rectangle of parallel passes over a road. On every pass a
line-scan camera, opened on the move and closed at the end, exposes the strip;
between passes the vehicle shifts sideways or turns with the camera closed. A
mission is worth something only if every pass was exposed exactly once, if the
images say truthfully which road they show, and if the records that prove it are
on disk when success is announced. That is what the models are about.

## 1. Inventory

| Part | Source | State it keeps | Operations |
|---|---|---|---|
| Rectangle executor | `agv_mission/execution_node.py`, `execution.py` | mission state, step index, tracker, attempts, settle/ready/archive clocks | `start`, `pause`, `resume`, `cancel`, `external_fault`, 20 ms `tick` |
| Capture gate | `agv_mission/capture.py` | believed camera state, outstanding call, intervals, error, `close_failed`, heartbeat | `request`, `poll`, `check_state`, `on_state`, `event`, `block` |
| Segment tracker | `agv_mission/tracking.py` | ALIGNING / RUNNING / STOPPING / COMPLETED / FAULT, profile clock, trims | `update` |
| Archive writer, telemetry publisher | `agv_mission/offload.py` (and the copy in `agv_localization`) | queue, `dirty`, `syncing`, errors; bounded queue | `submit`, `sync`, `idle`, `close`; `offer`, `close`; one thread each |
| Operator broker | `agv_mission/operator_node.py` | child process, its last status, pending service call, audit job, current preview | `receive`, `tick`, `on_state` |
| Execution supervisor | `agv_mission/execution_process.py` | process, failure, its own camera close | `poll`, `fault`, `destroy` |
| Swerve controller | `agv_control/swerve.hpp`, `swerve_controller.cpp` | HOLD / ALIGN / DRIVE / BRAKE, unwinding flags, last command and feedback times | `update`, `cmd`, `joints`, `tick` |
| Camera plugin | `agv_linescan/src/gz_linescan.cpp` and headers | enabled flag, render queue and budget, batch, block under assembly, writer tasks, failure | `PostUpdate`, `set_enabled`, `CudaLoop`, `Flush`, `Recover`, `Reset` |
| Device tile caches | `agv_linescan/src/cuda_tiles.cu`, `optix/material_cache.cpp` | slots with key, state and pins; wanted tiles | `Prefetch`/`Begin`, `Sample`/`End`, `Worker` |
| Distance trigger, flight recorder | `sampling.hpp`, `flight_recorder.hpp` | frontier and direction; a ring | `Update`; `Push`, `Snapshot` |
| Analytic-grid line-scan node | `agv_linescan/node.py`, `core.py` | pending lines, poses, rows under assembly, last encoder time | `enable`, `motion`, `odom`, `joints`, `watchdog`; one thread |
| Online correction | `agv_linescan/correction_node.py` | waiting images and metadata, next block, error | `receive`, `process` |
| Strip archive | `offline_correction.py`, `strip_reader.py` | none (functions over block files) | `validate_capture_sequence`, `index`, `Strip.read` |
| Localization adapter, GNSS simulator | `agv_localization/measurement_adapter.py`, `core.py`, `gnss_simulator.py` | last samples, half pairs, delivery queue, levelling window, health | sensor and filter callbacks, `deliver`, `health` |
| Planner, coverage, audit | `planner.py`, `coverage.py`, `capture_audit.py`, `capture_quality.py` | none (functions over files) | `plan`, `estimate`, `rescan_requests`, `combine`, windows, trace gaps |
| RViz panel | `agv_rviz/src/mission_panel.cpp` | last snapshot, pending request | `accept`, `send`, `refresh` |

How they interact. The panel publishes requests; the broker de-duplicates them,
starts the executor as a process and calls its `/mission/*` services. The executor
publishes `/cmd_vel`, which the swerve controller turns into wheel commands and
answers with `/motion_state`; it calls the camera's `/linescan/set_enabled` service
asynchronously and listens to the camera's heartbeat, event and block topics;
it takes poses and a health state from localization; it hands every record to
the archive thread and every status sample to the telemetry thread. In the camera
the physics thread hands lines to the sampler thread, which pages ground tiles to
the device through a loading thread and hands full blocks to writer tasks. After the
mission the broker runs the capture audit over the archive, gated by the
`archive_settled` flag of the last status.

What is hard. The camera call is asynchronous and the vehicle is moving while it
is in flight. Pause, cancel, faults and camera events can arrive between any two
ticks. The broker decides on the last status message it received, not on the
executor's state. The executor can be killed with a call in flight. Archive,
telemetry, sampler, tile loader and block writers are threads of their own, with
bounded queues, and any of them can fail half way. A controller that rearranges
its wheels at steering limits can do so for ever. Almost every wait is bounded by
a deadline somewhere else. The hazards, each at its line, are in `PROJECT.json`.

What makes each part correct:

- executor: the vehicle is told to stand still outside RUNNING; ends latch;
  transfers are blind; success means complete, closed and filed; nothing
  waits for ever;
- capture gate: a camera believed closed is closed; no alarm from old heartbeats; a
  loss is noticed;
- archive: `idle` and `close()` tell the truth, a sync is not lost;
- broker and supervisor: only a plan that was shown is run; the audit sees final
  files; a dead executor's camera is closed; a command is not left hanging;
- swerve and tracker: HOLD means rest, silence stops the wheels, a steady command
  is driven, a segment ends;
- camera: blocks have no holes, a segment is one motion, an acknowledged close has
  lost nothing, requests are answered, kernels read the tiles they asked for;
- localization: nobody is told READY of a source that is silent;
- audit: nothing is reported as verified that was not imaged, a clean pass leaves no
  gap, gaps can be asked for again.

## 2. Modules

| Module | Models | Checked by |
|---|---|---|
| `MissionLife` | abstract specification: what an executor's status messages promise | `MissionExecution` implements it, `OperatorSession` uses it |
| `MissionExecution` | executor and capture gate, composed with the chassis modes, the camera service and topics, the archive as the executor sees it | `MCMission` and five configurations |
| `MissionExecutionProofs` | theorems about it | TLAPS |
| `ArchivePromise` | abstract specification: what a control loop may rely on | `ArchiveWriter` implements it |
| `ArchiveWriter` | the two-thread archive writer, lock by lock | `Archive.cfg` |
| `ArchiveWriterProofs` | theorems about it, the refinement among them | TLAPS |
| `OperatorSession` | broker and process supervisor around a `MissionLife` executor, with the camera calls of both | `Session.cfg`, `SessionReplaced.cfg` |
| `OperatorSessionProofs` | theorems about it | TLAPS |
| `SwerveController` | one wheel of the controller with the mode machine, limits and watchdogs | through `SegmentDrive` |
| `SegmentDrive` | the tracker driving that controller, or a hand on `/cmd_vel` | `MCDrive`, `Drive.cfg` |
| `SegmentDriveProofs` | theorems about both | TLAPS |
| `StatusStream` | the telemetry publisher | through `MeasurementAdapter` |
| `MeasurementAdapter` | the localization front end with its delivery queue, the GNSS receiver and the stream | `MCLocalization`, `Localization.cfg` |
| `MeasurementAdapterProofs` | theorems about it | TLAPS |
| `LineScanCamera` | the camera plugin: physics thread, sampler, block writers | `MCCamera`, `Camera.cfg` |
| `LineScanCameraProofs` | theorems about it | TLAPS |
| `DistanceTrigger`, `FlightRecorder` | pure parts of the plugin | assumptions of `MCCamera` |
| `TileCache` | slots, pins and the loading thread of the device caches | TLAPS |
| `CorrectionNode` | the online correction of published blocks | TLAPS |
| `CameraSupportProofs` | theorems about both | TLAPS |
| `RectanglePlan` | the geometry of a plan | through `CoverageAudit` |
| `CoverageAudit` | audit, rescans and the combination of sessions, against what was imaged | `MCAudit`, `Audit.cfg` |
| `CoverageAuditProofs` | theorems about it | TLAPS |
| `CoverageLists` | the interval passes of the audit over sorted lists, as the code has them | assumption of `MCAudit` |
| `SegmentPlan`, `CaptureQuality`, `StripArchive`, `GridLineScan` | segments and steps of a plan; motion exclusion; validated reading; the analytic-grid node | assumptions of `MCAudit` |

Operators placed right before a definition and sharing its name as a prefix or
its parameters (`FailRolling`, `CloseProgressBlind`, `OverrunTailOnly`, ...) are
seeded bugs: the definition with a guard dropped, an order swapped or a reset
missing. `PROJECT.json` says which property each must break. They are used nowhere
else.

### 2.1 MissionExecution and MissionLife

The executor is a single-threaded ROS node: a service callback, a topic callback
and the tick each run to completion, so each is one atomic action. What runs
beside it (camera, chassis, archive thread, time) interleaves between them.

| Code | Model |
|---|---|
| `self.state`, `self.reason`, `self.index`, `self.step_attempts` | `state`, `reason`, `index`, `attempts` |
| `self.core` (a `SegmentTracker`) | `core`: its state and kind; `REALIGNING` is ALIGNING with `was_running` |
| `ready_since`, `stopped_since`, `archive_since` | `since`: which of them are set |
| `CaptureGate` | `gate`: `active` (`unknown` is Python's `None`), `future`, `track`, `intervals`, `error`, `closeFailed`; the last heartbeat as `beat` and whether it is newer than the enable (`fresh`) |
| `last_command` | `cmd`, zero or not |
| `ArchiveWriter` seen from the executor | `archive`: `unsaved` is `not idle`, `errors`, `current` says the interval file holds the present list |
| `/motion_state` | `mode` |
| pose along the step | `pos`: `lead`, `region`, `runout`, `end` |
| the camera process | `sensor`, `service`, `reply`, `alarm` |

A tick is `\E polled \in Polls : Tick(polled)`: `Polls` are the gates `poll()` may
leave, and each disjunct of `Tick` is one path through the rest of the handler up
to the archive record it always ends with. `RestTick` is the last branch of
`tick()` and also every tick in which an error was raised first; the branches of
READY, of the pause and of `run_step` have an action each. `Drive` is the
code shared by a new and an old tracker: update, command, camera, region guard,
fault, hand-over, and `check_scan_heading`, which runs after it.

Abstractions, all of them on data or on time:

- A deadline is not a counter. Whenever one is running, the code that compares
  the clock with it may find it expired. So every order of expiry and event is
  covered; quantitative claims are not made. Where liveness needs a deadline, the
  fairness says that it is eventually found expired.
- A list of steps that begins with a pass is the rest of a mission, whose approach
  is over: it starts in the lead-in. `compile_steps` itself always begins with an
  approach.
- Positions are four places; a control tick crosses at most one boundary. With
  `LongRegion` a braking vehicle also crosses at most one; without, two.
- Poses decide `segment_arguments`: the model lets a heading be found misaligned at
  any place, and a position be on either side of the endpoint tolerance at `end`.
- The pose a parked vehicle is re-estimated at may differ from the one it was
  paused at, within the far boundary of the region only.
- Reasons are kept as far as a property reads them (operator, camera, archive,
  other).
- A second camera error overwrites the text of the first in the code; the text
  is not modelled, so only the first is delivered.
- `push` stands for wheels that turn in HOLD, which the controller answers with
  BRAKE whatever was commanded.

`Upsets` selects what the environment may do: `feedback` (stale localization,
stalled loop, a second publisher, a pose outside the bounds), `broker` (fault
message), `segment` (a capture segment breaks off), `heartbeat` (malformed),
`disk` (a failed write), `camera` (its process disappears), `push`.

`MissionLife` keeps of this the four fields of a status message the broker reads
(state, believed camera, call in flight, settled) and says how they may change in a
step. `ImplementsLife` is the refinement.

### 2.2 ArchiveWriter and ArchivePromise

Each `with self.signal` block is a step, and outside the lock each write, the
flush and the clearing of `dirty` are steps of their own, because `idle` is read
between them. Records are numbered, so the queue is the interval between two
counters. `ArchivePromise` has three steps: hand over, file, claim idle; the
refinement maps `idle` to its code, `not pending and not dirty`. What is written
straight to a path is treated as filed by the flush that follows it: later than
the truth, never earlier.

### 2.3 OperatorSession

The broker, its supervisor of the executor process, the executor as `MissionLife`
at the other end of a lagging status topic and four services, and the camera both
sides may call. A request, a status message and a broker tick are one action each;
a broker waiting for the process to exit (`waiting`) does nothing else. `child`
is the process object: the plan it was started with, the last status it received
(`snapshot`), and once the process is lost the supervisor's own camera close
(`own`). `camera` is the list of calls the camera has not served; a call of an
executor that has died may still be served. The executor can be killed at any
moment (`Crash`). SIGINT to SIGKILL is one `Exit`. Requests are a model value, and
the ids by which repeats are dropped make a repeat a stutter. An audit passes two gates:
that on edits (`Editable`, `operator_node.py:142`), which wants the mission over and the
camera closed with no call in flight, and its own, which wants the archive settled or the
executor lost. `BeliefIsDark` takes the two beliefs apart: that of a living executor about
itself, and that of the broker, which may be an old message.

### 2.4 SwerveController and SegmentDrive

One wheel stands for four, since the shared mode only depends on the worst of them.
Angles are on a 15 degree grid with the code's soft limits, margins and thresholds on
it; speeds are five values of which the fastest is one at which turning 15 degrees is
not tolerated. `Update` is one 20 ms update of the controller: allocation of
the branch (`swerve.hpp`), the latches (`unwinding`, `settled`), the mode, the ramps.
`Halt` is the node's reset on a lost clock or feedback. The wheel follows in
its own time (`WheelTurns`, `WheelRolls`), and may be pushed. A turn of the wheel is one
step, with no measured rate left after it, so `AtRest` has no counterpart of the check
that the measured steering rate is low (`swerve.hpp:159`): BRAKE may be left earlier than
in the code, never later than a wheel that follows its command.

`SegmentDrive` adds the tracker: `Begin` (a segment accepted at HOLD), `Wait`
(aligning, realigning), `Follow`, `Stopping`, `StartTrim`, `Fault`; its place on the
profile is `left`. The alternative `pilot` is a hand on `/cmd_vel`. `steady` says that
from now on nothing fails and the hand keeps its command; liveness is claimed after it.

### 2.5 MeasurementAdapter and StatusStream

Time is counted to a horizon and a measurement is its stamp. Wheels, IMU and the
two antennas deliver late, out of order of each other or not at all; the
delivery queue releases by due time (`delayed` is its set of items: all that is due is
handed over in one callback, and only the newest stamp of a kind counts); antenna halves are paired by epoch with at most
`MaxPairs` waiting; `Health` is the timer that states the verdict, which goes
through the bounded stream to its readers. `taken` remembers which halves were
received, so that properties can say what could have been known. Which parts fail
together in a behaviour is a constant (`Parts`), to keep instances finite in
reasonable time; within a behaviour they fail whenever they like. The delivery queue of
the code holds 512 items and ends the process when it is full (`core.py:43`); the model's
has no bound, and a run that ends there is the beginning of one that goes on.

### 2.6 LineScanCamera, its pure parts and the tile cache

Three kinds of thread: `Physics` runs `PostUpdate` step by step (its handshakes with
the sampler are where it can wait for ever), `Sampler` is `CudaLoop`, `Write` a
writer task. A line is its capture id; GPU, terrain and disk fail when they like.
`records` says what became of every block id (a file, a discarded tail, a failed
write). `Session` is what a reader finds of them, and `SessionIsReadable` asks
`StripArchive!Follows` of every two `Neighbours` in it, which is one iteration of the loop
of `validate_capture_sequence`. The one pair it may refuse is a discarded tail and lines next
to it that were reported as lost: the property allows this refusal, and that of any session
with a failed write, and does not call them wrong. `DrainWrites` collects the writers in
their order and throws at the first that failed, with later ones still at work (`Drained`).
A motion that is rejected ends a segment while the camera is on, a clock that is set back
also while it is off (`Boundary`). `breaks` remembers where a motion was rejected, `reported`
the lines a published failure covers.

`DistanceTrigger` and `FlightRecorder` are functions, compared in `MCCamera` with
what they must compute over all short paths: `PositionModeIsExact`,
`StrictModeFaultsOnRetrace`, `RecorderKeepsTheNewest`. `NeighboursAreCompared` shows there,
over all sessions of three records, that asking neighbours is the reader's pass over the
sorted session (`StripArchive!Valid`).

`TileCache` is what `cuda_tiles.cu` and `material_cache.cpp` have in common: a batch
asks for tiles, waits (one of them briefly, the other not at all, so the model may
give up at any time), pins the slots it found and lets a kernel read them with no
lock held, while the loading thread overwrites slots with no lock held either.
`contents` is what the memory of a slot really holds. That `Ask` comes with every batch, so
that the tiles pinned are among those wanted, is what the only caller does: it calls
`Prefetch` with the same poses right before `Sample`, on the one sampler thread
(`gz_linescan.cpp:1034`).

`CorrectionNode` receives the halves of published blocks in any order or not at all,
and corrects them by id. Stamps grow with ids; the deadline may expire at any time.

### 2.7 RectanglePlan, CoverageAudit and their pure companions

`RectanglePlan` is the geometry: tracks, lead-ins, run-outs, over-run, feasibility.
`CoverageAudit` drives a planned pass with a camera whose true place is within the
declared error of every estimate, lets blocks be lost, rejected or discarded as tails
and navigation fail, and applies the audit's walk, the trimming of spans, the rescan
candidates and the combination of sessions. `seen` is the road really imaged. The code
merges and complements intervals in one pass over a sorted list; the model says in terms of
sets which intervals that yields (`Runs`), and keeps the passes in `CoverageLists`.

What these leave out:

- Checks that end without a report: of the files `combine` is given (`coverage.py:90`), and
  of a block that two intervals claim (`capture_audit.py:113`). A report that does not
  exist claims nothing.
- Tags between the first and the last of a block, and the four corners of a footprint with
  a sigma of its own for each tag (`coverage.py:37`): one declared uncertainty stands for the
  worst of them, and one strip for the width of the road.
- What the planner refuses for the optical bounds or for a count out of range
  (`planner.py:217`): `Feasible` admits more requests than the code, so what holds of all of
  them holds of those that pass.

Compared in `MCAudit` with what they must compute, over bounded inputs:

- `ListsAreExact` (`CoverageLists`): for any three intervals, also empty, touching and
  overlapping ones, the passes over lists yield in order the intervals of `Merge` and
  `Complement`.
- `PlansCompile` (`SegmentPlan`): all 164 feasible of 256 requests, of up to six
  tracks, compile to the step lists `MissionExecution` takes as input; each step begins
  where the last ended, and each pass takes the camera from a lead-in before the
  region to an over-run behind it.
- `WindowsAreExact` (`CaptureQuality`): joining windows neither hides a moment of
  turning wheels nor invents one.
- `AcceptedIsWitnessed`: every moment of an accepted block lies in a control step the
  archive has a record of.
- `ReadsAreExact` (`StripArchive`): over 872 valid sessions, a read returns exactly the
  rows asked for or refuses. The order of time stamps, which `Valid` leaves out, is not
  looked at.
- `ImagesAreWhole` (`GridLineScan`): the node of the analytic grid gets wheel positions
  and poses from topics of their own and exposes a line only once the poses around it
  are known. After every sequence of five out of ten messages (late poses, a clock that
  jumps back, a swerve, a stop, requests, the watchdog) to a node under way, the images
  of a segment show neighbouring lines of one stretch of motion, and the reader accepts
  the session. Images of two lines, three remembered poses and at most three waiting lines
  make every limit bite. A full archive thread ends the node (`node.py:190`): what it had
  written until then is the session of a shorter sequence.

## 3. Runs

| Run | Asks | Bounds | Distinct states |
|---|---|---|---|
| `mission_safety` | is a mission safe in every interleaving, and does it keep `MissionLife`? | APPROACH, PASS, ROTATE_180, PASS; two segments per step; all upsets but a dying camera | 2.09 M |
| `mission_liveness` | do missions, pauses and cancellations end although the camera may never answer or may die? | one pass, one segment per resume | 110 k |
| `mission_settles` | does a fault end at rest and dark for good, and is a camera that switches itself off noticed? | one pass; segment breaks | 162 k |
| `archive` | do `idle` and `close()` tell the truth, is no sync lost, does close end? | four records, failing disk | 4 k |
| `session` | does the broker run, audit and close only what it should? | two requests, one executor, start and cancel | 148 k |
| `drive` | do tracker and controller always get somewhere, and does silence stop them? | segments of one unit, one trim, two directions by hand | 286 k |
| `localization` | is an outage always noticed, a backlog always worked off? | horizon 4, three groups of failing parts | 5.57 M |
| `camera` | are blocks whole, sessions readable, closes complete, requests answered? | blocks of 3, batches of 2, queue of 2, six lines, three requests, one break | 1.47 M |
| `audit` | is verified road imaged, and is every gap reachable? | one to three tracks, one rescan | 97 k |
| `retained_frame`, `short_region`, `session_replaced` | disagreements, below | one pass; one request | |

Why the bounds are enough. Two passes with a transfer between them contain every
hand-over between a step with and a step without the camera, and two intervals are
what `PassExposedOnce` needs to be wrong; two segments per step give one retry
before `STEP_NOT_CONVERGED` (five in the code; the theorems hold for any
number). A pause and a resume may happen at every point and any number of times.
The death of the camera process multiplies the state space and is kept to the run
that is about it. So `mission_settles` asks of a camera that switches itself off, not of
one that dies under a parked mission: that instance (312 k states) was explored and
`ShutterLossNoticed` holds on it, but it takes too long to be kept. Four records let one batch be written while another waits and
a third is handed over. One executor is enough for a session to lose it, close its
camera and be edited; two requests are needed for a plan to differ from the one
shown. A segment of one unit has a start, an end and a trim, and 75 and 90
degrees by hand are two requests of which one is close to a soft steering limit. Six lines fill two blocks
of three, of which a close leaves a tail on either side of `MinTail`; the queue is
full with two. In localization every limit expires within the horizon, and half
pairs fill their room. One rescan combines two sessions.

The only wholly invented numbers are the sizes of the grids; thresholds of the
controller and the order of the limits are those of the code.

Deadlock checking is off everywhere: a mission that has ended, a closed writer, a dead
simulator, the end of the horizon and a combined report really stop.

### Disagreements the runs exhibit

1. `retained_frame`. `resume()` refuses to continue if the vehicle would have to
   turn with a partial frame in the camera ("cannot rotate with a retained partial
   frame", `execution_node.py:133`). The next tick evaluates the same question
   again from a newer pose (`:304`) and does not look at the shutter, so the turn
   the check refuses can be built anyway.
2. `short_region`. If the region is shorter than the braking distance, a pause in
   the lead-in carries the vehicle past it; resume takes the run-out branch and the
   mission ends ACQUIRED without having opened the camera on that pass. With
   `LongRegion`, `AcquiredIsComplete` holds.
3. `session_replaced`. A running mission is not to be replaced, only cancelled
   (`operator_node.py:142`). The gate reads the last status message: an edit that
   follows an acknowledged start before the next message interrupts the mission.

### Observations met while modelling, without a run

- The guard "never let the camera reach the region without it" (`execution_node.py:339`)
  is enforced by `run_step` only: a vehicle braking for a pause can cross the
  boundary with the open unacknowledged and park inside. On resume the guard faults
  the mission, so nothing false is recorded.
- In FAULT the settled flag can be set while the close is still in flight, before
  the record that closes the last interval exists (`:229`). The audit that waits for the
  flag does not run then, but for another reason: the gate on edits, which it passes as
  well, wants the camera closed (`operator_node.py:119`, `:142`).
- After a sampler failure that discarded a short tail and lost queued lines, the plugin
  continues in a new segment with later capture ids (`gz_linescan.cpp:869`), but
  `validate_capture_sequence` demands contiguous lines around every discarded tail,
  across segments too (`offline_correction.py:58`): such a session is refused as a
  whole. `SessionIsReadable` shows that this pair, with every line it misses reported as
  lost, and a write that failed are the only ways to lose a session that was closed.
- The same discarded tails keep their block ids (`gz_linescan.cpp:1203`), so the online
  correction waits for a block that never comes, and ends the session with a timeout or
  an overflow although nothing is wrong (`MissingBlockStops`; `correction_node.py:65`).
  It is a diagnostic that has to be switched on; the offline correction knows of tails.
- A derived-cache slot that lost its completion mark reads as absent but exists, so
  later writers think another process won and never repair it
  (`derived_cache.py:126`, `:154`).
- The panel clears its "edited" mark when a preview is answered, also if the fields
  changed in between (`mission_panel.cpp:120`). The broker prepares what it
  previewed, so what runs is still what was shown.
- The executor outlives a broker that crashes; nothing else owns it.
- Request ids are remembered up to a bound, past which every request is refused.

## 4. Fairness

Mission (`ExecutorFairness`): the timer keeps firing, and ticks in which the simulation
clock moved keep occurring (otherwise `SIM_CLOCK_STALLED` faults the mission); a
deadline that is passed again and again is eventually found expired (strong fairness on
each timeout, since the ticks that check it are interleaved with others). The chassis
obeys a zero command, which `drive` shows of the controller. The archive thread is
scheduled. A live camera sends heartbeats. The camera is assumed to answer its service
only in `AnsweredSpec`, and only `FaultEndsSafe` needs it: without an answer nobody
can know the shutter. Nothing is assumed of the operator, of localization or of the
moving chassis.

Archive: the writer thread runs and writes return. That the flush interval passes is
not assumed: `SyncIsPrompt` is about not needing it.

Session: the broker ticks; a service call or a supervisor's step whose deadline keeps
running is eventually resolved (strong, since a tick may do other things); a fault
message sent arrives; a process that was told to stop exits, by SIGKILL if need be.
The camera need not answer.

Drive: the controller updates, the wheel follows its command, the tracker is called;
a profile that may advance again and again does. No fairness is given to upsets
or to whoever gives commands; `SteadyDrives` is about commands that no longer change.

Camera: each thread runs. No request, line or failure is owed; a wait on a condition
ends if the other thread makes it true, which is the question `RequestAnswered` asks.

Localization and audit are checked for safety only: there every duty is bounded by
time, or is a function of the files.

## 5. Proofs

Everything in the eight proof modules is checked by `tlapm` for all values of the
constants, from named assumptions: `Steps` is any sequence of the four step kinds,
`MaxAttempts` any natural number, `Upsets` any set of upsets; any number of records;
any finite set of slots and any set of tiles; any set of published blocks in which
neighbours of a segment fit (`SessionAssumption`, which is what `SessionIsReadable`
checks of the camera); any plans, requests and executors; any block, batch and queue
sizes (`CameraAssumption`), any number of lines and any motion; any delays, age limits,
number of half pairs and depth of a status queue, and any horizon; segments of any
length, any number of trims, any upsets and any directions asked for by hand; any requests,
of which the planner's check is part of the model, any lengths of blocks and any number of
rescans (`AuditAssumption`).

The executor (`MissionExecutionProofs`):

- `TypeCorrect`: `TypeOK`. Not inductive alone: `RefuseSegment` counts one attempt
  past the limit, and could count again if the mission were not faulted by it.
  `AttemptsSpent` says so; `Inductive` is their conjunction.
- `Standstill`: outside RUNNING the last command is zero; one step per handler.
- `TerminalLatched`: the action property, from the fact that a tick in an ended
  state can only be a `RestTick`.
- `BlindTransfers`, `DarkCancellation`, `QuietPause`, for missions with capture: all
  three follow at once from `Shutter`, the invariant that relates what the gate believes to
  what the sensor does. `Dark`: a camera believed closed is closed, unless an open
  was just answered. `CallsMatch`: answers belong to calls, and an open is asked of
  a camera not open. `OpenOnLead`: an open in flight means a pass, and in RUNNING
  the lead-in, because the region guard faults otherwise; this is why the run-out
  of a pass, where the close is asked for, never finds an open still in flight.
  `ClosedOffPass`: off a pass the camera is closed or closing, and closed once a
  segment is under way. `Quiet`: nothing is in flight in PAUSED, and a cancelled or
  successful mission has seen its camera closed. The
  heart is `DriveShutter`, about the branch of `run_step` that drives.
  Without capture there is no camera to speak of, hence the premise.
- `PassesExposedOnce`: from `Once`. The intervals are in the order of their tracks, none
  beyond the step under way (`InOrder`); an open is asked for a pass that has no interval
  yet, under its number (`OpensFresh`), because a pass has none while its lead-in is
  driven with the camera off (`Leading`), its region is driven only with the camera open
  (`Scanning`), and a close in flight on the lead-in is that of the pass before
  (`ClosesLate`).
- `AcquisitionIsComplete`: from `Complete`. A pass is not left, by the vehicle or by the
  mission, without its interval (`Passed`, `AllDone`); one that is reached with the camera
  still open from the pass before waits for the close in its lead-in (`Carried`); success
  is declared at the end of the list over a drained archive (`Success`). The hypothesis
  `LongRegion` is needed, and what it excludes is disagreement 2: the run `short_region`
  is the counterexample without it.
- `FailedCloseFaults`: `poll` reports a failed close together with an error, so the
  tick that learns of it can only be a `RestTick` (`BrokenTick`), which faults every
  state but a successful one; and there `Quiet` says that no close is in flight.
- `NoAlarmIsFalse`: from `Heard`, by `TickGate` (what the requests of a tick can do to
  the gate): a fresh heartbeat is true of an armed camera, because a sensor starts
  only on an open, which is asked of a camera not armed; and once the camera has been
  reported closed no tick asks it to open.
- `SettledFiled`: from `Filed`. A clean idle archive holds the last interval list, and
  only the last tick of a mission that has ended declares it settled; the same tick
  takes the declaration back if it learns of a late interval.
- `ExecutorImplementsLife`: the refinement of `MissionLife`, with and without capture.
  Each action maps to a step of the promise or to a stutter; what a tick may do to the
  four fields is read off `TickGate`, and that a settled mission makes no more calls
  comes from the invariants above.

The archive writer (`ArchiveWriterProofs`):

- `IdleIsFiled`, `DrainedIsFiled`, `PromiseKept`: from `Honest`, which says when the
  `dirty` flag may be believed at each point of the writer's loop. `PromiseKept` is
  the refinement: initial states map to initial states, each step to a step of the
  promise or to a stutter.

The session (`OperatorSessionProofs`), where broker, supervisor and executor know of each
other only what the last message said:

- `SessionRunsWhatIsShown` and `SessionAuditsWhatIsOver` from `Owned`: while an answer of
  the executor is awaited no audit runs, and what is being prepared is the preview
  (`Releasing`); what was last heard of an executor is never ahead of it: a mission heard to have
  ended with its camera closed has ended so, and one that is noticed as lost has exited
  (`Heard`).
- `SessionBeliefIsDark` from `Shutter`, about the queue of calls at the camera: the
  broker's close is the last of them and only made of a lost executor (`BrokerCall`), an
  executor has one call in flight, behind all that others left (`WorkerCall`), its answer
  means that the camera has served every earlier call (`WorkerAnswered`), and once it
  has heard that the camera is closed only its own call opens it (`WorkerKnows`), which
  still holds of one that has died without a call in flight.

The localization front end (`MeasurementAdapterProofs`):

- `NewestVerdictIsShown` from `Told`: the newest verdict is the last in the queue, else
  the one being published, else the one shown. A full queue drops at the other end.
- `OutagesAreNoticed` from `Traced`: a measurement handed to the filters is not newer
  than what came from its topic, a half that waits was received, a pose had both
  halves; so a verdict READY of this moment has every source heard of.
- `PairsAreUsed` from `Paired`: the halves of a side arrive in the order of their epochs,
  each once (`Arrives`, `Once`); no epoch waits with both halves (`Single`); and a half that
  could have made a pose waits, unless enough newer epochs were received or its epoch was
  completed when no pose was possible (`Waits`). A half that `Newest` gives up has its
  newer epochs among those received (`GivenUp`), and these only grow (`Crowding`).

The camera (`LineScanCameraProofs`):

- The threads are handled apart. A step of the sampler or of a writer is summed up by
  `Moves`: blocks are only made of lines in flight and under the segment of the moment, a
  segment is closed with nothing in flight, and short of an exception what was in flight
  is there still or went to a writer or a record. A step of the physics thread is summed
  up by `Strides`: it takes lines, with or without a break, sees a failure, settles a
  toggle, replaces the sampler or changes none of this. The invariants then speak of sets
  of lines only. `Handshake` says what each thread may rely on while the other waits for
  it, `Clean` what a toggle that was settled has left behind.
- `SegmentsAreOneMotion` from `Motion`: a stretch that has ended lies behind all that is
  in flight and behind every block of the current segment, unless its end is still to
  reach the sampler (`Cut`); so no segment spans a break (`Apart`).
- `ClosingIsComplete` from `Balance`: every line that was taken is on record, reported
  lost, in flight or with a writer, unless an exception is on its way to be seen
  (`Accounted`); after an acknowledged closing it is one of the first two (`Closed`).
- `ClosedSessionIsReadable` is about the order of lines, which sets do not show. Blocks are
  in order, and within a segment every line between two of them is in a block as well
  (`Sorted`); each block has one record (`Single`). What is not in a block yet goes on from
  them (`Order`): the block being filled, the batch, the job at hand and the jobs of the
  queue are strips of which each begins where the one before it ends (`Held`, `Fed`,
  `Queued`), and the last ends at the next line to be taken, or where the job begins that
  the physics thread waits for (`Meets`). After a failure only the block being filled is
  still in order; what was behind it is lost, and the sampler that takes over begins a new
  segment, with the hole between the two reported. An answered closing leaves no line in
  memory and nothing to be written (`Settled`), so that what is not on record then is
  reported (`Closed`). That the segment
  ends nowhere else rests on `Handshake`: the sampler serves the queue first, so that a job
  that ends a segment finds every earlier line in a block.

Controller and tracker (`SegmentDriveProofs`), on the model's grid of angles and speeds:

- `HoldShownStill` from `Reset` and `Resting`: HOLD is entered at rest; a controller that was
  just reset adopts its feedback before it may show HOLD.
- `SegmentsKeepBranch` from facts about `allocate` and an invariant about angles. A branch two
  grid steps farther away is never the cheapest, since penalties are worth less
  (`FartherIsDearer`); so commanded and actual angle stay on one side of the range (`Lag`). A
  branch taken at standstill has its margin, and for a direction straight across only
  one has (`NotAtALimitAtRest`). What the tracker asks for is its axis, or a grid step
  beside it once the segment moved (`Told`); from the middle of the range these lead to
  the middle, where two branches are as far it is the penalty that decides
  (`StaysAcross`, `CentreIsCheaper`). Hence `Sideways`, and with it `Inner`: a segment is driven
  clear of the limits.

The audit (`CoverageAuditProofs`):

- The interval operators first: `MergeIsUnion`, `ComplementIsRest`, `SlabsAreUnion` say which
  positions their results hold, and `CombinedIsUnion` that a combined report holds those of
  the parent and of the session and no others.
- The planner's geometry then. `CentredIsAccepted`: spacing and clamping of the tracks leave
  room for the uncertainty, so a camera on its line is always accepted.
  `AcceptedIsSpanned`: a footprint that is accepted padded covers the strip wherever the
  camera truly was. `PassEndsBehind`: the over-run pays for a discarded tail.
  `RescanIsSite`: a candidate's piece of road lies within the parent's region.
- `VerifiedRoadWasImaged` from `Tracked`: the intervals kept so far were imaged, and of the
  run at hand the road from the least advanced place where its first tag may have been, up
  to the end of the last block (`Backed`). What is verified of a run lies an uncertainty
  inside its ends. `Placed` and `Ranges` (sites within the region, proper intervals) carry
  this over to the road of the parent, along which a session may run backwards.
- `CleanPassLeavesNoGap` from `Undisturbed`: a pass nothing went wrong with is a single run
  from before the region to at most an uncertainty short of where the camera is.
- `MissingRoadIsListed` from `Reachable`: a gap of a combined report lies in a gap of the
  report before, hence in its candidate, which stays listed because the gap is part of it.

Tile cache and correction (`CameraSupportProofs`):

- `CacheInvariant`: no tile is held twice, a ready slot holds its tile complete, a slot
  is loading only while the worker has it, and pins are those of the batch being read.
  `ReadsAreWhole` follows: what a kernel reads through its map is never overwritten.
  `WaitsAreServed` says that a batch that misses a tile never waits on a worker with
  nowhere to load it: with no pins left every slot that cannot be overwritten holds a
  wanted tile, each tile once, so if none could be there would be an injection from
  the slots into the wanted tiles other than the missing one, which are fewer.
- `CorrectionInvariant`: while the node works, the halves delivered are those of the
  blocks corrected and those held, and what is held is still to come. Hence
  `NoOrderIsAccused`: late, early or lost halves are never reported as duplicates or
  holes, as `STAGE2_OPTIX_CALIBRATION.md:38` promises; `WaitsForWhatIsMissing`: the node
  waits only for halves that have not come; and `MissingBlockStops`, the price of it.

`QuietPause`, `FailedCloseFaults`, the theorems about the cache and the correction, and the
type theorems of session, localization, camera, drive and audit state properties no run lists; the cache
was explored with three slots and four tiles
(43 k states), the correction with seven blocks in three segments and a missing one
(49 k states), before their invariants were proved. Those of the camera and of the audit were
checked on the instances of `camera` and `audit` first, those of the drive with a tracker that suffers every upset and
two trims (2.4 M states).

Only model-checked:

- The functions compared over bounded inputs (the assumptions of `MCCamera` and `MCAudit`),
  among them that lists compute what the audit's sets say and that neighbours are what the
  reader compares: what a fold or a sort yields is an induction over data.
- All liveness: with fairness and ENABLED it is out of the prover's reach.

## 6. What is left

Proofs: every invariant and every action property that a run checks is proved. What remains is
the liveness and the comparisons just named.

Not modelled, and why:

- Pose arithmetic, profiles, control laws, GNSS noise, the encoder, radiometry, scene
  and material geometry: numeric, and decided by reals rather than by control. Where a
  decision of the control depends on them, the model leaves the decision open.
- The synchronous render back end of the plugin: a predecessor of the asynchronous one, with no concurrency to get wrong.
- The derived cache: it replaces files by renames whose crash semantics belong to the
  file system.
- The segment trial node (`tracking_node.py`): drives one tracker by hand, once per
  process; what its tick does is what `Drive` of `MissionExecution` does without camera.
- The RViz panel, previews and the road display: views. What the panel may send is the
  operator of `OperatorSession`.
- Quantiles, counters and the callback trace: evidence for people; the one decision
  taken on them, `CONTROL_LOOP_STALLED`, is an input of `MissionExecution`.
- Launch files, robot description, worlds, and the stand-alone scripts in `tools/`: about
  half of the repository's lines; they hold no state a vehicle depends on.

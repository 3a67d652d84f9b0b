------------------------- MODULE MissionExecution -------------------------
(***************************************************************************)
(* The rectangle executor (agv_mission/execution_node.py) with its capture *)
(* gate (agv_mission/capture.py), between the operator's service calls,    *)
(* the swerve chassis, the line-scan camera and the archive thread.        *)
(*                                                                         *)
(* The executor is one single-threaded ROS process: a service call, a      *)
(* topic callback and the 20 ms tick are each one atomic action.  The      *)
(* camera, the chassis, the archive thread and the passing of time run     *)
(* beside it; archive progress during a tick is part of the tick.          *)
(***************************************************************************)
EXTENDS Naturals, Sequences

CONSTANTS
  Steps,          \* the compiled step kinds, in order (execution.compile_steps)
  MaxAttempts,    \* segments one step may take before STEP_NOT_CONVERGED (5)
  CaptureEnabled, \* the node's `capture` parameter
  AutoStart,      \* the node's `autostart` parameter
  LongRegion,     \* the region is longer than the braking distance
  Upsets          \* which of AllUpsets the environment may cause

StepKinds == {"APPROACH", "SHIFT", "ROTATE_180", "PASS"}

\* Lost feedback or a blocked loop, a fault message from the broker, a capture
\* segment that breaks off, a malformed heartbeat, a failed write, a camera
\* process that disappears, wheels turned while the vehicle stands.
AllUpsets == {"feedback", "broker", "segment", "heartbeat", "disk", "camera", "push"}

ASSUME StepsAssumption == Steps \in Seq(StepKinds)
ASSUME AttemptsAssumption == MaxAttempts \in Nat
ASSUME FlagsAssumption ==
  /\ CaptureEnabled \in BOOLEAN
  /\ AutoStart \in BOOLEAN
  /\ LongRegion \in BOOLEAN
ASSUME UpsetsAssumption == Upsets \subseteq AllUpsets

VARIABLES
  state, reason,  \* mission state and the reason it was left
  index,          \* steps finished so far; the current one is Steps[index + 1]
  core,           \* the segment tracker's state and kind, or NoCore
  attempts,       \* trackers built for the current step
  since,          \* which of ready_since, stopped_since, archive_since are set
  settled,        \* archive_settled
  cmd,            \* the last body command: "zero" or "move"
  gate,           \* the CaptureGate object
  archive,        \* ArchiveWriter: unsaved work, errors, interval file current
  mode,           \* /motion_state as last received
  pos,            \* how far the vehicle is along the current step
  sensor,         \* the camera exposes lines
  service,        \* its set_enabled service
  reply,          \* its answer to the outstanding call
  alarm           \* an interruption event is on its way to the gate

executorVars == <<state, reason, index, core, attempts, since, settled, cmd>>
cameraVars == <<sensor, service, reply, alarm>>
vars == <<executorVars, gate, archive, mode, pos, cameraVars>>

States == {"READY", "RUNNING", "PAUSING", "PAUSED", "CANCELING",
           "CANCELED", "FAULT", "ACQUIRED", "COMPLETED"}
Terminal == {"COMPLETED", "ACQUIRED", "CANCELED", "FAULT"}
Reasons == {"", "CANCELED", "CAMERA", "ARCHIVE", "MISSION"}

\* REALIGNING is the tracker's ALIGNING with was_running set: the segment has
\* moved before and was interrupted.
Kinds == {"translate", "rotate"}
TrackerStates == {"ALIGNING", "RUNNING", "REALIGNING", "STOPPING", "FAULT"}
NoCore == [state |-> "none", kind |-> "none"]
Cores == [state : TrackerStates, kind : Kinds] \cup {NoCore}
Modes == {"HOLD", "ALIGN", "DRIVE", "BRAKE"}

\* Travel along a step: before the region, inside it (the camera is between
\* -coverage_error and length + overrun), past it, at the step's endpoint.
\* Steps other than PASS use only "lead" (on the way) and "end".
Places == {"lead", "region", "runout", "end"}

Intervals == Seq([track : Nat, closed : BOOLEAN])
Gates == [active : {"unknown", "on", "off"}, future : {"none", "on", "off"},
          track : Nat, intervals : Intervals, error : {"none", "disabled", "other"},
          closeFailed : BOOLEAN, beat : {"none", "on", "off"}, fresh : BOOLEAN]
Archives == [unsaved : BOOLEAN, errors : BOOLEAN, current : BOOLEAN]

TypeOK ==
  /\ state \in States
  /\ reason \in Reasons
  /\ index \in 0..Len(Steps)
  /\ core \in Cores
  /\ attempts \in 0..MaxAttempts + 1
  /\ since \in SUBSET {"ready", "stopped", "archive"}
  /\ settled \in BOOLEAN
  /\ cmd \in {"zero", "move"}
  /\ gate \in Gates
  /\ archive \in Archives
  /\ mode \in Modes
  /\ pos \in Places
  /\ sensor \in BOOLEAN
  /\ service \in {"absent", "ready", "lost"}
  /\ reply \in {"none", "ok", "fail"}
  /\ alarm \in BOOLEAN

-----------------------------------------------------------------------------
(* Steps and places *)

Step == Steps[index + 1]
AtMissionEnd == index = Len(Steps)
OnPass == ~AtMissionEnd /\ Step = "PASS"

\* The places one control tick of motion can reach.  A pass crosses at most
\* one boundary per tick; any other step is either on the way or there.
Reach(p) ==
  IF OnPass
  THEN CASE p = "lead" -> {"lead", "region"}
         [] p = "region" -> {"region", "runout"}
         [] OTHER -> {p, "end"}
  ELSE {p, "end"}

\* Where a vehicle told to brake may come to rest.
BrakeReach(p) ==
  IF LongRegion \/ ~OnPass THEN Reach(p) ELSE UNION {Reach(q) : q \in Reach(p)}

\* The fused position may be re-estimated while parked, within
\* pause_max_displacement_m: the far boundary just crossed may be uncrossed.
Reestimated(p) == IF OnPass /\ p = "runout" THEN {"region", "runout"} ELSE {p}

-----------------------------------------------------------------------------
(* CaptureGate.  A deadline is not a state: whenever one is running, the     *)
(* code that reads the clock may find it expired.                            *)

CheckedStale ==
  IF gate.active = "on" /\ gate.future = "none"
  THEN LET seen == IF gate.beat = "off" THEN "disabled" ELSE gate.error
       IN  {[gate EXCEPT !.error = e] : e \in {seen, "other"}}
  ELSE {gate}

CheckedDeaf ==
  IF gate.active = "on" /\ gate.future = "none" THEN {gate, [gate EXCEPT !.error = "other"]} ELSE {gate}

CheckedUntimed ==
  IF gate.active = "on" /\ gate.future = "none"
  THEN {[gate EXCEPT !.error = IF gate.fresh /\ gate.beat = "off" THEN "disabled" ELSE @]}
  ELSE {gate}

\* check_state: an armed camera must keep reporting, and itself enabled.
Checked ==
  IF gate.active = "on" /\ gate.future = "none"
  THEN LET seen == IF gate.fresh /\ gate.beat = "off" THEN "disabled" ELSE gate.error
       IN  {[gate EXCEPT !.error = e] : e \in {seen, "other"}}
  ELSE {gate}

CloseLast(s) == IF s = <<>> THEN s ELSE [s EXCEPT ![Len(s)].closed = TRUE]

PollsPatient ==
  CASE gate.future = "none" -> Checked
    [] gate.future # "none" /\ reply = "none" -> {gate}
    [] gate.future # "none" /\ reply = "fail" ->
         {[gate EXCEPT !.future = "none", !.closeFailed = gate.future = "off", !.error = "other"]}
    [] gate.future = "on" /\ reply = "ok" ->
         {[gate EXCEPT !.future = "none", !.active = "on", !.beat = "off", !.fresh = FALSE,
                       !.intervals = Append(@, [track |-> gate.track, closed |-> FALSE])]}
    [] OTHER ->
         {[gate EXCEPT !.future = "none", !.active = "off", !.beat = "none", !.fresh = FALSE,
                       !.intervals = CloseLast(@)]}

\* poll: the liveness check, then the outstanding call, if any.  The last
\* heartbeat before an open is acknowledged is older than the acknowledgement.
Polls ==
  CASE gate.future = "none" -> Checked
    [] gate.future # "none" /\ reply = "none" -> {gate, [gate EXCEPT !.error = "other"]}
    [] gate.future # "none" /\ reply = "fail" ->
         {[gate EXCEPT !.future = "none", !.closeFailed = gate.future = "off", !.error = "other"]}
    [] gate.future = "on" /\ reply = "ok" ->
         {[gate EXCEPT !.future = "none", !.active = "on", !.beat = "off", !.fresh = FALSE,
                       !.intervals = Append(@, [track |-> gate.track, closed |-> FALSE])]}
    [] OTHER ->
         {[gate EXCEPT !.future = "none", !.active = "off", !.beat = "none", !.fresh = FALSE,
                       !.intervals = CloseLast(@)]}

GrantedOnceAsked(g, value) == TRUE

\* request(value) answers True when nothing is left to wait for ...
Granted(g, value) ==
  ~CaptureEnabled \/ (g.future = "none" /\ ~(value = "off" /\ g.closeFailed) /\ g.active = value)

RequestedIfOpen(g, value, track) ==
  IF ~CaptureEnabled \/ g.future # "none" \/ (value = "off" /\ g.active # "on")
         \/ g.active = value
  THEN g
  ELSE IF service # "ready" THEN [g EXCEPT !.error = "other"]
       ELSE [g EXCEPT !.future = value, !.track = IF value = "on" THEN track ELSE @]

RequestedIfSound(g, value, track) ==
  IF ~CaptureEnabled \/ g.future # "none" \/ g.error # "none" \/ g.active = value
  THEN g
  ELSE IF service # "ready" THEN [g EXCEPT !.error = "other"]
       ELSE [g EXCEPT !.future = value, !.track = IF value = "on" THEN track ELSE @]

\* ... and this is the gate it leaves.
Requested(g, value, track) ==
  IF ~CaptureEnabled \/ g.future # "none" \/ (value = "off" /\ g.closeFailed)
         \/ g.active = value
  THEN g
  ELSE IF service # "ready" THEN [g EXCEPT !.error = "other"]
       ELSE [g EXCEPT !.future = value, !.track = IF value = "on" THEN track ELSE @]

\* At rest with the camera known to be closed: what CANCELING waits for.
ReleasedHasty(g) == mode = "HOLD" /\ g.future = "none"
Released(g) == mode = "HOLD" /\ g.active = "off" /\ g.future = "none"

\* What the archive thread may have done by the time anyone looks at it.
ArchiveProgress(a) ==
  {a} \cup (IF a.unsaved THEN {[a EXCEPT !.unsaved = FALSE, !.current = TRUE]} ELSE {})
      \cup (IF a.unsaved /\ "disk" \in Upsets
            THEN {[a EXCEPT !.unsaved = FALSE, !.errors = TRUE]} ELSE {})

DrainedUnread(a) == ~a.errors
Drained(a) == ~a.unsaved /\ ~a.errors

\* poll hands the new interval list to the archive when a call is acknowledged.
Submitted(polled) ==
  IF polled.active # gate.active
  THEN [archive EXCEPT !.unsaved = TRUE, !.current = FALSE] ELSE archive

-----------------------------------------------------------------------------
(* The tick: poll the gate, raise its errors, then act by state *)

\* fault(): the first three terminal states are never left.
FaultedAlways(s) == "FAULT"
Faulted(s) == IF s \in {"COMPLETED", "ACQUIRED", "FAULT"} THEN s ELSE "FAULT"

FailRolling(why) ==
  /\ state' = Faulted(state)
  /\ reason' = IF state' # state THEN why ELSE reason
  /\ UNCHANGED cmd

Fail(why) ==
  /\ state' = Faulted(state)
  /\ reason' = IF state' # state THEN why ELSE reason
  /\ cmd' = "zero"

\* Every tick ends by appending its record to the archive.
EndTick(g, a) ==
  /\ gate' = g
  /\ archive' = [a EXCEPT !.unsaved = TRUE]
  /\ reply' = "none"
  /\ UNCHANGED <<mode, sensor, service, alarm>>

Broken(polled) == polled.error # "none" \/ archive.errors

\* CANCELING and the terminal states: brake, close the camera, settle the
\* archive.  An error found by this tick arrives here as a fresh FAULT.
RestTick(polled) ==
  /\ Broken(polled) \/ state \in Terminal \cup {"CANCELING"}
  /\ LET s == IF Broken(polled) THEN Faulted(state) ELSE state
         g == Requested(polled, "off", 0)
     IN  /\ state' = IF s = "CANCELING" /\ Released(g) THEN "CANCELED" ELSE s
         /\ reason' = IF s # state THEN IF polled.error # "none" THEN "CAMERA" ELSE "ARCHIVE"
                      ELSE reason
         /\ \E a \in ArchiveProgress(Submitted(polled)) :
              /\ settled' = IF state' \in Terminal THEN Drained(a) ELSE settled
              /\ EndTick(g, a)
  /\ cmd' = "zero"
  /\ UNCHANGED <<index, core, attempts, since, pos>>

\* READY: close the camera once, and dwell while localization is valid in HOLD.
\* With autostart the tick also runs the start handler.
ReadyTick(polled) ==
  /\ ~Broken(polled) /\ state = "READY"
  /\ \E valid, dwelt, compiled \in BOOLEAN :
       LET prepared == IF CaptureEnabled /\ polled.active = "unknown" /\ service = "ready"
                       THEN Requested(polled, "off", 0) ELSE polled
           dwelling == valid /\ mode = "HOLD"
           starting == AutoStart /\ dwelling /\ dwelt /\ "ready" \in since
           started == starting /\ compiled /\ Granted(prepared, "off")
       IN  /\ state' = IF started THEN "RUNNING" ELSE state
           /\ since' = IF dwelling THEN since \cup {"ready"} ELSE since \ {"ready"}
           /\ EndTick(IF starting THEN Requested(prepared, "off", 0) ELSE prepared,
                      Submitted(polled))
  /\ UNCHANGED <<reason, index, core, attempts, settled, cmd, pos>>

\* A stalled loop or clock, a bad time step, invalid localization; when RUNNING
\* also a competing /cmd_vel publisher or a pose outside the drivable bounds.
RejectFeedback(polled) ==
  /\ "feedback" \in Upsets
  /\ ~Broken(polled) /\ state \in {"RUNNING", "PAUSING", "PAUSED"}
  /\ Fail("MISSION")
  /\ EndTick(polled, Submitted(polled))
  /\ UNCHANGED <<index, core, attempts, since, settled, pos>>

\* PAUSED holds zero.
ParkedTick(polled) ==
  /\ ~Broken(polled) /\ state = "PAUSED"
  /\ cmd' = "zero"
  /\ EndTick(polled, Submitted(polled))
  /\ UNCHANGED <<state, reason, index, core, attempts, since, settled, pos>>

PausingTickEager(polled) ==
  /\ ~Broken(polled) /\ state = "PAUSING"
  /\ cmd' = "zero"
  /\ \E slow, longEnough \in BOOLEAN :
       LET still == mode = "HOLD" /\ slow
       IN  /\ state' = IF still /\ longEnough /\ "stopped" \in since THEN "PAUSED" ELSE state
           /\ since' = IF still THEN since \cup {"stopped"} ELSE since \ {"stopped"}
  /\ EndTick(polled, Submitted(polled))
  /\ UNCHANGED <<reason, index, core, attempts, settled, pos>>

\* PAUSING: a vehicle seen stopped for the settle time with no call in flight
\* is parked.
PausingTick(polled) ==
  /\ ~Broken(polled) /\ state = "PAUSING"
  /\ cmd' = "zero"
  /\ \E slow, longEnough \in BOOLEAN :
       LET still == mode = "HOLD" /\ slow /\ polled.future = "none"
       IN  /\ state' = IF still /\ longEnough /\ "stopped" \in since THEN "PAUSED" ELSE state
           /\ since' = IF still THEN since \cup {"stopped"} ELSE since \ {"stopped"}
  /\ EndTick(polled, Submitted(polled))
  /\ UNCHANGED <<reason, index, core, attempts, settled, pos>>

PauseTimeoutParked(polled) ==
  /\ ~Broken(polled) /\ state = "PAUSED"
  /\ Fail("MISSION")
  /\ EndTick(polled, Submitted(polled))
  /\ UNCHANGED <<index, core, attempts, since, settled, pos>>

\* PAUSE_STOP_TIMEOUT.
PauseTimeout(polled) ==
  /\ ~Broken(polled) /\ state = "PAUSING"
  /\ Fail("MISSION")
  /\ EndTick(polled, Submitted(polled))
  /\ UNCHANGED <<index, core, attempts, since, settled, pos>>

-----------------------------------------------------------------------------
(* RUNNING *)

RunningTick(polled) == ~Broken(polled) /\ state = "RUNNING"

\* The simulation clock has not moved since the last tick: nothing runs.
FrozenClock(polled) ==
  /\ RunningTick(polled)
  /\ EndTick(polled, Submitted(polled))
  /\ UNCHANGED <<executorVars, pos>>

\* All steps are done: close the camera, drain the archive, then succeed.
CloseMission(polled) ==
  /\ RunningTick(polled) /\ AtMissionEnd
  /\ LET g == Requested(polled, "off", 0)
         closed == Granted(polled, "off")
     IN  \E a \in ArchiveProgress(Submitted(polled)) :
           /\ \/ /\ ~closed \/ a.unsaved
                 /\ cmd' = "zero"
                 /\ UNCHANGED <<state, reason, settled>>
              \/ /\ closed /\ ~a.unsaved /\ a.errors
                 /\ Fail("ARCHIVE")
                 /\ UNCHANGED settled
              \/ /\ closed /\ Drained(a)
                 /\ settled' = TRUE
                 /\ state' = IF CaptureEnabled THEN "ACQUIRED" ELSE "COMPLETED"
                 /\ cmd' = "zero"
                 /\ UNCHANGED reason
           /\ since' = IF closed THEN since \cup {"archive"} ELSE since
           /\ EndTick(g, a)
  /\ UNCHANGED <<index, core, attempts, pos>>

\* ARCHIVE_DRAIN_TIMEOUT: the queue has not been seen idle since archive_since.
DrainTimeout(polled) ==
  /\ RunningTick(polled) /\ AtMissionEnd
  /\ Granted(polled, "off") /\ "archive" \in since
  /\ Submitted(polled).unsaved
  /\ Fail("ARCHIVE")
  /\ EndTick(polled, Submitted(polled))
  /\ UNCHANGED <<index, core, attempts, since, settled, pos>>

\* Between segments: wait for a call in flight, then for the chassis to hold.
AwaitStandstill(polled) ==
  /\ RunningTick(polled) /\ ~AtMissionEnd /\ core = NoCore
  /\ polled.future # "none" \/ mode # "HOLD"
  /\ cmd' = "zero"
  /\ EndTick(polled, Submitted(polled))
  /\ UNCHANGED <<state, reason, index, core, attempts, since, settled, pos>>

\* segment_arguments at place p: turn first if misaligned, else go if not there.
Arguments(p) ==
  {"rotate"} \cup
  CASE Step = "ROTATE_180" -> {"none"}
    [] Step # "ROTATE_180" /\ p # "end" -> {"translate"}
    [] Step = "PASS" /\ p = "end" -> {"none", "translate", "behind"}
    [] OTHER -> {"none", "translate"}

\* SegmentTracker.update from tracker state c, before its timeout.
Updated(c) ==
  CASE c = "STOPPING" ->
         {"STOPPING"} \cup (IF mode = "HOLD" THEN {"COMPLETED", "ALIGNING", "FAULT"} ELSE {})
    [] c \in {"ALIGNING", "REALIGNING"} -> IF mode = "DRIVE" THEN {"RUNNING", "FAULT"} ELSE {c}
    [] OTHER -> {"STOPPING"} \cup (IF mode = "DRIVE" THEN {"RUNNING", "FAULT"} ELSE {"REALIGNING"})

\* Where an update may leave the vehicle: the profile of a pass ends in the
\* runout, and a translation completes only at its endpoint.
Fits(c, k, p) ==
  /\ c = "STOPPING" /\ k = "translate" /\ OnPass => p \in {"runout", "end"}
  /\ c = "COMPLETED" /\ k = "translate" => p = "end"

\* The camera is past the region and its overrun, or the segment is stopping.
LeavingLate(p, c) == c = "STOPPING"
Leaving(p, c) == p \in {"runout", "end"} \/ c = "STOPPING"

\* reference_heading_error_rad against the opening limit and the scan gate;
\* "loose" also when the tracker has not reported one.
Headings(c) == IF c \in {"RUNNING", "REALIGNING", "FAULT"} THEN {"tight", "loose", "wide"} ELSE {"loose"}

\* The rest of run_step once a tracker (state c0, kind k) exists and its update
\* has left it in c, followed by check_scan_heading.
Drive(polled, c0, k, c, built) ==
  \E p \in IF k = "translate" /\ mode # "HOLD" THEN Reach(pos) ELSE {pos}, h \in Headings(c) :
    LET pass == OnPass /\ k = "translate"
        leaving == pass /\ Leaving(p, c)
        opening == pass /\ ~leaving /\ mode = "DRIVE" /\ (polled.active = "on" \/ h = "tight")
        g == CASE leaving -> Requested(polled, "off", 0)
               [] opening -> Requested(polled, "on", index + 1)
               [] OTHER -> polled
        blind == pass /\ ~leaving /\ CaptureEnabled /\ g.active # "on" /\ p = "region"
        skewed == h = "wide" /\ g.active = "on"
        failed == blind \/ c = "FAULT" \/ skewed
        done == ~blind /\ c = "COMPLETED" /\ (k = "translate" \/ Step = "ROTATE_180")
    IN  /\ Fits(c, k, p)
        /\ IF failed THEN Fail("MISSION")
           ELSE /\ cmd' = IF c \in {"STOPPING", "COMPLETED"} \/ (c0 = "STOPPING" /\ c = "ALIGNING")
                          THEN "zero" ELSE "move"
                /\ UNCHANGED <<state, reason>>
        /\ core' = IF c = "COMPLETED" THEN NoCore ELSE [state |-> c, kind |-> k]
        /\ index' = IF done THEN index + 1 ELSE index
        /\ attempts' = IF done THEN 0 ELSE IF built THEN attempts + 1 ELSE attempts
        /\ pos' = IF done THEN "lead" ELSE p
        /\ EndTick(g, Submitted(polled))
        /\ UNCHANGED <<since, settled>>

FollowSegment(polled) ==
  /\ RunningTick(polled) /\ ~AtMissionEnd /\ core # NoCore
  /\ \E c \in Updated(core.state) : Drive(polled, core.state, core.kind, c, FALSE)

\* The tracker's own deadline for the segment.
SegmentTimeout(polled) ==
  /\ RunningTick(polled) /\ ~AtMissionEnd /\ core # NoCore
  /\ Drive(polled, core.state, core.kind, "FAULT", FALSE)

ReadyForSegmentHasty(polled) ==
  RunningTick(polled) /\ ~AtMissionEnd /\ core = NoCore /\ mode = "HOLD"

\* At standstill: plan the rest of the step from the present pose.
ReadyForSegment(polled) ==
  /\ RunningTick(polled) /\ ~AtMissionEnd /\ core = NoCore
  /\ polled.future = "none" /\ mode = "HOLD"

BuildSegmentAgain(polled) ==
  /\ ReadyForSegment(polled)
  /\ \E k \in Arguments(pos) \cap Kinds, c \in Updated("ALIGNING") :
       Drive(polled, "ALIGNING", k, c, TRUE)

BuildSegment(polled) ==
  /\ ReadyForSegment(polled)
  /\ attempts < MaxAttempts
  /\ \E k \in Arguments(pos) \cap Kinds, c \in Updated("ALIGNING") :
       Drive(polled, "ALIGNING", k, c, TRUE)

\* Too many segments for one step, or the endpoint of a pass is behind.
RefuseSegment(polled) ==
  /\ ReadyForSegment(polled)
  /\ \/ /\ "behind" \in Arguments(pos)
        /\ UNCHANGED attempts
     \/ /\ Arguments(pos) \cap Kinds # {} /\ attempts >= MaxAttempts
        /\ attempts' = attempts + 1
  /\ Fail("MISSION")
  /\ EndTick(polled, Submitted(polled))
  /\ UNCHANGED <<index, core, since, settled, pos>>

\* Nothing left of the step: the camera must be closed before the next one.
EndStep(polled) ==
  /\ ReadyForSegment(polled)
  /\ "none" \in Arguments(pos)
  /\ cmd' = "zero"
  /\ IF Granted(polled, "off")
     THEN index' = index + 1 /\ attempts' = 0 /\ pos' = "lead"
     ELSE UNCHANGED <<index, attempts, pos>>
  /\ EndTick(Requested(polled, "off", 0), Submitted(polled))
  /\ UNCHANGED <<state, reason, core, since, settled>>

RunStep(polled) ==
  \/ CloseMission(polled) \/ AwaitStandstill(polled) \/ FollowSegment(polled)
  \/ BuildSegment(polled) \/ RefuseSegment(polled) \/ EndStep(polled)
Timeout(polled) == PauseTimeout(polled) \/ DrainTimeout(polled) \/ SegmentTimeout(polled)
Tick(polled) ==
  \/ RestTick(polled) \/ ReadyTick(polled) \/ RejectFeedback(polled) \/ ParkedTick(polled)
  \/ PausingTick(polled) \/ FrozenClock(polled) \/ RunStep(polled) \/ Timeout(polled)

-----------------------------------------------------------------------------
(* The operator's services, and the broker's fault message *)

outside == <<gate, mode, cameraVars>>

Start ==
  /\ state = "READY" /\ "ready" \in since
  /\ gate' = Requested(gate, "off", 0)
  /\ \E compiled \in BOOLEAN :
       state' = IF Granted(gate, "off") /\ compiled THEN "RUNNING" ELSE state
  /\ UNCHANGED <<reason, index, core, attempts, since, settled, cmd, archive, mode, pos, cameraVars>>

\* The vehicle is told to brake; how far that carries it is decided here.
Pause ==
  /\ state = "RUNNING"
  /\ state' = "PAUSING"
  /\ cmd' = "zero"
  /\ since' = since \ {"stopped"}
  /\ archive' = [archive EXCEPT !.unsaved = TRUE]
  /\ pos' \in IF core.kind = "translate" /\ mode # "HOLD" THEN BrakeReach(pos) ELSE {pos}
  /\ UNCHANGED <<reason, index, core, attempts, settled, outside>>

\* Accepted only from a parked, healthy vehicle that has not moved away and
\* would not have to turn with a partial frame retained.
Resume ==
  /\ state = "PAUSED" /\ mode = "HOLD"
  /\ gate.error = "none" /\ gate.future = "none"
  /\ pos' \in Reestimated(pos)
  /\ ~AtMissionEnd =>
       \E args \in Arguments(pos') \ {"behind"} : ~(gate.active = "on" /\ args = "rotate")
  /\ state' = "RUNNING"
  /\ core' = NoCore /\ attempts' = 0
  /\ since' = since \ {"stopped"}
  /\ archive' = [archive EXCEPT !.unsaved = TRUE]
  /\ UNCHANGED <<reason, index, settled, cmd, outside>>

Cancel ==
  /\ state \notin Terminal \cup {"CANCELING"}
  /\ state' = "CANCELING" /\ reason' = "CANCELED"
  /\ cmd' = "zero"
  /\ UNCHANGED <<index, core, attempts, since, settled, archive, pos, outside>>

ExternalFault ==
  /\ "broker" \in Upsets
  /\ Faulted(state) # state
  /\ Fail("MISSION")
  /\ UNCHANGED <<index, core, attempts, since, settled, archive, pos, outside>>

-----------------------------------------------------------------------------
(* Camera topics reaching the gate.  A second error changes nothing that is  *)
(* read, so only the first is delivered.                                     *)

beside == <<executorVars, mode, pos>>

\* /linescan/state, while it matters: a sample taken after the enable was
\* acknowledged is fresh; an older one may still arrive, but not after it.
Heartbeat ==
  /\ gate.active = "on" /\ service = "ready"
  /\ gate' = [gate EXCEPT !.beat = IF sensor THEN "on" ELSE "off", !.fresh = TRUE]
  /\ UNCHANGED <<beside, archive, cameraVars>>

LateHeartbeat ==
  /\ gate.active = "on" /\ service = "ready" /\ ~gate.fresh
  /\ \E b \in {"on", "off"} : gate' = [gate EXCEPT !.beat = b]
  /\ UNCHANGED <<beside, archive, cameraVars>>

\* A malformed heartbeat, or one from the future.
BadHeartbeat ==
  /\ "heartbeat" \in Upsets
  /\ CaptureEnabled /\ service = "ready" /\ gate.error = "none"
  /\ gate' = [gate EXCEPT !.error = "other"]
  /\ UNCHANGED <<beside, archive, cameraVars>>

\* /linescan/status: an interruption the mission did not ask for.
SensorEvent ==
  /\ CaptureEnabled /\ alarm /\ gate.error = "none"
  /\ alarm' = FALSE
  /\ gate' = [gate EXCEPT !.error = "other"]
  /\ archive' = [archive EXCEPT !.unsaved = TRUE]
  /\ UNCHANGED <<beside, sensor, service, reply>>

-----------------------------------------------------------------------------
(* The camera process (gz_linescan.cpp), the chassis, the archive thread *)

\* The /linescan/set_enabled service: an accepted open exposes; a refused one
\* leaves the sensor as it was or off; a close always stops it.
ServeOpen ==
  /\ service = "ready" /\ gate.future = "on" /\ reply = "none"
  /\ \/ reply' = "ok" /\ sensor' = TRUE
     \/ reply' = "fail" /\ sensor' \in {sensor, FALSE}
  /\ UNCHANGED <<beside, gate, archive, service, alarm>>

ServeClose ==
  /\ service = "ready" /\ gate.future = "off" /\ reply = "none"
  /\ reply' \in {"ok", "fail"}
  /\ sensor' = FALSE
  /\ UNCHANGED <<beside, gate, archive, service, alarm>>

\* A capture segment breaks off on its own; a terrain failure also disables.
SensorBreak ==
  /\ "segment" \in Upsets
  /\ sensor /\ gate.error = "none"
  /\ alarm' = TRUE
  /\ sensor' \in BOOLEAN
  /\ UNCHANGED <<beside, gate, archive, service, reply>>

CameraAppears ==
  /\ service = "absent"
  /\ service' = "ready"
  /\ UNCHANGED <<beside, gate, archive, sensor, reply, alarm>>

CameraLost ==
  /\ "camera" \in Upsets /\ service = "ready"
  /\ service' = "lost" /\ sensor' = FALSE
  /\ UNCHANGED <<beside, gate, archive, reply, alarm>>

\* swerve.hpp's modes as the executor sees them.  A zero request brakes to HOLD;
\* a nonzero one aligns, drives, and may brake at any time.  A request that has
\* timed out counts as zero.
ChassisStop ==
  /\ cmd = "zero" /\ mode # "HOLD"
  /\ mode' = IF mode = "BRAKE" THEN "HOLD" ELSE "BRAKE"
  /\ UNCHANGED <<executorVars, gate, archive, pos, cameraVars>>

ChassisMove ==
  /\ cmd = "move"
  /\ mode' \in CASE mode = "HOLD" -> {"ALIGN"}
                [] mode = "BRAKE" -> {"ALIGN", "HOLD"}
                [] mode = "ALIGN" -> {"DRIVE", "BRAKE"}
                [] OTHER -> {"BRAKE"}
  /\ UNCHANGED <<executorVars, gate, archive, pos, cameraVars>>

\* Wheels that turn in HOLD, whatever was asked of them.
ChassisPushed ==
  /\ "push" \in Upsets
  /\ mode = "HOLD" /\ mode' = "BRAKE"
  /\ UNCHANGED <<executorVars, gate, archive, pos, cameraVars>>

\* Between ticks the archive thread drains, or fails a write.
ArchiveDrain ==
  /\ archive.unsaved
  /\ archive' \in ArchiveProgress(archive) \ {archive}
  /\ UNCHANGED <<beside, gate, cameraVars>>

-----------------------------------------------------------------------------
Init ==
  /\ state = "READY" /\ reason = "" /\ index = 0
  /\ core = NoCore /\ attempts = 0 /\ since = {}
  /\ settled = FALSE /\ cmd = "zero"
  /\ gate = [active |-> IF CaptureEnabled THEN "unknown" ELSE "off", future |-> "none",
             track |-> 0, intervals |-> <<>>, error |-> "none", closeFailed |-> FALSE,
             beat |-> "none", fresh |-> FALSE]
  /\ archive = [unsaved |-> FALSE, errors |-> FALSE, current |-> TRUE]
  /\ mode = "HOLD"
  /\ pos \in {"lead", "end"}
  /\ OnPass => pos = "lead"  \* a list that begins with a pass is the rest of a mission
  /\ sensor \in BOOLEAN
  /\ service \in {"absent", "ready"}
  /\ sensor => service = "ready"
  /\ reply = "none" /\ alarm = FALSE

Operator == Start \/ Pause \/ Resume \/ Cancel \/ ExternalFault
CameraTopics == Heartbeat \/ LateHeartbeat \/ BadHeartbeat \/ SensorEvent
Camera == ServeOpen \/ ServeClose \/ SensorBreak \/ CameraAppears \/ CameraLost
Chassis == ChassisStop \/ ChassisMove \/ ChassisPushed

Next ==
  \/ \E polled \in Polls : Tick(polled)
  \/ Operator \/ CameraTopics \/ Camera \/ Chassis \/ ArchiveDrain

Spec == Init /\ [][Next]_vars

-----------------------------------------------------------------------------
(* Safety *)

\* The vehicle is told to stand still in every state but RUNNING: a pause, a
\* cancellation, a fault or success never leaves the last command moving.
StandstillOutsideRunning == state # "RUNNING" => cmd = "zero"

\* A parked mission has no camera call in flight, so nothing about the shutter
\* can change under a pause: pause_tick waits for an answer racing the stop.
PausedIsQuiet == state = "PAUSED" => gate.future = "none"

\* The camera is closed, and stays closed, through every approach, shift and
\* turn: no segment of another step starts before the pass's close has landed.
TransfersAreBlind ==
  state = "RUNNING" /\ core # NoCore /\ Step # "PASS" => ~sensor /\ gate.future # "on"

\* ACQUIRED means the whole rectangle is on file: every pass has its interval,
\* every interval is closed, the interval file is the final one, and the camera
\* is off.  Pauses, faulted handshakes and slow answers may not lose one.
AcquiredIsComplete ==
  state = "ACQUIRED" =>
    /\ \A i \in DOMAIN Steps : Steps[i] = "PASS" =>
         \E j \in DOMAIN gate.intervals : gate.intervals[j].track = i
    /\ \A j \in DOMAIN gate.intervals : gate.intervals[j].closed
    /\ archive.current /\ ~sensor /\ gate.future = "none"

\* A pass is exposed once: resuming after its end does not reopen the camera
\* (docs/RECTANGLE_EXECUTION.md), so an image belongs to exactly one interval.
PassExposedOnce ==
  \A i, j \in DOMAIN gate.intervals : i < j =>
    gate.intervals[i].track < gate.intervals[j].track /\ gate.intervals[i].closed

\* CANCELED means the camera is off and known to be: a cancellation that races
\* an open or a close in flight waits for both.
CanceledIsDark == state = "CANCELED" => ~sensor /\ gate.active = "off" /\ gate.future = "none"

\* A camera that failed to confirm its close never ends a mission any other way
\* than as a fault.
FailedCloseIsFault == gate.closeFailed => state = "FAULT"

\* CAMERA_DISABLED_UNEXPECTEDLY is raised only for a camera that is off: never
\* because of a heartbeat sampled before the open was acknowledged.
NoFalseAlarm == gate.error = "disabled" => ~sensor

\* archive_settled is never set while the interval file lags the intervals.
SettledMeansFiled == settled => archive.current

\* Nothing leaves FAULT or changes the reason it was raised with, nothing
\* leaves success, and a cancellation ends only as CANCELED or FAULT.
TerminalLatch ==
  [][/\ state = "FAULT" => state' = "FAULT" /\ reason' = reason
     /\ state \in {"ACQUIRED", "COMPLETED"} => state' = state
     /\ state \in {"CANCELING", "CANCELED"} => state' \in {state, "CANCELED", "FAULT"}]_vars

\* Whoever watches the status messages sees a mission that keeps MissionLife's
\* promises: nothing but the operator's services, the gate's answers and the
\* mission's own ends moves it, and its camera is closed where they say so.
Life == INSTANCE MissionLife WITH
  life <- [state |-> state, active |-> gate.active, future |-> gate.future, settled |-> settled]
ImplementsLife == Life!Spec

-----------------------------------------------------------------------------
(* Claims of the repository that the code does not keep *)

\* "scan heading changed; cannot rotate with a retained partial frame" (resume):
\* the tracker never turns the vehicle while the camera is open.
RetainedFrameNeverRotates ==
  state = "RUNNING" /\ core # NoCore /\ core.kind = "rotate" => gate.active # "on"

-----------------------------------------------------------------------------
(* Liveness.  The 20 ms timer keeps firing and simulation time keeps moving   *)
(* (SIM_CLOCK_STALLED faults otherwise); a deadline that passes again and     *)
(* again is eventually found expired; the chassis obeys a zero command; the   *)
(* archive thread runs.                                                       *)

CallTimeout(polled) ==
  gate.future # "none" /\ reply = "none" /\ gate.error = "none" /\ polled.error = "other" /\ RestTick(polled)

\* The last heartbeat of a process that is gone only gets older.
SilenceNoticed(polled) ==
  service = "lost" /\ gate.active = "on" /\ gate.future = "none" /\ gate.error = "none"
    /\ polled.error = "other" /\ RestTick(polled)

ExecutorFairness ==
  /\ WF_vars(\E polled \in Polls :
       RestTick(polled) \/ ReadyTick(polled) \/ ParkedTick(polled) \/ PausingTick(polled) \/ RunStep(polled))
  /\ SF_vars(\E polled \in Polls : PauseTimeout(polled))
  /\ SF_vars(\E polled \in Polls : DrainTimeout(polled))
  /\ SF_vars(\E polled \in Polls : SegmentTimeout(polled))
  /\ SF_vars(\E polled \in Polls : CallTimeout(polled))
  /\ SF_vars(\E polled \in Polls : SilenceNoticed(polled))

LiveSpec == Spec /\ ExecutorFairness /\ WF_vars(ChassisStop) /\ WF_vars(ArchiveDrain) /\ WF_vars(Heartbeat)

\* ... and with a camera that answers its calls.
AnsweredSpec == LiveSpec /\ WF_vars(ServeOpen) /\ WF_vars(ServeClose)

\* No mission runs forever, even with a camera that never answers: every wait
\* in run_step has a deadline or ends with the chassis.
MissionEnds == state = "RUNNING" ~> state # "RUNNING"

\* A pause parks the vehicle, is cancelled, or faults.
PauseResolves == state = "PAUSING" ~> state # "PAUSING"

\* A cancellation always ends, even with a call in flight that is never answered.
CancelSettles == state = "CANCELING" ~> state \in {"CANCELED", "FAULT"}

\* A camera found off under a paused mission is noticed: a parked mission does
\* not wait for its operator with a frame that is no longer being kept.
ShutterLossNoticed == state = "PAUSED" /\ gate.active = "on" /\ ~sensor ~> state # "PAUSED"

\* A fault ends with the vehicle stopped and the camera off, for good, also when
\* an open was in flight as it was raised.
FaultEndsSafe == state = "FAULT" ~> [](mode = "HOLD" /\ ~sensor)
=============================================================================

---------------------------- MODULE SegmentDrive ----------------------------
(***************************************************************************)
(* One segment after another driven by the tracker (agv_mission/           *)
(* tracking.py) through the swerve controller, or the same controller      *)
(* steered by hand over /cmd_vel.                                          *)
(*                                                                         *)
(* The tracker turns a segment into a time profile, follows it while the   *)
(* controller drives, waits while it aligns, stops at the profile's end    *)
(* and trims what is left.  Distance is a small number of units along the  *)
(* segment; the fused pose agrees with the profile to within one unit or   *)
(* the segment faults.  Durations are left out.                            *)
(***************************************************************************)
EXTENDS SwerveController

CONSTANTS
  Pilots,    \* who may hold /cmd_vel: "tracker", "hand"
  Upsets,    \* what may go wrong under each: commands stop or are malformed, the
             \* joint feedback or the clock fails, wheels are turned by contact
  Length,    \* of a segment
  MaxTrims,  \* max_terminal_trims
  ByHand     \* the directions asked for by hand

ASSUME PilotsAssumption == Pilots \subseteq {"tracker", "hand"}
ASSUME UpsetsAssumption == Upsets \in [Pilots -> SUBSET {"silence", "feedback", "push"}]
ASSUME LengthsAssumption == Length \in Nat \ {0} /\ MaxTrims \in Nat
ASSUME HandAssumption == ByHand \subseteq Directions

VARIABLES
  pilot,
  steady,  \* from now on nothing fails and a hand keeps its command
  state,   \* the tracker's state, or "none"
  axis,    \* the wheel direction of the segment
  kind,    \* translate or rotate
  moved, probed,  \* was_running; alignment_probe is set
  left,    \* of the profile
  togo,    \* of the way
  trims,
  forwardOnly

trackerVars == <<state, axis, kind, moved, probed, left, togo, trims, forwardOnly>>
vars == <<driveVars, pilot, steady, trackerVars>>

Active == {"ALIGNING", "RUNNING", "STOPPING"}
Wrapped(d) == IF d > 180 THEN d - 360 ELSE IF d <= -180 THEN d + 360 ELSE d

TypeOK ==
  /\ command \in [dir : Directions, speed : 0..2] /\ valid \in BOOLEAN
  /\ mode \in {"HOLD", "ALIGN", "DRIVE", "BRAKE"}
  /\ shown \in {"HOLD", "ALIGN", "DRIVE", "BRAKE", "FEEDBACK_HOLD"}
  /\ {unwinding, settled, fresh, feedback, steady, moved, probed, forwardOnly} \subseteq BOOLEAN
  /\ {previous, steer, angle} \subseteq Angles
  /\ turning \in -1..1 /\ {drive, speed} \subseteq Speeds
  /\ pilot \in Pilots /\ state \in Active \cup {"none", "COMPLETED", "FAULT"}
  /\ axis \in Directions /\ kind \in {"translate", "rotate"}
  /\ left \in 0..Length /\ togo \in -1..Length /\ trims \in 0..MaxTrims

-----------------------------------------------------------------------------
(* SegmentTracker *)

\* The wheel direction of a turn on the spot.
SpinAxis == 120

\* The executor builds a segment at standstill only.
Begin ==
  /\ pilot = "tracker" /\ state \in {"none", "COMPLETED"} /\ shown = "HOLD"
  /\ \E a \in {0, 90, SpinAxis} :
       /\ axis' = a
       /\ kind' = IF a = SpinAxis THEN "rotate" ELSE "translate"
       /\ forwardOnly' \in {FALSE, a = 0}
  /\ state' = "ALIGNING"
  /\ moved' = FALSE /\ probed' = FALSE
  /\ left' = Length /\ togo' = Length /\ trims' = 0
  /\ UNCHANGED <<driveVars, pilot, steady>>

trackedDrive == <<controllerVars, feedback, wheelVars>>
AtEnd == moved /\ left = 0
Stopped == shown = "HOLD" /\ speed = 0

\* The profile has ended: zero command, until stopped for the settle time near
\* the goal, or for the dwell time away from it.
Stopping ==
  /\ state = "STOPPING" \/ (state \in Active /\ AtEnd)
  /\ Command(Stop)
  /\ state' \in {"STOPPING"} \cup (IF Stopped /\ togo = 0 THEN {"COMPLETED"} ELSE {})
  /\ UNCHANGED <<trackedDrive, pilot, steady, axis, kind, moved, probed, left, togo, trims, forwardOnly>>

\* A correction is a profile of its own, along whatever axis is left to go: the
\* filtered error decides that it is needed, the present pose which one.
SameTrim == trims
NextTrim == trims + 1
StartTrim ==
  /\ state = "STOPPING" /\ Stopped
  /\ Command(Stop)
  /\ \E a \in {axis, Wrapped(axis + 180), Wrapped(axis + 90), SpinAxis, Wrapped(SpinAxis + 180)} :
       \/ trims >= MaxTrims /\ state' = "FAULT" /\ UNCHANGED <<axis, kind, moved, probed, left, togo, trims>>
       \/ /\ trims < MaxTrims /\ trims' = NextTrim
          /\ IF forwardOnly /\ a = 180
             THEN state' = "FAULT" /\ UNCHANGED <<axis, kind, moved, probed, left, togo>>
             ELSE /\ axis' = a
                  /\ kind' = IF a \in {SpinAxis, Wrapped(SpinAxis + 180)} THEN "rotate" ELSE "translate"
                  /\ left' = 1 /\ togo' = 1
                  /\ moved' = FALSE /\ probed' = FALSE
                  /\ state' = "ALIGNING"
  /\ UNCHANGED <<trackedDrive, pilot, steady, forwardOnly>>

\* The controller is not driving: ask once for a creep along the axis, then keep
\* the last request stable while the wheels settle.
Wait ==
  /\ state \in {"ALIGNING", "RUNNING"} /\ ~AtEnd /\ shown # "DRIVE"
  /\ state' = "ALIGNING"
  /\ Command(IF moved \/ probed THEN command ELSE [dir |-> axis, speed |-> 1])
  /\ probed' = (probed \/ ~moved)
  /\ UNCHANGED <<trackedDrive, pilot, steady, axis, kind, moved, left, togo, trims, forwardOnly>>

\* What the profile asks for, corrected sideways by at most a grid step, capped
\* by what can still be braked, and never below a creep before the end.
Creeping(v) == IF v = 0 THEN 1 ELSE v
AskedBare(remaining, d, v) ==
  [dir |-> Wrapped(axis + d), speed |-> IF remaining <= 1 \/ kind = "rotate" THEN Min({v, 1}) ELSE v]
Asked(remaining, d, v) ==
  [dir |-> Wrapped(axis + d),
   speed |-> Creeping(IF remaining <= 1 \/ kind = "rotate" THEN Min({v, 1}) ELSE v)]

\* The controller is driving: advance the profile, which is re-timed from the
\* present progress after an interruption.
Follow ==
  /\ state \in {"ALIGNING", "RUNNING"} /\ ~AtEnd /\ shown = "DRIVE"
  /\ \E l \in (IF state = "ALIGNING" /\ moved THEN {Max({togo, 0})} ELSE {left}), step \in {0, 1} :
       /\ left' = Max({l - step, 0})
       /\ \/ left' - togo \in -1..1 /\ state' = "RUNNING"
             /\ \E d \in (IF kind = "rotate" THEN {0} ELSE {-15, 0, 15}), v \in {0, 1, 2} :
                  Command(Asked(Max({togo, 0}), d, v))
          \/ left' - togo \notin -1..1 /\ state' = "FAULT" /\ Command(Stop)
  /\ moved' = TRUE
  /\ UNCHANGED <<trackedDrive, pilot, steady, axis, kind, probed, togo, trims, forwardOnly>>

\* SEGMENT_TIMEOUT, or localization lost: the executor commands zero from then on.
Fault ==
  /\ state \in Active /\ ~steady
  /\ state' = "FAULT"
  /\ Command(Stop)
  /\ UNCHANGED <<trackedDrive, pilot, steady, axis, kind, moved, probed, left, togo, trims, forwardOnly>>

Standing == pilot = "tracker" /\ state \notin Active /\ Command(Stop) /\ UNCHANGED <<trackedDrive, pilot, steady, trackerVars>>

\* The wheel carries the vehicle along the segment.
Sense == IF (angle - axis) % 180 \in {0, 15, 165}
         THEN IF (angle - axis + 15) % 360 <= 30 THEN Sign(speed) ELSE -Sign(speed)
         ELSE 0
Travel ==
  /\ state \in Active /\ Sense # 0
  /\ togo - Sense \in -1..Length
  /\ togo' = togo - Sense
  /\ UNCHANGED <<driveVars, pilot, steady, state, axis, kind, moved, probed, left, trims, forwardOnly>>

-----------------------------------------------------------------------------
(* A hand on /cmd_vel: it stops, drives, or sweeps its direction *)

Hand ==
  /\ pilot = "hand" /\ ~steady
  /\ \E d \in ByHand, s \in {0, 1} :
       /\ command.speed = 0 \/ s = 0 \/ Wrapped(d - command.dir) \in {-15, 0, 15, 180}
       /\ Command([dir |-> d, speed |-> s])
  /\ UNCHANGED <<trackedDrive, pilot, steady, trackerVars>>

Steady ==
  /\ ~steady /\ feedback
  /\ pilot = "hand" => ~valid \/ command.speed # 0
  /\ steady' = TRUE
  /\ UNCHANGED <<driveVars, pilot, trackerVars>>

-----------------------------------------------------------------------------
Init ==
  /\ DriveInit
  /\ pilot \in Pilots /\ steady = FALSE
  /\ state = "none" /\ axis = 0 /\ kind = "translate" /\ moved = FALSE /\ probed = FALSE
  /\ left = 0 /\ togo = 0 /\ trims = 0 /\ forwardOnly = FALSE

Tracker == Begin \/ Stopping \/ StartTrim \/ Wait \/ Follow \/ Fault \/ Standing
Plant == WheelTurns \/ WheelRolls
May(upset) == ~steady /\ upset \in Upsets[pilot]
Upset ==
  (May("silence") /\ Silence) \/ (May("feedback") /\ FeedbackChanges) \/ (May("push") /\ WheelPushed)
beside == <<pilot, steady, trackerVars>>

Next ==
  \/ Tracker \/ Hand \/ Steady \/ Travel
  \/ (Update \/ Halt \/ Plant \/ Upset) /\ UNCHANGED beside

Spec == Init /\ [][Next]_vars

LiveSpec ==
  /\ Spec
  /\ WF_vars(Update /\ UNCHANGED beside)
  /\ WF_vars(Plant /\ UNCHANGED beside)
  /\ WF_vars(Stopping \/ Wait \/ Follow)
  /\ SF_vars(Follow /\ left' # left)
  /\ WF_vars(StartTrim)

-----------------------------------------------------------------------------
(* Properties *)

\* A segment begun at standstill never has to stop for a steering limit: the
\* branch it starts on leaves room for every correction of the tracker.
SegmentsKeepTheirBranch == pilot = "tracker" => ~unwinding

\* HOLD is only shown of a vehicle at rest that is told to rest, whatever was lost
\* or restarted before.
HoldIsStill == [][shown' = "HOLD" /\ shown # "HOLD" => speed = 0 /\ drive' = 0]_vars

\* Once nothing fails any more, a request that does not change is driven, for
\* good: limits, reversals and remembered branches never make the controller
\* rearrange its wheels for ever.
SteadyDrives == steady /\ pilot = "hand" /\ valid ~> [](mode = "DRIVE")

\* A vehicle that nobody commands any more comes to rest, whatever it was doing:
\* the motors do not go on with what they were told last.
SilenceStops == steady /\ pilot = "hand" /\ ~valid ~> [](mode = "HOLD" /\ speed = 0)

\* Once nothing fails any more, tracker and controller do not wait for each other:
\* every segment ends without its watchdog.
SegmentEnds == steady /\ state \in Active ~> state \in {"COMPLETED", "FAULT"}
=============================================================================

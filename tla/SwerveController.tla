-------------------------- MODULE SwerveController --------------------------
(***************************************************************************)
(* The four-wheel-steering controller (agv_control/swerve.hpp) in its node *)
(* (swerve_controller.cpp), on its wheels.                                 *)
(*                                                                         *)
(* The four modules share one mode, and the mode only depends on the worst *)
(* of them: one wheel stands for all.  Angles are degrees on a 15 degree   *)
(* grid, speeds are -2..2, where 1 is a speed at which turning the wheel   *)
(* 15 degrees off its rolling direction is tolerated and 2 one at which it *)
(* is not (lateral_mismatch).  An update moves the commanded angle and     *)
(* speed by at most one step; the wheel follows in its own time.           *)
(***************************************************************************)
EXTENDS Integers, FiniteSetsExt

VARIABLES
  command,    \* the last accepted /cmd_vel: wheel direction and speed
  valid,      \* command_valid, and not older than command_timeout
  mode,       \* the Controller's mode
  unwinding,  \* it stopped because a wheel came near its steering limit
  previous,   \* the wheel angle it last chose
  steer, turning,  \* the commanded angle, and the direction it is moving in
  drive,      \* the commanded wheel speed
  settled,    \* the wheel has been aligned for a while
  fresh,      \* nothing updated since reset(): feedback is adopted first
  shown,      \* /motion_state
  feedback,   \* joint states arrive and are sane, and the clock runs
  angle, speed  \* the wheel

controllerVars == <<mode, unwinding, previous, steer, turning, drive, settled, fresh, shown>>
wheelVars == <<angle, speed>>
driveVars == <<command, valid, controllerVars, feedback, wheelVars>>

SoftLower == -275
SoftUpper == 95
SegmentMargin == 20
RecentreHalfSpan == 180
RecentreMargin == 91  \* 90.4: hysteresis below the 95 every direction has a branch with
Angles == {15 * i : i \in -18..6}
Directions == {15 * i : i \in -11..12}
Speeds == -2..2
Stop == [dir |-> 0, speed |-> 0]

Magnitude(v) == IF v < 0 THEN -v ELSE v
Sign(v) == IF v < 0 THEN -1 ELSE IF v > 0 THEN 1 ELSE 0
Towards(a, b, step) == IF Magnitude(b - a) <= step THEN b ELSE a + step * Sign(b - a)
Opposite(v, w) == v * w < 0

-----------------------------------------------------------------------------
(* allocate: the wheel angle for a direction.  A direction and its opposite  *)
(* are the same axis driven the other way, so each has several branches.     *)

Margin(a) == IF SoftUpper - a < a - SoftLower THEN SoftUpper - a ELSE a - SoftLower

BranchesAnywhere(dir, reconfigure, stationary) ==
  {a \in {dir + 180 * k : k \in -3..3} :
     /\ SoftLower <= a /\ a <= SoftUpper
     /\ reconfigure => Margin(a) >= RecentreMargin}
Branches(dir, reconfigure, stationary) ==
  {a \in {dir + 180 * k : k \in -3..3} :
     /\ SoftLower <= a /\ a <= SoftUpper
     /\ stationary => Margin(a) >= SegmentMargin
     /\ reconfigure => Margin(a) >= RecentreMargin}

\* Mechanical travel, a penalty near a limit and one for changing sides, in
\* units of 0.00001 rad; the first of equals.
Cost(a, actual, last) ==
  1745 * Magnitude(a - actual) + 200000000 \div (10000 + 1745 * Margin(a))
    + IF Magnitude(a - last) > 90 THEN 8000 ELSE 0

Cheapest(branches, actual, last) ==
  Min({a \in branches : \A b \in branches : Cost(a, actual, last) <= Cost(b, actual, last)})

\* The target angle and speed; without a branch the wheel stays where it is.
Allocate(request, actual, last, reconfigure, stationary) ==
  IF request.speed = 0 \/ Branches(request.dir, reconfigure, stationary) = {}
  THEN {[angle |-> actual, speed |-> 0]}
  ELSE {[angle |-> a, speed |-> IF (a - request.dir) % 360 = 0 THEN request.speed ELSE -request.speed] :
          a \in {Cheapest(Branches(request.dir, reconfigure, stationary), actual, last)}}

-----------------------------------------------------------------------------
(* update: one pass over the mode, then one step of the outputs *)

\* A wheel that moves towards a limit needs its braking distance before it.
Nearing(direction, at) ==
  direction # 0 /\ (IF direction > 0 THEN SoftUpper - at ELSE at - SoftLower) <= (IF turning = 0 THEN 3 ELSE 12)

\* The conditions on which a driving vehicle stops to rearrange itself.
LimitApproach(target) == \E d \in {target.angle - angle, turning} : Nearing(Sign(d), angle) \/ Nearing(Sign(d), steer)
MustBrake(target) ==
  LET off == Magnitude(target.angle - angle)
  IN  \/ off > 17 \/ target.speed = 0 \/ Opposite(speed, target.speed)
      \/ Magnitude(speed) = 2 /\ off > 0
      \/ LimitApproach(target)

Stationary(d) == mode # "DRIVE" /\ speed = 0 /\ d = 0

\* The mode after the checks that precede DRIVE; a wheel that turns under an
\* aligning vehicle may be a passing pulse.
AtRestAsAsked(d) == d = 0 /\ turning = 0
AtRest(d) == speed = 0 /\ d = 0 /\ turning = 0
Braked(target, d, rolls) ==
  LET zero == target.speed = 0
      m1 == IF mode = "DRIVE" /\ MustBrake(target) THEN "BRAKE" ELSE mode
      m2 == IF (m1 = "HOLD" /\ speed # 0) \/ (m1 = "ALIGN" /\ speed # 0 /\ rolls) THEN "BRAKE" ELSE m1
      m3 == IF m2 = "HOLD" /\ ~zero THEN "ALIGN" ELSE m2
      m4 == IF m3 = "BRAKE" /\ AtRest(d)
            THEN IF zero THEN "HOLD" ELSE "ALIGN" ELSE m3
  IN  IF m4 = "ALIGN" /\ zero THEN "BRAKE" ELSE m4

\* Speed steps towards its request, through zero on a reversal.
Driven(d, wanted) == IF Opposite(d, wanted) THEN d - Sign(d) ELSE Towards(d, wanted, 1)

LastCommand == command
InForce == IF valid THEN command ELSE Stop

Update ==
  /\ feedback
  /\ \E d \in {IF fresh THEN speed ELSE drive}, s \in {IF fresh THEN angle ELSE steer},
        last \in {IF fresh THEN angle ELSE previous} :
     \E target \in Allocate(InForce, angle, last,
                           unwinding /\ Stationary(d), Stationary(d)) :
     \E rolls \in BOOLEAN :
     \E m \in {Braked(target, d, rolls)} :
       LET aligned == m = "ALIGN" /\ speed = 0 /\ target.angle = angle
       IN  /\ mode' = IF aligned /\ settled THEN "DRIVE" ELSE m
           /\ settled' = (aligned /\ mode' = "ALIGN")
           /\ unwinding' = IF mode' = "DRIVE" /\ m = "ALIGN" THEN FALSE
                           ELSE IF mode = "DRIVE" /\ MustBrake(target) THEN LimitApproach(target)
                           ELSE unwinding
           /\ previous' = target.angle
           /\ steer' = IF mode' \in {"ALIGN", "DRIVE"} THEN Towards(s, target.angle, 15) ELSE s
           /\ turning' = Sign(steer' - s)
           /\ drive' = Driven(d, IF mode' = "DRIVE" /\ Magnitude(target.angle - angle) < 90
                                 THEN target.speed ELSE 0)
           /\ shown' = mode'
  /\ fresh' = FALSE
  /\ UNCHANGED <<command, valid, feedback, wheelVars>>

\* Feedback too old or insane, a clock that jumped or stood still too long: stop
\* the motors, forget the command and start over.
Halt ==
  /\ ~feedback
  /\ drive' = 0 /\ valid' = FALSE
  /\ mode' = "HOLD" /\ unwinding' = FALSE /\ settled' = FALSE /\ fresh' = TRUE
  /\ turning' = 0 /\ previous' = angle /\ steer' = angle
  /\ shown' = "FEEDBACK_HOLD"
  /\ UNCHANGED <<command, feedback, wheelVars>>

-----------------------------------------------------------------------------
(* /cmd_vel, the joint feedback and the wheels *)

Command(request) == command' = request /\ valid' = TRUE

\* A command with a wrong stamp, frame or number, or none for command_timeout.
Silence ==
  /\ valid /\ valid' = FALSE
  /\ UNCHANGED <<command, controllerVars, feedback, wheelVars>>

FeedbackChanges ==
  /\ feedback' = ~feedback
  /\ UNCHANGED <<command, valid, controllerVars, wheelVars>>

WheelTurns ==
  /\ angle # steer
  /\ angle' = Towards(angle, steer, 15)
  /\ UNCHANGED <<command, valid, controllerVars, feedback, speed>>

WheelRolls ==
  /\ speed # drive
  /\ speed' = Towards(speed, drive, 1)
  /\ UNCHANGED <<command, valid, controllerVars, feedback, angle>>

\* Steering under contact.
WheelPushed ==
  /\ mode = "ALIGN" /\ angle # steer /\ speed = 0
  /\ speed' \in {-1, 1}
  /\ UNCHANGED <<command, valid, controllerVars, feedback, angle>>

DriveInit ==
  /\ command = Stop /\ valid = FALSE
  /\ mode = "HOLD" /\ unwinding = FALSE /\ settled = FALSE /\ fresh = TRUE
  /\ angle = 0 /\ speed = 0
  /\ previous = 0 /\ steer = 0 /\ turning = 0 /\ drive = 0
  /\ shown = "FEEDBACK_HOLD" /\ feedback = TRUE
=============================================================================

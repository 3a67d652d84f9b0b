---------------------------- MODULE RectanglePlan ----------------------------
(***************************************************************************)
(* The geometry of planner.py in the road frame.  Lengths are whole units;  *)
(* lateral coordinates are doubled, so that half a width stays whole, and   *)
(* the region starts at the origin.  A request is a record of the fields    *)
(* the geometry depends on; braking, acceleration and heading recovery are  *)
(* the distances the speeds give.                                           *)
(***************************************************************************)
EXTENDS Integers, Sequences, FiniteSetsExt

\* What `plan' checks of the numbers of a request and of the vehicle.
Requests ==
  [length: Nat \ {0}, width: Int, spacing: Nat \ {0}, swath: Nat, error: Nat, tail: Nat,
   camera: Int, acceleration: Nat, recovery: Nat, braking: Nat, margin: Nat, sweep: Nat,
   bounds: Int \X Int]

Effective(r) == r.swath - 2 * r.error

CeilDiv(a, b) == (a + b - 1) \div b
Tracks(r) == CeilDiv(Max({0, r.width - Effective(r)}), r.spacing) + 1

\* The doubled lateral centre of track i, the tracks spread about the middle.
Centre(r, i) == r.width + (2 * i - (Tracks(r) - 1)) * (IF Tracks(r) > 1 THEN r.spacing ELSE 0)

Direction(i) == IF i % 2 = 0 THEN 1 ELSE -1

\* Mutant: only the discardable tail is paid for.
OverrunTailOnly(r) == r.tail
\* Capture closes behind the region by what a discarded tail and the audit's
\* allowances at the end of a span may take back.
Overrun(r) == r.tail + 2 * r.error
Lead(r) == Max({r.acceleration, r.recovery, r.error}) + r.margin
Runout(r) == Max({r.braking, Overrun(r)}) + r.margin
TurnRunout(r) == Max({Runout(r), 2 * r.camera + Lead(r)})

\* Where the vehicle enters and leaves track i, along the road.
Begin(r, i) == IF Direction(i) = 1 THEN 0 ELSE r.length
Finish(r, i) == IF Direction(i) = 1 THEN r.length ELSE 0
Entry(r, i) == Begin(r, i) - Direction(i) * (r.camera + Lead(r))
Exit(r, i) == Finish(r, i) - Direction(i) * r.camera
              + Direction(i) * (IF i < Tracks(r) - 1 THEN TurnRunout(r) ELSE Runout(r))

Inside(r, p) == r.bounds[1] + r.sweep <= p /\ p <= r.bounds[2] - r.sweep

\* The requests the planner answers with a plan instead of an error.
Feasible(r) ==
  /\ Effective(r) > 0 /\ r.spacing <= Effective(r)
  /\ \A i \in 0 .. Tracks(r) - 1: Inside(r, Entry(r, i)) /\ Inside(r, Exit(r, i))
  /\ \A i \in 1 .. Tracks(r) - 1: Entry(r, i) = Exit(r, i - 1)

=============================================================================

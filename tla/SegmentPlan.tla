----------------------------- MODULE SegmentPlan -----------------------------
(***************************************************************************)
(* From the geometry of a rectangle to what the executor drives: the        *)
(* segments planner.py lists for every track, and the stopped transfers and *)
(* continuous passes that compile_steps (execution.py) makes of them.  A    *)
(* pose is the place along the road, the doubled lateral one and the        *)
(* heading; points between the ends of a segment are left out.              *)
(***************************************************************************)
EXTENDS RectanglePlan, SequencesExt

Pose(along, across, heading) == [along |-> along, across |-> across, heading |-> heading]
Leg(kind, track, from, to) == [kind |-> kind, track |-> track, from |-> from, to |-> to]

\* Where the camera crosses the ends of the region.
ScanStart(r, i) == Begin(r, i) - Direction(i) * r.camera
ScanEnd(r, i) == Finish(r, i) - Direction(i) * r.camera

\* The lead-in, the scan and the run-out of a track, and before all but the
\* first the way over to it: sideways, then about.
TrackLegs(r, i) ==
  LET On(p) == Pose(p, Centre(r, i), Direction(i))
      arrived == Pose(Exit(r, i - 1), Centre(r, i), Direction(i - 1))
      over == <<Leg("SHIFT", i, Pose(Exit(r, i - 1), Centre(r, i - 1), Direction(i - 1)), arrived),
                Leg("ROTATE_180", i, arrived, [arrived EXCEPT !.heading = Direction(i)])>>
  IN  (IF i = 0 THEN <<>> ELSE over)
        \o <<Leg("ACCELERATE", i, On(Entry(r, i)), On(ScanStart(r, i))),
             Leg("SCAN", i, On(ScanStart(r, i)), On(ScanEnd(r, i))),
             Leg("RUNOUT_BRAKE", i, On(ScanEnd(r, i)), On(Exit(r, i)))>>

Segments(r) == FlattenSeq([k \in 1 .. Tracks(r) |-> TrackLegs(r, k - 1)])

\* compile_steps: the approach from wherever the vehicle is, then every segment
\* as it stands, but three that scan without a stop as one pass.
Swallowed(segments) ==
  UNION {{k + 1, k + 2} : k \in {k \in DOMAIN segments: segments[k].kind = "ACCELERATE"}}
Compiled(r, here) ==
  LET segments == Segments(r)
      own == SelectSeq([k \in DOMAIN segments |-> k], LAMBDA k: k \notin Swallowed(segments))
      StepOf(k) == IF segments[k].kind = "ACCELERATE"
                   THEN [segments[k] EXCEPT !.kind = "PASS", !.to = segments[k + 2].to]
                   ELSE segments[k]
  IN  <<Leg("APPROACH", 0, here, Head(segments).from)>> \o [j \in DOMAIN own |-> StepOf(own[j])]
=============================================================================

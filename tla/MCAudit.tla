------------------------------- MODULE MCAudit -------------------------------
(* Two strip spacings, one to three tracks, driven both ways. *)
EXTENDS CoverageAudit, SequencesExt

Rectangles ==
  [length: {4}, width: {4, 6}, spacing: {4}, swath: {8}, error: {2}, tail: {2},
   camera: {2}, acceleration: {3}, recovery: {4}, braking: {3}, margin: {1},
   sweep: {3}, bounds: {<<-20, 30>>}]

Lengths == {4, 6}

-----------------------------------------------------------------------------
(* The pure parts of planner, audit and archive against what they must compute. *)

Plan == INSTANCE SegmentPlan
Quality == INSTANCE CaptureQuality
Archive == INSTANCE StripArchive
Grid == INSTANCE GridLineScan
Lists == INSTANCE CoverageLists

\* Merging and complementing lists gives, in order, the intervals that the audit
\* is modelled with, whatever overlaps, touches or is empty (merge, complement).
ASSUME ListsAreExact ==
  \A u, v, w \in (0 .. 4) \X (0 .. 5):
    LET intervals == {u, v, w}
        Sorted(set) == SetToSortSeq(set, Lists!Ascending)
    IN  /\ Lists!Merge(intervals) = Sorted(Merge(intervals))
        /\ Lists!Complement(intervals, 5) = Sorted(Complement(intervals, 5))

Wide == [length: {4, 9}, width: {4, 6, 10, 14}, spacing: {2, 4}, swath: {8}, error: {1, 2}, tail: {0, 2},
         camera: {0, 2}, acceleration: {3}, recovery: {4}, braking: {3, 9}, margin: {1},
         sweep: {3}, bounds: {<<-30, 40>>}]

\* Every feasible plan compiles to steps the executor is modelled with: an
\* approach, then one pass per track in order with a shift and a turn between
\* two of them; each step begins at the pose where the last one ended, and each
\* pass takes the camera from before the region to behind it and the over-run,
\* at rest at both ends (compile_steps, rectangle_plan).
ASSUME PlansCompile ==
  \A r \in {r \in Wide: Feasible(r)}:
    LET steps == Plan!Compiled(r, Plan!Pose(0, 0, 1))
        passes == SelectSeq(steps, LAMBDA s: s.kind = "PASS")
        Camera(pose) == pose.along + pose.heading * r.camera
        kinds == <<"APPROACH", "PASS">> \o FlattenSeq([k \in 1 .. Tracks(r) - 1 |-> <<"SHIFT", "ROTATE_180", "PASS">>])
    IN  /\ [k \in DOMAIN steps |-> steps[k].kind] = kinds
        /\ \A k \in 2 .. Len(steps): steps[k].from = steps[k - 1].to
        /\ \A k \in DOMAIN passes:
             LET d == Direction(k - 1)
                 before == d * (Begin(r, k - 1) - Camera(passes[k].from))
                 behind == d * (Camera(passes[k].to) - Finish(r, k - 1))
             IN  /\ passes[k].track = k - 1 /\ passes[k].from.heading = d /\ passes[k].to.heading = d
                 /\ before >= Lead(r) /\ behind >= Max({r.braking, Overrun(r)})

\* A block is rejected for the wheels exactly when one of the records of its
\* track saw them turn close to it: joining windows neither hides a moment nor
\* invents one (reconfiguration_windows).
Ticks(rows) ==
  {[k \in 1 .. 4 |-> [s[k] EXCEPT !.time = FoldLeft(LAMBDA a, b: a + b, 0, [j \in 1 .. k |-> s[j].time])]] :
     s \in [1 .. 4 -> rows]}
ASSUME WindowsAreExact ==
  \A records \in Ticks([time: {0, 1, 4}, track: {0, 1}, reconfiguring: BOOLEAN, dt: {1}]):
    \A first \in 0 .. 9, span \in {0, 2}:
      Quality!Affected(Quality!Windows(records, 1), 0, first, first + span)
        <=> \E k \in 1 .. 4: /\ records[k].reconfiguring /\ records[k].track = 0
                             /\ first <= records[k].time + 1 /\ records[k].time - 1 <= first + span

\* Every moment of a block that is not excluded lies in a control step of the
\* archive that is as long as it declares: no record is missing around it
\* (trace_gaps).
ASSUME AcceptedIsWitnessed ==
  \A records \in Ticks([time: {0, 1, 3}, track: {0}, reconfiguring: {FALSE}, dt: {Quality!NoStep, 1, 3}]):
    \A first \in 0 .. 9, span \in {0, 1, 3}:
      ~Quality!Excluded(records, 0, first, first + span, 1, 0) =>
        \A t \in first .. first + span:
          \/ \E k \in 1 .. 4: records[k].time = t
          \/ \E k \in 2 .. 4: /\ records[k - 1].time < t /\ t < records[k].time
                              /\ records[k].dt # Quality!NoStep
                              /\ records[k].time - records[k - 1].time <= records[k].dt

\* A read returns the rows it was asked for, each from the block that holds it,
\* or refuses because one of them is not archived: a hole is never closed up
\* (Strip.read).
Sessions3 ==
  {s \in [1 .. 3 -> [segment: {0, 1}, first: 0 .. 5, rows: {1, 2}, discarded: BOOLEAN]]: Archive!Valid(s)}
ASSUME ReadsAreExact ==
  \A records \in Sessions3, segment \in {0, 1}:
    LET strip == Archive!Strip(records, segment)
        Holder(line) == {b \in ToSet(strip): b.first <= line /\ line < Archive!End(b)}
    IN  \A start \in 0 .. 5, behind \in 0 .. 7:
          LET rows == Archive!Read(strip, start, behind)
              archived == \A line \in start .. behind - 1: Holder(line) # {}
          IN  /\ rows # Archive!Refused <=> start < behind /\ archived
              /\ rows # Archive!Refused =>
                   rows = [i \in 1 .. behind - start |->
                             LET b == CHOOSE b \in Holder(start + i - 1): TRUE
                             IN  <<b.first, start + i - 1 - b.first>>]

\* The node of the analytic grid after a sequence of messages.
Settings == [rows |-> 2, tail |-> 2, exposure |-> 1, gap |-> 2, limit |-> 3, kept |-> 3]
Handled(n, message, t) ==
  CASE message = "one"    -> Grid!Joints(n, t, <<t>>, TRUE, Settings)
    [] message = "two"    -> Grid!Joints(n, t, <<t - 1, t>>, TRUE, Settings)
    [] message = "both"   -> Grid!Odom(Grid!Joints(n, t, <<t>>, TRUE, Settings), t, Settings)
    [] message = "swerve" -> Grid!Joints(n, t, <<>>, FALSE, Settings)
    [] message = "odom"   -> Grid!Odom(n, t, Settings)
    [] message = "reset"  -> Grid!Odom(n, 0, Settings)
    [] message = "open"   -> Grid!Enable(n, TRUE, Settings)
    [] message = "tick"   -> Grid!Watchdog(n, t, Settings)
    [] OTHER              -> Grid!Motion(n, message, Settings)
Messages == {"one", "two", "both", "swerve", "odom", "reset", "open", "tick", "HOLD", "DRIVE"}
Driving ==
  LET on == Grid!Motion(Grid!Enable(Grid!Start, TRUE, Settings), "DRIVE", Settings)
  IN  Handled(Handled(Handled(on, "both", 0), "both", 1), "both", 2)

\* The images of a segment show neighbouring lines of one stretch of motion, in
\* whatever order positions, poses, motion states and requests arrive: a line
\* that could not be exposed always ends the segment it was missed in; and the
\* reader accepts the session (stop, process, Blocks).
ASSUME ImagesAreWhole ==
  \A messages \in [1 .. 5 -> Messages]:
    LET n == FoldLeft(LAMBDA m, k: Handled(m, messages[k], k + 2), Driving, [k \in 1 .. 5 |-> k])
        blocks == Grid!EndSegment(n.blocks, Settings).out
        Shown(segment) == FlattenSeq([k \in DOMAIN blocks |->
                            IF blocks[k].segment = segment THEN blocks[k].lines ELSE <<>>])
    IN  /\ Archive!Valid([k \in DOMAIN blocks |->
              [segment |-> blocks[k].segment, first |-> blocks[k].first, rows |-> Len(blocks[k].lines),
               discarded |-> blocks[k].discarded]])
        /\ \A segment \in {b.segment : b \in ToSet(blocks)}:
             LET shown == Shown(segment)
             IN  \A i \in 2 .. Len(shown): /\ shown[i].stretch = shown[i - 1].stretch
                                            /\ shown[i].number = shown[i - 1].number + 1
=============================================================================

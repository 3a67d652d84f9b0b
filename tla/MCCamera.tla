------------------------------ MODULE MCCamera ------------------------------
(* The camera, and its pure parts against what they are meant to compute. *)
EXTENDS LineScanCamera, DistanceTrigger

Recorder == INSTANCE FlightRecorder

\* Neighbours are what the reader compares, record by record of the sorted session
\* (validate_capture_sequence).
ASSUME NeighboursAreCompared ==
  \A s \in [1 .. 3 -> [segment: {0, 1}, first: 0 .. 2, rows: {1, 2}, discarded: BOOLEAN]]:
    LET blocks == ToSet(s)
    IN  (\A v \in Neighbours(blocks): Archive!Follows(v[1], v[2]))
          <=> Archive!Valid(SetToSortSeq(blocks, LAMBDA b, c: b.first < c.first))

Paths(steps, n) ==
  {[i \in 1 .. n |-> FoldLeft(LAMBDA a, b: a + b, 0, SubSeq(s, 1, i))] : s \in [1 .. n -> steps]}

\* How far the stretch got in its direction, whatever it retraced on the way.
Reach(path, dir) == Max({dir * (path[i] - path[1]) : i \in DOMAIN path})

\* In position mode the lines of a stretch are the consecutive multiples of the
\* spacing up to the farthest point reached: jitter and retraces neither repeat
\* nor drop one (Trigger::Update).
ASSUME PositionModeIsExact ==
  \A path \in Paths({-3, -1, 1, 2, 5}, 5):
    LET t == Stretch(path, 2, TRUE)
    IN  t.lines = [k \in 1 .. (IF t.direction = 0 THEN 0 ELSE Reach(path, t.direction) \div 2)
                     |-> path[1] + t.direction * 2 * k]

\* A strict trigger faults exactly when the encoder has come back by a spacing,
\* and until then emits the same lines.
ASSUME StrictModeFaultsOnRetrace ==
  \A path \in Paths({-3, -1, 1, 2, 5}, 5):
    LET strict == Stretch(path, 2, FALSE)
        loose == Stretch(path, 2, TRUE)
    IN  /\ ~strict.fault => strict = loose
        /\ strict.fault => IsPrefix(strict.lines, loose.lines)
        /\ strict.fault <=> \E j \in DOMAIN path: LET t == Stretch(SubSeq(path, 1, j), 2, TRUE)
                            IN  t.direction * (t.extreme - path[j]) >= 2 /\ t.direction # 0

\* The recorder holds the newest steps within the span, as many as fit, oldest
\* first: a dump shows an unbroken window that ends at the rejected step.
ASSUME RecorderKeepsTheNewest ==
  \A times \in Paths({1, 2, 4}, 6):
    LET ring == FoldLeft(LAMBDA r, t: Recorder!Push(r, t, 5), Recorder!Empty(3), times)
        recent == SelectSeq(times, LAMBDA t: Last(times) - t <= 5)
    IN  Recorder!Snapshot(ring) = SubSeq(recent, Max({1, Len(recent) - 2}), Len(recent))
=============================================================================

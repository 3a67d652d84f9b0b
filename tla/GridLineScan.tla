----------------------------- MODULE GridLineScan -----------------------------
(***************************************************************************)
(* The line-scan node of the analytic grid (node.py, with Blocks of         *)
(* core.py): a single-threaded consumer of wheel positions, poses and       *)
(* motion states that arrive in any order.  A line waits in `pending' until *)
(* the poses around its exposure are known.  A line is the stretch of       *)
(* motion it belongs to, its number in there and the time it fell due; what *)
(* it shows is left out.  Every operator takes the node's state and returns *)
(* the next one; c holds rows, tail, exposure, gap, limit (of lines) and    *)
(* kept (poses), the parameters of the node.                                *)
(***************************************************************************)
EXTENDS Integers, Sequences, SequencesExt

None == -1

-----------------------------------------------------------------------------
(* Blocks: rows are collected into images, a short tail is only reported. *)

NoBlocks == [rows |-> <<>>, line |-> 0, segment |-> 0, out |-> <<>>]

Flush(b, full, c) ==
  IF b.rows = <<>> THEN b
  ELSE [b EXCEPT !.rows = <<>>,
                 !.out = Append(@, [lines |-> b.rows, first |-> b.line - Len(b.rows),
                                    segment |-> b.segment,
                                    discarded |-> ~full /\ Len(b.rows) < c.tail])]

Add(b, line, c) ==
  LET a == [b EXCEPT !.rows = Append(@, line), !.line = @ + 1]
  IN  IF Len(a.rows) = c.rows THEN Flush(a, TRUE, c) ELSE a

EndSegment(b, c) == [Flush(b, FALSE, c) EXCEPT !.segment = @ + 1]

-----------------------------------------------------------------------------
(* The node. *)

Start == [enabled |-> FALSE, motion |-> "", pending |-> <<>>, poses |-> <<>>, heard |-> None,
          stretch |-> 0, due |-> None, blocks |-> NoBlocks]

\* What was not exposed yet cannot be any more; the trigger starts over, and its
\* first sample only says where it starts (due is None until then).
Stop(n, c) ==
  [n EXCEPT !.pending = <<>>, !.blocks = EndSegment(@, c), !.heard = None,
            !.stretch = @ + 1, !.due = None]

\* pose_at: a pose is known at a stamp, or between two that are close enough.
Known(n, t, c) ==
  \/ \E i \in DOMAIN n.poses: n.poses[i] = t
  \/ \E i \in 1 .. Len(n.poses) - 1:
       n.poses[i] < t /\ t < n.poses[i + 1] /\ n.poses[i + 1] - n.poses[i] <= c.gap

Expose(n, line, c) ==
  LET popped == [n EXCEPT !.pending = Tail(@)]
  IN  IF \A t \in {line.time, line.time + c.exposure \div 2, line.time + c.exposure}: Known(n, t, c)
      THEN [popped EXCEPT !.blocks = Add(@, line, c)] ELSE Stop(popped, c)

\* Lines are exposed in order, until one that ends after the newest pose.
Process(n, c) ==
  FoldLeft(LAMBDA m, line:
             IF m.pending # <<>> /\ Head(m.pending) = line /\ Len(m.poses) >= 2
                  /\ line.time + c.exposure <= Last(m.poses)
             THEN Expose(m, line, c) ELSE m,
           n, n.pending)

Enable(n, on, c) == [Stop(n, c) EXCEPT !.enabled = on]

Motion(n, mode, c) ==
  [(IF mode # n.motion /\ mode # "DRIVE" THEN Stop(Process(n, c), c) ELSE n) EXCEPT !.motion = mode]

Odom(n, t, c) ==
  LET m == IF n.poses # <<>> /\ t <= Last(n.poses) THEN [Stop(n, c) EXCEPT !.poses = <<>>] ELSE n
      poses == Append(m.poses, t)
  IN  Process([m EXCEPT !.poses = IF Len(poses) > c.kept THEN Tail(poses) ELSE poses], c)

\* Lines fall due at the given times; where they fall is the arithmetic left out.
Trigger(n, times) ==
  IF n.due = None THEN [n EXCEPT !.due = 0]
  ELSE [n EXCEPT !.due = @ + Len(times),
                 !.pending = @ \o [i \in DOMAIN times |->
                                     [stretch |-> n.stretch, number |-> n.due + i, time |-> times[i]]]]

\* scannable: straight, slow, wheels that agree, and a sample the trigger takes.
Joints(n, t, times, scannable, c) ==
  IF ~n.enabled \/ n.motion # "DRIVE" THEN n
  ELSE IF ~scannable THEN Stop(n, c)
  ELSE LET m == IF n.heard # None /\ t - n.heard > c.gap THEN Stop(n, c) ELSE n
           k == Trigger([m EXCEPT !.heard = t], times)
       IN  IF Len(k.pending) > c.limit THEN Stop(k, c) ELSE Process(k, c)

Watchdog(n, now, c) == IF n.heard # None /\ now - n.heard > c.gap THEN Stop(n, c) ELSE n
=============================================================================

--------------------------- MODULE DistanceTrigger ---------------------------
(***************************************************************************)
(* The distance trigger of sampling.hpp: which encoder positions a camera   *)
(* line is taken at.  Distances are whole units; the time of a line, which  *)
(* is interpolated within its step, is left out.                            *)
(***************************************************************************)
EXTENDS Integers, Sequences, FiniteSetsExt, SequencesExt

\* The state of a Trigger, with the lines it has emitted so far.
Fresh == [valid |-> FALSE, direction |-> 0, distance |-> 0, origin |-> 0, extreme |-> 0,
          index |-> 1, lines |-> <<>>, fault |-> FALSE]

AbsOf(n) == IF n < 0 THEN -n ELSE n

\* The direction is latched once the encoder is a line spacing from where the
\* stretch began.
Latched(t, d, spacing) ==
  IF t.direction = 0 /\ AbsOf(d - t.origin) >= spacing
  THEN [t EXCEPT !.direction = IF d >= t.origin THEN 1 ELSE -1, !.index = 1] ELSE t

\* One Update: lines are emitted only while moving on, at every position from
\* the frontier to the encoder; a retrace of a spacing faults a strict trigger.
Update(t, d, spacing, position) ==
  IF ~t.valid THEN [t EXCEPT !.valid = TRUE, !.distance = d, !.origin = d, !.extreme = d]
  ELSE
    LET l == Latched(t, d, spacing)
        dir == l.direction
        retrace == Max({0, dir * (l.extreme - d)})
        reached == {k \in l.index .. l.index + AbsOf(d - l.origin) :
                      dir * (d - l.origin) >= k * spacing}
    IN  IF dir # 0 /\ ~position /\ retrace >= spacing THEN [l EXCEPT !.fault = TRUE]
        ELSE [l EXCEPT !.extreme = IF dir * (d - @) > 0 THEN d ELSE @,
                       !.distance = d,
                       !.lines = IF dir * (d - l.distance) <= 0 THEN @
                                 ELSE @ \o [k \in 1 .. Cardinality(reached) |->
                                              l.origin + dir * (l.index + k - 1) * spacing],
                       !.index = IF dir * (d - l.distance) <= 0 THEN @ ELSE @ + Cardinality(reached)]

\* A whole stretch; nothing follows a fault but Reset.
Stretch(path, spacing, position) ==
  FoldLeft(LAMBDA t, d: IF t.fault THEN t ELSE Update(t, d, spacing, position), Fresh, path)
=============================================================================

---------------------------- MODULE CaptureQuality ----------------------------
(***************************************************************************)
(* Which blocks the audit keeps out of verified coverage because of how the *)
(* vehicle moved (agv_mission/capture_quality.py), decided from the control *)
(* records of the executor's archive.  Times are whole units.  Of a record  *)
(* the model keeps its time, the track, whether the wheels were being       *)
(* reconfigured during capture, and the duration it declares for its own    *)
(* control step, or NoStep.                                                 *)
(***************************************************************************)
EXTENDS Integers, Sequences, SequencesExt

NoStep == -1

\* reconfiguration_windows: each record that saw the wheels turning, padded for
\* the latency of telemetry; a window of the same track that it touches grows.
Windows(records, pad) ==
  LET Grow(ws, row) ==
        IF ~row.reconfiguring THEN ws
        ELSE IF ws # <<>> /\ Last(ws).track = row.track /\ row.time - pad <= Last(ws).end
             THEN Append(Front(ws), [Last(ws) EXCEPT !.end = row.time + pad])
             ELSE Append(ws, [track |-> row.track, start |-> row.time - pad, end |-> row.time + pad])
  IN  FoldLeft(Grow, <<>>, records)

Affected(windows, track, first, last) ==
  \E w \in ToSet(windows): w.track = track /\ first <= w.end /\ last >= w.start

\* trace_gaps: a slow step declares its own length; what is longer than declared
\* hides records that are missing.
Gaps(records, tolerance) ==
  {[start |-> records[k - 1].time, end |-> records[k].time] :
     k \in {k \in 2 .. Len(records):
              LET row == records[k] IN
                row.dt = NoStep \/ row.time - records[k - 1].time > row.dt + tolerance}}

\* The audit's verdict on a block.
Excluded(records, track, first, last, pad, tolerance) ==
  \/ Affected(Windows(records, pad), track, first, last)
  \/ first < Head(records).time \/ Last(records).time < last
  \/ \E g \in Gaps(records, tolerance): g.start < last /\ g.end > first
=============================================================================

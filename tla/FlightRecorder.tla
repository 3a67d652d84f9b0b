---------------------------- MODULE FlightRecorder ----------------------------
(***************************************************************************)
(* The ring of flight_recorder.hpp: the steps before a rejected motion,     *)
(* bounded by a count and by a span of simulated time.  A sample is its     *)
(* time.                                                                    *)
(***************************************************************************)
EXTENDS Integers, Sequences, FiniteSetsExt, SequencesExt

Empty(capacity) == [buffer |-> [i \in 0 .. capacity - 1 |-> 0], head |-> 0, count |-> 0]
Capacity(ring) == Cardinality(DOMAIN ring.buffer)

Drop(ring, n) == [ring EXCEPT !.head = (@ + n) % Capacity(ring), !.count = @ - n]

\* Push: the oldest gives way to a full ring, then everything older than the
\* span before the newest goes; the newest always stays.
Push(ring, time, span) ==
  LET room == IF ring.count = Capacity(ring) THEN Drop(ring, 1) ELSE ring
      full == [room EXCEPT !.buffer[(room.head + room.count) % Capacity(ring)] = time, !.count = @ + 1]
      old == {n \in 0 .. full.count - 1: \A m \in 0 .. n - 1:
                time - full.buffer[(full.head + m) % Capacity(ring)] > span}
  IN  Drop(full, Max(old))

\* Snapshot: oldest first.
Snapshot(ring) == [i \in 1 .. ring.count |-> ring.buffer[(ring.head + i - 1) % Capacity(ring)]]
=============================================================================

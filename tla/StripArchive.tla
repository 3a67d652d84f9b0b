----------------------------- MODULE StripArchive -----------------------------
(***************************************************************************)
(* A capture session as it is read back: the sequence of block files and   *)
(* discarded tails that offline_correction.py accepts, and the strips of    *)
(* strip_reader.py, addressed by global line.  A record is, in the order of *)
(* block ids, its segment, first line and number of rows, and whether it is *)
(* a file or the report of a discarded tail.  A pixel row is known by the   *)
(* block that holds it and its place in there.                              *)
(***************************************************************************)
EXTENDS Integers, Sequences, FiniteSetsExt, SequencesExt

End(b) == b.first + b.rows

\* What validate_capture_sequence asks of two blocks with neighbouring ids.
Follows(previous, current) ==
  /\ previous.segment <= current.segment
  /\ End(previous) <= current.first
  /\ previous.discarded \/ current.discarded \/ previous.segment = current.segment
       => current.first = End(previous)

\* It is asked once the ids are known to be complete.
Valid(records) == \A k \in 2 .. Len(records): Follows(records[k - 1], records[k])

\* index: the files of one segment.
Strip(records, segment) == SelectSeq(records, LAMBDA b: b.segment = segment /\ ~b.discarded)

\* Runs of global lines without a hole.
Runs(strip) ==
  FoldLeft(LAMBDA out, b: IF out # <<>> /\ Last(out)[2] = b.first
                          THEN Append(Front(out), <<Last(out)[1], End(b)>>)
                          ELSE Append(out, <<b.first, End(b)>>),
           <<>>, strip)

SpanOf(strip, line) == {v \in ToSet(Runs(strip)): v[1] <= line /\ line < v[2]}

Chunk(b, start, stop) ==
  LET lo == Max({start, b.first})
      hi == Min({stop, End(b)})
  IN  [i \in 1 .. Max({0, hi - lo}) |-> <<b.first, lo - b.first + i - 1>>]

\* read: the rows of [start, stop), or none if they do not lie in one run.
Refused == <<>>
Read(strip, start, stop) ==
  IF start < stop /\ \E v \in SpanOf(strip, start): stop <= v[2]
  THEN FoldLeft(LAMBDA out, b: out \o Chunk(b, start, stop), <<>>, strip)
  ELSE Refused
=============================================================================

----------------------------- MODULE CoverageLists -----------------------------
(***************************************************************************)
(* merge and complement of coverage.py as they are computed, in one pass    *)
(* over a sorted list.  CoverageAudit says in terms of sets what they       *)
(* compute.                                                                *)
(***************************************************************************)
EXTENDS Integers, SequencesExt

Ascending(a, b) == a[1] < b[1] \/ (a[1] = b[1] /\ a[2] < b[2])

\* merge: sorted, empty ones dropped, overlapping and touching ones joined.
Merge(intervals) ==
  LET Join(out, v) ==
        IF v[2] <= v[1] THEN out
        ELSE IF out # <<>> /\ v[1] <= Last(out)[2]
             THEN Front(out) \o <<<<Last(out)[1], Max({v[2], Last(out)[2]})>>>>
             ELSE Append(out, v)
  IN  FoldLeft(Join, <<>>, SetToSortSeq(intervals, Ascending))

\* complement: the gaps a cursor leaves behind it, and the rest.
Complement(intervals, length) ==
  LET Step(s, v) ==
        LET lo == Max({0, v[1]}) hi == Min({length, v[2]})
        IN  [out |-> IF lo > s.cursor THEN Append(s.out, <<s.cursor, lo>>) ELSE s.out,
             cursor |-> Max({s.cursor, hi})]
      end == FoldLeft(Step, [out |-> <<>>, cursor |-> 0], Merge(intervals))
  IN  IF end.cursor < length THEN Append(end.out, <<end.cursor, length>>) ELSE end.out
=============================================================================

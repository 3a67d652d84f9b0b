---------------------------- MODULE CoverageAudit ----------------------------
(***************************************************************************)
(* What a finished pass is worth: capture_audit.py walks the archived       *)
(* blocks of a capture interval in order and keeps the runs of pose tags    *)
(* that nothing breaks, coverage.py turns the runs into intervals of        *)
(* verified road, asks for rescans of the rest and adds the sessions that   *)
(* scanned them.                                                            *)
(*                                                                          *)
(* One lateral strip is followed: a track of the parent plan and, as every  *)
(* candidate repeats the strip, the single track of each rescan.  The audit *)
(* knows estimates; the model also knows where the camera really was, which *)
(* is within the declared uncertainty of every estimate, and what it really *)
(* imaged.  Positions along the track are whole units.                      *)
(***************************************************************************)
EXTENDS RectanglePlan

CONSTANTS Asked,     \* the rectangle requests considered
          BlockRows, \* the lengths of road a block may hold
          Sessions   \* bound: rescans

\* What the planner has checked of a request, and what a block is.
ASSUME AuditAssumption == Asked \subseteq Requests /\ BlockRows \subseteq Nat \ {0}

VARIABLES
  parent,           \* the audited mission: its request and track
  session,          \* what is being audited: request, track, where it begins on the road
  pos, stop,        \* truth: next line's position, where capture closed
  known,            \* `previous' is a block the run may go on from
  run,              \* first and last estimate and number of tags of the run
  accepted,         \* intervals of this session's spans
  seen, clean,      \* truth: road cells imaged; nothing went wrong so far
  covered, gaps,    \* the report: verified and unverified intervals of the parent
  candidates,       \* rescan candidates still listed
  phase, sessions

pass == <<session, pos, stop, known, run, accepted, clean>>
report == <<covered, gaps, candidates>>
vars == <<parent, pass, seen, report, phase, sessions>>

-----------------------------------------------------------------------------
(* coverage.py *)

\* Intervals are pairs, from an end that belongs to them to one that does not.
Cells(intervals) == UNION {v[1] .. v[2] - 1 : v \in intervals}

\* The longest intervals a set of cells is made of.
Runs(cells) ==
  {v \in cells \X {c + 1 : c \in cells}:
     /\ v[1] < v[2] /\ v[1] .. v[2] - 1 \subseteq cells
     /\ v[1] - 1 \notin cells /\ v[2] \notin cells}

\* merge: empty intervals dropped, overlapping and touching ones joined.  The
\* passes over sorted lists that compute this and the next are CoverageLists.
Merge(intervals) == Runs(Cells(intervals))

\* complement: the gaps they leave.
Complement(intervals, length) == Runs((0 .. length - 1) \ Cells(intervals))

\* The strip assigned to a track: to the region's edge, or half way to the
\* neighbour.
StripLow(r, i) == IF i = 0 THEN 0 ELSE (Centre(r, i - 1) + Centre(r, i)) \div 2
StripHigh(r, i) ==
  IF i + 1 = Tracks(r) THEN 2 * r.width ELSE (Centre(r, i) + Centre(r, i + 1)) \div 2

\* A footprint `off' units off its centre line that the strip lies within.
Spans(r, i, off) ==
  /\ Centre(r, i) + 2 * off - r.swath <= StripLow(r, i)
  /\ Centre(r, i) + 2 * off + r.swath >= StripHigh(r, i)
\* estimate accepts a tag whose estimated footprint still does when it is
\* padded by the uncertainty.
Accepts(r, i, off) ==
  /\ Centre(r, i) + 2 * off - r.swath + 2 * r.error <= StripLow(r, i)
  /\ Centre(r, i) + 2 * off + r.swath - 2 * r.error >= StripHigh(r, i)

\* Mutant: the last tag is taken at its word.
IncludedToLast(r, run0, length) ==
  LET start == run0.first + r.error
      end == run0.last
  IN  IF run0.tags < 2 \/ end <= start THEN {}
      ELSE {<<Max({0, start}), Min({length, end})>>}

\* estimate.include: a run verifies what lies an uncertainty inside its ends.
Included(r, run0, length) ==
  LET start == run0.first + r.error
      end == run0.last - r.error
  IN  IF run0.tags < 2 \/ end <= start THEN {}
      ELSE {<<Max({0, start}), Min({length, end})>>}

\* rescan_requests: the gaps, widened into known road and joined.
Widened(r, g, length) == <<Max({0, g[1] - r.error}), Min({length, g[2] + r.error})>>
Rescans(r, missing, length) == Merge({Widened(r, g, length) : g \in missing})

\* Mutant: a candidate is kept only while all of it is missing.
ListedWhole(c, missing) == \E g \in missing: g[1] <= c[1] /\ c[2] <= g[2]
\* A candidate stays listed while it overlaps what is missing.
Listed(c, missing) == \E g \in missing: Max({g[1], c[1]}) < Min({g[2], c[2]})

\* combine: the slabs between neighbouring edges of all rectangles that one of
\* them covers, in road coordinates.
Edges(all, length) == {0, length} \cup {Max({0, Min({length, v})}) : v \in UNION {{x[1], x[2]} : x \in all}}
Combine(all, length) ==
  LET edges == Edges(all, length)
  IN  {s \in edges \X edges:
         /\ s[1] < s[2] /\ \A e \in edges: e <= s[1] \/ s[2] <= e
         /\ \E x \in all: x[1] <= s[1] /\ s[2] <= x[2]}

\* Along a track that is driven backwards the road runs the other way.
Mirror(d, length, v) == IF d = 1 THEN v ELSE <<length - v[2], length - v[1]>>
OnRoad(intervals) == {Mirror(Direction(parent.track), parent.request.length, v) : v \in intervals}

-----------------------------------------------------------------------------
NoRun == [first |-> 0, last |-> 0, tags |-> 0]
Size == session.request.length
Error == session.request.error

\* The first session audits the whole of the parent's track.
Whole == [request |-> parent.request, track |-> parent.track, low |-> 0]

\* finish: what the run verifies is kept and a new run begins.
Broken(s) == [run |-> NoRun, out |-> s.out \cup Included(session.request, s.run, Size)]

\* A pass of the strip: capture opens in the lead-in, at the latest where the
\* region begins, and closes behind the over-run; the tail may be discarded.
Passes(s) ==
  [session: {s}, pos: {- Lead(s.request), 0},
   stop: {s.request.length + Overrun(s.request) - tail : tail \in {0, s.request.tail}}]

Init ==
  /\ \E r \in Asked: Feasible(r) /\ \E i \in 0 .. Tracks(r) - 1: parent = [request |-> r, track |-> i]
  /\ \E p \in Passes(Whole):
       session = p.session /\ pos = p.pos /\ stop = p.stop /\ clean = (p.pos <= -2 * p.session.request.error)
  /\ known = FALSE /\ run = NoRun /\ accepted = {} /\ seen = {}
  /\ covered = {} /\ gaps = {} /\ candidates = {} /\ phase = "audit" /\ sessions = 0

\* A tag: an estimate that is off by the uncertainty either way, on the centre
\* line or beside it; or none, where the navigation has a hole.
NoFix == [bias |-> 0, off |-> 0]
TagKinds == [bias: {-1, 1}, off: {0, 1}] \cup {NoFix}

\* The run after a tag at true position a.  A footprint that leaves the strip
\* when padded ends it, as a hole does.
Prolonged(run0, e) == [first |-> IF run0.tags = 0 THEN e ELSE run0.first, last |-> e, tags |-> run0.tags + 1]
Extended(s, a, tag) ==
  IF tag = NoFix \/ ~Accepts(session.request, session.track, tag.off * Error) THEN Broken(s)
  ELSE [s EXCEPT !.run = Prolonged(@, a + tag.bias * Error)]

\* The truth of a tag's footprint: the estimate drifted the way that hurts.
Imaged(tag) == tag # NoFix /\ Spans(session.request, session.track, (tag.off + 1) * Error)
Centred(tag) == tag # NoFix /\ tag.off = 0

RoadCells(s, v) ==
  LET w == Mirror(Direction(s.track), s.request.length, <<Max({0, v[1]}), Min({s.request.length, v[2]})>>)
  IN  {s.low + c : c \in w[1] .. w[2] - 1}

\* One archived block.  Road may be missing before it: lines were lost, or
\* capture was off.  Its pixels, calibration or motion may be rejected.  Only a
\* block that follows the previous one line by line in the same segment goes
\* on with its run.
Block ==
  /\ phase = "audit" /\ pos < stop
  /\ \E rows \in BlockRows, skipped \in {0, session.request.tail}, adjoins, good \in BOOLEAN, t1, t2 \in TagKinds:
       LET a == pos + skipped
           b == Min({a + rows, stop})
           before == [run |-> run, out |-> accepted]
           from == IF known /\ adjoins THEN before ELSE Broken(before)
           to == IF good THEN Extended(Extended(from, a, t1), b, t2) ELSE Broken(before)
       IN  /\ b > a /\ (adjoins => skipped = 0)
           /\ good \/ (t1 = NoFix /\ t2 = NoFix)
           /\ pos' = b /\ known' = good /\ run' = to.run /\ accepted' = to.out
           /\ seen' = IF good /\ Imaged(t1) /\ Imaged(t2) THEN seen \cup RoadCells(session, <<a, b>>) ELSE seen
           /\ clean' = (clean /\ good /\ Centred(t1) /\ Centred(t2)
                        /\ skipped = 0 /\ (adjoins \/ run = NoRun))
  /\ UNCHANGED <<parent, session, stop, report, phase, sessions>>

\* What the session verified, and what the parent and it verified together.
Found == Merge(Broken([run |-> run, out |-> accepted]).out)
Combined ==
  LET found == {<<session.low + v[1], session.low + v[2]>> : v \in Found}
  IN  Merge(OnRoad(Combine(OnRoad(covered) \cup found, parent.request.length)))

\* The end of the archive: the first audit reports and lists its candidates, a
\* later one is combined with what the parent knew.
Report ==
  /\ phase = "audit" /\ phase' = "report" /\ clean' = (clean /\ pos = stop)
  /\ covered' = IF sessions = 0 THEN Found ELSE Combined
  /\ gaps' = Complement(covered', parent.request.length)
  /\ candidates' = IF sessions = 0 THEN Rescans(parent.request, gaps', parent.request.length)
                   ELSE {c \in candidates: Listed(c, gaps')}
  /\ known' = FALSE /\ run' = NoRun /\ accepted' = {}
  /\ UNCHANGED <<parent, session, pos, stop, seen, sessions>>

\* The request of a candidate: the gap's piece of road, the parent's strip.
Rescan(c) ==
  LET r == parent.request
      low == Mirror(Direction(parent.track), r.length, c)[1]
      strip == StripHigh(r, parent.track) - StripLow(r, parent.track)
  IN  [request |-> [r EXCEPT !.length = c[2] - c[1], !.width = strip \div 2,
                            !.bounds = <<@[1] - low, @[2] - low>>],
       track |-> 0, low |-> low]

\* A candidate the planner accepts is driven, and its archive audited.
Drive ==
  /\ phase = "report" /\ sessions < Sessions /\ sessions' = sessions + 1
  /\ \E c \in candidates:
       /\ Feasible(Rescan(c).request)
       /\ \E p \in Passes(Rescan(c)):
            /\ session' = p.session /\ pos' = p.pos /\ stop' = p.stop
            /\ clean' = (p.pos <= -2 * p.session.request.error)
  /\ phase' = "audit" /\ UNCHANGED <<parent, known, run, accepted, seen, report>>

Next == Block \/ Report \/ Drive
Spec == Init /\ [][Next]_vars

-----------------------------------------------------------------------------
(* Properties. *)

\* The state stays within its types.
TypeOK ==
  /\ parent \in [request: Requests, track: Nat]
  /\ session \in [request: Requests, track: Nat, low: Int]
  /\ pos \in Int /\ stop \in Int /\ known \in BOOLEAN /\ clean \in BOOLEAN
  /\ run \in [first: Int, last: Int, tags: Nat]
  /\ accepted \subseteq Int \X Int /\ seen \subseteq Int
  /\ covered \subseteq Int \X Int /\ gaps \subseteq Int \X Int /\ candidates \subseteq Int \X Int
  /\ phase \in {"audit", "report"} /\ sessions \in Nat

\* No road is reported as verified that the camera did not image: over lost
\* blocks, rejected blocks, navigation holes, drift, stops and rescans, the
\* union of all sessions claims only what some footprint really spanned.
VerifiedIsSeen ==
  \A v \in covered: RoadCells(Whole, v) \subseteq seen

\* A pass nothing went wrong with leaves no gap in its own region, whatever
\* tail the camera discards and whatever the estimates did: the planner's strip
\* spacing and over-run pay for all the allowances the audit takes back.
CleanPassIsComplete ==
  phase = "report" /\ clean =>
    \A g \in gaps:
      RoadCells(Whole, g) \cap (session.low .. session.low + Size - 1) = {}

\* Whatever has been combined so far, every unverified stretch lies in one
\* candidate that is still listed.
GapsAreReachable ==
  phase = "report" => \A g \in gaps: \E c \in candidates: c[1] <= g[1] /\ g[2] <= c[2]
=============================================================================

------------------------- MODULE CoverageAuditProofs -------------------------
(***************************************************************************)
(* Proofs about the audit of CoverageAudit, for every request the planner   *)
(* accepts, any length of blocks and any number of rescans: only road that  *)
(* was imaged is reported, a clean pass leaves no gap, and what is missing  *)
(* is listed for a rescan.                                                  *)
(*                                                                          *)
(* First what the interval operators of coverage.py compute (Merge,         *)
(* Complement, Combine), then what the planner's geometry gives the audit   *)
(* (CentredIsAccepted, AcceptedIsSpanned), then the invariant:              *)
(*   Placed       the session is a planned site within the parent's region; *)
(*   Ranges       what is reported is made of proper intervals;             *)
(*   Tracked      the run and the kept spans rest on road that was imaged;  *)
(*   Undisturbed  a pass without trouble is one run from before the region; *)
(*   Reachable    each gap lies in a candidate.                             *)
(***************************************************************************)
EXTENDS CoverageAudit, WellFoundedInduction, TLAPS

(***************************************************************************)
(* Integers and intervals.                                                 *)
(***************************************************************************)

\* The greater and the lesser of two integers.
LEMMA MaxOfTwo ==
  ASSUME NEW a \in Int, NEW b \in Int
  PROVE  Max({a, b}) \in Int /\ Max({a, b}) >= a /\ Max({a, b}) >= b /\ (Max({a, b}) = a \/ Max({a, b}) = b)
<1>1. \E x \in {a, b}: \A y \in {a, b}: x >= y
  OBVIOUS
<1> QED BY <1>1 DEF Max

\* The greater and the lesser of two integers.
LEMMA MinOfTwo ==
  ASSUME NEW a \in Int, NEW b \in Int
  PROVE  Min({a, b}) \in Int /\ Min({a, b}) <= a /\ Min({a, b}) <= b /\ (Min({a, b}) = a \/ Min({a, b}) = b)
<1>1. \E x \in {a, b}: \A y \in {a, b}: x <= y
  OBVIOUS
<1> QED BY <1>1 DEF Min

\* A set of integers that reaches no farther down than a bound has a least element.
LEMMA LeastInteger ==
  ASSUME NEW S, \A x \in S: x \in Int, NEW lo \in Int, \A x \in S: lo <= x, S # {}
  PROVE  \E x \in S: \A y \in S: x <= y
<1> DEFINE T == {x - lo : x \in S}
<1>1. T # {} /\ \A n \in T: n \in Nat
  OBVIOUS
<1>2. PICK n \in T: \A k \in T: ~(<<k, n>> \in OpToRel(<, Nat))
  <2>1. T \subseteq Nat
    BY <1>1, Zenon
  <2> HIDE DEF T
  <2> QED BY <1>1, <2>1, WFMin, NatLessThanWellFounded
<1>3. PICK x \in S: n = x - lo
  OBVIOUS
<1>4. \A y \in S: x <= y
  <2> TAKE y \in S
  <2>1. y - lo \in T
    OBVIOUS
  <2>2. y - lo \in Nat /\ n \in Nat
    BY <1>1, <2>1
  <2>3. ~(y - lo < n)
    BY <1>2, <2>1, <2>2 DEF OpToRel
  <2> QED BY <1>3, <2>2, <2>3
<1> QED BY <1>4

\* A set of integers that reaches no farther up than a bound has a greatest element.
LEMMA GreatestInteger ==
  ASSUME NEW S, \A x \in S: x \in Int, NEW hi \in Int, \A x \in S: x <= hi, S # {}
  PROVE  \E x \in S: \A y \in S: y <= x
<1> DEFINE T == {-x : x \in S}
<1>1. T # {} /\ \A n \in T: n \in Int /\ -hi <= n
  OBVIOUS
<1>2. \E n \in T: \A k \in T: n <= k
  <2> HIDE DEF T
  <2> QED BY <1>1, LeastInteger
<1>3. PICK n \in T: \A k \in T: n <= k
  BY <1>2
<1>4. PICK x \in S: n = -x
  OBVIOUS
<1>5. \A y \in S: y <= x
  <2> TAKE y \in S
  <2>1. -y \in T
    OBVIOUS
  <2> QED BY <1>3, <1>4, <2>1
<1> QED BY <1>5

\* What a longest interval is.
LEMMA RunIsWhole ==
  ASSUME NEW C, \A c \in C: c \in Int, NEW v \in Runs(C)
  PROVE  /\ v = <<v[1], v[2]>> /\ v[1] \in Int /\ v[2] \in Int /\ v[1] < v[2]
         /\ \A c \in Int: v[1] <= c /\ c < v[2] => c \in C
         /\ v[1] - 1 \notin C /\ v[2] \notin C
         /\ v[1] \in C /\ v[2] - 1 \in C
<1>1. v \in C \X {c + 1 : c \in C}
  BY DEF Runs
<1>2. v = <<v[1], v[2]>> /\ v[1] \in C /\ v[2] \in {c + 1 : c \in C}
  BY <1>1
<1>3. v[1] \in Int /\ v[2] \in Int /\ v[2] - 1 \in C
  BY <1>2
<1>4. v[1] < v[2] /\ v[1] .. v[2] - 1 \subseteq C /\ v[1] - 1 \notin C /\ v[2] \notin C
  BY DEF Runs
<1>5. \A c \in Int: v[1] <= c /\ c < v[2] => c \in v[1] .. v[2] - 1
  BY <1>3
<1> QED BY <1>2, <1>3, <1>4, <1>5

\* A stretch of a bounded set of cells lies in one of its longest intervals.
LEMMA RunAround ==
  ASSUME NEW C, NEW lo \in Int, NEW hi \in Int, \A c \in C: c \in Int /\ lo <= c /\ c < hi,
         NEW a \in Int, NEW b \in Int, a < b, \A c \in Int: a <= c /\ c < b => c \in C
  PROVE  \E v \in Runs(C): v[1] <= a /\ b <= v[2]
<1> DEFINE Below == {k \in Int: k <= a /\ k \notin C}
           Above == {k \in Int: b <= k /\ k \notin C}
<1>1. a \in C /\ b - 1 \in C
  OBVIOUS
<1>2. \A d \in Int: d \in Below <=> d <= a /\ d \notin C
  OBVIOUS
<1>3. \A d \in Int: d \in Above <=> b <= d /\ d \notin C
  OBVIOUS
<1>a. lo - 1 \in Below /\ hi \in Above /\ (\A d \in Below: d \in Int /\ d <= a) /\ (\A d \in Above: d \in Int /\ b <= d)
  BY <1>1
<1> HIDE DEF Below, Above
<1>4. PICK l \in Below: \A k \in Below: k <= l
  BY <1>a, GreatestInteger
<1>5. PICK u \in Above: \A k \in Above: u <= k
  BY <1>a, LeastInteger
<1>6. l \in Int /\ u \in Int /\ l <= a /\ b <= u /\ l \notin C /\ u \notin C
  BY <1>2, <1>3, <1>a
<1>7. l < a
  BY <1>1, <1>6
<1>8. \A c \in Int: l + 1 <= c /\ c < u => c \in C
  <2> SUFFICES ASSUME NEW c \in Int, l + 1 <= c, c < u, c \notin C
               PROVE  FALSE
    OBVIOUS
  <2>1. CASE c <= a
    BY <2>1, <1>2, <1>4, <1>6
  <2>2. CASE b <= c
    BY <2>2, <1>3, <1>5, <1>6
  <2> QED BY <2>1, <2>2
<1>9. <<l + 1, u>> \in Runs(C)
  <2>1. l + 1 \in C /\ u - 1 \in C /\ l + 1 < u
    BY <1>6, <1>7, <1>8
  <2>2. u \in {c + 1 : c \in C}
    <3>1. u = (u - 1) + 1
      BY <1>6
    <3> QED BY <2>1, <3>1
  <2>3. l + 1 .. u - 1 \subseteq C
    BY <1>6, <1>8
  <2>4. (l + 1) - 1 \notin C
    BY <1>6
  <2> QED BY <1>6, <2>1, <2>2, <2>3, <2>4, Zenon DEF Runs
<1> QED BY <1>6, <1>7, <1>9

\* The cells of intervals.
LEMMA CellOf ==
  ASSUME NEW I, \A v \in I: v[1] \in Int /\ v[2] \in Int
  PROVE  /\ \A c \in Cells(I): c \in Int /\ \E v \in I: v[1] <= c /\ c < v[2]
         /\ \A c \in Int, v \in I: v[1] <= c /\ c < v[2] => c \in Cells(I)
<1>1. \A c \in Cells(I): c \in Int /\ \E v \in I: v[1] <= c /\ c < v[2]
  <2> TAKE c \in Cells(I)
  <2>1. PICK v \in I: c \in v[1] .. v[2] - 1
    BY DEF Cells
  <2> QED BY <2>1
<1>2. \A c \in Int, v \in I: v[1] <= c /\ c < v[2] => c \in Cells(I)
  <2> TAKE c \in Int, v \in I
  <2>1. v[1] <= c /\ c < v[2] => c \in v[1] .. v[2] - 1
    OBVIOUS
  <2> QED BY <2>1 DEF Cells
<1> QED BY <1>1, <1>2

\* What merging yields: intervals within bounds, over the cells of the given ones
\* and no others (merge).
LEMMA MergeIsUnion ==
  ASSUME NEW I, NEW length \in Int, \A v \in I: v[1] \in Int /\ v[2] \in Int /\ 0 <= v[1] /\ v[2] <= length
  PROVE  /\ \A v \in Merge(I):
              /\ v = <<v[1], v[2]>> /\ v[1] \in Int /\ v[2] \in Int
              /\ 0 <= v[1] /\ v[1] < v[2] /\ v[2] <= length
              /\ \A c \in Int: v[1] <= c /\ c < v[2] => \E x \in I: x[1] <= c /\ c < x[2]
         /\ \A a, b \in Int: a < b /\ (\A c \in Int: a <= c /\ c < b => \E x \in I: x[1] <= c /\ c < x[2])
              => \E v \in Merge(I): v[1] <= a /\ b <= v[2]
<1>1. /\ \A c \in Cells(I): c \in Int /\ \E v \in I: v[1] <= c /\ c < v[2]
      /\ \A c \in Int, v \in I: v[1] <= c /\ c < v[2] => c \in Cells(I)
  BY CellOf
<1>2. \A c \in Cells(I): c \in Int /\ 0 <= c /\ c < length
  BY <1>1
<1>3. ASSUME NEW v \in Merge(I)
      PROVE  /\ v = <<v[1], v[2]>> /\ v[1] \in Int /\ v[2] \in Int
             /\ 0 <= v[1] /\ v[1] < v[2] /\ v[2] <= length
             /\ \A c \in Int: v[1] <= c /\ c < v[2] => \E x \in I: x[1] <= c /\ c < x[2]
  <2>1. v \in Runs(Cells(I))
    BY DEF Merge
  <2>2. /\ v = <<v[1], v[2]>> /\ v[1] \in Int /\ v[2] \in Int /\ v[1] < v[2]
        /\ \A c \in Int: v[1] <= c /\ c < v[2] => c \in Cells(I)
        /\ v[1] \in Cells(I) /\ v[2] - 1 \in Cells(I)
    BY <1>2, <2>1, RunIsWhole
  <2>3. 0 <= v[1] /\ v[2] - 1 < length
    BY <1>2, <2>2
  <2> QED BY <1>1, <2>2, <2>3
<1>4. ASSUME NEW a \in Int, NEW b \in Int, a < b,
             \A c \in Int: a <= c /\ c < b => \E x \in I: x[1] <= c /\ c < x[2]
      PROVE  \E v \in Merge(I): v[1] <= a /\ b <= v[2]
  <2>1. \A c \in Int: a <= c /\ c < b => c \in Cells(I)
    BY <1>1, <1>4
  <2>2. \E v \in Runs(Cells(I)): v[1] <= a /\ b <= v[2]
    BY <1>2, <1>4, <2>1, RunAround
  <2> QED BY <2>2 DEF Merge
<1> QED BY <1>3, <1>4

\* What complementing yields: intervals of cells that none of the given ones
\* has, and every stretch of such cells lies in one (complement).
LEMMA ComplementIsRest ==
  ASSUME NEW I, NEW length \in Int, \A v \in I: v[1] \in Int /\ v[2] \in Int
  PROVE  /\ \A v \in Complement(I, length):
              /\ v = <<v[1], v[2]>> /\ v[1] \in Int /\ v[2] \in Int
              /\ 0 <= v[1] /\ v[1] < v[2] /\ v[2] <= length
              /\ \A c \in Int: v[1] <= c /\ c < v[2] => \A x \in I: ~(x[1] <= c /\ c < x[2])
         /\ \A a, b \in Int:
              0 <= a /\ a < b /\ b <= length /\ (\A c \in Int: a <= c /\ c < b => \A x \in I: ~(x[1] <= c /\ c < x[2]))
              => \E v \in Complement(I, length): v[1] <= a /\ b <= v[2]
<1> DEFINE C == (0 .. length - 1) \ Cells(I)
<1>1. /\ \A c \in Cells(I): c \in Int /\ \E v \in I: v[1] <= c /\ c < v[2]
      /\ \A c \in Int, v \in I: v[1] <= c /\ c < v[2] => c \in Cells(I)
  BY CellOf
<1>2. /\ \A c \in C: c \in Int /\ 0 <= c /\ c < length
      /\ \A c \in Int: 0 <= c /\ c < length /\ c \notin Cells(I) => c \in C
      /\ \A c \in C: c \notin Cells(I)
  OBVIOUS
<1>3. Complement(I, length) = Runs(C)
  BY DEF Complement
<1> HIDE DEF C
<1>4. ASSUME NEW v \in Complement(I, length)
      PROVE  /\ v = <<v[1], v[2]>> /\ v[1] \in Int /\ v[2] \in Int
             /\ 0 <= v[1] /\ v[1] < v[2] /\ v[2] <= length
             /\ \A c \in Int: v[1] <= c /\ c < v[2] => \A x \in I: ~(x[1] <= c /\ c < x[2])
  <2>1. v \in Runs(C)
    BY <1>3
  <2>2. /\ v = <<v[1], v[2]>> /\ v[1] \in Int /\ v[2] \in Int /\ v[1] < v[2]
        /\ \A c \in Int: v[1] <= c /\ c < v[2] => c \in C
        /\ v[1] \in C /\ v[2] - 1 \in C
    BY <1>2, <2>1, RunIsWhole
  <2>3. 0 <= v[1] /\ v[2] - 1 < length
    BY <1>2, <2>2
  <2> QED BY <1>1, <1>2, <2>2, <2>3
<1>5. ASSUME NEW a \in Int, NEW b \in Int, 0 <= a, a < b, b <= length,
             \A c \in Int: a <= c /\ c < b => \A x \in I: ~(x[1] <= c /\ c < x[2])
      PROVE  \E v \in Complement(I, length): v[1] <= a /\ b <= v[2]
  <2>1. \A c \in Int: a <= c /\ c < b => c \in C
    <3> TAKE c \in Int
    <3> HAVE a <= c /\ c < b
    <3>1. c \notin Cells(I)
      BY <1>1, <1>5
    <3>2. 0 <= c /\ c < length
      BY <1>5
    <3> QED BY <1>2, <3>1, <3>2
  <2>2. (\A c \in C: c \in Int /\ 0 <= c /\ c < length) /\ a < b
    BY <1>2, <1>5
  <2>3. \E v \in Runs(C): v[1] <= a /\ b <= v[2]
    <3>1. 0 \in Int /\ a \in Int /\ b \in Int
      BY <1>5
    <3> QED BY <2>1, <2>2, <3>1, RunAround, Zenon
  <2> QED BY <1>3, <2>3
<1> QED BY <1>4, <1>5

\* The edges of rectangles lie in the region, and an end within it is an edge.
LEMMA EdgesAreWithin ==
  ASSUME NEW all, NEW length \in Nat, \A x \in all: x[1] \in Int /\ x[2] \in Int
  PROVE  /\ \A e \in Edges(all, length): e \in Int /\ 0 <= e /\ e <= length
         /\ 0 \in Edges(all, length) /\ length \in Edges(all, length)
         /\ \A x \in all: /\ 0 <= x[1] /\ x[1] <= length => x[1] \in Edges(all, length)
                          /\ 0 <= x[2] /\ x[2] <= length => x[2] \in Edges(all, length)
<1> DEFINE Ends == UNION {{x[1], x[2]} : x \in all}
           Clip(v) == Max({0, Min({length, v})})
<1>1. \A v \in Ends: v \in Int
  OBVIOUS
<1>2. \A v \in Int: Clip(v) \in Int /\ 0 <= Clip(v) /\ Clip(v) <= length /\ (0 <= v /\ v <= length => Clip(v) = v)
  <2> TAKE v \in Int
  <2> DEFINE m == Min({length, v})
  <2>1. m \in Int /\ m <= length /\ m <= v /\ (m = length \/ m = v)
    BY MinOfTwo
  <2> HIDE DEF m
  <2> DEFINE M == Max({0, m})
  <2>2. M \in Int /\ M >= 0 /\ M >= m /\ (M = 0 \/ M = m)
    BY <2>1, MaxOfTwo
  <2>3. Clip(v) = M
    BY DEF m
  <2> HIDE DEF M, Clip
  <2> QED BY <2>1, <2>2, <2>3
<1>3. Edges(all, length) = {0, length} \cup {Clip(v) : v \in Ends}
  BY DEF Edges
<1>4. \A x \in all: x[1] \in Ends /\ x[2] \in Ends
  OBVIOUS
<1> HIDE DEF Ends, Clip
<1> QED BY <1>1, <1>2, <1>3, <1>4

\* The slabs between neighbouring edges: each lies in a rectangle, and each cell
\* of a rectangle within the region lies in one of them (combine).
LEMMA SlabsAreUnion ==
  ASSUME NEW all, NEW length \in Nat,
         \A x \in all: x[1] \in Int /\ x[2] \in Int /\ 0 <= x[1] /\ x[2] <= length
  PROVE  /\ \A s \in Combine(all, length):
              /\ s = <<s[1], s[2]>> /\ s[1] \in Int /\ s[2] \in Int
              /\ 0 <= s[1] /\ s[1] < s[2] /\ s[2] <= length
              /\ \E x \in all: x[1] <= s[1] /\ s[2] <= x[2]
         /\ \A c \in Int: (\E x \in all: x[1] <= c /\ c < x[2])
              => \E s \in Combine(all, length): s[1] <= c /\ c < s[2]
<1> DEFINE E == Edges(all, length)
<1>1. /\ \A e \in E: e \in Int /\ 0 <= e /\ e <= length
      /\ \A x \in all: /\ 0 <= x[1] /\ x[1] <= length => x[1] \in E
                       /\ 0 <= x[2] /\ x[2] <= length => x[2] \in E
  BY EdgesAreWithin
<1>2. Combine(all, length) =
        {s \in E \X E: /\ s[1] < s[2] /\ \A e \in E: e <= s[1] \/ s[2] <= e
                       /\ \E x \in all: x[1] <= s[1] /\ s[2] <= x[2]}
  BY DEF Combine
<1> HIDE DEF E
<1>3. ASSUME NEW s \in Combine(all, length)
      PROVE  /\ s = <<s[1], s[2]>> /\ s[1] \in Int /\ s[2] \in Int
             /\ 0 <= s[1] /\ s[1] < s[2] /\ s[2] <= length
             /\ \E x \in all: x[1] <= s[1] /\ s[2] <= x[2]
  BY <1>1, <1>2
<1>4. ASSUME NEW c \in Int, NEW x \in all, x[1] <= c, c < x[2]
      PROVE  \E s \in Combine(all, length): s[1] <= c /\ c < s[2]
  <2> DEFINE L == {e \in E: e <= c}
             U == {e \in E: c < e}
  <2>1. x[1] \in L /\ x[2] \in U
    BY <1>1, <1>4
  <2>2. (\A e \in L: e \in Int /\ e <= c) /\ (\A e \in U: e \in Int /\ c <= e)
    BY <1>1
  <2>3. (\A e \in L: e \in E) /\ (\A e \in U: e \in E /\ c < e) /\ (\A e \in E: e \in L \/ e \in U)
    BY <1>1
  <2> HIDE DEF L, U
  <2>4. PICK a \in L: \A e \in L: e <= a
    BY <2>1, <2>2, GreatestInteger
  <2>5. PICK b \in U: \A e \in U: b <= e
    BY <2>1, <2>2, LeastInteger
  <2>6. a <= c /\ c < b /\ a \in E /\ b \in E /\ a \in Int /\ b \in Int
    BY <2>2, <2>3
  <2>7. x[1] <= a /\ b <= x[2]
    BY <2>1, <2>4, <2>5
  <2>8. \A e \in E: e <= a \/ b <= e
    BY <2>3, <2>4, <2>5
  <2>9. <<a, b>> \in Combine(all, length)
    BY <1>2, <2>6, <2>7, <2>8
  <2> QED BY <2>6, <2>9
<1> QED BY <1>3, <1>4

(***************************************************************************)
(* The geometry of a plan.                                                 *)
(***************************************************************************)

\* Rounding up loses nothing.
LEMMA CeilDivIsEnough ==
  ASSUME NEW a \in Nat, NEW b \in Nat \ {0}
  PROVE  CeilDiv(a, b) \in Nat /\ CeilDiv(a, b) * b >= a
<1> DEFINE q == (a + b - 1) \div b
           m == (a + b - 1) % b
<1>1. q \in Int /\ m \in 0 .. b - 1 /\ a + b - 1 = b * q + m
  OBVIOUS
<1> HIDE DEF q, m
<1>2. q * b \in Int /\ q * b = b * q /\ q * b >= a
  BY <1>1
<1>3. q >= 0
  BY <1>1, <1>2
<1> QED BY <1>1, <1>2, <1>3 DEF CeilDiv, q

\* Half of twice a number.
LEMMA HalfOfTwice == \A k \in Int: (2 * k) \div 2 = k
  OBVIOUS

\* A plan's tracks lie apart by the spacing, and those at the edges reach over them.
LEMMA TracksSpread ==
  ASSUME NEW r \in Requests, Feasible(r)
  PROVE  /\ Tracks(r) \in Nat \ {0}
         /\ \A i \in Int: Centre(r, i) \in Int
         /\ \A i \in Int: Tracks(r) > 1 => Centre(r, i) = Centre(r, i - 1) + 2 * r.spacing
         /\ Centre(r, 0) <= Effective(r)
         /\ Centre(r, Tracks(r) - 1) >= 2 * r.width - Effective(r)
<1>1. /\ r.width \in Int /\ r.spacing \in Nat \ {0} /\ Effective(r) \in Int
      /\ r.spacing <= Effective(r)
  BY DEF Requests, Effective, Feasible
<1> DEFINE excess == Max({0, r.width - Effective(r)})
           n == CeilDiv(excess, r.spacing)
<1>2. excess \in Nat /\ excess >= r.width - Effective(r) /\ (excess = 0 \/ excess = r.width - Effective(r))
  <2>1. 0 \in Int /\ r.width - Effective(r) \in Int
    BY <1>1
  <2>2. excess \in Int /\ excess >= 0 /\ excess >= r.width - Effective(r)
        /\ (excess = 0 \/ excess = r.width - Effective(r))
    BY <2>1, MaxOfTwo
  <2> HIDE DEF excess
  <2> QED BY <2>2
<1>3. n \in Nat /\ n * r.spacing >= excess
  BY <1>1, <1>2, CeilDivIsEnough
<1>4. Tracks(r) = n + 1
  BY DEF Tracks
<1> HIDE DEF n
<1> DEFINE sp == IF Tracks(r) > 1 THEN r.spacing ELSE 0
<1>5. sp \in Int /\ n * sp \in Int /\ n * sp >= excess
  <2>1. CASE n = 0
    BY <1>1, <1>2, <1>3, <1>4, <2>1
  <2>2. CASE n > 0
    BY <1>1, <1>2, <1>3, <1>4, <2>2
  <2> QED BY <1>3, <2>1, <2>2
<1>6. \A i \in Int: Centre(r, i) = r.width + (2 * i - n) * sp
  BY <1>3, <1>4 DEF Centre
<1> HIDE DEF sp, excess
<1>7. \A i \in Int: Centre(r, i) \in Int
  BY <1>1, <1>3, <1>5, <1>6
<1>8. \A i \in Int: Centre(r, i) = Centre(r, i - 1) + 2 * sp
  BY <1>1, <1>3, <1>5, <1>6
<1>9. Centre(r, 0) = r.width - n * sp /\ Centre(r, n) = r.width + n * sp
  BY <1>1, <1>3, <1>5, <1>6
<1>10. Tracks(r) > 1 => sp = r.spacing
  BY DEF sp
<1>11. Centre(r, 0) <= Effective(r) /\ Centre(r, n) >= 2 * r.width - Effective(r)
  BY <1>1, <1>2, <1>5, <1>9
<1>12. Tracks(r) - 1 = n
  BY <1>3, <1>4
<1> QED BY <1>3, <1>4, <1>7, <1>8, <1>10, <1>11, <1>12

\* The strips are whole numbers, one beside the next.
LEMMA StripsAreNumbers ==
  ASSUME NEW r \in Requests, Feasible(r), NEW i \in Int
  PROVE  StripLow(r, i) \in Int /\ StripHigh(r, i) \in Int
<1>1. r.width \in Int /\ Centre(r, i - 1) \in Int /\ Centre(r, i) \in Int /\ Centre(r, i + 1) \in Int
  BY TracksSpread DEF Requests
<1> QED BY <1>1 DEF StripLow, StripHigh

\* The footprint of a camera on its line covers the strip of its track, padded by
\* the uncertainty: the track spacing the planner demands is what the audit needs
\* (plan, estimate).
LEMMA CentredIsAccepted ==
  ASSUME NEW r \in Requests, Feasible(r), NEW i \in 0 .. Tracks(r) - 1
  PROVE  Accepts(r, i, 0)
<1> DEFINE C == Centre(r, i)
<1>1. /\ r.swath \in Nat /\ r.error \in Nat /\ r.spacing \in Nat /\ r.width \in Int
      /\ Effective(r) = r.swath - 2 * r.error /\ r.spacing <= Effective(r)
  BY DEF Requests, Feasible, Effective
<1>2. Tracks(r) \in Nat \ {0} /\ i \in Int /\ i <= Tracks(r) - 1 /\ 0 <= i
  BY TracksSpread
<1>3. C \in Int
  BY <1>2, TracksSpread
<1>4. C - Effective(r) <= StripLow(r, i)
  <2>1. CASE i = 0
    <3>1. Centre(r, 0) <= Effective(r)
      BY TracksSpread
    <3> QED BY <1>1, <1>3, <2>1, <3>1 DEF StripLow
  <2>2. CASE i # 0
    <3>1. C = Centre(r, i - 1) + 2 * r.spacing /\ Centre(r, i - 1) \in Int
      BY <1>2, <2>2, TracksSpread
    <3>2. StripLow(r, i) = (Centre(r, i - 1) + C) \div 2
      BY <2>2 DEF StripLow
    <3> HIDE DEF C
    <3>3. (Centre(r, i - 1) + C) \div 2 = C - r.spacing
      <4>1. Centre(r, i - 1) + C = 2 * (C - r.spacing) /\ C - r.spacing \in Int
        BY <1>1, <1>3, <3>1
      <4> QED BY <4>1, HalfOfTwice
    <3> QED BY <1>1, <1>3, <3>2, <3>3
  <2> QED BY <2>1, <2>2
<1>5. C + Effective(r) >= StripHigh(r, i)
  <2>1. CASE i + 1 = Tracks(r)
    <3>1. i = Tracks(r) - 1
      BY <1>2, <2>1
    <3>2. C >= 2 * r.width - Effective(r)
      BY <3>1, TracksSpread
    <3>3. StripHigh(r, i) = 2 * r.width
      BY <2>1 DEF StripHigh
    <3> QED BY <1>1, <1>3, <3>2, <3>3
  <2>2. CASE i + 1 # Tracks(r)
    <3>1. i + 1 \in Int /\ Tracks(r) > 1 /\ (i + 1) - 1 = i
      BY <1>2, <2>2
    <3>2. Centre(r, i + 1) = C + 2 * r.spacing
      <4>1. Centre(r, i + 1) = Centre(r, (i + 1) - 1) + 2 * r.spacing
        BY <3>1, TracksSpread
      <4> QED BY <3>1, <4>1
    <3>3. StripHigh(r, i) = (C + Centre(r, i + 1)) \div 2
      BY <2>2 DEF StripHigh
    <3> HIDE DEF C
    <3>4. (C + Centre(r, i + 1)) \div 2 = C + r.spacing
      <4>1. C + Centre(r, i + 1) = 2 * (C + r.spacing) /\ C + r.spacing \in Int
        BY <1>1, <1>3, <3>2
      <4> QED BY <4>1, HalfOfTwice
    <3> QED BY <1>1, <1>3, <3>3, <3>4
  <2> QED BY <2>1, <2>2
<1> HIDE DEF C
<1>6. C + 2 * 0 - r.swath + 2 * r.error <= StripLow(r, i) /\ C + 2 * 0 + r.swath - 2 * r.error >= StripHigh(r, i)
  <2>1. StripLow(r, i) \in Int /\ StripHigh(r, i) \in Int
    BY <1>2, StripsAreNumbers
  <2> QED BY <1>1, <1>3, <1>4, <1>5, <2>1
<1> QED BY <1>6 DEF Accepts, C

\* A tag that is accepted shows the strip, also if the estimate drifted as far as
\* it may (estimate).
LEMMA AcceptedIsSpanned ==
  ASSUME NEW r \in Requests, Feasible(r), NEW i \in Int, NEW off \in Int,
         Accepts(r, i, off * r.error)
  PROVE  Spans(r, i, (off + 1) * r.error)
<1> DEFINE C == Centre(r, i) d == off * r.error
<1>1. r.swath \in Nat /\ r.error \in Nat /\ C \in Int /\ d \in Int /\ StripLow(r, i) \in Int /\ StripHigh(r, i) \in Int
  BY TracksSpread, StripsAreNumbers DEF Requests
<1>2. (off + 1) * r.error = d + r.error
  BY <1>1
<1>3. C + 2 * d - r.swath + 2 * r.error <= StripLow(r, i) /\ C + 2 * d + r.swath - 2 * r.error >= StripHigh(r, i)
  BY DEF Accepts
<1> HIDE DEF C, d
<1>4. C + 2 * (d + r.error) - r.swath <= StripLow(r, i) /\ C + 2 * (d + r.error) + r.swath >= StripHigh(r, i)
  BY <1>1, <1>3
<1> QED BY <1>2, <1>4 DEF Spans, C

(***************************************************************************)
(* Intervals and road.                                                     *)
(***************************************************************************)

\* Position k lies in one of the intervals.
In(intervals, k) == \E v \in intervals: v[1] <= k /\ k < v[2]

\* Intervals of a track of some length, none empty.
Proper(intervals, length) ==
  \A v \in intervals: /\ v = <<v[1], v[2]>> /\ v[1] \in Int /\ v[2] \in Int
                      /\ 0 <= v[1] /\ v[1] < v[2] /\ v[2] <= length

\* Merging neither adds nor loses a position.
LEMMA MergeKeepsPositions ==
  ASSUME NEW I, NEW length \in Int, \A v \in I: v[1] \in Int /\ v[2] \in Int /\ 0 <= v[1] /\ v[2] <= length
  PROVE  Proper(Merge(I), length) /\ \A k \in Int: In(Merge(I), k) <=> In(I, k)
<1>1. /\ \A v \in Merge(I):
           /\ v = <<v[1], v[2]>> /\ v[1] \in Int /\ v[2] \in Int
           /\ 0 <= v[1] /\ v[1] < v[2] /\ v[2] <= length
           /\ \A c \in Int: v[1] <= c /\ c < v[2] => \E x \in I: x[1] <= c /\ c < x[2]
      /\ \A a, b \in Int: a < b /\ (\A c \in Int: a <= c /\ c < b => \E x \in I: x[1] <= c /\ c < x[2])
              => \E v \in Merge(I): v[1] <= a /\ b <= v[2]
  BY MergeIsUnion
<1>2. ASSUME NEW k \in Int, In(I, k)
      PROVE  In(Merge(I), k)
  <2>1. \A c \in Int: k <= c /\ c < k + 1 => \E x \in I: x[1] <= c /\ c < x[2]
    BY <1>2 DEF In
  <2>2. k + 1 \in Int /\ k < k + 1
    OBVIOUS
  <2>3. PICK v \in Merge(I): v[1] <= k /\ k + 1 <= v[2]
    BY <1>1, <2>1, <2>2
  <2>4. v[2] \in Int
    BY <1>1
  <2> QED BY <2>3, <2>4 DEF In
<1>3. ASSUME NEW k \in Int, In(Merge(I), k)
      PROVE  In(I, k)
  BY <1>1, <1>3 DEF In
<1>4. Proper(Merge(I), length)
  BY <1>1 DEF Proper
<1> QED BY <1>2, <1>3, <1>4

Sites == [request: Requests, track: Nat, low: Int]

\* The position along the track of a site at which a road cell lies.
Along(s, c) == IF Direction(s.track) = 1 THEN c - s.low ELSE s.request.length - 1 - (c - s.low)

\* Every road cell of the site's track from a to before b has been imaged.
Shows(s, a, b, shown) ==
  \A c \in Int: 0 <= Along(s, c) /\ Along(s, c) < s.request.length /\ a <= Along(s, c) /\ Along(s, c) < b
                => c \in shown

\* The road cells of an interval, cell by cell.
LEMMA RoadCell ==
  ASSUME NEW s \in Sites, NEW v, v[1] \in Int, v[2] \in Int
  PROVE  /\ \A c \in RoadCells(s, v): c \in Int
         /\ \A c \in Int: c \in RoadCells(s, v) <=>
              0 <= Along(s, c) /\ Along(s, c) < s.request.length /\ v[1] <= Along(s, c) /\ Along(s, c) < v[2]
<1> DEFINE lo == Max({0, v[1]})
           hi == Min({s.request.length, v[2]})
           w == Mirror(Direction(s.track), s.request.length, <<lo, hi>>)
<1>1. s.request.length \in Int /\ s.low \in Int
  BY DEF Sites, Requests
<1>2. lo \in Int /\ lo >= 0 /\ lo >= v[1] /\ (lo = 0 \/ lo = v[1])
  <2>1. 0 \in Int
    OBVIOUS
  <2> QED BY <2>1, MaxOfTwo
<1>3. hi \in Int /\ hi <= s.request.length /\ hi <= v[2] /\ (hi = s.request.length \/ hi = v[2])
  BY <1>1, MinOfTwo
<1>4. RoadCells(s, v) = {s.low + c : c \in w[1] .. w[2] - 1}
  BY DEF RoadCells
<1> HIDE DEF lo, hi
<1>5. CASE Direction(s.track) = 1
  <2>1. w[1] = lo /\ w[2] = hi
    BY <1>5 DEF Mirror
  <2>2. RoadCells(s, v) = {s.low + c : c \in lo .. hi - 1}
    BY <1>4, <2>1
  <2>3. \A c \in Int: Along(s, c) = c - s.low
    BY <1>5 DEF Along
  <2>4. \A c \in Int: c \in RoadCells(s, v) <=> lo <= c - s.low /\ c - s.low < hi
    <3> TAKE c \in Int
    <3>1. c = s.low + (c - s.low)
      BY <1>1
    <3> QED BY <1>1, <1>2, <1>3, <2>2, <3>1
  <2>5. \A c \in RoadCells(s, v): c \in Int
    BY <1>1, <1>2, <1>3, <2>2
  <2> QED BY <1>1, <1>2, <1>3, <2>3, <2>4, <2>5
<1>6. CASE Direction(s.track) # 1
  <2>1. w[1] = s.request.length - hi /\ w[2] = s.request.length - lo
    BY <1>6 DEF Mirror
  <2>2. RoadCells(s, v) = {s.low + c : c \in s.request.length - hi .. s.request.length - lo - 1}
    BY <1>4, <2>1
  <2>3. \A c \in Int: Along(s, c) = s.request.length - 1 - (c - s.low)
    BY <1>6 DEF Along
  <2>4. \A c \in Int: c \in RoadCells(s, v) <=>
           s.request.length - hi <= c - s.low /\ c - s.low < s.request.length - lo
    <3> TAKE c \in Int
    <3>1. c = s.low + (c - s.low)
      BY <1>1
    <3> QED BY <1>1, <1>2, <1>3, <2>2, <3>1
  <2>5. \A c \in RoadCells(s, v): c \in Int
    BY <1>1, <1>2, <1>3, <2>2
  <2>6. ASSUME NEW c \in Int
        PROVE  c \in RoadCells(s, v) <=>
                 0 <= Along(s, c) /\ Along(s, c) < s.request.length /\ v[1] <= Along(s, c) /\ Along(s, c) < v[2]
    <3> DEFINE k == c - s.low
               n == s.request.length
    <3>1. k \in Int /\ n \in Int /\ Along(s, c) = n - 1 - k
      BY <1>1, <2>3
    <3>2. c \in RoadCells(s, v) <=> n - hi <= k /\ k < n - lo
      BY <2>4
    <3>3. hi \in Int /\ hi <= n /\ hi <= v[2] /\ (hi = n \/ hi = v[2])
      BY <1>3
    <3> HIDE DEF k, n
    <3>4. n - hi <= k /\ k < n - lo
            <=> 0 <= n - 1 - k /\ n - 1 - k < n /\ v[1] <= n - 1 - k /\ n - 1 - k < v[2]
      BY <1>2, <3>1, <3>3
    <3> QED BY <3>1, <3>2, <3>4 DEF n
  <2> QED BY <2>5, <2>6
<1> QED BY <1>5, <1>6

\* An interval has been imaged when its cells have.
LEMMA ShownCells ==
  ASSUME NEW s \in Sites, NEW v, v[1] \in Int, v[2] \in Int, NEW shown
  PROVE  RoadCells(s, v) \subseteq shown <=> Shows(s, v[1], v[2], shown)
BY RoadCell DEF Shows

\* Positions are whole numbers.
LEMMA AlongIsNumber ==
  ASSUME NEW s \in Sites, NEW c \in Int
  PROVE  Along(s, c) \in Int
BY DEF Sites, Requests, Along

\* A stretch that begins where it ends has no cell.
LEMMA ShowsNothing ==
  ASSUME NEW s \in Sites, NEW a \in Int, NEW b \in Int, b <= a, NEW shown
  PROVE  Shows(s, a, b, shown)
BY AlongIsNumber DEF Shows

\* Two stretches of which one goes on from the other.
LEMMA ShowsJoin ==
  ASSUME NEW s \in Sites, NEW a \in Int, NEW b \in Int, NEW c \in Int, NEW shown,
         Shows(s, a, b, shown), Shows(s, b, c, shown)
  PROVE  Shows(s, a, c, shown)
BY AlongIsNumber DEF Shows

(***************************************************************************)
(* A run of tags.                                                          *)
(***************************************************************************)

Walks == [run: [first: Int, last: Int, tags: Nat], out: SUBSET (Int \X Int)]

\* What a walk over the blocks may rely on when it has come to position p: its
\* intervals were imaged, and so was the road from the least advanced place where
\* the first tag of its run may have been.
Backed(s, walk, p, shown) ==
  /\ \A v \in walk.out: 0 <= v[1] /\ v[2] <= s.request.length /\ Shows(s, v[1], v[2], shown)
  /\ \/ walk.run = NoRun
     \/ /\ walk.run.tags # 0 /\ walk.run.last - s.request.error <= p
        /\ Shows(s, walk.run.first + s.request.error, p, shown)

\* Ending a run keeps what is known to have been imaged.
LEMMA BrokenIsBacked ==
  ASSUME session \in Sites, NEW walk \in Walks, NEW p \in Int, NEW q \in Int, NEW shown,
         Backed(session, walk, p, shown)
  PROVE  Broken(walk) \in Walks /\ Broken(walk).run = NoRun /\ Backed(session, Broken(walk), q, shown)
<1> DEFINE start == walk.run.first + session.request.error
           end == walk.run.last - session.request.error
           v == <<Max({0, start}), Min({session.request.length, end})>>
           new == Included(session.request, walk.run, Size)
<1>1. session.request.length \in Int /\ session.request.error \in Nat
  BY DEF Sites, Requests
<1>2. walk.run.first \in Int /\ walk.run.last \in Int /\ walk.run.tags \in Nat /\ walk.out \in SUBSET (Int \X Int)
  BY DEF Walks
<1>3. new = IF walk.run.tags < 2 \/ end <= start THEN {} ELSE {v}
  BY DEF Included, Size
<1>4. Broken(walk).run = NoRun /\ Broken(walk).out = walk.out \cup new
  BY DEF Broken
<1>5. start \in Int /\ end \in Int
  BY <1>1, <1>2
<1>6. /\ v[1] \in Int /\ v[1] >= 0 /\ v[1] >= start
      /\ v[2] \in Int /\ v[2] <= session.request.length /\ v[2] <= end
  <2>1. /\ Max({0, start}) \in Int /\ Max({0, start}) >= 0 /\ Max({0, start}) >= start
    <3>1. 0 \in Int
      OBVIOUS
    <3> HIDE DEF start
    <3> QED BY <1>5, <3>1, MaxOfTwo
  <2>2. Min({session.request.length, end}) \in Int /\ Min({session.request.length, end}) <= session.request.length
        /\ Min({session.request.length, end}) <= end
    BY <1>1, <1>5, MinOfTwo
  <2> QED BY <2>1, <2>2
<1>7. new # {} => walk.run.tags >= 2 /\ new = {v}
  BY <1>2, <1>3
<1>8. ASSUME new # {}
      PROVE  Shows(session, v[1], v[2], shown)
  <2>1. walk.run # NoRun
    BY <1>7, <1>8 DEF NoRun
  <2>2. end <= p /\ Shows(session, start, p, shown)
    BY <2>1 DEF Backed
  <2> HIDE DEF v, start, end
  <2> QED BY <1>5, <1>6, <2>2, AlongIsNumber DEF Shows
<1>9. \A x \in new: x = v /\ x \in Int \X Int
  <2>1. v = <<v[1], v[2]>>
    OBVIOUS
  <2> HIDE DEF v
  <2>2. v \in Int \X Int
    BY <1>6, <2>1
  <2> QED BY <1>7, <2>2
<1> HIDE DEF v, new
<1>10. \A x \in Broken(walk).out: 0 <= x[1] /\ x[2] <= session.request.length /\ Shows(session, x[1], x[2], shown)
  BY <1>4, <1>6, <1>8, <1>9 DEF Backed
<1>11. Broken(walk) = [run |-> NoRun, out |-> walk.out \cup new]
  BY DEF Broken, new
<1>12. Broken(walk) \in Walks
  BY <1>2, <1>9, <1>11 DEF Walks, NoRun
<1> QED BY <1>4, <1>10, <1>12 DEF Backed

\* A tag that goes on with a run or begins one was accepted.
LEMMA ExtendedIsBacked ==
  ASSUME session \in Sites, Feasible(session.request),
         NEW walk \in Walks, NEW a \in Int, NEW tag \in TagKinds, NEW shown,
         Backed(session, walk, a, shown)
  PROVE  /\ Extended(walk, a, tag) \in Walks
         /\ Backed(session, Extended(walk, a, tag), a, shown)
         /\ Extended(walk, a, tag).run = NoRun \/ Imaged(tag)
         /\ ~Imaged(tag) => Extended(walk, a, tag) = Broken(walk)
<1> DEFINE e == a + tag.bias * Error
           taken == ~(tag = NoFix \/ ~Accepts(session.request, session.track, tag.off * Error))
           new == Prolonged(walk.run, e)
<1>1. session.request \in Requests /\ session.track \in Int /\ session.request.error \in Nat
  BY DEF Sites, Requests
<1>2. walk.run \in [first: Int, last: Int, tags: Nat]
  BY DEF Walks
<1>3. tag.off \in Int /\ tag.bias \in {-1, 0, 1}
  BY DEF TagKinds, NoFix
<1>4. CASE ~taken
  <2>1. Extended(walk, a, tag) = Broken(walk)
    BY <1>4 DEF Extended
  <2> QED BY <2>1, BrokenIsBacked
<1>5. CASE taken
  <2>1. Extended(walk, a, tag) = [walk EXCEPT !.run = new]
    <3>1. ~(tag = NoFix \/ ~Accepts(session.request, session.track, tag.off * Error))
      BY <1>5
    <3> QED BY <3>1, Zenon DEF Extended
  <2>2. Imaged(tag)
    <3>1. Accepts(session.request, session.track, tag.off * session.request.error)
      BY <1>5 DEF Error
    <3>2. Spans(session.request, session.track, (tag.off + 1) * session.request.error)
      BY <1>1, <1>3, <3>1, AcceptedIsSpanned
    <3> QED BY <1>5, <3>2 DEF Imaged, Error
  <2> HIDE DEF taken
  <2>3. e \in Int /\ e - session.request.error <= a /\ a <= e + session.request.error
    BY <1>1, <1>3 DEF Error
  <2>4. new \in [first: Int, last: Int, tags: Nat] /\ new.tags # 0 /\ new.last = e
        /\ new.first = (IF walk.run.tags = 0 THEN e ELSE walk.run.first)
    <3> HIDE DEF e
    <3> QED BY <1>2, <2>3 DEF Prolonged
  <2> HIDE DEF new
  <2>5. [walk EXCEPT !.run = new] \in Walks /\ [walk EXCEPT !.run = new].run = new
        /\ [walk EXCEPT !.run = new].out = walk.out
    BY <2>4 DEF Walks
  <2>6. Shows(session, new.first + session.request.error, a, shown)
    <3>1. CASE walk.run.tags = 0
      BY <1>1, <2>3, <2>4, <3>1, ShowsNothing
    <3>2. CASE walk.run.tags # 0
      <4>1. walk.run # NoRun
        BY <3>2 DEF NoRun
      <4> QED BY <2>4, <3>2, <4>1 DEF Backed
    <3> QED BY <3>1, <3>2
  <2>7. Backed(session, [walk EXCEPT !.run = new], a, shown)
    BY <2>3, <2>4, <2>5, <2>6 DEF Backed
  <2> QED BY <2>1, <2>2, <2>5, <2>7
<1> QED BY <1>4, <1>5

(***************************************************************************)
(* The invariant.                                                          *)
(***************************************************************************)

\* A site is planned, a rescan lies within the region, capture closes behind it.
Placed ==
  /\ Feasible(session.request) /\ session.track < Tracks(session.request)
  /\ Feasible(parent.request)
  /\ session.request.length + 2 * session.request.error <= stop
  /\ sessions = 0 => session = Whole
  /\ sessions # 0 => /\ session.track = 0 /\ 0 <= session.low
                     /\ session.low + session.request.length <= parent.request.length

\* What has been reported before and is still to be combined.
Reported == phase = "report" \/ sessions # 0
Ranges ==
  /\ Proper(covered, parent.request.length) /\ Proper(candidates, parent.request.length)
  /\ Reported => gaps = Complement(covered, parent.request.length)
  /\ ~Reported => covered = {}
  /\ phase = "report" => run = NoRun /\ accepted = {}

\* The walk over the blocks.
Walk == [run |-> run, out |-> accepted]
Tracked == Backed(session, Walk, pos, seen) /\ \A v \in covered: Shows(Whole, v[1], v[2], seen)

\* A pass that nothing has gone wrong with is one run from before the region.
Undisturbed ==
  phase = "audit" /\ clean =>
    /\ run = NoRun => pos <= -2 * session.request.error
    /\ run # NoRun => /\ known /\ run.tags >= 2 /\ run.first + session.request.error <= 0
                      /\ pos - session.request.error <= run.last

\* Each gap of the last report lies in one of its candidates.
Reachable == Reported => \A g \in gaps: \E c \in candidates: c[1] <= g[1] /\ g[2] <= c[2]

Inductive == TypeOK /\ Placed /\ Ranges /\ Tracked /\ Undisturbed /\ Reachable /\ CleanPassIsComplete

-----------------------------------------------------------------------------
\* The parts of a typed state.
LEMMA Types ==
  ASSUME TypeOK
  PROVE  /\ session \in Sites /\ Whole \in Sites /\ Walk \in Walks
         /\ session.request \in Requests /\ parent.request \in Requests
         /\ session.request.length \in Nat \ {0} /\ parent.request.length \in Nat \ {0}
         /\ session.request.error \in Nat /\ parent.request.error \in Nat
         /\ session.track \in Nat /\ session.low \in Int /\ parent.track \in Nat
         /\ \A v \in covered \cup gaps \cup candidates: v[1] \in Int /\ v[2] \in Int
         /\ Whole.request = parent.request /\ Whole.track = parent.track /\ Whole.low = 0
BY DEF TypeOK, Sites, Walks, Walk, Whole, Requests

\* A rectangle turned to road coordinates, or back.
LEMMA OnRoadIsAlong ==
  ASSUME TypeOK, NEW I, \A v \in I: v[1] \in Int /\ v[2] \in Int /\ 0 <= v[1] /\ v[2] <= parent.request.length
  PROVE  /\ \A v \in OnRoad(I): v[1] \in Int /\ v[2] \in Int /\ 0 <= v[1] /\ v[2] <= parent.request.length
         /\ \A c \in Int: In(OnRoad(I), c) <=> In(I, Along(Whole, c))
<1> DEFINE n == parent.request.length
           T(v) == Mirror(Direction(parent.track), n, v)
<1>1. n \in Int
  BY Types
<1>2. OnRoad(I) = {T(v) : v \in I}
  BY DEF OnRoad
<1>3. CASE Direction(parent.track) = 1
  <2>1. \A v \in I: T(v) = v
    BY <1>3 DEF Mirror
  <2>2. \A c \in Int: Along(Whole, c) = c
    BY <1>3, Types DEF Along
  <2> HIDE DEF T
  <2>3. OnRoad(I) = I
    BY <1>2, <2>1
  <2> QED BY <2>2, <2>3
<1>4. CASE Direction(parent.track) # 1
  <2>1. \A v \in I: T(v)[1] = n - v[2] /\ T(v)[2] = n - v[1]
    BY <1>4 DEF Mirror
  <2>2. \A c \in Int: Along(Whole, c) = n - 1 - c
    BY <1>1, <1>4, Types DEF Along
  <2> HIDE DEF T, n
  <2>3. \A v \in OnRoad(I): v[1] \in Int /\ v[2] \in Int /\ 0 <= v[1] /\ v[2] <= n
    BY <1>1, <1>2, <2>1 DEF n
  <2>4. ASSUME NEW c \in Int, NEW v \in I
        PROVE  T(v)[1] <= c /\ c < T(v)[2] <=> v[1] <= n - 1 - c /\ n - 1 - c < v[2]
    <3>1. v[1] \in Int /\ v[2] \in Int
      OBVIOUS
    <3> QED BY <1>1, <2>1, <3>1
  <2>5. \A c \in Int: In(OnRoad(I), c) <=> In(I, n - 1 - c)
    BY <1>2, <2>4 DEF In
  <2> QED BY <2>2, <2>3, <2>5 DEF n
<1> QED BY <1>3, <1>4

\* The ends of a run that is broken at the end of a clean pass.
LEMMA CleanRunIsWhole ==
  ASSUME TypeOK, Placed, Undisturbed, phase = "audit", clean, pos = stop
  PROVE  \A k \in Int: 0 <= k /\ k < session.request.length => In(Broken(Walk).out, k)
<1> DEFINE L == session.request.length e == session.request.error
           start == run.first + e
           end == run.last - e
           v == <<Max({0, start}), Min({L, end})>>
<1>1. L \in Nat \ {0} /\ e \in Nat /\ stop \in Int /\ run \in [first: Int, last: Int, tags: Nat]
  BY Types DEF TypeOK
<1>2. L + 2 * e <= stop
  BY DEF Placed
<1>3. run # NoRun
  <2>1. run = NoRun => pos <= -2 * e
    BY Zenon DEF Undisturbed
  <2> HIDE DEF L, e
  <2> QED BY <1>1, <1>2, <2>1
<1>4. run.tags >= 2 /\ start <= 0 /\ L <= end /\ start \in Int /\ end \in Int
  BY <1>1, <1>2, <1>3 DEF Undisturbed
<1>5. Broken(Walk).out = accepted \cup Included(session.request, run, Size)
  BY DEF Broken, Walk
<1>6. Included(session.request, run, Size) = {v}
  <2>1. ~(run.tags < 2 \/ end <= start)
    BY <1>1, <1>4
  <2> QED BY <2>1 DEF Included, Size
<1>7. v[1] <= 0 /\ L <= v[2]
  <2>1. 0 \in Int /\ L \in Int
    BY <1>1
  <2> HIDE DEF start, end, L
  <2>2. Max({0, start}) <= 0
    <3>1. Max({0, start}) = 0 \/ Max({0, start}) = start
      BY <1>4, <2>1, MaxOfTwo
    <3> QED BY <1>4, <3>1
  <2>3. L <= Min({L, end})
    <3>1. Min({L, end}) = L \/ Min({L, end}) = end
      BY <1>4, <2>1, MinOfTwo
    <3> QED BY <1>4, <2>1, <3>1
  <2> QED BY <2>2, <2>3
<1>8. v[1] \in Int /\ v[2] \in Int
  <2>1. 0 \in Int /\ L \in Int
    BY <1>1
  <2> HIDE DEF start, end, L
  <2> QED BY <1>4, <2>1, MinOfTwo, MaxOfTwo
<1>9. v \in Broken(Walk).out
  BY <1>5, <1>6
<1> HIDE DEF v
<1>10. \A k \in Int: 0 <= k /\ k < L => v[1] <= k /\ k < v[2]
  BY <1>1, <1>7, <1>8
<1> QED BY <1>9, <1>10 DEF In

\* What a session is found to have verified was imaged.
LEMMA FoundIsShown ==
  ASSUME TypeOK, Tracked
  PROVE  /\ Proper(Found, session.request.length)
         /\ \A k \in Int: In(Found, k) <=> In(Broken(Walk).out, k)
         /\ \A c \in Int: In(Found, Along(session, c)) => c \in seen
<1> DEFINE I == Broken(Walk).out
<1>1. Broken(Walk) \in Walks /\ Backed(session, Broken(Walk), pos, seen)
  BY Types, BrokenIsBacked DEF TypeOK, Tracked
<1>2. \A v \in I: /\ v[1] \in Int /\ v[2] \in Int /\ 0 <= v[1] /\ v[2] <= session.request.length
                  /\ Shows(session, v[1], v[2], seen)
  BY <1>1 DEF Walks, Backed
<1>3. Found = Merge(I) /\ session.request.length \in Int
  BY Types DEF Found, Walk
<1> HIDE DEF I
<1>4. Proper(Found, session.request.length) /\ \A k \in Int: In(Found, k) <=> In(I, k)
  BY <1>2, <1>3, MergeKeepsPositions
<1>5. ASSUME NEW c \in Int, In(Found, Along(session, c))
      PROVE  c \in seen
  <2>1. Along(session, c) \in Int
    BY Types, AlongIsNumber
  <2>2. PICK v \in I: v[1] <= Along(session, c) /\ Along(session, c) < v[2]
    BY <1>4, <1>5, <2>1 DEF In
  <2>3. 0 <= Along(session, c) /\ Along(session, c) < session.request.length
    BY <1>2, <1>3, <2>1, <2>2
  <2> QED BY <1>2, <2>2, <2>3 DEF Shows
<1> QED BY <1>4, <1>5 DEF I

\* Combining is union on the road: a position is verified afterwards if it was
\* before or if the rescan verified it (combine).
LEMMA CombinedIsUnion ==
  ASSUME TypeOK, Placed, Ranges, Tracked, sessions # 0
  PROVE  /\ Proper(Combined, parent.request.length)
         /\ \A k \in Int: In(Combined, k) <=>
              In(covered, k) \/ In(Found, Along(Whole, k) - session.low)
<1> DEFINE n == parent.request.length
           low == session.low
           found == {<<low + v[1], low + v[2]>> : v \in Found}
           all == OnRoad(covered) \cup found
           slabs == Combine(all, n)
<1>1. n \in Nat /\ n \in Int /\ low \in Int /\ 0 <= low /\ low + session.request.length <= n /\ session.request.length \in Int
  BY Types DEF Placed
<1>2. Proper(Found, session.request.length)
  BY FoundIsShown
<1>3. Combined = Merge(OnRoad(slabs))
  BY DEF Combined
<1>4. /\ \A v \in OnRoad(covered): v[1] \in Int /\ v[2] \in Int /\ 0 <= v[1] /\ v[2] <= n
      /\ \A c \in Int: In(OnRoad(covered), c) <=> In(covered, Along(Whole, c))
  <2>1. \A v \in covered: v[1] \in Int /\ v[2] \in Int /\ 0 <= v[1] /\ v[2] <= parent.request.length
    BY DEF Ranges, Proper
  <2> QED BY <2>1, OnRoadIsAlong
<1>5. /\ \A v \in found: v[1] \in Int /\ v[2] \in Int /\ 0 <= v[1] /\ v[2] <= n
      /\ \A c \in Int: In(found, c) <=> In(Found, c - low)
  <2>1. \A v \in Found: /\ v[1] \in Int /\ v[2] \in Int /\ 0 <= v[1] /\ v[2] <= session.request.length
    BY <1>2 DEF Proper
  <2>2. \A v \in found: \E x \in Found: v[1] = low + x[1] /\ v[2] = low + x[2]
    OBVIOUS
  <2>3. \A x \in Found: \E v \in found: v[1] = low + x[1] /\ v[2] = low + x[2]
    <3> TAKE x \in Found
    <3>1. <<low + x[1], low + x[2]>> \in found
      OBVIOUS
    <3> QED BY <3>1
  <2> HIDE DEF n, low, found
  <2>4. \A v \in found: v[1] \in Int /\ v[2] \in Int /\ 0 <= v[1] /\ v[2] <= n
    BY <1>1, <2>1, <2>2
  <2>5. \A c \in Int: In(found, c) <=> In(Found, c - low)
    BY <1>1, <2>1, <2>2, <2>3 DEF In
  <2> QED BY <2>4, <2>5
<1> HIDE DEF found
<1>6. \A v \in all: v[1] \in Int /\ v[2] \in Int /\ 0 <= v[1] /\ v[2] <= n
  BY <1>4, <1>5
<1>7. \A c \in Int: In(all, c) <=> In(OnRoad(covered), c) \/ In(found, c)
  BY DEF In
<1> HIDE DEF all, n
<1>8. /\ \A s \in slabs: /\ s[1] \in Int /\ s[2] \in Int /\ 0 <= s[1] /\ s[1] < s[2] /\ s[2] <= n
                         /\ \E x \in all: x[1] <= s[1] /\ s[2] <= x[2]
      /\ \A c \in Int: (\E x \in all: x[1] <= c /\ c < x[2]) => \E s \in slabs: s[1] <= c /\ c < s[2]
  BY <1>1, <1>6, SlabsAreUnion
<1> HIDE DEF slabs
<1>9. \A c \in Int: In(slabs, c) <=> In(all, c)
  BY <1>6, <1>8 DEF In
<1>10. /\ \A v \in OnRoad(slabs): v[1] \in Int /\ v[2] \in Int /\ 0 <= v[1] /\ v[2] <= n
       /\ \A c \in Int: In(OnRoad(slabs), c) <=> In(slabs, Along(Whole, c))
  BY <1>8, OnRoadIsAlong DEF n
<1>11. Proper(Combined, n) /\ \A k \in Int: In(Combined, k) <=> In(OnRoad(slabs), k)
  BY <1>1, <1>3, <1>10, MergeKeepsPositions
<1>12. \A k \in Int: Along(Whole, k) \in Int /\ Along(Whole, Along(Whole, k)) = k
  <2> TAKE k \in Int
  <2>1. Along(Whole, k) = IF Direction(parent.track) = 1 THEN k - 0 ELSE n - 1 - (k - 0)
    BY Types DEF Along, n
  <2>2. Along(Whole, k) \in Int
    BY <1>1, <2>1
  <2>3. Along(Whole, Along(Whole, k)) =
          IF Direction(parent.track) = 1 THEN Along(Whole, k) - 0 ELSE n - 1 - (Along(Whole, k) - 0)
    BY Types DEF Along, n
  <2> QED BY <1>1, <2>1, <2>2, <2>3
<1>13. ASSUME NEW k \in Int
       PROVE  In(Combined, k) <=> In(covered, k) \/ In(Found, Along(Whole, k) - session.low)
  <2> DEFINE c == Along(Whole, k)
  <2>1. c \in Int /\ Along(Whole, c) = k
    BY <1>12
  <2> HIDE DEF c
  <2>2. In(Combined, k) <=> In(all, c)
    BY <1>9, <1>10, <1>11, <1>13, <2>1 DEF c
  <2>3. In(all, c) <=> In(covered, k) \/ In(Found, c - low)
    BY <1>4, <1>5, <1>7, <2>1
  <2> QED BY <2>2, <2>3 DEF c
<1> QED BY <1>11, <1>13 DEF n

\* A pass of a site opens at a whole position and closes behind the over-run.
LEMMA PassEndsBehind ==
  ASSUME NEW s \in Sites, NEW p \in Passes(s)
  PROVE  /\ p.session = s /\ p.pos \in Int /\ p.stop \in Int
         /\ s.request.length + 2 * s.request.error <= p.stop
<1> DEFINE r == s.request
<1>1. /\ r.length \in Nat /\ r.error \in Nat /\ r.tail \in Nat /\ r.margin \in Nat
      /\ r.acceleration \in Nat /\ r.recovery \in Nat
  BY DEF Sites, Requests
<1>2. Lead(r) \in Int
  <2> DEFINE S == {r.acceleration, r.recovery, r.error}
  <2>1. (\A x \in S: x \in Int) /\ S # {}
    BY <1>1
  <2>2. \E x \in S: \A y \in S: x >= y
    BY <1>1
  <2>3. Max(S) \in S
    <3> HIDE DEF S
    <3> QED BY <2>2 DEF Max
  <2>4. Max(S) \in Int
    BY <2>1, <2>3, Zenon
  <2>5. Lead(r) = Max(S) + r.margin
    BY DEF Lead
  <2> HIDE DEF S
  <2> QED BY <1>1, <2>4, <2>5
<1>3. p \in [session: {s}, pos: {- Lead(r), 0},
             stop: {r.length + Overrun(r) - tail : tail \in {0, r.tail}}]
  BY DEF Passes
<1>4. p.session = s /\ p.pos \in {- Lead(r), 0} /\ p.stop \in {r.length + Overrun(r) - tail : tail \in {0, r.tail}}
  BY <1>3
<1>5. PICK tail \in {0, r.tail}: p.stop = r.length + Overrun(r) - tail
  BY <1>4
<1>6. Overrun(r) = r.tail + 2 * r.error
  BY DEF Overrun
<1> HIDE DEF r
<1>7. p.stop \in Int /\ r.length + 2 * r.error <= p.stop
  BY <1>1, <1>5, <1>6
<1>8. p.pos \in Int
  BY <1>2, <1>4
<1> QED BY <1>4, <1>7, <1>8 DEF r

\* Initial states satisfy the invariant.
LEMMA InitInductive == Init => Inductive
<1> SUFFICES ASSUME Init PROVE Inductive
  OBVIOUS
<1>1. PICK r \in Asked: Feasible(r) /\ \E i \in 0 .. Tracks(r) - 1: parent = [request |-> r, track |-> i]
  BY DEF Init
<1>2. PICK i \in 0 .. Tracks(r) - 1: parent = [request |-> r, track |-> i]
  BY <1>1
<1>3. r \in Requests
  BY AuditAssumption
<1>4. i \in Nat /\ i < Tracks(r)
  BY <1>1, <1>3, TracksSpread
<1>5. parent \in [request: Requests, track: Nat] /\ parent.request = r /\ parent.track = i
  BY <1>2, <1>3, <1>4
<1>6. Whole \in Sites /\ Whole.request = r /\ Whole.track = i /\ Whole.low = 0
  BY <1>3, <1>4, <1>5 DEF Whole, Sites
<1>7. PICK p \in Passes(Whole):
        session = p.session /\ pos = p.pos /\ stop = p.stop /\ clean = (p.pos <= -2 * p.session.request.error)
  BY DEF Init
<1>8. session = Whole /\ pos \in Int /\ stop \in Int /\ r.length + 2 * r.error <= stop
  BY <1>6, <1>7, PassEndsBehind
<1>9. /\ known = FALSE /\ run = NoRun /\ accepted = {} /\ seen = {}
      /\ covered = {} /\ gaps = {} /\ candidates = {} /\ phase = "audit" /\ sessions = 0
  BY DEF Init
<1>10. clean = (pos <= -2 * session.request.error)
  BY <1>7
<1>11. clean \in BOOLEAN
  BY <1>10
<1>12. known \in BOOLEAN
  BY <1>9, Zenon
<1>13. TypeOK
  <2>1. run \in [first: Int, last: Int, tags: Nat]
    BY <1>9 DEF NoRun
  <2>2. session \in [request: Requests, track: Nat, low: Int]
    BY <1>6, <1>8 DEF Sites
  <2>3. accepted \subseteq Int \X Int /\ covered \subseteq Int \X Int /\ gaps \subseteq Int \X Int
        /\ candidates \subseteq Int \X Int /\ seen \subseteq Int /\ phase \in {"audit", "report"} /\ sessions \in Nat
    BY <1>9
  <2> QED BY <1>5, <1>8, <1>11, <1>12, <2>1, <2>2, <2>3, Zenon DEF TypeOK
<1>14. Placed
  BY <1>1, <1>4, <1>5, <1>6, <1>8, <1>9 DEF Placed
<1>15. Ranges
  BY <1>9 DEF Ranges, Proper, Reported
<1>16. Tracked
  BY <1>9 DEF Tracked, Backed, Walk
<1>17. Undisturbed
  BY <1>9, <1>10, Zenon DEF Undisturbed
<1>18. Reachable /\ CleanPassIsComplete
  BY <1>9 DEF Reachable, Reported, CleanPassIsComplete
<1> QED BY <1>13, <1>14, <1>15, <1>16, <1>17, <1>18 DEF Inductive

\* A tag on the centre line is accepted.
LEMMA CentredGoesOn ==
  ASSUME TypeOK, Placed, NEW walk \in Walks, NEW a \in Int, NEW tag \in TagKinds, Centred(tag)
  PROVE  /\ Extended(walk, a, tag) = [walk EXCEPT !.run = Prolonged(@, a + tag.bias * Error)]
         /\ a + tag.bias * Error \in Int
         /\ a - session.request.error <= a + tag.bias * Error
         /\ a + tag.bias * Error <= a + session.request.error
<1>1. tag # NoFix /\ tag.off = 0 /\ tag.bias \in {-1, 0, 1}
  BY DEF Centred, TagKinds, NoFix
<1>2. session.request.error \in Nat /\ session.request \in Requests /\ Feasible(session.request)
  BY Types DEF Placed
<1>3. session.track \in 0 .. Tracks(session.request) - 1
  <2>1. Tracks(session.request) \in Nat
    BY <1>2, TracksSpread
  <2> QED BY <2>1, Types DEF Placed
<1>4. tag.off * Error = 0
  BY <1>1, <1>2 DEF Error
<1>5. Accepts(session.request, session.track, tag.off * Error)
  BY <1>2, <1>3, <1>4, CentredIsAccepted
<1>6. Extended(walk, a, tag) = [walk EXCEPT !.run = Prolonged(@, a + tag.bias * Error)]
  BY <1>1, <1>5 DEF Extended
<1>7. /\ a + tag.bias * Error \in Int
      /\ a - session.request.error <= a + tag.bias * Error
      /\ a + tag.bias * Error <= a + session.request.error
  BY <1>1, <1>2 DEF Error
<1> QED BY <1>6, <1>7

\* A block keeps the invariant.
LEMMA BlockStep ==
  ASSUME Inductive, Block
  PROVE  Inductive'
<1>1. PICK rows \in BlockRows, skipped \in {0, session.request.tail}, adjoins \in BOOLEAN, good \in BOOLEAN,
           t1 \in TagKinds, t2 \in TagKinds:
       LET a == pos + skipped
           b == Min({a + rows, stop})
           before == [run |-> run, out |-> accepted]
           from == IF known /\ adjoins THEN before ELSE Broken(before)
           to == IF good THEN Extended(Extended(from, a, t1), b, t2) ELSE Broken(before)
       IN  /\ b > a /\ (adjoins => skipped = 0)
           /\ good \/ (t1 = NoFix /\ t2 = NoFix)
           /\ pos' = b /\ known' = good /\ run' = to.run /\ accepted' = to.out
           /\ seen' = IF good /\ Imaged(t1) /\ Imaged(t2) THEN seen \cup RoadCells(session, <<a, b>>) ELSE seen
           /\ clean' = (clean /\ good /\ Centred(t1) /\ Centred(t2)
                        /\ skipped = 0 /\ (adjoins \/ run = NoRun))
  BY Zenon DEF Block
<1> DEFINE a == pos + skipped
           b == Min({a + rows, stop})
           from == IF known /\ adjoins THEN Walk ELSE Broken(Walk)
           mid == Extended(from, a, t1)
           to == IF good THEN Extended(mid, b, t2) ELSE Broken(Walk)
<1>2. /\ b > a /\ (adjoins => skipped = 0)
      /\ pos' = b /\ known' = good /\ run' = to.run /\ accepted' = to.out
      /\ seen' = IF good /\ Imaged(t1) /\ Imaged(t2) THEN seen \cup RoadCells(session, <<a, b>>) ELSE seen
      /\ clean' = (clean /\ good /\ Centred(t1) /\ Centred(t2) /\ skipped = 0 /\ (adjoins \/ run = NoRun))
  BY <1>1 DEF Walk
<1>3. /\ parent' = parent /\ session' = session /\ stop' = stop /\ phase' = phase /\ sessions' = sessions
      /\ covered' = covered /\ gaps' = gaps /\ candidates' = candidates /\ phase = "audit"
  BY DEF Block, report
<1>4. /\ TypeOK /\ Placed /\ Ranges /\ Tracked /\ Undisturbed /\ Reachable
      /\ session \in Sites /\ Walk \in Walks /\ Feasible(session.request)
      /\ session.request.error \in Nat /\ session.request.length \in Nat
  BY Types DEF Inductive, Placed
<1>5. skipped \in Nat /\ rows \in Nat /\ a \in Int /\ b \in Int
  <2>1. skipped \in Nat
    BY <1>4 DEF Sites, Requests
  <2>2. rows \in Nat
    BY AuditAssumption
  <2>3. a \in Int /\ a + rows \in Int /\ stop \in Int
    BY <1>4, <2>1, <2>2 DEF TypeOK
  <2> HIDE DEF a
  <2>4. Min({a + rows, stop}) \in Int
    BY <2>3, MinOfTwo
  <2> QED BY <2>1, <2>2, <2>3, <2>4
<1>6. Backed(session, Walk, pos, seen)
  BY <1>4 DEF Tracked
<1>7. Broken(Walk) \in Walks /\ Broken(Walk).run = NoRun /\ \A q \in Int: Backed(session, Broken(Walk), q, seen)
  BY <1>4, <1>6, BrokenIsBacked DEF TypeOK
<1>8. from \in Walks /\ Backed(session, from, a, seen)
  <2>1. CASE known /\ adjoins
    <3>1. a = pos
      BY <1>2, <1>4, <2>1 DEF TypeOK
    <3>2. from = Walk
      BY <2>1
    <3> QED BY <1>4, <1>6, <3>1, <3>2
  <2>2. CASE ~(known /\ adjoins)
    <3>1. from = Broken(Walk)
      BY <2>2
    <3> QED BY <1>5, <1>7, <3>1
  <2> QED BY <2>1, <2>2
<1>9. known = known /\ (from.run = run \/ from.run = NoRun) /\ (known /\ adjoins => from.run = run)
  BY <1>7 DEF Walk
<1> HIDE DEF a, b, from
<1>10. /\ mid \in Walks /\ Backed(session, mid, a, seen) /\ (mid.run = NoRun \/ Imaged(t1))
  BY <1>4, <1>5, <1>8, ExtendedIsBacked
<1> HIDE DEF mid
<1>11. seen \subseteq seen'
  BY <1>2
<1>12. \A s \in Sites: \A u, v \in Int: Shows(s, u, v, seen) => Shows(s, u, v, seen')
  BY <1>11 DEF Shows
<1>13. \A walk \in Walks: \A q \in Int: Backed(session, walk, q, seen) => Backed(session, walk, q, seen')
  <2> TAKE walk \in Walks, q \in Int
  <2> HAVE Backed(session, walk, q, seen)
  <2>1. \A v \in walk.out: v[1] \in Int /\ v[2] \in Int
    BY DEF Walks
  <2>2. walk.run.first + session.request.error \in Int
    BY <1>4 DEF Walks
  <2> QED BY <1>4, <1>12, <2>1, <2>2 DEF Backed
<1>14. good => Extended(mid, b, t2) \in Walks /\ Backed(session, Extended(mid, b, t2), b, seen')
  <2> SUFFICES ASSUME good
               PROVE  Extended(mid, b, t2) \in Walks /\ Backed(session, Extended(mid, b, t2), b, seen')
    OBVIOUS
  <2>1. CASE Imaged(t1) /\ Imaged(t2)
    <3>1. seen' = seen \cup RoadCells(session, <<a, b>>)
      BY <1>2, <2>1
    <3>2. Shows(session, a, b, seen')
      <4> DEFINE v == <<a, b>>
      <4>1. v[1] \in Int /\ v[2] \in Int /\ v[1] = a /\ v[2] = b
        BY <1>5
      <4>2. RoadCells(session, v) \subseteq seen'
        BY <3>1
      <4> HIDE DEF v
      <4> QED BY <1>4, <4>1, <4>2, ShownCells
    <3>3. Backed(session, mid, a, seen')
      BY <1>5, <1>10, <1>13
    <3>4. Backed(session, mid, b, seen')
      <4>1. CASE mid.run = NoRun
        BY <3>3, <4>1 DEF Backed
      <4>2. CASE mid.run # NoRun
        <5> DEFINE f == mid.run.first + session.request.error
        <5>1. f \in Int /\ mid.run.last - session.request.error \in Int
          BY <1>4, <1>10 DEF Walks
        <5>2. mid.run.tags # 0 /\ mid.run.last - session.request.error <= a /\ Shows(session, f, a, seen')
          BY <3>3, <4>2 DEF Backed
        <5>3. mid.run.last - session.request.error <= b
          BY <1>2, <1>5, <5>1, <5>2
        <5> HIDE DEF f
        <5>4. Shows(session, f, b, seen')
          BY <1>4, <1>5, <3>2, <5>1, <5>2, ShowsJoin
        <5> QED BY <3>3, <5>2, <5>3, <5>4 DEF Backed, f
      <4> QED BY <4>1, <4>2
    <3> QED BY <1>4, <1>5, <1>10, <3>4, ExtendedIsBacked
  <2>2. CASE ~Imaged(t1)
    <3>1. mid.run = NoRun
      BY <1>10, <2>2
    <3>2. Backed(session, mid, b, seen')
      BY <1>5, <1>10, <1>13, <3>1 DEF Backed
    <3> QED BY <1>4, <1>5, <1>10, <3>2, ExtendedIsBacked
  <2>3. CASE ~Imaged(t2)
    <3>1. Extended(mid, b, t2) = Broken(mid)
      <4>1. t2 = NoFix \/ ~Accepts(session.request, session.track, t2.off * Error)
        <5>1. t2.off \in Int /\ session.request \in Requests /\ session.track \in Int
          BY <1>4, Types DEF TagKinds, NoFix
        <5> QED BY <1>4, <2>3, <5>1, AcceptedIsSpanned DEF Imaged, Error
      <4> QED BY <4>1, Zenon DEF Extended
    <3>2. Backed(session, mid, a, seen')
      BY <1>5, <1>10, <1>13
    <3> QED BY <1>4, <1>5, <1>10, <3>1, <3>2, BrokenIsBacked
  <2> QED BY <2>1, <2>2, <2>3
<1>15. to \in Walks /\ Backed(session, to, b, seen')
  <2>1. CASE good
    <3>1. to = Extended(mid, b, t2)
      BY <2>1
    <3> QED BY <1>14, <2>1, <3>1
  <2>2. CASE ~good
    <3>1. to = Broken(Walk)
      BY <2>2
    <3> QED BY <1>5, <1>7, <1>13, <3>1
  <2> QED BY <2>1, <2>2
<1>16. to = [run |-> to.run, out |-> to.out] /\ to.run \in [first: Int, last: Int, tags: Nat]
       /\ to.out \in SUBSET (Int \X Int)
  <2> HIDE DEF to
  <2> QED BY <1>15 DEF Walks
<1>17. Walk' = to
  BY <1>2, <1>16 DEF Walk
<1>18. seen' \subseteq Int
  <2>1. \A c \in RoadCells(session, <<a, b>>): c \in Int
    <3> DEFINE v == <<a, b>>
    <3>1. v[1] \in Int /\ v[2] \in Int
      BY <1>5
    <3> HIDE DEF v
    <3>2. \A c \in RoadCells(session, v): c \in Int
      BY <1>4, <3>1, RoadCell
    <3> QED BY <3>2 DEF v
  <2> QED BY <1>2, <1>4, <2>1 DEF TypeOK
<1>19. TypeOK'
  <2>1. known' \in BOOLEAN
    BY <1>2
  <2>2. clean' \in BOOLEAN
    BY <1>2, Zenon
  <2>3. run' \in [first: Int, last: Int, tags: Nat] /\ accepted' \subseteq Int \X Int /\ pos' \in Int
    BY <1>2, <1>5, <1>16
  <2> QED BY <1>3, <1>4, <1>18, <2>1, <2>2, <2>3, Zenon DEF TypeOK
<1>20. Whole' = Whole
  BY <1>3 DEF Whole
<1>21. Placed' /\ Ranges' /\ Reachable' /\ CleanPassIsComplete'
  <2>1. Placed'
    BY <1>3, <1>4, <1>20 DEF Placed
  <2>2. Ranges'
    BY <1>3, <1>4 DEF Ranges, Reported
  <2>3. Reachable'
    BY <1>3, <1>4 DEF Reachable, Reported
  <2>4. CleanPassIsComplete'
    BY <1>3 DEF CleanPassIsComplete
  <2> QED BY <2>1, <2>2, <2>3, <2>4
<1>22. Tracked'
  <2>1. \A v \in covered: Shows(Whole, v[1], v[2], seen')
    <3>1. \A v \in covered: v[1] \in Int /\ v[2] \in Int /\ Shows(Whole, v[1], v[2], seen)
      BY <1>4, Types DEF Tracked
    <3> QED BY <1>4, <1>12, <3>1, Types
  <2> QED BY <1>2, <1>3, <1>15, <1>17, <1>20, <2>1 DEF Tracked
<1>23. Undisturbed'
  <2> SUFFICES ASSUME clean'
               PROVE  /\ run' = NoRun => pos' <= -2 * session.request.error
                      /\ run' # NoRun => /\ known' /\ run'.tags >= 2 /\ run'.first + session.request.error <= 0
                                         /\ pos' - session.request.error <= run'.last
    BY <1>3, Zenon DEF Undisturbed
  <2>1. clean /\ good /\ Centred(t1) /\ Centred(t2) /\ skipped = 0 /\ (adjoins \/ run = NoRun)
    BY <1>2, Zenon
  <2>2. /\ run = NoRun => pos <= -2 * session.request.error
        /\ run # NoRun => /\ known /\ run.tags >= 2 /\ run.first + session.request.error <= 0
    BY <1>3, <1>4, <2>1, Zenon DEF Undisturbed
  <2>3. a = pos /\ pos \in Int
    BY <1>4, <2>1 DEF a, TypeOK
  <2> DEFINE e1 == a + t1.bias * Error
             e2 == b + t2.bias * Error
  <2>4. /\ mid.run = Prolonged(from.run, e1) /\ e1 \in Int
        /\ a - session.request.error <= e1 /\ e1 <= a + session.request.error
    <3>1. mid = [from EXCEPT !.run = Prolonged(@, e1)]
      BY <1>4, <1>5, <1>8, <2>1, CentredGoesOn DEF mid
    <3>2. mid.run = Prolonged(from.run, e1)
      BY <1>8, <3>1 DEF Walks
    <3> QED BY <1>4, <1>5, <1>8, <2>1, <3>2, CentredGoesOn
  <2>5. /\ run' = Prolonged(mid.run, e2) /\ e2 \in Int /\ b - session.request.error <= e2
    <3>1. to = [mid EXCEPT !.run = Prolonged(@, e2)]
      BY <1>4, <1>5, <1>10, <2>1, CentredGoesOn
    <3>2. to.run = Prolonged(mid.run, e2)
      BY <1>10, <3>1 DEF Walks
    <3> QED BY <1>2, <1>4, <1>5, <1>10, <2>1, <3>2, CentredGoesOn
  <2> HIDE DEF e1, e2, to
  <2>6. from.run = run
    BY <1>9, <2>1, <2>2
  <2>7. run \in [first: Int, last: Int, tags: Nat]
    BY <1>4 DEF TypeOK
  <2>8. mid.run.tags >= 1 /\ mid.run.tags \in Nat /\ mid.run.first + session.request.error <= 0
        /\ mid.run.first \in Int
    <3>1. CASE run = NoRun
      <4>1. mid.run.first = e1 /\ mid.run.tags = 1
        BY <2>4, <2>6, <3>1 DEF Prolonged, NoRun
      <4> QED BY <1>4, <2>2, <2>3, <2>4, <3>1, <4>1
    <3>2. CASE run # NoRun
      <4>1. mid.run.first = run.first /\ mid.run.tags = run.tags + 1
        BY <2>2, <2>4, <2>6, <2>7, <3>2 DEF Prolonged
      <4> QED BY <1>4, <2>2, <2>7, <3>2, <4>1
    <3> QED BY <3>1, <3>2
  <2>9. run'.tags >= 2 /\ run'.first + session.request.error <= 0 /\ run'.last = e2
    BY <2>5, <2>8 DEF Prolonged
  <2>10. run' # NoRun
    BY <2>9 DEF NoRun
  <2>11. known'
    BY <1>2, <2>1
  <2> QED BY <1>2, <2>5, <2>9, <2>10, <2>11
<1> QED BY <1>19, <1>21, <1>22, <1>23 DEF Inductive

\* The report keeps the invariant, the clean pass and the gaps included.
LEMMA ReportStep ==
  ASSUME Inductive, Report
  PROVE  Inductive'
<1> DEFINE n == parent.request.length
<1>1. /\ TypeOK /\ Placed /\ Ranges /\ Tracked /\ Undisturbed /\ Reachable
      /\ session \in Sites /\ Whole \in Sites /\ Feasible(session.request)
      /\ session.request.length \in Nat /\ n \in Nat /\ session.low \in Int
      /\ Whole.request.length = n
  BY Types DEF Inductive, Placed
<1>2. /\ phase = "audit" /\ phase' = "report" /\ clean' = (clean /\ pos = stop)
      /\ covered' = (IF sessions = 0 THEN Found ELSE Combined)
      /\ gaps' = Complement(covered', n)
      /\ candidates' = (IF sessions = 0 THEN Rescans(parent.request, gaps', n)
                        ELSE {c \in candidates: Listed(c, gaps')})
      /\ known' = FALSE /\ run' = NoRun /\ accepted' = {}
      /\ parent' = parent /\ session' = session /\ pos' = pos /\ stop' = stop /\ seen' = seen /\ sessions' = sessions
  BY DEF Report
<1>3. Whole' = Whole
  BY <1>2 DEF Whole
<1>4. /\ Proper(Found, session.request.length)
      /\ \A k \in Int: In(Found, k) <=> In(Broken(Walk).out, k)
      /\ \A c \in Int: In(Found, Along(session, c)) => c \in seen
  BY <1>1, FoundIsShown
<1>5. sessions # 0 =>
        /\ Proper(Combined, n)
        /\ \A k \in Int: In(Combined, k) <=> In(covered, k) \/ In(Found, Along(Whole, k) - session.low)
  BY <1>1, CombinedIsUnion
<1>6. sessions = 0 => session = Whole
  BY <1>1 DEF Placed
<1>7. sessions # 0 => /\ session.track = 0 /\ 0 <= session.low
                      /\ \A c \in Int: Along(session, c) = c - session.low
  <2> SUFFICES ASSUME sessions # 0
               PROVE  session.track = 0 /\ 0 <= session.low /\ \A c \in Int: Along(session, c) = c - session.low
    OBVIOUS
  <2>1. session.track = 0 /\ 0 <= session.low
    BY <1>1 DEF Placed
  <2>2. Direction(session.track) = 1
    BY <2>1 DEF Direction
  <2> QED BY <2>1, <2>2 DEF Along
<1>8. Proper(covered', n)
  BY <1>2, <1>4, <1>5, <1>6, <1>1
<1>9. \A k \in Int: Along(Whole, k) \in Int /\ Along(Whole, Along(Whole, k)) = k
  <2> TAKE k \in Int
  <2>1. Along(Whole, k) = IF Direction(parent.track) = 1 THEN k ELSE n - 1 - k
    BY <1>1, Types DEF Along
  <2>2. Along(Whole, k) \in Int
    BY <1>1, <2>1
  <2>3. Along(Whole, Along(Whole, k)) = IF Direction(parent.track) = 1 THEN Along(Whole, k) ELSE n - 1 - Along(Whole, k)
    BY <1>1, <2>2, Types DEF Along
  <2> HIDE DEF n
  <2> QED BY <1>1, <2>1, <2>2, <2>3
<1> HIDE DEF n
<1>10. \A v \in covered': Shows(Whole, v[1], v[2], seen)
  <2> SUFFICES ASSUME NEW v \in covered', NEW c \in Int, v[1] <= Along(Whole, c), Along(Whole, c) < v[2],
                      0 <= Along(Whole, c), Along(Whole, c) < n
               PROVE  c \in seen
    BY <1>1 DEF Shows
  <2>1. Along(Whole, c) \in Int /\ Along(Whole, Along(Whole, c)) = c
    BY <1>9
  <2>2. In(covered', Along(Whole, c))
    BY DEF In
  <2>3. CASE sessions = 0
    <3>1. In(Found, Along(session, c))
      BY <1>2, <1>6, <2>2, <2>3
    <3> QED BY <1>4, <3>1
  <2>4. CASE sessions # 0
    <3>1. In(covered, Along(Whole, c)) \/ In(Found, c - session.low)
      BY <1>2, <1>5, <2>1, <2>2, <2>4
    <3>2. CASE In(covered, Along(Whole, c))
      <4>1. PICK x \in covered: x[1] <= Along(Whole, c) /\ Along(Whole, c) < x[2]
        BY <3>2 DEF In
      <4>2. Shows(Whole, x[1], x[2], seen)
        BY <1>1 DEF Tracked
      <4> QED BY <1>1, <4>1, <4>2 DEF Shows
    <3>3. CASE In(Found, c - session.low)
      BY <1>4, <1>7, <2>4, <3>3
    <3> QED BY <3>1, <3>2, <3>3
  <2> QED BY <2>3, <2>4
<1>11. /\ \A v \in gaps':
            /\ v = <<v[1], v[2]>> /\ v[1] \in Int /\ v[2] \in Int
            /\ 0 <= v[1] /\ v[1] < v[2] /\ v[2] <= n
            /\ \A c \in Int: v[1] <= c /\ c < v[2] => ~In(covered', c)
  <2>1. \A v \in covered': v[1] \in Int /\ v[2] \in Int
    BY <1>8 DEF Proper
  <2>2. n \in Int
    BY <1>1
  <2> DEFINE I == covered'
  <2>3. /\ \A v \in I: v[1] \in Int /\ v[2] \in Int
        /\ gaps' = Complement(I, n)
    BY <1>2, <2>1
  <2> HIDE DEF I
  <2>4. \A v \in Complement(I, n):
            /\ v = <<v[1], v[2]>> /\ v[1] \in Int /\ v[2] \in Int
            /\ 0 <= v[1] /\ v[1] < v[2] /\ v[2] <= n
            /\ \A c \in Int: v[1] <= c /\ c < v[2] => \A x \in I: ~(x[1] <= c /\ c < x[2])
    BY <2>2, <2>3, ComplementIsRest
  <2> QED BY <2>3, <2>4 DEF In, I
<1>12. Proper(candidates', n) /\ \A g \in gaps': \E c \in candidates': c[1] <= g[1] /\ g[2] <= c[2]
  <2>1. CASE sessions = 0
    <3> DEFINE W(g) == Widened(parent.request, g, n)
               I == {W(g) : g \in gaps'}
    <3>1. candidates' = Merge(I)
      BY <1>2, <2>1 DEF Rescans
    <3>2. \A g \in gaps': /\ W(g)[1] \in Int /\ W(g)[2] \in Int /\ 0 <= W(g)[1] /\ W(g)[2] <= n
                          /\ W(g)[1] <= g[1] /\ g[2] <= W(g)[2]
      <4> TAKE g \in gaps'
      <4> DEFINE lo == g[1] - parent.request.error
                 hi == g[2] + parent.request.error
      <4>1. g[1] \in Int /\ g[2] \in Int /\ 0 <= g[1] /\ g[2] <= n
        BY <1>11
      <4>2. lo \in Int /\ lo <= g[1] /\ hi \in Int /\ g[2] <= hi /\ 0 \in Int /\ n \in Int
        BY <1>1, <4>1, Types
      <4>3. W(g) = <<Max({0, lo}), Min({n, hi})>>
        BY DEF Widened
      <4> HIDE DEF lo, hi, W
      <4>4. Max({0, lo}) \in Int /\ 0 <= Max({0, lo}) /\ Max({0, lo}) <= g[1]
        <5>1. Max({0, lo}) \in Int /\ Max({0, lo}) >= 0 /\ (Max({0, lo}) = 0 \/ Max({0, lo}) = lo)
          BY <4>2, MaxOfTwo
        <5> QED BY <4>1, <4>2, <5>1
      <4>5. Min({n, hi}) \in Int /\ Min({n, hi}) <= n /\ g[2] <= Min({n, hi})
        <5>1. Min({n, hi}) \in Int /\ Min({n, hi}) <= n /\ (Min({n, hi}) = n \/ Min({n, hi}) = hi)
          BY <4>2, MinOfTwo
        <5> QED BY <4>1, <4>2, <5>1
      <4> QED BY <4>3, <4>4, <4>5
    <3> HIDE DEF W
    <3>3. \A v \in I: v[1] \in Int /\ v[2] \in Int /\ 0 <= v[1] /\ v[2] <= n
      BY <3>2
    <3>4. \A g \in gaps': W(g) \in I
      OBVIOUS
    <3> HIDE DEF I
    <3>5. n \in Int
      BY <1>1
    <3>6. Proper(Merge(I), n)
      BY <3>3, <3>5, MergeKeepsPositions
    <3>7. \A a, b \in Int: a < b /\ (\A c \in Int: a <= c /\ c < b => \E x \in I: x[1] <= c /\ c < x[2])
              => \E v \in Merge(I): v[1] <= a /\ b <= v[2]
      BY <3>3, <3>5, MergeIsUnion
    <3>8. ASSUME NEW g \in gaps'
          PROVE  \E c \in Merge(I): c[1] <= g[1] /\ g[2] <= c[2]
      <4>1. g[1] \in Int /\ g[2] \in Int /\ g[1] < g[2]
        BY <1>11
      <4>2. \A c \in Int: g[1] <= c /\ c < g[2] => W(g)[1] <= c /\ c < W(g)[2]
        BY <3>2, <4>1
      <4>3. \A c \in Int: g[1] <= c /\ c < g[2] => \E x \in I: x[1] <= c /\ c < x[2]
        BY <3>4, <4>2
      <4> QED BY <3>7, <4>1, <4>3
    <3> QED BY <3>1, <3>6, <3>8
  <2>2. CASE sessions # 0
    <3>1. candidates' = {c \in candidates: Listed(c, gaps')} /\ covered' = Combined
      BY <1>2, <2>2
    <3>2. Proper(candidates', n)
      BY <1>1, <3>1 DEF Ranges, Proper, n
    <3>3. /\ gaps = Complement(covered, n) /\ (\A g \in gaps: \E c \in candidates: c[1] <= g[1] /\ g[2] <= c[2])
          /\ \A v \in covered: v[1] \in Int /\ v[2] \in Int
      BY <1>1, <2>2, Types DEF Ranges, Reachable, Reported, n
    <3>4. n \in Int
      BY <1>1
    <3>5. \A a, b \in Int:
              0 <= a /\ a < b /\ b <= n /\ (\A c \in Int: a <= c /\ c < b => \A x \in covered: ~(x[1] <= c /\ c < x[2]))
              => \E v \in gaps: v[1] <= a /\ b <= v[2]
      BY <3>3, <3>4, ComplementIsRest
    <3>6. ASSUME NEW g \in gaps'
          PROVE  \E c \in candidates': c[1] <= g[1] /\ g[2] <= c[2]
      <4>1. g[1] \in Int /\ g[2] \in Int /\ 0 <= g[1] /\ g[1] < g[2] /\ g[2] <= n
        BY <1>11
      <4>2. \A c \in Int: g[1] <= c /\ c < g[2] => ~In(covered, c)
        BY <1>5, <1>11, <2>2, <3>1
      <4>3. \A c \in Int: g[1] <= c /\ c < g[2] => \A x \in covered: ~(x[1] <= c /\ c < x[2])
        BY <4>2 DEF In
      <4>4. PICK h \in gaps: h[1] <= g[1] /\ g[2] <= h[2]
        BY <3>5, <4>1, <4>3
      <4>5. PICK c \in candidates: c[1] <= h[1] /\ h[2] <= c[2]
        BY <3>3
      <4>6. c[1] \in Int /\ c[2] \in Int /\ h[1] \in Int /\ h[2] \in Int
        BY <1>1, Types
      <4>7. c[1] <= g[1] /\ g[2] <= c[2]
        BY <4>1, <4>4, <4>5, <4>6
      <4>8. Max({g[1], c[1]}) < Min({g[2], c[2]})
        <5> DEFINE p == g[1] q == g[2] u == c[1] w == c[2]
        <5>1. p \in Int /\ q \in Int /\ u \in Int /\ w \in Int /\ p < q /\ u <= p /\ q <= w
          BY <4>1, <4>6, <4>7
        <5> HIDE DEF p, q, u, w
        <5>2. Max({p, u}) = p \/ Max({p, u}) = u
          BY <5>1, MaxOfTwo
        <5>3. Min({q, w}) = q \/ Min({q, w}) = w
          BY <5>1, MinOfTwo
        <5>4. Max({p, u}) < Min({q, w})
          BY <5>1, <5>2, <5>3
        <5> QED BY <5>4 DEF p, q, u, w
      <4>9. Listed(c, gaps')
        BY <4>8 DEF Listed
      <4> QED BY <3>1, <4>7, <4>9
    <3> QED BY <3>2, <3>6
  <2> QED BY <2>1, <2>2
<1>13. CleanPassIsComplete'
  <2> SUFFICES ASSUME clean', NEW g \in gaps', NEW c \in RoadCells(Whole, g),
                      c \in session.low .. session.low + session.request.length - 1
               PROVE  FALSE
    BY <1>2, <1>3, Zenon DEF CleanPassIsComplete, Size
  <2>1. clean /\ pos = stop
    BY <1>2, Zenon
  <2>2. g[1] \in Int /\ g[2] \in Int
    BY <1>11
  <2>3. c \in Int /\ g[1] <= Along(Whole, c) /\ Along(Whole, c) < g[2]
    BY <1>1, <2>2, RoadCell
  <2>4. ~In(covered', Along(Whole, c)) /\ Along(Whole, c) \in Int /\ Along(Whole, Along(Whole, c)) = c
    BY <1>9, <1>11, <2>3
  <2>5. \A k \in Int: 0 <= k /\ k < session.request.length => In(Found, k)
    BY <1>1, <1>2, <1>4, <2>1, CleanRunIsWhole
  <2>6. 0 <= c - session.low /\ c - session.low < session.request.length /\ c - session.low \in Int
    BY <1>1, <2>3
  <2>7. CASE sessions = 0
    <3>1. 0 <= Along(Whole, c) /\ Along(Whole, c) < session.request.length
      <4>1. session.request.length = n /\ session.low = 0
        BY <1>1, <1>6, <2>7, Types
      <4>2. Along(Whole, c) = IF Direction(parent.track) = 1 THEN c ELSE n - 1 - c
        BY <1>1, <2>3, Types DEF Along
      <4> QED BY <1>1, <2>3, <2>6, <4>1, <4>2
    <3> QED BY <1>2, <2>4, <2>5, <2>7, <3>1
  <2>8. CASE sessions # 0
    <3>1. In(Found, c - session.low)
      BY <2>5, <2>6
    <3> QED BY <1>2, <1>5, <2>4, <2>8, <3>1
  <2> QED BY <2>7, <2>8
<1>14. TypeOK'
  <2>1. covered' \subseteq Int \X Int
    BY <1>8 DEF Proper
  <2>2. gaps' \subseteq Int \X Int
    BY <1>11
  <2>3. candidates' \subseteq Int \X Int
    BY <1>12 DEF Proper
  <2>4. clean' \in BOOLEAN /\ known' \in BOOLEAN
    BY <1>2, Zenon
  <2>5. run' \in [first: Int, last: Int, tags: Nat] /\ accepted' \subseteq Int \X Int
    BY <1>2 DEF NoRun
  <2> QED BY <1>1, <1>2, <2>1, <2>2, <2>3, <2>4, <2>5, Zenon DEF TypeOK
<1>15. Placed' /\ Ranges' /\ Reachable'
  <2>1. Placed'
    BY <1>1, <1>2, <1>3 DEF Placed
  <2>2. Ranges'
    BY <1>2, <1>8, <1>12 DEF Ranges, Reported, n
  <2>3. Reachable'
    BY <1>12 DEF Reachable
  <2> QED BY <2>1, <2>2, <2>3
<1>16. Tracked'
  BY <1>2, <1>3, <1>10 DEF Tracked, Backed, Walk
<1>17. Undisturbed'
  BY <1>2 DEF Undisturbed
<1> QED BY <1>13, <1>14, <1>15, <1>16, <1>17 DEF Inductive

\* The request of a candidate is one.
LEMMA RescanIsSite ==
  ASSUME Inductive, NEW c \in candidates
  PROVE  /\ Rescan(c) \in Sites /\ Rescan(c).track = 0 /\ 0 <= Rescan(c).low
         /\ Rescan(c).low + Rescan(c).request.length <= parent.request.length
<1> DEFINE r == parent.request n == r.length
           low == Mirror(Direction(parent.track), n, c)[1]
           strip == StripHigh(r, parent.track) - StripLow(r, parent.track)
           q == [r EXCEPT !.length = c[2] - c[1], !.width = strip \div 2, !.bounds = <<@[1] - low, @[2] - low>>]
<1>1. Rescan(c) = [request |-> q, track |-> 0, low |-> low]
  BY DEF Rescan
<1>2. r \in Requests /\ n \in Nat /\ Feasible(r) /\ parent.track \in Int
  BY Types DEF Inductive, Placed
<1>3. c[1] \in Int /\ c[2] \in Int /\ 0 <= c[1] /\ c[1] < c[2] /\ c[2] <= n
  BY DEF Inductive, Ranges, Proper
<1>4. low = c[1] \/ low = n - c[2]
  BY DEF Mirror
<1>5. strip \in Int
  BY <1>2, StripsAreNumbers
<1> HIDE DEF low, strip
<1>6. low \in Int /\ 0 <= low /\ low + (c[2] - c[1]) <= n
  BY <1>2, <1>3, <1>4
<1>7. strip \div 2 \in Int
  BY <1>5
<1>8. q \in Requests /\ q.length = c[2] - c[1]
  <2>1. c[2] - c[1] \in Nat \ {0}
    BY <1>3
  <2>2. r.bounds[1] - low \in Int /\ r.bounds[2] - low \in Int
    BY <1>2, <1>6 DEF Requests
  <2> DEFINE len == c[2] - c[1] wid == strip \div 2 bou == <<r.bounds[1] - low, r.bounds[2] - low>>
  <2>3. len \in Nat \ {0} /\ wid \in Int /\ bou \in Int \X Int
    BY <1>7, <2>1, <2>2
  <2>4. q = [r EXCEPT !.length = len, !.width = wid, !.bounds = bou]
    BY <1>2 DEF Requests
  <2> HIDE DEF len, wid, bou, q
  <2>5. q \in Requests /\ q.length = len
    BY <1>2, <2>3, <2>4 DEF Requests
  <2> QED BY <2>5 DEF len
<1> HIDE DEF q
<1> QED BY <1>1, <1>6, <1>8 DEF Sites
\* Driving a rescan keeps the invariant.
LEMMA DriveStep ==
  ASSUME Inductive, Drive
  PROVE  Inductive'
<1>1. /\ phase = "report" /\ phase' = "audit" /\ sessions' = sessions + 1
      /\ parent' = parent /\ known' = known /\ run' = run /\ accepted' = accepted /\ seen' = seen
      /\ covered' = covered /\ gaps' = gaps /\ candidates' = candidates
  BY DEF Drive, report
<1>2. PICK c \in candidates:
        /\ Feasible(Rescan(c).request)
        /\ \E p \in Passes(Rescan(c)):
             /\ session' = p.session /\ pos' = p.pos /\ stop' = p.stop
             /\ clean' = (p.pos <= -2 * p.session.request.error)
  BY DEF Drive
<1>3. PICK p \in Passes(Rescan(c)):
        /\ session' = p.session /\ pos' = p.pos /\ stop' = p.stop
        /\ clean' = (p.pos <= -2 * p.session.request.error)
  BY <1>2
<1>4. /\ TypeOK /\ Placed /\ Ranges /\ Tracked /\ Reachable
  BY DEF Inductive
<1>5. /\ Rescan(c) \in Sites /\ Rescan(c).track = 0 /\ 0 <= Rescan(c).low
      /\ Rescan(c).low + Rescan(c).request.length <= parent.request.length
  BY RescanIsSite
<1>6. /\ session' = Rescan(c) /\ pos' \in Int /\ stop' \in Int
      /\ session'.request.length + 2 * session'.request.error <= stop'
  BY <1>3, <1>5, PassEndsBehind
<1>7. session'.request \in Requests /\ session'.track = 0 /\ session'.low \in Int
      /\ Feasible(session'.request) /\ session' \in [request: Requests, track: Nat, low: Int]
  BY <1>2, <1>5, <1>6 DEF Sites
<1>8. run = NoRun /\ accepted = {}
  BY <1>1, <1>4 DEF Ranges
<1>9. sessions \in Nat /\ sessions' \in Nat /\ sessions' # 0
  <2>1. sessions \in Nat
    BY <1>4 DEF TypeOK
  <2> QED BY <1>1, <2>1
<1>10. clean' = (pos' <= -2 * session'.request.error)
  BY <1>3
<1>11. clean' \in BOOLEAN
  BY <1>10
<1>12. Whole' = Whole
  BY <1>1 DEF Whole
<1>13. TypeOK'
  BY <1>1, <1>4, <1>6, <1>7, <1>9, <1>11, Zenon DEF TypeOK
<1>14. Placed'
  <2>1. Tracks(session'.request) \in Nat \ {0}
    BY <1>7, TracksSpread
  <2>2. session'.track < Tracks(session'.request)
    BY <1>7, <2>1
  <2>3. Feasible(parent'.request)
    BY <1>1, <1>4 DEF Placed
  <2>4. 0 <= session'.low /\ session'.low + session'.request.length <= parent'.request.length
    BY <1>1, <1>5, <1>6
  <2> QED BY <1>6, <1>7, <1>9, <2>2, <2>3, <2>4 DEF Placed
<1>15. Ranges' /\ Reachable'
  BY <1>1, <1>4, <1>9 DEF Ranges, Reachable, Reported
<1>16. Tracked'
  BY <1>1, <1>4, <1>8, <1>12 DEF Tracked, Backed, Walk
<1>17. Undisturbed'
  BY <1>1, <1>8, <1>10, Zenon DEF Undisturbed
<1>18. CleanPassIsComplete'
  BY <1>1 DEF CleanPassIsComplete
<1> QED BY <1>13, <1>14, <1>15, <1>16, <1>17, <1>18 DEF Inductive

\* Every step keeps the invariant.
LEMMA StepInductive == Inductive /\ [Next]_vars => Inductive'
<1> SUFFICES ASSUME Inductive, [Next]_vars PROVE Inductive'
  OBVIOUS
<1>1. CASE Block
  BY <1>1, BlockStep
<1>2. CASE Report
  BY <1>2, ReportStep
<1>3. CASE Drive
  BY <1>3, DriveStep
<1>4. CASE UNCHANGED vars
  BY <1>4 DEF vars, pass, report, Inductive, TypeOK, Placed, Ranges, Reported, Tracked, Backed, Walk, Whole,
              Undisturbed, Reachable, CleanPassIsComplete, Size
<1> QED BY <1>1, <1>2, <1>3, <1>4 DEF Next

\* The invariant holds in every reachable state.
LEMMA AlwaysInductive == Spec => []Inductive
BY InitInductive, StepInductive, PTL DEF Spec

(***************************************************************************)
(* What follows from it.                                                   *)
(***************************************************************************)

\* The audit stays within its types.
THEOREM AuditIsTyped == Spec => []TypeOK
<1>1. Inductive => TypeOK
  BY DEF Inductive
<1> QED BY <1>1, AlwaysInductive, PTL

\* No road is reported as verified (coverage.py, capture_audit.py) that the
\* camera did not image, however often it was scanned again.
THEOREM VerifiedRoadWasImaged == Spec => []VerifiedIsSeen
<1>1. Inductive => VerifiedIsSeen
  <2> SUFFICES ASSUME Inductive, NEW v \in covered PROVE RoadCells(Whole, v) \subseteq seen
    BY DEF VerifiedIsSeen
  <2>1. Whole \in Sites /\ v[1] \in Int /\ v[2] \in Int
    BY Types DEF Inductive
  <2>2. Shows(Whole, v[1], v[2], seen)
    BY DEF Inductive, Tracked
  <2> QED BY <2>1, <2>2, ShownCells
<1> QED BY <1>1, AlwaysInductive, PTL

\* A pass nothing went wrong with leaves no gap in its region, whatever the
\* request the planner accepted (planner.py, coverage.py).
THEOREM CleanPassLeavesNoGap == Spec => []CleanPassIsComplete
<1>1. Inductive => CleanPassIsComplete
  BY DEF Inductive
<1> QED BY <1>1, AlwaysInductive, PTL

\* Every stretch still missing lies in a rescan candidate that is still listed
\* (coverage.py), after any number of rescans.
THEOREM MissingRoadIsListed == Spec => []GapsAreReachable
<1>1. Inductive => GapsAreReachable
  BY DEF Inductive, Reachable, Reported, GapsAreReachable
<1> QED BY <1>1, AlwaysInductive, PTL
=============================================================================

------------------------ MODULE SegmentDriveProofs ------------------------
(***************************************************************************)
(* Proofs about one segment after another on the swerve controller: types, *)
(* the stillness of HOLD, and the branch a segment keeps.                  *)
(***************************************************************************)
EXTENDS SegmentDrive, TLAPS, NaturalsInduction, WellFoundedInduction

-----------------------------------------------------------------------------
(* Angles, steps and costs *)

\* A step towards b ends at b, or a whole step short of it.
LEMMA StepTowards ==
  ASSUME NEW a \in Int, NEW b \in Int, NEW step \in Nat
  PROVE  LET t == Towards(a, b, step)
         IN  /\ t \in Int
             /\ \/ t = b
                \/ a < b /\ t = a + step /\ t < b
                \/ a > b /\ t = a - step /\ t > b
  BY DEF Towards, Magnitude, Sign

\* The wheel turns between 90 degrees one way and 270 the other.
LEMMA AnglesAreIntegers == Angles \subseteq -270..90
  BY DEF Angles

\* A step on the grid stays on the grid.
LEMMA StepOnGrid ==
  ASSUME NEW a \in Angles, NEW b \in Angles
  PROVE  Towards(a, b, 15) \in Angles
<1>1. PICK i \in -18..6 : a = 15 * i
  BY DEF Angles
<1>2. PICK j \in -18..6 : b = 15 * j
  BY DEF Angles
<1>3. \/ Towards(a, b, 15) = 15 * j
      \/ i < j /\ Towards(a, b, 15) = 15 * (i + 1)
      \/ i > j /\ Towards(a, b, 15) = 15 * (i - 1)
  <2>1. a \in Int /\ b \in Int
    BY <1>1, <1>2
  <2> DEFINE t == Towards(a, b, 15)
  <2>2. \/ t = b
        \/ a < b /\ t = a + 15 /\ t < b
        \/ a > b /\ t = a - 15 /\ t > b
    BY <2>1, StepTowards
  <2> HIDE DEF t
  <2>3. \/ t = 15 * j
        \/ i < j /\ t = 15 * (i + 1)
        \/ i > j /\ t = 15 * (i - 1)
    BY <1>1, <1>2, <2>2, SMT
  <2>4. QED  BY <2>3 DEF t
<1>4. \E n \in -18..6 : Towards(a, b, 15) = 15 * n
  <2>1. i + 1 \in -18..6 \/ ~(i < j)
    OBVIOUS
  <2>2. i - 1 \in -18..6 \/ ~(i > j)
    OBVIOUS
  <2>3. QED  BY <1>3, <2>1, <2>2
<1>5. QED  BY <1>4 DEF Angles

\* Every angle the wheel takes is within the limits.
LEMMA MarginIsNatural ==
  ASSUME NEW a \in Angles
  PROVE  /\ Margin(a) \in Nat
         /\ Margin(a) = IF 95 - a < a + 275 THEN 95 - a ELSE a + 275
  BY AnglesAreIntegers DEF Margin, SoftUpper, SoftLower

\* The penalty near a limit is worth less than twelve degrees of travel.
Penalty(a) == 200000000 \div (10000 + 1745 * Margin(a))

\* It is a natural number up to 20000 units.
LEMMA PenaltyIsBounded ==
  ASSUME NEW a \in Angles
  PROVE  Penalty(a) \in Int /\ 0 <= Penalty(a) /\ Penalty(a) <= 20000
<1> DEFINE n == 10000 + 1745 * Margin(a)
           q == 200000000 \div n
<1>1. n \in Nat /\ n >= 10000
  BY MarginIsNatural, SMT
<1> HIDE DEF n
<1>2. q \in Int /\ n * q <= 200000000 /\ 200000000 < n * q + n
  BY <1>1, SMT
<1> HIDE DEF q
<1>3. q >= 0
  BY <1>1, <1>2, SMT
<1>4. q <= 20000
  BY <1>1, <1>2, SMT
<1>5. Penalty(a) = q
  BY SMT DEF Penalty, n, q
<1>6. q \in Int /\ 0 <= q /\ q <= 20000
  BY <1>2, <1>3, <1>4, SMT
<1>7. QED  BY <1>5, <1>6, SMT

\* The cost of a branch is its travel and at most 0.28 rad more.
LEMMA CostIsTravel ==
  ASSUME NEW a \in Angles, NEW actual \in Angles, NEW last \in Angles
  PROVE  /\ Cost(a, actual, last) \in Nat
         /\ Magnitude(a - actual) \in Nat
         /\ 1745 * Magnitude(a - actual) <= Cost(a, actual, last)
         /\ Cost(a, actual, last) <= 1745 * Magnitude(a - actual) + 28000
<1> DEFINE m == Magnitude(a - actual)
           c == Cost(a, actual, last)
           p == Penalty(a)
           e == IF Magnitude(a - last) > 90 THEN 8000 ELSE 0
<1>1. p \in Int /\ 0 <= p /\ p <= 20000
  BY PenaltyIsBounded, SMT
<1>2. m \in Nat
  BY AnglesAreIntegers, SMT DEF Magnitude
<1>3. e \in Int /\ 0 <= e /\ e <= 8000
  BY SMT
<1>4. c = 1745 * m + p + e
  BY SMT DEF Cost, Penalty
<1> HIDE DEF p, e, m, c
<1>5. c \in Nat /\ 1745 * m <= c /\ c <= 1745 * m + 28000
  BY <1>1, <1>2, <1>3, <1>4, SMT
<1>6. QED  BY <1>2, <1>5, SMT DEF m, c

\* A set of naturals has a least element.
LEMMA LeastNatural ==
  ASSUME NEW S, S # {}, S \subseteq Nat
  PROVE  \E n \in S : \A k \in S : n <= k
<1> DEFINE R == {p \in Nat \X Nat : p[1] < p[2]}
<1>1. IsWellFoundedOn(R, Nat)
  BY NatLessThanWellFounded, Zenon DEF OpToRel
<1> HIDE DEF R
<1>2. PICK n \in S : \A k \in S : <<k, n>> \notin R
  BY <1>1, WFMin, Zenon
<1>3. \A k \in S : n <= k
  <2> SUFFICES ASSUME NEW k \in S, ~(n <= k) PROVE FALSE
    OBVIOUS
  <2>1. <<k, n>> \in R
    BY DEF R
  <2>2. QED  BY <1>2, <2>1
<1>4. QED  BY <1>3

\* A set of angles has its Min.
LEMMA LeastInteger ==
  ASSUME NEW S, S # {}, S \subseteq -270..90
  PROVE  Min(S) \in S /\ \A x \in S : Min(S) <= x
<1> DEFINE T == {x + 270 : x \in S}
<1>0. \A x \in S : x \in Int /\ x + 270 \in Nat
  OBVIOUS
<1>1. T \subseteq Nat /\ T # {}
  BY <1>0
<1>2. PICK n \in T : \A k \in T : n <= k
  BY <1>1, LeastNatural
<1>3. \A x \in S : n <= x + 270
  BY <1>2
<1>4. PICK x \in S : n = x + 270
  OBVIOUS
<1>5. \A y \in S : x <= y
  BY <1>0, <1>3, <1>4
<1>6. QED  BY <1>5 DEF Min

\* There is a cheapest branch, and it is one of them.
LEMMA CheapestIsCheapest ==
  ASSUME NEW branches, branches # {}, branches \subseteq Angles,
         NEW actual \in Angles, NEW last \in Angles
  PROVE  /\ Cheapest(branches, actual, last) \in branches
         /\ \A b \in branches :
              Cost(Cheapest(branches, actual, last), actual, last) <= Cost(b, actual, last)
<1> DEFINE costs == {Cost(b, actual, last) : b \in branches}
           best == {a \in branches : \A b \in branches : Cost(a, actual, last) <= Cost(b, actual, last)}
<1>1. costs \subseteq Nat /\ costs # {}
  BY CostIsTravel
<1>2. PICK n \in costs : \A k \in costs : n <= k
  BY <1>1, LeastNatural
<1>3. \A b \in branches : n <= Cost(b, actual, last)
  BY <1>2
<1>4. PICK a \in branches : n = Cost(a, actual, last)
  OBVIOUS
<1>5. best # {} /\ best \subseteq -270..90
  BY <1>3, <1>4, AnglesAreIntegers
<1>6. Min(best) \in best
  BY <1>5, LeastInteger
<1>7. QED  BY <1>6 DEF Cheapest

\* Two steps farther is never cheaper.
LEMMA FartherIsDearer ==
  ASSUME NEW branches, branches \subseteq Angles,
         NEW actual \in Angles, NEW last \in Angles,
         NEW a \in branches, NEW b \in branches,
         Magnitude(a - actual) >= Magnitude(b - actual) + 30
  PROVE  Cheapest(branches, actual, last) # a
<1>1. Cost(a, actual, last) > Cost(b, actual, last)
  <2>1. a \in Angles /\ b \in Angles
    OBVIOUS
  <2>2. /\ Cost(a, actual, last) \in Nat /\ Magnitude(a - actual) \in Nat
        /\ 1745 * Magnitude(a - actual) <= Cost(a, actual, last)
    BY <2>1, CostIsTravel, SMT
  <2>3. /\ Cost(b, actual, last) \in Nat /\ Magnitude(b - actual) \in Nat
        /\ Cost(b, actual, last) <= 1745 * Magnitude(b - actual) + 28000
    BY <2>1, CostIsTravel, SMT
  <2>4. QED  BY <2>2, <2>3, SMT
<1>2. Cost(a, actual, last) \in Nat /\ Cost(b, actual, last) \in Nat
  BY CostIsTravel, SMT
<1>3. Cost(Cheapest(branches, actual, last), actual, last) <= Cost(b, actual, last)
  BY CheapestIsCheapest
<1>4. QED  BY <1>1, <1>2, <1>3, SMT

-----------------------------------------------------------------------------
(* The branch a direction is given *)

\* A branch is an angle, whole half turns from the direction.
LEMMA BranchesOnGrid ==
  ASSUME NEW dir \in Directions, NEW reconfigure, NEW stationary,
         NEW a \in Branches(dir, reconfigure, stationary)
  PROVE  /\ a \in Angles /\ a \in Int /\ dir \in Int
         /\ \E k \in -3..3 : a = dir + 180 * k
<1>1. PICK j \in -11..12 : dir = 15 * j
  BY DEF Directions
<1>2. PICK k \in -3..3 : a = dir + 180 * k
  BY DEF Branches
<1>3. -275 <= a /\ a <= 95
  BY DEF Branches, SoftLower, SoftUpper
<1>4. a = 15 * (j + 12 * k) /\ j + 12 * k \in -18..6
  BY <1>1, <1>2, <1>3, SMT
<1>5. a \in Angles
  BY <1>4 DEF Angles
<1>6. QED  BY <1>1, <1>2, <1>5, SMT

\* Half a turn from a branch, well within the limits, is a branch.
LEMMA HalfATurn ==
  ASSUME NEW dir \in Directions, NEW reconfigure, NEW stationary,
         NEW a \in Branches(dir, reconfigure, stationary),
         NEW b \in {a - 180, a + 180}, -180 < b, b < 0
  PROVE  b \in Branches(dir, reconfigure, stationary)
<1>1. PICK j \in -11..12 : dir = 15 * j
  BY DEF Directions
<1>2. PICK k \in -3..3 : a = dir + 180 * k
  BY DEF Branches
<1>3. \E n \in -3..3 : b = dir + 180 * n
  <2>1. CASE b = a - 180
    <3>1. k - 1 \in -3..3 /\ b = dir + 180 * (k - 1)
      BY <1>1, <1>2, <2>1, SMT
    <3>2. QED  BY <3>1
  <2>2. CASE b = a + 180
    <3>1. k + 1 \in -3..3 /\ b = dir + 180 * (k + 1)
      BY <1>1, <1>2, <2>2, SMT
    <3>2. QED  BY <3>1
  <2>3. QED  BY <2>1, <2>2
<1>4. b \in Int
  BY <1>1, <1>2, SMT
<1>5. Margin(b) >= 91 /\ Margin(b) \in Int
  BY <1>4, SMT DEF Margin, SoftLower, SoftUpper
<1>6. QED
  BY <1>3, <1>4, <1>5, SMT DEF Branches, SoftLower, SoftUpper, SegmentMargin, RecentreMargin

\* What allocate returns.
LEMMA Allocated ==
  ASSUME NEW request \in [dir : Directions, speed : 0..2],
         NEW actual \in Angles, NEW last \in Angles, NEW reconfigure, NEW stationary,
         NEW target \in Allocate(request, actual, last, reconfigure, stationary)
  PROVE  LET branches == Branches(request.dir, reconfigure, stationary)
         IN  /\ target.angle \in Angles /\ target.speed \in Speeds
             /\ branches \subseteq Angles
             /\ \/ target.angle = actual /\ target.speed = 0
                \/ /\ request.speed # 0
                   /\ target.angle \in branches
                   /\ target.angle = Cheapest(branches, actual, last)
<1> DEFINE branches == Branches(request.dir, reconfigure, stationary)
<1>1. request.dir \in Directions /\ request.speed \in 0..2
  OBVIOUS
<1>2. branches \subseteq Angles
  BY <1>1, BranchesOnGrid
<1>3. CASE request.speed = 0 \/ branches = {}
  <2>1. target = [angle |-> actual, speed |-> 0]
    BY <1>3 DEF Allocate
  <2>2. QED  BY <1>2, <2>1 DEF Speeds
<1>4. CASE ~(request.speed = 0 \/ branches = {})
  <2> DEFINE a == Cheapest(branches, actual, last)
  <2>1. a \in branches
    BY <1>2, <1>4, CheapestIsCheapest
  <2>2. target = [angle |-> a,
                  speed |-> IF (a - request.dir) % 360 = 0 THEN request.speed ELSE -request.speed]
    BY <1>4 DEF Allocate
  <2> HIDE DEF a, branches
  <2>3. target.angle = a /\ target.speed \in {request.speed, -request.speed}
    BY <2>2
  <2>4. target.speed \in Speeds
    BY <1>1, <2>3 DEF Speeds
  <2>5. QED  BY <1>2, <1>4, <2>1, <2>3, <2>4 DEF a, branches
<1>5. QED  BY <1>3, <1>4

\* A wheel on one half of its range is not sent to the far end of the other.
LEMMA KeepsItsSide ==
  ASSUME NEW request \in [dir : Directions, speed : 0..2],
         NEW actual \in Angles, NEW last \in Angles, NEW reconfigure, NEW stationary,
         NEW target \in Allocate(request, actual, last, reconfigure, stationary)
  PROVE  /\ actual <= -90 => target.angle <= 0
         /\ actual >= -90 => target.angle >= -180
<1> DEFINE branches == Branches(request.dir, reconfigure, stationary)
           a == target.angle
<1>1. a \in Angles /\ branches \subseteq Angles
  BY Allocated
<1>2. /\ a \in Int /\ actual \in Int
      /\ \E n \in -18..6 : a = 15 * n
  BY <1>1 DEF Angles
<1>3. CASE a = actual
  BY <1>2, <1>3
<1>4. CASE a \in branches /\ a = Cheapest(branches, actual, last)
  <2>0. request.dir \in Directions
    OBVIOUS
  <2> HIDE DEF branches, a
  <2>1. \A b \in branches : ~(Magnitude(a - actual) >= Magnitude(b - actual) + 30)
    BY <1>1, <1>4, FartherIsDearer
  <2>2. CASE actual <= -90 /\ a > 0
    <3>1. a - 180 \in branches
      BY <1>2, <1>4, <2>0, <2>2, HalfATurn, AnglesAreIntegers, <1>1, SMT DEF branches
    <3>2. Magnitude(a - actual) >= Magnitude((a - 180) - actual) + 30
      BY <1>2, <2>2, SMT DEF Magnitude
    <3>3. QED  BY <2>1, <3>1, <3>2
  <2>3. CASE actual >= -90 /\ a < -180
    <3>1. a + 180 \in branches
      BY <1>2, <1>4, <2>0, <2>3, HalfATurn, AnglesAreIntegers, <1>1, SMT DEF branches
    <3>2. Magnitude(a - actual) >= Magnitude((a + 180) - actual) + 30
      BY <1>2, <2>3, SMT DEF Magnitude
    <3>3. QED  BY <2>1, <3>1, <3>2
  <2>4. QED  BY <1>2, <2>2, <2>3 DEF a
<1>5. QED  BY <1>3, <1>4, Allocated

\* Between two branches as far away, the one near a limit costs more.
LEMMA CentreIsCheaper ==
  ASSUME NEW actual \in Angles, -165 <= actual, actual <= -15,
         NEW last \in Angles, -165 <= last, last <= -15
  PROVE  /\ actual = -15 => Cost(-105, actual, last) < Cost(75, actual, last)
         /\ actual = -165 => Cost(-75, actual, last) < Cost(-255, actual, last)
<1>1. actual \in Int /\ last \in Int
  BY AnglesAreIntegers
<1>2. Margin(75) = 20 /\ Margin(-255) = 20 /\ Margin(-105) = 170 /\ Margin(-75) = 170
  BY SMT DEF Margin, SoftLower, SoftUpper
<1>3. Penalty(75) = 4454 /\ Penalty(-255) = 4454 /\ Penalty(-105) = 652 /\ Penalty(-75) = 652
  BY <1>2, SMT DEF Penalty
<1>4. \A a \in Int : Cost(a, actual, last) =
         1745 * Magnitude(a - actual) + Penalty(a) + IF Magnitude(a - last) > 90 THEN 8000 ELSE 0
  BY SMT DEF Cost, Penalty
<1>5. CASE actual = -15
  <2>1. Cost(75, actual, last) >= 1745 * 90 + 4454
    BY <1>1, <1>3, <1>4, <1>5, SMT DEF Magnitude
  <2>2. Cost(-105, actual, last) = 1745 * 90 + 652
    BY <1>1, <1>3, <1>4, <1>5, SMT DEF Magnitude
  <2>3. QED  BY <1>5, <2>1, <2>2, <1>1, <1>3, <1>4, SMT DEF Magnitude
<1>6. CASE actual = -165
  <2>1. Cost(-255, actual, last) >= 1745 * 90 + 4454
    BY <1>1, <1>3, <1>4, <1>6, SMT DEF Magnitude
  <2>2. Cost(-75, actual, last) = 1745 * 90 + 652
    BY <1>1, <1>3, <1>4, <1>6, SMT DEF Magnitude
  <2>3. QED  BY <1>6, <2>1, <2>2, <1>1, <1>3, <1>4, SMT DEF Magnitude
<1>7. QED  BY <1>5, <1>6, SMT

\* Directions across the vehicle, with a sideways correction of a grid step.
Across == {-105, -90, -75, 75, 90, 105}

\* Once it is across, a wheel stays in the middle of its range.
LEMMA StaysAcross ==
  ASSUME NEW request \in [dir : Directions, speed : 0..2], request.speed # 0 => request.dir \in Across,
         NEW actual \in Angles, -165 <= actual, actual <= -15,
         NEW last \in Angles, -165 <= last, last <= -15,
         NEW reconfigure, NEW stationary,
         NEW target \in Allocate(request, actual, last, reconfigure, stationary)
  PROVE  -165 <= target.angle /\ target.angle <= -15
<1> DEFINE branches == Branches(request.dir, reconfigure, stationary)
           a == target.angle
<1>0. actual \in Int /\ request.dir \in Directions
  BY AnglesAreIntegers
<1>1. branches \subseteq Angles /\ a \in Angles
  BY Allocated
<1>2. CASE a = actual
  BY <1>2
<1>3. CASE request.speed # 0 /\ a \in branches /\ a = Cheapest(branches, actual, last)
  <2>1. request.dir \in Across
    BY <1>3
  <2>2. \E k \in -3..3 : a = request.dir + 180 * k
    BY <1>0, <1>3, BranchesOnGrid
  <2> HIDE DEF branches, a
  <2>3. a \in Int /\ -270 <= a /\ a <= 90
    BY <1>1, AnglesAreIntegers
  <2>4. a \in {-105, -90, -75} \/ a \in {75, 90} \/ a \in {-270, -255}
    BY <2>1, <2>2, <2>3, SMT DEF Across
  <2>5. \A b \in branches : ~(Magnitude(a - actual) >= Magnitude(b - actual) + 30)
    BY <1>1, <1>3, FartherIsDearer
  <2>6. \A b \in branches : ~(Cost(b, actual, last) < Cost(a, actual, last))
    <3>1. \A b \in branches : Cost(a, actual, last) <= Cost(b, actual, last)
      BY <1>1, <1>3, CheapestIsCheapest
    <3>2. \A b \in branches : Cost(b, actual, last) \in Nat
      BY <1>1, CostIsTravel, SMT
    <3>3. QED  BY <1>3, <3>1, <3>2, SMT
  <2>7. CASE a \in {75, 90}
    <3>1. a - 180 \in branches
      BY <1>0, <1>3, <2>7, HalfATurn, SMT DEF branches
    <3>2. CASE actual = -15 /\ a = 75
      BY <2>6, <3>1, <3>2, CentreIsCheaper, SMT
    <3>3. CASE ~(actual = -15 /\ a = 75)
      <4>1. \E n \in -18..6 : actual = 15 * n
        BY DEF Angles
      <4>2. actual <= -30 \/ a = 90
        BY <2>7, <3>3, <4>1, <1>0, SMT
      <4>3. Magnitude(a - actual) >= Magnitude((a - 180) - actual) + 30
        BY <1>0, <2>7, <4>2, SMT DEF Magnitude
      <4>4. QED  BY <2>5, <3>1, <4>3
    <3>4. QED  BY <3>2, <3>3
  <2>8. CASE a \in {-270, -255}
    <3>1. a + 180 \in branches
      BY <1>0, <1>3, <2>8, HalfATurn, SMT DEF branches
    <3>2. CASE actual = -165 /\ a = -255
      BY <2>6, <3>1, <3>2, CentreIsCheaper, SMT
    <3>3. CASE ~(actual = -165 /\ a = -255)
      <4>1. \E n \in -18..6 : actual = 15 * n
        BY DEF Angles
      <4>2. actual >= -150 \/ a = -270
        BY <2>8, <3>3, <4>1, <1>0, SMT
      <4>3. Magnitude(a - actual) >= Magnitude((a + 180) - actual) + 30
        BY <1>0, <2>8, <4>2, SMT DEF Magnitude
      <4>4. QED  BY <2>5, <3>1, <4>3
    <3>4. QED  BY <3>2, <3>3
  <2>9. QED  BY <2>4, <2>7, <2>8, SMT DEF a
<1>4. QED  BY <1>2, <1>3, Allocated

\* A direction that is not straight across has no branch at a limit.
LEMMA NotAtALimit ==
  ASSUME NEW dir \in Directions, dir \notin {-90, 90}, NEW reconfigure, NEW stationary,
         NEW a \in Branches(dir, reconfigure, stationary)
  PROVE  -255 <= a /\ a <= 75
<1>1. PICK j \in -11..12 : dir = 15 * j
  BY DEF Directions
<1>2. PICK k \in -3..3 : a = dir + 180 * k
  BY DEF Branches
<1>3. -275 <= a /\ a <= 95
  BY DEF Branches, SoftLower, SoftUpper
<1>4. a # 90 /\ a # -270
  BY <1>1, <1>2, SMT
<1>5. a = 15 * (j + 12 * k)
  BY <1>1, <1>2, SMT
<1>6. QED  BY <1>1, <1>2, <1>3, <1>4, <1>5, SMT

\* Nor is there one at a limit for a vehicle at rest.
LEMMA NotAtALimitAtRest ==
  ASSUME NEW dir \in Directions, NEW reconfigure, NEW stationary,
         NEW a \in Branches(dir, reconfigure, stationary)
  PROVE  stationary => /\ -255 <= a /\ a <= 75
                       /\ dir \in {-90, 90} => a = -90
<1>1. a \in Int /\ dir \in Int /\ \E k \in -3..3 : a = dir + 180 * k
  BY BranchesOnGrid
<1>2. stationary => Margin(a) >= 20
  BY SMT DEF Branches, SegmentMargin
<1>3. Margin(a) >= 20 => -255 <= a /\ a <= 75
  BY <1>1, SMT DEF Margin, SoftLower, SoftUpper
<1>4. -255 <= a /\ a <= 75 /\ dir \in {-90, 90} => a = -90
  BY <1>1, SMT
<1>5. QED  BY <1>2, <1>3, <1>4, Zenon

-----------------------------------------------------------------------------
(* The invariant *)

Modes == {"HOLD", "ALIGN", "DRIVE", "BRAKE"}
Axes == {0, 30, 90, 120, 180, -60, -90, -150}
Middle(a) == -165 <= a /\ a <= -15
Clear(a) == -255 <= a /\ a <= 75

\* The axes that executor and corrections can ask for.
OnAxis == pilot = "tracker" => axis \in Axes

\* After a reset nothing is remembered; else /motion_state is the mode.
Reset == IF fresh THEN mode = "HOLD" /\ shown = "FEEDBACK_HOLD" /\ drive = 0 /\ ~settled
                  ELSE shown = mode

\* A controller that holds or aligns asks for no speed.
Resting == (mode \in {"HOLD", "ALIGN"} => drive = 0) /\ (settled => mode = "ALIGN")

\* The commanded angle is on the wheel's side of the range.
Lag == (angle <= -90 => steer <= 0) /\ (angle >= -90 => steer >= -180)

\* What the tracker last asked for is along its axis, or a correction away from
\* it once the segment moved.
Told ==
  pilot = "tracker" /\ command.speed # 0 =>
    /\ state \in Active
    /\ command.dir = axis \/ (moved /\ command.dir \in {Wrapped(axis - 15), Wrapped(axis + 15)})

\* A segment across the vehicle is driven in the middle of the wheel's range.
Sideways ==
  pilot = "tracker" /\ axis \in {90, -90} /\ (moved \/ mode = "DRIVE") =>
    Middle(angle) /\ Middle(steer) /\ Middle(previous)

\* A segment is driven clear of the steering limits.
Inner == pilot = "tracker" /\ mode = "DRIVE" => Clear(angle) /\ Clear(steer)

BranchInv == OnAxis /\ Reset /\ Resting /\ Lag /\ Told /\ Sideways /\ Inner /\ SegmentsKeepTheirBranch

ControllerTypes ==
  /\ mode \in Modes /\ shown \in Modes \cup {"FEEDBACK_HOLD"}
  /\ unwinding \in BOOLEAN /\ settled \in BOOLEAN /\ fresh \in BOOLEAN
  /\ previous \in Angles /\ steer \in Angles
  /\ turning \in -1..1 /\ drive \in Speeds
WheelTypes == angle \in Angles /\ speed \in Speeds
CommandTypes == command \in [dir : Directions, speed : 0..2] /\ valid \in BOOLEAN /\ feedback \in BOOLEAN
TrackerTypes ==
  /\ steady \in BOOLEAN /\ moved \in BOOLEAN /\ probed \in BOOLEAN /\ forwardOnly \in BOOLEAN
  /\ pilot \in Pilots /\ state \in Active \cup {"none", "COMPLETED", "FAULT"}
  /\ axis \in Directions /\ kind \in {"translate", "rotate"}
  /\ left \in 0..Length /\ togo \in -1..Length /\ trims \in 0..MaxTrims

\* The type invariant in parts, of the four kinds of variables.
LEMMA TypesApart ==
  /\ TypeOK <=> ControllerTypes /\ WheelTypes /\ CommandTypes /\ TrackerTypes
  /\ TypeOK' <=> ControllerTypes' /\ WheelTypes' /\ CommandTypes' /\ TrackerTypes'
<1>1. TypeOK <=> ControllerTypes /\ WheelTypes /\ CommandTypes /\ TrackerTypes
  BY Zenon DEF TypeOK, ControllerTypes, WheelTypes, CommandTypes, TrackerTypes, Modes
<1>2. TypeOK' <=> ControllerTypes' /\ WheelTypes' /\ CommandTypes' /\ TrackerTypes'
  BY Zenon DEF TypeOK, ControllerTypes, WheelTypes, CommandTypes, TrackerTypes, Modes
<1>3. QED  BY <1>1, <1>2

-----------------------------------------------------------------------------
(* update() *)

\* The values an update works with.
Used(d, s, last) ==
  \/ fresh /\ d = speed /\ s = angle /\ last = angle
  \/ ~fresh /\ d = drive /\ s = steer /\ last = previous

\* What an update does, its choices named.
Updated(d, s, last, target, rolls, m) ==
  LET aligned == m = "ALIGN" /\ speed = 0 /\ target.angle = angle
  IN  /\ Used(d, s, last)
      /\ target \in Allocate(InForce, angle, last, unwinding /\ Stationary(d), Stationary(d))
      /\ rolls \in BOOLEAN /\ m = Braked(target, d, rolls)
      /\ mode' = IF aligned /\ settled THEN "DRIVE" ELSE m
      /\ settled' = (aligned /\ mode' = "ALIGN")
      /\ unwinding' = IF mode' = "DRIVE" /\ m = "ALIGN" THEN FALSE
                      ELSE IF mode = "DRIVE" /\ MustBrake(target) THEN LimitApproach(target)
                      ELSE unwinding
      /\ previous' = target.angle
      /\ steer' = IF mode' \in {"ALIGN", "DRIVE"} THEN Towards(s, target.angle, 15) ELSE s
      /\ turning' = Sign(steer' - s)
      /\ drive' = Driven(d, IF mode' = "DRIVE" /\ Magnitude(target.angle - angle) < 90
                            THEN target.speed ELSE 0)
      /\ shown' = mode'

\* Update has such choices, and what it leaves alone.
LEMMA UpdateNamed ==
  ASSUME Update
  PROVE  /\ \E d, s, last, target, rolls, m : Updated(d, s, last, target, rolls, m)
         /\ fresh' = FALSE
         /\ UNCHANGED <<command, valid, feedback, wheelVars>>
<1>1. PICK d \in {IF fresh THEN speed ELSE drive}, s \in {IF fresh THEN angle ELSE steer},
           last \in {IF fresh THEN angle ELSE previous} :
     \E target \in Allocate(InForce, angle, last, unwinding /\ Stationary(d), Stationary(d)) :
     \E rolls \in BOOLEAN :
     \E m \in {Braked(target, d, rolls)} :
       LET aligned == m = "ALIGN" /\ speed = 0 /\ target.angle = angle
       IN  /\ mode' = IF aligned /\ settled THEN "DRIVE" ELSE m
           /\ settled' = (aligned /\ mode' = "ALIGN")
           /\ unwinding' = IF mode' = "DRIVE" /\ m = "ALIGN" THEN FALSE
                           ELSE IF mode = "DRIVE" /\ MustBrake(target) THEN LimitApproach(target)
                           ELSE unwinding
           /\ previous' = target.angle
           /\ steer' = IF mode' \in {"ALIGN", "DRIVE"} THEN Towards(s, target.angle, 15) ELSE s
           /\ turning' = Sign(steer' - s)
           /\ drive' = Driven(d, IF mode' = "DRIVE" /\ Magnitude(target.angle - angle) < 90
                                 THEN target.speed ELSE 0)
           /\ shown' = mode'
  BY Zenon DEF Update
<1>2. Used(d, s, last)
  BY Zenon DEF Used
<1>3. \E target, rolls, m : Updated(d, s, last, target, rolls, m)
  BY <1>1, <1>2, Zenon DEF Updated
<1>4. QED  BY <1>3, Zenon DEF Update

\* The mode after the checks that precede DRIVE.
LEMMA BrakedMode ==
  ASSUME mode \in Modes, NEW target, NEW d, NEW rolls,
         NEW m, m = Braked(target, d, rolls)
  PROVE  /\ m \in Modes
         /\ m = "DRIVE" => mode = "DRIVE" /\ ~MustBrake(target)
         /\ m = "HOLD" => speed = 0 /\ target.speed = 0 /\ (mode = "HOLD" \/ d = 0)
         /\ m = "ALIGN" => target.speed # 0 /\ (mode = "ALIGN" \/ (mode = "HOLD" /\ speed = 0) \/ d = 0)
<1> DEFINE zero == target.speed = 0
           m1 == IF mode = "DRIVE" /\ MustBrake(target) THEN "BRAKE" ELSE mode
           m2 == IF (m1 = "HOLD" /\ speed # 0) \/ (m1 = "ALIGN" /\ speed # 0 /\ rolls) THEN "BRAKE" ELSE m1
           m3 == IF m2 = "HOLD" /\ ~zero THEN "ALIGN" ELSE m2
           m4 == IF m3 = "BRAKE" /\ AtRest(d) THEN IF zero THEN "HOLD" ELSE "ALIGN" ELSE m3
<1>1. /\ m1 \in Modes /\ m1 \in {mode, "BRAKE"}
      /\ m1 = "DRIVE" => mode = "DRIVE" /\ ~MustBrake(target)
  BY DEF Modes
<1>2. m = IF m4 = "ALIGN" /\ zero THEN "BRAKE" ELSE m4
  BY Zenon DEF Braked
<1> HIDE DEF m1
<1>3. /\ m2 \in Modes /\ m2 \in {m1, "BRAKE"}
      /\ m2 = "HOLD" => m1 = "HOLD" /\ speed = 0
  BY <1>1 DEF Modes
<1> HIDE DEF m2
<1>4. /\ m3 \in Modes
      /\ m3 = "DRIVE" => m2 = "DRIVE"
      /\ m3 = "HOLD" => m2 = "HOLD" /\ zero
      /\ m3 = "ALIGN" => m2 = "ALIGN" \/ m2 = "HOLD"
  BY <1>3 DEF Modes
<1> HIDE DEF m3
<1>5. AtRest(d) => speed = 0 /\ d = 0
  BY DEF AtRest
<1>6. /\ m4 \in Modes
      /\ m4 = "DRIVE" => m3 = "DRIVE"
      /\ m4 = "HOLD" => m3 = "HOLD" \/ (speed = 0 /\ d = 0 /\ zero)
      /\ m4 = "ALIGN" => m3 = "ALIGN" \/ d = 0
  BY <1>4, <1>5 DEF Modes
<1> HIDE DEF m4
<1>7. QED  BY <1>1, <1>2, <1>3, <1>4, <1>6 DEF Modes

\* The zero command is a command.
LEMMA StopTyped == Stop \in [dir : Directions, speed : 0..2] /\ Stop.speed = 0
<1>1. 0 \in Directions
  BY DEF Directions
<1>2. QED  BY <1>1 DEF Stop

\* A request in force that moves is the last command.
LEMMA InForceTyped ==
  ASSUME CommandTypes
  PROVE  /\ InForce \in [dir : Directions, speed : 0..2]
         /\ InForce.speed # 0 => InForce = command
  BY StopTyped DEF InForce, CommandTypes

\* The commanded speed stays in range, and at rest.
LEMMA SpeedSteps ==
  ASSUME NEW d \in Speeds, NEW wanted \in Speeds
  PROVE  /\ Driven(d, wanted) \in Speeds
         /\ d = 0 /\ wanted = 0 => Driven(d, wanted) = 0
<1>1. d \in Int /\ wanted \in Int /\ -2 <= d /\ d <= 2 /\ -2 <= wanted /\ wanted <= 2
  BY DEF Speeds
<1>2. CASE Opposite(d, wanted)
  <2>1. d # 0
    BY <1>1, <1>2 DEF Opposite
  <2>2. Driven(d, wanted) = d - Sign(d)
    BY <1>2 DEF Driven
  <2>3. QED  BY <1>1, <2>1, <2>2 DEF Sign, Speeds
<1>3. CASE ~Opposite(d, wanted)
  <2> DEFINE t == Towards(d, wanted, 1)
  <2>1. Driven(d, wanted) = t
    BY <1>3 DEF Driven
  <2>2. /\ t \in Int
        /\ \/ t = wanted
           \/ d < wanted /\ t = d + 1 /\ t < wanted
           \/ d > wanted /\ t = d - 1 /\ t > wanted
    BY <1>1, StepTowards
  <2> HIDE DEF t
  <2>3. QED  BY <1>1, <2>1, <2>2 DEF Speeds
<1>4. QED  BY <1>2, <1>3

\* The facts of an update that the invariants rest on.
LEMMA UpdateFacts ==
  ASSUME TypeOK, Reset, Resting,
         NEW d, NEW s, NEW last, NEW target, NEW rolls, NEW m,
         Updated(d, s, last, target, rolls, m)
  PROVE  /\ d \in Speeds /\ s \in Angles /\ last \in Angles
         /\ target.angle \in Angles /\ target.speed \in Speeds
         /\ m \in Modes /\ mode' \in Modes
         /\ mode' = "DRIVE" =>
              \/ mode = "DRIVE" /\ ~MustBrake(target)
              \/ /\ mode = "ALIGN" /\ Stationary(d)
                 /\ target.angle = angle /\ target.speed # 0
         /\ mode' # "DRIVE" => mode' = m
         /\ mode' \in {"HOLD", "ALIGN"} => d = 0 /\ drive' = 0
         /\ mode' = "HOLD" => speed = 0
         /\ drive' \in Speeds
<1> USE DEF Updated
<1>1. ControllerTypes /\ WheelTypes /\ CommandTypes
  BY TypesApart
<1>2. d \in Speeds /\ s \in Angles /\ last \in Angles
  BY <1>1 DEF Used, ControllerTypes, WheelTypes
<1>3. target.angle \in Angles /\ target.speed \in Speeds
  BY <1>1, <1>2, InForceTyped, Allocated DEF WheelTypes
<1>4. mode \in Modes
  BY <1>1 DEF ControllerTypes
<1>5. m = Braked(target, d, rolls)
  OBVIOUS
<1>6. /\ m \in Modes
      /\ m = "DRIVE" => mode = "DRIVE" /\ ~MustBrake(target)
      /\ m = "HOLD" => speed = 0 /\ target.speed = 0 /\ (mode = "HOLD" \/ d = 0)
      /\ m = "ALIGN" => target.speed # 0 /\ (mode = "ALIGN" \/ (mode = "HOLD" /\ speed = 0) \/ d = 0)
  BY <1>4, <1>5, BrakedMode
<1>7. \/ mode' = "DRIVE" /\ m = "ALIGN" /\ speed = 0 /\ target.angle = angle /\ settled
      \/ mode' = m
  BY Zenon
<1>8. mode' \in Modes
  BY <1>6, <1>7 DEF Modes
<1>9. mode = "ALIGN" => d = 0
  BY DEF Used, Reset, Resting
<1>10. mode = "HOLD" /\ speed = 0 => d = 0
  BY DEF Used, Resting
<1>11. ASSUME mode' = "DRIVE", ~(mode = "DRIVE" /\ ~MustBrake(target))
       PROVE  mode = "ALIGN" /\ Stationary(d) /\ target.angle = angle /\ target.speed # 0
  <2>1. m = "ALIGN" /\ speed = 0 /\ target.angle = angle /\ settled
    BY <1>6, <1>7, <1>11
  <2>2. mode = "ALIGN"
    BY <2>1 DEF Resting
  <2>3. QED  BY <1>6, <1>9, <2>1, <2>2 DEF Stationary
<1>12. mode' \in {"HOLD", "ALIGN"} => d = 0
  BY <1>6, <1>7, <1>9, <1>10
<1>13. mode' = "HOLD" => speed = 0
  BY <1>6, <1>7
<1>14. 0 \in Speeds
  BY DEF Speeds
<1>15. \E wanted \in {target.speed, 0} : drive' = Driven(d, wanted) /\ (mode' # "DRIVE" => wanted = 0)
  BY Zenon
<1>16. drive' \in Speeds /\ (mode' \in {"HOLD", "ALIGN"} => drive' = 0)
  BY <1>2, <1>3, <1>12, <1>14, <1>15, SpeedSteps
<1>17. mode' # "DRIVE" => mode' = m
  BY <1>7
<1>18. QED  BY <1>2, <1>3, <1>6, <1>8, <1>11, <1>12, <1>13, <1>16, <1>17

\* Types after an update.
LEMMA UpdateTypes ==
  ASSUME TypeOK, Reset, Resting, Update
  PROVE  ControllerTypes' /\ WheelTypes' /\ CommandTypes'
<1>0. ControllerTypes /\ WheelTypes /\ CommandTypes
  BY TypesApart
<1>1. PICK d, s, last, target, rolls, m : Updated(d, s, last, target, rolls, m)
  BY UpdateNamed
<1>2. fresh' = FALSE /\ UNCHANGED <<command, valid, feedback, wheelVars>>
  BY UpdateNamed
<1>3. /\ s \in Angles /\ target.angle \in Angles /\ mode' \in Modes /\ drive' \in Speeds
  BY <1>1, UpdateFacts
<1>4. Towards(s, target.angle, 15) \in Angles
  BY <1>3, StepOnGrid
<1>5. steer' \in Angles
  BY <1>1, <1>3, <1>4, Zenon DEF Updated
<1>6. turning' \in -1..1
  <2>1. turning' = Sign(steer' - s)
    BY <1>1, Zenon DEF Updated
  <2>2. steer' \in Int /\ s \in Int
    BY <1>3, <1>5, AnglesAreIntegers
  <2>3. QED  BY <2>1, <2>2 DEF Sign
<1>7. previous' \in Angles /\ shown' \in Modes /\ settled' \in BOOLEAN
  BY <1>1, <1>3, Zenon DEF Updated
<1>8. unwinding' \in BOOLEAN
  BY <1>0, <1>1, Zenon DEF Updated, LimitApproach, ControllerTypes
<1>9. ControllerTypes'
  BY <1>2, <1>3, <1>5, <1>6, <1>7, <1>8, Zenon DEF ControllerTypes
<1>10. QED  BY <1>0, <1>2, <1>9 DEF WheelTypes, CommandTypes, wheelVars

\* An update that shows HOLD shows it of a vehicle at rest.
LEMMA UpdateRests ==
  ASSUME TypeOK, Reset, Resting, Update
  PROVE  Reset' /\ Resting' /\ (shown' = "HOLD" => speed = 0 /\ drive' = 0)
<1>1. PICK d, s, last, target, rolls, m : Updated(d, s, last, target, rolls, m)
  BY UpdateNamed
<1>2. fresh' = FALSE
  BY UpdateNamed
<1>3. /\ mode' \in {"HOLD", "ALIGN"} => drive' = 0
      /\ mode' = "HOLD" => speed = 0
  BY <1>1, UpdateFacts
<1>4. shown' = mode' /\ (settled' => mode' = "ALIGN")
  BY <1>1, Zenon DEF Updated
<1>5. QED  BY <1>2, <1>3, <1>4 DEF Reset, Resting

\* An update moves the commanded angle on its side of the range.
LEMMA UpdateLag ==
  ASSUME TypeOK, Reset, Resting, Lag, Update
  PROVE  Lag'
<1>0. ControllerTypes /\ WheelTypes /\ CommandTypes
  BY TypesApart
<1>1. PICK d, s, last, target, rolls, m : Updated(d, s, last, target, rolls, m)
  BY UpdateNamed
<1>2. angle' = angle
  BY UpdateNamed DEF wheelVars
<1>3. /\ s \in Angles /\ last \in Angles /\ target.angle \in Angles
  BY <1>1, UpdateFacts
<1>4. s \in Int /\ target.angle \in Int /\ angle \in Int /\ steer \in Int
  <2>1. angle \in Angles /\ steer \in Angles
    BY <1>0 DEF ControllerTypes, WheelTypes
  <2>2. \A a \in Angles : a \in Int
    BY AnglesAreIntegers
  <2>3. QED  BY <1>3, <2>1, <2>2, Zenon
<1>5. /\ angle <= -90 => target.angle <= 0
      /\ angle >= -90 => target.angle >= -180
  <2>1. InForce \in [dir : Directions, speed : 0..2] /\ angle \in Angles
    BY <1>0, InForceTyped DEF WheelTypes
  <2>2. target \in Allocate(InForce, angle, last, unwinding /\ Stationary(d), Stationary(d))
    BY <1>1, Zenon DEF Updated
  <2>3. QED  BY <1>3, <2>1, <2>2, KeepsItsSide
<1>6. /\ angle <= -90 => s <= 0
      /\ angle >= -90 => s >= -180
  <2>1. s = angle \/ s = steer
    BY <1>1, Zenon DEF Updated, Used
  <2>2. QED  BY <1>4, <2>1 DEF Lag
<1>7. \/ steer' = s \/ steer' = target.angle
      \/ s < steer' /\ steer' < target.angle /\ steer' \in Int
      \/ target.angle < steer' /\ steer' < s /\ steer' \in Int
  <2>1. steer' = s \/ steer' = Towards(s, target.angle, 15)
    BY <1>1, Zenon DEF Updated
  <2> DEFINE t == Towards(s, target.angle, 15)
  <2>2. t \in Int /\ \/ t = target.angle
                     \/ s < target.angle /\ t = s + 15 /\ t < target.angle
                     \/ s > target.angle /\ t = s - 15 /\ t > target.angle
    BY <1>4, StepTowards
  <2> HIDE DEF t
  <2>3. steer' = s \/ steer' = t
    BY <2>1 DEF t
  <2>4. QED  BY <1>4, <2>2, <2>3
<1>8. QED  BY <1>2, <1>4, <1>5, <1>6, <1>7, SMT DEF Lag

\* The directions a tracker's request has.
LEMMA ToldDirections ==
  ASSUME TypeOK, OnAxis, Told, pilot = "tracker", command.speed # 0
  PROVE  /\ axis \in {90, -90} => command.dir \in Across
         /\ axis \notin {90, -90} => command.dir \notin {90, -90}
         /\ axis \in {90, -90} /\ ~moved => command.dir \in {90, -90}
<1>1. axis \in Axes
  BY DEF OnAxis
<1>2. command.dir = axis \/ (moved /\ command.dir \in {Wrapped(axis - 15), Wrapped(axis + 15)})
  BY DEF Told
<1>3. axis \in {90, -90} => {Wrapped(axis - 15), Wrapped(axis + 15)} \subseteq Across /\ axis \in Across
  BY SMT DEF Wrapped, Across
<1>4. axis \notin {90, -90} =>
        axis # 90 /\ axis # -90
        /\ Wrapped(axis - 15) \notin {90, -90} /\ Wrapped(axis + 15) \notin {90, -90}
  BY <1>1, SMT DEF Wrapped, Axes
<1>5. axis \in {90, -90} => command.dir \in Across
  BY <1>2, <1>3
<1>6. axis \notin {90, -90} => command.dir \notin {90, -90}
  BY <1>2, <1>4
<1>7. QED  BY <1>2, <1>5, <1>6

\* An update keeps the branch of a segment.
LEMMA UpdateBranch ==
  ASSUME TypeOK, BranchInv, Update, pilot = "tracker"
  PROVE  /\ ~unwinding'
         /\ mode' = "DRIVE" => Clear(angle) /\ Clear(steer')
         /\ axis \in {90, -90} /\ (moved \/ mode' = "DRIVE") =>
              Middle(angle) /\ Middle(steer') /\ Middle(previous')
<1>0. ControllerTypes /\ WheelTypes /\ CommandTypes
  BY TypesApart
<1>1. PICK d, s, last, target, rolls, m : Updated(d, s, last, target, rolls, m)
  BY UpdateNamed
<1> DEFINE branches == Branches(InForce.dir, unwinding /\ Stationary(d), Stationary(d))
<1>2. /\ d \in Speeds /\ s \in Angles /\ last \in Angles
      /\ target.angle \in Angles
      /\ mode' = "DRIVE" =>
           \/ mode = "DRIVE" /\ ~MustBrake(target)
           \/ mode = "ALIGN" /\ Stationary(d) /\ target.angle = angle /\ target.speed # 0
  BY <1>1, UpdateFacts DEF BranchInv
<1>3. angle \in Angles /\ steer \in Angles /\ previous \in Angles
  BY <1>0 DEF ControllerTypes, WheelTypes
<1>4. /\ s \in Int /\ last \in Int /\ target.angle \in Int
      /\ angle \in Int /\ steer \in Int /\ previous \in Int
  <2>1. \A a \in Angles : a \in Int
    BY AnglesAreIntegers
  <2>2. QED  BY <1>2, <1>3, <2>1, Zenon
<1>5. InForce \in [dir : Directions, speed : 0..2] /\ (InForce.speed # 0 => InForce = command)
  BY <1>0, InForceTyped
<1>6. target \in Allocate(InForce, angle, last, unwinding /\ Stationary(d), Stationary(d))
  BY <1>1, Zenon DEF Updated
<1>7. /\ branches \subseteq Angles
      /\ \/ target.angle = angle /\ target.speed = 0
         \/ InForce.speed # 0 /\ target.angle \in branches
  BY <1>2, <1>3, <1>5, <1>6, Allocated
<1>8. InForce.speed # 0 =>
        /\ axis \in {90, -90} => InForce.dir \in Across
        /\ axis \notin {90, -90} => InForce.dir \notin {90, -90}
        /\ axis \in {90, -90} /\ ~moved => InForce.dir \in {90, -90}
  BY <1>5, ToldDirections DEF BranchInv
<1>9. \/ s = angle /\ last = angle /\ mode = "HOLD"
      \/ s = steer /\ last = previous
  BY <1>1, Zenon DEF Updated, Used, BranchInv, Reset
<1>10. /\ steer' \in Int
       /\ \/ steer' = s /\ mode' # "DRIVE"
          \/ steer' = target.angle
          \/ s < target.angle /\ steer' = s + 15 /\ steer' < target.angle
          \/ s > target.angle /\ steer' = s - 15 /\ steer' > target.angle
  <2>1. steer' = IF mode' \in {"ALIGN", "DRIVE"} THEN Towards(s, target.angle, 15) ELSE s
    BY <1>1, Zenon DEF Updated
  <2> DEFINE t == Towards(s, target.angle, 15)
  <2>2. t \in Int /\ \/ t = target.angle
                     \/ s < target.angle /\ t = s + 15 /\ t < target.angle
                     \/ s > target.angle /\ t = s - 15 /\ t > target.angle
    BY <1>4, StepTowards
  <2> HIDE DEF t
  <2>3. (steer' = s /\ mode' # "DRIVE") \/ steer' = t
    BY <2>1 DEF t
  <2>4. QED  BY <1>4, <2>2, <2>3
<1>11. CASE mode = "DRIVE"
  <2>1. Clear(angle) /\ Clear(steer) /\ (axis \in {90, -90} => Middle(angle) /\ Middle(steer) /\ Middle(previous))
    BY <1>11 DEF BranchInv, Inner, Sideways
  <2>2. s = steer /\ last = previous
    BY <1>9, <1>11
  <2>3. axis \in {90, -90} => Middle(target.angle)
    BY <1>2, <1>3, <1>5, <1>6, <1>8, <2>1, <2>2, StaysAcross DEF Middle
  <2>4. mode' = "DRIVE" => Clear(target.angle)
    <3> SUFFICES ASSUME mode' = "DRIVE" PROVE Clear(target.angle)
      OBVIOUS
    <3>1. target.speed # 0
      BY <1>2, <1>11 DEF MustBrake
    <3>2. InForce.speed # 0 /\ target.angle \in branches
      BY <1>7, <3>1
    <3>3. CASE axis \in {90, -90}
      BY <1>4, <2>3, <3>3 DEF Middle, Clear
    <3>4. CASE axis \notin {90, -90}
      BY <1>5, <1>8, <3>2, <3>4, NotAtALimit DEF Clear
    <3>5. QED  BY <3>3, <3>4
  <2>5. mode' = "DRIVE" => Clear(steer')
    BY <1>4, <1>10, <2>1, <2>2, <2>4, SMT DEF Clear
  <2>6. axis \in {90, -90} => Middle(steer')
    BY <1>4, <1>10, <2>1, <2>2, <2>3, SMT DEF Middle
  <2>7. ~LimitApproach(target)
    <3>1. \A direction : \A at \in Int : Clear(at) => ~Nearing(direction, at)
      BY SMT DEF Clear, Nearing, SoftUpper, SoftLower
    <3>2. QED  BY <1>4, <2>1, <3>1, Zenon DEF LimitApproach
  <2>8. ~unwinding'
    BY <1>1, <2>7, Zenon DEF Updated, BranchInv, SegmentsKeepTheirBranch
  <2>9. previous' = target.angle
    BY <1>1, Zenon DEF Updated
  <2>10. QED  BY <2>1, <2>3, <2>5, <2>6, <2>8, <2>9
<1>12. CASE mode # "DRIVE"
  <2>1. ~unwinding'
    BY <1>1, <1>12, Zenon DEF Updated, BranchInv, SegmentsKeepTheirBranch
  <2>2. previous' = target.angle
    BY <1>1, Zenon DEF Updated
  <2>3. ASSUME mode' = "DRIVE"
        PROVE  /\ target.angle = angle /\ s = steer /\ Clear(angle)
               /\ InForce.speed # 0 /\ (InForce.dir \in {-90, 90} => angle = -90)
    <3>1. mode = "ALIGN" /\ Stationary(d) /\ target.angle = angle /\ target.speed # 0
      BY <1>2, <1>12, <2>3
    <3>2. InForce.speed # 0 /\ target.angle \in branches
      BY <1>7, <3>1
    <3>3. Stationary(d) => /\ -255 <= angle /\ angle <= 75
                           /\ InForce.dir \in {-90, 90} => angle = -90
      <4>1. InForce.dir \in Directions
        BY <1>5
      <4>2. angle \in branches
        BY <3>1, <3>2
      <4>3. QED  BY <4>1, <4>2, NotAtALimitAtRest
    <3>4. s = steer
      BY <1>9, <3>1
    <3>5. QED  BY <3>1, <3>2, <3>3, <3>4 DEF Clear
  <2>4. mode' = "DRIVE" => Clear(steer')
    <3>1. -270 <= steer /\ steer <= 90
      BY <1>3, AnglesAreIntegers
    <3>2. QED  BY <1>4, <1>10, <2>3, <3>1, SMT DEF Clear
  <2>5. CASE axis \in {90, -90} /\ moved
    <3>1. Middle(angle) /\ Middle(steer) /\ Middle(previous)
      BY <2>5 DEF BranchInv, Sideways
    <3>2. Middle(s) /\ Middle(last)
      BY <1>9, <3>1
    <3>3. Middle(target.angle)
      BY <1>2, <1>3, <1>5, <1>6, <1>8, <2>5, <3>1, <3>2, StaysAcross DEF Middle
    <3>4. Middle(steer')
      BY <1>4, <1>10, <3>2, <3>3, SMT DEF Middle
    <3>5. QED  BY <2>1, <2>2, <2>3, <2>4, <3>1, <3>3, <3>4
  <2>6. CASE axis \in {90, -90} /\ ~moved /\ mode' = "DRIVE"
    <3>1. angle = -90 /\ target.angle = -90 /\ s = steer
      BY <1>8, <2>3, <2>6
    <3>2. -180 <= steer /\ steer <= 0
      BY <3>1 DEF BranchInv, Lag
    <3>3. Middle(steer')
      BY <1>4, <1>10, <2>6, <3>1, <3>2, SMT DEF Middle
    <3>4. QED  BY <2>1, <2>2, <2>3, <2>4, <3>1, <3>3 DEF Middle
  <2>7. QED  BY <2>1, <2>3, <2>4, <2>5, <2>6
<1>13. QED  BY <1>11, <1>12

-----------------------------------------------------------------------------
(* The tracker *)

\* Directions are closed under turns on the grid.
LEMMA WrappedOnGrid ==
  ASSUME NEW d \in Directions, NEW n \in -12..12
  PROVE  Wrapped(d + 15 * n) \in Directions
<1>1. PICK i \in -11..12 : d = 15 * i
  BY DEF Directions
<1>2. CASE i + n > 12
  <2>1. Wrapped(d + 15 * n) = 15 * (i + n - 24) /\ i + n - 24 \in -11..12
    BY <1>1, <1>2, SMT DEF Wrapped
  <2>2. QED  BY <2>1 DEF Directions
<1>3. CASE i + n <= -12
  <2>1. Wrapped(d + 15 * n) = 15 * (i + n + 24) /\ i + n + 24 \in -11..12
    BY <1>1, <1>3, SMT DEF Wrapped
  <2>2. QED  BY <2>1 DEF Directions
<1>4. CASE ~(i + n > 12) /\ ~(i + n <= -12)
  <2>1. Wrapped(d + 15 * n) = 15 * (i + n) /\ i + n \in -11..12
    BY <1>1, <1>4, SMT DEF Wrapped
  <2>2. QED  BY <2>1 DEF Directions
<1>5. QED  BY <1>2, <1>3, <1>4

\* Corrections stay on the axes.
LEMMA AxesClosed ==
  /\ Axes \subseteq Directions
  /\ {0, 90, SpinAxis, Wrapped(SpinAxis + 180)} \subseteq Axes
  /\ \A a \in Axes : Wrapped(a + 180) \in Axes /\ Wrapped(a + 90) \in Axes /\ Wrapped(a + 0) = a
<1>1. \A a \in Axes : a \in Int /\ a = 15 * (a \div 15) /\ a \div 15 \in -11..12
  BY SMT DEF Axes
<1>2. Axes \subseteq Directions
  BY <1>1 DEF Directions
<1>3. QED  BY <1>2, SMT DEF Axes, SpinAxis, Wrapped

\* Max and Min of two.
LEMMA OfTwo ==
  ASSUME NEW a \in Int, NEW b \in Int
  PROVE  /\ Max({a, b}) = IF a >= b THEN a ELSE b
         /\ Min({a, b}) = IF a <= b THEN a ELSE b
<1>1. Max({a, b}) = IF a >= b THEN a ELSE b
  <2> DEFINE m == IF a >= b THEN a ELSE b
  <2>1. m \in {a, b} /\ \A x \in {a, b} : m >= x
    OBVIOUS
  <2>2. \A y \in {a, b} : (\A x \in {a, b} : y >= x) => y = m
    OBVIOUS
  <2> HIDE DEF m
  <2>3. Max({a, b}) = m
    BY <2>1, <2>2 DEF Max
  <2>4. QED  BY <2>3 DEF m
<1>2. Min({a, b}) = IF a <= b THEN a ELSE b
  <2> DEFINE m == IF a <= b THEN a ELSE b
  <2>1. m \in {a, b} /\ \A x \in {a, b} : m <= x
    OBVIOUS
  <2>2. \A y \in {a, b} : (\A x \in {a, b} : y <= x) => y = m
    OBVIOUS
  <2> HIDE DEF m
  <2>3. Min({a, b}) = m
    BY <2>1, <2>2 DEF Min
  <2>4. QED  BY <2>3 DEF m
<1>3. QED  BY <1>1, <1>2

\* What Follow asks for is a command near the axis.
LEMMA AskedTyped ==
  ASSUME axis \in Directions, NEW remaining \in Int, NEW d \in {-15, 0, 15}, NEW v \in {0, 1, 2}
  PROVE  /\ Asked(remaining, d, v) \in [dir : Directions, speed : 0..2]
         /\ Asked(remaining, d, v).dir \in {axis, Wrapped(axis - 15), Wrapped(axis + 15)}
<1>1. Wrapped(axis + d) \in Directions /\ Wrapped(axis + d) \in {axis, Wrapped(axis - 15), Wrapped(axis + 15)}
  <2>1. PICK n \in -1..1 : d = 15 * n
    <3>1. \E n \in -1..1 : d = 15 * n
      OBVIOUS
    <3>2. QED  BY <3>1
  <2>2. Wrapped(axis + d) \in Directions
    <3>1. n \in -12..12
      OBVIOUS
    <3>2. Wrapped(axis + 15 * n) \in Directions
      BY <3>1, WrappedOnGrid, Zenon
    <3>3. QED  BY <2>1, <3>2, Zenon
  <2>3. axis \in Int /\ -165 <= axis /\ axis <= 180
    BY DEF Directions
  <2>4. axis + 0 = axis /\ axis + (-15) = axis - 15
    BY <2>3
  <2>5. Wrapped(axis) = axis
    BY <2>3 DEF Wrapped
  <2>6. QED  BY <2>2, <2>4, <2>5
<1>2. Min({v, 1}) \in {0, 1, 2}
  BY OfTwo
<1> DEFINE w == IF remaining <= 1 \/ kind = "rotate" THEN Min({v, 1}) ELSE v
<1>3. w \in {0, 1, 2}
  BY <1>2
<1> HIDE DEF w
<1>4. Creeping(w) \in 0..2
  BY <1>3 DEF Creeping
<1>5. Asked(remaining, d, v) = [dir |-> Wrapped(axis + d), speed |-> Creeping(w)]
  BY DEF Asked, w
<1>6. QED  BY <1>1, <1>4, <1>5

\* What a step of the tracker leaves of the axis and of what was asked for.
TrackerKeeps ==
  /\ UNCHANGED <<trackedDrive, pilot, steady>>
  /\ TrackerTypes' /\ CommandTypes'
  /\ OnAxis' /\ Told'
  /\ \/ axis' = axis /\ moved' = moved
     \/ moved' = FALSE /\ mode # "DRIVE"
     \/ axis' = axis /\ mode = "DRIVE"

\* A segment begins at HOLD, with nothing asked for yet.
LEMMA BeginKeeps ==
  ASSUME TypeOK, BranchInv, Begin
  PROVE  TrackerKeeps
<1>0. TrackerTypes /\ CommandTypes
  BY TypesApart
<1>1. PICK a \in {0, 90, SpinAxis} :
        /\ axis' = a /\ kind' = (IF a = SpinAxis THEN "rotate" ELSE "translate")
        /\ forwardOnly' \in {FALSE, a = 0}
  BY Zenon DEF Begin
<1>2. /\ pilot = "tracker" /\ state \in {"none", "COMPLETED"} /\ shown = "HOLD"
      /\ state' = "ALIGNING" /\ moved' = FALSE /\ probed' = FALSE
      /\ left' = Length /\ togo' = Length /\ trims' = 0
      /\ UNCHANGED <<driveVars, pilot, steady>>
  BY Zenon DEF Begin
<1>3. a \in Axes /\ a \in Directions
  BY AxesClosed
<1>4. mode # "DRIVE"
  BY <1>2 DEF BranchInv, Reset
<1>5. kind' \in {"translate", "rotate"} /\ forwardOnly' \in BOOLEAN
  BY <1>1, Zenon
<1>6. Length \in 0..Length /\ Length \in -1..Length /\ 0 \in 0..MaxTrims
  BY LengthsAssumption
<1>7. TrackerTypes'
  BY <1>0, <1>1, <1>2, <1>3, <1>5, <1>6 DEF TrackerTypes, Active
<1>8. command.speed = 0
  BY <1>2 DEF BranchInv, Told, Active
<1>9. Told' /\ OnAxis' /\ CommandTypes'
  BY <1>0, <1>1, <1>2, <1>3, <1>8 DEF Told, OnAxis, CommandTypes, driveVars, controllerVars, wheelVars
<1>10. QED
  BY <1>2, <1>4, <1>7, <1>9 DEF TrackerKeeps, trackedDrive, driveVars

\* A step that asks for nothing.
LEMMA StopKeeps ==
  ASSUME TypeOK, BranchInv, Command(Stop), UNCHANGED <<trackedDrive, pilot, steady>>,
         TrackerTypes', OnAxis',
         (axis' = axis /\ moved' = moved) \/ (moved' = FALSE /\ mode # "DRIVE") \/ (axis' = axis /\ mode = "DRIVE")
  PROVE  TrackerKeeps
<1>1. command' = Stop /\ valid' = TRUE /\ feedback' = feedback
  BY DEF Command, trackedDrive
<1>2. CommandTypes'
  BY <1>1, StopTyped, TypesApart DEF CommandTypes
<1>3. Told'
  BY <1>1, StopTyped DEF Told
<1>4. QED  BY <1>2, <1>3 DEF TrackerKeeps

\* At the end of the profile zero is asked for.
LEMMA StoppingKeeps ==
  ASSUME TypeOK, BranchInv, Stopping
  PROVE  TrackerKeeps
<1>0. TrackerTypes
  BY TypesApart
<1>1. /\ Command(Stop) /\ state' \in {"STOPPING", "COMPLETED"}
      /\ UNCHANGED <<trackedDrive, pilot, steady, axis, kind, moved, probed, left, togo, trims, forwardOnly>>
  BY DEF Stopping
<1>2. TrackerTypes'
  BY <1>0, <1>1 DEF TrackerTypes, Active
<1>3. OnAxis'
  BY <1>1 DEF OnAxis, BranchInv
<1>4. QED  BY <1>1, <1>2, <1>3, StopKeeps

\* A faulted segment asks for zero.
LEMMA FaultKeeps ==
  ASSUME TypeOK, BranchInv, Fault
  PROVE  TrackerKeeps
<1>0. TrackerTypes
  BY TypesApart
<1>1. /\ Command(Stop) /\ state' = "FAULT"
      /\ UNCHANGED <<trackedDrive, pilot, steady, axis, kind, moved, probed, left, togo, trims, forwardOnly>>
  BY DEF Fault
<1>2. TrackerTypes'
  BY <1>0, <1>1 DEF TrackerTypes, Active
<1>3. OnAxis'
  BY <1>1 DEF OnAxis, BranchInv
<1>4. QED  BY <1>1, <1>2, <1>3, StopKeeps

\* Without a segment zero is asked for.
LEMMA StandingKeeps ==
  ASSUME TypeOK, BranchInv, Standing
  PROVE  TrackerKeeps
<1>0. TrackerTypes
  BY TypesApart
<1>1. Command(Stop) /\ UNCHANGED <<trackedDrive, pilot, steady, trackerVars>>
  BY DEF Standing
<1>2. TrackerTypes'
  BY <1>0, <1>1 DEF TrackerTypes, trackerVars
<1>3. OnAxis'
  BY <1>1 DEF OnAxis, BranchInv, trackerVars
<1>4. QED  BY <1>1, <1>2, <1>3, StopKeeps DEF trackerVars

\* A correction starts at HOLD, on one of the axes.
LEMMA StartTrimKeeps ==
  ASSUME TypeOK, BranchInv, StartTrim
  PROVE  TrackerKeeps
<1>0. TrackerTypes
  BY TypesApart
<1>1. /\ state = "STOPPING" /\ Stopped /\ Command(Stop)
      /\ UNCHANGED <<trackedDrive, pilot, steady, forwardOnly>>
  BY DEF StartTrim
<1>2. mode # "DRIVE"
  BY <1>1 DEF BranchInv, Reset, Stopped
<1>3. PICK a \in {axis, Wrapped(axis + 180), Wrapped(axis + 90), SpinAxis, Wrapped(SpinAxis + 180)} :
       \/ trims >= MaxTrims /\ state' = "FAULT" /\ UNCHANGED <<axis, kind, moved, probed, left, togo, trims>>
       \/ /\ trims < MaxTrims /\ trims' = NextTrim
          /\ IF forwardOnly /\ a = 180
             THEN state' = "FAULT" /\ UNCHANGED <<axis, kind, moved, probed, left, togo>>
             ELSE /\ axis' = a
                  /\ kind' = IF a \in {SpinAxis, Wrapped(SpinAxis + 180)} THEN "rotate" ELSE "translate"
                  /\ left' = 1 /\ togo' = 1
                  /\ moved' = FALSE /\ probed' = FALSE
                  /\ state' = "ALIGNING"
  BY Zenon DEF StartTrim
<1>4. trims \in 0..MaxTrims /\ (trims < MaxTrims => NextTrim \in 0..MaxTrims)
  BY <1>0, LengthsAssumption DEF TrackerTypes, NextTrim
<1>5. a \in Directions
  <2>1. axis \in Directions
    BY <1>0 DEF TrackerTypes
  <2>2. Wrapped(axis + 15 * 12) \in Directions /\ Wrapped(axis + 15 * 6) \in Directions
    BY <2>1, WrappedOnGrid
  <2>3. 15 * 12 = 180 /\ 15 * 6 = 90
    OBVIOUS
  <2>4. SpinAxis \in Directions /\ Wrapped(SpinAxis + 180) \in Directions
    BY AxesClosed
  <2>5. QED  BY <2>1, <2>2, <2>3, <2>4, <1>3, SMT
<1>6. pilot = "tracker" => a \in Axes
  BY <1>3, AxesClosed DEF BranchInv, OnAxis
<1>7. \/ UNCHANGED <<axis, kind, moved, probed, left, togo>> /\ state' = "FAULT"
      \/ /\ axis' = a /\ kind' \in {"translate", "rotate"} /\ left' = 1 /\ togo' = 1
         /\ moved' = FALSE /\ probed' = FALSE /\ state' = "ALIGNING"
  BY <1>3
<1>8. trims' \in 0..MaxTrims
  BY <1>3, <1>4
<1>9. 1 \in 0..Length /\ 1 \in -1..Length
  BY LengthsAssumption
<1>10. TrackerTypes'
  <2>1. CASE UNCHANGED <<axis, kind, moved, probed, left, togo>> /\ state' = "FAULT"
    BY <1>0, <1>1, <1>8, <2>1 DEF TrackerTypes
  <2>2. CASE /\ axis' = a /\ kind' \in {"translate", "rotate"} /\ left' = 1 /\ togo' = 1
             /\ moved' = FALSE /\ probed' = FALSE /\ state' = "ALIGNING"
    BY <1>0, <1>1, <1>5, <1>8, <1>9, <2>2 DEF TrackerTypes, Active
  <2>3. QED  BY <1>7, <2>1, <2>2
<1>11. OnAxis'
  BY <1>1, <1>6, <1>7 DEF OnAxis, BranchInv
<1>12. QED  BY <1>1, <1>2, <1>7, <1>10, <1>11, StopKeeps

\* A segment that waits asks for its axis, or for what it last asked for.
LEMMA WaitKeeps ==
  ASSUME TypeOK, BranchInv, Wait
  PROVE  TrackerKeeps
<1>0. TrackerTypes /\ CommandTypes
  BY TypesApart
<1>1. /\ state' = "ALIGNING" /\ valid' = TRUE
      /\ command' = (IF moved \/ probed THEN command ELSE [dir |-> axis, speed |-> 1])
      /\ probed' = (probed \/ ~moved)
      /\ UNCHANGED <<trackedDrive, pilot, steady, axis, kind, moved, left, togo, trims, forwardOnly>>
  BY Zenon DEF Wait, Command
<1>2. TrackerTypes'
  BY <1>0, <1>1 DEF TrackerTypes, Active
<1>3. CommandTypes'
  BY <1>0, <1>1 DEF CommandTypes, TrackerTypes, trackedDrive
<1>4. Told'
  <2>1. CASE moved \/ probed
    BY <1>1, <2>1 DEF Told, BranchInv, Active
  <2>2. CASE ~(moved \/ probed)
    <3>1. command' = [dir |-> axis, speed |-> 1] /\ axis' = axis /\ state' = "ALIGNING"
      BY <1>1, <2>2
    <3>2. command'.dir = axis'
      BY <3>1
    <3>3. QED  BY <3>1, <3>2 DEF Told, Active
  <2>3. QED  BY <2>1, <2>2
<1>5. OnAxis'
  BY <1>1 DEF OnAxis, BranchInv
<1>6. QED  BY <1>1, <1>2, <1>3, <1>4, <1>5 DEF TrackerKeeps

\* A segment that is driven asks for its axis or a grid step beside it.
LEMMA FollowKeeps ==
  ASSUME TypeOK, BranchInv, Follow
  PROVE  TrackerKeeps
<1>0. TrackerTypes /\ CommandTypes
  BY TypesApart
<1>1. /\ shown = "DRIVE" /\ moved' = TRUE
      /\ UNCHANGED <<trackedDrive, pilot, steady, axis, kind, probed, togo, trims, forwardOnly>>
  BY DEF Follow
<1>2. mode = "DRIVE"
  BY <1>1 DEF BranchInv, Reset
<1>3. PICK l \in (IF state = "ALIGNING" /\ moved THEN {Max({togo, 0})} ELSE {left}), step \in {0, 1} :
       /\ left' = Max({l - step, 0})
       /\ \/ left' - togo \in -1..1 /\ state' = "RUNNING"
             /\ \E d \in (IF kind = "rotate" THEN {0} ELSE {-15, 0, 15}), v \in {0, 1, 2} :
                  Command(Asked(Max({togo, 0}), d, v))
          \/ left' - togo \notin -1..1 /\ state' = "FAULT" /\ Command(Stop)
  BY Zenon DEF Follow
<1>4. left \in 0..Length /\ togo \in -1..Length /\ Length \in Nat
  BY <1>0, LengthsAssumption DEF TrackerTypes
<1>5. Max({togo, 0}) \in 0..Length
  BY <1>4, OfTwo
<1>6. l \in 0..Length
  BY <1>3, <1>4, <1>5
<1>7. left' \in 0..Length
  <2>1. l - step \in Int /\ l - step <= Length
    BY <1>4, <1>6
  <2>2. Max({l - step, 0}) = IF l - step >= 0 THEN l - step ELSE 0
    BY <2>1, OfTwo
  <2>3. QED  BY <1>3, <1>4, <2>1, <2>2
<1>8. state' \in {"RUNNING", "FAULT"}
  BY <1>3
<1>9. TrackerTypes'
  BY <1>0, <1>1, <1>7, <1>8 DEF TrackerTypes, Active
<1>10. OnAxis'
  BY <1>1 DEF OnAxis, BranchInv
<1>11. CASE state' = "RUNNING"
  <2>1. PICK d \in {-15, 0, 15}, v \in {0, 1, 2} : Command(Asked(Max({togo, 0}), d, v))
    BY <1>3, <1>11
  <2> DEFINE asked == Asked(Max({togo, 0}), d, v)
  <2>2. /\ asked \in [dir : Directions, speed : 0..2]
        /\ asked.dir \in {axis, Wrapped(axis - 15), Wrapped(axis + 15)}
    <3>1. axis \in Directions /\ Max({togo, 0}) \in Int
      BY <1>0, <1>5 DEF TrackerTypes
    <3>2. QED  BY <3>1, AskedTyped
  <2>3. command' = asked /\ valid' = TRUE
    BY <2>1 DEF Command
  <2> HIDE DEF asked
  <2>4. CommandTypes'
    BY <1>0, <1>1, <2>2, <2>3 DEF CommandTypes, trackedDrive
  <2>5. Told'
    BY <1>1, <1>11, <2>2, <2>3 DEF Told, Active
  <2>6. QED  BY <1>1, <1>2, <1>9, <1>10, <2>4, <2>5 DEF TrackerKeeps
<1>12. CASE state' = "FAULT"
  <2>1. Command(Stop)
    BY <1>3, <1>12
  <2>2. QED  BY <1>1, <1>2, <1>9, <1>10, <2>1, StopKeeps
<1>13. QED  BY <1>8, <1>11, <1>12

-----------------------------------------------------------------------------
(* The theorems *)

\* The tracker does not touch the controller.
LEMMA TrackerStep ==
  ASSUME TypeOK, BranchInv, Tracker
  PROVE  TypeOK' /\ BranchInv'
<1>0. ControllerTypes /\ WheelTypes /\ CommandTypes /\ TrackerTypes
  BY TypesApart
<1>1. TrackerKeeps
  BY BeginKeeps, StoppingKeeps, StartTrimKeeps, WaitKeeps, FollowKeeps, FaultKeeps, StandingKeeps DEF Tracker
<1>2. /\ UNCHANGED <<mode, unwinding, previous, steer, turning, drive, settled, fresh, shown>>
      /\ UNCHANGED <<feedback, angle, speed, pilot>>
  BY <1>1 DEF TrackerKeeps, trackedDrive, controllerVars, wheelVars
<1>3. ControllerTypes' /\ WheelTypes'
  BY <1>0, <1>2 DEF ControllerTypes, WheelTypes
<1>4. Reset' /\ Resting' /\ Lag' /\ Inner' /\ SegmentsKeepTheirBranch'
  BY <1>2 DEF BranchInv, Reset, Resting, Lag, Inner, Clear, SegmentsKeepTheirBranch
<1>5. Sideways'
  <2>1. CASE axis' = axis /\ (moved' = moved \/ mode = "DRIVE")
    BY <1>2, <2>1 DEF BranchInv, Sideways, Middle
  <2>2. CASE moved' = FALSE /\ mode # "DRIVE"
    BY <1>2, <2>2 DEF Sideways
  <2>3. QED  BY <1>1, <2>1, <2>2 DEF TrackerKeeps
<1>6. QED  BY <1>1, <1>3, <1>4, <1>5, TypesApart DEF TrackerKeeps, BranchInv

\* Nor does a hand, and the tracker does not share the vehicle with one.
LEMMA HandStep ==
  ASSUME TypeOK, BranchInv, Hand \/ Steady \/ Travel
  PROVE  TypeOK' /\ BranchInv'
<1>0. ControllerTypes /\ WheelTypes /\ CommandTypes /\ TrackerTypes
  BY TypesApart
<1>1. CASE Hand
  <2>1. PICK d \in ByHand, s \in {0, 1} : Command([dir |-> d, speed |-> s])
    BY <1>1 DEF Hand
  <2>2. pilot = "hand" /\ UNCHANGED <<trackedDrive, pilot, steady, trackerVars>>
    BY <1>1 DEF Hand
  <2>3. d \in Directions /\ s \in 0..2
    BY HandAssumption
  <2>4. [dir |-> d, speed |-> s] \in [dir : Directions, speed : 0..2]
    BY <2>3
  <2>5. CommandTypes'
    BY <1>0, <2>1, <2>2, <2>4, Zenon DEF Command, CommandTypes, trackedDrive
  <2>6. ControllerTypes' /\ WheelTypes' /\ TrackerTypes'
    BY <1>0, <2>2 DEF ControllerTypes, WheelTypes, TrackerTypes, trackedDrive, controllerVars, wheelVars, trackerVars
  <2>7. pilot' # "tracker"
    BY <2>2
  <2>8. Reset' /\ Resting' /\ Lag'
    BY <2>2 DEF BranchInv, Reset, Resting, Lag, trackedDrive, controllerVars, wheelVars
  <2>9. QED
    BY <2>5, <2>6, <2>7, <2>8, TypesApart
    DEF BranchInv, OnAxis, Told, Sideways, Inner, SegmentsKeepTheirBranch
<1>2. CASE Steady
  <2>1. steady' = TRUE /\ UNCHANGED <<driveVars, pilot, trackerVars>>
    BY <1>2 DEF Steady
  <2>2. TypeOK'
    BY <1>0, <2>1, TypesApart
    DEF ControllerTypes, WheelTypes, CommandTypes, TrackerTypes, driveVars, controllerVars, wheelVars, trackerVars
  <2>3. BranchInv'
    BY <2>1
    DEF BranchInv, OnAxis, Reset, Resting, Lag, Told, Sideways, Inner, SegmentsKeepTheirBranch, Middle, Clear,
        driveVars, controllerVars, wheelVars, trackerVars
  <2>4. QED  BY <2>2, <2>3
<1>3. CASE Travel
  <2>1. /\ togo' \in -1..Length
        /\ UNCHANGED <<driveVars, pilot, steady, state, axis, kind, moved, probed, left, trims, forwardOnly>>
    BY <1>3 DEF Travel
  <2>2. TypeOK'
    BY <1>0, <2>1, TypesApart
    DEF ControllerTypes, WheelTypes, CommandTypes, TrackerTypes, driveVars, controllerVars, wheelVars
  <2>3. BranchInv'
    BY <2>1
    DEF BranchInv, OnAxis, Reset, Resting, Lag, Told, Sideways, Inner, SegmentsKeepTheirBranch, Middle, Clear,
        driveVars, controllerVars, wheelVars
  <2>4. QED  BY <2>2, <2>3
<1>4. QED  BY <1>1, <1>2, <1>3

\* Update preserves the invariant.
LEMMA UpdateStep ==
  ASSUME TypeOK, BranchInv, Update, UNCHANGED beside
  PROVE  TypeOK' /\ BranchInv'
<1>0. TrackerTypes
  BY TypesApart
<1>1. UNCHANGED <<command, angle, pilot, axis, moved, state>>
  BY UpdateNamed DEF beside, trackerVars, wheelVars
<1>2. ControllerTypes' /\ WheelTypes' /\ CommandTypes'
  BY UpdateTypes DEF BranchInv
<1>3. TrackerTypes'
  BY <1>0 DEF TrackerTypes, beside, trackerVars
<1>4. Reset' /\ Resting' /\ Lag'
  BY UpdateRests, UpdateLag DEF BranchInv
<1>5. OnAxis' /\ Told'
  BY <1>1 DEF BranchInv, OnAxis, Told
<1>6. Sideways' /\ Inner' /\ SegmentsKeepTheirBranch'
  <2>1. CASE pilot = "tracker"
    BY <1>1, <2>1, UpdateBranch DEF Sideways, Inner, SegmentsKeepTheirBranch, Middle, Clear
  <2>2. CASE pilot # "tracker"
    BY <1>1, <2>2 DEF Sideways, Inner, SegmentsKeepTheirBranch
  <2>3. QED  BY <2>1, <2>2
<1>7. QED  BY <1>2, <1>3, <1>4, <1>5, <1>6, TypesApart DEF BranchInv

\* A reset preserves it: feedback is adopted, and HOLD is not shown.
LEMMA HaltStep ==
  ASSUME TypeOK, BranchInv, Halt, UNCHANGED beside
  PROVE  TypeOK' /\ BranchInv'
<1>0. ControllerTypes /\ WheelTypes /\ CommandTypes /\ TrackerTypes
  BY TypesApart
<1>1. 0 \in Speeds /\ \A a \in Angles : a \in Int
  BY AnglesAreIntegers DEF Speeds
<1>2. TypeOK'
  <2>1. /\ unwinding' \in BOOLEAN /\ settled' \in BOOLEAN /\ fresh' \in BOOLEAN
        /\ valid' \in BOOLEAN /\ feedback' \in BOOLEAN
    BY <1>0, Zenon DEF Halt, CommandTypes
  <2>2. /\ mode' \in Modes /\ shown' \in Modes \cup {"FEEDBACK_HOLD"}
        /\ previous' \in Angles /\ steer' \in Angles
        /\ turning' \in -1..1 /\ drive' \in Speeds
    BY <1>0, <1>1 DEF Halt, Modes, WheelTypes
  <2>3. WheelTypes' /\ TrackerTypes' /\ command' = command
    BY <1>0 DEF Halt, WheelTypes, TrackerTypes, beside, trackerVars, wheelVars
  <2>4. ControllerTypes' /\ CommandTypes'
    BY <1>0, <2>1, <2>2, <2>3, Zenon DEF ControllerTypes, CommandTypes
  <2>5. QED  BY <2>3, <2>4, TypesApart
<1>3. Reset' /\ Resting' /\ OnAxis' /\ Told' /\ Inner' /\ SegmentsKeepTheirBranch'
  BY DEF Halt, BranchInv, Reset, Resting, OnAxis, Told, Inner, SegmentsKeepTheirBranch, beside, trackerVars, wheelVars
<1>4. Lag'
  BY <1>0, <1>1 DEF Halt, Lag, wheelVars, WheelTypes
<1>5. Sideways'
  BY DEF Halt, BranchInv, Sideways, Middle, beside, trackerVars, wheelVars
<1>6. QED  BY <1>2, <1>3, <1>4, <1>5 DEF BranchInv

\* The wheel turns between where it is and what is commanded.
LEMMA WheelTurnsStep ==
  ASSUME TypeOK, BranchInv, WheelTurns, UNCHANGED beside
  PROVE  TypeOK' /\ BranchInv'
<1>0. ControllerTypes /\ WheelTypes /\ CommandTypes /\ TrackerTypes
  BY TypesApart
<1>1. /\ angle' = Towards(angle, steer, 15)
      /\ UNCHANGED <<command, valid, controllerVars, feedback, speed, pilot, steady, trackerVars>>
  BY DEF WheelTurns, beside
<1>2. angle \in Angles /\ steer \in Angles
  BY <1>0 DEF WheelTypes, ControllerTypes
<1>3. angle' \in Angles
  BY <1>1, <1>2, StepOnGrid
<1>4. angle \in Int /\ steer \in Int
  BY <1>2, AnglesAreIntegers
<1>5. /\ angle' \in Int
      /\ \/ angle' = steer
         \/ angle < steer /\ angle' = angle + 15 /\ angle' < steer
         \/ angle > steer /\ angle' = angle - 15 /\ angle' > steer
  <2> DEFINE t == Towards(angle, steer, 15)
  <2>1. t \in Int /\ \/ t = steer
                     \/ angle < steer /\ t = angle + 15 /\ t < steer
                     \/ angle > steer /\ t = angle - 15 /\ t > steer
    BY <1>4, StepTowards
  <2>2. angle' = t
    BY <1>1
  <2> HIDE DEF t
  <2>3. QED  BY <2>1, <2>2
<1>6. TypeOK'
  BY <1>0, <1>1, <1>3, TypesApart
  DEF ControllerTypes, WheelTypes, CommandTypes, TrackerTypes, controllerVars, trackerVars
<1>7. Reset' /\ Resting' /\ OnAxis' /\ Told' /\ SegmentsKeepTheirBranch'
  BY <1>1 DEF BranchInv, Reset, Resting, OnAxis, Told, SegmentsKeepTheirBranch, controllerVars, trackerVars
<1>8. steer' = steer
  BY <1>1 DEF controllerVars
<1>9. Lag'
  BY <1>4, <1>5, <1>8, SMT DEF BranchInv, Lag
<1>10. Sideways'
  <2>1. Middle(angle) /\ Middle(steer) => Middle(angle')
    BY <1>4, <1>5, SMT DEF Middle
  <2>2. QED  BY <1>1, <2>1 DEF BranchInv, Sideways, Middle, controllerVars, trackerVars
<1>11. Inner'
  <2>1. Clear(angle) /\ Clear(steer) => Clear(angle')
    BY <1>4, <1>5, SMT DEF Clear
  <2>2. QED  BY <1>1, <2>1 DEF BranchInv, Inner, Clear, controllerVars
<1>12. QED  BY <1>6, <1>7, <1>9, <1>10, <1>11 DEF BranchInv

\* The rest of the plant leaves controller and angle alone.
LEMMA OtherSteps ==
  ASSUME TypeOK, BranchInv, WheelRolls \/ Silence \/ FeedbackChanges \/ WheelPushed, UNCHANGED beside
  PROVE  TypeOK' /\ BranchInv'
<1>0. ControllerTypes /\ WheelTypes /\ CommandTypes /\ TrackerTypes
  BY TypesApart
<1>1. UNCHANGED <<command, controllerVars, angle, pilot, steady, trackerVars>>
  BY DEF WheelRolls, Silence, FeedbackChanges, WheelPushed, beside, wheelVars
<1>2. speed' \in Speeds
  <2>1. CASE WheelRolls
    <3>1. speed \in Int /\ -2 <= speed /\ speed <= 2 /\ drive \in Int /\ -2 <= drive /\ drive <= 2
      BY <1>0 DEF WheelTypes, ControllerTypes, Speeds
    <3> DEFINE t == Towards(speed, drive, 1)
    <3>2. t \in Int /\ \/ t = drive
                       \/ speed < drive /\ t = speed + 1 /\ t < drive
                       \/ speed > drive /\ t = speed - 1 /\ t > drive
      BY <3>1, StepTowards
    <3>3. speed' = t
      BY <2>1 DEF WheelRolls
    <3> HIDE DEF t
    <3>4. QED  BY <3>1, <3>2, <3>3 DEF Speeds
  <2>2. CASE WheelPushed
    BY <2>2 DEF WheelPushed, Speeds
  <2>3. CASE Silence \/ FeedbackChanges
    BY <1>0, <2>3 DEF Silence, FeedbackChanges, wheelVars, WheelTypes
  <2>4. QED  BY <2>1, <2>2, <2>3
<1>3. valid' \in BOOLEAN /\ feedback' \in BOOLEAN
  BY <1>0, Zenon DEF WheelRolls, Silence, FeedbackChanges, WheelPushed, CommandTypes
<1>4. TypeOK'
  BY <1>0, <1>1, <1>2, <1>3, TypesApart
  DEF ControllerTypes, WheelTypes, CommandTypes, TrackerTypes, controllerVars, trackerVars
<1>5. BranchInv'
  BY <1>1
  DEF BranchInv, OnAxis, Reset, Resting, Lag, Told, Sideways, Inner, SegmentsKeepTheirBranch, Middle, Clear,
      controllerVars, trackerVars
<1>6. QED  BY <1>4, <1>5

\* The invariant holds at the start.
LEMMA InvariantInit ==
  ASSUME Init
  PROVE  TypeOK /\ BranchInv
<1>1. 0 \in Angles /\ 0 \in Directions /\ 0 \in Speeds
  BY DEF Angles, Directions, Speeds
<1>2. Init /\ DriveInit
  BY DEF Init
<1>3. ControllerTypes /\ WheelTypes /\ CommandTypes
  <2>1. /\ unwinding \in BOOLEAN /\ settled \in BOOLEAN /\ fresh \in BOOLEAN
        /\ valid \in BOOLEAN /\ feedback \in BOOLEAN
    BY <1>2, Zenon DEF DriveInit
  <2>2. /\ mode \in Modes /\ shown \in Modes \cup {"FEEDBACK_HOLD"}
        /\ previous \in Angles /\ steer \in Angles /\ angle \in Angles
        /\ turning \in -1..1 /\ drive \in Speeds /\ speed \in Speeds
        /\ command \in [dir : Directions, speed : 0..2]
    BY <1>1, <1>2, StopTyped DEF DriveInit, Modes
  <2>3. QED  BY <2>1, <2>2, Zenon DEF ControllerTypes, WheelTypes, CommandTypes
<1>4. TrackerTypes
  <2>1. steady \in BOOLEAN /\ moved \in BOOLEAN /\ probed \in BOOLEAN /\ forwardOnly \in BOOLEAN
    BY <1>2, Zenon DEF Init
  <2>2. /\ pilot \in Pilots /\ state \in Active \cup {"none", "COMPLETED", "FAULT"}
        /\ axis \in Directions /\ kind \in {"translate", "rotate"}
        /\ left \in 0..Length /\ togo \in -1..Length /\ trims \in 0..MaxTrims
    BY <1>1, <1>2, LengthsAssumption DEF Init
  <2>3. QED  BY <2>1, <2>2, Zenon DEF TrackerTypes
<1>5. BranchInv
  BY <1>2, StopTyped
  DEF Init, DriveInit, BranchInv, OnAxis, Axes, Reset, Resting, Lag, Told, Sideways, Inner, SegmentsKeepTheirBranch
<1>6. QED  BY <1>3, <1>4, <1>5, TypesApart

\* The invariant is inductive.
LEMMA InvariantStep ==
  ASSUME TypeOK, BranchInv, [Next]_vars
  PROVE  TypeOK' /\ BranchInv'
<1>1. CASE Tracker
  BY <1>1, TrackerStep
<1>2. CASE Hand \/ Steady \/ Travel
  BY <1>2, HandStep
<1>3. CASE (Update \/ Halt \/ Plant \/ Upset) /\ UNCHANGED beside
  <2>1. CASE Update
    BY <1>3, <2>1, UpdateStep
  <2>2. CASE Halt
    BY <1>3, <2>2, HaltStep
  <2>3. CASE Plant
    BY <1>3, <2>3, WheelTurnsStep, OtherSteps DEF Plant
  <2>4. CASE Upset
    BY <1>3, <2>4, OtherSteps DEF Upset
  <2>5. QED  BY <1>3, <2>1, <2>2, <2>3, <2>4
<1>4. CASE UNCHANGED vars
  <2>1. TypeOK'
    BY <1>4, TypesApart
    DEF vars, driveVars, controllerVars, wheelVars, trackerVars,
        ControllerTypes, WheelTypes, CommandTypes, TrackerTypes
  <2>2. BranchInv'
    BY <1>4
    DEF vars, driveVars, controllerVars, wheelVars, trackerVars, BranchInv, OnAxis, Reset, Resting, Lag, Told,
        Sideways, Inner, SegmentsKeepTheirBranch, Middle, Clear
  <2>3. QED  BY <2>1, <2>2
<1>5. QED  BY <1>1, <1>2, <1>3, <1>4 DEF Next

\* Every variable keeps its type.
THEOREM DriveTypeCorrect == Spec => []TypeOK
<1>1. Init => TypeOK /\ BranchInv
  BY InvariantInit
<1>2. TypeOK /\ BranchInv /\ [Next]_vars => (TypeOK /\ BranchInv)'
  BY InvariantStep
<1>3. QED  BY <1>1, <1>2, PTL DEF Spec

\* A segment never has to stop for a steering limit (LimitApproach in update):
\* whatever corrections it asks for, and whatever was lost or reset on the way,
\* its wheels stay on a branch with room to both sides.
THEOREM SegmentsKeepBranch == Spec => []SegmentsKeepTheirBranch
<1>1. Init => TypeOK /\ BranchInv
  BY InvariantInit
<1>2. TypeOK /\ BranchInv /\ [Next]_vars => (TypeOK /\ BranchInv)'
  BY InvariantStep
<1>3. BranchInv => SegmentsKeepTheirBranch
  BY DEF BranchInv
<1>4. QED  BY <1>1, <1>2, <1>3, PTL DEF Spec

\* HOLD is only shown of a vehicle at rest that is told to rest, after a reset of
\* the controller too.
THEOREM HoldShownStill == Spec => HoldIsStill
<1> DEFINE Hold == shown' = "HOLD" /\ shown # "HOLD" => speed = 0 /\ drive' = 0
<1>1. Init => TypeOK /\ BranchInv
  BY InvariantInit
<1>2. TypeOK /\ BranchInv /\ [Next]_vars => (TypeOK /\ BranchInv)'
  BY InvariantStep
<1>3. TypeOK /\ BranchInv /\ [Next]_vars => [Hold]_vars
  <2> SUFFICES ASSUME TypeOK, BranchInv, Next PROVE Hold
    OBVIOUS
  <2>1. CASE Tracker
    <3>1. TrackerKeeps
      BY <2>1, BeginKeeps, StoppingKeeps, StartTrimKeeps, WaitKeeps, FollowKeeps, FaultKeeps, StandingKeeps
      DEF Tracker
    <3>2. QED  BY <3>1 DEF TrackerKeeps, trackedDrive, controllerVars
  <2>2. CASE Hand \/ Steady \/ Travel
    BY <2>2 DEF Hand, Steady, Travel, trackedDrive, driveVars, controllerVars
  <2>3. CASE Update
    BY <2>3, UpdateRests DEF BranchInv
  <2>4. CASE Halt
    BY <2>4 DEF Halt
  <2>5. CASE Plant \/ Upset
    BY <2>5 DEF Plant, Upset, WheelTurns, WheelRolls, Silence, FeedbackChanges, WheelPushed, controllerVars
  <2>6. QED  BY <2>1, <2>2, <2>3, <2>4, <2>5 DEF Next
<1>4. QED  BY <1>1, <1>2, <1>3, PTL DEF Spec, HoldIsStill
=============================================================================

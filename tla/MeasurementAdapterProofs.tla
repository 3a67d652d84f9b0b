---------------------- MODULE MeasurementAdapterProofs ----------------------
(***************************************************************************)
(* Proofs about the localization front end of MeasurementAdapter, for any   *)
(* delays, age limits, number of half pairs kept, depth of the status queue *)
(* and horizon: a reader of the status is told the newest verdict, a        *)
(* verdict READY had every source heard of when it was made, and a pair of  *)
(* antenna fixes is lost only to enough newer epochs.                       *)
(*                                                                          *)
(* The invariant has three parts beside the types:                          *)
(*   Told    where the newest verdict is on its way to the readers;         *)
(*   Traced  what the filters were handed goes back to what was received;   *)
(*   Paired  what became of every half that was received.                   *)
(***************************************************************************)
EXTENDS MeasurementAdapter, FiniteSetTheorems, SequenceTheorems, WellFoundedInduction, TLAPS

ClockOK ==
  /\ now \in Times /\ failing \in Parts
  /\ raw \in [Sensors -> Times \cup {Never}]
  /\ delayed \subseteq [due : Nat, kind : Sensors, stamp : Times]
  /\ ages \in [Sensors \cup {"fix"} -> Times \cup {Never}]
FilterOK ==
  /\ rolling \in BOOLEAN /\ tiltReady \in BOOLEAN /\ errors \in BOOLEAN
  /\ still \in 0..StillSamples
  /\ poses \subseteq Times /\ archived \in Times \cup {Never}
GnssOK ==
  /\ slot \in Times \cup {Never} /\ inbox \in [Sides -> Seq(Times)]
  /\ pairs \subseteq Times \X Sides /\ taken \subseteq Times \X Sides \X BOOLEAN
StatusOK ==
  /\ waiting \in Seq(Samples) /\ Len(waiting) <= Depth
  /\ inHand \in Samples \cup {NoSample} /\ shown \in Samples \cup {NoSample}
  /\ erred \in BOOLEAN /\ closed \in BOOLEAN /\ alive \in BOOLEAN
  /\ verdict \in Verdicts \cup {NoSample} /\ at \in Times \cup {Never}

\* The newest verdict is the last of the queue, else the one being published,
\* else the one shown; a thread that ended has left nothing behind.
Newer ==
  IF waiting # <<>> THEN waiting[Len(waiting)] = verdict
  ELSE IF inHand # NoSample THEN inHand = verdict
  ELSE erred \/ shown = verdict
Ended == alive \/ (closed /\ waiting = <<>> /\ inHand = NoSample)
Told == Newer /\ Ended

\* A measurement handed over was taken from its topic, a half that waits was
\* received, a pose had both halves, and a verdict READY of this moment has
\* every source heard of.
Behind ==
  /\ \A s \in Sensors : ages[s] <= raw[s] /\ raw[s] <= now
  /\ \A d \in delayed : d.stamp <= raw[d.kind]
Halves == \A e \in Times, s \in Sides : <<e, s>> \in pairs => \E u \in BOOLEAN : <<e, s, u>> \in taken
Posed == ages["fix"] # Never => Heard(ages["fix"], FALSE)
Honest == at = now /\ verdict = "READY" => Sound
Traced == Behind /\ Halves /\ Posed /\ Honest

\* The halves of a side arrive in the order of their epochs, each once.
Arrives ==
  /\ slot <= now
  /\ \A s \in Sides : \A i \in 1 .. Len(inbox[s]) : inbox[s][i] <= slot
  /\ \A s \in Sides : \A i, j \in 1 .. Len(inbox[s]) : i < j => inbox[s][i] < inbox[s][j]
  /\ \A s \in Sides, e \in Times, u \in BOOLEAN : <<e, s, u>> \in taken =>
       e <= slot /\ \A i \in 1 .. Len(inbox[s]) : e < inbox[s][i]
  /\ Steady("fix") => slot = now /\ ages["fix"] = now /\ \A s \in Sides : inbox[s] = <<>>
Once == \A e \in Times, s \in Sides : ~(<<e, s, TRUE>> \in taken /\ <<e, s, FALSE>> \in taken)

\* A half that could have made a pose waits, unless enough newer epochs were
\* received or its epoch had a half at which no pose was possible.
Later(e) == {h[1] : h \in {w \in taken : w[1] > e}}
Spoilt(e) == \E s \in Sides : <<e, s, FALSE>> \in taken
Waits ==
  \A e \in Times, s \in Sides : <<e, s, TRUE>> \in taken /\ e > ages["fix"] =>
    <<e, s>> \in pairs \/ Cardinality(Later(e)) >= MaxPairs \/ Spoilt(e)
Single == \A e \in Times : \E s \in Sides : <<e, s>> \notin pairs
Paired == Arrives /\ Once /\ Waits /\ Single

AdapterInv == TypeOK /\ Told /\ Traced /\ Paired

-----------------------------------------------------------------------------
(* Facts about the operators *)

LEMMA Types ==
  /\ TypeOK <=> ClockOK /\ FilterOK /\ GnssOK /\ StatusOK
  /\ TypeOK' <=> ClockOK' /\ FilterOK' /\ GnssOK' /\ StatusOK'
BY Zenon DEF TypeOK, StreamTypeOK, ClockOK, FilterOK, GnssOK, StatusOK

LEMMA Constants ==
  /\ Horizon \in Nat /\ Times \subseteq Nat /\ 0 \in Times /\ Delays \subseteq Nat
  /\ LocalLimit \in Nat \ {0} /\ FixLimit \in Nat \ {0} /\ MaxPairs \in Nat \ {0} /\ StillSamples \in Nat \ {0}
  /\ Depth \in Nat \ {0} /\ "READY" \in Samples /\ "NOT_READY" \in Samples /\ NoSample \notin Samples
BY TimeAssumption, LimitsAssumption, DepthAssumption, VerdictsAssumption, SamplesAssumption DEF Times, Verdicts

LEMMA Integral == \A t \in Times \cup {Never} : t \in Int /\ t >= Never /\ (t # Never => t >= 0)
BY Constants DEF Never

\* A nonempty set of times and Never has a greatest member, so Max finds it.
LEMMA Greatest ==
  ASSUME NEW S \in SUBSET (Times \cup {Never}), S # {} PROVE Max(S) \in S /\ \A y \in S : Max(S) >= y
<1> DEFINE R == {p \in Nat \X Nat : p[1] < p[2]}
<1> DEFINE T == {Horizon - x : x \in S}
<1>0. \A x \in S : x \in Int /\ Horizon - x \in Nat BY Constants DEF Times, Never
<1>1. IsWellFoundedOn(R, Nat) BY NatLessThanWellFounded, Zenon DEF OpToRel
<1>2. T \in SUBSET Nat /\ T # {} BY <1>0
<1> HIDE DEF T, R
<1>3. PICK t \in T : \A y \in T : <<y, t>> \notin R BY <1>1, <1>2, WFMin, Zenon
<1>4. PICK x \in S : t = Horizon - x BY DEF T
<1>5. \A y \in S : x >= y
  <2> SUFFICES ASSUME NEW y \in S, ~(x >= y) PROVE FALSE OBVIOUS
  <2>1. Horizon - y \in T BY DEF T
  <2>2. Horizon - y < Horizon - x BY <1>0, Constants
  <2>3. <<Horizon - y, t>> \in R BY <2>1, <2>2, <1>2, <1>4 DEF R
  <2> QED BY <1>3, <2>1, <2>3
<1>6. \E m \in S : \A y \in S : m >= y BY <1>5
<1> QED BY <1>6, Zenon DEF Max

\* The window counts up to its size.
LEMMA Windows ==
  ASSUME NEW gap \in BOOLEAN, NEW rests \in BOOLEAN, still \in 0..StillSamples
  PROVE  Window(gap, rests) \in 0..StillSamples
<1>1. CASE ~rests BY <1>1, Constants DEF Window
<1>2. CASE rests
  <2> DEFINE n == 1 + IF gap THEN 0 ELSE still
  <2>1. n \in Nat BY Constants
  <2>2. \A a, b \in Nat : Min({a, b}) = IF a <= b THEN a ELSE b
    <3> SUFFICES ASSUME NEW a \in Nat, NEW b \in Nat PROVE Min({a, b}) = IF a <= b THEN a ELSE b OBVIOUS
    <3>1. \E m \in {a, b} : \A y \in {a, b} : m <= y OBVIOUS
    <3>2. Min({a, b}) \in {a, b} /\ \A y \in {a, b} : Min({a, b}) <= y BY <3>1, Zenon DEF Min
    <3> QED BY <3>2
  <2>3. Window(gap, rests) = Min({StillSamples, n}) BY <1>2 DEF Window
  <2> HIDE DEF n
  <2> QED BY <2>1, <2>2, <2>3, Constants
<1> QED BY <1>1, <1>2

\* The queue takes the newest sample in, at its end.
LEMMA Appends ==
  ASSUME StatusOK, NEW s \in Samples, NEW q, q = Appended(waiting, s)
  PROVE  q \in Seq(Samples) /\ Len(q) <= Depth /\ q # <<>> /\ q[Len(q)] = s
<1> DEFINE r == IF Len(waiting) = Depth THEN Tail(waiting) ELSE waiting
<1>1. waiting \in Seq(Samples) /\ Len(waiting) \in Nat /\ Len(waiting) <= Depth BY LenProperties DEF StatusOK
<1>2. r \in Seq(Samples) /\ Len(r) \in Nat /\ Len(r) < Depth
  <2>1. CASE Len(waiting) = Depth
    <3>1. waiting # <<>> BY <1>1, <2>1, EmptySeq, Constants
    <3> QED BY <1>1, <2>1, <3>1, HeadTailProperties, Constants
  <2>2. CASE Len(waiting) # Depth BY <1>1, <2>2, Constants
  <2> QED BY <2>1, <2>2
<1>3. q = Append(r, s) BY DEF Appended
<1> HIDE DEF r
<1>4. q \in Seq(Samples) /\ Len(q) = Len(r) + 1 /\ q[Len(r) + 1] = s BY <1>2, <1>3, AppendProperties
<1>5. q # <<>> BY <1>2, <1>4, EmptySeq
<1> QED BY <1>2, <1>4, <1>5, Constants

\* A measurement handed over is one that was handed over before or one of the
\* due ones; the pose of the antennas is none of them.
LEMMA Aged ==
  ASSUME ClockOK, NEW a, a = Ages(Due)
  PROVE  /\ a \in [Sensors \cup {"fix"} -> Times \cup {Never}]
         /\ a["fix"] = ages["fix"]
         /\ \A s \in Sensors : a[s] = ages[s] \/ \E d \in delayed : d.kind = s /\ a[s] = d.stamp
<1>1. DOMAIN ages = Sensors \cup {"fix"} /\ Due \subseteq delayed BY DEF ClockOK, Due
<1>2. \A k \in Sensors \cup {"fix"} :
        a[k] = IF \E i \in Due : i.kind = k THEN Max({ages[k], StampOf(Due, k)}) ELSE ages[k]
  BY <1>1 DEF Ages
<1>3. \A i \in Due : i.kind \in Sensors /\ i.stamp \in Times BY <1>1 DEF ClockOK
<1>4. ASSUME NEW k \in Sensors, \E i \in Due : i.kind = k
      PROVE  a[k] = ages[k] \/ \E d \in delayed : d.kind = k /\ a[k] = d.stamp
  <2> DEFINE S == {i.stamp : i \in {d \in Due : d.kind = k}}
  <2>1. S \in SUBSET (Times \cup {Never}) /\ S # {} BY <1>3, <1>4
  <2>2. StampOf(Due, k) = Max(S) BY DEF StampOf
  <2>3. Max(S) \in S BY <2>1, Greatest
  <2>4. PICK d \in Due : d.kind = k /\ Max(S) = d.stamp BY <2>3
  <2>5. {ages[k], Max(S)} \in SUBSET (Times \cup {Never}) BY <2>1, <2>3 DEF ClockOK
  <2>6. Max({ages[k], Max(S)}) \in {ages[k], Max(S)} BY <2>5, Greatest
  <2> QED BY <1>1, <1>2, <1>4, <2>2, <2>4, <2>6
<1>5. \A k \in Sensors : a[k] = ages[k] \/ \E d \in delayed : d.kind = k /\ a[k] = d.stamp BY <1>2, <1>4
<1>6. a["fix"] = ages["fix"] BY <1>2, <1>3 DEF Sensors
<1>7. DOMAIN a = Sensors \cup {"fix"} BY <1>1 DEF Ages
<1>8. \A k \in Sensors \cup {"fix"} : a[k] \in Times \cup {Never} BY <1>5, <1>6 DEF ClockOK
<1>9. a = [k \in DOMAIN a |-> a[k]] BY DEF Ages
<1> QED BY <1>5, <1>6, <1>7, <1>8, <1>9

\* What a half from an antenna does: it is dropped when it is not newer than
\* the last pose; else it waits, or it completes its epoch, which then made a
\* pose or was spoilt.
Epoch(side, epoch, usable) ==
  /\ inbox[side] # <<>> /\ epoch = Head(inbox[side])
  /\ inbox' = [inbox EXCEPT ![side] = Tail(inbox[side])]
  /\ taken' = taken \cup {<<epoch, side, usable>>}
  /\ \/ epoch <= ages["fix"] /\ pairs' = pairs /\ ages' = ages
     \/ /\ epoch > ages["fix"] /\ ages' = ages
        /\ pairs' = Newest(pairs \cup {<<epoch, side>>})
        /\ \E s \in Sides : <<epoch, s>> \notin pairs'
     \/ /\ epoch > ages["fix"]
        /\ pairs' = Newest(pairs \cup {<<epoch, side>>}) \ ({epoch} \X Sides)
        /\ \A s \in Sides : <<epoch, s>> \in Newest(pairs \cup {<<epoch, side>>})
        /\ \/ usable = FALSE /\ ages' = ages
           \/ usable = TRUE /\ ages' = [ages EXCEPT !["fix"] = epoch]

LEMMA Arrival ==
  ASSUME ClockOK, GnssOK, NEW side \in Sides, Fix(side)
  PROVE  \E epoch \in Times, usable \in BOOLEAN : Epoch(side, epoch, usable)
<1> DEFINE epoch == Head(inbox[side])
<1>1. inbox[side] # <<>> /\ inbox[side] \in Seq(Times) BY DEF Fix, GnssOK
<1>2. epoch \in Times BY <1>1, HeadTailProperties
<1>3. Solvable(epoch) \in BOOLEAN BY DEF Solvable
<1>4. Epoch(side, epoch, Solvable(epoch))
  <2>1. inbox' = [inbox EXCEPT ![side] = Tail(inbox[side])] BY DEF Fix
  <2>2. taken' = taken \cup {<<epoch, side, Solvable(epoch)>>} BY DEF Fix
  <2>3. epoch \in Int /\ ages["fix"] \in Int
    <3>1. ages["fix"] \in Times \cup {Never} BY DEF ClockOK
    <3> QED BY <1>2, <3>1, Integral, Zenon
  <2>4. CASE epoch <= ages["fix"]
    <3>1. pairs' = pairs /\ ages' = ages BY <2>4, Zenon DEF Fix
    <3> QED BY <1>1, <2>1, <2>2, <2>4, <3>1, Zenon DEF Epoch
  <2>5. CASE ~(epoch <= ages["fix"])
    <3> DEFINE kept == Newest(pairs \cup {<<epoch, side>>})
    <3>0. epoch > ages["fix"] BY <2>3, <2>5
    <3>1. CASE \A s \in Sides : <<epoch, s>> \in kept
      <4>1. pairs' = kept \ ({epoch} \X Sides) BY <2>5, <3>1, Zenon DEF Fix
      <4>2. ages' = IF Solvable(epoch) THEN [ages EXCEPT !["fix"] = epoch] ELSE ages
        BY <2>5, <3>1, Zenon DEF Fix
      <4>3. CASE Solvable(epoch)
        <5>1. Solvable(epoch) = TRUE BY <1>3, <4>3, Zenon
        <5>2. ages' = [ages EXCEPT !["fix"] = epoch] BY <4>2, <4>3, Zenon
        <5> QED BY <1>1, <2>1, <2>2, <3>0, <3>1, <4>1, <5>1, <5>2, Zenon DEF Epoch
      <4>4. CASE ~Solvable(epoch)
        <5>1. Solvable(epoch) = FALSE BY <1>3, <4>4, Zenon
        <5>2. ages' = ages BY <4>2, <4>4, Zenon
        <5> QED BY <1>1, <2>1, <2>2, <3>0, <3>1, <4>1, <5>1, <5>2, Zenon DEF Epoch
      <4> QED BY <4>3, <4>4
    <3>2. CASE ~(\A s \in Sides : <<epoch, s>> \in kept)
      <4>1. pairs' = kept BY <2>5, <3>2, Zenon DEF Fix
      <4>2. ages' = ages BY <2>5, <3>2, Zenon DEF Fix
      <4> QED BY <1>1, <2>1, <2>2, <3>0, <3>2, <4>1, <4>2, Zenon DEF Epoch
    <3> QED BY <3>1, <3>2
  <2> QED BY <2>4, <2>5
<1> QED BY <1>2, <1>3, <1>4, Zenon

\* What stays of the halves is among them; what is given up has newer epochs.
LEMMA Stays ==
  ASSUME NEW H \in SUBSET (Times \X Sides)
  PROVE  /\ Newest(H) \subseteq H
         /\ \A e \in Times, s \in Sides : <<e, s>> \in H /\ <<e, s>> \notin Newest(H) =>
              ~(Cardinality({g[1] : g \in {k \in H : k[1] > e}}) < MaxPairs)
BY DEF Newest

-----------------------------------------------------------------------------
(* Type correctness *)

LEMMA InitTypes == Init => TypeOK
<1> SUFFICES ASSUME Init PROVE TypeOK OBVIOUS
<1>0. 0 \in Times BY Constants
<1>1. ClockOK
  <2>1. raw \in [Sensors -> Times \cup {Never}] BY <1>0 DEF Init
  <2>2. ages \in [Sensors \cup {"fix"} -> Times \cup {Never}] BY <1>0 DEF Init
  <2> QED BY <1>0, <2>1, <2>2 DEF Init, ClockOK
<1>2. FilterOK
  <2>1. rolling \in BOOLEAN /\ tiltReady \in BOOLEAN /\ errors \in BOOLEAN BY Zenon DEF Init, Steady
  <2>2. still \in 0..StillSamples BY Constants DEF Init
  <2>3. poses \subseteq Times /\ archived \in Times \cup {Never} BY <1>0 DEF Init
  <2> QED BY <2>1, <2>2, <2>3 DEF FilterOK
<1>3. GnssOK
  <2>1. <<>> \in Seq(Times) BY EmptySeq
  <2>2. inbox \in [Sides -> Seq(Times)] BY <2>1 DEF Init
  <2>3. \A s \in Sides : <<0, s, TRUE>> \in Times \X Sides \X BOOLEAN BY <1>0
  <2>4. taken \subseteq Times \X Sides \X BOOLEAN BY <2>3, Zenon DEF Init
  <2>5. slot \in Times \cup {Never} /\ pairs \subseteq Times \X Sides BY <1>0 DEF Init
  <2> QED BY <2>2, <2>4, <2>5 DEF GnssOK
<1>4. StatusOK
  <2>1. waiting \in Seq(Samples) /\ Len(waiting) <= Depth BY EmptySeq, Constants DEF Init, StreamInit
  <2>2. inHand = NoSample /\ shown = NoSample /\ verdict = NoSample /\ at = Never BY DEF Init, StreamInit
  <2>3. erred \in BOOLEAN /\ closed \in BOOLEAN /\ alive \in BOOLEAN BY Zenon DEF Init, StreamInit
  <2> QED BY <2>1, <2>2, <2>3 DEF StatusOK
<1> QED BY <1>1, <1>2, <1>3, <1>4, Types

\* What the status stream's own steps leave alone.
LEMMA StreamTypes ==
  ASSUME StatusOK, Stream
  PROVE  StatusOK' /\ UNCHANGED <<now, failing, sensorVars, filterVars, fixVars, healthVars>>
<1>1. UNCHANGED <<now, failing, sensorVars, filterVars, fixVars, healthVars>> BY DEF Stream
<1>2. CASE Take
  <2>1. Head(waiting) \in Samples /\ Tail(waiting) \in Seq(Samples) /\ Len(Tail(waiting)) = Len(waiting) - 1
    BY <1>2, HeadTailProperties DEF Take, StatusOK
  <2>2. Len(waiting) \in Nat BY LenProperties DEF StatusOK
  <2>3. Len(Tail(waiting)) <= Depth BY <2>1, <2>2, Constants DEF StatusOK
  <2> QED BY <1>1, <1>2, <2>1, <2>3 DEF Take, StatusOK, healthVars
<1>3. ASSUME NEW m \in BOOLEAN, Publish(m) PROVE StatusOK'
  <2>1. shown' \in Samples \cup {NoSample} BY <1>3 DEF Publish, StatusOK
  <2>2. erred' \in BOOLEAN BY <1>3, Zenon DEF Publish, StatusOK
  <2> QED BY <1>1, <1>3, <2>1, <2>2 DEF Publish, StatusOK, healthVars
<1>4. CASE End
  <2>1. alive' \in BOOLEAN BY <1>4, Zenon DEF End
  <2> QED BY <1>1, <1>4, <2>1 DEF End, StatusOK, healthVars
<1>5. CASE Close
  <2>1. closed' \in BOOLEAN BY <1>5, Zenon DEF Close
  <2> QED BY <1>1, <1>5, <2>1 DEF Close, StatusOK, healthVars
<1>6. ("stream" \in failing) \in BOOLEAN OBVIOUS
<1> QED BY <1>1, <1>2, <1>3, <1>4, <1>5, <1>6, Zenon DEF Stream

\* Health offers its verdict as the newest sample.
LEMMA Judged ==
  ASSUME StatusOK, now \in Times, Health
  PROVE  /\ verdict' \in Verdicts /\ at' = now /\ ~closed
         /\ waiting' = Appended(waiting, verdict')
         /\ UNCHANGED <<inHand, shown, erred, closed, alive, now, failing, sensorVars, filterVars, fixVars>>
         /\ StatusOK'
<1>1. verdict' \in Verdicts BY DEF Health, Verdicts
<1>2. verdict' \in Samples BY <1>1, VerdictsAssumption
<1>3. Offer(verdict') /\ at' = now /\ UNCHANGED <<now, failing, sensorVars, filterVars, fixVars>> BY Zenon DEF Health
<1>4. ~closed /\ waiting' = Appended(waiting, verdict') /\ UNCHANGED <<inHand, shown, erred, closed, alive>>
  BY <1>3 DEF Offer
<1>5. waiting' \in Seq(Samples) /\ Len(waiting') <= Depth BY <1>2, <1>4, Appends
<1>6. StatusOK' BY <1>1, <1>3, <1>4, <1>5 DEF StatusOK
<1> QED BY <1>1, <1>3, <1>4, <1>6

LEMMA DelayedTypes ==
  ASSUME ClockOK, NEW kind \in Sensors, Delayed(kind)
  PROVE  \E item \in [due : Nat, kind : {kind}, stamp : {now}] : delayed' = delayed \cup {item}
<1>1. PICK delay \in Delays : delayed' = delayed \cup {[due |-> now + delay, kind |-> kind, stamp |-> now]}
  BY DEF Delayed
<1>2. now + delay \in Nat BY Constants DEF ClockOK
<1> QED BY <1>1, <1>2

LEMMA StepTypes == TypeOK /\ [Next]_vars => TypeOK'
<1> SUFFICES ASSUME TypeOK, [Next]_vars PROVE TypeOK' OBVIOUS
<1> USE Types
<1>0. ClockOK /\ FilterOK /\ GnssOK /\ StatusOK OBVIOUS
<1> DEFINE U == UNCHANGED <<healthVars, streamVars>>
<1>a. U => StatusOK' BY DEF healthVars, streamVars, StatusOK
<1>b. UNCHANGED fixVars => GnssOK' BY DEF fixVars, GnssOK
<1>c. UNCHANGED <<rolling, still, tiltReady, filterVars>> => FilterOK' BY DEF filterVars, FilterOK
<1>d. UNCHANGED <<now, failing, raw, delayed, ages>> => ClockOK' BY DEF ClockOK
<1>1. CASE Joints
  <2>1. U /\ UNCHANGED <<now, failing, ages, still, tiltReady, filterVars, fixVars>> BY <1>1, Zenon DEF Joints
  <2>2. raw' \in [Sensors -> Times \cup {Never}] BY <1>1, <1>0 DEF Joints, ClockOK
  <2>3. delayed' \subseteq [due : Nat, kind : Sensors, stamp : Times]
    <3>1. CASE UNCHANGED delayed BY <3>1, <1>0 DEF ClockOK
    <3>2. CASE Delayed("wheel")
      <4>1. PICK item \in [due : Nat, kind : {"wheel"}, stamp : {now}] : delayed' = delayed \cup {item}
        BY <3>2, <1>0, DelayedTypes DEF Sensors
      <4>2. item \in [due : Nat, kind : Sensors, stamp : Times] BY <1>0 DEF Sensors, ClockOK
      <4> QED BY <4>1, <4>2, <1>0 DEF ClockOK
    <3> QED BY <3>1, <3>2, <1>1, Zenon DEF Joints
  <2>4. rolling' \in BOOLEAN BY <1>1, <1>0, Zenon DEF Joints, FilterOK
  <2>5. ClockOK' BY <2>1, <2>2, <2>3, <1>0 DEF ClockOK
  <2>6. FilterOK' BY <2>1, <2>4, <1>0 DEF FilterOK, filterVars
  <2> QED BY <2>1, <2>5, <2>6, <1>a, <1>b
<1>2. CASE ImuSample
  <2>1. U /\ UNCHANGED <<now, failing, ages, rolling, still, tiltReady, filterVars, fixVars>>
    BY <1>2, Zenon DEF ImuSample
  <2>2. raw' \in [Sensors -> Times \cup {Never}] BY <1>2, <1>0 DEF ImuSample, ClockOK
  <2>3. PICK item \in [due : Nat, kind : {"imu"}, stamp : {now}] : delayed' = delayed \cup {item}
    BY <1>2, <1>0, DelayedTypes DEF Sensors, ImuSample
  <2>4. item \in [due : Nat, kind : Sensors, stamp : Times] BY <1>0 DEF Sensors, ClockOK
  <2>5. ClockOK' BY <2>1, <2>2, <2>3, <2>4, <1>0 DEF ClockOK
  <2> QED BY <2>1, <2>5, <1>a, <1>b, <1>c
<1>3. CASE Deliver
  <2>1. U /\ UNCHANGED <<now, failing, raw, rolling, filterVars, fixVars>> /\ ages' = Ages(Due)
        /\ delayed' = delayed \ Due
    BY <1>3, Zenon DEF Deliver
  <2>2. ages' \in [Sensors \cup {"fix"} -> Times \cup {Never}] BY <2>1, <1>0, Aged
  <2>3. ClockOK' BY <2>1, <2>2, <1>0 DEF ClockOK
  <2>4. FilterOK'
    <3>1. CASE UNCHANGED <<still, tiltReady>> BY <3>1, <2>1, <1>0 DEF FilterOK, filterVars
    <3>2. ASSUME NEW gap \in BOOLEAN, Tilts(gap) PROVE FilterOK'
      <4>0. PICK rests \in {FALSE, ~rolling} : \E level \in Levelled(rests, Window(gap, rests)) :
              /\ tiltReady' = (tiltReady \/ level)
              /\ still' = IF rests /\ level THEN 0 ELSE Window(gap, rests)
        BY <3>2, Zenon DEF Tilts
      <4>1. PICK level \in Levelled(rests, Window(gap, rests)) :
              /\ tiltReady' = (tiltReady \/ level)
              /\ still' = IF rests /\ level THEN 0 ELSE Window(gap, rests)
        BY <4>0
      <4>2. rests \in BOOLEAN BY <1>0, Zenon DEF FilterOK
      <4>3. still' \in 0..StillSamples BY <4>1, <4>2, <1>0, Windows, Constants DEF FilterOK
      <4>4. tiltReady' \in BOOLEAN BY <4>1, Zenon
      <4> QED BY <4>3, <4>4, <2>1, <1>0 DEF FilterOK, filterVars
    <3>3. (StampOf(Due, "imu") > ages["imu"] + 1) \in BOOLEAN OBVIOUS
    <3> QED BY <3>1, <3>2, <3>3, <1>3, Zenon DEF Deliver
  <2> QED BY <2>1, <2>3, <2>4, <1>a, <1>b
<1>4. CASE LocalPose
  <2>1. U /\ UNCHANGED <<now, failing, sensorVars, archived, errors, fixVars>> /\ poses' = poses \cup {now}
    BY <1>4 DEF LocalPose
  <2>2. FilterOK' BY <2>1, <1>0 DEF FilterOK, sensorVars, ClockOK
  <2> QED BY <2>1, <2>2, <1>a, <1>b, <1>d DEF sensorVars
<1>5. CASE GlobalPose
  <2>1. U /\ UNCHANGED <<now, failing, sensorVars, poses, fixVars>> /\ archived' = now BY <1>5 DEF GlobalPose
  <2>2. errors' \in BOOLEAN BY <1>5, <1>0, Zenon DEF GlobalPose, FilterOK
  <2>3. FilterOK' BY <2>1, <2>2, <1>0 DEF FilterOK, sensorVars, ClockOK
  <2> QED BY <2>1, <2>3, <1>a, <1>b, <1>d DEF sensorVars
<1>6. ASSUME NEW side \in Sides, Fix(side) PROVE TypeOK'
  <2>1. U /\ UNCHANGED <<now, failing, raw, delayed, rolling, still, tiltReady, filterVars, slot>>
    BY <1>6, Zenon DEF Fix
  <2>2. PICK epoch \in Times, usable \in BOOLEAN : Epoch(side, epoch, usable) BY <1>6, <1>0, Arrival, Zenon
  <2>3. inbox' \in [Sides -> Seq(Times)]
    <3>1. inbox[side] \in Seq(Times) /\ inbox[side] # <<>> BY <2>2, <1>0 DEF Epoch, GnssOK
    <3>2. Tail(inbox[side]) \in Seq(Times) BY <3>1, HeadTailProperties
    <3>3. inbox' = [inbox EXCEPT ![side] = Tail(inbox[side])] BY <2>2 DEF Epoch
    <3> QED BY <3>2, <3>3, <1>0 DEF GnssOK
  <2>4. taken' \subseteq Times \X Sides \X BOOLEAN
    <3>1. <<epoch, side, usable>> \in Times \X Sides \X BOOLEAN OBVIOUS
    <3>2. taken' = taken \cup {<<epoch, side, usable>>} BY <2>2 DEF Epoch
    <3> QED BY <3>1, <3>2, <1>0, Zenon DEF GnssOK
  <2>5. pairs' \subseteq Times \X Sides
    <3> DEFINE H == pairs \cup {<<epoch, side>>}
    <3>1. H \in SUBSET (Times \X Sides) BY <1>0 DEF GnssOK
    <3>2. pairs' = pairs \/ pairs' = Newest(H) \/ pairs' = Newest(H) \ ({epoch} \X Sides)
      BY <2>2, Zenon DEF Epoch
    <3>3. Newest(H) \subseteq H BY <3>1, Stays, Zenon
    <3> HIDE DEF H
    <3> QED BY <3>1, <3>2, <3>3, <1>0 DEF GnssOK
  <2>6. ages' \in [Sensors \cup {"fix"} -> Times \cup {Never}]
    <3>1. ages' = ages \/ ages' = [ages EXCEPT !["fix"] = epoch] BY <2>2, Zenon DEF Epoch
    <3> QED BY <3>1, <1>0 DEF ClockOK
  <2>7. ClockOK' BY <2>1, <2>6, <1>0 DEF ClockOK
  <2>8. GnssOK' BY <2>1, <2>3, <2>4, <2>5, <1>0 DEF GnssOK
  <2> QED BY <2>1, <2>7, <2>8, <1>a, <1>c
<1>7. CASE Health
  <2>1. /\ UNCHANGED <<now, failing, sensorVars, filterVars, fixVars>> /\ StatusOK'
    BY <1>7, <1>0, Judged DEF ClockOK
  <2> QED BY <2>1, <1>b, <1>c, <1>d DEF sensorVars
<1>8. CASE Sample
  <2>1. U /\ UNCHANGED <<now, failing, sensorVars, filterVars, pairs, taken>> /\ slot' = now BY <1>8 DEF Sample
  <2>2. PICK received \in SUBSET Sides :
          inbox' = [s \in Sides |-> IF s \in received THEN Append(inbox[s], now) ELSE inbox[s]]
    BY <1>8 DEF Sample
  <2>3. \A s \in Sides : inbox[s] \in Seq(Times) /\ Append(inbox[s], now) \in Seq(Times)
    BY <1>0, AppendProperties DEF GnssOK, ClockOK
  <2>4. inbox' \in [Sides -> Seq(Times)] BY <2>2, <2>3
  <2>5. GnssOK' BY <2>1, <2>4, <1>0 DEF GnssOK, ClockOK
  <2> QED BY <2>1, <2>5, <1>a, <1>c, <1>d DEF sensorVars
<1>9. CASE Passes
  <2>1. U /\ UNCHANGED <<failing, delayed, rolling, still, tiltReady, inbox, pairs, errors>> /\ now' = now + 1
    BY <1>9 DEF Passes
  <2>2. now' \in Times
    <3>1. now < Horizon BY <1>9 DEF Passes
    <3> QED BY <2>1, <3>1, <1>0, Constants DEF ClockOK, Times
  <2>3. ClockOK'
    <3>1. raw' \in [Sensors -> Times \cup {Never}] BY <1>9, <2>2, <1>0 DEF Passes, ClockOK
    <3>2. ages' \in [Sensors \cup {"fix"} -> Times \cup {Never}] BY <1>9, <2>2, <1>0 DEF Passes, ClockOK
    <3> QED BY <2>1, <2>2, <3>1, <3>2, <1>0 DEF ClockOK
  <2>4. FilterOK'
    <3>1. poses' \subseteq Times /\ archived' \in Times \cup {Never}
      BY <1>9, <2>2, <1>0 DEF Passes, FilterOK
    <3> QED BY <2>1, <3>1, <1>0 DEF FilterOK
  <2>5. GnssOK'
    <3>1. slot' \in Times \cup {Never} BY <1>9, <2>2, <1>0 DEF Passes, GnssOK
    <3>2. \A s \in Sides : <<now', s, TRUE>> \in Times \X Sides \X BOOLEAN BY <2>2
    <3>3. taken' = taken \cup {<<now', s, TRUE>> : s \in IF Steady("fix") THEN Sides ELSE {}}
      BY <1>9 DEF Passes
    <3>4. taken' \subseteq Times \X Sides \X BOOLEAN BY <3>2, <3>3, <1>0, Zenon DEF GnssOK
    <3> QED BY <2>1, <3>1, <3>4, <1>0 DEF GnssOK
  <2> QED BY <2>1, <2>3, <2>4, <2>5, <1>a
<1>10. CASE Stream
  <2>1. StatusOK' /\ UNCHANGED <<now, failing, sensorVars, filterVars, fixVars, healthVars>>
    BY <1>10, <1>0, StreamTypes
  <2> QED BY <2>1, <1>b, <1>c, <1>d DEF sensorVars
<1>11. CASE UNCHANGED vars
  <2>1. U /\ UNCHANGED <<now, failing, sensorVars, filterVars, fixVars>> BY <1>11 DEF vars
  <2> QED BY <2>1, <1>a, <1>b, <1>c, <1>d DEF sensorVars
<1> QED
  BY <1>1, <1>2, <1>3, <1>4, <1>5, <1>6, <1>7, <1>8, <1>9, <1>10, <1>11, Zenon DEF Next, Callback

\* Every variable has its type throughout, for every value of the constants.
THEOREM AdapterTypeCorrect == Spec => []TypeOK
BY InitTypes, StepTypes, PTL DEF Spec

-----------------------------------------------------------------------------
(* The newest verdict is the one that stays shown *)

LEMMA InitTold == Init => Told
BY Zenon DEF Init, StreamInit, Told, Newer, Ended

LEMMA StepTold == TypeOK /\ Told /\ [Next]_vars => Told'
<1> SUFFICES ASSUME TypeOK, Told, [Next]_vars PROVE Told' OBVIOUS
<1>0. ClockOK /\ FilterOK /\ GnssOK /\ StatusOK BY Types
<1>1. CASE UNCHANGED <<healthVars, streamVars>>
  BY <1>1 DEF healthVars, streamVars, Told, Newer, Ended
<1>2. CASE Health
  <2>1. /\ verdict' \in Verdicts /\ waiting' = Appended(waiting, verdict') /\ ~closed
        /\ UNCHANGED <<inHand, shown, erred, closed, alive>>
    BY <1>2, <1>0, Judged DEF ClockOK
  <2>2. verdict' \in Samples BY <2>1, VerdictsAssumption
  <2>3. waiting' # <<>> /\ waiting'[Len(waiting')] = verdict' BY <2>1, <2>2, <1>0, Appends
  <2>4. Newer' BY <2>3, Zenon DEF Newer
  <2>5. Ended' BY <2>1, Zenon DEF Told, Ended
  <2> QED BY <2>4, <2>5 DEF Told
<1>3. CASE Stream
  <2>0. UNCHANGED <<verdict, at>> BY <1>3, Zenon DEF Stream, healthVars
  <2>1. CASE Take
    <3>0. /\ waiting # <<>> /\ inHand' = Head(waiting) /\ waiting' = Tail(waiting)
          /\ UNCHANGED <<shown, erred, closed, alive>> /\ alive
      BY <2>1 DEF Take
    <3>1. waiting[Len(waiting)] = verdict BY <3>0, Zenon DEF Told, Newer
    <3>2. waiting \in Seq(Samples) /\ Len(waiting) \in Nat /\ Len(waiting) # 0
      BY <1>0, <3>0, LenProperties, EmptySeq DEF StatusOK
    <3>3. /\ Head(waiting) = waiting[1] /\ Head(waiting) \in Samples
          /\ Tail(waiting) \in Seq(Samples) /\ Len(Tail(waiting)) = Len(waiting) - 1
          /\ \A i \in 1 .. Len(Tail(waiting)) : Tail(waiting)[i] = waiting[i + 1]
      BY <3>0, <3>2, HeadTailProperties
    <3>4. inHand' # NoSample BY <3>0, <3>3, Constants
    <3>5. CASE Len(waiting) = 1
      <4>1. waiting' = <<>> BY <3>0, <3>3, <3>5, EmptySeq
      <4>2. inHand' = verdict' BY <2>0, <3>0, <3>1, <3>3, <3>5
      <4>3. Newer' BY <4>1, <4>2, <3>4, Zenon DEF Newer
      <4> QED BY <4>3, <3>0, Zenon DEF Told, Ended
    <3>6. CASE Len(waiting) # 1
      <4>1. Len(Tail(waiting)) \in 1 .. Len(Tail(waiting)) BY <3>2, <3>3, <3>6
      <4>0. ASSUME Tail(waiting) = <<>> PROVE FALSE
        <5>1. Len(Tail(waiting)) = 0 BY <4>0, EmptySeq
        <5> DEFINE n == Len(waiting)
        <5> DEFINE m == Len(Tail(waiting))
        <5>2. n \in Nat /\ n # 0 /\ n # 1 /\ m = n - 1 /\ m = 0 BY <3>2, <3>3, <3>6, <5>1, Zenon
        <5> HIDE DEF n, m
        <5> QED BY <5>2
      <4>2. waiting' # <<>> BY <3>0, <4>0, Zenon
      <4>3. waiting'[Len(waiting')] = verdict' BY <2>0, <3>0, <3>1, <3>2, <3>3, <4>1
      <4>4. Newer' BY <4>2, <4>3, Zenon DEF Newer
      <4> QED BY <4>4, <3>0, Zenon DEF Told, Ended
    <3> QED BY <3>5, <3>6
  <2>2. ASSUME NEW m \in BOOLEAN, Publish(m) PROVE Told'
    <3>1. inHand # NoSample /\ inHand' = NoSample /\ UNCHANGED <<waiting, closed, alive>> BY <2>2 DEF Publish
    <3>2. erred' \/ shown' = inHand BY <2>2, Zenon DEF Publish
    <3>3. Newer' BY <2>0, <3>1, <3>2, Zenon DEF Told, Newer
    <3>4. Ended' BY <3>1, Zenon DEF Told, Ended
    <3> QED BY <3>3, <3>4 DEF Told
  <2>3. CASE End
    <3>1. Newer' BY <2>0, <2>3, Zenon DEF End, Told, Newer
    <3>2. Ended' BY <2>3, Zenon DEF End, EndsWhenEmpty, Ended
    <3> QED BY <3>1, <3>2 DEF Told
  <2>4. CASE Close BY <2>0, <2>4, Zenon DEF Close, Told, Newer, Ended
  <2>5. ("stream" \in failing) \in BOOLEAN OBVIOUS
  <2> QED BY <1>3, <2>1, <2>2, <2>3, <2>4, <2>5, Zenon DEF Stream
<1>4. UNCHANGED <<healthVars, streamVars>> \/ Health \/ Stream
  BY Zenon DEF Next, Callback, Joints, ImuSample, Deliver, LocalPose, GlobalPose, Fix, Sample, Passes, vars
<1> QED BY <1>1, <1>2, <1>3, <1>4

-----------------------------------------------------------------------------
(* READY has every source heard of *)

LEMMA InitTraced == Init => Traced
<1> SUFFICES ASSUME Init PROVE Traced OBVIOUS
<1>0. ClockOK /\ GnssOK /\ 0 \in Times BY InitTypes, Types, Constants
<1>1. Behind
  <2>1. \A s \in Sensors : ages[s] = raw[s] /\ raw[s] \in {0, Never} /\ now = 0 BY DEF Init, Sensors
  <2> QED BY <2>1 DEF Init, Behind, Never
<1>2. Halves BY DEF Init, Halves
<1>3. Posed
  <2>1. ages["fix"] = IF Steady("fix") THEN 0 ELSE Never BY DEF Init
  <2>2. CASE Steady("fix")
    <3>1. \A s \in Sides : <<0, s, TRUE>> \in taken BY <2>2, Zenon DEF Init
    <3> QED BY <2>1, <2>2, <3>1, Zenon DEF Posed, Heard
  <2> QED BY <2>1, <2>2, Zenon DEF Posed
<1>4. Honest
  <2>1. at # now BY DEF Init, Never
  <2> QED BY <2>1 DEF Honest
<1> QED BY <1>1, <1>2, <1>3, <1>4 DEF Traced

\* A source that was heard of lately enough stays so while time stands still.
LEMMA StaysHonest ==
  ASSUME ClockOK, ClockOK', Honest, UNCHANGED <<now, verdict, at>>, taken \subseteq taken',
         \A s \in Sensors : raw'[s] = raw[s] \/ raw'[s] = now
  PROVE  Honest'
<1> SUFFICES ASSUME at = now, verdict = "READY" PROVE Sound' BY DEF Honest
<1>1. Sound BY DEF Honest
<1>2. now \in Nat BY Constants DEF ClockOK
<1>3. ASSUME NEW s \in Sensors PROVE Younger(raw[s], LocalLimit)'
  <2>1. Younger(raw[s], LocalLimit) BY <1>1 DEF Sound
  <2>2. CASE raw'[s] = raw[s] BY <2>1, <2>2 DEF Younger
  <2>3. CASE raw'[s] = now
    <3>1. now # Never /\ now - now < LocalLimit BY <1>2, Constants DEF Never
    <3> QED BY <2>3, <3>1 DEF Younger
  <2> QED BY <2>2, <2>3
<1>4. PICK epoch \in Times : Heard(epoch, FALSE) /\ Younger(epoch, FixLimit) BY <1>1 DEF Sound
<1>5. Heard(epoch, FALSE)' BY <1>4, Zenon DEF Heard
<1>6. Younger(epoch, FixLimit)' BY <1>4 DEF Younger
<1> QED BY <1>3, <1>5, <1>6, Zenon DEF Sound

\* Measurements that are taken from a topic or handed over keep their order.
LEMMA StaysBehind ==
  ASSUME ClockOK, ClockOK', Behind, now' = now \/ now' = now + 1,
         \A s \in Sensors : raw'[s] = raw[s] \/ raw'[s] = now',
         \A s \in Sensors : \/ ages'[s] = ages[s] \/ ages'[s] = raw'[s]
                            \/ \E d \in delayed : d.kind = s /\ ages'[s] = d.stamp,
         \A d \in delayed' : d \in delayed \/ d.stamp = raw'[d.kind]
  PROVE  Behind'
<1>1. \A t \in Times \cup {Never} : t \in Int BY Integral, Zenon
<1>2. ASSUME NEW s \in Sensors PROVE raw[s] <= raw'[s] /\ raw'[s] <= now' /\ ages'[s] <= raw'[s]
  <2>1. raw[s] \in Times \cup {Never} /\ raw'[s] \in Times \cup {Never} /\ now \in Times /\ now' \in Times
        /\ ages[s] \in Times \cup {Never} /\ ages'[s] \in Times \cup {Never}
    BY DEF ClockOK
  <2>2. raw[s] \in Int /\ raw'[s] \in Int /\ now \in Int /\ now' \in Int /\ ages[s] \in Int /\ ages'[s] \in Int
    BY <2>1, <1>1, Zenon
  <2>3. ages[s] <= raw[s] /\ raw[s] <= now BY DEF Behind
  <2>4. raw[s] <= raw'[s] /\ raw'[s] <= now'
    <3>1. CASE raw'[s] = raw[s] BY <2>2, <2>3, <3>1
    <3>2. CASE raw'[s] = now' BY <2>2, <2>3, <3>2
    <3> QED BY <3>1, <3>2
  <2>5. ages'[s] <= raw'[s]
    <3>1. CASE ages'[s] = ages[s] BY <2>2, <2>3, <2>4, <3>1
    <3>2. CASE ages'[s] = raw'[s] BY <2>2, <3>2
    <3>3. ASSUME NEW d \in delayed, d.kind = s, ages'[s] = d.stamp PROVE ages'[s] <= raw'[s]
      <4>1. d.stamp <= raw[s] BY <3>3 DEF Behind
      <4> QED BY <2>2, <2>4, <3>3, <4>1
    <3> QED BY <3>1, <3>2, <3>3
  <2> QED BY <2>4, <2>5
<1>3. ASSUME NEW d \in delayed' PROVE d.stamp <= raw'[d.kind]
  <2>1. d.kind \in Sensors /\ d.stamp \in Times BY DEF ClockOK
  <2>2. raw[d.kind] \in Int /\ raw'[d.kind] \in Int /\ d.stamp \in Int
    BY <2>1, <1>1 DEF ClockOK
  <2>3. CASE d \in delayed
    <3>1. d.stamp <= raw[d.kind] BY <2>3 DEF Behind
    <3> QED BY <2>1, <2>2, <3>1, <1>2
  <2>4. CASE d.stamp = raw'[d.kind] BY <2>2, <2>4
  <2> QED BY <2>3, <2>4
<1> QED BY <1>2, <1>3 DEF Behind

\* With a half that arrives, each half that waits or arrives is received.
LEMMA Received ==
  ASSUME Halves, NEW epoch \in Times, NEW side \in Sides, NEW usable \in BOOLEAN,
         taken' = taken \cup {<<epoch, side, usable>>}
  PROVE  \A e \in Times, s \in Sides :
           <<e, s>> \in pairs \cup {<<epoch, side>>} => \E u \in BOOLEAN : <<e, s, u>> \in taken'
<1> SUFFICES ASSUME NEW e \in Times, NEW s \in Sides, <<e, s>> \in pairs \cup {<<epoch, side>>}
             PROVE  \E u \in BOOLEAN : <<e, s, u>> \in taken'
  OBVIOUS
<1>1. CASE <<e, s>> \in pairs BY <1>1, Zenon DEF Halves
<1>2. CASE e = epoch /\ s = side BY <1>2, Zenon
<1> QED BY <1>1, <1>2

LEMMA StepTraced == TypeOK /\ Traced /\ [Next]_vars => Traced'
<1> SUFFICES ASSUME TypeOK, Traced, [Next]_vars PROVE Traced' OBVIOUS
<1>0. ClockOK /\ FilterOK /\ GnssOK /\ StatusOK BY Types
<1>t. ClockOK' /\ GnssOK' BY StepTypes, Types
<1>i. Behind /\ Halves /\ Posed /\ Honest BY DEF Traced
\* A step that leaves the sensors, the antennas and the verdict alone.
<1>1. CASE UNCHANGED <<now, raw, delayed, ages, pairs, taken, verdict, at>>
  <2>1. Behind' BY <1>1, <1>i DEF Behind
  <2>2. Halves' BY <1>1, <1>i DEF Halves
  <2>3. Posed' BY <1>1, <1>i, Zenon DEF Posed, Heard
  <2>4. Honest' BY <1>1, <1>0, <1>t, <1>i, StaysHonest
  <2> QED BY <2>1, <2>2, <2>3, <2>4 DEF Traced
\* A step that only receives or hands over measurements.
<1>2. ASSUME UNCHANGED <<now, pairs, taken, verdict, at>>, ages'["fix"] = ages["fix"],
             \A s \in Sensors : raw'[s] = raw[s] \/ raw'[s] = now',
             \A s \in Sensors : ages'[s] = ages[s] \/ \E d \in delayed : d.kind = s /\ ages'[s] = d.stamp,
             \A d \in delayed' : d \in delayed \/ d.stamp = raw'[d.kind]
      PROVE  Traced'
  <2>1. Behind' BY <1>2, <1>0, <1>t, <1>i, StaysBehind
  <2>2. Halves' BY <1>2, <1>i DEF Halves
  <2>3. Posed' BY <1>2, <1>i, Zenon DEF Posed, Heard
  <2>4. Honest' BY <1>2, <1>0, <1>t, <1>i, StaysHonest
  <2> QED BY <2>1, <2>2, <2>3, <2>4 DEF Traced
<1>3. CASE Joints
  <2>1. /\ raw' = [raw EXCEPT !["wheel"] = now]
        /\ UNCHANGED <<now, ages, fixVars, healthVars>>
        /\ UNCHANGED delayed \/ Delayed("wheel")
    BY <1>3, Zenon DEF Joints
  <2>2. \A d \in delayed' : d \in delayed \/ d.stamp = raw'[d.kind]
    <3>1. CASE Delayed("wheel")
      <4>1. PICK item \in [due : Nat, kind : {"wheel"}, stamp : {now}] : delayed' = delayed \cup {item}
        BY <3>1, <1>0, DelayedTypes DEF Sensors
      <4>2. raw'["wheel"] = now BY <2>1, <1>0 DEF ClockOK, Sensors
      <4> QED BY <4>1, <4>2
    <3> QED BY <2>1, <3>1
  <2>3. \A s \in Sensors : raw'[s] = raw[s] \/ raw'[s] = now' BY <2>1, <1>0 DEF ClockOK
  <2> QED BY <2>1, <2>2, <2>3, <1>2 DEF fixVars, healthVars
<1>4. CASE ImuSample
  <2>1. /\ raw' = [raw EXCEPT !["imu"] = now] /\ Delayed("imu")
        /\ UNCHANGED <<now, ages, fixVars, healthVars>>
    BY <1>4, Zenon DEF ImuSample
  <2>2. \A d \in delayed' : d \in delayed \/ d.stamp = raw'[d.kind]
    <3>1. PICK item \in [due : Nat, kind : {"imu"}, stamp : {now}] : delayed' = delayed \cup {item}
      BY <2>1, <1>0, DelayedTypes DEF Sensors
    <3>2. raw'["imu"] = now BY <2>1, <1>0 DEF ClockOK, Sensors
    <3> QED BY <3>1, <3>2
  <2>3. \A s \in Sensors : raw'[s] = raw[s] \/ raw'[s] = now' BY <2>1, <1>0 DEF ClockOK
  <2> QED BY <2>1, <2>2, <2>3, <1>2 DEF fixVars, healthVars
<1>5. CASE Deliver
  <2>1. UNCHANGED <<now, raw, fixVars, healthVars>> /\ ages' = Ages(Due) /\ delayed' = delayed \ Due
    BY <1>5, Zenon DEF Deliver
  <2>2. ages'["fix"] = ages["fix"] BY <2>1, <1>0, Aged
  <2>3. \A s \in Sensors : ages'[s] = ages[s] \/ \E d \in delayed : d.kind = s /\ ages'[s] = d.stamp
    BY <2>1, <1>0, Aged
  <2>4. delayed' \subseteq delayed BY <2>1
  <2>5. UNCHANGED <<pairs, taken, verdict, at, raw>> BY <2>1 DEF fixVars, healthVars
  <2> QED BY <2>1, <2>2, <2>3, <2>4, <2>5, <1>2
<1>6. CASE LocalPose BY <1>6, <1>1 DEF LocalPose, sensorVars, fixVars, healthVars
<1>7. CASE GlobalPose BY <1>7, <1>1 DEF GlobalPose, sensorVars, fixVars, healthVars
<1>8. ASSUME NEW side \in Sides, Fix(side) PROVE Traced'
  <2>1. UNCHANGED <<now, raw, delayed, verdict, at>> BY <1>8, Zenon DEF Fix, healthVars
  <2>2. PICK epoch \in Times, usable \in BOOLEAN : Epoch(side, epoch, usable) BY <1>8, <1>0, Arrival, Zenon
  <2> DEFINE H == pairs \cup {<<epoch, side>>}
  <2>3. taken' = taken \cup {<<epoch, side, usable>>} BY <2>2 DEF Epoch
  <2>4. H \in SUBSET (Times \X Sides) BY <1>0 DEF GnssOK
  <2>5. Newest(H) \subseteq H BY <2>4, Stays, Zenon
  <2>6. \A e \in Times, s \in Sides : <<e, s>> \in H => \E u \in BOOLEAN : <<e, s, u>> \in taken'
    BY <2>3, <1>i, Received
  <2>7. Halves'
    <3>1. pairs' \subseteq H
      <4>1. pairs' = pairs \/ pairs' = Newest(H) \/ pairs' = Newest(H) \ ({epoch} \X Sides)
        BY <2>2, Zenon DEF Epoch
      <4> QED BY <4>1, <2>5
    <3> HIDE DEF H
    <3> QED BY <3>1, <2>6, Zenon DEF Halves
  <2>8. Posed'
    <3>1. CASE ages' = ages BY <3>1, <2>3, <1>i, Zenon DEF Posed, Heard
    <3>2. CASE ages' = [ages EXCEPT !["fix"] = epoch] /\ \A s \in Sides : <<epoch, s>> \in Newest(H)
      <4>1. ages'["fix"] = epoch BY <3>2, <1>0 DEF ClockOK
      <4>2. \A s \in Sides : \E u \in BOOLEAN : <<epoch, s, u>> \in taken' BY <3>2, <2>5, <2>6
      <4>3. Heard(epoch, FALSE)' BY <4>2, Zenon DEF Heard
      <4> QED BY <4>1, <4>3 DEF Posed
    <3> QED BY <2>2, <3>1, <3>2, Zenon DEF Epoch
  <2>9. \A s \in Sensors : ages'[s] = ages[s]
    <3>1. ages' = ages \/ ages' = [ages EXCEPT !["fix"] = epoch] BY <2>2, Zenon DEF Epoch
    <3> QED BY <3>1, <1>0 DEF ClockOK, Sensors
  <2>10. Behind' BY <2>1, <2>9, <1>0, <1>t, <1>i, StaysBehind
  <2>11. Honest' BY <2>1, <2>3, <1>0, <1>t, <1>i, StaysHonest
  <2> QED BY <2>7, <2>8, <2>10, <2>11 DEF Traced
<1>9. CASE Health
  <2>1. UNCHANGED <<now, raw, delayed, ages, pairs, taken>> /\ at' = now
    BY <1>9, <1>0, Judged DEF ClockOK, sensorVars, fixVars
  <2>2. Behind' BY <2>1, <1>i DEF Behind
  <2>3. Halves' BY <2>1, <1>i DEF Halves
  <2>4. Posed' BY <2>1, <1>i, Zenon DEF Posed, Heard
  <2>5. Honest'
    <3> SUFFICES ASSUME verdict' = "READY" PROVE Sound' BY DEF Honest
    <3>1. /\ \A s \in Sensors : Younger(ages[s], LocalLimit)
          /\ Younger(ages["fix"], FixLimit)
      BY <1>9 DEF Health
    <3>2. ASSUME NEW s \in Sensors PROVE Younger(raw[s], LocalLimit)
      <4>1. ages[s] \in Times \cup {Never} /\ raw[s] \in Times \cup {Never} /\ now \in Times BY <1>0 DEF ClockOK
      <4>2. ages[s] <= raw[s] /\ ages[s] # Never /\ now - ages[s] < LocalLimit
        BY <3>1, <1>i DEF Behind, Younger
      <4>3. ages[s] \in Int /\ raw[s] \in Int /\ now \in Int /\ ages[s] >= 0
        BY <4>1, <4>2, Integral, Zenon
      <4>4. raw[s] # Never /\ now - raw[s] < LocalLimit BY <4>2, <4>3, Constants DEF Never
      <4> QED BY <4>4 DEF Younger
    <3>3. Heard(ages["fix"], FALSE) /\ ages["fix"] \in Times
      BY <3>1, <1>0, <1>i DEF Posed, Younger, ClockOK
    <3>4. Sound BY <3>1, <3>2, <3>3 DEF Sound
    <3> QED BY <2>1, <3>4 DEF Sound, Younger, Heard
  <2> QED BY <2>2, <2>3, <2>4, <2>5 DEF Traced
<1>10. CASE Sample
  BY <1>10, <1>1 DEF Sample, sensorVars, healthVars
<1>11. CASE Passes
  <2>1. /\ UNCHANGED <<delayed, pairs, verdict, at>> /\ now' = now + 1 /\ at = now
        /\ raw' = [s \in Sensors |-> IF Steady(s) THEN now' ELSE raw[s]]
        /\ ages' = [a \in DOMAIN ages |-> IF Steady(a) THEN now' ELSE ages[a]]
        /\ taken' = taken \cup {<<now', s, TRUE>> : s \in IF Steady("fix") THEN Sides ELSE {}}
    BY <1>11 DEF Passes, healthVars
  <2>2. \A s \in Sensors : \/ raw'[s] = now' /\ ages'[s] = now'
                           \/ raw'[s] = raw[s] /\ ages'[s] = ages[s]
    BY <2>1, <1>0 DEF ClockOK
  <2>3. Behind' BY <2>1, <2>2, <1>0, <1>t, <1>i, StaysBehind
  <2>4. Halves' BY <2>1, <1>i, Zenon DEF Halves
  <2>5. Posed'
    <3>1. ages'["fix"] = IF Steady("fix") THEN now' ELSE ages["fix"] BY <2>1, <1>0 DEF ClockOK
    <3>2. CASE Steady("fix")
      <4>1. \A s \in Sides : <<now', s, TRUE>> \in taken' BY <2>1, <3>2, Zenon
      <4> QED BY <3>1, <3>2, <4>1, Zenon DEF Posed, Heard
    <3>3. CASE ~Steady("fix")
      <4>1. taken \subseteq taken' /\ ages'["fix"] = ages["fix"] BY <3>1, <3>3, <2>1
      <4> QED BY <4>1, <1>i, Zenon DEF Posed, Heard
    <3> QED BY <3>2, <3>3
  <2>6. Honest'
    <3>1. at' # now' BY <2>1, <1>0, Constants DEF ClockOK
    <3> QED BY <3>1 DEF Honest
  <2> QED BY <2>3, <2>4, <2>5, <2>6 DEF Traced
<1>12. CASE Stream
  <2>1. UNCHANGED <<now, failing, sensorVars, filterVars, fixVars, healthVars>> BY <1>12, <1>0, StreamTypes
  <2> QED BY <2>1, <1>1 DEF sensorVars, fixVars, healthVars
<1>13. CASE UNCHANGED vars BY <1>13, <1>1 DEF vars, sensorVars, fixVars, healthVars
<1> QED
  BY <1>3, <1>4, <1>5, <1>6, <1>7, <1>8, <1>9, <1>10, <1>11, <1>12, <1>13, Zenon DEF Next, Callback

-----------------------------------------------------------------------------
(* A pair is lost only to enough newer epochs *)

\* More epochs are received as time goes on, never fewer.
LEMMA Crowding ==
  ASSUME taken \subseteq taken', taken' \subseteq Times \X Sides \X BOOLEAN, NEW e \in Times
  PROVE  /\ IsFiniteSet(Later(e)') /\ Cardinality(Later(e)') \in Nat
         /\ Cardinality(Later(e)) >= MaxPairs => Cardinality(Later(e)') >= MaxPairs
         /\ Spoilt(e) => Spoilt(e)'
<1>1. Later(e)' \subseteq Times /\ Later(e) \subseteq Later(e)' BY DEF Later
<1>2. IsFiniteSet(Times) BY FS_Interval, Constants DEF Times
<1>3. IsFiniteSet(Later(e)') BY <1>1, <1>2, FS_Subset, Zenon
<1>4. IsFiniteSet(Later(e)) /\ Cardinality(Later(e)) <= Cardinality(Later(e)') BY <1>1, <1>3, FS_Subset
<1>5. Cardinality(Later(e)) \in Nat /\ Cardinality(Later(e)') \in Nat BY <1>3, <1>4, FS_CardinalityType
<1>6. Spoilt(e) => Spoilt(e)' BY Zenon DEF Spoilt
<1> QED BY <1>3, <1>4, <1>5, <1>6, Constants

\* A half that is given up is given up to newer epochs that were received.
LEMMA GivenUp ==
  ASSUME taken' \subseteq Times \X Sides \X BOOLEAN, NEW H \in SUBSET (Times \X Sides),
         \A e \in Times, s \in Sides : <<e, s>> \in H => \E u \in BOOLEAN : <<e, s, u>> \in taken',
         NEW e \in Times, NEW s \in Sides, <<e, s>> \in H, <<e, s>> \notin Newest(H)
  PROVE  Cardinality(Later(e)') >= MaxPairs
<1> DEFINE N == {g[1] : g \in {k \in H : k[1] > e}}
<1>1. ~(Cardinality(N) < MaxPairs) BY Stays, Zenon
<1>2. N \subseteq Later(e)'
  <2> SUFFICES ASSUME NEW k \in H, k[1] > e PROVE k[1] \in Later(e)' BY Zenon
  <2>1. k = <<k[1], k[2]>> /\ k[1] \in Times /\ k[2] \in Sides OBVIOUS
  <2>2. PICK u \in BOOLEAN : <<k[1], k[2], u>> \in taken' BY <2>1
  <2>3. <<k[1], k[2], u>>[1] = k[1] OBVIOUS
  <2> QED BY <2>2, <2>3 DEF Later
<1>3. Later(e)' \subseteq Times BY DEF Later
<1>4. IsFiniteSet(Times) BY FS_Interval, Constants DEF Times
<1>5. IsFiniteSet(Later(e)') BY <1>3, <1>4, FS_Subset, Zenon
<1> HIDE DEF N
<1>6. IsFiniteSet(N) /\ Cardinality(N) <= Cardinality(Later(e)') BY <1>2, <1>5, FS_Subset
<1>7. Cardinality(N) \in Nat /\ Cardinality(Later(e)') \in Nat BY <1>5, <1>6, FS_CardinalityType
<1> QED BY <1>1, <1>6, <1>7, Constants

LEMMA InitPaired == Init => Paired
<1> SUFFICES ASSUME Init PROVE Paired OBVIOUS
<1>1. \A s \in Sides : inbox[s] = <<>> /\ Len(inbox[s]) = 0
  <2>1. \A s \in Sides : inbox[s] = <<>> BY DEF Init
  <2>2. Len(<<>>) = 0 BY EmptySeq
  <2> QED BY <2>1, <2>2
<1>2. /\ now = 0 /\ pairs = {} /\ slot = IF Steady("fix") THEN 0 ELSE Never
      /\ ages["fix"] = IF Steady("fix") THEN 0 ELSE Never
      /\ taken = IF Steady("fix") THEN {<<0, s, TRUE>> : s \in Sides} ELSE {}
  BY DEF Init
<1>3. \A e, s, u : <<e, s, u>> \in taken => e = 0 /\ u = TRUE /\ Steady("fix")
  <2> SUFFICES ASSUME NEW e, NEW s, NEW u, <<e, s, u>> \in taken
               PROVE  e = 0 /\ u = TRUE /\ Steady("fix")
    OBVIOUS
  <2>1. Steady("fix") BY <1>2
  <2>2. PICK r \in Sides : <<e, s, u>> = <<0, r, TRUE>> BY <1>2, <2>1, Zenon
  <2> QED BY <2>1, <2>2, Zenon
<1>4. Arrives
  <2>1. slot <= now BY <1>2 DEF Never
  <2>2. \A s \in Sides, e \in Times, u \in BOOLEAN : <<e, s, u>> \in taken => e <= slot
    <3> SUFFICES ASSUME NEW s \in Sides, NEW e \in Times, NEW u \in BOOLEAN, <<e, s, u>> \in taken
                 PROVE  e <= slot
      OBVIOUS
    <3>1. e = 0 /\ Steady("fix") BY <1>3, Zenon
    <3> QED BY <1>2, <3>1
  <2>3. \A s \in Sides : \A i \in 1 .. Len(inbox[s]) : FALSE BY <1>1
  <2>4. Steady("fix") => slot = now /\ ages["fix"] = now BY <1>2
  <2> QED BY <1>1, <2>1, <2>2, <2>3, <2>4, Zenon DEF Arrives
<1>5. Once BY <1>3, Zenon DEF Once
<1>6. Waits
  <2> SUFFICES ASSUME NEW e \in Times, NEW s \in Sides, <<e, s, TRUE>> \in taken, e > ages["fix"] PROVE FALSE
    BY Zenon DEF Waits
  <2>1. e = 0 /\ ages["fix"] = 0 BY <1>2, <1>3
  <2> QED BY <2>1
<1>7. Single BY <1>2 DEF Single, Sides
<1> QED BY <1>4, <1>5, <1>6, <1>7 DEF Paired

\* The queues of a side while a half leaves it.
LEMMA Leaves ==
  ASSUME ClockOK, GnssOK, Paired, NEW side \in Sides, NEW epoch \in Times, NEW usable \in BOOLEAN,
         Epoch(side, epoch, usable), UNCHANGED <<now, failing, slot>>
  PROVE  /\ Arrives' /\ Once'
         /\ \A u \in BOOLEAN : <<epoch, side, u>> \notin taken
<1>0. Arrives /\ Once BY DEF Paired
<1> DEFINE q == inbox[side]
<1>1. q \in Seq(Times) /\ q # <<>> /\ epoch = Head(q) /\ inbox' = [inbox EXCEPT ![side] = Tail(q)]
      /\ taken' = taken \cup {<<epoch, side, usable>>}
  BY DEF Epoch, GnssOK
<1>2. \A s \in Sides : inbox'[s] = IF s = side THEN Tail(q) ELSE inbox[s] BY <1>1 DEF GnssOK
<1>3. /\ Len(q) \in Nat \ {0} /\ epoch = q[1]
      /\ Len(Tail(q)) = Len(q) - 1 /\ \A i \in 1 .. Len(Tail(q)) : Tail(q)[i] = q[i + 1]
  BY <1>1, EmptySeq, HeadTailProperties
<1>4. \A i \in 1 .. Len(q) : q[i] \in Times BY <1>1, ElementOfSeq
<1>5. /\ \A i \in 1 .. Len(q) : q[i] <= slot
      /\ \A i, j \in 1 .. Len(q) : i < j => q[i] < q[j]
      /\ \A e \in Times, u \in BOOLEAN : <<e, side, u>> \in taken => \A i \in 1 .. Len(q) : e < q[i]
  BY <1>0 DEF Arrives
<1>6. \A u \in BOOLEAN : <<epoch, side, u>> \notin taken
  <2> SUFFICES ASSUME NEW u \in BOOLEAN, <<epoch, side, u>> \in taken PROVE FALSE OBVIOUS
  <2>1. epoch < q[1] BY <1>3, <1>5
  <2> QED BY <1>3, <2>1, Constants
<1>7. Once'
  <2> SUFFICES ASSUME NEW e \in Times, NEW s \in Sides, <<e, s, TRUE>> \in taken', <<e, s, FALSE>> \in taken'
               PROVE  FALSE
    BY Zenon DEF Once
  <2>1. CASE e = epoch /\ s = side
    <3>1. <<epoch, side, TRUE>> \notin taken /\ <<epoch, side, FALSE>> \notin taken BY <1>6, Zenon
    <3>2. <<epoch, side, TRUE>> = <<epoch, side, usable>> /\ <<epoch, side, FALSE>> = <<epoch, side, usable>>
      BY <1>1, <2>1, <3>1, Zenon
    <3> QED BY <3>2, Zenon
  <2>2. CASE ~(e = epoch /\ s = side)
    <3>1. <<e, s, TRUE>> \in taken /\ <<e, s, FALSE>> \in taken BY <1>1, <2>2, Zenon
    <3> QED BY <3>1, <1>0, Zenon DEF Once
  <2> QED BY <2>1, <2>2
<1>8. Arrives'
  <2> DEFINE t == Tail(q)
  <2>0. \A s \in Sides : inbox'[s] = IF s = side THEN t ELSE inbox[s] BY <1>2
  <2>1. \A i \in 1 .. Len(t) : i + 1 \in 1 .. Len(q) /\ 1 < i + 1 /\ t[i] = q[i + 1] BY <1>3
  <2> HIDE DEF t
  <2>2. \A i \in 1 .. Len(t) : t[i] <= slot BY <1>5, <2>1
  <2>3. \A i, j \in 1 .. Len(t) : i < j => t[i] < t[j]
    <3> SUFFICES ASSUME NEW i \in 1 .. Len(t), NEW j \in 1 .. Len(t), i < j PROVE t[i] < t[j] OBVIOUS
    <3>1. i + 1 < j + 1 OBVIOUS
    <3> QED BY <1>5, <2>1, <3>1
  <2>4. \A i \in 1 .. Len(t) : epoch < t[i]
    <3>1. 1 \in 1 .. Len(q) BY <1>3
    <3> QED BY <1>3, <1>5, <2>1, <3>1
  <2>5. epoch <= slot
    <3>1. 1 \in 1 .. Len(q) BY <1>3
    <3> QED BY <1>3, <1>5, <3>1
  <2> HIDE DEF q
  <2>6. ASSUME NEW s \in Sides, NEW e \in Times, NEW u \in BOOLEAN, <<e, s, u>> \in taken'
        PROVE  e <= slot' /\ \A i \in 1 .. Len(inbox'[s]) : e < inbox'[s][i]
    <3>1. CASE <<e, s, u>> \in taken
      <4>1. e <= slot BY <3>1, <1>0, Zenon DEF Arrives
      <4>2. CASE s = side
        <5>1. \A i \in 1 .. Len(q) : e < q[i] BY <1>5, <3>1, <4>2, Zenon
        <5>2. \A i \in 1 .. Len(t) : e < t[i] BY <5>1, <2>1
        <5> QED BY <2>0, <4>1, <4>2, <5>2
      <4>3. CASE s # side
        <5>1. inbox'[s] = inbox[s] BY <2>0, <4>3
        <5>2. \A i \in 1 .. Len(inbox[s]) : e < inbox[s][i] BY <3>1, <1>0, Zenon DEF Arrives
        <5> QED BY <4>1, <5>1, <5>2
      <4> QED BY <4>2, <4>3
    <3>2. CASE <<e, s, u>> \notin taken
      <4>1. <<e, s, u>> = <<epoch, side, usable>> BY <1>1, <2>6, <3>2, Zenon
      <4>2. e = epoch /\ s = side BY <4>1, Zenon
      <4> QED BY <2>0, <2>4, <2>5, <4>2
    <3> QED BY <3>1, <3>2
  <2>7. ~Steady("fix") /\ ~Steady("fix")'
    <3>1. inbox[side] # <<>> BY <1>1 DEF q
    <3> QED BY <1>0, <3>1, Zenon DEF Arrives, Steady
  <2>8. ASSUME NEW s \in Sides
        PROVE  /\ \A i \in 1 .. Len(inbox'[s]) : inbox'[s][i] <= slot'
               /\ \A i, j \in 1 .. Len(inbox'[s]) : i < j => inbox'[s][i] < inbox'[s][j]
    <3>1. CASE s = side BY <3>1, <2>0, <2>2, <2>3
    <3>2. CASE s # side BY <3>2, <2>0, <1>0 DEF Arrives
    <3> QED BY <3>1, <3>2
  <2>9. slot' <= now' BY <1>0 DEF Arrives
  <2> QED BY <2>6, <2>7, <2>8, <2>9, Zenon DEF Arrives
<1> QED BY <1>6, <1>7, <1>8

LEMMA StepPaired == TypeOK /\ Halves /\ Paired /\ [Next]_vars => Paired'
<1> SUFFICES ASSUME TypeOK, Halves, Paired, [Next]_vars PROVE Paired' OBVIOUS
<1>0. ClockOK /\ FilterOK /\ GnssOK /\ StatusOK BY Types
<1>t. ClockOK' /\ GnssOK' BY StepTypes, Types
<1>i. Arrives /\ Once /\ Waits /\ Single BY DEF Paired
\* A step that leaves the antennas alone.
<1>1. ASSUME UNCHANGED <<now, failing, slot, inbox, pairs, taken>>, ages'["fix"] = ages["fix"] PROVE Paired'
  <2>1. Arrives' BY <1>1, <1>i DEF Arrives, Steady
  <2>2. Once' BY <1>1, <1>i, Zenon DEF Once
  <2>3. Waits' BY <1>1, <1>i DEF Waits, Later, Spoilt
  <2>4. Single' BY <1>1, <1>i DEF Single
  <2> QED BY <2>1, <2>2, <2>3, <2>4 DEF Paired
<1>2. CASE Joints BY <1>1, <1>2 DEF Joints, fixVars
<1>3. CASE ImuSample BY <1>1, <1>3 DEF ImuSample, fixVars
<1>4. CASE Deliver
  <2>1. ages' = Ages(Due) /\ UNCHANGED <<now, failing, fixVars>> BY <1>4, Zenon DEF Deliver
  <2>2. ages'["fix"] = ages["fix"] BY <2>1, <1>0, Aged
  <2> QED BY <1>1, <2>1, <2>2 DEF fixVars
<1>5. CASE LocalPose BY <1>1, <1>5 DEF LocalPose, sensorVars, fixVars
<1>6. CASE GlobalPose BY <1>1, <1>6 DEF GlobalPose, sensorVars, fixVars
<1>7. ASSUME NEW side \in Sides, Fix(side) PROVE Paired'
  <2>0. UNCHANGED <<now, failing, slot>> BY <1>7, Zenon DEF Fix
  <2>1. PICK epoch \in Times, usable \in BOOLEAN : Epoch(side, epoch, usable) BY <1>7, <1>0, Arrival, Zenon
  <2>2. Arrives' /\ Once' BY <2>0, <2>1, <1>0, Leaves
  <2> DEFINE H == pairs \cup {<<epoch, side>>}
  <2>3. taken' = taken \cup {<<epoch, side, usable>>} BY <2>1 DEF Epoch
  <2>4. H \in SUBSET (Times \X Sides) BY <1>0 DEF GnssOK
  <2>5. \A e \in Times, s \in Sides : <<e, s>> \in H => \E u \in BOOLEAN : <<e, s, u>> \in taken'
    BY <2>3, Received
  <2>6. taken' \subseteq Times \X Sides \X BOOLEAN /\ taken \subseteq taken' BY <2>3, <1>t DEF GnssOK
  <2>7. Newest(H) \subseteq H BY <2>4, Stays, Zenon
  <2>8. \/ epoch <= ages["fix"] /\ pairs' = pairs /\ ages' = ages
        \/ ages' = ages /\ pairs' = Newest(H) /\ \E s \in Sides : <<epoch, s>> \notin pairs'
        \/ /\ pairs' = Newest(H) \ ({epoch} \X Sides)
           /\ \/ usable = FALSE /\ ages' = ages
              \/ usable = TRUE /\ epoch > ages["fix"] /\ ages' = [ages EXCEPT !["fix"] = epoch]
    BY <2>1, Zenon DEF Epoch
  <2>9. Waits'
    <3> SUFFICES ASSUME NEW e \in Times, NEW s \in Sides, <<e, s, TRUE>> \in taken', e > ages'["fix"],
                        ~(Cardinality(Later(e)') >= MaxPairs), ~Spoilt(e)'
                 PROVE  <<e, s>> \in pairs'
      BY Zenon DEF Waits
    <3>1. e > ages["fix"]
      <4>1. ages["fix"] \in Int /\ e \in Int BY <1>0, Integral DEF ClockOK
      <4>2. ages'["fix"] = ages["fix"] \/ (ages'["fix"] = epoch /\ epoch > ages["fix"])
        BY <2>8, <1>0 DEF ClockOK
      <4> QED BY <4>1, <4>2, Integral
    <3>2. ~(Cardinality(Later(e)) >= MaxPairs) /\ ~Spoilt(e) BY <2>6, Crowding, Zenon
    <3>3. <<e, s, TRUE>> \in taken => <<e, s>> \in pairs BY <3>1, <3>2, <1>i, Zenon DEF Waits
    <3>4. <<e, s>> \in H
      <4>1. CASE <<e, s, TRUE>> \in taken BY <3>3, <4>1
      <4>2. CASE <<e, s, TRUE>> \notin taken
        <5>1. <<e, s, TRUE>> = <<epoch, side, usable>> BY <2>3, <4>2, Zenon
        <5>2. e = epoch /\ s = side BY <5>1, Zenon
        <5> QED BY <5>2
      <4> QED BY <4>1, <4>2
    <3>5. <<e, s>> \in Newest(H) BY <2>4, <2>5, <2>6, <3>4, GivenUp, Zenon
    <3>6. CASE epoch <= ages["fix"] /\ pairs' = pairs
      <4>1. e # epoch BY <3>1, <3>6, <1>0, Integral DEF ClockOK
      <4> QED BY <3>4, <3>6, <4>1
    <3>7. CASE pairs' = Newest(H) BY <3>5, <3>7
    <3>8. CASE pairs' = Newest(H) \ ({epoch} \X Sides) /\ usable = FALSE
      <4>1. <<epoch, side, FALSE>> \in taken' BY <2>3, <3>8, Zenon
      <4>2. e # epoch BY <4>1, Zenon DEF Spoilt
      <4> QED BY <3>5, <3>8, <4>2
    <3>9. CASE pairs' = Newest(H) \ ({epoch} \X Sides) /\ ages' = [ages EXCEPT !["fix"] = epoch]
      <4>1. ages'["fix"] = epoch BY <3>9, <1>0 DEF ClockOK
      <4>2. e # epoch BY <4>1, Integral
      <4> QED BY <3>5, <3>9, <4>2
    <3> QED BY <2>8, <3>6, <3>7, <3>8, <3>9, Zenon
  <2>10. Single'
    <3> SUFFICES ASSUME NEW e \in Times PROVE \E s \in Sides : <<e, s>> \notin pairs' BY DEF Single
    <3>1. CASE e = epoch
      <4>1. CASE pairs' = pairs BY <4>1, <1>i, Zenon DEF Single
      <4>2. CASE \E s \in Sides : <<epoch, s>> \notin pairs' BY <3>1, <4>2
      <4>3. CASE pairs' = Newest(H) \ ({epoch} \X Sides) BY <3>1, <4>3
      <4> QED BY <2>8, <4>1, <4>2, <4>3, Zenon
    <3>2. CASE e # epoch
      <4>1. PICK s \in Sides : <<e, s>> \notin pairs BY <1>i DEF Single
      <4>2. <<e, s>> \notin H BY <3>2, <4>1
      <4>3. pairs' \subseteq H
        <5>1. pairs' = pairs \/ pairs' = Newest(H) \/ pairs' = Newest(H) \ ({epoch} \X Sides)
          BY <2>8, Zenon
        <5> QED BY <5>1, <2>7
      <4> QED BY <4>1, <4>2, <4>3, Zenon
    <3> QED BY <3>1, <3>2
  <2> QED BY <2>2, <2>9, <2>10 DEF Paired
<1>8. CASE Health
  <2>1. UNCHANGED <<now, failing, sensorVars, fixVars>> BY <1>8, <1>0, Judged DEF ClockOK
  <2> QED BY <1>1, <2>1 DEF sensorVars, fixVars
<1>9. CASE Sample
  <2>1. /\ UNCHANGED <<now, failing, ages, pairs, taken>> /\ slot < now /\ slot' = now
    BY <1>9 DEF Sample, sensorVars
  <2>2. PICK received \in SUBSET Sides :
          inbox' = [s \in Sides |-> IF s \in received THEN Append(inbox[s], now) ELSE inbox[s]]
    BY <1>9 DEF Sample
  <2>3. slot \in Int /\ now \in Int BY <1>0, Integral DEF ClockOK, GnssOK
  <2>4. ~Steady("fix") /\ ~Steady("fix")' BY <2>1, <2>3, <1>i DEF Arrives, Steady
  <2>5. ASSUME NEW s \in Sides
        PROVE  /\ \A i \in 1 .. Len(inbox'[s]) : inbox'[s][i] <= now
               /\ \A i, j \in 1 .. Len(inbox'[s]) : i < j => inbox'[s][i] < inbox'[s][j]
               /\ \A e \in Times, u \in BOOLEAN : <<e, s, u>> \in taken =>
                    e <= now /\ \A i \in 1 .. Len(inbox'[s]) : e < inbox'[s][i]
    <3> DEFINE q == inbox[s]
    <3> DEFINE r == inbox'[s]
    <3>1. q \in Seq(Times) /\ now \in Times BY <1>0 DEF GnssOK, ClockOK
    <3>2. r = q \/ r = Append(q, now) BY <2>2
    <3>3. Len(q) \in Nat /\ \A i \in 1 .. Len(q) : q[i] \in Int /\ q[i] <= slot
      BY <3>1, <1>i, LenProperties, ElementOfSeq, Integral DEF Arrives
    <3>4. /\ \A i, j \in 1 .. Len(q) : i < j => q[i] < q[j]
          /\ \A e \in Times, u \in BOOLEAN : <<e, s, u>> \in taken =>
               e <= slot /\ \A i \in 1 .. Len(q) : e < q[i]
      BY <1>i DEF Arrives
    <3>5. /\ \A i \in 1 .. Len(r) : (i \in 1 .. Len(q) /\ r[i] = q[i]) \/ (r[i] = now /\ i = Len(q) + 1)
          /\ Len(r) \in Nat
      <4>1. CASE r = q BY <3>3, <4>1
      <4>2. CASE r = Append(q, now)
        <5>1. Len(r) = Len(q) + 1 /\ r[Len(q) + 1] = now /\ \A i \in 1 .. Len(q) : r[i] = q[i]
          BY <3>1, <4>2, AppendProperties
        <5> HIDE DEF q, r
        <5> QED BY <3>3, <5>1
      <4> QED BY <3>2, <4>1, <4>2
    <3> HIDE DEF q, r
    <3>6. \A i \in 1 .. Len(r) : r[i] <= now BY <2>1, <2>3, <3>3, <3>5
    <3>7. \A i, j \in 1 .. Len(r) : i < j => r[i] < r[j]
      <4> SUFFICES ASSUME NEW i \in 1 .. Len(r), NEW j \in 1 .. Len(r), i < j PROVE r[i] < r[j] OBVIOUS
      <4>1. CASE i \in 1 .. Len(q) /\ r[i] = q[i] /\ j \in 1 .. Len(q) /\ r[j] = q[j] BY <3>4, <4>1
      <4>2. CASE i \in 1 .. Len(q) /\ r[i] = q[i] /\ r[j] = now BY <2>1, <2>3, <3>3, <4>2
      <4>3. CASE i = Len(q) + 1 BY <3>3, <3>5, <4>3
      <4> QED BY <3>5, <4>1, <4>2, <4>3
    <3>8. ASSUME NEW e \in Times, NEW u \in BOOLEAN, <<e, s, u>> \in taken
          PROVE  e <= now /\ \A i \in 1 .. Len(r) : e < r[i]
      <4>1. e <= slot /\ \A i \in 1 .. Len(q) : e < q[i] BY <3>4, <3>8, Zenon
      <4>2. e \in Int BY Integral
      <4>3. e < now BY <2>1, <2>3, <4>1, <4>2
      <4> QED BY <2>3, <3>5, <4>1, <4>2, <4>3
    <3> QED BY <3>6, <3>7, <3>8, Zenon DEF r
  <2>6. Arrives'
    <3>1. slot' <= now' BY <2>1, <2>3
    <3> QED BY <2>1, <2>4, <2>5, <3>1, Zenon DEF Arrives
  <2>7. Once' BY <2>1, <1>i, Zenon DEF Once
  <2>8. Waits' BY <2>1, <1>i DEF Waits, Later, Spoilt
  <2>9. Single' BY <2>1, <1>i DEF Single
  <2> QED BY <2>6, <2>7, <2>8, <2>9 DEF Paired
<1>10. CASE Passes
  <2>1. /\ UNCHANGED <<failing, inbox, pairs>> /\ now' = now + 1
        /\ ages' = [a \in DOMAIN ages |-> IF Steady(a) THEN now' ELSE ages[a]]
        /\ slot' = IF Steady("fix") THEN now' ELSE slot
        /\ taken' = taken \cup {<<now', s, TRUE>> : s \in IF Steady("fix") THEN Sides ELSE {}}
    BY <1>10 DEF Passes
  <2>2. ages'["fix"] = IF Steady("fix") THEN now' ELSE ages["fix"] BY <2>1, <1>0 DEF ClockOK
  <2>3. slot \in Int /\ now \in Int BY <1>0, Integral DEF ClockOK, GnssOK
  <2>4. CASE ~Steady("fix")
    <3>1. slot' = slot /\ taken' = taken /\ ages'["fix"] = ages["fix"] /\ ~Steady("fix")'
      BY <2>1, <2>2, <2>4 DEF Steady
    <3>2. slot' <= now' BY <2>1, <2>3, <3>1, <1>i DEF Arrives
    <3>3. Arrives' BY <2>1, <3>1, <3>2, <1>i, Zenon DEF Arrives
    <3>4. Once' BY <3>1, <1>i, Zenon DEF Once
    <3>5. Waits' BY <2>1, <3>1, <1>i DEF Waits, Later, Spoilt
    <3>6. Single' BY <2>1, <1>i DEF Single
    <3> QED BY <3>3, <3>4, <3>5, <3>6 DEF Paired
  <2>5. CASE Steady("fix")
    <3>1. slot = now /\ slot' = now' /\ ages'["fix"] = now' /\ \A s \in Sides : inbox'[s] = <<>>
      BY <2>1, <2>2, <2>5, <1>i DEF Arrives
    <3>2. \A s \in Sides : Len(inbox'[s]) = 0
      <4>1. Len(<<>>) = 0 BY EmptySeq
      <4> QED BY <3>1, <4>1
    <3>3. \A s \in Sides : \A i \in 1 .. Len(inbox'[s]) : FALSE BY <3>2
    <3>4. \A e \in Times, s \in Sides, u \in BOOLEAN : <<e, s, u>> \in taken' =>
            (<<e, s, u>> \in taken /\ e <= now) \/ (e = now' /\ u = TRUE)
      <4> SUFFICES ASSUME NEW e \in Times, NEW s \in Sides, NEW u \in BOOLEAN,
                          <<e, s, u>> \in taken', ~(e = now' /\ u = TRUE)
                   PROVE  <<e, s, u>> \in taken /\ e <= now
        BY Zenon
      <4>1. <<e, s, u>> \in taken BY <2>1, Zenon
      <4>2. e <= slot BY <4>1, <1>i, Zenon DEF Arrives
      <4> QED BY <3>1, <4>1, <4>2
    <3>5. now' \in Int /\ ~(now' <= now) BY <2>1, <2>3
    <3>6. Arrives'
      <4>1. \A e \in Times, s \in Sides, u \in BOOLEAN : <<e, s, u>> \in taken' => e <= slot'
        <5> SUFFICES ASSUME NEW e \in Times, NEW s \in Sides, NEW u \in BOOLEAN, <<e, s, u>> \in taken'
                     PROVE  e <= slot'
          OBVIOUS
        <5>1. e <= now \/ e = now' BY <3>4, Zenon
        <5> QED BY <2>1, <2>3, <3>1, <5>1, Integral
      <4>2. slot' <= now' BY <3>1, <3>5
      <4> QED BY <3>1, <3>3, <4>1, <4>2, Zenon DEF Arrives
    <3>7. Once'
      <4> SUFFICES ASSUME NEW e \in Times, NEW s \in Sides, <<e, s, TRUE>> \in taken', <<e, s, FALSE>> \in taken'
                   PROVE  FALSE
        BY Zenon DEF Once
      <4>1. <<e, s, FALSE>> \in taken /\ e <= now BY <3>4, Zenon
      <4>2. <<e, s, TRUE>> \in taken BY <3>4, <3>5, <4>1, Zenon
      <4> QED BY <4>1, <4>2, <1>i, Zenon DEF Once
    <3>8. Waits'
      <4> SUFFICES ASSUME NEW e \in Times, NEW s \in Sides, <<e, s, TRUE>> \in taken', e > ages'["fix"]
                   PROVE  FALSE
        BY Zenon DEF Waits
      <4>1. e <= now \/ e = now' BY <3>4, Zenon
      <4> QED BY <2>1, <2>3, <3>1, <4>1, Integral
    <3>9. Single' BY <2>1, <1>i DEF Single
    <3> QED BY <3>6, <3>7, <3>8, <3>9 DEF Paired
  <2> QED BY <2>4, <2>5
<1>11. CASE Stream
  <2>1. UNCHANGED <<now, failing, sensorVars, filterVars, fixVars, healthVars>> BY <1>11, <1>0, StreamTypes
  <2> QED BY <2>1, <1>1 DEF sensorVars, fixVars
<1>12. CASE UNCHANGED vars BY <1>12, <1>1 DEF vars, sensorVars, fixVars
<1> QED
  BY <1>2, <1>3, <1>4, <1>5, <1>6, <1>7, <1>8, <1>9, <1>10, <1>11, <1>12, Zenon DEF Next, Callback

-----------------------------------------------------------------------------
(* The properties *)

LEMMA AlwaysAdapter == Spec => []AdapterInv
<1>1. Init => AdapterInv BY InitTypes, InitTold, InitTraced, InitPaired DEF AdapterInv
<1>2. AdapterInv /\ [Next]_vars => AdapterInv'
  BY StepTypes, StepTold, StepTraced, StepPaired DEF AdapterInv, Traced
<1> QED BY <1>1, <1>2, PTL DEF Spec

\* What the readers are shown once the stream has caught up, or its thread has
\* ended, is the newest verdict health() made, whatever was dropped on the way.
THEOREM NewestVerdictIsShown == Spec => []NewestIsShown
<1>1. AdapterInv => NewestIsShown
  BY Zenon DEF AdapterInv, Told, Newer, Ended, NewestIsShown, CaughtUp
<1> QED BY <1>1, AlwaysAdapter, PTL

\* A reader who is told READY of this moment is told so of wheels and IMU that
\* were heard within their limit and of an epoch both antennas were heard of.
THEOREM OutagesAreNoticed == Spec => []OutageIsNoticed
<1>1. AdapterInv => OutageIsNoticed
  <2> SUFFICES ASSUME AdapterInv, CaughtUp, at = now, shown = "READY" PROVE Sound BY DEF OutageIsNoticed
  <2>1. shown = verdict BY Zenon DEF AdapterInv, Told, Newer, CaughtUp
  <2> QED BY <2>1, Zenon DEF AdapterInv, Traced, Honest
<1> QED BY <1>1, AlwaysAdapter, PTL

\* A pair both halves of which could have made a pose makes one, or one of a
\* later epoch is made, unless gnss() has since taken enough newer epochs.
THEOREM PairsAreUsed == Spec => []EveryPairIsUsed
<1>1. AdapterInv => EveryPairIsUsed
  <2> SUFFICES ASSUME AdapterInv, NEW epoch \in Times, Heard(epoch, TRUE), epoch > ages["fix"]
               PROVE  Cardinality(Later(epoch)) >= MaxPairs
    BY DEF EveryPairIsUsed, Later
  <2>1. \A s \in Sides : <<epoch, s, TRUE>> \in taken BY Zenon DEF Heard
  <2>2. ~Spoilt(epoch) BY <2>1, Zenon DEF AdapterInv, Paired, Once, Spoilt
  <2>3. PICK s \in Sides : <<epoch, s>> \notin pairs BY DEF AdapterInv, Paired, Single
  <2> QED BY <2>1, <2>2, <2>3, Zenon DEF AdapterInv, Paired, Waits
<1> QED BY <1>1, AlwaysAdapter, PTL
=============================================================================

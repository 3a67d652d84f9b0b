------------------------- MODULE MeasurementAdapter -------------------------
(***************************************************************************)
(* The localization front end (agv_localization): the measurement adapter  *)
(* with its delivery queue, the simulated GNSS receiver that feeds it and  *)
(* the status stream by which it lets a mission run or stops it.           *)
(*                                                                         *)
(* Time is a small number of units, counted up to a horizon; a stamp is a  *)
(* time.  Values are left out: a measurement is its stamp, an antenna fix  *)
(* its epoch and side.  The adapter is one single-threaded ROS process, so *)
(* each callback is one action.                                            *)
(***************************************************************************)
EXTENDS StatusStream, Integers, FiniteSetsExt

CONSTANTS
  Parts,         \* the sets of parts that may be late or silent together in a run
  LocalLimit,    \* age limit of wheels, IMU and filters (0.1 s)
  FixLimit,      \* age limit of the GNSS pose (0.5 s)
  Rebase,        \* samples of a wheel further apart make no speed (0.2 s)
  MaxPairs,      \* half pairs kept (8)
  StillSamples,  \* stationary_tilt_samples
  Delays,        \* what delay_sample may draw
  Horizon        \* bound: the last time

ASSUME PartsAssumption == Parts \subseteq SUBSET {"wheel", "imu", "fix", "local", "global", "disk", "stream"}
ASSUME LimitsAssumption == {LocalLimit, FixLimit, Rebase, MaxPairs, StillSamples} \subseteq Nat \ {0}
ASSUME TimeAssumption == Delays \subseteq Nat /\ Horizon \in Nat

Never == -1
Sensors == {"wheel", "imu"}
Sides == {"left", "right"}
Times == 0..Horizon
Verdicts == {"READY", "NOT_READY"}
ASSUME VerdictsAssumption == Verdicts \subseteq Samples

VARIABLES
  now,
  failing,    \* the parts that may be late or silent in this run
  raw,        \* the last stamp taken from each sensor's topic
  delayed,    \* the DeliveryQueue's items; all that is due is handed over at once
  ages,       \* the newest measurement handed to the filters
  rolling,    \* the encoders last measured a speed
  still,      \* samples in the stationary window
  tiltReady,
  poses,      \* the local filter's poses received
  archived,   \* the global filter's last pose
  slot,       \* the last epoch the receiver sampled
  inbox,      \* antenna fixes on their way, per side
  pairs,      \* halves waiting for their other half
  taken,      \* history: the halves taken, and whether a pose could be computed then
  errors,     \* the navigation archive lost a record
  verdict, at \* the last verdict offered, and when

sensorVars == <<raw, delayed, ages, rolling, still, tiltReady>>
fixVars == <<slot, inbox, pairs, taken>>
healthVars == <<verdict, at>>
filterVars == <<poses, archived, errors>>
vars == <<now, failing, sensorVars, filterVars, fixVars, healthVars, streamVars>>

TypeOK ==
  /\ StreamTypeOK
  /\ now \in Times /\ failing \in Parts
  /\ raw \in [Sensors -> Times \cup {Never}]
  /\ delayed \subseteq [due : Nat, kind : Sensors, stamp : Times]
  /\ ages \in [Sensors \cup {"fix"} -> Times \cup {Never}]
  /\ {rolling, tiltReady, errors} \subseteq BOOLEAN /\ still \in 0..StillSamples
  /\ poses \subseteq Times /\ archived \in Times \cup {Never}
  /\ slot \in Times \cup {Never} /\ inbox \in [Sides -> Seq(Times)]
  /\ pairs \subseteq Times \X Sides /\ taken \subseteq Times \X Sides \X BOOLEAN
  /\ verdict \in Verdicts \cup {NoSample} /\ at \in Times \cup {Never}

-----------------------------------------------------------------------------
(* Wheels and IMU: a sample is delayed by a drawn time, then handed over *)

\* DeliveryQueue.push.
Delayed(kind) == \E delay \in Delays : delayed' = delayed \cup {[due |-> now + delay, kind |-> kind, stamp |-> now]}

\* joints: two samples make a speed; one after an outage only starts anew.
Joints ==
  /\ raw["wheel"] < now
  /\ raw' = [raw EXCEPT !["wheel"] = now]
  /\ IF raw["wheel"] = Never \/ now - raw["wheel"] > Rebase
     THEN UNCHANGED <<delayed, rolling>>
     ELSE Delayed("wheel") /\ rolling' \in BOOLEAN
  /\ UNCHANGED <<now, failing, ages, still, tiltReady, filterVars, fixVars, healthVars, streamVars>>

ImuSample ==
  /\ raw["imu"] < now
  /\ raw' = [raw EXCEPT !["imu"] = now]
  /\ Delayed("imu")
  /\ UNCHANGED <<now, failing, ages, rolling, still, tiltReady, filterVars, fixVars, healthVars, streamVars>>

\* tilt: a window of consecutive samples at rest levels the vehicle; while it
\* drives, a sample with recent wheel speeds may.
Window(gap, rests) == IF ~rests THEN 0 ELSE Min({StillSamples, 1 + IF gap THEN 0 ELSE still})
Levelled(rests, window) ==
  IF rests THEN {window = StillSamples} ELSE {FALSE, raw["wheel"] # Never /\ now - raw["wheel"] < LocalLimit}

StampOf(due, kind) == Max({i.stamp : i \in {d \in due : d.kind = kind}})
AgesAsArrived(due) == [k \in DOMAIN ages |-> IF \E i \in due : i.kind = k THEN now ELSE ages[k]]
Ages(due) ==
  [k \in DOMAIN ages |-> IF \E i \in due : i.kind = k THEN Max({ages[k], StampOf(due, k)}) ELSE ages[k]]

\* deliver, every 2 ms: all that is due.
Due == {i \in delayed : i.due <= now}
Tilts(gap) ==
  \E rests \in {FALSE, ~rolling} : \E level \in Levelled(rests, Window(gap, rests)) :
    /\ tiltReady' = (tiltReady \/ level)
    /\ still' = IF rests /\ level THEN 0 ELSE Window(gap, rests)
Deliver ==
  /\ Due # {}
  /\ delayed' = delayed \ Due
  /\ ages' = Ages(Due)
  /\ IF \E i \in Due : i.kind = "imu"
     THEN Tilts(StampOf(Due, "imu") > ages["imu"] + 1)
     ELSE UNCHANGED <<still, tiltReady>>
  /\ UNCHANGED <<now, failing, raw, rolling, filterVars, fixVars, healthVars, streamVars>>

\* local_pose, record_navigation: the filters publish poses of now; the global
\* one is archived, and a record may fail to reach the disk.
LocalPose ==
  /\ now \notin poses
  /\ poses' = poses \cup {now}
  /\ UNCHANGED <<now, failing, sensorVars, archived, errors, fixVars, healthVars, streamVars>>

GlobalPose ==
  /\ archived < now
  /\ archived' = now
  /\ errors' \in (IF "disk" \in failing THEN {errors, TRUE} ELSE {errors})
  /\ UNCHANGED <<now, failing, sensorVars, poses, fixVars, healthVars, streamVars>>

-----------------------------------------------------------------------------
(* GNSS: one receiver samples both antennas; each half travels on its own topic *)

Sample ==
  /\ slot < now
  /\ slot' = now
  /\ \E received \in SUBSET Sides :
       /\ inbox' = [s \in Sides |-> IF s \in received THEN Append(inbox[s], now) ELSE inbox[s]]
  /\ UNCHANGED <<now, failing, sensorVars, filterVars, pairs, taken, healthVars, streamVars>>

Oldest(halves) == {h \in halves : Cardinality({g[1] : g \in {k \in halves : k[1] < h[1]}}) < MaxPairs}

\* The newest epochs are kept.
Newest(halves) == {h \in halves : Cardinality({g[1] : g \in {k \in halves : k[1] > h[1]}}) < MaxPairs}

\* A fix needs a level vehicle and a local pose of its own time.
Solvable(epoch) == tiltReady /\ \E p \in poses : p <= epoch /\ epoch - p <= LocalLimit

Fix(side) ==
  /\ inbox[side] # <<>>
  /\ LET epoch == Head(inbox[side])
         kept == Newest(pairs \cup {<<epoch, side>>})
         complete == \A s \in Sides : <<epoch, s>> \in kept
     IN  /\ IF epoch <= ages["fix"] THEN UNCHANGED <<pairs, ages>>
            ELSE /\ pairs' = IF complete THEN kept \ ({epoch} \X Sides) ELSE kept
                 /\ ages' = IF complete /\ Solvable(epoch) THEN [ages EXCEPT !["fix"] = epoch] ELSE ages
         /\ taken' = taken \cup {<<epoch, side, Solvable(epoch)>>}
  /\ inbox' = [inbox EXCEPT ![side] = Tail(@)]
  /\ UNCHANGED <<now, failing, raw, delayed, rolling, still, tiltReady, filterVars, slot, healthVars, streamVars>>

-----------------------------------------------------------------------------
(* health, every 50 ms *)

Younger(stamp, limit) == stamp # Never /\ now - stamp < limit
Health ==
  /\ at < now
  /\ verdict' = IF /\ \A s \in Sensors : Younger(ages[s], LocalLimit)
                   /\ Younger(Max(poses \cup {Never}), LocalLimit) /\ Younger(archived, LocalLimit)
                   /\ Younger(ages["fix"], FixLimit)
                   /\ tiltReady /\ ~errors
                THEN "READY" ELSE "NOT_READY"
  /\ at' = now
  /\ Offer(verdict')
  /\ UNCHANGED <<now, failing, sensorVars, filterVars, fixVars>>

\* Time passes; the parts that do not fail keep up with it.
Steady(part) == part \notin failing
Passes ==
  /\ now < Horizon /\ at = now /\ Due = {}
  /\ "fix" \in failing => slot = now
  /\ now' = now + 1
  /\ raw' = [s \in Sensors |-> IF Steady(s) THEN now' ELSE raw[s]]
  /\ ages' = [a \in DOMAIN ages |-> IF Steady(a) THEN now' ELSE ages[a]]
  /\ poses' = poses \cup {now' : x \in {"local"} \ failing}
  /\ archived' = IF Steady("global") THEN now' ELSE archived
  /\ slot' = IF Steady("fix") THEN now' ELSE slot
  /\ taken' = taken \cup {<<now', s, TRUE>> : s \in IF Steady("fix") THEN Sides ELSE {}}
  /\ UNCHANGED <<failing, delayed, rolling, still, tiltReady, inbox, pairs, errors, healthVars, streamVars>>

-----------------------------------------------------------------------------
Init ==
  /\ StreamInit
  /\ now = 0 /\ failing \in Parts
  /\ raw = [s \in Sensors |-> IF Steady(s) THEN 0 ELSE Never] /\ delayed = {}
  /\ ages = [a \in Sensors \cup {"fix"} |-> IF Steady(a) THEN 0 ELSE Never]
  /\ rolling = Steady("imu") /\ still = 0 /\ tiltReady = Steady("imu")
  /\ poses = IF Steady("local") THEN {0} ELSE {}
  /\ archived = IF Steady("global") THEN 0 ELSE Never
  /\ slot = IF Steady("fix") THEN 0 ELSE Never
  /\ inbox = [s \in Sides |-> <<>>] /\ pairs = {}
  /\ taken = IF Steady("fix") THEN {<<0, s, TRUE>> : s \in Sides} ELSE {}
  /\ errors = FALSE /\ verdict = NoSample /\ at = Never

Callback ==
  Joints \/ ImuSample \/ Deliver \/ LocalPose \/ GlobalPose \/ (\E s \in Sides : Fix(s)) \/ Health
Stream == (Take \/ Publish("stream" \in failing) \/ End \/ ("stream" \in failing /\ Close)) /\ UNCHANGED <<now, failing, sensorVars, filterVars, fixVars, healthVars>>

\* A stream that does not fail is faster than the callbacks.
Prompt == "stream" \in failing \/ (waiting = <<>> /\ inHand = NoSample)
Next == (~closed /\ Prompt /\ (Callback \/ Sample \/ Passes)) \/ Stream

Spec == Init /\ [][Next]_vars

-----------------------------------------------------------------------------
(* Properties *)

\* Whoever reads the status is not told READY while a source is silent: neither
\* delayed deliveries, half pairs nor a stream that fell behind hide an outage.
Heard(epoch, usable) == \A s \in Sides : \E u \in {TRUE, usable} : <<epoch, s, u>> \in taken
Sound ==
  /\ \A s \in Sensors : Younger(raw[s], LocalLimit)
  /\ \E epoch \in Times : Heard(epoch, FALSE) /\ Younger(epoch, FixLimit)
CaughtUp == waiting = <<>> /\ inHand = NoSample /\ ~erred
OutageIsNoticed == CaughtUp /\ at = now /\ ~Sound => shown # "READY"

\* Halves that never find their other half do not keep later pairs from being
\* used: a pair is lost only to enough newer epochs.
EveryPairIsUsed ==
  \A epoch \in Times : Heard(epoch, TRUE) /\ epoch > ages["fix"] =>
    Cardinality({h[1] : h \in {w \in taken : w[1] > epoch}}) >= MaxPairs

\* What is shown in the end is the newest verdict, also after a backlog and
\* after the shutdown.
NewestIsShown == (CaughtUp \/ (~alive /\ ~erred)) => shown = verdict
=============================================================================

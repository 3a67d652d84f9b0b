---------------------- MODULE MissionExecutionProofs ----------------------
(***************************************************************************)
(* Theorems about the rectangle executor, for every list of steps, every   *)
(* attempt limit and every set of environment upsets.                      *)
(***************************************************************************)
EXTENDS MissionExecution, SequenceTheorems, TLAPS

\* The two halves of TypeOK: what the executor keeps, and what is around it.
ExecutorOK ==
  /\ state \in States
  /\ reason \in Reasons
  /\ index \in 0..Len(Steps)
  /\ core \in Cores
  /\ attempts \in 0..MaxAttempts + 1
  /\ since \in SUBSET {"ready", "stopped", "archive"}
  /\ settled \in BOOLEAN
  /\ cmd \in {"zero", "move"}
  /\ pos \in Places

AroundOK ==
  /\ gate \in Gates
  /\ archive \in Archives
  /\ mode \in Modes
  /\ sensor \in BOOLEAN
  /\ service \in {"absent", "ready", "lost"}
  /\ reply \in {"none", "ok", "fail"}
  /\ alarm \in BOOLEAN

\* Only a faulted mission has used up more attempts than it was given: without
\* this, the attempt that RefuseSegment counts could not be bounded.
AttemptsSpent == attempts > MaxAttempts => state = "FAULT"

Inductive == TypeOK /\ AttemptsSpent

-----------------------------------------------------------------------------
(* What the helpers return *)

\* Closing the last interval keeps the list a list of intervals.
LEMMA CloseLastType == ASSUME NEW s \in Intervals PROVE CloseLast(s) \in Intervals
<1>1. CASE s = <<>> BY <1>1 DEF CloseLast
<1>2. CASE s # <<>>
  <2>1. Len(s) \in 1..Len(s) BY <1>2, EmptySeq, LenProperties DEF Intervals
  <2>2. s[Len(s)] \in [track : Nat, closed : BOOLEAN] BY <2>1, ElementOfSeq DEF Intervals
  <2>3. [s[Len(s)] EXCEPT !.closed = TRUE] \in [track : Nat, closed : BOOLEAN] BY <2>2
  <2> QED BY <1>2, <2>1, <2>3, ExceptSeq DEF CloseLast, Intervals
<1> QED BY <1>1, <1>2

\* poll() leaves a well-formed gate whatever the camera answered.
LEMMA PollsType == ASSUME AroundOK PROVE Polls \subseteq Gates
<1> USE DEF AroundOK
<1>0. gate.intervals \in Intervals /\ gate.track \in Nat BY DEF Gates
<1>1. CASE gate.future = "none"
  <2>1. Checked \subseteq Gates BY DEF Checked, Gates
  <2> QED BY <1>1, <2>1 DEF Polls
<1>2. CASE gate.future # "none" /\ reply = "none"
  BY <1>2 DEF Polls, Gates
<1>3. CASE gate.future # "none" /\ reply = "fail"
  BY <1>3 DEF Polls, Gates
<1>4. CASE gate.future = "on" /\ reply = "ok"
  <2>1. Append(gate.intervals, [track |-> gate.track, closed |-> FALSE]) \in Intervals
    BY <1>0, AppendProperties DEF Intervals
  <2> QED BY <1>4, <2>1 DEF Polls, Gates
<1>5. CASE gate.future = "off" /\ reply = "ok"
  <2>1. CloseLast(gate.intervals) \in Intervals BY <1>0, CloseLastType
  <2> QED BY <1>5, <2>1 DEF Polls, Gates
<1> QED BY <1>1, <1>2, <1>3, <1>4, <1>5 DEF Gates

\* request() only ever adds an outstanding call or an error to a gate.
LEMMA RequestedType ==
  ASSUME NEW g \in Gates, NEW value \in {"on", "off"}, NEW track \in Nat
  PROVE  Requested(g, value, track) \in Gates
BY DEF Requested, Gates

LEMMA ArchiveType ==
  ASSUME NEW a \in Archives PROVE ArchiveProgress(a) \subseteq Archives
BY DEF ArchiveProgress, Archives

LEMMA SubmittedType ==
  ASSUME AroundOK, NEW polled PROVE Submitted(polled) \in Archives
BY DEF Submitted, AroundOK, Archives

LEMMA UpdatedType ==
  ASSUME NEW c PROVE Updated(c) \subseteq TrackerStates \cup {"COMPLETED", c}
BY DEF Updated, TrackerStates

\* Whatever a tick decides, it leaves its surroundings well-formed.
LEMMA EndTickType ==
  ASSUME AroundOK, NEW g \in Gates, NEW a \in Archives, EndTick(g, a)
  PROVE  AroundOK'
BY DEF AroundOK, EndTick, Archives

\* fault() stays within the mission states and the reasons.
LEMMA FailType ==
  ASSUME ExecutorOK, NEW why \in Reasons, Fail(why)
  PROVE  state' \in States /\ reason' \in Reasons /\ cmd' = "zero"
BY DEF ExecutorOK, Fail, Faulted, States

\* The steps there are, as numbers.
LEMMA StepsLength == Len(Steps) \in Nat
BY StepsAssumption, LenProperties

LEMMA StepsLeft ==
  ASSUME ExecutorOK, ~AtMissionEnd PROVE index \in Nat /\ index + 1 \in 1..Len(Steps)
BY StepsLength DEF ExecutorOK, AtMissionEnd

-----------------------------------------------------------------------------
(* Types: one lemma per handler that needs more than its own definition *)

\* run_step with a tracker keeps every type: a finished step moves on by one.
LEMMA DriveType ==
  ASSUME TypeOK, ~AtMissionEnd, NEW polled \in Gates, NEW c0, NEW k \in Kinds,
         NEW c \in TrackerStates \cup {"COMPLETED"}, NEW built \in BOOLEAN,
         built => attempts < MaxAttempts, Drive(polled, c0, k, c, built)
  PROVE  TypeOK'
<1>0. ExecutorOK /\ AroundOK BY DEF TypeOK, ExecutorOK, AroundOK
<1>1. index + 1 \in 0..Len(Steps) /\ index + 1 \in Nat
  BY <1>0, StepsLength, StepsLeft
<1>2. PICK p \in (IF k = "translate" /\ mode # "HOLD" THEN Reach(pos) ELSE {pos}),
           h \in Headings(c) :
        LET pass == OnPass /\ k = "translate"
            leaving == pass /\ Leaving(p, c)
            opening == pass /\ ~leaving /\ mode = "DRIVE" /\ (polled.active = "on" \/ h = "tight")
            g == CASE leaving -> Requested(polled, "off", 0)
                   [] opening -> Requested(polled, "on", index + 1)
                   [] OTHER -> polled
            blind == pass /\ ~leaving /\ CaptureEnabled /\ g.active # "on" /\ p = "region"
            skewed == h = "wide" /\ g.active = "on"
            failed == blind \/ c = "FAULT" \/ skewed
            done == ~blind /\ c = "COMPLETED" /\ (k = "translate" \/ Step = "ROTATE_180")
        IN  /\ IF failed THEN Fail("MISSION")
               ELSE /\ cmd' \in {"zero", "move"}
                    /\ UNCHANGED <<state, reason>>
            /\ core' = IF c = "COMPLETED" THEN NoCore ELSE [state |-> c, kind |-> k]
            /\ index' = IF done THEN index + 1 ELSE index
            /\ attempts' = IF done THEN 0 ELSE IF built THEN attempts + 1 ELSE attempts
            /\ pos' = IF done THEN "lead" ELSE p
            /\ EndTick(g, Submitted(polled))
            /\ UNCHANGED <<since, settled>>
  BY DEF Drive
<1>3. p \in Places BY <1>0, <1>2 DEF ExecutorOK, Reach, Places
<1>4. AroundOK'
  <2>1. Submitted(polled) \in Archives BY <1>0, SubmittedType
  <2>2. /\ Requested(polled, "off", 0) \in Gates
        /\ Requested(polled, "on", index + 1) \in Gates
    BY <1>1, RequestedType
  <2>3. PICK g \in Gates : EndTick(g, Submitted(polled)) BY <1>2, <2>2
  <2> QED BY <1>0, <2>1, <2>3, EndTickType
<1>5. state' \in States /\ reason' \in Reasons /\ cmd' \in {"zero", "move"}
  <2>1. CASE Fail("MISSION")
    <3>1. "MISSION" \in Reasons BY DEF Reasons
    <3> QED BY <1>0, <2>1, <3>1, FailType
  <2>2. CASE cmd' \in {"zero", "move"} /\ UNCHANGED <<state, reason>>
    BY <1>0, <2>2 DEF ExecutorOK
  <2> QED BY <1>2, <2>1, <2>2
<1>6. core' \in Cores BY <1>2 DEF Cores
<1>7. index' \in 0..Len(Steps) BY <1>0, <1>1, <1>2 DEF ExecutorOK
<1>8. attempts' \in 0..MaxAttempts + 1
  BY <1>0, <1>2, AttemptsAssumption DEF ExecutorOK
<1>9. pos' \in Places BY <1>2, <1>3 DEF Places
<1>10. since' = since /\ settled' = settled BY <1>2
<1> QED BY <1>0, <1>4, <1>5, <1>6, <1>7, <1>8, <1>9, <1>10 DEF TypeOK, ExecutorOK, AroundOK

\* A tick preserves the types, whatever poll() returned.
LEMMA TickType == ASSUME TypeOK, AttemptsSpent, NEW polled \in Polls, Tick(polled) PROVE TypeOK'
<1>0. ExecutorOK /\ AroundOK BY DEF TypeOK, ExecutorOK, AroundOK
<1>1. polled \in Gates BY <1>0, PollsType
<1>2. Submitted(polled) \in Archives BY <1>0, SubmittedType
<1>3. ArchiveProgress(Submitted(polled)) \subseteq Archives BY <1>2, ArchiveType
<1>4. Requested(polled, "off", 0) \in Gates BY <1>1, RequestedType
<1>5. Reasons = {"", "CANCELED", "CAMERA", "ARCHIVE", "MISSION"} BY DEF Reasons
<1> SUFFICES AroundOK' /\ ExecutorOK' BY DEF TypeOK, ExecutorOK, AroundOK
<1>6. CASE RestTick(polled)
  <2>1. AroundOK' BY <1>0, <1>3, <1>4, <1>6, EndTickType DEF RestTick
  <2>2. state' \in States BY <1>0, <1>6 DEF RestTick, ExecutorOK, Faulted, States
  <2>3. reason' \in Reasons BY <1>0, <1>5, <1>6 DEF RestTick, ExecutorOK
  <2>4. settled' \in BOOLEAN BY <1>0, <1>6 DEF RestTick, ExecutorOK, Drained
  <2> QED BY <1>0, <1>6, <2>1, <2>2, <2>3, <2>4 DEF RestTick, ExecutorOK
<1>7. CASE ReadyTick(polled)
  <2>1. PICK g \in Gates : EndTick(g, Submitted(polled))
    <3>1. PICK valid, dwelt, compiled \in BOOLEAN :
            LET prepared == IF CaptureEnabled /\ polled.active = "unknown" /\ service = "ready"
                            THEN Requested(polled, "off", 0) ELSE polled
                starting == AutoStart /\ (valid /\ mode = "HOLD") /\ dwelt /\ "ready" \in since
            IN  EndTick(IF starting THEN Requested(prepared, "off", 0) ELSE prepared,
                        Submitted(polled))
      BY <1>7 DEF ReadyTick
    <3>2. Requested(Requested(polled, "off", 0), "off", 0) \in Gates BY <1>4, RequestedType
    <3> QED BY <1>1, <1>4, <3>1, <3>2
  <2>2. AroundOK' BY <1>0, <1>2, <2>1, EndTickType
  <2>3. state' \in States /\ since' \in SUBSET {"ready", "stopped", "archive"}
    BY <1>0, <1>7 DEF ReadyTick, ExecutorOK, States
  <2> QED BY <1>0, <1>7, <2>2, <2>3 DEF ReadyTick, ExecutorOK
<1>8. CASE RejectFeedback(polled) \/ PauseTimeout(polled) \/ DrainTimeout(polled)
  <2>1. AroundOK' BY <1>0, <1>1, <1>2, <1>8, EndTickType DEF RejectFeedback, PauseTimeout, DrainTimeout
  <2>2. state' \in States /\ reason' \in Reasons /\ cmd' = "zero"
    BY <1>0, <1>5, <1>8, FailType DEF RejectFeedback, PauseTimeout, DrainTimeout
  <2> QED BY <1>0, <1>8, <2>1, <2>2 DEF RejectFeedback, PauseTimeout, DrainTimeout, ExecutorOK
<1>9. CASE ParkedTick(polled) \/ FrozenClock(polled) \/ AwaitStandstill(polled)
  <2>1. AroundOK' BY <1>0, <1>1, <1>2, <1>9, EndTickType DEF ParkedTick, FrozenClock, AwaitStandstill
  <2> QED BY <1>0, <1>9, <2>1 DEF ParkedTick, FrozenClock, AwaitStandstill, ExecutorOK, executorVars
<1>10. CASE PausingTick(polled)
  <2>1. AroundOK' BY <1>0, <1>1, <1>2, <1>10, EndTickType DEF PausingTick
  <2>2. state' \in States /\ since' \in SUBSET {"ready", "stopped", "archive"}
    BY <1>0, <1>10 DEF PausingTick, ExecutorOK, States
  <2> QED BY <1>0, <1>10, <2>1, <2>2 DEF PausingTick, ExecutorOK
<1>11. CASE CloseMission(polled)
  <2>1. AroundOK' BY <1>0, <1>3, <1>4, <1>11, EndTickType DEF CloseMission
  <2>2. state' \in States /\ reason' \in Reasons /\ cmd' = "zero" /\ settled' \in BOOLEAN
    <3>1. CASE Fail("ARCHIVE") /\ settled' = settled
      BY <1>0, <1>5, <3>1, FailType DEF ExecutorOK
    <3>2. CASE cmd' = "zero" /\ UNCHANGED <<state, reason, settled>>
      BY <1>0, <3>2 DEF ExecutorOK
    <3>3. CASE settled' = TRUE /\ state' \in {"ACQUIRED", "COMPLETED"} /\ cmd' = "zero" /\ reason' = reason
      BY <1>0, <3>3 DEF ExecutorOK, States
    <3> QED BY <1>11, <3>1, <3>2, <3>3 DEF CloseMission
  <2>3. since' \in SUBSET {"ready", "stopped", "archive"}
    BY <1>0, <1>11 DEF CloseMission, ExecutorOK
  <2> QED BY <1>0, <1>11, <2>1, <2>2, <2>3 DEF CloseMission, ExecutorOK
<1>12. CASE FollowSegment(polled)
  <2>1. core.state \in TrackerStates /\ core.kind \in Kinds
    BY <1>0, <1>12 DEF FollowSegment, ExecutorOK, Cores
  <2>2. PICK c \in Updated(core.state) : Drive(polled, core.state, core.kind, c, FALSE)
    BY <1>12 DEF FollowSegment
  <2>3. c \in TrackerStates \cup {"COMPLETED"} BY <2>1, <2>2, UpdatedType
  <2>4. TypeOK' BY <1>1, <1>12, <2>1, <2>2, <2>3, DriveType DEF FollowSegment
  <2> QED BY <2>4 DEF TypeOK, ExecutorOK, AroundOK
<1>13. CASE SegmentTimeout(polled)
  <2>1. core.kind \in Kinds BY <1>0, <1>13 DEF SegmentTimeout, ExecutorOK, Cores
  <2>2. TypeOK' BY <1>1, <1>13, <2>1, DriveType DEF SegmentTimeout, TrackerStates
  <2> QED BY <2>2 DEF TypeOK, ExecutorOK, AroundOK
<1>14. CASE BuildSegment(polled)
  <2>1. PICK k \in Kinds, c \in Updated("ALIGNING") : Drive(polled, "ALIGNING", k, c, TRUE)
    BY <1>14 DEF BuildSegment
  <2>2. c \in TrackerStates \cup {"COMPLETED"} BY <2>1, UpdatedType DEF TrackerStates
  <2>3. TypeOK' BY <1>1, <1>14, <2>1, <2>2, DriveType DEF BuildSegment, ReadyForSegment
  <2> QED BY <2>3 DEF TypeOK, ExecutorOK, AroundOK
<1>15. CASE RefuseSegment(polled)
  <2>1. AroundOK' BY <1>0, <1>1, <1>2, <1>15, EndTickType DEF RefuseSegment
  <2>2. state' \in States /\ reason' \in Reasons /\ cmd' = "zero"
    BY <1>0, <1>5, <1>15, FailType DEF RefuseSegment
  <2>3. attempts' \in 0..MaxAttempts + 1
    BY <1>0, <1>15, AttemptsAssumption
       DEF RefuseSegment, ReadyForSegment, RunningTick, AttemptsSpent, ExecutorOK
  <2> QED BY <1>0, <1>15, <2>1, <2>2, <2>3 DEF RefuseSegment, ExecutorOK
<1>16. CASE EndStep(polled)
  <2>1. AroundOK' BY <1>0, <1>2, <1>4, <1>16, EndTickType DEF EndStep
  <2>2. index' \in 0..Len(Steps) /\ attempts' \in 0..MaxAttempts + 1 /\ pos' \in Places
    BY <1>0, <1>16, StepsLeft, StepsLength, AttemptsAssumption
       DEF EndStep, ReadyForSegment, ExecutorOK, Places
  <2> QED BY <1>0, <1>16, <2>1, <2>2 DEF EndStep, ExecutorOK
<1> QED BY <1>6, <1>7, <1>8, <1>9, <1>10, <1>11, <1>12, <1>13, <1>14, <1>15, <1>16
        DEF Tick, RunStep, Timeout

\* So do the operator's calls and everything that happens around the executor.
LEMMA OtherType ==
  ASSUME TypeOK, Operator \/ CameraTopics \/ Camera \/ Chassis \/ ArchiveDrain
  PROVE  TypeOK'
<1>0. ExecutorOK /\ AroundOK BY DEF TypeOK, ExecutorOK, AroundOK
<1>1. Reasons = {"", "CANCELED", "CAMERA", "ARCHIVE", "MISSION"} BY DEF Reasons
<1>2. \A b \in {"none", "on", "off"}, f \in BOOLEAN, e \in {"none", "disabled", "other"} :
        [gate EXCEPT !.beat = b, !.fresh = f, !.error = e] \in Gates
  BY <1>0 DEF AroundOK, Gates
<1>3. \A u \in BOOLEAN : [archive EXCEPT !.unsaved = u] \in Archives BY <1>0 DEF AroundOK, Archives
<1>4. CASE Start
  <2>1. gate' \in Gates BY <1>0, <1>4, RequestedType DEF Start, AroundOK
  <2>2. state' \in States BY <1>0, <1>4 DEF Start, ExecutorOK, States
  <2> QED BY <1>4, <2>1, <2>2 DEF Start, TypeOK, cameraVars
<1>5. CASE Pause
  <2>1. pos' \in Places
    BY <1>0, <1>5 DEF Pause, ExecutorOK, BrakeReach, Reach, Places
  <2>2. since' \in SUBSET {"ready", "stopped", "archive"} BY <1>0, <1>5 DEF Pause, ExecutorOK
  <2>3. archive' \in Archives BY <1>3, <1>5 DEF Pause
  <2> QED BY <1>5, <2>1, <2>2, <2>3 DEF Pause, TypeOK, States, outside, cameraVars
<1>6. CASE Resume
  <2>1. pos' \in Places BY <1>0, <1>6 DEF Resume, ExecutorOK, Reestimated, Places
  <2>2. since' \in SUBSET {"ready", "stopped", "archive"} BY <1>0, <1>6 DEF Resume, ExecutorOK
  <2>3. archive' \in Archives /\ attempts' = 0 BY <1>3, <1>6 DEF Resume
  <2>4. attempts' \in 0..MaxAttempts + 1 BY <2>3, AttemptsAssumption
  <2> QED BY <1>6, <2>1, <2>2, <2>3, <2>4 DEF Resume, TypeOK, States, Cores, outside, cameraVars
<1>7. CASE Cancel
  BY <1>1, <1>7 DEF Cancel, TypeOK, States, outside, cameraVars
<1>8. CASE ExternalFault
  <2>1. state' \in States /\ reason' \in Reasons /\ cmd' = "zero"
    BY <1>0, <1>1, <1>8, FailType DEF ExternalFault
  <2> QED BY <1>8, <2>1 DEF ExternalFault, TypeOK, outside, cameraVars
<1>9. CASE Heartbeat \/ LateHeartbeat \/ BadHeartbeat
  <2>1. gate' \in Gates BY <1>0, <1>9 DEF Heartbeat, LateHeartbeat, BadHeartbeat, AroundOK, Gates
  <2> QED BY <1>9, <2>1 DEF Heartbeat, LateHeartbeat, BadHeartbeat, TypeOK, beside, executorVars, cameraVars
<1>10. CASE SensorEvent
  <2>1. gate' \in Gates BY <1>0, <1>10 DEF SensorEvent, AroundOK, Gates
  <2>2. archive' \in Archives BY <1>3, <1>10 DEF SensorEvent
  <2> QED BY <1>10, <2>1, <2>2 DEF SensorEvent, TypeOK, beside, executorVars
<1>11. CASE Camera
  BY <1>11 DEF Camera, ServeOpen, ServeClose, SensorBreak, CameraAppears, CameraLost,
               TypeOK, beside, executorVars
<1>12. CASE Chassis
  BY <1>12 DEF Chassis, ChassisStop, ChassisMove, ChassisPushed, TypeOK, Modes, executorVars, cameraVars
<1>13. CASE ArchiveDrain
  <2>1. archive' \in Archives BY <1>0, <1>13, ArchiveType DEF ArchiveDrain, AroundOK
  <2> QED BY <1>13, <2>1 DEF ArchiveDrain, TypeOK, beside, executorVars, cameraVars
<1> QED BY <1>4, <1>5, <1>6, <1>7, <1>8, <1>9, <1>10, <1>11, <1>12, <1>13 DEF Operator, CameraTopics

\* A fault is for ever: whatever step is taken from FAULT, it ends in FAULT.
LEMMA FaultStays == ASSUME state = "FAULT", [Next]_vars PROVE state' = "FAULT"
<1>1. CASE UNCHANGED vars BY <1>1 DEF vars, executorVars
<1>2. CASE \E polled \in Polls : Tick(polled)
  BY <1>2 DEF Tick, RunStep, Timeout, RestTick, ReadyTick, RejectFeedback, ParkedTick, PausingTick,
              FrozenClock, CloseMission, AwaitStandstill, FollowSegment, BuildSegment,
              RefuseSegment, EndStep, ReadyForSegment, PauseTimeout, DrainTimeout, SegmentTimeout,
              RunningTick, Faulted
<1>3. CASE Operator
  BY <1>3 DEF Operator, Start, Pause, Resume, Cancel, ExternalFault, Faulted, Terminal
<1>4. CASE CameraTopics \/ Camera \/ Chassis \/ ArchiveDrain
  BY <1>4 DEF CameraTopics, Camera, Chassis, Heartbeat, LateHeartbeat, BadHeartbeat, SensorEvent,
              ServeOpen, ServeClose, SensorBreak, CameraAppears, CameraLost, ChassisStop,
              ChassisMove, ChassisPushed, ArchiveDrain, beside, executorVars
<1> QED BY <1>1, <1>2, <1>3, <1>4 DEF Next

\* The attempts of a step are spent one by one, and refused beyond the last.
LEMMA SpentStep == ASSUME TypeOK, AttemptsSpent, [Next]_vars PROVE AttemptsSpent'
<1> USE AttemptsAssumption
<1>1. attempts \in Nat BY DEF TypeOK
<1>2. CASE attempts' = attempts BY <1>2, FaultStays DEF AttemptsSpent
<1>3. CASE attempts' = 0 BY <1>3 DEF AttemptsSpent
<1>4. ASSUME NEW polled \in Polls, FollowSegment(polled) \/ SegmentTimeout(polled)
      PROVE  attempts' \in {0, attempts}
  BY <1>4 DEF FollowSegment, SegmentTimeout, Drive
<1>5. ASSUME NEW polled \in Polls, BuildSegment(polled) PROVE ~(attempts' > MaxAttempts)
  <2>1. attempts' \in {0, attempts + 1} /\ attempts < MaxAttempts BY <1>5 DEF BuildSegment, Drive
  <2> QED BY <1>1, <2>1
<1>6. ASSUME NEW polled \in Polls, RefuseSegment(polled) PROVE state' = "FAULT"
  BY <1>6 DEF RefuseSegment, ReadyForSegment, RunningTick, Fail, Faulted
<1>7. ASSUME NEW polled \in Polls, Tick(polled)
      PROVE  \/ attempts' \in {0, attempts}
             \/ BuildSegment(polled) \/ RefuseSegment(polled)
  BY <1>4, <1>7 DEF Tick, RunStep, Timeout, RestTick, ReadyTick, RejectFeedback, ParkedTick, PausingTick,
              FrozenClock, CloseMission, AwaitStandstill, EndStep, PauseTimeout, DrainTimeout,
              executorVars
<1>8. CASE \E polled \in Polls : Tick(polled)
  <2>1. PICK polled \in Polls : Tick(polled) BY <1>8
  <2>2. CASE BuildSegment(polled) BY <1>5, <2>2 DEF AttemptsSpent
  <2>3. CASE RefuseSegment(polled) BY <1>6, <2>3 DEF AttemptsSpent
  <2> QED BY <1>2, <1>3, <1>7, <2>1, <2>2, <2>3
<1>9. CASE ~\E polled \in Polls : Tick(polled)
  <2>1. attempts' \in {0, attempts}
    BY <1>9 DEF Next, vars, Operator, CameraTopics, Camera, Chassis, Start, Pause, Resume, Cancel,
                ExternalFault, Heartbeat, LateHeartbeat, BadHeartbeat, SensorEvent,
                ServeOpen, ServeClose, SensorBreak, CameraAppears, CameraLost, ChassisStop,
                ChassisMove, ChassisPushed, ArchiveDrain, beside, executorVars
  <2> QED BY <1>2, <1>3, <2>1
<1> QED BY <1>8, <1>9

\* The executor, its gate and everything around them stay within their types
\* in every run: no mission outgrows its steps or its attempts.
THEOREM TypeCorrect == Spec => []TypeOK
<1>1. Init => TypeOK
  <2> SUFFICES ASSUME Init PROVE TypeOK OBVIOUS
  <2>1. <<>> \in Intervals BY EmptySeq DEF Intervals
  <2>2. gate \in Gates BY <2>1, FlagsAssumption DEF Init, Gates
  <2>3. index = 0 /\ attempts = 0 BY DEF Init
  <2>4. index \in 0..Len(Steps) /\ attempts \in 0..MaxAttempts + 1
    BY <2>3, StepsLength, AttemptsAssumption
  <2> QED BY <2>2, <2>4 DEF Init, TypeOK, States, Reasons, Cores, Archives, Modes, Places
<1>2. Inductive /\ [Next]_vars => TypeOK'
  <2> SUFFICES ASSUME Inductive, [Next]_vars PROVE TypeOK' OBVIOUS
  <2> USE DEF Inductive
  <2>1. CASE UNCHANGED vars BY <2>1 DEF vars, executorVars, cameraVars, TypeOK
  <2>2. CASE \E polled \in Polls : Tick(polled) BY <2>2, TickType
  <2>3. CASE Operator \/ CameraTopics \/ Camera \/ Chassis \/ ArchiveDrain BY <2>3, OtherType
  <2> QED BY <2>1, <2>2, <2>3 DEF Next
<1>3. Inductive /\ [Next]_vars => AttemptsSpent' BY SpentStep DEF Inductive
<1>4. Init => AttemptsSpent
  <2>1. Init => attempts = 0 BY DEF Init
  <2> QED BY <2>1, AttemptsAssumption DEF AttemptsSpent
<1> QED BY <1>1, <1>2, <1>3, <1>4, PTL DEF Spec, Inductive

-----------------------------------------------------------------------------
(* What a step may do to the mission state and the last command *)

\* Every tick that does not leave the mission in RUNNING ends with a zero
\* command, or with the one it found when that was READY's.
LEMMA TickStandstill ==
  ASSUME StandstillOutsideRunning, NEW polled \in Polls, Tick(polled)
  PROVE  StandstillOutsideRunning'
<1> USE DEF StandstillOutsideRunning
<1>1. CASE RestTick(polled) BY <1>1 DEF RestTick
<1>2. CASE ReadyTick(polled) BY <1>2 DEF ReadyTick
<1>3. CASE RejectFeedback(polled) \/ PauseTimeout(polled) \/ DrainTimeout(polled)
  BY <1>3 DEF RejectFeedback, PauseTimeout, DrainTimeout, Fail
<1>4. CASE ParkedTick(polled) \/ PausingTick(polled) \/ AwaitStandstill(polled) \/ EndStep(polled)
  BY <1>4 DEF ParkedTick, PausingTick, AwaitStandstill, EndStep
<1>5. CASE FrozenClock(polled) BY <1>5 DEF FrozenClock, executorVars
<1>6. CASE CloseMission(polled) BY <1>6 DEF CloseMission, Fail
<1>7. CASE RefuseSegment(polled) BY <1>7 DEF RefuseSegment, Fail
<1>8. CASE FollowSegment(polled) \/ SegmentTimeout(polled) \/ BuildSegment(polled)
  <2>1. Fail("MISSION") \/ state' = state
    BY <1>8 DEF FollowSegment, SegmentTimeout, BuildSegment, Drive
  <2>2. state = "RUNNING"
    BY <1>8 DEF FollowSegment, SegmentTimeout, BuildSegment, ReadyForSegment, RunningTick
  <2> QED BY <2>1, <2>2 DEF Fail
<1> QED BY <1>1, <1>2, <1>3, <1>4, <1>5, <1>6, <1>7, <1>8 DEF Tick, RunStep, Timeout

\* Outside RUNNING the last command is always zero: no path out of RUNNING, by
\* an operator, an error, a deadline or success, leaves the vehicle commanded.
THEOREM Standstill == Spec => []StandstillOutsideRunning
<1>1. Init => StandstillOutsideRunning BY DEF Init, StandstillOutsideRunning
<1>2. StandstillOutsideRunning /\ [Next]_vars => StandstillOutsideRunning'
  <2> SUFFICES ASSUME StandstillOutsideRunning, [Next]_vars PROVE StandstillOutsideRunning' OBVIOUS
  <2> USE DEF StandstillOutsideRunning
  <2>1. CASE UNCHANGED vars BY <2>1 DEF vars, executorVars
  <2>2. CASE \E polled \in Polls : Tick(polled) BY <2>2, TickStandstill
  <2>3. CASE Operator
    BY <2>3 DEF Operator, Start, Pause, Resume, Cancel, ExternalFault, Fail
  <2>4. CASE CameraTopics \/ Camera \/ Chassis \/ ArchiveDrain
    BY <2>4 DEF CameraTopics, Camera, Chassis, Heartbeat, LateHeartbeat, BadHeartbeat, SensorEvent,
                ServeOpen, ServeClose, SensorBreak, CameraAppears, CameraLost, ChassisStop,
                ChassisMove, ChassisPushed, ArchiveDrain, beside, executorVars
  <2> QED BY <2>1, <2>2, <2>3, <2>4 DEF Next
<1> QED BY <1>1, <1>2, PTL DEF Spec

\* A tick in a state that has ended only latches it further.
LEMMA RestingTick ==
  ASSUME NEW polled \in Polls, Tick(polled), state \in Terminal \cup {"CANCELING"}
  PROVE  RestTick(polled)
BY DEF Tick, RunStep, Timeout, ReadyTick, RejectFeedback, ParkedTick, PausingTick, FrozenClock,
       CloseMission, AwaitStandstill, FollowSegment, BuildSegment, RefuseSegment, EndStep,
       ReadyForSegment, PauseTimeout, DrainTimeout, SegmentTimeout, RunningTick, Terminal

\* The latch of the terminal states, as an action.
Latch ==
  /\ state = "FAULT" => state' = "FAULT" /\ reason' = reason
  /\ state \in {"ACQUIRED", "COMPLETED"} => state' = state
  /\ state \in {"CANCELING", "CANCELED"} => state' \in {state, "CANCELED", "FAULT"}

\* No step, of anyone, undoes a fault or a success or reroutes a cancellation.
THEOREM TerminalLatched == Spec => TerminalLatch
<1>1. [Next]_vars => [Latch]_vars
  <2> SUFFICES ASSUME [Next]_vars PROVE Latch \/ UNCHANGED vars OBVIOUS
  <2>1. CASE \E polled \in Polls : Tick(polled)
    <3>1. CASE state \in Terminal \cup {"CANCELING"}
      <4>1. PICK polled \in Polls : RestTick(polled) BY <2>1, <3>1, RestingTick
      <4> QED BY <4>1 DEF RestTick, Faulted, Terminal, Latch
    <3>2. CASE state \notin Terminal \cup {"CANCELING"} BY <3>2 DEF Latch, Terminal
    <3> QED BY <3>1, <3>2
  <2>2. CASE Operator
    BY <2>2 DEF Operator, Start, Pause, Resume, Cancel, ExternalFault, Fail, Faulted, Terminal, Latch
  <2>3. CASE CameraTopics \/ Camera \/ Chassis \/ ArchiveDrain
    BY <2>3 DEF CameraTopics, Camera, Chassis, Heartbeat, LateHeartbeat, BadHeartbeat, SensorEvent,
                ServeOpen, ServeClose, SensorBreak, CameraAppears, CameraLost, ChassisStop,
                ChassisMove, ChassisPushed, ArchiveDrain, beside, executorVars, Latch
  <2> QED BY <2>1, <2>2, <2>3 DEF Next
<1>2. [][Latch]_vars => TerminalLatch BY PTL DEF Latch, TerminalLatch
<1> QED BY <1>1, <1>2, PTL DEF Spec

-----------------------------------------------------------------------------
(* The shutter *)

Alive == {"RUNNING", "PAUSING", "PAUSED"}

\* A gate that holds the camera for closed, or has been told that it is, is
\* right; only a call that was answered Open lets the sensor be ahead of it.
Dark ==
  \/ gate.active = "off" /\ ~(gate.future = "on" /\ reply = "ok")
  \/ gate.future = "off" /\ reply # "none"
  => ~sensor

\* An answer belongs to a call, an open is asked of a closed camera, and a
\* close that failed has raised its error.
CallsMatch ==
  /\ reply # "none" => gate.future # "none"
  /\ gate.future = "on" => gate.active # "on"
  /\ gate.closeFailed => gate.error # "none"

\* An open is only ever in flight on a pass, and while the mission runs only in
\* its lead-in: the region is closed to a camera that has not acknowledged.
OpenOnLead ==
  gate.future = "on" =>
    /\ state \in Alive => OnPass
    /\ state = "RUNNING" => pos = "lead"

\* Off the passes the camera is closed or on its way there; with a segment
\* under way it is closed.
ClosedOffPass ==
  state \in Alive /\ ~OnPass =>
    /\ gate.active = "off" \/ gate.future = "off" \/ gate.error # "none"
    /\ core # NoCore => gate.active = "off" /\ gate.future = "none"

\* A parked mission has no call in flight; a cancelled or a successful one has
\* seen its camera closed.
Quiet ==
  /\ state = "PAUSED" => gate.future = "none"
  /\ state \in {"CANCELED", "ACQUIRED", "COMPLETED"} =>
       gate.active = "off" /\ gate.future = "none"

Shutter == Dark /\ CallsMatch /\ OpenOnLead /\ ClosedOffPass /\ Quiet

\* poll() reports what is known of the camera, and invents nothing.
LEMMA PolledFacts ==
  ASSUME AroundOK, Dark, CallsMatch, NEW polled \in Polls
  PROVE  /\ polled.active = "off" => ~sensor
         /\ gate.future = "none" => polled.future = "none" /\ polled.active = gate.active
         /\ polled.future \in {gate.future, "none"}
         /\ polled.future = "on" => gate.future = "on" /\ polled.active # "on"
         /\ gate.active = "off" /\ gate.future # "on" => polled.active = "off"
         /\ polled.error # "none" \/ gate.future # "off" \/ polled.future = "off" \/ polled.active = "off"
         /\ polled.closeFailed => polled.error # "none"
         /\ gate.error # "none" => polled.error # "none"
<1> USE DEF AroundOK, Dark, CallsMatch
<1>1. CASE gate.future = "none"
  <2>1. polled \in Checked BY <1>1 DEF Polls
  <2>2. PICK e \in {"none", "disabled", "other"} : polled = [gate EXCEPT !.error = e] /\ (gate.error # "none" => e # "none")
    BY <2>1 DEF Checked, Gates
  <2> QED BY <1>1, <2>2 DEF Gates
<1>2. CASE gate.future # "none" /\ reply = "none"
  BY <1>2 DEF Polls, Gates
<1>3. CASE gate.future # "none" /\ reply = "fail"
  BY <1>3 DEF Polls, Gates
<1>4. CASE gate.future = "on" /\ reply = "ok"
  <2>1. polled = [gate EXCEPT !.future = "none", !.active = "on", !.beat = "off", !.fresh = FALSE,
                       !.intervals = Append(@, [track |-> gate.track, closed |-> FALSE])]
    BY <1>4 DEF Polls
  <2> QED BY <1>4, <2>1 DEF Gates
<1>5. CASE gate.future = "off" /\ reply = "ok"
  <2>1. polled = [gate EXCEPT !.future = "none", !.active = "off", !.beat = "none", !.fresh = FALSE,
                       !.intervals = CloseLast(@)]
    BY <1>5 DEF Polls
  <2> QED BY <1>5, <2>1 DEF Gates
<1> QED BY <1>1, <1>2, <1>3, <1>4, <1>5 DEF Gates

\* request(False) leaves a camera that is closed, asked to close, or in error,
\* unless an open is still to be answered.
LEMMA ClosingFacts ==
  ASSUME CaptureEnabled, NEW g \in Gates, g.closeFailed => g.error # "none"
  PROVE  LET r == Requested(g, "off", 0)
         IN  /\ r.active = g.active
             /\ g.future # "none" => r.future = g.future
             /\ r.future \in {g.future, "off"}
             /\ r.active = "off" => r.future = g.future
             /\ r.closeFailed => r.error # "none"
             /\ g.future # "on" => r.active = "off" \/ r.future = "off" \/ r.error # "none"
             /\ Granted(g, "off") => r = g /\ g.active = "off" /\ g.future = "none"
<1> USE DEF Gates
<1>1. CASE g.future # "none" \/ g.closeFailed = TRUE \/ g.active = "off"
  <2>1. Requested(g, "off", 0) = g BY <1>1 DEF Requested
  <2>2. Granted(g, "off") => g.active = "off" /\ g.future = "none" BY DEF Granted
  <2> QED BY <1>1, <2>1, <2>2
<1>2. CASE g.future = "none" /\ g.closeFailed = FALSE /\ g.active # "off"
  <2>1. Requested(g, "off", 0) \in {[g EXCEPT !.error = "other"], [g EXCEPT !.future = "off"]}
    BY <1>2 DEF Requested
  <2>2. ~Granted(g, "off") BY <1>2 DEF Granted
  <2> QED BY <1>2, <2>1, <2>2
<1> QED BY <1>1, <1>2

\* request(True) only ever adds an open to a gate that held the camera closed.
LEMMA OpeningFacts ==
  ASSUME NEW g \in Gates, NEW track \in Nat, g.closeFailed => g.error # "none"
  PROVE  LET r == Requested(g, "on", track)
         IN  /\ r.active = g.active
             /\ r.future \in {g.future, "on"}
             /\ r.future = "on" => g.future = "on" \/ g.active # "on"
             /\ r.closeFailed => r.error # "none"
BY DEF Requested, Gates

\* Whatever a tick requests, the gate it leaves is as right as the polled one.
LEMMA TickDark ==
  ASSUME AroundOK, Dark, CallsMatch, NEW polled \in Polls, NEW g \in Gates, NEW a,
         EndTick(g, a), g.active = polled.active, g.future = "on" => g.active # "on",
         g.closeFailed => g.error # "none"
  PROVE  Dark' /\ CallsMatch'
BY PolledFacts DEF EndTick, Dark, CallsMatch

\* What poll() may report to a mission that is alive and stays so.
LEMMA PolledAlive ==
  ASSUME AroundOK, Shutter, state \in Alive, NEW polled \in Polls, ~Broken(polled)
  PROVE  /\ polled.future = "on" => OnPass /\ (state = "RUNNING" => pos = "lead")
         /\ ~OnPass => polled.active = "off" \/ polled.future = "off"
         /\ ~OnPass /\ core # NoCore => polled.active = "off" /\ polled.future = "none"
         /\ state = "PAUSED" => polled.future = "none"
<1>1. polled.error = "none" BY DEF Broken
<1> QED BY <1>1, PolledFacts DEF Shutter, OpenOnLead, ClosedOffPass, Quiet

\* run_step with a tracker: an open is asked for only in the lead-in, a pass is
\* only left through its run-out, and the close is asked for there.
LEMMA DriveShutter ==
  ASSUME CaptureEnabled, TypeOK, Shutter, state = "RUNNING", ~AtMissionEnd,
         NEW polled \in Polls, ~Broken(polled), NEW c0, NEW k \in Kinds,
         NEW c \in TrackerStates \cup {"COMPLETED"}, NEW built \in BOOLEAN,
         core = NoCore => polled.future = "none",
         Drive(polled, c0, k, c, built)
  PROVE  Shutter'
<1>0. ExecutorOK /\ AroundOK BY DEF TypeOK, ExecutorOK, AroundOK
<1>1. polled \in Gates BY <1>0, PollsType
<1>2. index \in Nat /\ index + 1 \in Nat BY <1>0, StepsLeft
<1>3. state \in Alive BY DEF Alive
<1>4. PICK p \in (IF k = "translate" /\ mode # "HOLD" THEN Reach(pos) ELSE {pos}),
           h \in Headings(c) :
        LET pass == OnPass /\ k = "translate"
            leaving == pass /\ Leaving(p, c)
            opening == pass /\ ~leaving /\ mode = "DRIVE" /\ (polled.active = "on" \/ h = "tight")
            g == CASE leaving -> Requested(polled, "off", 0)
                   [] opening -> Requested(polled, "on", index + 1)
                   [] OTHER -> polled
            blind == pass /\ ~leaving /\ CaptureEnabled /\ g.active # "on" /\ p = "region"
            done == ~blind /\ c = "COMPLETED" /\ (k = "translate" \/ Step = "ROTATE_180")
        IN  /\ Fits(c, k, p)
            /\ blind => Fail("MISSION")
            /\ Fail("MISSION") \/ UNCHANGED state
            /\ core' = IF c = "COMPLETED" THEN NoCore ELSE [state |-> c, kind |-> k]
            /\ index' = IF done THEN index + 1 ELSE index
            /\ pos' = IF done THEN "lead" ELSE p
            /\ EndTick(g, Submitted(polled))
  BY DEF Drive
<1> DEFINE pass == OnPass /\ k = "translate"
           leaving == pass /\ Leaving(p, c)
           opening == pass /\ ~leaving /\ mode = "DRIVE" /\ (polled.active = "on" \/ h = "tight")
           g == CASE leaving -> Requested(polled, "off", 0)
                  [] opening -> Requested(polled, "on", index + 1)
                  [] OTHER -> polled
           blind == pass /\ ~leaving /\ CaptureEnabled /\ g.active # "on" /\ p = "region"
           done == ~blind /\ c = "COMPLETED" /\ (k = "translate" \/ Step = "ROTATE_180")
<1>5. gate' = g BY <1>4 DEF EndTick
<1>6. /\ polled.closeFailed => polled.error # "none"
      /\ polled.future = "on" => polled.active # "on"
      /\ polled.error = "none"
  BY <1>0, PolledFacts DEF Shutter, Broken
<1>7. /\ g \in Gates
      /\ g.active = polled.active
      /\ g.future = "on" => g.active # "on"
      /\ g.closeFailed => g.error # "none"
      /\ g.future = "on" => polled.future = "on" \/ opening
      /\ leaving /\ polled.future # "on" => g.active = "off" \/ g.future = "off" \/ g.error # "none"
      /\ ~OnPass => g = polled
  <2>1. CASE leaving
    <3>1. g = Requested(polled, "off", 0) BY <2>1
    <3>2. g \in Gates BY <1>1, <3>1, RequestedType
    <3> HIDE DEF g
    <3> QED BY <1>1, <1>6, <2>1, <3>1, <3>2, ClosingFacts
  <2>2. CASE opening
    <3>1. g = Requested(polled, "on", index + 1) BY <2>2
    <3>2. g \in Gates BY <1>1, <1>2, <3>1, RequestedType
    <3> HIDE DEF g
    <3> QED BY <1>1, <1>2, <1>6, <2>2, <3>1, <3>2, OpeningFacts
  <2>3. CASE ~leaving /\ ~opening
    <3>1. g = polled BY <2>3
    <3> HIDE DEF g
    <3> QED BY <1>1, <1>6, <2>3, <3>1
  <2> QED BY <2>1, <2>2, <2>3
<1>8. Dark' /\ CallsMatch'
  <2>1. EndTick(g, Submitted(polled)) BY <1>4
  <2> HIDE DEF g
  <2> QED BY <1>0, <1>7, <2>1, TickDark DEF Shutter
<1>9. state' \in {"RUNNING", "FAULT"} /\ (blind => state' = "FAULT")
  BY <1>4 DEF Fail, Faulted
<1>10. /\ polled.future = "on" => OnPass /\ pos = "lead"
       /\ ~OnPass => polled.active = "off" \/ polled.future = "off"
       /\ ~OnPass /\ core # NoCore => polled.active = "off" /\ polled.future = "none"
  BY <1>0, <1>3, PolledAlive
<1>11. /\ OnPass /\ pos = "lead" => p \in {"lead", "region"}
       /\ p \in Places
  BY <1>0, <1>4 DEF Reach, Places, ExecutorOK
<1>12. /\ c = "STOPPING" /\ k = "translate" /\ OnPass => p \in {"runout", "end"}
       /\ c = "COMPLETED" /\ k = "translate" => p = "end"
  BY <1>4 DEF Fits
<1>13. leaving => p \in {"runout", "end"}
  BY <1>12 DEF Leaving
<1>14. OnPass /\ done => leaving /\ p = "end"
  BY <1>12 DEF Leaving, OnPass
<1>15. index' = index \/ done BY <1>4
<1>16. g.future = "on" /\ state' = "RUNNING" => OnPass /\ p = "lead" /\ ~done
  <2> SUFFICES ASSUME g.future = "on", state' = "RUNNING" PROVE OnPass /\ p = "lead" /\ ~done
    OBVIOUS
  <2> HIDE DEF g
  <2>1. ~blind BY <1>9
  <2>2. CASE polled.future = "on"
    <3>1. OnPass /\ p \in {"lead", "region"} BY <1>10, <1>11, <2>2
    <3>2. ~leaving BY <1>13, <3>1
    <3>3. k = "translate" \/ p = pos BY <1>4
    <3>4. p = "lead" BY <1>7, <1>10, <2>1, <2>2, <3>1, <3>2, <3>3 DEF blind
    <3> QED BY <1>14, <3>1, <3>2, <3>4
  <2>3. CASE opening
    <3>1. OnPass /\ p \notin {"runout", "end"} BY <2>3 DEF Leaving
    <3>2. p = "lead" BY <1>7, <1>11, <2>1, <2>3, <3>1 DEF Places
    <3> QED BY <1>14, <2>3, <3>2
  <2> QED BY <1>7, <2>2, <2>3
<1>17. OpenOnLead'
  <2>1. ~done => pos' = p /\ index' = index BY <1>4
  <2> HIDE DEF g
  <2> QED BY <1>5, <1>9, <1>16, <2>1 DEF OpenOnLead, Alive, OnPass, AtMissionEnd, Step
<1>18. ClosedOffPass'
  <2>1. CASE done
    <3>1. core' = NoCore BY <1>4, <2>1
    <3>2. g.active = "off" \/ g.future = "off" \/ g.error # "none"
      <4> HIDE DEF g
      <4>1. CASE OnPass
        <5>1. leaving /\ p = "end" BY <1>14, <2>1, <4>1
        <5>2. polled.future # "on" BY <1>10, <1>11, <5>1
        <5> QED BY <1>7, <5>1, <5>2
      <4>2. CASE ~OnPass BY <1>7, <1>10, <4>2
      <4> QED BY <4>1, <4>2
    <3> HIDE DEF g
    <3> QED BY <1>5, <3>1, <3>2 DEF ClosedOffPass
  <2>2. CASE ~done
    <3>1. index' = index BY <1>15, <2>2
    <3>2. ~OnPass => g = polled /\ (polled.active = "off" /\ polled.future = "none")
      <4> HIDE DEF g
      <4>1. ~OnPass /\ core = NoCore => polled.active = "off" /\ polled.future = "none" BY <1>10
      <4> QED BY <1>7, <1>10, <4>1
    <3> HIDE DEF g
    <3> QED BY <1>5, <3>1, <3>2 DEF ClosedOffPass, OnPass, AtMissionEnd, Step
  <2> QED BY <2>1, <2>2
<1>19. Quiet' BY <1>9 DEF Quiet
<1> QED BY <1>8, <1>17, <1>18, <1>19 DEF Shutter

\* Each tick keeps the shutter's invariant.
LEMMA TickShutter ==
  ASSUME CaptureEnabled, TypeOK, Shutter, NEW polled \in Polls, Tick(polled)
  PROVE  Shutter'
<1>0. ExecutorOK /\ AroundOK BY DEF TypeOK, ExecutorOK, AroundOK
<1>1. polled \in Gates BY <1>0, PollsType
<1>2. Dark /\ CallsMatch BY DEF Shutter
<1>3. /\ polled.closeFailed => polled.error # "none"
      /\ polled.future = "on" => polled.active # "on"
      /\ gate.future = "none" => polled.future = "none" /\ polled.active = gate.active
  BY <1>0, <1>2, PolledFacts
<1> DEFINE closing == Requested(polled, "off", 0)
<1>4. /\ closing \in Gates
      /\ closing.active = polled.active
      /\ closing.future \in {polled.future, "off"}
      /\ polled.future # "none" => closing.future = polled.future
      /\ closing.active = "off" => closing.future = polled.future
      /\ closing.closeFailed => closing.error # "none"
      /\ polled.future # "on" => closing.active = "off" \/ closing.future = "off" \/ closing.error # "none"
      /\ Granted(polled, "off") => closing = polled /\ polled.active = "off" /\ polled.future = "none"
  BY <1>1, <1>3, ClosingFacts, RequestedType
<1> HIDE DEF closing
<1>5. ASSUME NEW a, EndTick(polled, a) PROVE gate' = polled /\ Dark' /\ CallsMatch'
  BY <1>0, <1>1, <1>2, <1>3, <1>5, TickDark DEF EndTick
<1>6. ASSUME NEW a, EndTick(closing, a) PROVE gate' = closing /\ Dark' /\ CallsMatch'
  BY <1>0, <1>2, <1>3, <1>4, <1>6, TickDark DEF EndTick
<1>7. ASSUME state \in Alive, ~Broken(polled)
      PROVE  /\ polled.error = "none"
             /\ polled.future = "on" => OnPass /\ (state = "RUNNING" => pos = "lead")
             /\ ~OnPass => polled.active = "off" \/ polled.future = "off"
             /\ ~OnPass /\ core # NoCore => polled.active = "off" /\ polled.future = "none"
             /\ state = "PAUSED" => polled.future = "none"
  BY <1>0, <1>7, PolledAlive DEF Broken
<1>8. Quiet BY DEF Shutter
<1>9. CASE RestTick(polled)
  <2>1. state' \notin Alive
    BY <1>9 DEF RestTick, Faulted, Alive, Terminal
  <2>2. Dark' /\ CallsMatch' /\ gate' = closing BY <1>6, <1>9 DEF RestTick, closing
  <2>3. OpenOnLead' /\ ClosedOffPass' BY <2>1 DEF OpenOnLead, ClosedOffPass, Alive
  <2>4. state' \in {"CANCELED", "ACQUIRED", "COMPLETED"} => gate'.active = "off" /\ gate'.future = "none"
    <3>1. state' \in {"CANCELED", "ACQUIRED", "COMPLETED"} => Released(closing) \/ state = state'
      BY <1>9 DEF RestTick, Faulted, closing
    <3>2. state \in {"CANCELED", "ACQUIRED", "COMPLETED"} => closing.active = "off" /\ closing.future = "none"
      BY <1>3, <1>4, <1>8 DEF Quiet
    <3> QED BY <2>2, <3>1, <3>2 DEF Released
  <2> QED BY <2>1, <2>2, <2>3, <2>4 DEF Shutter, Quiet, Alive
<1>10. CASE ReadyTick(polled)
  <2>1. PICK valid, dwelt, compiled \in BOOLEAN :
          LET prepared == IF CaptureEnabled /\ polled.active = "unknown" /\ service = "ready"
                          THEN Requested(polled, "off", 0) ELSE polled
              starting == AutoStart /\ (valid /\ mode = "HOLD") /\ dwelt /\ "ready" \in since
              started == starting /\ compiled /\ Granted(prepared, "off")
          IN  /\ state' = IF started THEN "RUNNING" ELSE state
              /\ EndTick(IF starting THEN Requested(prepared, "off", 0) ELSE prepared,
                         Submitted(polled))
    BY <1>10 DEF ReadyTick
  <2> DEFINE prepared == IF CaptureEnabled /\ polled.active = "unknown" /\ service = "ready"
                         THEN Requested(polled, "off", 0) ELSE polled
             starting == AutoStart /\ (valid /\ mode = "HOLD") /\ dwelt /\ "ready" \in since
             started == starting /\ compiled /\ Granted(prepared, "off")
             g == IF starting THEN Requested(prepared, "off", 0) ELSE prepared
  <2>2. prepared \in {polled, closing} BY DEF closing
  <2>3. /\ prepared \in Gates /\ prepared.active = polled.active
        /\ prepared.future = "on" => prepared.active # "on"
        /\ prepared.closeFailed => prepared.error # "none"
    BY <1>1, <1>3, <1>4, <2>2
  <2>4. g \in {prepared, Requested(prepared, "off", 0)} BY DEF g
  <2>5. gate' = g /\ EndTick(g, Submitted(polled)) BY <2>1 DEF EndTick
  <2>6. state' = (IF started THEN "RUNNING" ELSE state) BY <2>1
  <2>7. started => starting /\ Granted(prepared, "off") BY DEF started
  <2>8. starting => g = Requested(prepared, "off", 0) BY DEF g
  <2>9. state = "READY" BY <1>10 DEF ReadyTick
  <2> HIDE DEF prepared, starting, started, g
  <2>10. /\ g \in Gates /\ g.active = polled.active
         /\ g.future = "on" => g.active # "on"
         /\ g.closeFailed => g.error # "none"
    BY <2>3, <2>4, ClosingFacts, RequestedType
  <2>11. Dark' /\ CallsMatch' BY <1>0, <1>2, <2>5, <2>10, TickDark
  <2>12. started => g.active = "off" /\ g.future = "none" BY <2>3, <2>7, <2>8, ClosingFacts
  <2>13. OpenOnLead' /\ ClosedOffPass' /\ Quiet'
    BY <2>5, <2>6, <2>9, <2>12 DEF OpenOnLead, ClosedOffPass, Quiet, Alive
  <2> QED BY <2>11, <2>13 DEF Shutter
<1>11. CASE RejectFeedback(polled) \/ PauseTimeout(polled) \/ DrainTimeout(polled) \/ RefuseSegment(polled)
  <2>1. state' = "FAULT"
    BY <1>11 DEF RejectFeedback, PauseTimeout, DrainTimeout, RefuseSegment, ReadyForSegment,
                 RunningTick, Fail, Faulted
  <2>2. Dark' /\ CallsMatch'
    BY <1>5, <1>11 DEF RejectFeedback, PauseTimeout, DrainTimeout, RefuseSegment
  <2> QED BY <2>1, <2>2 DEF Shutter, OpenOnLead, ClosedOffPass, Quiet, Alive
<1>12. CASE ParkedTick(polled) \/ PausingTick(polled) \/ FrozenClock(polled) \/ AwaitStandstill(polled)
  <2>1. state \in Alive /\ ~Broken(polled)
    BY <1>12 DEF ParkedTick, PausingTick, FrozenClock, AwaitStandstill, RunningTick, Alive
  <2>2. gate' = polled /\ Dark' /\ CallsMatch'
    BY <1>5, <1>12 DEF ParkedTick, PausingTick, FrozenClock, AwaitStandstill
  <2>3. /\ UNCHANGED <<index, core, pos>>
        /\ state' = state \/ (state' = "PAUSED" /\ polled.future = "none")
    BY <1>12 DEF ParkedTick, PausingTick, FrozenClock, AwaitStandstill, executorVars
  <2>4. OnPass' = OnPass BY <2>3 DEF OnPass, AtMissionEnd, Step
  <2> QED BY <1>7, <2>1, <2>2, <2>3, <2>4 DEF Shutter, OpenOnLead, ClosedOffPass, Quiet, Alive
<1>13. CASE CloseMission(polled)
  <2>1. state = "RUNNING" /\ ~Broken(polled) /\ AtMissionEnd
    BY <1>13 DEF CloseMission, RunningTick
  <2>2. gate' = closing /\ Dark' /\ CallsMatch' BY <1>6, <1>13 DEF CloseMission, closing
  <2>3. \/ state' \in {"RUNNING", "FAULT"}
        \/ state' \in {"ACQUIRED", "COMPLETED"} /\ Granted(polled, "off")
    BY <1>13, <2>1 DEF CloseMission, Fail, Faulted
  <2>4. UNCHANGED <<index, core, pos>> BY <1>13 DEF CloseMission
  <2>5. ~OnPass /\ OnPass' = OnPass BY <2>1, <2>4 DEF OnPass, AtMissionEnd, Step
  <2> QED BY <1>4, <1>7, <2>1, <2>2, <2>3, <2>4, <2>5 DEF Shutter, OpenOnLead, ClosedOffPass, Quiet, Alive
<1>14. CASE EndStep(polled)
  <2>1. state = "RUNNING" /\ state' = state /\ ~Broken(polled) /\ core = NoCore /\ core' = core
        /\ polled.future = "none"
    BY <1>14 DEF EndStep, ReadyForSegment, RunningTick
  <2>2. gate' = closing /\ Dark' /\ CallsMatch' BY <1>6, <1>14 DEF EndStep, closing
  <2> QED BY <1>4, <2>1, <2>2 DEF Shutter, OpenOnLead, ClosedOffPass, Quiet
<1>15. CASE FollowSegment(polled)
  <2>1. core.state \in TrackerStates /\ core.kind \in Kinds
    BY <1>0, <1>15 DEF FollowSegment, ExecutorOK, Cores
  <2>2. PICK c \in Updated(core.state) : Drive(polled, core.state, core.kind, c, FALSE)
    BY <1>15 DEF FollowSegment
  <2>3. c \in TrackerStates \cup {"COMPLETED"} BY <2>1, <2>2, UpdatedType
  <2> QED BY <1>15, <2>1, <2>2, <2>3, DriveShutter DEF FollowSegment, RunningTick
<1>16. CASE SegmentTimeout(polled)
  <2>1. core.kind \in Kinds BY <1>0, <1>16 DEF SegmentTimeout, ExecutorOK, Cores
  <2> QED BY <1>16, <2>1, DriveShutter DEF SegmentTimeout, RunningTick, TrackerStates
<1>17. CASE BuildSegment(polled)
  <2>1. PICK k \in Kinds, c \in Updated("ALIGNING") : Drive(polled, "ALIGNING", k, c, TRUE)
    BY <1>17 DEF BuildSegment
  <2>2. c \in TrackerStates \cup {"COMPLETED"} BY <2>1, UpdatedType DEF TrackerStates
  <2> QED BY <1>17, <2>1, <2>2, DriveShutter DEF BuildSegment, ReadyForSegment, RunningTick
<1> QED BY <1>9, <1>10, <1>11, <1>12, <1>13, <1>14, <1>15, <1>16, <1>17 DEF Tick, RunStep, Timeout

\* Neither the operator nor anything around the executor disturbs it: only an
\* acknowledged Start enters RUNNING, and only an open asked for exposes.
LEMMA OtherShutter ==
  ASSUME CaptureEnabled, TypeOK, Shutter,
         Operator \/ CameraTopics \/ Camera \/ Chassis \/ ArchiveDrain
  PROVE  Shutter'
<1>0. AroundOK /\ gate \in Gates BY DEF TypeOK, AroundOK
<1> USE DEF Shutter, Dark, CallsMatch
<1>1. CASE Start
  <2>1. /\ gate'.active = gate.active
        /\ gate'.future \in {gate.future, "off"}
        /\ gate'.closeFailed => gate'.error # "none"
        /\ gate.future # "none" => gate'.future = gate.future
        /\ Granted(gate, "off") => gate' = gate /\ gate.active = "off" /\ gate.future = "none"
        /\ gate'.active = "off" => gate'.future = gate.future
    BY <1>0, <1>1, ClosingFacts DEF Start
  <2>2. Dark' /\ CallsMatch' BY <1>0, <1>1, <2>1 DEF Start, cameraVars, Gates
  <2>3. OpenOnLead' /\ ClosedOffPass' /\ Quiet'
    BY <1>1, <2>1 DEF Start, OpenOnLead, ClosedOffPass, Quiet, Alive
  <2> QED BY <2>2, <2>3
<1>2. CASE Pause \/ Resume \/ Cancel \/ ExternalFault
  <2>1. UNCHANGED <<gate, sensor, reply, index>>
    BY <1>2 DEF Pause, Resume, Cancel, ExternalFault, outside, cameraVars
  <2>2. Dark' /\ CallsMatch' BY <2>1
  <2>3. OnPass' = OnPass BY <2>1 DEF OnPass, AtMissionEnd, Step
  <2>4. OpenOnLead' /\ ClosedOffPass' /\ Quiet'
    BY <1>2, <2>1, <2>3 DEF Pause, Resume, Cancel, ExternalFault, Fail, Faulted, OpenOnLead, ClosedOffPass, Quiet, Alive
  <2> QED BY <2>2, <2>4
<1>3. CASE CameraTopics
  <2>1. /\ UNCHANGED <<state, index, core, pos, sensor, reply>>
        /\ gate'.active = gate.active /\ gate'.future = gate.future
        /\ gate'.closeFailed = gate.closeFailed
        /\ gate.error # "none" => gate'.error # "none"
    BY <1>0, <1>3 DEF CameraTopics, Heartbeat, LateHeartbeat, BadHeartbeat, SensorEvent, beside,
                      executorVars, cameraVars, Gates
  <2>2. OnPass' = OnPass BY <2>1 DEF OnPass, AtMissionEnd, Step
  <2> QED BY <2>1, <2>2 DEF OpenOnLead, ClosedOffPass, Quiet, Alive
<1>4. CASE Camera
  <2>1. UNCHANGED <<state, index, core, pos, gate>>
    BY <1>4 DEF Camera, ServeOpen, ServeClose, SensorBreak, CameraAppears, CameraLost, beside, executorVars
  <2>2. Dark' /\ CallsMatch'
    <3>1. CASE ServeOpen
      <4>1. gate' = gate /\ gate.future = "on" /\ reply = "none" BY <2>1, <3>1 DEF ServeOpen
      <4>2. CASE reply' = "ok" BY <4>1, <4>2
      <4>3. CASE reply' = "fail" /\ sensor' \in {sensor, FALSE}
        <5>1. gate.active = "off" => ~sensor BY <4>1
        <5>2. ~sensor => ~sensor' BY <4>3, Zenon
        <5> QED BY <4>1, <4>3, <5>1, <5>2
      <4> QED BY <3>1, <4>2, <4>3 DEF ServeOpen
    <3>2. CASE ServeClose BY <2>1, <3>2 DEF ServeClose
    <3>3. CASE SensorBreak BY <2>1, <3>3 DEF SensorBreak
    <3>4. CASE CameraAppears \/ CameraLost BY <2>1, <3>4 DEF CameraAppears, CameraLost
    <3> QED BY <1>4, <3>1, <3>2, <3>3, <3>4 DEF Camera
  <2>3. OnPass' = OnPass BY <2>1 DEF OnPass, AtMissionEnd, Step
  <2> QED BY <2>1, <2>2, <2>3 DEF OpenOnLead, ClosedOffPass, Quiet
<1>5. CASE Chassis \/ ArchiveDrain
  <2>1. UNCHANGED <<state, index, core, pos, gate, sensor, reply>>
    BY <1>5 DEF Chassis, ChassisStop, ChassisMove, ChassisPushed, ArchiveDrain, beside, executorVars, cameraVars
  <2>2. OnPass' = OnPass BY <2>1 DEF OnPass, AtMissionEnd, Step
  <2> QED BY <2>1, <2>2 DEF OpenOnLead, ClosedOffPass, Quiet
<1> QED BY <1>1, <1>2, <1>3, <1>4, <1>5 DEF Operator

LEMMA ShutterInit == ASSUME CaptureEnabled, Init PROVE Shutter
BY DEF Init, Shutter, Dark, CallsMatch, OpenOnLead, ClosedOffPass, Quiet, Alive

\* With capture on, the shutter's invariant holds in every run.
LEMMA ShutterInvariant == ASSUME CaptureEnabled PROVE Spec => []Shutter
<1>1. Init => Shutter BY ShutterInit
<1>2. TypeOK /\ Shutter /\ [Next]_vars => Shutter'
  <2> SUFFICES ASSUME TypeOK, Shutter, [Next]_vars PROVE Shutter' OBVIOUS
  <2>1. CASE UNCHANGED vars
    <3>1. UNCHANGED <<state, index, core, pos, gate, sensor, reply>>
      BY <2>1 DEF vars, executorVars, cameraVars
    <3>2. OnPass' = OnPass BY <3>1 DEF OnPass, AtMissionEnd, Step
    <3> QED BY <3>1, <3>2 DEF Shutter, Dark, CallsMatch, OpenOnLead, ClosedOffPass, Quiet
  <2>2. CASE \E polled \in Polls : Tick(polled) BY <2>2, TickShutter
  <2>3. CASE Operator \/ CameraTopics \/ Camera \/ Chassis \/ ArchiveDrain BY <2>3, OtherShutter
  <2> QED BY <2>1, <2>2, <2>3 DEF Next
<1> QED BY <1>1, <1>2, TypeCorrect, PTL DEF Spec

\* The camera is closed and no open is in flight through every segment that is
\* not on a pass, whatever the camera answers and whenever it does.
THEOREM BlindTransfers == CaptureEnabled => (Spec => []TransfersAreBlind)
<1> SUFFICES ASSUME CaptureEnabled PROVE Spec => []TransfersAreBlind OBVIOUS
<1>1. Shutter => TransfersAreBlind
  BY DEF Shutter, Dark, ClosedOffPass, Alive, OnPass, TransfersAreBlind
<1> QED BY <1>1, ShutterInvariant, PTL

\* CANCELED is entered, and kept, only with the camera off and no call to it in
\* flight, however the cancellation raced an open or a close.
THEOREM DarkCancellation == CaptureEnabled => (Spec => []CanceledIsDark)
<1> SUFFICES ASSUME CaptureEnabled PROVE Spec => []CanceledIsDark OBVIOUS
<1>1. Shutter => CanceledIsDark BY DEF Shutter, Dark, Quiet, CanceledIsDark
<1> QED BY <1>1, ShutterInvariant, PTL

\* A parked mission has no camera call in flight.
THEOREM QuietPause == CaptureEnabled => (Spec => []PausedIsQuiet)
<1> SUFFICES ASSUME CaptureEnabled PROVE Spec => []PausedIsQuiet OBVIOUS
<1>1. Shutter => PausedIsQuiet BY DEF Shutter, Quiet, PausedIsQuiet
<1> QED BY <1>1, ShutterInvariant, PTL

-----------------------------------------------------------------------------
(* What the gate reports *)

\* An error, or a raised one, sends the tick to its last branch.
LEMMA BrokenTick ==
  ASSUME NEW polled \in Polls, Tick(polled), Broken(polled) PROVE RestTick(polled)
BY DEF Tick, RunStep, Timeout, ReadyTick, RejectFeedback, ParkedTick, PausingTick, FrozenClock,
       CloseMission, AwaitStandstill, FollowSegment, BuildSegment, RefuseSegment, EndStep,
       ReadyForSegment, PauseTimeout, DrainTimeout, SegmentTimeout, RunningTick

Closing(g) == Requested(g, "off", 0)

\* The gate a tick leaves is the polled one after at most two closing requests,
\* or one opening request of a tick that has found no error.
LEMMA TickGate ==
  ASSUME NEW polled \in Polls, Tick(polled)
  PROVE  /\ sensor' = sensor
         /\ \/ gate' \in {polled, Closing(polled), Closing(Closing(polled))}
            \/ ~Broken(polled) /\ state = "RUNNING" /\ gate' = Requested(polled, "on", index + 1)
<1> USE DEF EndTick, Closing
<1>1. CASE RestTick(polled) BY <1>1 DEF RestTick
<1>2. CASE ReadyTick(polled) BY <1>2 DEF ReadyTick
<1>3. CASE RejectFeedback(polled) \/ PauseTimeout(polled) \/ DrainTimeout(polled) \/ RefuseSegment(polled)
  BY <1>3 DEF RejectFeedback, PauseTimeout, DrainTimeout, RefuseSegment
<1>4. CASE ParkedTick(polled) \/ PausingTick(polled) \/ FrozenClock(polled) \/ AwaitStandstill(polled)
  BY <1>4 DEF ParkedTick, PausingTick, FrozenClock, AwaitStandstill
<1>5. CASE CloseMission(polled) \/ EndStep(polled) BY <1>5 DEF CloseMission, EndStep
<1>6. ASSUME NEW c0, NEW k, NEW c, NEW built, Drive(polled, c0, k, c, built)
      PROVE  sensor' = sensor /\ gate' \in {polled, Closing(polled), Requested(polled, "on", index + 1)}
  BY <1>6 DEF Drive
<1>7. CASE FollowSegment(polled) \/ SegmentTimeout(polled) \/ BuildSegment(polled)
  <2>1. ~Broken(polled) /\ state = "RUNNING"
    BY <1>7 DEF FollowSegment, SegmentTimeout, BuildSegment, ReadyForSegment, RunningTick
  <2> QED BY <1>6, <1>7, <2>1 DEF FollowSegment, SegmentTimeout, BuildSegment
<1> QED BY <1>1, <1>2, <1>3, <1>4, <1>5, <1>7 DEF Tick, RunStep, Timeout

\* request() changes nothing but the error and the outstanding call.
LEMMA RequestKeeps ==
  ASSUME NEW g \in Gates, NEW value \in {"on", "off"}, NEW track \in Nat
  PROVE  LET r == Requested(g, value, track)
         IN  /\ r.active = g.active /\ r.closeFailed = g.closeFailed
             /\ r.beat = g.beat /\ r.fresh = g.fresh
             /\ r.error = "disabled" => g.error = "disabled"
             /\ value = "off" /\ r.future = "on" => g.future = "on"
BY DEF Requested, Gates

\* A close can only be in flight, and fail, in a mission that has not ended well.
LEMMA FailedStep ==
  ASSUME CaptureEnabled, TypeOK, Shutter, FailedCloseIsFault, [Next]_vars
  PROVE  FailedCloseIsFault'
<1>0. AroundOK /\ gate \in Gates BY DEF TypeOK, AroundOK
<1>1. CASE gate.closeFailed BY <1>1, FaultStays DEF FailedCloseIsFault
<1>2. CASE ~gate.closeFailed /\ \E polled \in Polls : Tick(polled)
  <2>1. PICK polled \in Polls : Tick(polled) BY <1>2
  <2>2. polled \in Gates BY <1>0, <2>1, PollsType
  <2>3. Closing(polled) \in Gates BY <2>2, RequestedType DEF Closing
  <2>4. index + 1 \in Nat BY StepsLength DEF TypeOK
  <2>5. gate'.closeFailed = polled.closeFailed
    BY <2>1, <2>2, <2>3, <2>4, TickGate, RequestKeeps DEF Closing
  <2>6. CASE polled.closeFailed
    <3>1. polled.error # "none" BY <1>0, <2>6, PolledFacts DEF Shutter
    <3>2. RestTick(polled) BY <2>1, <3>1, BrokenTick DEF Broken
    <3>3. state \notin {"ACQUIRED", "COMPLETED"}
      <4> SUFFICES ASSUME gate.future = "none" PROVE FALSE BY DEF Shutter, Quiet
      <4>1. polled \in Checked BY DEF Polls
      <4>2. polled.closeFailed = gate.closeFailed BY <1>0, <4>1 DEF Checked, Gates
      <4> QED BY <1>2, <2>6, <4>2
    <3>4. state' = "FAULT" BY <3>1, <3>2, <3>3 DEF RestTick, Broken, Faulted
    <3> QED BY <3>4 DEF FailedCloseIsFault
  <2>7. CASE ~polled.closeFailed BY <2>5, <2>7 DEF FailedCloseIsFault
  <2> QED BY <2>6, <2>7
<1>3. CASE ~gate.closeFailed /\ ~\E polled \in Polls : Tick(polled)
  <2>1. gate'.closeFailed = gate.closeFailed
    <3>1. CASE Start BY <1>0, <3>1, RequestKeeps DEF Start
    <3>2. CASE ~Start
      BY <1>0, <1>3, <3>2 DEF Next, vars, Operator, CameraTopics, Camera, Chassis, Pause, Resume, Cancel,
           ExternalFault, Heartbeat, LateHeartbeat, BadHeartbeat, SensorEvent, ServeOpen, ServeClose,
           SensorBreak, CameraAppears, CameraLost, ChassisStop, ChassisMove, ChassisPushed,
           ArchiveDrain, outside, beside, Gates
    <3> QED BY <3>1, <3>2
  <2> QED BY <1>3, <2>1 DEF FailedCloseIsFault
<1> QED BY <1>1, <1>2, <1>3

\* A camera that failed to confirm its close has always faulted its mission.
THEOREM FailedCloseFaults == CaptureEnabled => (Spec => []FailedCloseIsFault)
<1> SUFFICES ASSUME CaptureEnabled PROVE Spec => []FailedCloseIsFault OBVIOUS
<1>1. Init => FailedCloseIsFault
  <2> SUFFICES ASSUME Init PROVE FailedCloseIsFault OBVIOUS
  <2>1. gate.closeFailed = FALSE BY Zenon DEF Init
  <2> QED BY <2>1, Zenon DEF FailedCloseIsFault
<1>2. TypeOK /\ Shutter /\ FailedCloseIsFault /\ [Next]_vars => FailedCloseIsFault' BY FailedStep
<1> QED BY <1>1, <1>2, TypeCorrect, ShutterInvariant, PTL DEF Spec

-----------------------------------------------------------------------------
(* The archive *)

\* The archive thread writes the interval file before it goes idle, and only
\* the last tick that found it idle and clean has declared the archive settled.
Filed ==
  /\ ~archive.unsaved /\ ~archive.errors => archive.current
  /\ settled => state \in Terminal /\ archive.current

\* A tick leaves the archive busy, with what its thread has done so far.
LEMMA TickFiles ==
  ASSUME TypeOK, Filed, NEW polled \in Polls, Tick(polled)
  PROVE  Filed'
<1>1. Submitted(polled) \in Archives BY SubmittedType DEF TypeOK, AroundOK
<1>2. ~Submitted(polled).unsaved /\ ~Submitted(polled).errors => Submitted(polled).current
  BY DEF Submitted, Filed, TypeOK, Archives
<1>3. ASSUME NEW a \in ArchiveProgress(Submitted(polled))
      PROVE  a \in Archives /\ (Drained(a) => a.current)
  BY <1>1, <1>2, <1>3 DEF ArchiveProgress, Drained, Archives
<1>4. ASSUME NEW a \in Archives, NEW g, EndTick(g, a)
      PROVE  archive'.unsaved /\ archive'.current = a.current
  BY <1>4 DEF EndTick, Archives
<1>5. CASE RestTick(polled)
  <2>1. PICK a \in ArchiveProgress(Submitted(polled)) :
          /\ settled' = IF state' \in Terminal THEN Drained(a) ELSE settled
          /\ EndTick(Requested(polled, "off", 0), a)
    BY <1>5 DEF RestTick
  <2>2. archive'.unsaved /\ archive'.current = a.current BY <1>3, <1>4, <2>1
  <2>3. state \in Terminal => state' \in Terminal
    BY <1>5 DEF RestTick, Faulted, Terminal
  <2> QED BY <1>3, <2>1, <2>2, <2>3 DEF Filed
<1>6. CASE CloseMission(polled)
  <2>1. ~settled BY <1>6 DEF Filed, CloseMission, RunningTick, Terminal
  <2>2. PICK a \in ArchiveProgress(Submitted(polled)) :
          /\ settled' => Drained(a) /\ state' \in Terminal
          /\ EndTick(Requested(polled, "off", 0), a)
    BY <1>6, <2>1 DEF CloseMission, Terminal, Drained
  <2>3. archive'.unsaved /\ archive'.current = a.current BY <1>3, <1>4, <2>2
  <2> QED BY <1>3, <2>1, <2>2, <2>3 DEF Filed
<1>7. CASE ~RestTick(polled) /\ ~CloseMission(polled)
  <2>1. settled' = settled /\ state \notin Terminal
    BY <1>7, RestingTick DEF Tick, RunStep, Timeout, ReadyTick, RejectFeedback, ParkedTick,
       PausingTick, FrozenClock, AwaitStandstill, FollowSegment, BuildSegment, RefuseSegment,
       EndStep, PauseTimeout, DrainTimeout, SegmentTimeout, Drive, executorVars
  <2>2. \E g : EndTick(g, Submitted(polled))
    BY <1>7 DEF Tick, RunStep, Timeout, ReadyTick, RejectFeedback, ParkedTick,
       PausingTick, FrozenClock, AwaitStandstill, FollowSegment, BuildSegment, RefuseSegment,
       EndStep, PauseTimeout, DrainTimeout, SegmentTimeout, Drive
  <2>3. archive'.unsaved BY <1>1, <1>4, <2>2
  <2> QED BY <2>1, <2>3 DEF Filed
<1> QED BY <1>5, <1>6, <1>7

LEMMA FiledStep == ASSUME TypeOK, Filed, [Next]_vars PROVE Filed'
<1>1. CASE \E polled \in Polls : Tick(polled) BY <1>1, TickFiles
<1>2. CASE UNCHANGED vars BY <1>2 DEF vars, executorVars, Filed
<1>3. CASE Operator \/ SensorEvent
  <2>1. /\ settled' = settled /\ (state \in Terminal => state' \in Terminal)
        /\ archive' \in {archive, [archive EXCEPT !.unsaved = TRUE]}
    BY <1>3 DEF Operator, Start, Pause, Resume, Cancel, ExternalFault, Fail, Faulted, Terminal,
                SensorEvent, beside, executorVars, outside
  <2> QED BY <2>1 DEF Filed, TypeOK, Archives
<1>4. CASE ArchiveDrain
  <2>1. settled' = settled /\ state' = state
    BY <1>4 DEF ArchiveDrain, beside, executorVars
  <2>2. /\ ~archive'.unsaved /\ ~archive'.errors => archive'.current
        /\ archive.current => archive'.current
    BY <1>4 DEF ArchiveDrain, ArchiveProgress, TypeOK, Archives
  <2> QED BY <2>1, <2>2 DEF Filed
<1>5. CASE (CameraTopics /\ ~SensorEvent) \/ Camera \/ Chassis
  <2>1. UNCHANGED <<state, settled, archive>>
    BY <1>5 DEF CameraTopics, Camera, Chassis, Heartbeat, LateHeartbeat, BadHeartbeat,
                ServeOpen, ServeClose, SensorBreak, CameraAppears, CameraLost, ChassisStop,
                ChassisMove, ChassisPushed, beside, executorVars
  <2> QED BY <2>1 DEF Filed
<1> QED BY <1>1, <1>2, <1>3, <1>4, <1>5 DEF Next

LEMMA FiledInvariant == Spec => []Filed
<1>1. Init => Filed
  <2> SUFFICES ASSUME Init PROVE Filed OBVIOUS
  <2>1. archive.current = TRUE /\ settled = FALSE BY Zenon DEF Init
  <2> QED BY <2>1, Zenon DEF Filed
<1>2. TypeOK /\ Filed /\ [Next]_vars => Filed' BY FiledStep
<1> QED BY <1>1, <1>2, TypeCorrect, PTL DEF Spec

\* A settled archive holds the last interval list, whatever raced the drain.
THEOREM SettledFiled == Spec => []SettledMeansFiled
<1>1. Filed => SettledMeansFiled BY DEF Filed, SettledMeansFiled
<1> QED BY <1>1, FiledInvariant, PTL

-----------------------------------------------------------------------------
(* The heartbeat *)

\* A heartbeat sampled after the open was acknowledged tells the truth, and a
\* camera once reported as closed is not asked to open again.
Heard ==
  /\ gate.active = "on" /\ gate.fresh /\ gate.beat = "off" => ~sensor
  /\ gate.error = "disabled" => ~sensor /\ gate.future # "on"

LEMMA PolledHeard ==
  ASSUME gate \in Gates, Heard, NEW polled \in Polls
  PROVE  /\ polled.active = "on" /\ polled.fresh /\ polled.beat = "off" => ~sensor
         /\ polled.error = "disabled" => ~sensor /\ polled.future # "on"
<1>1. CASE gate.future = "none" BY <1>1 DEF Polls, Checked, Gates, Heard
<1>2. CASE gate.future # "none" /\ reply \in {"none", "fail"} BY <1>2 DEF Polls, Gates, Heard
<1>3. CASE gate.future = "on" /\ reply \notin {"none", "fail"} BY <1>3 DEF Polls, Gates, Heard
<1>4. CASE gate.future = "off" /\ reply \notin {"none", "fail"} BY <1>4 DEF Polls, Gates, Heard
<1> QED BY <1>1, <1>2, <1>3, <1>4 DEF Gates

LEMMA HeardStep == ASSUME TypeOK, CallsMatch, Heard, [Next]_vars PROVE Heard'
<1>0. gate \in Gates /\ AroundOK BY DEF TypeOK, AroundOK
<1>1. CASE \E polled \in Polls : Tick(polled)
  <2>1. PICK polled \in Polls : Tick(polled) BY <1>1
  <2>2. /\ polled \in Gates /\ Closing(polled) \in Gates
        /\ index + 1 \in Nat
    BY <1>0, <2>1, PollsType, RequestedType, StepsLength DEF Closing, TypeOK
  <2>3. /\ polled.active = "on" /\ polled.fresh /\ polled.beat = "off" => ~sensor
        /\ polled.error = "disabled" => ~sensor /\ polled.future # "on"
    BY <1>0, <2>1, PolledHeard
  <2>4. CASE gate' \in {polled, Closing(polled), Closing(Closing(polled))}
    BY <2>1, <2>2, <2>3, <2>4, TickGate, RequestKeeps DEF Closing, Heard
  <2>5. CASE ~Broken(polled) /\ gate' = Requested(polled, "on", index + 1)
    BY <2>1, <2>2, <2>3, <2>5, TickGate, RequestKeeps DEF Broken, Heard
  <2> QED BY <2>1, <2>4, <2>5, TickGate
<1>2. CASE Operator
  <2>1. /\ gate' \in {gate, Closing(gate)} /\ sensor' = sensor
    BY <1>2 DEF Operator, Start, Pause, Resume, Cancel, ExternalFault, outside, cameraVars, Closing
  <2> QED BY <1>0, <2>1, RequestKeeps DEF Closing, Heard
<1>3. CASE CameraTopics
  <2>1. CASE Heartbeat
    <3>1. gate'.beat = "off" => ~sensor BY <1>0, <2>1 DEF Heartbeat, Gates
    <3>2. /\ gate'.error = gate.error /\ gate'.future = gate.future
          /\ UNCHANGED sensor
      BY <1>0, <2>1 DEF Heartbeat, cameraVars, Gates
    <3> QED BY <3>1, <3>2, Zenon DEF Heard
  <2>2. CASE LateHeartbeat
    <3>1. /\ gate'.fresh = FALSE /\ UNCHANGED sensor
          /\ gate'.error = gate.error /\ gate'.future = gate.future
      BY <1>0, <2>2 DEF LateHeartbeat, cameraVars, Gates
    <3> QED BY <3>1, Zenon DEF Heard
  <2>3. CASE BadHeartbeat \/ SensorEvent
    <3>1. /\ gate' = [gate EXCEPT !.error = "other"]
          /\ UNCHANGED sensor
      BY <2>3 DEF BadHeartbeat, SensorEvent, cameraVars
    <3>2. gate'.error = "other" /\ gate'.active = gate.active /\ gate'.beat = gate.beat
      BY <1>0, <3>1 DEF Gates
    <3>3. gate'.fresh = gate.fresh BY <1>0, <3>1, Zenon DEF Gates
    <3> QED BY <3>1, <3>2, <3>3 DEF Heard
  <2> QED BY <1>3, <2>1, <2>2, <2>3 DEF CameraTopics
<1>4. CASE Camera
  <2>1. CASE ServeOpen
    <3>1. gate' = gate /\ gate.active # "on" /\ gate.error # "disabled"
      BY <2>1 DEF ServeOpen, CallsMatch, Heard
    <3> QED BY <3>1, Zenon DEF Heard
  <2>2. CASE ServeClose \/ SensorBreak \/ CameraAppears \/ CameraLost
    <3>1. gate' = gate /\ (~sensor => ~sensor')
      BY <2>2 DEF ServeClose, SensorBreak, CameraAppears, CameraLost
    <3> QED BY <3>1, Zenon DEF Heard
  <2> QED BY <1>4, <2>1, <2>2 DEF Camera
<1>5. CASE Chassis \/ ArchiveDrain \/ UNCHANGED vars
  <2>1. UNCHANGED <<gate, sensor>>
    BY <1>5 DEF Chassis, ChassisStop, ChassisMove, ChassisPushed, ArchiveDrain, cameraVars, vars
  <2> QED BY <2>1 DEF Heard
<1> QED BY <1>1, <1>2, <1>3, <1>4, <1>5 DEF Next

\* The camera is never accused of having closed while it is exposing.
THEOREM NoAlarmIsFalse == CaptureEnabled => (Spec => []NoFalseAlarm)
<1> SUFFICES ASSUME CaptureEnabled PROVE Spec => []NoFalseAlarm OBVIOUS
<1>1. Init => Heard
  <2> SUFFICES ASSUME Init PROVE Heard OBVIOUS
  <2>1. gate.fresh = FALSE /\ gate.error = "none" BY Zenon DEF Init
  <2> QED BY <2>1, Zenon DEF Heard
<1>2. TypeOK /\ Shutter /\ Heard /\ [Next]_vars => Heard' BY HeardStep DEF Shutter
<1>3. Heard => NoFalseAlarm BY DEF Heard, NoFalseAlarm
<1> QED BY <1>1, <1>2, <1>3, TypeCorrect, ShutterInvariant, PTL DEF Spec

-----------------------------------------------------------------------------
(* The exposure intervals *)

\* A list of intervals in the order of their passes, all but the last closed.
Sorted(s) == \A i, j \in DOMAIN s : i < j => s[i].track < s[j].track /\ s[i].closed
AllClosed(s) == \A i \in DOMAIN s : s[i].closed
Below(s, n) == \A i \in DOMAIN s : s[i].track < n
Has(s, n) == \E i \in DOMAIN s : s[i].track = n

\* Opening a pass that comes after all those exposed.
LEMMA OpenedList ==
  ASSUME NEW s \in Intervals, Sorted(s), AllClosed(s), NEW n \in Nat, Below(s, n)
  PROVE  LET t == Append(s, [track |-> n, closed |-> FALSE])
         IN  /\ Sorted(t) /\ Below(t, n + 1) /\ Has(t, n)
             /\ \A m : Has(s, m) => Has(t, m)
<1> DEFINE t == Append(s, [track |-> n, closed |-> FALSE])
<1>1. /\ Len(s) \in Nat /\ DOMAIN s = 1..Len(s) /\ DOMAIN t = 1..(Len(s) + 1)
      /\ t[Len(s) + 1] = [track |-> n, closed |-> FALSE]
      /\ \A i \in 1..Len(s) : t[i] = s[i]
  BY DEF Intervals
<1>2. \A i \in DOMAIN s : s[i].track \in Nat
  <2>1. \A i \in DOMAIN s : s[i] \in [track : Nat, closed : BOOLEAN]
    BY <1>1, ElementOfSeq DEF Intervals
  <2> QED BY <2>1
<1> HIDE DEF t
<1>3. Sorted(t)
  <2> SUFFICES ASSUME NEW i \in DOMAIN t, NEW j \in DOMAIN t, i < j
               PROVE  t[i].track < t[j].track /\ t[i].closed
    BY DEF Sorted
  <2>1. i \in DOMAIN s /\ t[i] = s[i] BY <1>1
  <2>2. t[i].closed BY <2>1 DEF AllClosed
  <2>3. CASE j = Len(s) + 1
    <3>1. t[j].track = n BY <1>1, <2>3
    <3> QED BY <2>1, <2>2, <3>1 DEF Below
  <2>4. CASE j # Len(s) + 1
    <3>1. j \in DOMAIN s /\ t[j] = s[j] BY <1>1, <2>4
    <3> QED BY <2>1, <3>1 DEF Sorted
  <2> QED BY <2>3, <2>4
<1>4. Below(t, n + 1)
  <2> SUFFICES ASSUME NEW i \in DOMAIN t PROVE t[i].track < n + 1 BY DEF Below
  <2>1. CASE i = Len(s) + 1
    <3>1. t[i].track = n BY <1>1, <2>1
    <3> QED BY <3>1
  <2>2. CASE i # Len(s) + 1
    <3>1. i \in DOMAIN s /\ t[i] = s[i] BY <1>1, <2>2
    <3>2. s[i].track < n BY <3>1 DEF Below
    <3> QED BY <1>2, <3>1, <3>2
  <2> QED BY <2>1, <2>2
<1>5. Has(t, n)
  <2>1. t[Len(s) + 1].track = n BY <1>1
  <2> QED BY <1>1, <2>1 DEF Has
<1>6. \A m : Has(s, m) => Has(t, m) BY <1>1 DEF Has
<1> QED BY <1>3, <1>4, <1>5, <1>6 DEF t

\* Closing the last interval of a sorted list closes them all and moves none.
LEMMA ClosedList ==
  ASSUME NEW s \in Intervals, Sorted(s)
  PROVE  /\ Sorted(CloseLast(s)) /\ AllClosed(CloseLast(s))
         /\ \A n : (Below(s, n) => Below(CloseLast(s), n)) /\ (Has(s, n) => Has(CloseLast(s), n))
<1>1. CASE s = <<>>
  BY <1>1 DEF CloseLast, Sorted, AllClosed, Below, Has
<1>2. CASE s # <<>>
  <2> DEFINE t == CloseLast(s)
  <2>1. Len(s) \in Nat /\ DOMAIN s = 1..Len(s) BY DEF Intervals
  <2>2. t = [s EXCEPT ![Len(s)].closed = TRUE] BY <1>2 DEF CloseLast
  <2>3. \A i \in DOMAIN s : s[i] \in [track : Nat, closed : BOOLEAN]
    BY <2>1, ElementOfSeq DEF Intervals
  <2>4. /\ DOMAIN t = DOMAIN s
        /\ \A i \in DOMAIN s : i # Len(s) => t[i] = s[i]
        /\ Len(s) \in DOMAIN s => t[Len(s)] = [s[Len(s)] EXCEPT !.closed = TRUE]
    BY <2>1, <2>2
  <2> HIDE DEF t
  <2>5. ASSUME NEW i \in DOMAIN s
        PROVE  t[i].track = s[i].track /\ (s[i].closed \/ i = Len(s) => t[i].closed)
    <3>1. CASE i = Len(s)
      <4>1. t[i] = [s[i] EXCEPT !.closed = TRUE] BY <2>4, <3>1
      <4> QED BY <2>3, <4>1
    <3>2. CASE i # Len(s)
      <4>1. t[i] = s[i] BY <2>4, <3>2
      <4> QED BY <3>2, <4>1, Zenon
    <3> QED BY <3>1, <3>2
  <2>6. AllClosed(t)
    <3> SUFFICES ASSUME NEW i \in DOMAIN s PROVE t[i].closed BY <2>4 DEF AllClosed
    <3>1. i # Len(s) => i < Len(s) /\ Len(s) \in DOMAIN s BY <2>1
    <3> QED BY <2>5, <3>1 DEF Sorted
  <2>7. Sorted(t) BY <2>4, <2>5, <2>6 DEF Sorted, AllClosed
  <2>8. \A n : (Below(s, n) => Below(t, n)) /\ (Has(s, n) => Has(t, n))
    BY <2>4, <2>5 DEF Below, Has
  <2> QED BY <2>6, <2>7, <2>8 DEF t
<1> QED BY <1>1, <1>2

\* The intervals follow the passes, the current one included; an open is asked for
\* a pass that has none yet, under its number.
InOrder ==
  /\ Sorted(gate.intervals)
  /\ gate.active # "on" => AllClosed(gate.intervals)
  /\ Below(gate.intervals, index + 2)
OpensFresh == gate.future = "on" => gate.track = index + 1 /\ Below(gate.intervals, index + 1)

\* Before its start a mission has exposed nothing.
Unready ==
  state = "READY" =>
    /\ gate.intervals = <<>> /\ gate.active # "on" /\ gate.future # "on"
    /\ core = NoCore /\ (OnPass => pos = "lead")

\* A pass has no interval while its lead-in is driven with the camera off.
Leading ==
  state \in Alive /\ OnPass /\ pos = "lead" /\ gate.active # "on"
    => Below(gate.intervals, index + 1)

\* A close in flight before the end of the region is the previous pass's: nothing
\* of this one has begun.
ClosesLate ==
  state \in Alive /\ OnPass /\ pos \in {"lead", "region"} /\ gate.future = "off"
    => core = NoCore /\ pos = "lead" /\ Below(gate.intervals, index + 1)

\* The region is only ever driven with the camera open.
Scanning ==
  state = "RUNNING" /\ OnPass /\ pos = "region" /\ core.kind = "translate"
    => gate.active = "on"

Once == InOrder /\ OpensFresh /\ Unready /\ Leading /\ ClosesLate /\ Scanning

\* poll() keeps the list in order whatever was answered: an opened pass comes after
\* all those exposed, and a close closes the one that is open.
LEMMA PolledOrder ==
  ASSUME TypeOK, CallsMatch, InOrder, OpensFresh, NEW polled \in Polls
  PROVE  /\ Sorted(polled.intervals)
         /\ polled.active # "on" => AllClosed(polled.intervals)
         /\ Below(polled.intervals, index + 2)
         /\ polled.future # "none" \/ gate.future = "none" =>
              polled.intervals = gate.intervals /\ polled.active = gate.active
         /\ polled.track = gate.track
         /\ polled.active # "on" =>
              \A n : Below(gate.intervals, n) => Below(polled.intervals, n)
         /\ polled.active # "on" => gate.active # "on" \/ gate.future = "off"
         /\ polled.active = "on" /\ gate.active # "on" => Has(polled.intervals, index + 1)
         /\ \A n : Has(gate.intervals, n) => Has(polled.intervals, n)
<1> DEFINE s == gate.intervals
<1>0. /\ gate \in Gates /\ s \in Intervals /\ index + 1 \in Nat /\ index \in Nat
      /\ reply \in {"none", "ok", "fail"}
  BY StepsLength DEF TypeOK, Gates
<1>1. CASE polled.intervals = gate.intervals /\ polled.active = gate.active /\ polled.track = gate.track
  BY <1>1 DEF InOrder
<1>2. CASE gate.future = "on" /\ reply = "ok"
  <2>1. polled = [gate EXCEPT !.future = "none", !.active = "on", !.beat = "off", !.fresh = FALSE,
                    !.intervals = Append(@, [track |-> gate.track, closed |-> FALSE])]
    BY <1>2 DEF Polls
  <2>2. /\ polled.intervals = Append(s, [track |-> index + 1, closed |-> FALSE])
        /\ polled.active = "on" /\ polled.future = "none" /\ polled.track = gate.track
    BY <1>0, <1>2, <2>1 DEF Gates, OpensFresh
  <2>3. AllClosed(s) /\ Sorted(s) /\ Below(s, index + 1)
    BY <1>2 DEF CallsMatch, InOrder, OpensFresh
  <2>4. (index + 1) + 1 = index + 2 BY <1>0
  <2> HIDE DEF s
  <2>5. /\ Sorted(polled.intervals) /\ Below(polled.intervals, index + 2)
        /\ Has(polled.intervals, index + 1)
        /\ \A n : Has(s, n) => Has(polled.intervals, n)
    BY <1>0, <2>2, <2>3, <2>4, OpenedList
  <2> QED BY <1>2, <2>2, <2>5 DEF s
<1>3. CASE gate.future = "off" /\ reply = "ok"
  <2>1. polled = [gate EXCEPT !.future = "none", !.active = "off", !.beat = "none", !.fresh = FALSE,
                    !.intervals = CloseLast(@)]
    BY <1>3 DEF Polls
  <2>2. /\ polled.intervals = CloseLast(s) /\ polled.active = "off" /\ polled.future = "none"
        /\ polled.track = gate.track
    BY <1>0, <2>1 DEF Gates
  <2>3. Sorted(s) /\ Below(s, index + 2) BY DEF InOrder
  <2> HIDE DEF s
  <2>4. /\ Sorted(polled.intervals) /\ AllClosed(polled.intervals)
        /\ \A n : (Below(s, n) => Below(polled.intervals, n)) /\ (Has(s, n) => Has(polled.intervals, n))
    BY <1>0, <2>2, <2>3, ClosedList
  <2> QED BY <1>3, <2>2, <2>3, <2>4 DEF s
<1>4. CASE gate.future = "none" \/ reply # "ok"
  <2>1. CASE gate.future = "none"
    <3>1. polled \in Checked BY <2>1 DEF Polls
    <3>2. PICK e \in {"none", "disabled", "other"} : polled = [gate EXCEPT !.error = e]
      BY <1>0, <3>1 DEF Checked, Gates
    <3> QED BY <1>0, <1>1, <3>2 DEF Gates
  <2>2. CASE gate.future # "none" /\ reply = "none"
    BY <1>0, <1>1, <2>2 DEF Polls, Gates
  <2>3. CASE gate.future # "none" /\ reply = "fail"
    BY <1>0, <1>1, <2>3 DEF Polls, Gates
  <2> QED BY <1>0, <1>4, <2>1, <2>2, <2>3
<1> QED BY <1>0, <1>2, <1>3, <1>4 DEF Gates

\* request() never touches the list, and numbers the pass it opens.
LEMMA RequestedList ==
  ASSUME NEW g \in Gates, NEW value \in {"on", "off"}, NEW track \in Nat
  PROVE  LET r == Requested(g, value, track)
         IN  /\ r.intervals = g.intervals
             /\ r.future # g.future => r.future = value
             /\ r.track = g.track \/ (value = "on" /\ g.active # "on" /\ g.future = "none" /\ r.track = track)
             /\ value = "on" /\ g.future # "on" /\ r.future = "on" =>
                  r.track = track /\ g.active # "on" /\ g.future = "none"
             /\ value = "off" \/ g.future # "none" => r.track = g.track
             /\ g.future # "none" => r.future = g.future
BY DEF Requested, Gates

\* What run_step with a tracker leaves of a running mission: the vehicle moves along
\* the step, only a translation that has reached its end moves on to the next one,
\* the camera is asked to close past the region and to open before its end, and a
\* region entered without an open camera is a fault.
LEMMA DriveFacts ==
  ASSUME CaptureEnabled, TypeOK, Shutter, state = "RUNNING", ~AtMissionEnd,
         NEW polled \in Polls, ~Broken(polled), NEW c0, NEW k \in Kinds,
         NEW c \in TrackerStates \cup {"COMPLETED"}, NEW built \in BOOLEAN,
         core = NoCore => polled.future = "none",
         Drive(polled, c0, k, c, built)
  PROVE  \E p \in Places :
           /\ p = pos \/ (k = "translate" /\ mode # "HOLD" /\ p \in Reach(pos))
           /\ core' = IF c = "COMPLETED" THEN NoCore ELSE [state |-> c, kind |-> k]
           /\ \/ pos' = p /\ index' = index
              \/ /\ pos' = "lead" /\ index' = index + 1 /\ c = "COMPLETED" /\ gate'.future # "on"
                 /\ OnPass => k = "translate" /\ p = "end"
           /\ state' \in {"RUNNING", "FAULT"}
           /\ OnPass /\ k = "translate" /\ p \in {"runout", "end"} => gate' = Closing(polled)
           /\ \/ gate' = polled
              \/ OnPass /\ k = "translate" /\ p \in {"runout", "end"} /\ gate' = Closing(polled)
              \/ /\ OnPass /\ k = "translate" /\ p \in {"lead", "region"} /\ mode = "DRIVE"
                 /\ gate' = Requested(polled, "on", index + 1)
           /\ OnPass /\ k = "translate" /\ p = "region" /\ gate'.active # "on" => state' = "FAULT"
<1>0. ExecutorOK /\ AroundOK BY DEF TypeOK, ExecutorOK, AroundOK
<1>1. polled \in Gates BY <1>0, PollsType
<1>2. PICK p \in (IF k = "translate" /\ mode # "HOLD" THEN Reach(pos) ELSE {pos}),
           h \in Headings(c) :
        LET pass == OnPass /\ k = "translate"
            leaving == pass /\ Leaving(p, c)
            opening == pass /\ ~leaving /\ mode = "DRIVE" /\ (polled.active = "on" \/ h = "tight")
            g == CASE leaving -> Requested(polled, "off", 0)
                   [] opening -> Requested(polled, "on", index + 1)
                   [] OTHER -> polled
            blind == pass /\ ~leaving /\ CaptureEnabled /\ g.active # "on" /\ p = "region"
            done == ~blind /\ c = "COMPLETED" /\ (k = "translate" \/ Step = "ROTATE_180")
        IN  /\ Fits(c, k, p)
            /\ blind => Fail("MISSION")
            /\ Fail("MISSION") \/ UNCHANGED state
            /\ core' = IF c = "COMPLETED" THEN NoCore ELSE [state |-> c, kind |-> k]
            /\ index' = IF done THEN index + 1 ELSE index
            /\ pos' = IF done THEN "lead" ELSE p
            /\ EndTick(g, Submitted(polled))
  BY DEF Drive
<1> DEFINE pass == OnPass /\ k = "translate"
           leaving == pass /\ Leaving(p, c)
           opening == pass /\ ~leaving /\ mode = "DRIVE" /\ (polled.active = "on" \/ h = "tight")
           g == CASE leaving -> Requested(polled, "off", 0)
                  [] opening -> Requested(polled, "on", index + 1)
                  [] OTHER -> polled
           blind == pass /\ ~leaving /\ CaptureEnabled /\ g.active # "on" /\ p = "region"
           done == ~blind /\ c = "COMPLETED" /\ (k = "translate" \/ Step = "ROTATE_180")
<1>3. gate' = g BY <1>2 DEF EndTick
<1>4. /\ c = "STOPPING" /\ k = "translate" /\ OnPass => p \in {"runout", "end"}
      /\ c = "COMPLETED" /\ k = "translate" => p = "end"
  BY <1>2 DEF Fits
<1>5. p \in Places /\ (OnPass /\ pos = "lead" => p \in {"lead", "region"})
  BY <1>0, <1>2 DEF Reach, Places, ExecutorOK
<1>6. leaving <=> pass /\ p \in {"runout", "end"} BY <1>4 DEF Leaving
<1>7. /\ leaving => gate' = Closing(polled)
      /\ opening => gate' = Requested(polled, "on", index + 1)
      /\ ~leaving /\ ~opening => gate' = polled
  BY <1>3 DEF Closing
<1>8. opening => p \in {"lead", "region"} BY <1>5, <1>6 DEF Places
<1>9. state' \in {"RUNNING", "FAULT"} /\ (blind => state' = "FAULT")
  BY <1>2 DEF Fail, Faulted
<1>10. OnPass /\ done => k = "translate" /\ p = "end" BY <1>4 DEF OnPass
<1>11. done => gate'.future # "on"
  <2> SUFFICES ASSUME done PROVE gate'.future # "on" OBVIOUS
  <2>1. polled.future # "on"
    <3> SUFFICES ASSUME polled.future = "on" PROVE FALSE OBVIOUS
    <3>1. gate.future = "on" BY <1>0, PolledFacts DEF Shutter
    <3>2. OnPass /\ pos = "lead" BY <3>1 DEF Shutter, OpenOnLead, Alive
    <3> QED BY <1>5, <1>10, <3>2
  <2>2. ~opening BY <1>8, <1>10
  <2>3. gate' \in {polled, Closing(polled)} BY <1>7, <2>2
  <2>4. Closing(polled).future \in {polled.future, "off"}
    BY <1>1, RequestedList DEF Closing
  <2> QED BY <2>1, <2>3, <2>4
<1>12. blind <=> pass /\ p = "region" /\ gate'.active # "on" BY <1>3, <1>6
<1>13. \/ pos' = p /\ index' = index
       \/ pos' = "lead" /\ index' = index + 1 /\ c = "COMPLETED" /\ done
  BY <1>2
<1>14. core' = IF c = "COMPLETED" THEN NoCore ELSE [state |-> c, kind |-> k] BY <1>2
<1>15. p = pos \/ (k = "translate" /\ mode # "HOLD" /\ p \in Reach(pos)) BY <1>2
<1> HIDE DEF g, blind, done, opening, leaving
<1>16. \/ gate' = polled
       \/ OnPass /\ k = "translate" /\ p \in {"runout", "end"} /\ gate' = Closing(polled)
       \/ /\ OnPass /\ k = "translate" /\ p \in {"lead", "region"} /\ mode = "DRIVE"
          /\ gate' = Requested(polled, "on", index + 1)
  BY <1>6, <1>7, <1>8 DEF opening
<1> QED BY <1>5, <1>6, <1>7, <1>9, <1>10, <1>11, <1>12, <1>13, <1>14, <1>15, <1>16

\* What a tick's poll leaves of the invariant, before the tick acts.
LEMMA PolledOnce ==
  ASSUME TypeOK, Shutter, Once, NEW polled \in Polls
  PROVE  /\ polled \in Gates /\ index \in Nat
         /\ \A g \in {polled, Closing(polled), Requested(polled, "on", index + 1)} :
              g \in Gates /\ g.intervals = polled.intervals /\ g.active = polled.active
         /\ Closing(polled).future = "on" => polled.future = "on"
         /\ Closing(polled).track = polled.track
         /\ polled.future = "on" => polled.track = index + 1 /\ Below(polled.intervals, index + 1)
         /\ polled.future = "off" => gate.future = "off" /\ polled.intervals = gate.intervals
         /\ state \in Alive /\ OnPass /\ pos = "lead" /\ polled.active # "on"
              => Below(polled.intervals, index + 1)
<1>0. AroundOK /\ index \in Nat BY StepsLength DEF TypeOK, AroundOK
<1>1. polled \in Gates BY <1>0, PollsType
<1>2. \A g \in {polled, Closing(polled), Requested(polled, "on", index + 1)} :
        g \in Gates /\ g.intervals = polled.intervals /\ g.active = polled.active
  BY <1>0, <1>1, RequestedType, RequestedList, RequestKeeps DEF Closing
<1>3. (Closing(polled).future = "on" => polled.future = "on") /\ Closing(polled).track = polled.track
  BY <1>1, RequestedList DEF Closing
<1>4. /\ polled.future \in {gate.future, "none"}
      /\ polled.future # "none" => polled.intervals = gate.intervals
      /\ polled.track = gate.track
  BY <1>0, PolledFacts, PolledOrder DEF Shutter, Once
<1>5. polled.future = "on" => polled.track = index + 1 /\ Below(polled.intervals, index + 1)
  BY <1>4 DEF Once, OpensFresh
<1>6. ASSUME state \in Alive, OnPass, pos = "lead", polled.active # "on"
      PROVE  Below(polled.intervals, index + 1)
  <2>1. gate.active # "on" \/ gate.future = "off" BY <1>6, PolledOrder DEF Shutter, Once
  <2>2. Below(gate.intervals, index + 1) BY <1>6, <2>1 DEF Once, Leading, ClosesLate
  <2> QED BY <1>6, <2>2, PolledOrder DEF Shutter, Once
<1> QED BY <1>0, <1>1, <1>2, <1>3, <1>4, <1>5, <1>6

\* The list stays in order through any tick.
LEMMA TickInOrder ==
  ASSUME TypeOK, Shutter, Once, NEW polled \in Polls,
         gate'.intervals = polled.intervals, gate'.active = polled.active,
         index' \in {index, index + 1}
  PROVE  InOrder' /\ (index' = index + 1 => Below(gate'.intervals, index' + 1))
<1>1. /\ Sorted(polled.intervals) /\ Below(polled.intervals, index + 2)
      /\ polled.active # "on" => AllClosed(polled.intervals)
  BY PolledOrder DEF Shutter, Once
<1>2. index \in Nat /\ polled \in Gates BY PolledOnce
<1>3. \A i \in DOMAIN polled.intervals : polled.intervals[i].track \in Nat
  <2>1. polled.intervals \in Seq([track : Nat, closed : BOOLEAN]) BY <1>2 DEF Gates, Intervals
  <2>2. \A i \in DOMAIN polled.intervals : polled.intervals[i] \in [track : Nat, closed : BOOLEAN]
    BY <2>1, ElementOfSeq, LenProperties
  <2> QED BY <2>2
<1>4. Below(polled.intervals, index' + 2) BY <1>1, <1>2, <1>3 DEF Below
<1>5. index' = index + 1 => Below(gate'.intervals, index' + 1)
  <2>1. index' = index + 1 => index' + 1 = index + 2 BY <1>2
  <2> QED BY <1>1, <2>1
<1> QED BY <1>1, <1>4, <1>5 DEF InOrder

\* A segment followed: an open is asked for only of a pass that has no interval.
LEMMA DriveOnce ==
  ASSUME CaptureEnabled, TypeOK, Shutter, Once, state = "RUNNING", ~AtMissionEnd,
         NEW polled \in Polls, ~Broken(polled), NEW c0, NEW k \in Kinds,
         NEW c \in TrackerStates \cup {"COMPLETED"}, NEW built \in BOOLEAN,
         core = NoCore => polled.future = "none" /\ mode = "HOLD",
         core # NoCore => core.kind = k,
         Drive(polled, c0, k, c, built)
  PROVE  Once'
<1>1. PICK p \in Places :
           /\ p = pos \/ (k = "translate" /\ mode # "HOLD" /\ p \in Reach(pos))
           /\ core' = IF c = "COMPLETED" THEN NoCore ELSE [state |-> c, kind |-> k]
           /\ \/ pos' = p /\ index' = index
              \/ /\ pos' = "lead" /\ index' = index + 1 /\ c = "COMPLETED" /\ gate'.future # "on"
                 /\ OnPass => k = "translate" /\ p = "end"
           /\ state' \in {"RUNNING", "FAULT"}
           /\ OnPass /\ k = "translate" /\ p \in {"runout", "end"} => gate' = Closing(polled)
           /\ \/ gate' = polled
              \/ OnPass /\ k = "translate" /\ p \in {"runout", "end"} /\ gate' = Closing(polled)
              \/ /\ OnPass /\ k = "translate" /\ p \in {"lead", "region"} /\ mode = "DRIVE"
                 /\ gate' = Requested(polled, "on", index + 1)
           /\ OnPass /\ k = "translate" /\ p = "region" /\ gate'.active # "on" => state' = "FAULT"
  BY DriveFacts
<1>2. /\ polled \in Gates /\ index \in Nat
      /\ gate'.intervals = polled.intervals /\ gate'.active = polled.active
  BY <1>1, PolledOnce
<1>3. InOrder' /\ (index' = index + 1 => Below(gate'.intervals, index' + 1))
  BY <1>1, <1>2, TickInOrder
<1>4. Unready' BY <1>1 DEF Unready
<1>5. CASE index' = index + 1
  <2>1. index' # index BY <1>2, <1>5
  <2>2. core' = NoCore /\ pos' = "lead" /\ gate'.future # "on" BY <1>1, <2>1
  <2> QED BY <1>3, <1>4, <1>5, <2>2
          DEF Once, OpensFresh, Leading, ClosesLate, Scanning, NoCore
<1>6. CASE index' # index + 1
  <2>1. pos' = p /\ index' = index BY <1>1, <1>6
  <2>2. OnPass' = OnPass BY <2>1 DEF OnPass, AtMissionEnd, Step
  <2>3. state \in Alive BY DEF Alive
  <2>4. OnPass => /\ p = "lead" => pos = "lead"
                  /\ p = "region" => pos \in {"lead", "region"}
    BY <1>1 DEF Reach, TypeOK, Places
  <2>5. OnPass /\ pos \in {"lead", "region"} => polled.future # "off"
    <3> SUFFICES ASSUME OnPass, pos \in {"lead", "region"}, polled.future = "off" PROVE FALSE
      OBVIOUS
    <3>1. gate.future = "off" BY PolledOnce
    <3>2. core = NoCore BY <2>3, <3>1 DEF Once, ClosesLate
    <3> QED BY <3>2
  <2>6. OpensFresh'
    <3> SUFFICES ASSUME gate'.future = "on"
                 PROVE  gate'.track = index + 1 /\ Below(gate'.intervals, index + 1)
      BY <2>1 DEF OpensFresh
    <3>1. CASE gate' \in {polled, Closing(polled)} BY <3>1, PolledOnce
    <3>2. CASE /\ OnPass /\ k = "translate" /\ p \in {"lead", "region"} /\ mode = "DRIVE"
               /\ gate' = Requested(polled, "on", index + 1)
      <4>1. CASE polled.future = "on"
        <5>1. gate'.track = polled.track BY <1>2, <3>2, <4>1, RequestedList
        <5> QED BY <1>2, <4>1, <5>1, PolledOnce
      <4>2. CASE polled.future # "on"
        <5>1. gate'.track = index + 1 /\ polled.active # "on"
          BY <1>2, <3>2, <4>2, RequestedList
        <5>2. core # NoCore /\ core.kind = "translate" BY <3>2
        <5>3. CASE pos = "lead" BY <1>2, <2>3, <3>2, <5>1, <5>3, PolledOnce
        <5>4. CASE pos = "region"
          <6>1. gate.active = "on" BY <3>2, <5>2, <5>4 DEF Once, Scanning
          <6>2. gate.future = "off" BY <5>1, <6>1, PolledOrder DEF Shutter, Once
          <6> QED BY <2>3, <3>2, <5>2, <5>4, <6>2 DEF Once, ClosesLate
        <5> QED BY <2>4, <3>2, <5>3, <5>4
      <4> QED BY <4>1, <4>2
    <3> QED BY <1>1, <3>1, <3>2
  <2>7. Leading'
    <3> SUFFICES ASSUME OnPass, p = "lead", gate'.active # "on" PROVE Below(gate'.intervals, index + 1)
      BY <2>1, <2>2 DEF Leading
    <3> QED BY <1>2, <2>3, <2>4, PolledOnce
  <2>8. ClosesLate'
    <3> SUFFICES ASSUME OnPass, p \in {"lead", "region"}, gate'.future = "off" PROVE FALSE
      BY <2>1, <2>2 DEF ClosesLate
    <3>1. gate' \in {polled, Requested(polled, "on", index + 1)} BY <1>1
    <3>2. polled.future = "off" BY <1>2, <3>1, RequestedList
    <3> QED BY <2>4, <2>5, <3>2
  <2>9. Scanning'
    <3> SUFFICES ASSUME state' = "RUNNING", OnPass, p = "region", core'.kind = "translate"
                 PROVE  gate'.active = "on"
      BY <2>1, <2>2 DEF Scanning
    <3>1. k = "translate" BY <1>1 DEF NoCore
    <3> QED BY <1>1, <3>1
  <2> QED BY <1>3, <1>4, <2>6, <2>7, <2>8, <2>9 DEF Once
<1> QED BY <1>5, <1>6

\* Every other tick leaves the vehicle where it is on its step, and asks at most for
\* the camera to be closed: at the end of a step, or of the mission.
LEMMA TickOnce ==
  ASSUME CaptureEnabled, TypeOK, Shutter, Once, NEW polled \in Polls, Tick(polled)
  PROVE  Once'
<1>0. ExecutorOK /\ AroundOK BY DEF TypeOK, ExecutorOK, AroundOK
<1>1. polled \in Gates /\ index \in Nat BY PolledOnce
<1>2. ASSUME index' = index, gate' \in {polled, Closing(polled)}
      PROVE  InOrder' /\ OpensFresh'
  <2>1. gate'.intervals = polled.intervals /\ gate'.active = polled.active BY <1>2, PolledOnce
  <2>2. InOrder' BY <1>2, <2>1, TickInOrder
  <2>3. OpensFresh' BY <1>2, <2>1, PolledOnce DEF OpensFresh
  <2> QED BY <2>2, <2>3
<1>3. CASE RestTick(polled)
  <2>1. state' \notin Alive /\ state' # "READY"
    BY <1>3 DEF RestTick, Faulted, Alive, Terminal
  <2>2. index' = index /\ gate' = Closing(polled)
    BY <1>3 DEF RestTick, EndTick, Closing
  <2> QED BY <1>2, <2>1, <2>2 DEF Once, Unready, Leading, ClosesLate, Scanning, Alive
<1>4. CASE ReadyTick(polled)
  <2>1. /\ state = "READY" /\ state' \in {"READY", "RUNNING"}
        /\ UNCHANGED <<index, core, pos>>
    BY <1>4 DEF ReadyTick
  <2>2. gate' \in {polled, Closing(polled), Closing(Closing(polled))}
    BY <1>4 DEF ReadyTick, EndTick, Closing
  <2>3. gate.intervals = <<>> /\ gate.future # "on" /\ core = NoCore /\ (OnPass => pos = "lead")
    BY <2>1 DEF Once, Unready
  <2>4. polled.intervals = <<>> /\ polled.future # "on"
    <3>1. polled.future # "on" BY <1>0, <2>3, PolledFacts DEF Shutter
    <3>2. CASE gate.future = "off" /\ reply = "ok"
      BY <1>0, <2>3, <3>2 DEF Polls, CloseLast, AroundOK, Gates
    <3>3. CASE gate.future = "none" BY <2>3, <3>1, <3>3, PolledOrder DEF Shutter, Once
    <3>4. CASE gate.future # "none" /\ reply # "ok"
      BY <1>0, <2>3, <3>4 DEF Polls, AroundOK, Gates
    <3> QED BY <1>0, <2>3, <3>1, <3>2, <3>3, <3>4 DEF AroundOK, Gates
  <2>5. gate'.intervals = <<>> /\ gate'.future # "on"
    <3>1. Closing(polled) \in Gates /\ Closing(polled).intervals = <<>> /\ Closing(polled).future # "on"
      BY <2>4, PolledOnce
    <3>2. Closing(Closing(polled)).intervals = <<>> /\ Closing(Closing(polled)).future # "on"
      BY <3>1, RequestedList DEF Closing
    <3> QED BY <2>2, <2>4, <3>1, <3>2
  <2>6. OnPass' = OnPass /\ gate'.active # "on"
    <3>1. polled.active # "on"
      BY <2>1, <2>4, PolledOrder DEF Shutter, Once, Unready, Has
    <3>2. Closing(polled) \in Gates /\ Closing(polled).active = polled.active BY PolledOnce
    <3>3. Closing(Closing(polled)).active = polled.active BY <3>2, RequestKeeps DEF Closing
    <3> QED BY <2>1, <2>2, <3>1, <3>2, <3>3 DEF OnPass, AtMissionEnd, Step
  <2>7. InOrder' BY <2>5 DEF InOrder, Sorted, AllClosed, Below
  <2> QED BY <2>1, <2>3, <2>5, <2>6, <2>7
          DEF Once, OpensFresh, Unready, Leading, ClosesLate, Scanning, NoCore, Below
<1>5. CASE RejectFeedback(polled) \/ PauseTimeout(polled) \/ DrainTimeout(polled) \/ RefuseSegment(polled)
  <2>1. state' = "FAULT" /\ index' = index /\ gate' = polled
    BY <1>5 DEF RejectFeedback, PauseTimeout, DrainTimeout, RefuseSegment, ReadyForSegment,
                RunningTick, Fail, Faulted, EndTick
  <2> QED BY <1>2, <2>1 DEF Once, Unready, Leading, ClosesLate, Scanning, Alive
<1>6. ASSUME state \in Alive, state' \in Alive, state' = "RUNNING" => state = "RUNNING",
             UNCHANGED <<index, core, pos>>,
             gate' = polled \/ (gate' = Closing(polled) /\ ~OnPass)
      PROVE  Once'
  <2>1. OnPass' = OnPass BY <1>6 DEF OnPass, AtMissionEnd, Step
  <2>2. InOrder' /\ OpensFresh' BY <1>2, <1>6
  <2>3. Leading' BY <1>6, <2>1, PolledOnce DEF Leading
  <2>4. ClosesLate' BY <1>6, <2>1, PolledOnce DEF Once, ClosesLate
  <2>5. Scanning'
    <3> SUFFICES ASSUME state = "RUNNING", OnPass, pos = "region", core.kind = "translate"
                 PROVE  polled.active = "on"
      BY <1>6, <2>1 DEF Scanning
    <3>1. gate.active = "on" /\ gate.future # "off"
      BY <1>6 DEF Once, Scanning, ClosesLate, NoCore
    <3> QED BY <3>1, PolledOrder DEF Shutter, Once
  <2>6. Unready' BY <1>6 DEF Unready, Alive
  <2> QED BY <2>2, <2>3, <2>4, <2>5, <2>6 DEF Once
<1>7. CASE ParkedTick(polled) \/ PausingTick(polled) \/ FrozenClock(polled) \/ AwaitStandstill(polled)
  <2>1. /\ state \in Alive /\ state' \in Alive /\ (state' = "RUNNING" => state = "RUNNING")
        /\ UNCHANGED <<index, core, pos>> /\ gate' = polled
    BY <1>7 DEF ParkedTick, PausingTick, FrozenClock, AwaitStandstill, RunningTick, executorVars,
                EndTick, Alive
  <2> QED BY <1>6, <2>1
<1>8. CASE CloseMission(polled)
  <2>1. /\ state = "RUNNING" /\ UNCHANGED <<index, core, pos>> /\ gate' = Closing(polled) /\ ~OnPass
        /\ state' \in {"RUNNING", "FAULT", "ACQUIRED", "COMPLETED"}
    BY <1>8 DEF CloseMission, RunningTick, EndTick, Closing, Fail, Faulted, OnPass
  <2>2. CASE state' = "RUNNING" BY <1>6, <2>1, <2>2 DEF Alive
  <2>3. CASE state' # "RUNNING"
    BY <1>2, <2>1, <2>3 DEF Once, Unready, Leading, ClosesLate, Scanning, Alive
  <2> QED BY <2>2, <2>3
<1>9. CASE EndStep(polled)
  <2>1. /\ state = "RUNNING" /\ state' = state /\ core = NoCore /\ core' = core
        /\ polled.future = "none" /\ gate' = Closing(polled) /\ "none" \in Arguments(pos)
    BY <1>9 DEF EndStep, ReadyForSegment, RunningTick, EndTick, Closing
  <2>2. gate'.intervals = polled.intervals /\ gate'.active = polled.active /\ gate'.future # "on"
    BY <2>1, PolledOnce
  <2>3. CASE Granted(polled, "off")
    <3>1. index' = index + 1 /\ pos' = "lead" BY <1>9, <2>3 DEF EndStep
    <3>2. InOrder' /\ Below(gate'.intervals, index' + 1) BY <2>2, <3>1, TickInOrder
    <3> QED BY <2>1, <2>2, <3>1, <3>2
            DEF Once, OpensFresh, Unready, Leading, ClosesLate, Scanning, NoCore
  <2>4. CASE ~Granted(polled, "off")
    <3>1. index' = index /\ pos' = pos BY <1>9, <2>4 DEF EndStep
    <3>2. InOrder' /\ OpensFresh' BY <1>2, <2>1, <3>1
    <3>3. OnPass' = OnPass BY <3>1 DEF OnPass, AtMissionEnd, Step
    <3>4. OnPass => pos = "end" BY <2>1 DEF Arguments, OnPass
    <3> QED BY <2>1, <3>1, <3>2, <3>3, <3>4 DEF Once, Unready, Leading, ClosesLate, Scanning
  <2> QED BY <2>3, <2>4
<1>10. CASE FollowSegment(polled)
  <2>1. core.state \in TrackerStates /\ core.kind \in Kinds
    BY <1>0, <1>10 DEF FollowSegment, ExecutorOK, Cores
  <2>2. PICK c \in Updated(core.state) : Drive(polled, core.state, core.kind, c, FALSE)
    BY <1>10 DEF FollowSegment
  <2>3. c \in TrackerStates \cup {"COMPLETED"} BY <2>1, <2>2, UpdatedType
  <2> QED BY <1>10, <2>1, <2>2, <2>3, DriveOnce DEF FollowSegment, RunningTick
<1>11. CASE SegmentTimeout(polled)
  <2>1. core.kind \in Kinds BY <1>0, <1>11 DEF SegmentTimeout, ExecutorOK, Cores
  <2> QED BY <1>11, <2>1, DriveOnce DEF SegmentTimeout, RunningTick, TrackerStates
<1>12. CASE BuildSegment(polled)
  <2>1. PICK k \in Kinds, c \in Updated("ALIGNING") : Drive(polled, "ALIGNING", k, c, TRUE)
    BY <1>12 DEF BuildSegment
  <2>2. c \in TrackerStates \cup {"COMPLETED"} BY <2>1, UpdatedType DEF TrackerStates
  <2> QED BY <1>12, <2>1, <2>2, DriveOnce DEF BuildSegment, ReadyForSegment, RunningTick
<1> QED BY <1>3, <1>4, <1>5, <1>7, <1>8, <1>9, <1>10, <1>11, <1>12 DEF Tick, RunStep, Timeout

\* The operator's calls and what happens around the executor leave the list alone; a
\* mission started, or resumed at a place estimated anew, finds it as it must be.
LEMMA OtherOnce ==
  ASSUME CaptureEnabled, TypeOK, Shutter, Once,
         Operator \/ CameraTopics \/ Camera \/ Chassis \/ ArchiveDrain \/ UNCHANGED vars
  PROVE  Once'
<1>0. AroundOK /\ gate \in Gates BY DEF TypeOK, AroundOK
<1>1. ASSUME index' = index, gate'.intervals = gate.intervals, gate'.active = gate.active,
             gate'.track = gate.track, gate'.future = "on" => gate.future = "on"
      PROVE  InOrder' /\ OpensFresh' /\ OnPass' = OnPass
  BY <1>1 DEF Once, InOrder, OpensFresh, OnPass, AtMissionEnd, Step
<1>2. CASE Start
  <2>1. /\ UNCHANGED <<index, core, pos>> /\ gate' = Closing(gate) /\ state = "READY"
        /\ state' \in {"READY", "RUNNING"}
    BY <1>2 DEF Start, Closing
  <2>2. /\ gate'.intervals = gate.intervals /\ gate'.active = gate.active
        /\ gate'.track = gate.track /\ (gate'.future = "on" => gate.future = "on")
    BY <1>0, <2>1, RequestedList, RequestKeeps DEF Closing
  <2>3. /\ gate.intervals = <<>> /\ gate.active # "on" /\ gate.future # "on"
        /\ core = NoCore /\ (OnPass => pos = "lead")
    BY <2>1 DEF Once, Unready
  <2> QED BY <1>1, <2>1, <2>2, <2>3
          DEF Once, Unready, Leading, ClosesLate, Scanning, NoCore, Below
<1>3. CASE Pause
  <2>1. /\ UNCHANGED <<index, core, gate>> /\ state = "RUNNING" /\ state' = "PAUSING"
        /\ pos' = pos \/ (pos' \in BrakeReach(pos) /\ core.kind = "translate")
    BY <1>3 DEF Pause, outside
  <2>2. OnPass => /\ pos' = "lead" => pos = "lead"
                  /\ pos' = "region" => pos \in {"lead", "region"}
    BY <2>1 DEF BrakeReach, Reach, TypeOK, Places
  <2>3. ClosesLate'
    <3> SUFFICES ASSUME OnPass, pos' \in {"lead", "region"}, gate.future = "off"
                 PROVE  core = NoCore /\ pos' = "lead" /\ Below(gate.intervals, index + 1)
      BY <1>1, <2>1 DEF ClosesLate
    <3>1. core = NoCore /\ pos = "lead" /\ Below(gate.intervals, index + 1)
      BY <2>1, <2>2 DEF Once, ClosesLate, Alive
    <3> QED BY <2>1, <3>1 DEF NoCore
  <2>4. Leading' BY <1>1, <2>1, <2>2 DEF Once, Leading, Alive
  <2> QED BY <1>1, <2>1, <2>3, <2>4 DEF Once, Unready, Scanning
<1>4. CASE Resume
  <2>1. /\ UNCHANGED <<index, gate>> /\ state = "PAUSED" /\ state' = "RUNNING" /\ core' = NoCore
        /\ gate.future = "none" /\ pos' \in Reestimated(pos)
    BY <1>4 DEF Resume, outside
  <2>2. pos' = "lead" => pos = "lead" BY <2>1 DEF Reestimated
  <2> QED BY <1>1, <2>1, <2>2 DEF Once, Unready, Leading, ClosesLate, Scanning, Alive, NoCore
<1>5. CASE Cancel \/ ExternalFault
  <2>1. UNCHANGED <<index, gate>> /\ state' \notin Alive /\ state' # "READY"
    BY <1>5 DEF Cancel, ExternalFault, Fail, Faulted, outside, Alive
  <2> QED BY <1>1, <2>1 DEF Once, Unready, Leading, ClosesLate, Scanning, Alive
<1>6. CASE CameraTopics \/ Camera \/ Chassis \/ ArchiveDrain \/ UNCHANGED vars
  <2>1. /\ UNCHANGED <<state, index, core, pos>>
        /\ gate'.intervals = gate.intervals /\ gate'.active = gate.active
        /\ gate'.track = gate.track /\ gate'.future = gate.future
    BY <1>0, <1>6 DEF CameraTopics, Heartbeat, LateHeartbeat, BadHeartbeat, SensorEvent, Camera,
         ServeOpen, ServeClose, SensorBreak, CameraAppears, CameraLost, Chassis, ChassisStop,
         ChassisMove, ChassisPushed, ArchiveDrain, beside, executorVars, vars, Gates
  <2> QED BY <1>1, <2>1 DEF Once, Unready, Leading, ClosesLate, Scanning
<1> QED BY <1>2, <1>3, <1>4, <1>5, <1>6 DEF Operator

LEMMA OnceInvariant == ASSUME CaptureEnabled PROVE Spec => []Once
<1>1. Init => Once
  <2> SUFFICES ASSUME Init PROVE Once OBVIOUS
  <2>1. /\ gate.intervals = <<>> /\ gate.active # "on" /\ gate.future = "none"
        /\ state = "READY" /\ core = NoCore /\ (OnPass => pos = "lead")
    BY DEF Init
  <2> QED BY <2>1 DEF Once, InOrder, OpensFresh, Unready, Leading, ClosesLate, Scanning, Sorted,
                      AllClosed, Below, Alive
<1>2. TypeOK /\ Shutter /\ Once /\ [Next]_vars => Once'
  <2> SUFFICES ASSUME TypeOK, Shutter, Once, [Next]_vars PROVE Once' OBVIOUS
  <2>1. CASE \E polled \in Polls : Tick(polled) BY <2>1, TickOnce
  <2> QED BY <2>1, OtherOnce DEF Next
<1> QED BY <1>1, <1>2, TypeCorrect, ShutterInvariant, PTL DEF Spec

\* A pass is exposed once: whatever was paused, resumed, refused or answered late, no
\* two intervals are of the same pass, and only the last may still be open.
THEOREM PassesExposedOnce == CaptureEnabled => (Spec => []PassExposedOnce)
<1> SUFFICES ASSUME CaptureEnabled PROVE Spec => []PassExposedOnce OBVIOUS
<1>1. Once => PassExposedOnce BY DEF Once, InOrder, Sorted, PassExposedOnce
<1> QED BY <1>1, OnceInvariant, PTL

-----------------------------------------------------------------------------
(* A mission that succeeds has every pass on file *)

\* A pass reached with the camera still open from the one before waits in its
\* lead-in, without a segment, for a close that is in flight or has failed.
Carried ==
  state \in Alive /\ OnPass /\ gate.active = "on" /\ ~Has(gate.intervals, index + 1)
    => core = NoCore /\ pos = "lead" /\ (gate.future = "off" \/ gate.error # "none")

\* A pass is not left without its interval, by the vehicle or by the mission.
Passed ==
  state \in Alive /\ OnPass /\ pos \in {"runout", "end"} => Has(gate.intervals, index + 1)
AllDone == \A i \in 1..index : Steps[i] = "PASS" => Has(gate.intervals, i)

\* Success is declared at the end of the list, over a drained archive.
Success == state = "ACQUIRED" => AtMissionEnd /\ archive.current

Complete == Carried /\ Passed /\ AllDone /\ Success

\* What a tick's poll leaves of the invariant.
LEMMA PolledComplete ==
  ASSUME TypeOK, Shutter, Once, Complete, NEW polled \in Polls
  PROVE  /\ polled \in Gates /\ index \in Nat
         /\ \A n : Has(gate.intervals, n) => Has(polled.intervals, n)
         /\ state \in Alive /\ OnPass /\ polled.active = "on" /\ ~Has(polled.intervals, index + 1)
              => core = NoCore /\ pos = "lead" /\ (polled.future = "off" \/ polled.error # "none")
<1>0. AroundOK BY DEF TypeOK, AroundOK
<1>1. polled \in Gates /\ index \in Nat BY PolledOnce
<1>2. \A n : Has(gate.intervals, n) => Has(polled.intervals, n)
  BY PolledOrder DEF Shutter, Once
<1>3. ASSUME state \in Alive, OnPass, polled.active = "on", ~Has(polled.intervals, index + 1)
      PROVE  core = NoCore /\ pos = "lead" /\ (polled.future = "off" \/ polled.error # "none")
  <2>1. gate.active = "on" BY <1>3, PolledOrder DEF Shutter, Once
  <2>2. core = NoCore /\ pos = "lead" /\ (gate.future = "off" \/ gate.error # "none")
    BY <1>2, <1>3, <2>1 DEF Complete, Carried
  <2>3. /\ gate.error # "none" => polled.error # "none"
        /\ polled.error # "none" \/ gate.future # "off" \/ polled.future = "off" \/ polled.active = "off"
    BY <1>0, PolledFacts DEF Shutter
  <2> QED BY <1>3, <2>2, <2>3
<1> QED BY <1>1, <1>2, <1>3

\* Asking for a close leaves a call in flight as it is and every error raised.
LEMMA ClosingKeeps ==
  ASSUME NEW g \in Gates
  PROVE  /\ Closing(g) \in Gates /\ Closing(g).intervals = g.intervals /\ Closing(g).active = g.active
         /\ g.future = "off" => Closing(g).future = "off"
         /\ g.error # "none" => Closing(g).error # "none"
<1>1. /\ Closing(g) \in Gates /\ Closing(g).intervals = g.intervals /\ Closing(g).active = g.active
      /\ g.future = "off" => Closing(g).future = "off"
  BY RequestedType, RequestedList, RequestKeeps DEF Closing
<1>2. g.error # "none" => Closing(g).error # "none" BY DEF Closing, Requested, Gates
<1> QED BY <1>1, <1>2

\* A segment followed: the run-out is entered from the region, which is only driven
\* with the camera open, and the pass is over only at its end.
LEMMA DriveComplete ==
  ASSUME CaptureEnabled, TypeOK, Shutter, Once, Complete, state = "RUNNING", ~AtMissionEnd,
         NEW polled \in Polls, ~Broken(polled), NEW c0, NEW k \in Kinds,
         NEW c \in TrackerStates \cup {"COMPLETED"}, NEW built \in BOOLEAN,
         core = NoCore => polled.future = "none" /\ mode = "HOLD",
         core # NoCore => core.kind = k,
         Drive(polled, c0, k, c, built)
  PROVE  Complete'
<1>1. PICK p \in Places :
           /\ p = pos \/ (k = "translate" /\ mode # "HOLD" /\ p \in Reach(pos))
           /\ core' = IF c = "COMPLETED" THEN NoCore ELSE [state |-> c, kind |-> k]
           /\ \/ pos' = p /\ index' = index
              \/ /\ pos' = "lead" /\ index' = index + 1 /\ c = "COMPLETED" /\ gate'.future # "on"
                 /\ OnPass => k = "translate" /\ p = "end"
           /\ state' \in {"RUNNING", "FAULT"}
           /\ OnPass /\ k = "translate" /\ p \in {"runout", "end"} => gate' = Closing(polled)
           /\ \/ gate' = polled
              \/ OnPass /\ k = "translate" /\ p \in {"runout", "end"} /\ gate' = Closing(polled)
              \/ /\ OnPass /\ k = "translate" /\ p \in {"lead", "region"} /\ mode = "DRIVE"
                 /\ gate' = Requested(polled, "on", index + 1)
           /\ OnPass /\ k = "translate" /\ p = "region" /\ gate'.active # "on" => state' = "FAULT"
  BY DriveFacts
<1>2. /\ polled \in Gates /\ index \in Nat
      /\ gate'.intervals = polled.intervals /\ gate'.active = polled.active
  BY <1>1, PolledOnce
<1>3. \A n : Has(gate.intervals, n) => Has(gate'.intervals, n) BY <1>2, PolledComplete
<1>4. AroundOK /\ polled.error = "none" /\ state \in Alive BY DEF TypeOK, AroundOK, Broken, Alive
<1>5. OnPass /\ p \in {"runout", "end"} => Has(gate.intervals, index + 1)
  <2> SUFFICES ASSUME OnPass, p \in {"runout", "end"}, ~Has(gate.intervals, index + 1) PROVE FALSE
    OBVIOUS
  <2>1. pos \in {"lead", "region"} BY <1>4 DEF TypeOK, Places, Complete, Passed
  <2>2. k = "translate" /\ mode # "HOLD" /\ pos = "region" BY <1>1, <2>1 DEF Reach
  <2>3. core # NoCore /\ core.kind = "translate" BY <2>2
  <2>4. gate.active = "on" BY <2>2, <2>3 DEF Once, Scanning
  <2> QED BY <1>4, <2>3, <2>4 DEF Complete, Carried
<1>6. OnPass /\ gate'.active = "on" => Has(gate'.intervals, index + 1)
  <2> SUFFICES ASSUME OnPass, gate'.active = "on", ~Has(gate'.intervals, index + 1) PROVE FALSE
    OBVIOUS
  <2>1. core = NoCore /\ polled.future = "off" BY <1>2, <1>4, PolledComplete
  <2> QED BY <2>1
<1>7. Success' BY <1>1 DEF Success
<1>8. CASE index' # index + 1
  <2>1. pos' = p /\ index' = index BY <1>1, <1>8
  <2>2. OnPass' = OnPass BY <2>1 DEF OnPass, AtMissionEnd, Step
  <2>3. AllDone' BY <1>3, <2>1 DEF Complete, AllDone
  <2> QED BY <1>3, <1>5, <1>6, <1>7, <2>1, <2>2, <2>3 DEF Complete, Carried, Passed
<1>9. CASE index' = index + 1
  <2>1. index' # index BY <1>2, <1>9
  <2>2. core' = NoCore /\ pos' = "lead" /\ (OnPass => k = "translate" /\ p = "end") BY <1>1, <2>1
  <2>3. AllDone'
    <3> SUFFICES ASSUME NEW i \in 1..index', Steps[i] = "PASS" PROVE Has(gate'.intervals, i)
      BY DEF AllDone
    <3>1. CASE i \in 1..index BY <1>3, <3>1 DEF Complete, AllDone
    <3>2. CASE i \notin 1..index
      <4>1. i = index + 1 BY <1>2, <1>9, <3>2
      <4>2. OnPass BY <4>1 DEF OnPass, Step
      <4> QED BY <1>3, <1>5, <2>2, <4>1, <4>2
    <3> QED BY <3>1, <3>2
  <2>4. gate'.active = "on" => gate'.future = "off" \/ gate'.error # "none"
    <3> SUFFICES ASSUME polled.active = "on" PROVE gate'.future = "off" \/ gate'.error # "none"
      BY <1>2
    <3>1. CASE OnPass
      <4>1. gate' = Closing(polled) BY <1>1, <2>2, <3>1
      <4>2. polled.future # "on" /\ (polled.closeFailed => polled.error # "none")
        BY <1>4, PolledFacts DEF Shutter
      <4>3. Closing(polled).active = "off" \/ Closing(polled).future = "off" \/ Closing(polled).error # "none"
        BY <1>2, <4>2, ClosingFacts DEF Closing
      <4> QED BY <1>2, <4>1, <4>3
    <3>2. CASE ~OnPass
      <4>1. polled.future = "off" /\ core = NoCore BY <1>4, <3>2, PolledAlive
      <4> QED BY <4>1
    <3> QED BY <3>1, <3>2
  <2> QED BY <1>7, <2>2, <2>3, <2>4 DEF Complete, Carried, Passed
<1> QED BY <1>8, <1>9

\* Every other tick leaves the vehicle where it is on its step; a pass ends at its
\* endpoint with the camera known to be closed, and so does the mission.
LEMMA TickComplete ==
  ASSUME CaptureEnabled, TypeOK, Shutter, Once, Complete, Filed, Filed',
         NEW polled \in Polls, Tick(polled)
  PROVE  Complete'
<1>0. ExecutorOK /\ AroundOK BY DEF TypeOK, ExecutorOK, AroundOK
<1>1. polled \in Gates /\ index \in Nat BY PolledOnce
<1>2. \A g \in {polled, Closing(polled), Closing(Closing(polled))} :
        /\ g.intervals = polled.intervals /\ g.active = polled.active
        /\ polled.future = "off" => g.future = "off"
        /\ polled.error # "none" => g.error # "none"
  BY <1>1, ClosingKeeps
<1>3. ASSUME index' = index, gate'.intervals = polled.intervals PROVE AllDone'
  BY <1>3, PolledComplete DEF Complete, AllDone
<1>4. CASE RestTick(polled)
  <2>1. state' \notin Alive /\ (state' = "ACQUIRED" => state = "ACQUIRED")
    BY <1>4 DEF RestTick, Faulted, Alive, Terminal
  <2>2. index' = index /\ gate' = Closing(polled)
    BY <1>4 DEF RestTick, EndTick, Closing
  <2>3. AllDone' BY <1>2, <1>3, <2>2
  <2>4. Success'
    <3> SUFFICES ASSUME state = "ACQUIRED" PROVE AtMissionEnd' /\ archive'.current
      BY <2>1 DEF Success
    <3>1. AtMissionEnd' BY <2>2 DEF Complete, Success, AtMissionEnd
    <3>2. Submitted(polled) = archive /\ archive.current
      BY <1>0, PolledFacts DEF Shutter, Quiet, Submitted, Complete, Success
    <3>3. PICK a \in ArchiveProgress(archive) : archive' = [a EXCEPT !.unsaved = TRUE]
      BY <1>4, <3>2 DEF RestTick, EndTick
    <3>4. archive \in Archives /\ a \in Archives BY <1>0, <3>3, ArchiveType DEF AroundOK
    <3>5. a.current BY <3>2, <3>3, <3>4 DEF ArchiveProgress, Archives
    <3> QED BY <3>1, <3>3, <3>4, <3>5 DEF Archives
  <2> QED BY <2>1, <2>3, <2>4 DEF Complete, Carried, Passed
<1>5. CASE ReadyTick(polled)
  <2>1. /\ state = "READY" /\ state' \in {"READY", "RUNNING"}
        /\ UNCHANGED <<index, core, pos>>
    BY <1>5 DEF ReadyTick
  <2>2. gate' \in {polled, Closing(polled), Closing(Closing(polled))}
    BY <1>5 DEF ReadyTick, EndTick, Closing
  <2>3. /\ gate.intervals = <<>> /\ gate.active # "on" /\ gate.future # "on"
        /\ core = NoCore /\ (OnPass => pos = "lead")
    BY <2>1 DEF Once, Unready
  <2>4. OnPass' = OnPass BY <2>1 DEF OnPass, AtMissionEnd, Step
  <2>5. gate'.active # "on"
    <3>1. CASE gate.future = "none" BY <1>0, <1>2, <2>2, <2>3, <3>1, PolledFacts DEF Shutter
    <3>2. CASE gate.future = "off"
      <4>1. polled.active \in {gate.active, "off"} BY <1>0, <3>2 DEF Polls, AroundOK, Gates
      <4> QED BY <1>2, <2>2, <2>3, <4>1
    <3> QED BY <1>0, <2>3, <3>1, <3>2 DEF AroundOK, Gates
  <2>6. AllDone' BY <1>2, <1>3, <2>1, <2>2
  <2> QED BY <2>1, <2>3, <2>4, <2>5, <2>6 DEF Complete, Carried, Passed, Success, Alive
<1>6. CASE RejectFeedback(polled) \/ PauseTimeout(polled) \/ DrainTimeout(polled) \/ RefuseSegment(polled)
  <2>1. state' = "FAULT" /\ index' = index /\ gate' = polled
    BY <1>6 DEF RejectFeedback, PauseTimeout, DrainTimeout, RefuseSegment, ReadyForSegment,
                RunningTick, Fail, Faulted, EndTick
  <2> QED BY <1>3, <2>1 DEF Complete, Carried, Passed, Success, Alive
<1>7. ASSUME state \in Alive, state' \in Alive, UNCHANGED <<index, core, pos>>,
             gate' \in {polled, Closing(polled)}
      PROVE  Complete'
  <2>1. OnPass' = OnPass BY <1>7 DEF OnPass, AtMissionEnd, Step
  <2>2. AllDone' BY <1>2, <1>3, <1>7
  <2>3. Passed' BY <1>2, <1>7, <2>1, PolledComplete DEF Complete, Passed
  <2>4. Carried' BY <1>2, <1>7, <2>1, PolledComplete DEF Carried
  <2> QED BY <1>7, <2>2, <2>3, <2>4 DEF Complete, Success, Alive
<1>8. CASE ParkedTick(polled) \/ PausingTick(polled) \/ FrozenClock(polled) \/ AwaitStandstill(polled)
  <2>1. /\ state \in Alive /\ state' \in Alive
        /\ UNCHANGED <<index, core, pos>> /\ gate' = polled
    BY <1>8 DEF ParkedTick, PausingTick, FrozenClock, AwaitStandstill, RunningTick, executorVars,
                EndTick, Alive
  <2> QED BY <1>7, <2>1
<1>9. CASE CloseMission(polled)
  <2>1. /\ state = "RUNNING" /\ UNCHANGED <<index, core, pos>> /\ gate' = Closing(polled)
        /\ AtMissionEnd /\ state' \in {"RUNNING", "FAULT", "ACQUIRED", "COMPLETED"}
        /\ state' = "ACQUIRED" => settled'
    BY <1>9 DEF CloseMission, RunningTick, EndTick, Closing, Fail, Faulted
  <2>2. CASE state' = "RUNNING" BY <1>7, <2>1, <2>2 DEF Alive
  <2>3. CASE state' # "RUNNING"
    <3>1. AllDone' BY <1>2, <1>3, <2>1
    <3>2. Success' BY <2>1 DEF Success, AtMissionEnd, Filed
    <3> QED BY <2>1, <2>3, <3>1, <3>2 DEF Complete, Carried, Passed, Alive
  <2> QED BY <2>2, <2>3
<1>10. CASE EndStep(polled)
  <2>1. /\ state = "RUNNING" /\ state' = state /\ core = NoCore /\ core' = core
        /\ gate' = Closing(polled) /\ "none" \in Arguments(pos)
    BY <1>10 DEF EndStep, ReadyForSegment, RunningTick, EndTick, Closing
  <2>2. OnPass => pos = "end" BY <2>1 DEF Arguments, OnPass
  <2>3. CASE ~Granted(polled, "off")
    <3>1. index' = index /\ pos' = pos BY <1>10, <2>3 DEF EndStep
    <3> QED BY <1>7, <2>1, <3>1 DEF Alive
  <2>4. CASE Granted(polled, "off")
    <3>1. index' = index + 1 /\ pos' = "lead" BY <1>10, <2>4 DEF EndStep
    <3>2. gate'.active # "on" BY <1>2, <2>1, <2>4 DEF Granted
    <3>3. AllDone'
      <4> SUFFICES ASSUME NEW i \in 1..index', Steps[i] = "PASS" PROVE Has(polled.intervals, i)
        BY <1>2, <2>1 DEF AllDone
      <4>1. CASE i \in 1..index BY <4>1, PolledComplete DEF Complete, AllDone
      <4>2. CASE i \notin 1..index
        <5>1. i = index + 1 /\ ~AtMissionEnd
          BY <1>1, <1>10, <3>1, <4>2 DEF EndStep, ReadyForSegment
        <5>2. OnPass BY <5>1 DEF OnPass, Step
        <5> QED BY <2>1, <2>2, <5>1, <5>2, PolledComplete DEF Complete, Passed, Alive
      <4> QED BY <4>1, <4>2
    <3> QED BY <2>1, <3>1, <3>2, <3>3 DEF Complete, Carried, Passed, Success
  <2> QED BY <2>3, <2>4
<1>11. CASE FollowSegment(polled)
  <2>1. core.state \in TrackerStates /\ core.kind \in Kinds
    BY <1>0, <1>11 DEF FollowSegment, ExecutorOK, Cores
  <2>2. PICK c \in Updated(core.state) : Drive(polled, core.state, core.kind, c, FALSE)
    BY <1>11 DEF FollowSegment
  <2>3. c \in TrackerStates \cup {"COMPLETED"} BY <2>1, <2>2, UpdatedType
  <2> QED BY <1>11, <2>1, <2>2, <2>3, DriveComplete DEF FollowSegment, RunningTick
<1>12. CASE SegmentTimeout(polled)
  <2>1. core.kind \in Kinds BY <1>0, <1>12 DEF SegmentTimeout, ExecutorOK, Cores
  <2> QED BY <1>12, <2>1, DriveComplete DEF SegmentTimeout, RunningTick, TrackerStates
<1>13. CASE BuildSegment(polled)
  <2>1. PICK k \in Kinds, c \in Updated("ALIGNING") : Drive(polled, "ALIGNING", k, c, TRUE)
    BY <1>13 DEF BuildSegment
  <2>2. c \in TrackerStates \cup {"COMPLETED"} BY <2>1, UpdatedType DEF TrackerStates
  <2> QED BY <1>13, <2>1, <2>2, DriveComplete DEF BuildSegment, ReadyForSegment, RunningTick
<1> QED BY <1>4, <1>5, <1>6, <1>8, <1>9, <1>10, <1>11, <1>12, <1>13 DEF Tick, RunStep, Timeout

\* A pause brakes across at most the boundary the vehicle is at, with a region longer
\* than that; a resume starts where the vehicle is found.
LEMMA OtherComplete ==
  ASSUME CaptureEnabled, LongRegion, TypeOK, Shutter, Once, Complete,
         Operator \/ CameraTopics \/ Camera \/ Chassis \/ ArchiveDrain \/ UNCHANGED vars
  PROVE  Complete'
<1>0. AroundOK /\ gate \in Gates /\ archive \in Archives BY DEF TypeOK, AroundOK
<1>1. ASSUME index' = index, gate'.intervals = gate.intervals
      PROVE  AllDone' /\ OnPass' = OnPass /\ AtMissionEnd' = AtMissionEnd
  BY <1>1 DEF Complete, AllDone, OnPass, AtMissionEnd, Step
<1>2. CASE Start
  <2>1. /\ UNCHANGED <<index, core, pos>> /\ gate' = Closing(gate) /\ state = "READY"
        /\ state' \in {"READY", "RUNNING"}
    BY <1>2 DEF Start, Closing
  <2>2. gate'.intervals = gate.intervals /\ gate'.active = gate.active
    BY <1>0, <2>1, ClosingKeeps
  <2>3. gate.active # "on" /\ (OnPass => pos = "lead") BY <2>1 DEF Once, Unready
  <2> QED BY <1>1, <2>1, <2>2, <2>3 DEF Complete, Carried, Passed, Success
<1>3. CASE Pause
  <2>1. /\ UNCHANGED <<index, core, gate>> /\ state = "RUNNING" /\ state' = "PAUSING"
        /\ pos' = pos \/ (pos' \in Reach(pos) /\ core.kind = "translate")
    BY <1>3 DEF Pause, outside, BrakeReach
  <2>2. state \in Alive BY <2>1 DEF Alive
  <2>3. Passed'
    <3> SUFFICES ASSUME OnPass, pos' \in {"runout", "end"} PROVE Has(gate.intervals, index + 1)
      BY <1>1, <2>1 DEF Passed
    <3>1. CASE pos \in {"runout", "end"} BY <2>2, <3>1 DEF Complete, Passed
    <3>2. CASE pos \notin {"runout", "end"}
      <4>1. pos = "region" /\ core.kind = "translate"
        BY <2>1, <3>2 DEF Reach, TypeOK, Places
      <4>2. gate.active = "on" BY <2>1, <4>1 DEF Once, Scanning
      <4> QED BY <2>2, <4>1, <4>2 DEF Complete, Carried
    <3> QED BY <3>1, <3>2
  <2>4. Carried'
    <3> SUFFICES ASSUME OnPass, gate.active = "on", ~Has(gate.intervals, index + 1)
                 PROVE  core = NoCore /\ pos' = "lead" /\ (gate.future = "off" \/ gate.error # "none")
      BY <1>1, <2>1 DEF Carried
    <3>1. core = NoCore /\ pos = "lead" /\ (gate.future = "off" \/ gate.error # "none")
      BY <2>2 DEF Complete, Carried
    <3> QED BY <2>1, <3>1 DEF NoCore
  <2> QED BY <1>1, <2>1, <2>3, <2>4 DEF Complete, Success
<1>4. CASE Resume
  <2>1. /\ UNCHANGED <<index, gate>> /\ state = "PAUSED" /\ state' = "RUNNING" /\ core' = NoCore
        /\ gate.error = "none" /\ gate.future = "none" /\ pos' \in Reestimated(pos)
    BY <1>4 DEF Resume, outside
  <2>2. pos' \in {"runout", "end"} => pos' = pos BY <2>1 DEF Reestimated
  <2>3. state \in Alive BY <2>1 DEF Alive
  <2> QED BY <1>1, <2>1, <2>2, <2>3 DEF Complete, Carried, Passed, Success
<1>5. CASE Cancel \/ ExternalFault
  <2>1. UNCHANGED <<index, gate>> /\ state' \notin Alive /\ state' # "ACQUIRED"
    BY <1>5 DEF Cancel, ExternalFault, Fail, Faulted, outside, Alive
  <2> QED BY <1>1, <2>1 DEF Complete, Carried, Passed, Success
<1>6. CASE CameraTopics \/ Camera \/ Chassis \/ ArchiveDrain \/ UNCHANGED vars
  <2>1. /\ UNCHANGED <<state, index, core, pos>>
        /\ gate'.intervals = gate.intervals /\ gate'.active = gate.active
        /\ gate'.future = gate.future /\ (gate.error # "none" => gate'.error # "none")
    BY <1>0, <1>6 DEF CameraTopics, Heartbeat, LateHeartbeat, BadHeartbeat, SensorEvent, Camera,
         ServeOpen, ServeClose, SensorBreak, CameraAppears, CameraLost, Chassis, ChassisStop,
         ChassisMove, ChassisPushed, ArchiveDrain, beside, executorVars, vars, Gates
  <2>2. archive.current => archive'.current
    BY <1>0, <1>6 DEF CameraTopics, Heartbeat, LateHeartbeat, BadHeartbeat, SensorEvent, Camera,
         ServeOpen, ServeClose, SensorBreak, CameraAppears, CameraLost, Chassis, ChassisStop,
         ChassisMove, ChassisPushed, ArchiveDrain, ArchiveProgress, beside, executorVars, vars, Archives
  <2> QED BY <1>1, <2>1, <2>2 DEF Complete, Carried, Passed, Success
<1> QED BY <1>2, <1>3, <1>4, <1>5, <1>6 DEF Operator

\* With a region longer than the braking distance, success means the whole rectangle is
\* on file: every pass has its interval, every interval is closed, the file is the
\* final one and the camera is off. Without the hypothesis it is false (ShortRegion).
THEOREM AcquisitionIsComplete == CaptureEnabled /\ LongRegion => (Spec => []AcquiredIsComplete)
<1> SUFFICES ASSUME CaptureEnabled, LongRegion PROVE Spec => []AcquiredIsComplete OBVIOUS
<1>1. Init => Complete
  <2> SUFFICES ASSUME Init PROVE Complete OBVIOUS
  <2>1. /\ gate.active # "on" /\ state = "READY" /\ index = 0 /\ (OnPass => pos = "lead")
    BY DEF Init
  <2> QED BY <2>1 DEF Complete, Carried, Passed, AllDone, Success, Alive
<1>2. TypeOK /\ Shutter /\ Once /\ Complete /\ Filed /\ Filed' /\ [Next]_vars => Complete'
  <2> SUFFICES ASSUME TypeOK, Shutter, Once, Complete, Filed, Filed', [Next]_vars PROVE Complete' OBVIOUS
  <2>1. CASE \E polled \in Polls : Tick(polled) BY <2>1, TickComplete
  <2> QED BY <2>1, OtherComplete DEF Next
<1>3. TypeOK /\ Shutter /\ Once /\ Complete => AcquiredIsComplete
  <2> SUFFICES ASSUME TypeOK, Shutter, Once, Complete, state = "ACQUIRED"
               PROVE  AcquiredIsComplete
    BY DEF AcquiredIsComplete
  <2>1. index = Len(Steps) /\ archive.current BY DEF Complete, Success, AtMissionEnd
  <2>2. ~sensor /\ gate.active = "off" /\ gate.future = "none" BY DEF Shutter, Quiet, Dark
  <2>3. AllClosed(gate.intervals) BY <2>2 DEF Once, InOrder
  <2>4. DOMAIN Steps = 1..index BY <2>1, StepsAssumption, LenProperties
  <2>5. \A i \in DOMAIN Steps : Steps[i] = "PASS" => Has(gate.intervals, i)
    BY <2>4 DEF Complete, AllDone
  <2> QED BY <2>1, <2>2, <2>3, <2>5 DEF AcquiredIsComplete, AllClosed, Has
<1> QED BY <1>1, <1>2, <1>3, TypeCorrect, ShutterInvariant, OnceInvariant, FiledInvariant, PTL DEF Spec

-----------------------------------------------------------------------------
(* The mission as its status messages tell it *)

Told == [state |-> state, active |-> gate.active, future |-> gate.future, settled |-> settled]

\* Without a camera the gate never leaves its closed state.
Bare == ~CaptureEnabled => gate.active = "off" /\ gate.future = "none"

Handled == Bare /\ Filed /\ (CaptureEnabled => Shutter)

\* request(False) makes a call only of a camera not known to be closed, and only when
\* none is outstanding.
LEMMA ClosingAsks ==
  ASSUME NEW g \in Gates
  PROVE  LET r == Closing(g)
         IN  /\ r \in Gates /\ r.active = g.active
             /\ r.future = g.future \/ (r.future = "off" /\ g.future = "none" /\ g.active # "off")
             /\ ~CaptureEnabled => r = g
             /\ Granted(g, "off") => r = g /\ (CaptureEnabled => g.active = "off" /\ g.future = "none")
<1>1. Closing(g) \in Gates /\ Closing(g).active = g.active
  BY RequestedType, RequestKeeps DEF Closing
<1>2. /\ Closing(g).future = g.future
           \/ (Closing(g).future = "off" /\ g.future = "none" /\ g.active # "off")
      /\ ~CaptureEnabled => Closing(g) = g
  BY DEF Closing, Requested, Gates
<1>3. Granted(g, "off") => Closing(g) = g /\ (CaptureEnabled => g.active = "off" /\ g.future = "none")
  BY DEF Closing, Requested, Granted
<1> QED BY <1>1, <1>2, <1>3

LEMMA OpeningAsks ==
  ASSUME NEW g \in Gates, NEW track \in Nat
  PROVE  LET r == Requested(g, "on", track)
         IN  /\ r.active = g.active
             /\ r.future = g.future \/ (r.future = "on" /\ g.future = "none" /\ g.active # "on")
             /\ ~CaptureEnabled => r = g
BY DEF Requested, Gates

\* poll() leaves the camera as it was known, or as the answered call makes it known.
LEMMA PolledAnswer ==
  ASSUME AroundOK, NEW polled \in Polls
  PROVE  /\ polled \in Gates
         /\ <<polled.active, polled.future>> \in Life!Answers(Told)
         /\ gate.future = "none" => polled.active = gate.active /\ polled.future = "none"
<1>0. gate \in Gates /\ polled \in Gates BY PollsType DEF AroundOK
<1>1. CASE gate.future = "none"
  <2>1. polled \in Checked BY <1>1 DEF Polls
  <2>2. polled.active = gate.active /\ polled.future = gate.future BY <1>0, <2>1 DEF Checked, Gates
  <2> QED BY <1>0, <1>1, <2>2 DEF Life!Answers, Told
<1>2. CASE gate.future # "none"
  <2>1. \/ polled.active = gate.active /\ polled.future = gate.future
        \/ polled.active \in {gate.active, gate.future} /\ polled.future = "none"
    BY <1>0, <1>2 DEF Polls, AroundOK, Gates
  <2> QED BY <1>0, <1>2, <2>1 DEF Life!Answers, Told
<1> QED BY <1>1, <1>2

\* The states one tick, or one service call, takes the mission through.
LEMMA StatesFollow ==
  ASSUME TypeOK, [Next]_vars PROVE state' \in Life!Successors(state)
<1>0. state \in States BY DEF TypeOK
<1>1. CASE \E polled \in Polls : Tick(polled)
  <2>1. PICK polled \in Polls : Tick(polled) BY <1>1
  <2>2. CASE RestTick(polled)
    BY <1>0, <2>2 DEF RestTick, Faulted, States, Terminal, Life!Successors
  <2>3. CASE ReadyTick(polled) BY <2>3 DEF ReadyTick, Life!Successors
  <2>4. CASE RejectFeedback(polled) \/ PauseTimeout(polled) \/ DrainTimeout(polled) \/ RefuseSegment(polled)
    BY <1>0, <2>4 DEF RejectFeedback, PauseTimeout, DrainTimeout, RefuseSegment, ReadyForSegment,
                RunningTick, Fail, Faulted, States, Terminal, Life!Successors
  <2>5. CASE ParkedTick(polled) \/ PausingTick(polled) \/ FrozenClock(polled) \/ AwaitStandstill(polled)
               \/ EndStep(polled)
    BY <2>5 DEF ParkedTick, PausingTick, FrozenClock, AwaitStandstill, EndStep, executorVars, Life!Successors
  <2>6. CASE CloseMission(polled)
    BY <2>6 DEF CloseMission, RunningTick, Fail, Faulted, Life!Successors
  <2>7. CASE FollowSegment(polled) \/ SegmentTimeout(polled) \/ BuildSegment(polled)
    <3>1. ASSUME NEW c0, NEW k, NEW c, NEW built, Drive(polled, c0, k, c, built)
          PROVE  state' \in {state, Faulted(state)}
      BY <3>1 DEF Drive, Fail
    <3>2. state = "RUNNING"
      BY <2>7 DEF FollowSegment, SegmentTimeout, BuildSegment, ReadyForSegment, RunningTick
    <3>3. state' \in {state, Faulted(state)}
      BY <2>7, <3>1 DEF FollowSegment, SegmentTimeout, BuildSegment
    <3> QED BY <3>2, <3>3 DEF Faulted, Life!Successors
  <2> QED BY <2>1, <2>2, <2>3, <2>4, <2>5, <2>6, <2>7 DEF Tick, RunStep, Timeout
<1>2. CASE Operator
  BY <1>0, <1>2 DEF Operator, Start, Pause, Resume, Cancel, ExternalFault, Fail, Faulted, States, Terminal,
                    Life!Successors
<1>3. CASE CameraTopics \/ Camera \/ Chassis \/ ArchiveDrain \/ UNCHANGED vars
  <2>1. state' = state
    BY <1>3 DEF CameraTopics, Camera, Chassis, Heartbeat, LateHeartbeat, BadHeartbeat, SensorEvent,
                ServeOpen, ServeClose, SensorBreak, CameraAppears, CameraLost, ChassisStop,
                ChassisMove, ChassisPushed, ArchiveDrain, beside, executorVars, vars
  <2> QED BY <2>1 DEF Life!Successors
<1> QED BY <1>1, <1>2, <1>3 DEF Next

\* The changes of state that wait for the camera.
LEMMA StartsClosed ==
  ASSUME TypeOK, CaptureEnabled, [Next]_vars, state = "READY", state' = "RUNNING"
  PROVE  gate'.active = "off" /\ gate'.future = "none"
<1>0. AroundOK /\ gate \in Gates BY DEF TypeOK, AroundOK
<1>1. CASE \E polled \in Polls : Tick(polled)
  <2>1. PICK polled \in Polls : Tick(polled) BY <1>1
  <2>2. ReadyTick(polled)
    BY <2>1 DEF Tick, RunStep, Timeout, RestTick, Faulted, Terminal, RejectFeedback, PauseTimeout, DrainTimeout,
                RefuseSegment, ReadyForSegment, RunningTick, Fail, ParkedTick, PausingTick, FrozenClock,
                AwaitStandstill, EndStep, CloseMission, FollowSegment, SegmentTimeout, BuildSegment
  <2>3. PICK prepared \in {polled, Closing(polled)} :
          Granted(prepared, "off") /\ gate' = Closing(prepared)
    BY <2>2 DEF ReadyTick, EndTick, Closing
  <2>4. prepared \in Gates BY <1>0, PollsType, ClosingAsks, <2>3
  <2> QED BY <2>3, <2>4, ClosingAsks
<1>2. CASE Start
  <2>1. Granted(gate, "off") /\ gate' = Closing(gate) BY <1>2 DEF Start, Closing
  <2> QED BY <1>0, <2>1, ClosingAsks
<1>3. CASE ~Start /\ Operator
  BY <1>3 DEF Operator, Pause, Resume, Cancel, ExternalFault, Fail, Faulted
<1>4. CASE CameraTopics \/ Camera \/ Chassis \/ ArchiveDrain \/ UNCHANGED vars
  <2>1. state' = state
    BY <1>4 DEF CameraTopics, Camera, Chassis, Heartbeat, LateHeartbeat, BadHeartbeat, SensorEvent,
                ServeOpen, ServeClose, SensorBreak, CameraAppears, CameraLost, ChassisStop,
                ChassisMove, ChassisPushed, ArchiveDrain, beside, executorVars, vars
  <2> QED BY <2>1
<1> QED BY <1>1, <1>2, <1>3, <1>4 DEF Next

\* What is known of the camera changes by the answer to a call; a call is made when
\* none is outstanding, and an open only by a tick of a running mission.
LEMMA CameraFollows ==
  ASSUME TypeOK, [Next]_vars
  PROVE  /\ \E known \in Life!Answers(Told) :
              gate'.active = known[1] /\ gate'.future \in Life!Asks(Told, known[1], known[2])
         /\ ~CaptureEnabled /\ gate.future = "none" => gate'.active = gate.active /\ gate'.future = "none"
         /\ state = "PAUSED" /\ state' = "RUNNING" => gate'.future = "none"
<1>0. AroundOK /\ gate \in Gates /\ index + 1 \in Nat BY StepsLength DEF TypeOK, AroundOK
<1>1. CASE \E polled \in Polls : Tick(polled)
  <2>1. PICK polled \in Polls : Tick(polled) BY <1>1
  <2>2. /\ polled \in Gates /\ <<polled.active, polled.future>> \in Life!Answers(Told)
        /\ gate.future = "none" => polled.active = gate.active /\ polled.future = "none"
    BY <1>0, PolledAnswer
  <2>3. state = "PAUSED" => state' # "RUNNING"
    BY <2>1 DEF Tick, RunStep, Timeout, RestTick, Faulted, Terminal, ReadyTick, RejectFeedback, PauseTimeout,
                DrainTimeout, RefuseSegment, ReadyForSegment, RunningTick, Fail, ParkedTick, PausingTick,
                FrozenClock, AwaitStandstill, EndStep, CloseMission, FollowSegment, SegmentTimeout, BuildSegment
  <2>4. \/ gate' \in {polled, Closing(polled), Closing(Closing(polled))}
        \/ ~Broken(polled) /\ state = "RUNNING" /\ gate' = Requested(polled, "on", index + 1)
    BY <2>1, TickGate
  <2>5. CASE gate' \in {polled, Closing(polled), Closing(Closing(polled))}
    <3>1. /\ gate'.active = polled.active
          /\ \/ gate'.future = polled.future
             \/ gate'.future = "off" /\ polled.future = "none" /\ polled.active # "off"
          /\ ~CaptureEnabled => gate' = polled
      BY <2>2, <2>5, ClosingAsks
    <3>2. gate'.future \in Life!Asks(Told, polled.active, polled.future)
      BY <3>1 DEF Life!Asks, Told
    <3> QED BY <2>2, <2>3, <3>1, <3>2
  <2>6. CASE state = "RUNNING" /\ gate' = Requested(polled, "on", index + 1)
    <3>1. /\ gate'.active = polled.active
          /\ \/ gate'.future = polled.future
             \/ gate'.future = "on" /\ polled.future = "none" /\ polled.active # "on"
          /\ ~CaptureEnabled => gate' = polled
      BY <1>0, <2>2, <2>6, OpeningAsks
    <3>2. gate'.future \in Life!Asks(Told, polled.active, polled.future)
      BY <2>6, <3>1 DEF Life!Asks, Told
    <3> QED BY <2>2, <2>3, <3>1, <3>2
  <2> QED BY <2>4, <2>5, <2>6
<1>2. <<gate.active, gate.future>> \in Life!Answers(Told) BY DEF Life!Answers, Told
<1>3. CASE Start
  <2>1. gate' = Closing(gate) /\ state = "READY" BY <1>3 DEF Start, Closing
  <2>2. /\ gate'.active = gate.active
        /\ \/ gate'.future = gate.future
           \/ gate'.future = "off" /\ gate.future = "none" /\ gate.active # "off"
        /\ ~CaptureEnabled => gate' = gate
    BY <1>0, <2>1, ClosingAsks
  <2>3. gate'.future \in Life!Asks(Told, gate.active, gate.future) BY <2>2 DEF Life!Asks, Told
  <2> QED BY <1>2, <2>1, <2>2, <2>3
<1>4. CASE (Operator /\ ~Start) \/ CameraTopics \/ Camera \/ Chassis \/ ArchiveDrain \/ UNCHANGED vars
  <2>1. gate'.active = gate.active /\ gate'.future = gate.future
    BY <1>0, <1>4 DEF Operator, Pause, Resume, Cancel, ExternalFault, outside,
         CameraTopics, Heartbeat, LateHeartbeat, BadHeartbeat, SensorEvent, Camera,
         ServeOpen, ServeClose, SensorBreak, CameraAppears, CameraLost, Chassis, ChassisStop,
         ChassisMove, ChassisPushed, ArchiveDrain, beside, vars, Gates
  <2>2. state = "PAUSED" /\ state' = "RUNNING" => gate.future = "none"
    BY <1>4 DEF Operator, Pause, Resume, Cancel, ExternalFault, Fail, Faulted,
         CameraTopics, Heartbeat, LateHeartbeat, BadHeartbeat, SensorEvent, Camera,
         ServeOpen, ServeClose, SensorBreak, CameraAppears, CameraLost, Chassis, ChassisStop,
         ChassisMove, ChassisPushed, ArchiveDrain, beside, executorVars, vars
  <2>3. gate'.future \in Life!Asks(Told, gate.active, gate.future) BY <2>1 DEF Life!Asks
  <2> QED BY <1>2, <2>1, <2>2, <2>3
<1> QED BY <1>1, <1>3, <1>4 DEF Next

\* A step of the executor, or of anything beside it, is a move its watchers expect.
LEMMA StepMoves ==
  ASSUME TypeOK, TypeOK', Handled, Handled', [Next]_vars
  PROVE  Life!Moved(Told, Told')
<1>1. /\ Told.state = state /\ Told.active = gate.active /\ Told.future = gate.future
      /\ Told.settled = settled
      /\ Told'.state = state' /\ Told'.active = gate'.active /\ Told'.future = gate'.future
      /\ Told'.settled = settled'
  BY DEF Told
<1>2. state' \in Life!Successors(state) BY StatesFollow
<1>3. /\ \E known \in Life!Answers(Told) :
           gate'.active = known[1] /\ gate'.future \in Life!Asks(Told, known[1], known[2])
      /\ state = "PAUSED" /\ state' = "RUNNING" => gate'.future = "none"
  BY CameraFollows
<1>4. state' = "PAUSED" => gate'.future = "none"
  BY DEF Handled, Bare, Shutter, Quiet
<1>5. state' \in {"ACQUIRED", "CANCELED"} \/ (state = "READY" /\ state' = "RUNNING")
        => gate'.active = "off" /\ gate'.future = "none"
  BY StartsClosed DEF Handled, Bare, Shutter, Quiet
<1>6. settled' => state' \in Life!Over BY DEF Handled, Filed, Terminal, Life!Over
<1> HIDE DEF Told
<1> QED BY <1>1, <1>2, <1>3, <1>4, <1>5, <1>6 DEF Life!Moved, Life!MadeQuiet, Life!MadeClosed

LEMMA BareInvariant == Spec => []Bare
<1>1. Init => Bare
  <2> SUFFICES ASSUME Init, ~CaptureEnabled PROVE gate.active = "off" /\ gate.future = "none"
    BY DEF Bare
  <2> QED BY DEF Init
<1>2. TypeOK /\ Bare /\ [Next]_vars => Bare'
  <2> SUFFICES ASSUME TypeOK, gate.active = "off", gate.future = "none", ~CaptureEnabled, [Next]_vars
               PROVE  gate'.active = "off" /\ gate'.future = "none"
    BY DEF Bare
  <2> QED BY CameraFollows
<1> QED BY <1>1, <1>2, TypeCorrect, PTL DEF Spec

\* The executor is a mission as MissionLife promises one: every step maps to one of
\* its moves, or leaves the status fields as they are.
THEOREM ExecutorImplementsLife == Spec => ImplementsLife
<1>1. Init => Life!Init
  <2> SUFFICES ASSUME Init PROVE Life!Init OBVIOUS
  <2>1. /\ state = "READY" /\ gate.active \in {"unknown", "off"} /\ gate.future = "none"
        /\ settled = FALSE
    BY DEF Init
  <2> QED BY <2>1 DEF Life!Init, Life!Lives, Life!Over
<1>2. TypeOK /\ TypeOK' /\ Handled /\ Handled' /\ [Next]_vars => Life!Moved(Told, Told')
  BY StepMoves
<1>3. ASSUME CaptureEnabled PROVE Spec => ImplementsLife
  <2>1. Filed /\ Shutter => Handled BY <1>3 DEF Handled, Bare
  <2> QED BY <1>1, <1>2, <2>1, TypeCorrect, FiledInvariant, ShutterInvariant, <1>3, PTL
          DEF Spec, ImplementsLife, Life!Spec, Told
<1>4. ASSUME ~CaptureEnabled PROVE Spec => ImplementsLife
  <2>1. Filed /\ Bare => Handled BY <1>4 DEF Handled
  <2> QED BY <1>1, <1>2, <2>1, TypeCorrect, FiledInvariant, BareInvariant, PTL
          DEF Spec, ImplementsLife, Life!Spec, Told
<1> QED BY <1>3, <1>4
=============================================================================

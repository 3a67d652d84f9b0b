------------------------ MODULE ArchiveWriterProofs ------------------------
(***************************************************************************)
(* Theorems about the archive writer, for any number of records and with   *)
(* or without a disk that fails.                                           *)
(***************************************************************************)
EXTENDS ArchiveWriter, TLAPS

\* What has been flushed, or is about to be declared so, is all that was taken.
Flushed == written = taken /\ (filed = written \/ errors)

\* A clean flag tells the truth between batches, the flag is never clean while
\* a batch is in hand, and an ended writer has forced its last flush.
Honest ==
  /\ ~dirty => Flushed
  /\ pc = "flushed" => Flushed
  /\ pc # "writing" => written = taken
  /\ closing => force
  /\ pc = "leaving" => closing /\ Flushed
  /\ pc = "ended" => Flushed /\ handed = taken /\ outcome # "none"
  /\ closing => closed
  /\ closed <=> outcome # "none"
  /\ outcome = "drained" => Flushed /\ handed = taken /\ pc = "ended"

Inductive == TypeOK /\ Honest

LEMMA OwnerStep == ASSUME Inductive, Owner PROVE Inductive'
<1> USE RecordsAssumption, DiskAssumption DEF Inductive, TypeOK, Honest, Flushed, queueVars, writerVars, Outcomes, Guarded
<1>1. CASE Submit BY <1>1 DEF Submit
<1>2. CASE Sync BY <1>2 DEF Sync
<1>3. CASE Close BY <1>3 DEF Close
<1>4. CASE Joined BY <1>4 DEF Joined
<1>5. CASE JoinTimeout BY <1>5 DEF JoinTimeout
<1> QED BY <1>1, <1>2, <1>3, <1>4, <1>5 DEF Owner

LEMMA WriterStep == ASSUME Inductive, Writer PROVE Inductive'
<1> USE RecordsAssumption, DiskAssumption DEF Inductive, TypeOK, Honest, Flushed, queueVars, AfterFlush, Outcomes, Guarded
<1>1. CASE Take
  <2>1. TypeOK'
    <3>1. dirty' \in BOOLEAN /\ closing' \in BOOLEAN /\ force' \in BOOLEAN /\ syncing' \in BOOLEAN
      BY <1>1, Zenon DEF Take
    <3>2. UNCHANGED <<handed, closed, written, filed, errors, outcome>> /\ taken' = handed /\ pc' = "writing"
      BY <1>1 DEF Take
    <3>3. written' \in 0..taken' BY <3>2
    <3> QED BY <3>1, <3>2, <3>3
  <2>2. CASE handed = taken
    <3>1. ~(handed > taken) BY <2>2
    <3>2. dirty' = dirty BY <1>1, <3>1, Zenon DEF Take
    <3> QED BY <1>1, <2>1, <2>2, <3>2 DEF Take
  <2>3. CASE handed > taken
    <3>1. dirty' = TRUE BY <1>1, <2>3, Zenon DEF Take
    <3> QED BY <1>1, <2>1, <2>3, <3>1 DEF Take
  <2> QED BY <2>2, <2>3
<1>2. CASE Write BY <1>2 DEF Write
<1>3. CASE SkipFlush BY <1>3 DEF SkipFlush
<1>4. CASE FlushHandles BY <1>4 DEF FlushHandles
<1>5. CASE ClearDirty BY <1>5 DEF ClearDirty
<1>6. CASE Leave BY <1>6 DEF Leave
<1> QED BY <1>1, <1>2, <1>3, <1>4, <1>5, <1>6 DEF Writer

\* The writer's state stays within its types and its flag is honest.
THEOREM WriterInvariant == Spec => []Inductive
<1>1. Init => Inductive
  <2>1. Init => TypeOK
    <3> SUFFICES ASSUME Init PROVE TypeOK OBVIOUS
    <3>1. handed = 0 /\ taken = 0 /\ written = 0 /\ filed = 0 BY DEF Init
    <3>2. handed \in 0..MaxRecords /\ taken \in 0..handed /\ written \in 0..taken /\ filed \in 0..written
      BY <3>1, RecordsAssumption
    <3> QED BY <3>2 DEF Init, TypeOK
  <2>2. Init => ~closing /\ ~closed /\ pc = "waiting" /\ outcome = "none" /\ written = taken /\ filed = written
    BY Zenon DEF Init
  <2>3. Init => Honest
    <3> SUFFICES ASSUME Init PROVE Honest OBVIOUS
    <3>1. Flushed /\ pc \notin {"writing", "leaving", "ended", "flushed"} /\ outcome # "drained"
      BY <2>2 DEF Flushed
    <3>2. closed <=> outcome # "none" BY <2>2, Zenon
    <3> QED BY <2>2, <3>1, <3>2, Zenon DEF Honest
  <2> QED BY <2>1, <2>3 DEF Inductive
<1>2. Inductive /\ [Next]_vars => Inductive'
  <2>1. Inductive /\ UNCHANGED vars => Inductive'
    BY DEF Inductive, TypeOK, Honest, Flushed, vars, queueVars
  <2> QED BY <2>1, OwnerStep, WriterStep DEF Next
<1> QED BY <1>1, <1>2, PTL DEF Spec

\* Everything `idle` claims is on the file, unless an error is counted: the two
\* reads on which the executor declares a mission acquired are enough.
THEOREM IdleIsFiled == Spec => []IdleMeansFiled
<1>1. Inductive => IdleMeansFiled
  BY DEF Inductive, Honest, Flushed, IdleMeansFiled, Idle
<1> QED BY <1>1, WriterInvariant, PTL

\* A close that answers True has lost nothing it does not report.
THEOREM DrainedIsFiled == Spec => []DrainedMeansFiled
<1>1. Inductive => DrainedMeansFiled
  BY DEF Inductive, Honest, Flushed, DrainedMeansFiled
<1> QED BY <1>1, WriterInvariant, PTL

-----------------------------------------------------------------------------
(* Refinement: each step of the two threads is a step of the promise, or     *)
(* changes nothing the promise speaks of                                     *)

LEMMA InitPromised == Init => Promise!Init
BY DEF Init, Promise!Init, Idle

LEMMA StepPromised ==
  ASSUME Inductive, Inductive', [Next]_vars PROVE [Promise!Next]_(Promise!vars)
<1> USE DEF Inductive, TypeOK, Promise!vars, Promise!Next
<1>1. CASE UNCHANGED vars BY <1>1 DEF vars, queueVars, Idle
<1>2. CASE Submit
  <2>1. Idle' = FALSE BY <1>2 DEF Submit, Idle, writerVars
  <2> QED BY <1>2, <2>1 DEF Submit, writerVars, Promise!HandOver
<1>3. CASE Sync \/ Close \/ JoinTimeout
  BY <1>3 DEF Sync, Close, JoinTimeout, writerVars, queueVars, Idle
<1>4. CASE Take
  <2>1. Idle' = Idle
    <3>1. CASE handed = taken
      <4>1. ~(handed > taken) BY <3>1
      <4>2. dirty' = dirty BY <1>4, <4>1, Zenon DEF Take
      <4> QED BY <1>4, <3>1, <4>2 DEF Take, Idle
    <3>2. CASE handed > taken
      <4>1. dirty' = TRUE BY <1>4, <3>2, Zenon DEF Take
      <4> QED BY <3>2, <4>1 DEF Idle
    <3> QED BY <3>1, <3>2
  <2> QED BY <1>4, <2>1 DEF Take
<1>5. CASE Write \/ FlushHandles \/ Joined
  <2>1. Idle' = Idle BY <1>5 DEF Write, FlushHandles, Joined, Idle, queueVars
  <2>2. filed' \in filed..handed /\ handed' = handed
    BY <1>5, RecordsAssumption DEF Write, FlushHandles, Joined, queueVars
  <2>3. errors' \in {errors, TRUE} BY <1>5 DEF Write, FlushHandles, Joined, Guarded
  <2> QED BY <2>1, <2>2, <2>3 DEF Promise!File
<1>6. CASE SkipFlush \/ Leave BY <1>6 DEF SkipFlush, Leave, Idle, queueVars
<1>7. CASE ClearDirty
  <2>1. UNCHANGED <<handed, filed, errors>> /\ taken' = taken /\ dirty' = FALSE
    BY <1>7 DEF ClearDirty, queueVars
  <2>2. CASE handed = taken
    <3>1. Idle' = TRUE BY <2>1, <2>2 DEF Idle
    <3>2. filed = handed \/ errors BY <1>7, <2>2 DEF ClearDirty, Honest, Flushed
    <3> QED BY <2>1, <3>1, <3>2 DEF Promise!ClaimIdle
  <2>3. CASE handed # taken
    <3>1. Idle' = Idle BY <2>1, <2>3 DEF Idle
    <3> QED BY <2>1, <3>1
  <2> QED BY <2>2, <2>3
<1> QED BY <1>1, <1>2, <1>3, <1>4, <1>5, <1>6, <1>7 DEF Next, Owner, Writer

\* The writer implements the promise made to the control loop.
THEOREM PromiseKept == Spec => KeepsPromise
<1>1. Init => Promise!Init BY InitPromised
<1>2. Inductive /\ Inductive' /\ [Next]_vars => [Promise!Next]_(Promise!vars) BY StepPromised
<1> QED BY <1>1, <1>2, WriterInvariant, PTL DEF Spec, KeepsPromise, Promise!Spec
=============================================================================

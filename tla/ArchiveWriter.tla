--------------------------- MODULE ArchiveWriter ---------------------------
(***************************************************************************)
(* ArchiveWriter (agv_mission/offload.py; agv_localization has a copy):    *)
(* the thread that owns a node's evidence files.  The control thread hands *)
(* records over, asks for a sync, reads `idle` and closes; the writer      *)
(* thread takes everything pending at once, writes it and flushes.  Each   *)
(* `with self.signal` block, each write, the flush of the handles and the  *)
(* clearing of `dirty` is a step.                                          *)
(*                                                                         *)
(* Records are numbered in the order they are handed over: the deque is    *)
(* handed - taken records long, the batch in hand taken - written.         *)
(***************************************************************************)
EXTENDS Naturals

CONSTANTS
  MaxRecords,   \* bound: records handed over in a run
  DiskMayFail   \* writes and flushes may raise

ASSUME RecordsAssumption == MaxRecords \in Nat
ASSUME DiskAssumption == DiskMayFail \in BOOLEAN

VARIABLES
  handed, taken,  \* submitted; removed from `pending`
  written,        \* given to their handles
  filed,          \* flushed to the file
  errors,         \* guard() has caught an exception
  dirty, syncing, closed,
  pc,             \* where the writer thread is
  closing, force, \* its locals, read with the batch
  outcome         \* close(): not called, joining, True or False

queueVars == <<handed, taken, syncing, closed>>
vars == <<queueVars, written, filed, errors, dirty, pc, closing, force, outcome>>

TypeOK ==
  /\ handed \in 0..MaxRecords /\ taken \in 0..handed
  /\ written \in 0..taken /\ filed \in 0..written
  /\ errors \in BOOLEAN
  /\ dirty \in BOOLEAN /\ syncing \in BOOLEAN /\ closed \in BOOLEAN
  /\ pc \in {"waiting", "writing", "flushed", "leaving", "ended"}
  /\ closing \in BOOLEAN /\ force \in BOOLEAN
  /\ outcome \in {"none", "joining", "drained", "abandoned"}

Init ==
  /\ handed = 0 /\ taken = 0 /\ written = 0 /\ filed = 0
  /\ errors = FALSE
  /\ dirty = FALSE /\ syncing = FALSE /\ closed = FALSE
  /\ pc = "waiting" /\ closing = FALSE /\ force = FALSE
  /\ outcome = "none"

\* guard(): an exception is counted, never raised.
Outcomes == IF DiskMayFail THEN BOOLEAN ELSE {TRUE}
Guarded(ok) == errors' = (errors \/ ~ok)

-----------------------------------------------------------------------------
(* The owner's thread *)

writerVars == <<taken, written, filed, errors, dirty, pc, closing, force>>

Submit ==
  /\ outcome = "none" /\ handed < MaxRecords
  /\ handed' = handed + 1
  /\ UNCHANGED <<writerVars, syncing, closed, outcome>>

Sync ==
  /\ outcome = "none"
  /\ syncing' = TRUE
  /\ UNCHANGED <<writerVars, handed, closed, outcome>>

\* The property `idle`.
Idle == handed = taken /\ ~dirty

Close ==
  /\ outcome = "none"
  /\ closed' = TRUE /\ outcome' = "joining"
  /\ UNCHANGED <<writerVars, handed, syncing>>

\* The thread has ended: the files are closed, which flushes them once more.
Joined ==
  /\ outcome = "joining" /\ pc = "ended"
  /\ outcome' = "drained"
  /\ \E ok \in Outcomes : Guarded(ok) /\ filed' = IF ok THEN written ELSE filed
  /\ UNCHANGED <<queueVars, written, dirty, pc, closing, force>>

JoinTimeoutDrained ==
  /\ outcome = "joining" /\ pc # "ended"
  /\ outcome' = "drained"
  /\ UNCHANGED <<writerVars, queueVars>>

JoinTimeout ==
  /\ outcome = "joining" /\ pc # "ended"
  /\ outcome' = "abandoned"
  /\ UNCHANGED <<writerVars, handed, syncing, closed>>

-----------------------------------------------------------------------------
(* run() *)

Wanted == handed > taken \/ closed \/ syncing

TakeUnmarked ==
  /\ pc = "waiting"
  /\ taken' = handed
  /\ closing' = closed /\ force' = (closed \/ syncing) /\ syncing' = FALSE
  /\ pc' = "writing"
  /\ UNCHANGED <<handed, closed, written, filed, errors, dirty, outcome>>

TakeUnforced ==
  /\ pc = "waiting"
  /\ taken' = handed
  /\ closing' = closed /\ force' = closed /\ syncing' = FALSE
  /\ dirty' = (dirty \/ handed > taken)
  /\ pc' = "writing"
  /\ UNCHANGED <<handed, closed, written, filed, errors, outcome>>

\* Everything pending is taken, and marked, under one lock.  A writer with
\* nothing to do waits for a notification, at most an interval, before it does.
Take ==
  /\ pc = "waiting"
  /\ taken' = handed
  /\ closing' = closed /\ force' = (closed \/ syncing) /\ syncing' = FALSE
  /\ dirty' = (dirty \/ handed > taken)
  /\ pc' = "writing"
  /\ UNCHANGED <<handed, closed, written, filed, errors, outcome>>

Write ==
  /\ pc = "writing" /\ written < taken
  /\ written' = written + 1
  /\ \E ok \in Outcomes : Guarded(ok)
  /\ UNCHANGED <<queueVars, filed, dirty, pc, closing, force, outcome>>

AfterFlush == pc' = IF closing THEN "leaving" ELSE "waiting"

SkipFlushClean ==
  /\ pc = "writing" /\ written = taken /\ ~force
  /\ AfterFlush
  /\ dirty' = FALSE
  /\ UNCHANGED <<queueVars, written, filed, errors, closing, force, outcome>>

\* Not asked for, and the flush interval has not passed.
SkipFlush ==
  /\ pc = "writing" /\ written = taken /\ ~force
  /\ AfterFlush
  /\ UNCHANGED <<queueVars, written, filed, errors, dirty, closing, force, outcome>>

\* Asked for, or the interval has passed: flush every handle.
FlushHandles ==
  /\ pc = "writing" /\ written = taken
  /\ \E ok \in Outcomes : Guarded(ok) /\ filed' = IF ok THEN written ELSE filed
  /\ pc' = "flushed"
  /\ UNCHANGED <<queueVars, written, dirty, closing, force, outcome>>

\* ... and only then say so.
ClearDirty ==
  /\ pc = "flushed"
  /\ dirty' = FALSE
  /\ AfterFlush
  /\ UNCHANGED <<queueVars, written, filed, errors, closing, force, outcome>>

LeaveClean ==
  /\ pc = "leaving"
  /\ pc' = IF handed = taken /\ ~errors THEN "ended" ELSE "waiting"
  /\ UNCHANGED <<queueVars, written, filed, errors, dirty, closing, force, outcome>>

\* A closing writer ends with an empty queue.
Leave ==
  /\ pc = "leaving"
  /\ pc' = IF handed = taken THEN "ended" ELSE "waiting"
  /\ UNCHANGED <<queueVars, written, filed, errors, dirty, closing, force, outcome>>

Owner == Submit \/ Sync \/ Close \/ Joined \/ JoinTimeout
Writer == Take \/ Write \/ SkipFlush \/ FlushHandles \/ ClearDirty \/ Leave

Next == Owner \/ Writer

Spec == Init /\ [][Next]_vars

-----------------------------------------------------------------------------
(* Safety *)

\* "Everything handed over has been written and flushed to its file": a reader
\* of `idle` who finds no errors has the whole archive, at any moment of the
\* writer's loop.  The executor calls a mission a success on these two reads.
IdleMeansFiled == Idle /\ ~errors => filed = handed

\* close() answers True only for an archive that is complete or known to have
\* failed: "an unwritten record is a lost record".
DrainedMeansFiled == outcome = "drained" /\ ~errors => filed = handed

\* The writer keeps the promise made to the control loop.
Promise == INSTANCE ArchivePromise WITH failed <- errors, idle <- Idle
KeepsPromise == Promise!Spec

-----------------------------------------------------------------------------
(* Liveness.  The writer thread is scheduled, every write and flush returns, *)
(* and a writer with something to do does not wait for the interval.         *)

PromptSpec ==
  /\ Spec
  /\ WF_vars(Wanted /\ Take) /\ WF_vars(Write) /\ WF_vars(ClearDirty) /\ WF_vars(Leave)
  /\ WF_vars(SkipFlush \/ FlushHandles)

\* sync() gets what was handed over before it onto the file without waiting for
\* the interval, and without a caller that has to ask again.
SyncIsPrompt ==
  \A n \in 1..MaxRecords :
    syncing /\ handed = n ~> filed >= n \/ errors \/ outcome = "abandoned"

\* A closed writer ends, also after writes that failed.
CloseEnds == closed ~> pc = "ended"
=============================================================================

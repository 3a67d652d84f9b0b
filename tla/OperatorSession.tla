-------------------------- MODULE OperatorSession --------------------------
(***************************************************************************)
(* An operator's session: the task broker (agv_mission/operator_node.py)   *)
(* with the execution process it owns (execution_process.py), between the  *)
(* operator's requests, the executor at the other end of a status topic    *)
(* and four services, and the camera both of them may close.               *)
(*                                                                         *)
(* The executor is MissionLife, which MissionExecution implements.  The    *)
(* broker is one single-threaded ROS process: a request, a status message  *)
(* and a 100 ms tick are each one action; while it waits for an executor   *)
(* to exit it does nothing else.  Clocks are left out: a deadline that is  *)
(* running may be found expired.                                           *)
(***************************************************************************)
EXTENDS Naturals, Sequences

CONSTANTS
  Drafts,     \* the requests an operator may ask for
  NoDraft,
  Commands,   \* the services the operator calls
  MaxWorkers  \* bound: executors started in one session

ASSUME DraftsAssumption == Drafts # {} /\ NoDraft \notin Drafts
Controls == {"start", "pause", "resume", "cancel"}

ASSUME CommandsAssumption == Commands \subseteq Controls
ASSUME WorkersAssumption == MaxWorkers \in Nat

VARIABLES
  life,      \* the executor as its status messages show it
  request,   \* what the panel's fields edit
  preview,   \* the request whose plan is shown, or NoDraft
  coverage,  \* a coverage report is loaded
  child,     \* the broker's ExecutionProcess object, or NoChild
  pending,   \* the service call it waits for
  job,       \* an audit is running
  waiting,   \* release() waits for the executor to exit before this request continues
  process,   \* the executor's process: "none", "up", "stopping" (SIGINT), "dead"
  calls,     \* service calls it has not served, those given up on included
  faulted,   \* an external_fault message is on its way to it
  workers,   \* executors started
  camera,    \* calls the camera has not served, in order
  reply,     \* its answer to the executor
  sensor     \* the camera exposes lines

Worker == INSTANCE MissionLife

brokerVars == <<request, preview, coverage, child, pending, job, waiting>>
workerVars == <<life, process, calls, faulted, workers>>
cameraVars == <<camera, reply, sensor>>
vars == <<brokerVars, workerVars, cameraVars>>

Edits == {"load", "preview", "prepare", "rescan"}
NoCall == [action |-> "none", answered |-> FALSE]
NoChild == [plan |-> NoDraft]
Idle == [action |-> "none", draft |-> NoDraft]
Starting == [state |-> "STARTING", active |-> "unknown", future |-> "none", settled |-> FALSE]

\* `own` is the broker's view of the camera once the executor is lost: its close
\* call and what came of it.
Children == [plan : Drafts, snapshot : Worker!Lives \cup {Starting}, failure : BOOLEAN,
             own : {"none", "asked", "ok", "fail", "closed", "failed"}]

TypeOK ==
  /\ life \in Worker!Lives
  /\ request \in Drafts /\ preview \in Drafts \cup {NoDraft} /\ coverage \in BOOLEAN
  /\ child \in Children \cup {NoChild}
  /\ pending \in [action : Controls, answered : BOOLEAN] \cup {NoCall}
  /\ job \in BOOLEAN
  /\ waiting \in [action : Edits, draft : Drafts] \cup {Idle}
  /\ process \in {"none", "up", "stopping", "dead"}
  /\ calls \subseteq Controls /\ faulted \in BOOLEAN
  /\ workers \in 0..MaxWorkers
  /\ camera \in Seq([value : {"on", "off"}, from : {"worker", "lost", "broker"}])
  /\ reply \in {"none", "ok", "fail"} /\ sensor \in BOOLEAN

-----------------------------------------------------------------------------
(* What the broker believes *)

\* ExecutionProcess.state: what it last heard, unless the process was lost.
ChildState(c) == IF c.failure THEN "FAULT" ELSE c.snapshot.state

\* capture.active is False and no call of either side is in flight.
CaptureClosed ==
  IF child.failure THEN child.own = "closed"
  ELSE child.snapshot.active = "off" /\ child.snapshot.future = "none"

Editable(stopped) ==
  child # NoChild => ChildState(child) \in Worker!Over \cup {"READY"} /\ stopped /\ CaptureClosed

\* A lost executor cannot settle its archive, and writes nothing more.
Auditable ==
  /\ child # NoChild /\ ChildState(child) \in Worker!Over
  /\ child.failure \/ child.snapshot.settled

\* receive: a status message of another execution is not this one's.
Received(c, status, ours) == IF c # NoChild /\ ours THEN [c EXCEPT !.snapshot = status] ELSE c

-----------------------------------------------------------------------------
(* ExecutionProcess.poll: notice an exit, then close the camera in its place, *)
(* once, within 10 s.                                                         *)

NoticedClosed ==
  IF process = "dead" /\ ~child.failure THEN [child EXCEPT !.failure = TRUE, !.own = "closed"] ELSE child
Noticed ==
  IF process = "dead" /\ ~child.failure THEN [child EXCEPT !.failure = TRUE, !.own = "none"] ELSE child

CloseProgressBlind(own) == IF own = "ok" THEN {"closed"} ELSE {"none", "asked"}
CloseProgress(own) ==
  CASE own = "none" -> {"none", "asked", "failed"}
    [] own = "asked" -> {"asked", "failed"}
    [] own \in {"ok", "closed"} -> {"closed"}
    [] OTHER -> {"failed"}

Polled ==
  IF child = NoChild THEN {NoChild}
  ELSE IF ~Noticed.failure THEN {child}
       ELSE {[Noticed EXCEPT !.own = o] : o \in CloseProgress(Noticed.own)}

\* The tick: poll the process, fault a running mission that is not alone on
\* /cmd_vel, give up on a call after 3 s, or take its answer, or the audit's.
GivesUp(expired) == expired /\ pending # NoCall /\ ~pending.answered
FaultsCompeted(c, competing, expired) ==
  c # NoChild /\ process \in {"up", "stopping"} /\ competing /\ ChildState(c) = "RUNNING"
Faults(c, competing, expired) ==
  /\ c # NoChild /\ process \in {"up", "stopping"}
  /\ GivesUp(expired) \/ (competing /\ ChildState(c) = "RUNNING")

Tick(c, competing, expired, audited) ==
  /\ waiting = Idle
  /\ child' = c
  /\ camera' = IF c # NoChild /\ c.own = "asked" /\ child.own # "asked"
               THEN Append(camera, [value |-> "off", from |-> "broker"]) ELSE camera
  /\ pending' = IF GivesUp(expired) \/ pending.answered THEN NoCall ELSE pending
  /\ faulted' = (faulted \/ Faults(c, competing, expired))
  /\ job' = (job /\ audited = "no")
  /\ coverage' = (coverage \/ (job /\ audited = "report"))
  /\ UNCHANGED <<request, preview, waiting, life, process, calls, workers, reply, sensor>>

-----------------------------------------------------------------------------
(* Requests.  A request whose id was seen before, or that arrives while a call *)
(* or an audit is under way, changes nothing.                                  *)

Free == waiting = Idle /\ pending = NoCall /\ ~job

Control(a) ==
  /\ Free /\ child # NoChild /\ a \notin calls
  /\ pending' = [action |-> a, answered |-> FALSE]
  /\ calls' = IF process \in {"up", "stopping"} THEN calls \cup {a} ELSE calls
  /\ UNCHANGED <<request, preview, coverage, child, job, waiting, life, process, faulted,
                 workers, cameraVars>>

\* What is left of a request once no executor is owned.
Shows(a, d) ==
  /\ request' = IF a = "prepare" THEN request ELSE d
  /\ preview' = IF a = "load" THEN NoDraft ELSE d
  /\ coverage' = (coverage /\ a # "preview")
  /\ child' = NoChild /\ process' = "none"
  /\ UNCHANGED <<life, workers>>

StartsWorker(d) ==
  /\ workers < MaxWorkers
  /\ workers' = workers + 1
  /\ child' = [plan |-> d, snapshot |-> Starting, failure |-> FALSE, own |-> "none"]
  /\ process' = "up"
  /\ life' = [state |-> "READY", active |-> "unknown", future |-> "none", settled |-> FALSE]
  /\ coverage' = FALSE
  /\ UNCHANGED <<request, preview>>

\* prepare may still find another publisher or no navigation archive.
Finish(a, d) ==
  /\ Shows(a, d) \/ (a = "prepare" /\ StartsWorker(d))
  /\ waiting' = Idle
  /\ UNCHANGED <<pending, job, calls, faulted, cameraVars>>

ShownAny(d) == preview # NoDraft
Shown(d) == preview = d
Allowed(a, d, stopped) ==
  /\ Free /\ Editable(stopped)
  /\ a = "prepare" => Shown(d) /\ stopped
  /\ a = "rescan" => coverage

Edit(a, d) ==
  /\ \E stopped \in BOOLEAN : Allowed(a, d, stopped)
  /\ process \notin {"up", "stopping"}
  /\ Finish(a, d)

\* release() interrupts the executor, which cancels its mission, and blocks.
Interrupt(a, d) ==
  /\ \E stopped \in BOOLEAN : Allowed(a, d, stopped)
  /\ process = "up"
  /\ process' = "stopping"
  /\ life' = IF life.state \in Worker!Over THEN life ELSE [life EXCEPT !.state = "CANCELING"]
  /\ waiting' = [action |-> a, draft |-> d]
  /\ UNCHANGED <<request, preview, coverage, child, pending, job, calls, faulted, workers, cameraVars>>

Released == waiting # Idle /\ process = "dead" /\ Finish(waiting.action, waiting.draft)

\* Mutant: the gate on edits does not cover the audit.
AuditUngated ==
  /\ Free /\ Auditable
  /\ job' = TRUE
  /\ UNCHANGED <<request, preview, coverage, child, pending, waiting, workerVars, cameraVars>>

\* An audit passes the gate on edits as well, so it also waits for the camera.
Audit ==
  /\ Free /\ Auditable /\ \E stopped \in BOOLEAN : Editable(stopped)
  /\ job' = TRUE
  /\ UNCHANGED <<request, preview, coverage, child, pending, waiting, workerVars, cameraVars>>

\* A report is read from a file; merging another changes only its contents.
LoadCoverage ==
  /\ Free /\ \E stopped \in BOOLEAN : Editable(stopped)
  /\ coverage' = TRUE
  /\ UNCHANGED <<request, preview, child, pending, job, waiting, workerVars, cameraVars>>

\* /mission/status, whenever it arrives: from this executor, or from one of an
\* earlier preparation or of an earlier broker, which runs in a session of its own.
Others == [state : Worker!Over, active : {"off"}, future : {"none"}, settled : {TRUE}]
StatusArrives ==
  /\ waiting = Idle
  /\ \/ process \in {"up", "stopping"} /\ child' = Received(child, life, TRUE)
     \/ \E other \in Others : child' = Received(child, other, FALSE)
  /\ UNCHANGED <<request, preview, coverage, pending, job, waiting, workerVars, cameraVars>>

-----------------------------------------------------------------------------
(* The executor *)

Commanded(a) ==
  CASE a = "start" /\ life.state = "READY" /\ life.active = "off" /\ life.future = "none" -> {"RUNNING", "READY"}
    [] a = "pause" /\ life.state = "RUNNING" -> {"PAUSING"}
    [] a = "resume" /\ life.state = "PAUSED" /\ life.future = "none" -> {"RUNNING", "PAUSED"}
    [] a = "cancel" /\ life.state \notin Worker!Over -> {"CANCELING"}
    [] OTHER -> {life.state}

Serve(a) ==
  /\ process \in {"up", "stopping"} /\ a \in calls
  /\ calls' = calls \ {a}
  /\ \E s \in Commanded(a) : life' = [life EXCEPT !.state = s]
  /\ pending' = IF pending.action = a THEN [pending EXCEPT !.answered = TRUE] ELSE pending
  /\ UNCHANGED <<request, preview, coverage, child, job, waiting, process, faulted, workers, cameraVars>>

\* The changes of state only a service call makes.
ByCall(s, t) == \/ s # t /\ t \in {"PAUSING", "CANCELING"}
                \/ s \in {"READY", "PAUSED"} /\ t = "RUNNING"

\* Everything else a mission does by itself.
Work ==
  /\ process \in {"up", "stopping"}
  /\ life' \in Worker!Moves(life)
  /\ ~ByCall(life.state, life'.state)
  /\ life'.active = IF reply = "ok" THEN life.future ELSE life.active
  /\ LET open == life.future # "none" /\ reply = "none"
     IN  /\ open => life'.future = life.future
         /\ camera' = IF life'.future # "none" /\ ~open
                      THEN Append(camera, [value |-> life'.future, from |-> "worker"]) ELSE camera
  /\ reply' = "none"
  /\ UNCHANGED <<brokerVars, process, calls, faulted, workers, sensor>>

FaultArrives ==
  /\ faulted /\ faulted' = FALSE
  /\ life' = IF life.state \in {"ACQUIRED", "COMPLETED"} THEN life ELSE [life EXCEPT !.state = "FAULT"]
  /\ UNCHANGED <<brokerVars, process, calls, workers, cameraVars>>

Dies ==
  /\ process' = "dead"
  /\ calls' = {} /\ faulted' = FALSE /\ reply' = "none"
  /\ camera' = [i \in DOMAIN camera |->
                  IF camera[i].from = "worker" THEN [camera[i] EXCEPT !.from = "lost"] ELSE camera[i]]
  /\ UNCHANGED <<brokerVars, life, workers, sensor>>

\* Interrupted, it closes the camera and its archive and exits; after 12 s it is
\* terminated, after 15 s killed, wherever it is.
Exit == process = "stopping" /\ Dies
Crash == process = "up" /\ Dies

CameraServes ==
  /\ camera # <<>>
  /\ \E answer \in {"ok", "fail"} :
       LET call == Head(camera)
       IN  /\ sensor' \in IF call.value = "off" THEN {FALSE}
                          ELSE IF answer = "ok" THEN {TRUE} ELSE {sensor, FALSE}
           /\ reply' = IF call.from = "worker" THEN answer ELSE reply
           /\ child' = IF call.from = "broker" /\ child # NoChild /\ child.own = "asked"
                      THEN [child EXCEPT !.own = answer] ELSE child
  /\ camera' = Tail(camera)
  /\ UNCHANGED <<request, preview, coverage, pending, job, waiting, workerVars>>

-----------------------------------------------------------------------------
Init ==
  /\ request \in Drafts /\ preview = NoDraft /\ coverage = FALSE
  /\ child = NoChild /\ pending = NoCall /\ job = FALSE /\ waiting = Idle
  /\ life = [state |-> "READY", active |-> "unknown", future |-> "none", settled |-> FALSE]
  /\ process = "none" /\ calls = {} /\ faulted = FALSE /\ workers = 0
  /\ camera = <<>> /\ reply = "none" /\ sensor \in BOOLEAN

BrokerTick == \E c \in Polled, competing, expired \in BOOLEAN, audited \in {"no", "report", "error"} :
                Tick(c, competing, expired, audited)
Requests == (\E a \in Commands : Control(a)) \/ Audit \/ LoadCoverage
            \/ \E a \in Edits, d \in Drafts : Edit(a, d) \/ Interrupt(a, d)
Executor == (\E a \in Commands : Serve(a)) \/ Work \/ FaultArrives \/ Exit \/ Crash

Next == BrokerTick \/ Requests \/ Released \/ StatusArrives \/ Executor \/ CameraServes

Spec == Init /\ [][Next]_vars

-----------------------------------------------------------------------------
(* Safety *)

\* What runs is what was shown: the executor always belongs to the request whose
\* plan is on the display, whatever was edited, loaded or previewed since.
PreparedIsPreviewed == child # NoChild => child.plan = preview

\* A camera believed to be closed is closed, and nothing on its way will open it.
\* An executor believes it by its own calls.  The broker believes it of a mission
\* that is over, by the last message it got, however old, or of a lost executor by
\* its own close, although that may have been killed with an open in flight.
BeliefIsDark ==
  \/ process \in {"up", "stopping"} /\ life.active = "off" /\ life.future = "none"
  \/ child # NoChild /\ CaptureClosed /\ ChildState(child) \in Worker!Over
  => ~sensor /\ \A i \in DOMAIN camera : camera[i].value = "off"

\* An audit reads the files of a mission that is over and has no camera call left
\* whose answer would change its intervals, or of an executor that is gone: never
\* because of an older executor's last words, nor while a faulted one still closes.
AuditedIsOver ==
  job => process = "dead" \/ (life.state \in Worker!Over /\ life.active = "off" /\ life.future = "none")

-----------------------------------------------------------------------------
(* Claims of the repository that the code does not keep *)

\* receive: a running mission cannot be replaced, only cancelled and awaited.
RunningIsNotReplaced ==
  [][process = "up" /\ process' = "stopping"
       => life.state \in Worker!Over \cup {"READY"}]_vars

-----------------------------------------------------------------------------
(* Liveness *)

LiveSpec ==
  /\ Spec
  /\ WF_vars(BrokerTick)
  /\ SF_vars(BrokerTick /\ pending # NoCall /\ pending' = NoCall)
  /\ SF_vars(BrokerTick /\ child' # child)
  /\ WF_vars(FaultArrives)
  /\ WF_vars(Exit)
  /\ WF_vars(Released)

\* A command is answered, or the mission it was meant for ends.
CommandResolves ==
  pending # NoCall /\ ~pending.answered ~>
    pending.answered \/ life.state \in Worker!Over \/ process \notin {"up", "stopping"}

\* The loss of an executor ends with the camera known to be closed or known not to
\* be, unless the operator has replaced it before.
LossIsSettled ==
  child # NoChild /\ process = "dead" ~> child = NoChild \/ child.own \in {"closed", "failed"}
=============================================================================

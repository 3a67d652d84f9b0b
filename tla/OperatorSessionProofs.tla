------------------------- MODULE OperatorSessionProofs -------------------------
(***************************************************************************)
(* Proofs about OperatorSession, for any requests, any commands and any    *)
(* number of executors started in a session.                               *)
(***************************************************************************)
EXTENDS OperatorSession, SequenceTheorems, TLAPS

Alive == process \in {"up", "stopping"}

-----------------------------------------------------------------------------
(* Types *)

\* The executor's own state stays what a status message can say, whatever the
\* command it serves, and a mission that is over stays over.
LEMMA CommandedType == ASSUME NEW a \in Controls, life \in Worker!Lives, NEW s \in Commanded(a)
                       PROVE  /\ [life EXCEPT !.state = s] \in Worker!Lives
                              /\ life.state \in Worker!Over => s \in Worker!Over
<1> USE DEF Worker!Lives, Worker!Over
<1>1. s \in {"RUNNING", "READY", "PAUSING", "PAUSED", "CANCELING", life.state}
  BY DEF Commanded, Controls
<1>2. life.state \in Worker!Over => s \in Worker!Over BY DEF Commanded, Controls
<1> QED BY <1>1, <1>2

\* What the broker owns is an executor started for a request, or nothing.
LEMMA ChildPlan == ASSUME NEW c \in Children PROVE c # NoChild
BY DraftsAssumption DEF Children, NoChild

\* A loss is noticed only of a process that is gone.
LEMMA NoticedFacts ==
  ASSUME TypeOK, child # NoChild
  PROVE  /\ Noticed \in Children
         /\ Noticed.plan = child.plan /\ Noticed.snapshot = child.snapshot
         /\ Noticed.failure => child.failure \/ process = "dead"
         /\ child.failure \/ ~Noticed.failure => Noticed = child
         /\ ~child.failure /\ Noticed.failure => Noticed.own = "none"
<1>1. child \in Children BY DEF TypeOK
<1>2. CASE process = "dead" /\ ~child.failure
  BY <1>1, <1>2 DEF Noticed, Children
<1>3. CASE ~(process = "dead" /\ ~child.failure)
  <2>1. Noticed = child BY <1>3 DEF Noticed
  <2> QED BY <2>1, <1>1
<1> QED BY <1>2, <1>3

\* A poll keeps the request an executor was started for and what was heard of it,
\* and goes on closing the camera from where it was.
LEMMA PolledFacts ==
  ASSUME TypeOK, child # NoChild, NEW c \in Polled
  PROVE  /\ c \in Children
         /\ c.plan = child.plan /\ c.snapshot = child.snapshot
         /\ c.failure => child.failure \/ process = "dead"
         /\ child.failure => c.failure /\ c.own \in CloseProgress(child.own)
         /\ ~child.failure => c = child \/ (c.failure /\ c.own \in {"none", "asked", "failed"})
<1>1. CASE ~Noticed.failure
  BY <1>1, NoticedFacts DEF Polled
<1>2. CASE Noticed.failure
  <2>1. PICK o \in CloseProgress(Noticed.own): c = [Noticed EXCEPT !.own = o]
    BY <1>2 DEF Polled
  <2>2. Noticed \in Children BY NoticedFacts
  <2>3. o \in {"none", "asked", "closed", "failed"} BY DEF CloseProgress
  <2>4. /\ c \in Children /\ c.plan = Noticed.plan /\ c.snapshot = Noticed.snapshot
        /\ c.failure = Noticed.failure /\ c.own = o
    BY <2>1, <2>2, <2>3 DEF Children
  <2>5. ~child.failure => o \in {"none", "asked", "failed"}
    BY <1>2, NoticedFacts DEF CloseProgress
  <2> QED BY <1>2, <2>4, <2>5, NoticedFacts
<1> QED BY <1>1, <1>2

Calls == [value : {"on", "off"}, from : {"worker", "lost", "broker"}]

\* The calls waiting at the camera, the first and the others.
LEMMA Queued ==
  ASSUME TypeOK
  PROVE  /\ camera \in Seq(Calls) /\ Len(camera) \in Nat /\ DOMAIN camera = 1..Len(camera)
         /\ \A i \in DOMAIN camera : camera[i] \in Calls
         /\ camera # <<>> =>
              /\ Len(camera) > 0 /\ Head(camera) = camera[1] /\ Head(camera) \in Calls
              /\ Tail(camera) \in Seq(Calls) /\ Len(Tail(camera)) = Len(camera) - 1
              /\ DOMAIN Tail(camera) = 1..(Len(camera) - 1)
              /\ \A i \in 1..(Len(camera) - 1) : Tail(camera)[i] = camera[i + 1]
              /\ Tail(camera) = <<>> <=> Len(camera) = 1
<1>1. camera \in Seq(Calls) BY DEF TypeOK, Calls
<1>2. Len(camera) \in Nat /\ DOMAIN camera = 1..Len(camera) BY <1>1
<1>3. ASSUME NEW i \in DOMAIN camera PROVE camera[i] \in Calls BY <1>1, <1>3
<1>4. ASSUME camera # <<>>
      PROVE  /\ Len(camera) > 0 /\ Head(camera) = camera[1] /\ Head(camera) \in Calls
             /\ Tail(camera) \in Seq(Calls) /\ Len(Tail(camera)) = Len(camera) - 1
             /\ DOMAIN Tail(camera) = 1..(Len(camera) - 1)
             /\ \A i \in 1..(Len(camera) - 1) : Tail(camera)[i] = camera[i + 1]
             /\ Tail(camera) = <<>> <=> Len(camera) = 1
  <2>1. Len(camera) > 0 /\ Head(camera) = camera[1] BY <1>1, <1>4
  <2>2. Head(camera) \in Calls BY <1>3, <1>2, <2>1
  <2>3. /\ Tail(camera) \in Seq(Calls) /\ Len(Tail(camera)) = Len(camera) - 1
        /\ DOMAIN Tail(camera) = 1..(Len(camera) - 1)
    BY <1>1, <1>4
  <2>4. \A i \in 1..(Len(camera) - 1) : Tail(camera)[i] = camera[i + 1] BY <1>1, <1>4
  <2>5. Tail(camera) = <<>> <=> Len(Tail(camera)) = 0 BY <2>3, EmptySeq
  <2> QED BY <1>2, <2>1, <2>2, <2>3, <2>4, <2>5
<1> QED BY <1>1, <1>2, <1>3, <1>4

\* Calls waiting at the camera stay calls.
LEMMA CameraType ==
  ASSUME TypeOK,
         \/ camera' = camera
         \/ camera # <<>> /\ camera' = Tail(camera)
         \/ \E call \in Calls : camera' = Append(camera, call)
  PROVE  camera' \in Seq(Calls)
<1>1. camera \in Seq(Calls) /\ (camera # <<>> => Tail(camera) \in Seq(Calls)) BY Queued
<1>2. \A call \in Calls : Append(camera, call) \in Seq(Calls) BY <1>1
<1> QED BY <1>1, <1>2

LEMMA TickType == ASSUME TypeOK, BrokerTick PROVE TypeOK'
<1>1. PICK c \in Polled, competing, expired \in BOOLEAN, audited \in {"no", "report", "error"} :
        Tick(c, competing, expired, audited)
  BY DEF BrokerTick
<1>2. child' \in Children \cup {NoChild}
  <2>1. CASE child = NoChild BY <2>1, <1>1 DEF Tick, Polled
  <2>2. CASE child # NoChild BY <2>2, <1>1, PolledFacts DEF Tick
  <2> QED BY <2>1, <2>2
<1>3. camera' \in Seq(Calls)
  BY <1>1, CameraType DEF Tick, Calls
<1>4. pending' \in [action : Controls, answered : BOOLEAN] \cup {NoCall}
  BY <1>1 DEF Tick, TypeOK
<1>5. faulted' \in BOOLEAN /\ job' \in BOOLEAN /\ coverage' \in BOOLEAN
  BY <1>1 DEF Tick, TypeOK
<1> QED BY <1>1, <1>2, <1>3, <1>4, <1>5 DEF Tick, TypeOK, Calls

LEMMA FinishType ==
  ASSUME TypeOK, NEW a \in Edits, NEW d \in Drafts, Finish(a, d)
  PROVE  TypeOK'
<1>1. CASE Shows(a, d)
  <2>1. coverage' \in BOOLEAN BY <1>1 DEF Shows
  <2> QED BY <1>1, <2>1 DEF TypeOK, Finish, Shows, cameraVars
<1>2. CASE StartsWorker(d)
  <2>1. child' \in Children BY <1>2 DEF StartsWorker, Children
  <2>2. life' \in Worker!Lives BY <1>2 DEF StartsWorker, Worker!Lives
  <2>3. workers' \in 0..MaxWorkers BY <1>2, WorkersAssumption DEF StartsWorker, TypeOK
  <2> QED BY <1>2, <2>1, <2>2, <2>3 DEF TypeOK, Finish, StartsWorker, cameraVars
<1> QED BY <1>1, <1>2 DEF Finish

LEMMA RequestsType == ASSUME TypeOK, Requests PROVE TypeOK'
<1>1. CASE \E a \in Commands : Control(a)
  <2>1. PICK a \in Commands : Control(a) BY <1>1
  <2> QED BY <2>1, CommandsAssumption DEF Control, TypeOK, cameraVars
<1>2. CASE Audit \/ LoadCoverage
  BY <1>2 DEF Audit, LoadCoverage, TypeOK, workerVars, cameraVars
<1>3. ASSUME NEW a \in Edits, NEW d \in Drafts, Edit(a, d) PROVE TypeOK'
  BY <1>3, FinishType DEF Edit
<1>4. ASSUME NEW a \in Edits, NEW d \in Drafts, Interrupt(a, d) PROVE TypeOK'
  <2>1. life' \in Worker!Lives BY <1>4 DEF Interrupt, TypeOK, Worker!Lives
  <2> QED BY <1>4, <2>1 DEF Interrupt, TypeOK, cameraVars
<1> QED BY <1>1, <1>2, <1>3, <1>4 DEF Requests

LEMMA ReleasedType == ASSUME TypeOK, Released PROVE TypeOK'
<1>1. waiting.action \in Edits /\ waiting.draft \in Drafts BY DEF Released, TypeOK
<1> QED BY <1>1, FinishType DEF Released

LEMMA StatusType == ASSUME TypeOK, StatusArrives PROVE TypeOK'
<1>1. child' \in Children \cup {NoChild}
  <2>1. CASE child' = Received(child, life, TRUE)
    BY <2>1 DEF TypeOK, Received, Children
  <2>2. ASSUME NEW other \in Others, child' = Received(child, other, FALSE)
        PROVE  child' \in Children \cup {NoChild}
    BY <2>2 DEF TypeOK, Received
  <2> QED BY <2>1, <2>2 DEF StatusArrives
<1> QED BY <1>1 DEF StatusArrives, TypeOK, workerVars, cameraVars

LEMMA ExecutorType == ASSUME TypeOK, Executor PROVE TypeOK'
<1>1. ASSUME NEW a \in Commands, Serve(a) PROVE TypeOK'
  <2>1. a \in Controls BY CommandsAssumption
  <2>2. life' \in Worker!Lives BY <1>1, <2>1, CommandedType DEF Serve, TypeOK
  <2>3. pending' \in [action : Controls, answered : BOOLEAN] \cup {NoCall}
    BY <1>1, <2>1 DEF Serve, TypeOK, NoCall, Controls
  <2> QED BY <1>1, <2>2, <2>3 DEF Serve, TypeOK, cameraVars
<1>2. CASE Work
  <2>1. life' \in Worker!Lives BY <1>2 DEF Work, Worker!Moves
  <2>2. life'.future \in {"none", "on", "off"} BY <2>1 DEF Worker!Lives
  <2>3. camera' \in Seq(Calls)
    BY <1>2, <2>2, CameraType DEF Work, Calls
  <2> QED BY <1>2, <2>1, <2>3 DEF Work, TypeOK, brokerVars, Calls
<1>3. CASE FaultArrives
  <2>1. life' \in Worker!Lives BY <1>3 DEF FaultArrives, TypeOK, Worker!Lives, Worker!Over
  <2> QED BY <1>3, <2>1 DEF FaultArrives, TypeOK, brokerVars, cameraVars
<1>4. CASE Dies
  <2>1. camera' \in Seq(Calls)
    <3> DEFINE Orphan(call) == IF call.from = "worker" THEN [call EXCEPT !.from = "lost"] ELSE call
    <3>1. \A call \in Calls : Orphan(call) \in Calls BY DEF Calls
    <3>2. camera \in Seq(Calls) BY Queued
    <3>3. camera' = [i \in DOMAIN camera |-> Orphan(camera[i])] BY <1>4 DEF Dies
    <3> HIDE DEF Orphan
    <3> QED BY <3>1, <3>2, <3>3
  <2> QED BY <1>4, <2>1 DEF Dies, TypeOK, brokerVars, Calls
<1> QED BY <1>1, <1>2, <1>3, <1>4 DEF Executor, Exit, Crash

LEMMA CameraServesType == ASSUME TypeOK, CameraServes PROVE TypeOK'
<1>1. PICK answer \in {"ok", "fail"} :
        /\ sensor' \in IF Head(camera).value = "off" THEN {FALSE}
                       ELSE IF answer = "ok" THEN {TRUE} ELSE {sensor, FALSE}
        /\ reply' = IF Head(camera).from = "worker" THEN answer ELSE reply
        /\ child' = IF Head(camera).from = "broker" /\ child # NoChild /\ child.own = "asked"
                    THEN [child EXCEPT !.own = answer] ELSE child
  BY DEF CameraServes
<1>2. child' \in Children \cup {NoChild} BY <1>1 DEF TypeOK, Children
<1>3. camera' \in Seq(Calls)
  BY CameraType DEF CameraServes
<1>4. sensor' \in BOOLEAN BY <1>1 DEF TypeOK
<1> QED BY <1>1, <1>2, <1>3, <1>4 DEF CameraServes, TypeOK, workerVars, Calls

\* Every variable of a session stays in its set (operator_node.py,
\* execution_process.py).
THEOREM SessionTypeCorrect == Spec => []TypeOK
<1>1. Init => TypeOK
  <2> SUFFICES ASSUME Init PROVE TypeOK OBVIOUS
  <2>1. camera \in Seq(Calls) BY DEF Init
  <2>2. workers \in 0..MaxWorkers /\ calls \subseteq Controls BY WorkersAssumption DEF Init
  <2> QED BY <2>1, <2>2 DEF Init, TypeOK, Worker!Lives, Calls
<1>2. TypeOK /\ [Next]_vars => TypeOK'
  <2> SUFFICES ASSUME TypeOK, [Next]_vars PROVE TypeOK' OBVIOUS
  <2>1. CASE UNCHANGED vars BY <2>1 DEF vars, brokerVars, workerVars, cameraVars, TypeOK
  <2> QED BY <2>1, TickType, RequestsType, ReleasedType, StatusType, ExecutorType,
             CameraServesType DEF Next
<1> QED BY <1>1, <1>2, PTL DEF Spec

-----------------------------------------------------------------------------
(* What runs is what was shown, and what is audited is over *)

\* A request that waits for the executor to exit came when no audit ran, the plan
\* it prepares is the one on the display, and no loss is noticed meanwhile.
Releasing ==
  waiting # Idle =>
    /\ ~job /\ (waiting.action = "prepare" => waiting.draft = preview)
    /\ child # NoChild => ~child.failure

\* A mission that is over with its camera closed makes no more calls.
Ended(l) == l.state \in Worker!Over /\ l.active = "off" /\ l.future = "none"

\* What was last heard of the executor is never ahead of it: a mission heard to
\* have ended has ended, and one that is lost has exited.
Heard ==
  child # NoChild =>
    /\ process # "none"
    /\ child.failure => process = "dead"
    /\ Ended(child.snapshot) => Ended(life)

Owned == PreparedIsPreviewed /\ Releasing /\ Heard /\ AuditedIsOver

\* What the steps of an executor and of the broker's poll leave alone.
Keeps ==
  /\ job' => job
  /\ UNCHANGED <<preview, waiting>>
  /\ process' = process \/ process' = "dead"
  /\ Ended(life) => Ended(life')

LEMMA KeptOwned ==
  ASSUME TypeOK, Owned, Keeps,
         child # NoChild <=> child' # NoChild,
         child # NoChild => /\ child'.plan = child.plan
                            /\ child'.failure => child.failure \/ (process = "dead" /\ waiting = Idle)
                            /\ \/ child'.snapshot = child.snapshot
                               \/ child'.snapshot = life
  PROVE  Owned'
<1> USE DEF Owned, Keeps
<1>1. PreparedIsPreviewed' BY DEF PreparedIsPreviewed
<1>2. Releasing' BY DEF Releasing
<1>3. Heard' BY DEF Heard
<1>4. AuditedIsOver' BY DEF AuditedIsOver, Ended
<1> QED BY <1>1, <1>2, <1>3, <1>4

\* A request ends with no executor, or with one started for the plan displayed.
LEMMA FinishOwned ==
  ASSUME TypeOK, ~job, NEW a \in Edits, NEW d \in Drafts, Finish(a, d),
         a = "prepare" => preview = d
  PROVE  Owned'
<1>1. ~job' /\ waiting' = Idle BY DEF Finish
<1>2. CASE child' = NoChild
  BY <1>1, <1>2 DEF Owned, PreparedIsPreviewed, Releasing, Heard, AuditedIsOver
<1>3. CASE a = "prepare" /\ StartsWorker(d)
  <2>1. child'.plan = d /\ ~child'.failure /\ child'.snapshot.state = "STARTING"
    BY <1>3 DEF StartsWorker, Starting
  <2>2. preview' = preview /\ process' = "up" BY <1>3 DEF StartsWorker
  <2> QED BY <1>1, <1>3, <2>1, <2>2
          DEF Owned, PreparedIsPreviewed, Releasing, Heard, AuditedIsOver, Ended, Worker!Over
<1> QED BY <1>2, <1>3 DEF Finish, Shows

LEMMA TickOwned == ASSUME TypeOK, Owned, BrokerTick PROVE Owned'
<1>1. PICK c \in Polled, competing, expired \in BOOLEAN, audited \in {"no", "report", "error"} :
        Tick(c, competing, expired, audited)
  BY DEF BrokerTick
<1>2. Keeps BY <1>1 DEF Tick, Keeps
<1>3. child' = c /\ waiting = Idle BY <1>1 DEF Tick
<1>4. CASE child = NoChild BY <1>2, <1>3, <1>4, KeptOwned DEF Polled
<1>5. CASE child # NoChild BY <1>2, <1>3, <1>5, PolledFacts, ChildPlan, KeptOwned
<1> QED BY <1>4, <1>5

LEMMA RequestsOwned == ASSUME TypeOK, Owned, Requests PROVE Owned'
<1>1. ASSUME NEW a \in Commands, Control(a) PROVE Owned'
  <2>1. Keeps /\ child' = child BY <1>1 DEF Control, Keeps
  <2> QED BY <2>1, KeptOwned
<1>2. CASE Audit
  <2>1. child # NoChild /\ (child.failure \/ Ended(child.snapshot)) /\ waiting = Idle
    BY <1>2 DEF Audit, Auditable, Editable, CaptureClosed, Free, ChildState, Ended
  <2>2. Ended(life) \/ process = "dead" BY <2>1 DEF Owned, Heard
  <2>3. UNCHANGED <<child, preview, waiting, life, process>> BY <1>2 DEF Audit, workerVars
  <2> QED BY <2>1, <2>2, <2>3
          DEF Owned, PreparedIsPreviewed, Releasing, Heard, AuditedIsOver, Ended
<1>3. CASE LoadCoverage
  <2>1. Keeps /\ child' = child BY <1>3 DEF LoadCoverage, Keeps, workerVars
  <2> QED BY <2>1, KeptOwned
<1>4. ASSUME NEW a \in Edits, NEW d \in Drafts, Edit(a, d) PROVE Owned'
  <2>1. ~job /\ (a = "prepare" => preview = d) BY <1>4 DEF Edit, Allowed, Free, Shown
  <2> QED BY <1>4, <2>1, FinishOwned DEF Edit
<1>5. ASSUME NEW a \in Edits, NEW d \in Drafts, Interrupt(a, d) PROVE Owned'
  <2>1. ~job /\ (a = "prepare" => preview = d) BY <1>5 DEF Interrupt, Allowed, Free, Shown
  <2>2. Ended(life) => life' = life BY <1>5 DEF Interrupt, Ended
  <2>3. child # NoChild => ~child.failure BY <1>5 DEF Interrupt, Owned, Heard
  <2> QED BY <1>5, <2>1, <2>2, <2>3
          DEF Interrupt, Owned, PreparedIsPreviewed, Releasing, Heard, AuditedIsOver, Ended
<1> QED BY <1>1, <1>2, <1>3, <1>4, <1>5 DEF Requests

LEMMA ReleasedOwned == ASSUME TypeOK, Owned, Released PROVE Owned'
<1>1. waiting.action \in Edits /\ waiting.draft \in Drafts BY DEF Released, TypeOK
<1> QED BY <1>1, FinishOwned DEF Released, Owned, Releasing

LEMMA StatusOwned == ASSUME TypeOK, Owned, StatusArrives PROVE Owned'
<1>1. Keeps BY DEF StatusArrives, Keeps, workerVars
<1>2. CASE child' = child BY <1>1, <1>2, KeptOwned
<1>3. CASE child # NoChild /\ child' = [child EXCEPT !.snapshot = life]
  <2>1. /\ child' \in Children /\ child'.plan = child.plan /\ child'.failure = child.failure
        /\ child'.snapshot = life
    BY <1>3 DEF TypeOK, Children
  <2> QED BY <1>1, <1>3, <2>1, ChildPlan, KeptOwned
<1> QED BY <1>2, <1>3 DEF StatusArrives, Received

LEMMA ExecutorOwned == ASSUME TypeOK, Owned, Executor PROVE Owned'
<1> SUFFICES Keeps /\ child' = child BY KeptOwned
<1>1. ASSUME NEW a \in Commands, Serve(a) PROVE Keeps /\ child' = child
  <2>1. PICK s \in Commanded(a) : life' = [life EXCEPT !.state = s] BY <1>1 DEF Serve
  <2>2. Ended(life) => Ended(life')
    BY <2>1, CommandedType, CommandsAssumption DEF TypeOK, Worker!Lives, Ended
  <2> QED BY <1>1, <2>2 DEF Serve, Keeps
<1>2. CASE Work
  <2>1. /\ life'.state \in Worker!Successors(life.state)
        /\ \E known \in Worker!Answers(life) :
             life'.active = known[1] /\ life'.future \in Worker!Asks(life, known[1], known[2])
    BY <1>2 DEF Work, Worker!Moves, Worker!Moved
  <2>2. Ended(life) => Ended(life')
    <3> SUFFICES ASSUME Ended(life) PROVE Ended(life') OBVIOUS
    <3>1. life'.state \in Worker!Over BY <2>1 DEF Ended, Worker!Successors, Worker!Over
    <3>2. Worker!Answers(life) = {<<"off", "none">>} BY DEF Ended, Worker!Answers
    <3>3. life'.active = "off" /\ life'.future \in Worker!Asks(life, "off", "none") BY <2>1, <3>2
    <3>4. Worker!Asks(life, "off", "none") = {"none"} BY DEF Ended, Worker!Asks, Worker!Over
    <3> QED BY <3>1, <3>3, <3>4 DEF Ended
  <2> QED BY <1>2, <2>2 DEF Work, Keeps, brokerVars
<1>3. CASE FaultArrives
  <2>1. Ended(life) => Ended(life')
    BY <1>3 DEF FaultArrives, TypeOK, Worker!Lives, Worker!Over, Ended
  <2> QED BY <1>3, <2>1 DEF FaultArrives, Keeps, brokerVars
<1>4. CASE Exit \/ Crash
  BY <1>4 DEF Exit, Crash, Dies, Keeps, brokerVars
<1> QED BY <1>1, <1>2, <1>3, <1>4 DEF Executor

LEMMA CameraServesOwned == ASSUME TypeOK, Owned, CameraServes PROVE Owned'
<1>1. Keeps BY DEF CameraServes, Keeps, workerVars
<1>2. CASE child' = child BY <1>1, <1>2, KeptOwned
<1>3. CASE child' # child
  <2>1. PICK answer \in {"ok", "fail"} : child # NoChild /\ child' = [child EXCEPT !.own = answer]
    BY <1>3 DEF CameraServes
  <2>2. /\ child' \in Children /\ child'.plan = child.plan /\ child'.failure = child.failure
        /\ child'.snapshot = child.snapshot
    BY <2>1 DEF TypeOK, Children
  <2> QED BY <1>1, <2>1, <2>2, ChildPlan, KeptOwned
<1> QED BY <1>2, <1>3

LEMMA SessionOwned == Spec => []Owned
<1>1. Init => Owned
  BY DEF Init, Owned, PreparedIsPreviewed, Releasing, Heard, AuditedIsOver, Ended
<1>2. TypeOK /\ Owned /\ [Next]_vars => Owned'
  <2> SUFFICES ASSUME TypeOK, Owned, [Next]_vars PROVE Owned' OBVIOUS
  <2>1. CASE UNCHANGED vars
    BY <2>1 DEF vars, brokerVars, workerVars, cameraVars, Owned, PreparedIsPreviewed, Releasing,
                Heard, AuditedIsOver, Ended
  <2> QED BY <2>1, TickOwned, RequestsOwned, ReleasedOwned, StatusOwned, ExecutorOwned,
             CameraServesOwned DEF Next
<1> QED BY <1>1, <1>2, SessionTypeCorrect, PTL DEF Spec

\* The executor belongs to the request whose plan is on the display, through
\* every edit made while another was being stopped (operator_node.py: prepare).
THEOREM SessionRunsWhatIsShown == Spec => []PreparedIsPreviewed
BY SessionOwned, PTL DEF Owned

\* An audit only ever runs on the files of a mission that is over, with its camera
\* closed, or of an executor that is gone (operator_node.py: audit, editable).
THEOREM SessionAuditsWhatIsOver == Spec => []AuditedIsOver
BY SessionOwned, PTL DEF Owned

-----------------------------------------------------------------------------
(* A camera believed to be closed is closed *)

Dark == ~sensor /\ camera = <<>>

\* The broker's own close call is the last the camera will see until it is served:
\* no executor is left to call after it, and the broker calls once.
BrokerCall ==
  \A i \in DOMAIN camera : camera[i].from = "broker" =>
    /\ i = Len(camera) /\ camera[i].value = "off"
    /\ child # NoChild /\ child.failure /\ child.own \in {"asked", "failed"}

\* With its answer the camera has nothing left to serve.
BrokerClosed == child # NoChild /\ child.failure /\ child.own \in {"ok", "closed"} => Dark

\* An executor has one call in flight at a time, behind all that others left.
WorkerCall ==
  \A i \in DOMAIN camera : camera[i].from = "worker" =>
    i = Len(camera) /\ camera[i].value = life.future /\ Alive /\ reply = "none"

\* When it is answered the camera has served every call made before it.
WorkerAnswered ==
  reply # "none" =>
    Alive /\ camera = <<>> /\ life.future # "none" /\ (life.future = "off" => ~sensor)

\* Since an executor heard that the camera is closed, only its own call opens it: if
\* it left none, the camera stays closed after it.
WorkerKnows ==
  life.active = "off" /\ (Alive \/ life.future = "none") =>
    /\ \A i \in DOMAIN camera : camera[i].value = "on" => camera[i].from = "worker"
    /\ sensor => reply = "ok" /\ life.future = "on"

Shutter == BrokerCall /\ BrokerClosed /\ WorkerCall /\ WorkerAnswered /\ WorkerKnows

\* What the inductive invariant says of the two beliefs.
LEMMA ShutterBelief == ASSUME TypeOK, Owned, Shutter PROVE BeliefIsDark
<1>1. \A i \in DOMAIN camera : camera[i].value \in {"on", "off"}
  BY Queued DEF Calls
<1>2. CASE Alive /\ life.active = "off" /\ life.future = "none"
  <2>1. ~sensor BY <1>2 DEF Shutter, WorkerKnows
  <2>2. \A i \in DOMAIN camera : camera[i].value # "on"
    BY <1>2 DEF Shutter, WorkerCall, WorkerKnows
  <2> QED BY <1>1, <2>1, <2>2 DEF BeliefIsDark
<1>3. CASE child # NoChild /\ child.failure /\ child.own = "closed"
  BY <1>3 DEF Shutter, BrokerClosed, Dark, BeliefIsDark
<1>4. CASE child # NoChild /\ Ended(child.snapshot)
  <2>1. life.active = "off" /\ life.future = "none" BY <1>4 DEF Owned, Heard, Ended
  <2>2. ~sensor BY <2>1 DEF Shutter, WorkerKnows
  <2>3. \A i \in DOMAIN camera : camera[i].value # "on"
    BY <2>1 DEF Shutter, WorkerCall, WorkerKnows
  <2> QED BY <1>1, <2>2, <2>3 DEF BeliefIsDark
<1> QED BY <1>2, <1>3, <1>4 DEF BeliefIsDark, Alive, CaptureClosed, ChildState, Ended

\* Steps that reach neither the camera nor what an executor knows of it.
LEMMA KeptShutter ==
  ASSUME TypeOK, Shutter, UNCHANGED <<camera, sensor, reply, process>>,
         life'.active = life.active, life'.future = life.future,
         child # NoChild <=> child' # NoChild,
         child # NoChild => child'.failure = child.failure /\ child'.own = child.own
  PROVE  Shutter'
<1> USE DEF Shutter, Alive
<1>1. BrokerCall' BY DEF BrokerCall
<1>2. BrokerClosed' BY DEF BrokerClosed, Dark
<1>3. WorkerCall' BY DEF WorkerCall
<1>4. WorkerAnswered' BY DEF WorkerAnswered
<1>5. WorkerKnows' BY DEF WorkerKnows
<1> QED BY <1>1, <1>2, <1>3, <1>4, <1>5

\* A poll asks the camera to close once, and only in the place of an executor that
\* is gone.
LEMMA TickShutter == ASSUME TypeOK, Owned, Shutter, BrokerTick PROVE Shutter'
<1>1. PICK c \in Polled, competing, expired \in BOOLEAN, audited \in {"no", "report", "error"} :
        Tick(c, competing, expired, audited)
  BY DEF BrokerTick
<1>2. child' = c /\ UNCHANGED <<life, process, reply, sensor>> BY <1>1 DEF Tick
<1>3. CASE c = child
  <2>1. camera' = camera BY <1>1, <1>3 DEF Tick
  <2> QED BY <1>2, <1>3, <2>1, KeptShutter
<1>4. CASE c # child
  <2>1. /\ child # NoChild /\ child \in Children /\ c \in Children /\ c # NoChild
        /\ c.failure /\ process = "dead"
        /\ child.failure => c.own \in CloseProgress(child.own)
        /\ ~child.failure => c.own \in {"none", "asked", "failed"}
    <3>1. child # NoChild BY <1>4 DEF Polled
    <3> QED BY <1>4, <3>1, PolledFacts, ChildPlan DEF TypeOK, Owned, Heard
  <2>2. ~Alive BY <2>1 DEF Alive
  <2>3. child.failure /\ child.own \in {"asked", "failed"} => c.own \in {"asked", "failed"}
    BY <2>1 DEF CloseProgress
  <2>4. c.own \in {"ok", "closed"} => child.failure /\ child.own \in {"ok", "closed"}
    BY <2>1 DEF CloseProgress, Children
  <2>5. reply = "none" /\ \A i \in DOMAIN camera : camera[i].from # "worker"
    BY <2>2 DEF Shutter, WorkerAnswered, WorkerCall
  <2>6. CASE camera' = camera
    <3>1. BrokerCall' BY <1>2, <2>1, <2>3, <2>6 DEF Shutter, BrokerCall
    <3>2. BrokerClosed' BY <1>2, <2>1, <2>4, <2>6 DEF Shutter, BrokerClosed, Dark
    <3> QED BY <1>2, <2>2, <2>5, <2>6, <3>1, <3>2
            DEF Shutter, WorkerCall, WorkerAnswered, WorkerKnows, Alive
  <2>7. CASE camera' # camera
    <3>1. /\ camera' = Append(camera, [value |-> "off", from |-> "broker"])
          /\ c.own = "asked" /\ child.own # "asked"
      BY <1>1, <2>7 DEF Tick
    <3>2. \A i \in DOMAIN camera : camera[i].from # "broker"
      <4>1. ~(child.failure /\ child.own = "failed") BY <2>1, <3>1 DEF CloseProgress
      <4> QED BY <3>1, <4>1 DEF Shutter, BrokerCall
    <3>3. /\ Len(camera') = Len(camera) + 1 /\ DOMAIN camera' = 1..(Len(camera) + 1)
          /\ camera'[Len(camera) + 1] = [value |-> "off", from |-> "broker"]
          /\ \A i \in 1..Len(camera) : camera'[i] = camera[i]
          /\ DOMAIN camera = 1..Len(camera) /\ Len(camera) \in Nat
      BY <3>1 DEF TypeOK
    <3>4. BrokerCall' BY <1>2, <2>1, <3>1, <3>2, <3>3 DEF BrokerCall
    <3>5. BrokerClosed' BY <1>2, <3>1 DEF BrokerClosed
    <3>6. WorkerCall' BY <2>5, <3>3 DEF WorkerCall
    <3>7. WorkerKnows' BY <1>2, <2>2, <2>5, <3>3 DEF Shutter, WorkerKnows, Alive
    <3> QED BY <1>2, <2>5, <3>4, <3>5, <3>6, <3>7 DEF Shutter, WorkerAnswered
  <2> QED BY <2>6, <2>7
<1> QED BY <1>3, <1>4

\* An executor starts behind whatever was left to the camera, knowing nothing.
LEMMA FinishShutter ==
  ASSUME TypeOK, Shutter, process \notin {"up", "stopping"},
         child # NoChild /\ child.failure => child.own \notin {"asked", "failed"},
         NEW a \in Edits, NEW d \in Drafts, Finish(a, d)
  PROVE  Shutter'
<1>1. UNCHANGED <<camera, reply, sensor>> BY DEF Finish, cameraVars
<1>2. \A i \in DOMAIN camera : camera[i].from \notin {"broker", "worker"}
  BY DEF Shutter, BrokerCall, WorkerCall, Alive
<1>3. reply = "none" BY DEF Shutter, WorkerAnswered, Alive
<1>4. BrokerCall' /\ WorkerCall' BY <1>1, <1>2 DEF BrokerCall, WorkerCall
<1>5. WorkerAnswered' BY <1>1, <1>3 DEF WorkerAnswered
<1>6. BrokerClosed' /\ WorkerKnows'
  <2>1. CASE Shows(a, d)
    <3>1. child' = NoChild /\ process' = "none" /\ life' = life BY <2>1 DEF Shows
    <3>2. BrokerClosed' BY <3>1 DEF BrokerClosed
    <3>3. WorkerKnows' BY <1>1, <3>1 DEF Shutter, WorkerKnows, Alive
    <3> QED BY <3>2, <3>3
  <2>2. CASE StartsWorker(d)
    <3>1. ~child'.failure /\ life'.active = "unknown" BY <2>2 DEF StartsWorker
    <3> QED BY <3>1 DEF BrokerClosed, WorkerKnows
  <2> QED BY <2>1, <2>2 DEF Finish
<1> QED BY <1>4, <1>5, <1>6 DEF Shutter

\* Only a session whose camera is known to be closed is edited.
LEMMA RequestsShutter == ASSUME TypeOK, Owned, Shutter, Requests PROVE Shutter'
<1>1. ASSUME NEW a \in Commands, Control(a) PROVE Shutter'
  BY <1>1, KeptShutter DEF Control, cameraVars
<1>2. CASE Audit \/ LoadCoverage
  BY <1>2, KeptShutter DEF Audit, LoadCoverage, workerVars, cameraVars
<1>3. ASSUME NEW a \in Edits, NEW d \in Drafts, Edit(a, d) PROVE Shutter'
  <2>1. child # NoChild /\ child.failure => child.own = "closed"
    BY <1>3 DEF Edit, Allowed, Editable, CaptureClosed
  <2> QED BY <1>3, <2>1, FinishShutter DEF Edit
<1>4. ASSUME NEW a \in Edits, NEW d \in Drafts, Interrupt(a, d) PROVE Shutter'
  <2>1. life'.active = life.active /\ life'.future = life.future
    BY <1>4 DEF Interrupt, TypeOK, Worker!Lives
  <2>2. UNCHANGED <<camera, sensor, reply, child>> /\ Alive /\ Alive'
    BY <1>4 DEF Interrupt, cameraVars, Alive
  <2>3. BrokerCall' /\ BrokerClosed' BY <2>2 DEF Shutter, BrokerCall, BrokerClosed, Dark
  <2>4. WorkerCall' /\ WorkerAnswered' /\ WorkerKnows'
    BY <2>1, <2>2 DEF Shutter, WorkerCall, WorkerAnswered, WorkerKnows
  <2> QED BY <2>3, <2>4 DEF Shutter
<1> QED BY <1>1, <1>2, <1>3, <1>4 DEF Requests

\* While a request waited nothing was noticed, so the broker made no call.
LEMMA ReleasedShutter == ASSUME TypeOK, Owned, Shutter, Released PROVE Shutter'
<1>1. waiting.action \in Edits /\ waiting.draft \in Drafts BY DEF Released, TypeOK
<1>2. child # NoChild => ~child.failure BY DEF Released, Owned, Releasing
<1> QED BY <1>1, <1>2, FinishShutter DEF Released

LEMMA StatusShutter == ASSUME TypeOK, Shutter, StatusArrives PROVE Shutter'
<1>1. UNCHANGED <<camera, sensor, reply, process, life>>
  BY DEF StatusArrives, workerVars, cameraVars
<1>2. CASE child' = child BY <1>1, <1>2, KeptShutter
<1>3. CASE child # NoChild /\ child' = [child EXCEPT !.snapshot = life]
  <2>1. child' \in Children /\ child'.failure = child.failure /\ child'.own = child.own
    BY <1>3 DEF TypeOK, Children
  <2> QED BY <1>1, <1>3, <2>1, ChildPlan, KeptShutter
<1> QED BY <1>2, <1>3 DEF StatusArrives, Received

\* An executor learns the answer to its call and makes the next one behind it.
LEMMA WorkShutter == ASSUME TypeOK, Owned, Shutter, Work PROVE Shutter'
<1> DEFINE open == life.future # "none" /\ reply = "none"
           asks == life'.future # "none" /\ ~open
           call == [value |-> life'.future, from |-> "worker"]
<1>1. /\ Alive /\ Alive' /\ UNCHANGED <<child, process, sensor>> /\ reply' = "none"
      /\ life'.active = IF reply = "ok" THEN life.future ELSE life.active
      /\ open => life'.future = life.future
      /\ camera' = IF asks THEN Append(camera, call) ELSE camera
  BY DEF Work, Alive, brokerVars
<1>2. child # NoChild => ~child.failure BY <1>1 DEF Alive, Owned, Heard
<1>3. \A i \in DOMAIN camera : camera[i].from # "broker" BY <1>2 DEF Shutter, BrokerCall
<1>4. ~open => \A i \in DOMAIN camera : camera[i].from # "worker"
  BY Queued DEF Shutter, WorkerCall, WorkerAnswered, Calls
<1>5. life \in Worker!Lives /\ life' \in Worker!Lives BY DEF TypeOK, Work, Worker!Moves
<1>6. life'.active = "off" =>
        /\ ~sensor
        /\ \A i \in DOMAIN camera : camera[i].value = "on" => camera[i].from = "worker"
  <2>1. CASE reply = "ok" BY <1>1, <2>1 DEF Shutter, WorkerAnswered
  <2>2. CASE reply # "ok" BY <1>1, <2>2 DEF Shutter, WorkerKnows
  <2> QED BY <2>1, <2>2
<1>7. WorkerAnswered' /\ BrokerClosed' BY <1>1, <1>2 DEF WorkerAnswered, BrokerClosed
<1>8. CASE ~asks
  <2>1. camera' = camera BY <1>1, <1>8
  <2>2. WorkerCall' BY <1>1, <1>4, <2>1, <1>8 DEF Shutter, WorkerCall
  <2>3. BrokerCall' BY <1>3, <2>1 DEF BrokerCall
  <2>4. WorkerKnows' BY <1>1, <1>6, <2>1 DEF WorkerKnows
  <2> QED BY <1>7, <2>2, <2>3, <2>4 DEF Shutter
<1>9. CASE asks
  <2>1. /\ Len(camera') = Len(camera) + 1 /\ DOMAIN camera' = 1..(Len(camera) + 1)
        /\ camera'[Len(camera) + 1] = call
        /\ \A i \in 1..Len(camera) : camera'[i] = camera[i]
        /\ DOMAIN camera = 1..Len(camera) /\ Len(camera) \in Nat
    BY <1>1, <1>9 DEF TypeOK
  <2>2. BrokerCall' BY <1>3, <2>1 DEF BrokerCall
  <2>3. WorkerCall' BY <1>1, <1>4, <1>9, <2>1 DEF WorkerCall
  <2>4. WorkerKnows' BY <1>6, <1>1, <2>1 DEF WorkerKnows
  <2> QED BY <1>7, <2>2, <2>3, <2>4 DEF Shutter
<1> QED BY <1>8, <1>9

\* The call of an executor that is gone stays on its way to the camera.
LEMMA DiesShutter == ASSUME TypeOK, Owned, Shutter, Alive, Dies PROVE Shutter'
<1>1. /\ ~Alive' /\ process' = "dead" /\ reply' = "none" /\ UNCHANGED <<child, sensor>>
      /\ camera' = [i \in DOMAIN camera |->
                      IF camera[i].from = "worker" THEN [camera[i] EXCEPT !.from = "lost"]
                      ELSE camera[i]]
  BY DEF Dies, Alive, brokerVars
<1>2. child # NoChild => ~child.failure BY DEF Alive, Owned, Heard
<1>3. \A i \in DOMAIN camera' : camera'[i].from \notin {"broker", "worker"}
  <2> SUFFICES ASSUME NEW i \in DOMAIN camera PROVE camera'[i].from \notin {"broker", "worker"}
    BY <1>1
  <2>1. camera[i] \in Calls BY Queued
  <2>2. camera[i].from # "broker" BY <1>2 DEF Shutter, BrokerCall
  <2> QED BY <1>1, <2>1, <2>2 DEF Calls
<1>4. WorkerKnows'
  <2> SUFFICES ASSUME life.active = "off", life.future = "none"
               PROVE  ~sensor' /\ \A i \in DOMAIN camera' : camera'[i].value # "on"
    BY <1>1 DEF WorkerKnows, Dies
  <2>1. ~sensor' BY <1>1 DEF Shutter, WorkerKnows
  <2> SUFFICES ASSUME NEW i \in DOMAIN camera PROVE camera'[i].value # "on" BY <1>1, <2>1
  <2>2. camera[i] \in Calls BY Queued
  <2>3. camera[i].value # "on" BY DEF Shutter, WorkerCall, WorkerKnows
  <2> QED BY <1>1, <2>2, <2>3 DEF Calls
<1>5. BrokerClosed' BY <1>1, <1>2 DEF BrokerClosed
<1> QED BY <1>1, <1>3, <1>4, <1>5 DEF Shutter, BrokerCall, WorkerCall, WorkerAnswered

LEMMA ExecutorShutter == ASSUME TypeOK, Owned, Shutter, Executor PROVE Shutter'
<1>1. ASSUME NEW a \in Commands, Serve(a) PROVE Shutter'
  <2>1. /\ UNCHANGED <<camera, sensor, reply, process, child>>
        /\ \E s \in Commanded(a) : life' = [life EXCEPT !.state = s]
    BY <1>1 DEF Serve, cameraVars
  <2>2. life'.active = life.active /\ life'.future = life.future
    BY <2>1 DEF TypeOK, Worker!Lives
  <2> QED BY <2>1, <2>2, KeptShutter
<1>2. CASE FaultArrives
  <2>1. UNCHANGED <<camera, sensor, reply, process, child>>
    BY <1>2 DEF FaultArrives, cameraVars, brokerVars
  <2>2. life'.active = life.active /\ life'.future = life.future
    BY <1>2 DEF FaultArrives, TypeOK, Worker!Lives
  <2> QED BY <2>1, <2>2, KeptShutter
<1>3. CASE Exit \/ Crash BY <1>3, DiesShutter DEF Exit, Crash, Alive
<1> QED BY <1>1, <1>2, <1>3, WorkShutter DEF Executor

\* The camera serves its calls in order: an answer comes after all that was asked
\* before, and whoever hears it knows.
LEMMA CameraServesShutter == ASSUME TypeOK, Owned, Shutter, CameraServes PROVE Shutter'
<1> DEFINE call == Head(camera)
<1>1. PICK answer \in {"ok", "fail"} :
        /\ sensor' \in IF call.value = "off" THEN {FALSE}
                       ELSE IF answer = "ok" THEN {TRUE} ELSE {sensor, FALSE}
        /\ reply' = IF call.from = "worker" THEN answer ELSE reply
        /\ child' = IF call.from = "broker" /\ child # NoChild /\ child.own = "asked"
                    THEN [child EXCEPT !.own = answer] ELSE child
  BY DEF CameraServes
<1>2. /\ camera # <<>> /\ camera' = Tail(camera) /\ UNCHANGED <<life, process>>
      /\ Alive' = Alive
  BY DEF CameraServes, workerVars, Alive
<1>3. /\ Len(camera) \in Nat \ {0} /\ DOMAIN camera = 1..Len(camera) /\ call = camera[1]
      /\ Len(camera') = Len(camera) - 1 /\ DOMAIN camera' = 1..(Len(camera) - 1)
      /\ \A i \in 1..(Len(camera) - 1) : camera'[i] = camera[i + 1]
      /\ call.value \in {"on", "off"}
      /\ camera' = <<>> <=> Len(camera) = 1
  BY <1>2, Queued DEF Calls
<1>4. reply = "none" BY <1>2 DEF Shutter, WorkerAnswered
<1>5. CASE call.from = "broker"
  <2>1. /\ Len(camera) = 1 /\ call.value = "off" /\ child # NoChild /\ child.failure
    BY <1>3, <1>5 DEF Shutter, BrokerCall
  <2>2. Dark' BY <1>1, <1>3, <2>1 DEF Dark
  <2>3. reply' = "none" BY <1>1, <1>4, <1>5
  <2>4. ~Alive BY <2>1 DEF Owned, Heard, Alive
  <2>5. DOMAIN camera' = {} BY <1>3, <2>1
  <2>6. BrokerCall' /\ WorkerCall' BY <2>5 DEF BrokerCall, WorkerCall
  <2>7. BrokerClosed' BY <2>2 DEF BrokerClosed
  <2>8. WorkerAnswered' BY <2>3 DEF WorkerAnswered
  <2>9. WorkerKnows' BY <2>2, <2>5 DEF Dark, WorkerKnows
  <2> QED BY <2>6, <2>7, <2>8, <2>9 DEF Shutter
<1>6. CASE call.from # "broker"
  <2>1. child' = child BY <1>1, <1>6
  <2>2. BrokerCall' BY <1>3, <2>1 DEF Shutter, BrokerCall
  <2>3. BrokerClosed' BY <1>2, <2>1 DEF Shutter, BrokerClosed, Dark
  <2>4. CASE call.from = "worker"
    <3>1. Len(camera) = 1 /\ call.value = life.future /\ Alive
      BY <1>3, <2>4 DEF Shutter, WorkerCall
    <3>2. camera' = <<>> /\ reply' = answer BY <1>1, <1>3, <2>4, <3>1
    <3>3. WorkerCall' BY <3>1, <1>3 DEF WorkerCall
    <3>4. WorkerAnswered' BY <1>1, <1>2, <1>3, <3>1, <3>2 DEF WorkerAnswered
    <3>5. WorkerKnows'
      <4>1. CASE call.value = "off"
        <5>1. ~sensor' BY <1>1, <4>1
        <5> QED BY <1>3, <3>2, <5>1 DEF WorkerKnows
      <4>2. CASE call.value = "on" /\ life.active = "off"
        <5>1. ~sensor BY <1>4, <3>1, <4>2 DEF Shutter, WorkerKnows
        <5>2. answer = "fail" => ~sensor' BY <1>1, <4>2, <5>1
        <5> QED BY <1>2, <1>3, <3>1, <3>2, <4>2, <5>2 DEF WorkerKnows
      <4> QED BY <1>2, <1>3, <4>1, <4>2 DEF WorkerKnows
    <3> QED BY <2>2, <2>3, <3>3, <3>4, <3>5 DEF Shutter
  <2>5. CASE call.from # "worker"
    <3>1. reply' = "none" BY <1>1, <1>4, <2>5
    <3>2. WorkerCall' BY <1>2, <1>3, <3>1 DEF Shutter, WorkerCall
    <3>3. WorkerAnswered' BY <3>1 DEF WorkerAnswered
    <3>4. WorkerKnows'
      <4>1. Alive /\ life.active = "off" => call.value = "off"
        BY <1>3, <2>5 DEF Shutter, WorkerKnows
      <4>2. call.value = "off" => ~sensor' BY <1>1
      <4> QED BY <1>2, <1>3, <2>5, <4>1, <4>2 DEF Shutter, WorkerKnows
    <3> QED BY <2>2, <2>3, <3>2, <3>3, <3>4 DEF Shutter
  <2> QED BY <2>4, <2>5
<1> QED BY <1>5, <1>6

\* Neither an executor that last heard its camera closed, nor the broker once it
\* has closed the camera in its place, is wrong about it: no call of theirs, or of
\* an executor killed with one in flight, is left to open it (execution_process.py:
\* capture_closed).
THEOREM SessionBeliefIsDark == Spec => []BeliefIsDark
<1>1. Init => Shutter
  BY DEF Init, Shutter, BrokerCall, BrokerClosed, WorkerCall, WorkerAnswered, WorkerKnows, Alive
<1>2. TypeOK /\ Owned /\ Shutter /\ [Next]_vars => Shutter'
  <2> SUFFICES ASSUME TypeOK, Owned, Shutter, [Next]_vars PROVE Shutter' OBVIOUS
  <2>1. CASE UNCHANGED vars
    BY <2>1, KeptShutter DEF vars, brokerVars, workerVars, cameraVars
  <2> QED BY <2>1, TickShutter, RequestsShutter, ReleasedShutter, StatusShutter, ExecutorShutter,
             CameraServesShutter DEF Next
<1>3. TypeOK /\ Owned /\ Shutter => BeliefIsDark BY ShutterBelief
<1> QED BY <1>1, <1>2, <1>3, SessionTypeCorrect, SessionOwned, PTL DEF Spec
===============================================================================

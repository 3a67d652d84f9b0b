---------------------------- MODULE MissionLife ----------------------------
(***************************************************************************)
(* What a mission executor promises to whoever watches its status messages *)
(* (execution_node.py): which states follow which, that the camera is only *)
(* opened while RUNNING, and that a mission starts, parks, is cancelled or *)
(* succeeds only with the camera calls it made accounted for.              *)
(***************************************************************************)
VARIABLE life  \* the fields of a status message the broker reads

Over == {"COMPLETED", "ACQUIRED", "CANCELED", "FAULT"}
Lives == [state : Over \cup {"READY", "RUNNING", "PAUSING", "PAUSED", "CANCELING"},
          active : {"unknown", "on", "off"}, future : {"none", "on", "off"}, settled : BOOLEAN]

Successors(s) ==
  {s} \cup CASE s = "READY"     -> {"RUNNING", "CANCELING", "FAULT"}
             [] s = "RUNNING"   -> {"PAUSING", "ACQUIRED", "COMPLETED", "CANCELING", "FAULT"}
             [] s = "PAUSING"   -> {"PAUSED", "CANCELING", "FAULT"}
             [] s = "PAUSED"    -> {"RUNNING", "CANCELING", "FAULT"}
             [] s = "CANCELING" -> {"CANCELED", "FAULT"}
             [] s = "CANCELED"  -> {"FAULT"}
             [] OTHER           -> {}

\* A call is answered or fails; one may then be made, an open only by a mission
\* that was RUNNING.
Answers(l) ==
  {<<l.active, l.future>>}
    \cup IF l.future = "none" THEN {} ELSE {<<l.active, "none">>, <<l.future, "none">>}
Asks(l, a, f) ==
  {f} \cup {v \in {"on", "off"} : f = "none" /\ v # a /\ (v = "on" => l.state = "RUNNING")}

\* The changes of state made only with the camera known to be closed, and
\* those made only with no call in flight.
MadeClosed == {<<"READY", "RUNNING">>, <<"RUNNING", "ACQUIRED">>, <<"CANCELING", "CANCELED">>}
MadeQuiet == {<<"PAUSED", "RUNNING">>, <<"PAUSING", "PAUSED">>}

Moved(l, m) ==
  /\ m.state \in Successors(l.state)
  /\ \E known \in Answers(l) : m.active = known[1] /\ m.future \in Asks(l, known[1], known[2])
  /\ <<l.state, m.state>> \in MadeQuiet => m.future = "none"
  /\ <<l.state, m.state>> \in MadeClosed => m.active = "off" /\ m.future = "none"
  /\ m.settled => m.state \in Over

Moves(l) == {m \in Lives : Moved(l, m)}

Init == life \in {l \in Lives : l.state = "READY" /\ l.active # "on" /\ l.future = "none" /\ ~l.settled}

Spec == Init /\ [][Moved(life, life')]_life
=============================================================================

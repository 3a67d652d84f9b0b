---------------------------- MODULE StatusStream ----------------------------
(***************************************************************************)
(* TelemetryPublisher (agv_mission/offload.py; agv_localization has a      *)
(* copy): the control thread offers samples, a daemon thread publishes     *)
(* them.  A reader that falls behind costs the oldest samples, never the   *)
(* control loop.  The counters of what it cost are left out.               *)
(***************************************************************************)
EXTENDS Naturals, Sequences

CONSTANTS
  Depth,     \* maxlen of the queue (64)
  Samples,
  NoSample

ASSUME DepthAssumption == Depth \in Nat \ {0}
ASSUME SamplesAssumption == NoSample \notin Samples

VARIABLES
  waiting,  \* the deque
  inHand,   \* the sample being published
  shown,    \* the last sample that reached the readers
  erred,    \* publish() has raised
  closed,
  alive     \* the thread is; close() answers its negation

streamVars == <<waiting, inHand, shown, erred, closed, alive>>

StreamTypeOK ==
  /\ waiting \in Seq(Samples) /\ Len(waiting) <= Depth
  /\ {inHand, shown} \subseteq Samples \cup {NoSample}
  /\ {erred, closed, alive} \subseteq BOOLEAN

StreamInit ==
  /\ waiting = <<>> /\ inHand = NoSample /\ shown = NoSample
  /\ erred = FALSE /\ closed = FALSE /\ alive = TRUE

-----------------------------------------------------------------------------
AppendedOnlyIfRoom(q, s) == IF Len(q) = Depth THEN q ELSE Append(q, s)

\* A full deque makes room by dropping its oldest sample.
Appended(q, s) == Append(IF Len(q) = Depth THEN Tail(q) ELSE q, s)

\* offer(); its caller closes the publisher last.
Offer(s) ==
  /\ ~closed
  /\ waiting' = Appended(waiting, s)
  /\ UNCHANGED <<inHand, shown, erred, closed, alive>>

Take ==
  /\ alive /\ inHand = NoSample /\ waiting # <<>>
  /\ inHand' = Head(waiting) /\ waiting' = Tail(waiting)
  /\ UNCHANGED <<shown, erred, closed, alive>>

\* publish() outside the lock; it may raise.
Publish(mayRaise) ==
  /\ inHand # NoSample
  /\ \/ shown' = inHand /\ UNCHANGED erred
     \/ mayRaise /\ erred' = TRUE /\ UNCHANGED shown
  /\ inHand' = NoSample
  /\ UNCHANGED <<waiting, closed, alive>>

EndsWhenEmpty == closed /\ inHand = NoSample /\ waiting = <<>>
End == alive /\ EndsWhenEmpty /\ alive' = FALSE /\ UNCHANGED <<waiting, inHand, shown, erred, closed>>

Close == ~closed /\ closed' = TRUE /\ UNCHANGED <<waiting, inHand, shown, erred, alive>>
=============================================================================

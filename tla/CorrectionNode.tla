----------------------------- MODULE CorrectionNode -----------------------------
(***************************************************************************)
(* The online correction of line-scan blocks (correction_node.py).  Two     *)
(* writers publish the image and the metadata of a block on two topics: the *)
(* halves of a block, and the blocks of a session, come in any order, or    *)
(* not at all.  The node holds what it cannot use yet, within a bounded     *)
(* queue and a deadline, and corrects the blocks one by one.                *)
(*                                                                         *)
(* A block is its id; stamps grow with the ids.  Ids that are not published *)
(* are those of discarded tails and failed writes.  Elapsed time is left    *)
(* out: the deadline of five seconds may be over at any time.               *)
(***************************************************************************)
EXTENDS Integers, FiniteSets

CONSTANTS Published, Segment, First, Final

\* What the camera publishes: neighbours in a segment show neighbouring lines.
SessionAssumption ==
  /\ Published \subseteq Nat
  /\ First \in [Published -> Nat] /\ Final \in [Published -> Nat]
  /\ \A k \in Published: k + 1 \in Published /\ Segment[k + 1] = Segment[k] => First[k + 1] = Final[k] + 1

VARIABLES
  delivered,  \* the ids the middleware has handed over: each once, if ever
  held,       \* the ids of the images and of the metadata waiting here
  next,       \* next_block
  last,       \* the block corrected last (last_line, last_segment, last_stamp), or None
  error       \* "none" or why the node has given up

vars == <<delivered, held, next, last, error>>

None == -1
Kinds == {"image", "metadata"}
QueueLimit == 4

Arrived == held["image"] \cup held["metadata"]
Oldest(k) == k \in Arrived /\ \A j \in Arrived: k <= j
Complete(k) == \A kind \in Kinds: k \in held[kind]
Broken(k) == last # None /\ Segment[last] = Segment[k] /\ First[k] # Final[last] + 1

Fail(what) ==
  /\ error' = what
  /\ held' = [kind \in Kinds |-> {}]
  /\ UNCHANGED <<next, last>>

Init ==
  /\ delivered = [kind \in Kinds |-> {}] /\ held = [kind \in Kinds |-> {}]
  /\ next = 0 /\ last = None /\ error = "none"

Receive(kind, k) ==
  /\ k \notin delivered[kind]
  /\ delivered' = [delivered EXCEPT ![kind] = @ \cup {k}]
  /\ \/ error # "none" /\ UNCHANGED <<held, next, last, error>>
     \/ error = "none" /\ (k <= last \/ k \in held[kind]) /\ Fail("order")
     \/ /\ error = "none" /\ k > last /\ k \notin held[kind]
        /\ \/ Cardinality(Arrived \cup {k}) > QueueLimit /\ Fail("overflow")
           \/ /\ Cardinality(Arrived \cup {k}) <= QueueLimit
              /\ held' = [held EXCEPT ![kind] = @ \cup {k}]
              /\ UNCHANGED <<next, last, error>>

\* The deadline of the oldest is looked at before anything else.
Expire ==
  /\ error = "none" /\ Arrived # {}
  /\ Fail("timeout")
  /\ UNCHANGED delivered

\* A block whose predecessors have not come waits; one that should have come
\* before is an error.
Misplaced(k) ==
  /\ error = "none" /\ Oldest(k) /\ Complete(k)
  /\ \/ k < next /\ Fail("block")
     \/ k = next /\ Broken(k) /\ Fail("lines")
  /\ UNCHANGED delivered

\* The payload does not fit, or a file cannot be written.
Rejected(k) ==
  /\ error = "none" /\ Oldest(k) /\ Complete(k) /\ k = next /\ ~Broken(k)
  /\ Fail("storage")
  /\ UNCHANGED delivered

Correct(k) ==
  /\ error = "none" /\ Oldest(k) /\ Complete(k) /\ k = next /\ ~Broken(k)
  /\ next' = next + 1 /\ last' = k
  /\ held' = [kind \in Kinds |-> held[kind] \ {k}]
  /\ UNCHANGED <<delivered, error>>

Process == Expire \/ \E k \in Published: Misplaced(k) \/ Rejected(k) \/ Correct(k)

Next == (\E kind \in Kinds, k \in Published: Receive(kind, k)) \/ Process

Spec == Init /\ [][Next]_vars

-----------------------------------------------------------------------------
\* The state stays within its types.
TypeOK ==
  /\ delivered \in [Kinds -> SUBSET Published]
  /\ held \in [Kinds -> SUBSET Published]
  /\ next \in Nat /\ last \in Nat \cup {None}
  /\ error \in {"none", "order", "overflow", "timeout", "block", "lines", "storage"}

\* No order of arrival and no loss is mistaken for a duplicate, a block out of
\* order or a hole in a segment: the node gives up only because it waits too
\* long, holds too much or cannot write (receive, process).
NoFalseAccusation == error \notin {"order", "block", "lines"}

\* While the node works and does not correct the block it holds longest, a half
\* of the very next block has not come: it never waits for what it has.
WaitsForTheNext ==
  error = "none" => \A k \in Published: Oldest(k) /\ ~(Complete(k) /\ k = next) =>
                  \E kind \in Kinds: next \notin delivered[kind]

\* A block that is never published, a discarded tail for one, is never passed:
\* what follows it waits for its deadline (process).
StopsAtTheMissing == \A k \in Nat \ Published: next <= k
================================================================================

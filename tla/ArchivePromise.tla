-------------------------- MODULE ArchivePromise --------------------------
(***************************************************************************)
(* What agv_mission/offload.py promises of an archive to the control loop  *)
(* that hands its records over: handing over never waits, records reach    *)
(* the file in order, and `idle` is claimed only when every record handed  *)
(* over has, unless a failure has been counted.                            *)
(***************************************************************************)
EXTENDS Naturals

VARIABLES
  handed,   \* records handed over so far
  filed,    \* how many of them, in order, are on the file
  failed,   \* a write or a flush has failed
  idle      \* what a reader of `idle` is told

vars == <<handed, filed, failed, idle>>

Init == handed = 0 /\ filed = 0 /\ failed = FALSE /\ idle = TRUE

HandOver ==
  /\ handed' = handed + 1
  /\ idle' = FALSE
  /\ UNCHANGED <<filed, failed>>

\* Some of the records reach the file, or something fails.
File ==
  /\ filed' \in filed..handed
  /\ failed' \in {failed, TRUE}
  /\ UNCHANGED <<handed, idle>>

ClaimIdle ==
  /\ filed = handed \/ failed
  /\ idle' = TRUE
  /\ UNCHANGED <<handed, filed, failed>>

Next == HandOver \/ File \/ ClaimIdle

Spec == Init /\ [][Next]_vars
=============================================================================

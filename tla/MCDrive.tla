------------------------------ MODULE MCDrive ------------------------------
EXTENDS SegmentDrive

UpsetsOf == [p \in Pilots |-> IF p = "hand" THEN {"silence", "push"} ELSE {"feedback"}]
=============================================================================

SPECIFICATION Spec
CONSTANTS
  Asked <- Rectangles
  BlockRows <- Lengths
  Sessions = 1
INVARIANTS VerifiedIsSeen CleanPassIsComplete GapsAreReachable
CHECK_DEADLOCK FALSE

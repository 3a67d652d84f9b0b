SPECIFICATION LiveSpec
CONSTANTS
  Pilots = {"tracker", "hand"}
  Upsets <- UpsetsOf
  Length = 1
  MaxTrims = 1
  ByHand = {75, 90}
 
PROPERTIES SteadyDrives SilenceStops SegmentEnds HoldIsStill
CHECK_DEADLOCK FALSE

----------------------------- MODULE MCMission -----------------------------
EXTENDS MissionExecution
TwoPasses == <<"APPROACH", "PASS", "SHIFT", "PASS">>
JustAPass == <<"PASS">>
OutAndBack == <<"APPROACH", "PASS", "ROTATE_180", "PASS">>
Calm == {}
SegmentUpsets == {"segment"}
CameraDies == {"camera"}
SteadyCamera == AllUpsets \ {"camera"}
Unpushed == AllUpsets \ {"push"}
=============================================================================

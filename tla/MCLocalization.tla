--------------------------- MODULE MCLocalization ---------------------------
EXTENDS MeasurementAdapter

Trouble == {{"wheel", "imu"}, {"fix", "local"}, {"global", "disk", "stream"}}
=============================================================================

--------------------------- MODULE MCSensorData ----------------------------
(* SensorData instantiated for TLC.                                        *)
EXTENDS SensorData
=============================================================================

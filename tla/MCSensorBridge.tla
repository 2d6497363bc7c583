--------------------------- MODULE MCSensorBridge ---------------------------
(***************************************************************************)
(* A small instance of SensorBridge: the readings of a stub of period 4    *)
(* and amplitude 1, which never lean back, and one of a real IMU that does.*)
(***************************************************************************)
EXTENDS SensorBridge

Angle(p, r) == [h \in Half |-> IF h = "pitch" THEN p ELSE r]
MCReadings == {Angle(0, 0), Angle(0, 1), Angle(1, 0), Angle(-3, 1)}
=============================================================================

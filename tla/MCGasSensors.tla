---------------------------- MODULE MCGasSensors -----------------------------
(* GasSensors with two channels for each converter, two samples, and readings *)
(* below and above the limit.                                                 *)
EXTENDS GasSensors

MCReadings == {2500, 10001}
MCSteady == {2500}
=============================================================================

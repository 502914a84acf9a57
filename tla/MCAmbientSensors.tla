-------------------------- MODULE MCAmbientSensors --------------------------
(* AmbientSensors with the two threads of main.c, as they call it and with    *)
(* two samples for one of them.                                               *)
EXTENDS AmbientSensors

MCThreads == {"count", "gas"}
MCTwoSamples == [count |-> 1, gas |-> 2]
=============================================================================

---------------------------- MODULE AmbientService ----------------------------
(***************************************************************************)
(* What ambient_sensors_read promises to the two threads of main.c that    *)
(* call it: it returns, and then the caller's values are an average of     *)
(* measurements the BME280 had taken since the call began, or, after an    *)
(* error, what they were before.  AmbientSensors implements it.            *)
(***************************************************************************)
EXTENDS Integers

CONSTANTS
    Threads,    \* the callers
    MaxUnit     \* bound: measurements the BME280 takes

VARIABLES
    unit,       \* the measurement in the registers of the BME280, from 1
    calls,      \* the threads inside ambient_sensors_read
    since,      \* since[t]: unit when the last call of t began
    values      \* values[t]: the measurements averaged in t's amb_sensors

ambientVars == <<unit, calls, since, values>>

AmbientInit ==
    /\ unit = 1
    /\ calls = {}
    /\ since = [t \in Threads |-> 1]
    /\ values = [t \in Threads |-> {}]

AmbientMeasure ==
    /\ unit < MaxUnit
    /\ unit' = unit + 1
    /\ UNCHANGED <<calls, since, values>>

AmbientCall(t) ==
    /\ t \notin calls
    /\ calls' = calls \cup {t}
    /\ since' = [since EXCEPT ![t] = unit]
    /\ UNCHANGED <<unit, values>>

AmbientReturn(t) ==
    /\ t \in calls
    /\ calls' = calls \ {t}
    /\ \/ values' = values
       \/ \E m \in SUBSET (since[t]..unit) :
             m # {} /\ values' = [values EXCEPT ![t] = m]
    /\ UNCHANGED <<unit, since>>

AmbientNext ==
    \/ AmbientMeasure
    \/ \E t \in Threads : AmbientCall(t) \/ AmbientReturn(t)

AmbientSpec ==
    /\ AmbientInit
    /\ [][AmbientNext]_ambientVars
    /\ \A t \in Threads : WF_ambientVars(AmbientReturn(t))
=============================================================================

----------------------------- MODULE OpcSession -----------------------------
(***************************************************************************)
(* What one measuring session of the particle counter (opc.c) promises to  *)
(* the thread that runs it (count_particles in main.c): the order of the   *)
(* three calls opc_start, opc_read_histogram and opc_stop, when the relay  *)
(* powers the unit, and when the unit is sampling.  It says nothing of     *)
(* polls, of counters or of SPI lines: OpcDriver implements it, AirLab     *)
(* uses it in the place of opc.c.                                          *)
(***************************************************************************)

VARIABLES
    phase,      \* the opc.c function in progress, "idle" between sessions
    power,      \* the relay feeds the unit
    sampling    \* the unit has accepted the "on" command since it was powered

sessionVars == <<phase, power, sampling>>

SessionTypeOK ==
    /\ phase \in {"idle", "start", "read", "stop"}
    /\ power \in BOOLEAN
    /\ sampling \in BOOLEAN

SessionInit ==
    /\ phase = "idle"
    /\ power = FALSE
    /\ sampling = FALSE

\* count_particles calls opc_init and opc_start.
SessionBegin ==
    /\ phase = "idle"
    /\ phase' = "start"
    /\ UNCHANGED <<power, sampling>>

SessionPowerOn ==
    /\ phase = "start"
    /\ ~power
    /\ power' = TRUE
    /\ UNCHANGED <<phase, sampling>>

\* The unit obeys a command of the poll, whether or not its answer gets back.
SessionObey ==
    /\ power
    /\ \/ phase = "start" /\ sampling' = TRUE
       \/ phase = "stop"  /\ sampling' = FALSE
    /\ UNCHANGED <<phase, power>>

\* opc_start has polled in vain and cuts the power for a while.
SessionPowerCycle ==
    /\ phase = "start"
    /\ power
    /\ power' = FALSE
    /\ sampling' = FALSE
    /\ UNCHANGED phase

\* opc_start returns: the unit runs.
SessionMeasure ==
    /\ phase = "start"
    /\ power /\ sampling
    /\ phase' = "read"
    /\ UNCHANGED <<power, sampling>>

\* opc_read_histogram returns.
SessionStop ==
    /\ phase = "read"
    /\ phase' = "stop"
    /\ UNCHANGED <<power, sampling>>

SessionPowerOff ==
    /\ phase = "stop"
    /\ power
    /\ power' = FALSE
    /\ sampling' = FALSE
    /\ UNCHANGED phase

\* opc_release returns.
SessionEnd ==
    /\ phase = "stop"
    /\ ~power
    /\ phase' = "idle"
    /\ UNCHANGED <<power, sampling>>

SessionNext ==
    \/ SessionBegin \/ SessionPowerOn \/ SessionObey \/ SessionPowerCycle
    \/ SessionMeasure \/ SessionStop \/ SessionPowerOff \/ SessionEnd

SessionSpec == SessionInit /\ [][SessionNext]_sessionVars
=============================================================================

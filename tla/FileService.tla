----------------------------- MODULE FileService -----------------------------
(***************************************************************************)
(* What file_system.c promises to the threads of main.c: save_data may be  *)
(* called once the card has been mounted or given up, and it returns,      *)
(* whether or not the record has reached the card.  FileStore implements   *)
(* it, AirLab uses it in the place of file_system.c.                       *)
(***************************************************************************)
EXTENDS Integers

CONSTANTS
    Types,      \* the file types, one calling thread each
    MaxSaves    \* bound: MaxSaves[t] records are given to save_data(_, t)

VARIABLES
    booted,     \* init_and_mount_sdcard has returned
    saving,     \* the types of the calls of save_data in progress
    rec         \* rec[t]: the last record given to save_data, numbered from 1

serviceVars == <<booted, saving, rec>>

ServiceTypeOK ==
    /\ booted \in BOOLEAN
    /\ saving \in SUBSET Types
    /\ rec \in [Types -> Nat]
    /\ \A t \in Types : rec[t] <= MaxSaves[t]

ServiceInit ==
    /\ booted = FALSE
    /\ saving = {}
    /\ rec = [t \in Types |-> 0]

ServiceBoot ==
    /\ ~booted
    /\ booted' = TRUE
    /\ UNCHANGED <<saving, rec>>

ServiceCall(t) ==
    /\ booted
    /\ t \notin saving
    /\ rec[t] < MaxSaves[t]
    /\ rec' = [rec EXCEPT ![t] = @ + 1]
    /\ saving' = saving \cup {t}
    /\ UNCHANGED booted

ServiceReturn(t) ==
    /\ t \in saving
    /\ saving' = saving \ {t}
    /\ UNCHANGED <<booted, rec>>

ServiceReset ==
    /\ booted' = FALSE
    /\ saving' = {}
    /\ UNCHANGED rec

ServiceNext ==
    \/ ServiceBoot
    \/ \E t \in Types : ServiceCall(t) \/ ServiceReturn(t)
    \/ ServiceReset

ServiceSpec ==
    /\ ServiceInit
    /\ [][ServiceNext]_serviceVars
    /\ \A t \in Types : WF_serviceVars(ServiceReturn(t))
=============================================================================

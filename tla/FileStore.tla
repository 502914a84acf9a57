------------------------------ MODULE FileStore ------------------------------
(***************************************************************************)
(* file_system.c: the SD card, mounted once at boot, and save_data, which  *)
(* the two measuring threads call concurrently, each for a file of its own *)
(* ("/SD:/0000.opc" and "/SD:/0000.gas").  One action runs from the return *)
(* of one file-system call to inside the next: a thread can lose the CPU   *)
(* only in such a call, while the card is busy, or in k_msleep.            *)
(*                                                                         *)
(* FatFs and the VFS are external.  An open takes one of MaxFiles file     *)
(* objects; written bytes reach the card when the file is closed; a failed *)
(* open leaves the handle unbound, and then fs_write fails and fs_close    *)
(* does nothing.  A mount formats a card on which FatFs finds no file      *)
(* system.  This FatFs is built without a volume lock: once two threads    *)
(* were inside it together, nothing is claimed of the order of records.    *)
(***************************************************************************)
EXTENDS Integers, Sequences, FiniteSets

CONSTANTS
    Types,      \* the file types, one calling thread each
    MaxFiles,   \* CONFIG_FS_FATFS_NUM_FILES
    MaxSaves    \* bound: MaxSaves[t] records are saved in file t

ASSUME FileAssumption ==
    /\ IsFiniteSet(Types)
    /\ MaxFiles \in Nat
    /\ MaxSaves \in [Types -> Nat]

VARIABLES
    booted,     \* init_and_mount_sdcard has returned
    mounted,    \* fs_mount succeeded
    at,         \* at[t]: where save_data(_, t) sleeps, "idle" outside it
    bound,      \* bound[t]: the handle of this call is an open file
    rec,        \* rec[t]: the last record given to save_data, numbered from 1
    unsynced,   \* unsynced[t]: what of it is in the file object, not on the card
    card,       \* card[t]: the records in the file, in file order
    files,      \* file objects in use
    overlapped  \* history: two threads have been inside FatFs together

callVars == <<bound, files, unsynced>>
fsVars == <<booted, mounted, at, callVars, rec, card, overlapped>>

Torn == 0       \* a record cut short, by a full card

FSTypeOK ==
    /\ booted \in BOOLEAN
    /\ mounted \in BOOLEAN
    /\ at \in [Types -> {"idle", "open", "write", "failed", "close"}]
    /\ bound \in [Types -> BOOLEAN]
    /\ rec \in [Types -> Nat]
    /\ \A t \in Types : rec[t] <= MaxSaves[t]
    /\ unsynced \in [Types -> {"none", "whole", "part"}]
    /\ card \in [Types -> Seq(Nat)]
    /\ files \in Nat
    /\ overlapped \in BOOLEAN

FSInit ==
    /\ booted = FALSE
    /\ mounted = FALSE
    /\ at = [t \in Types |-> "idle"]
    /\ bound = [t \in Types |-> FALSE]
    /\ rec = [t \in Types |-> 0]
    /\ unsynced = [t \in Types |-> "none"]
    /\ card = [t \in Types |-> <<>>]
    /\ files = 0
    /\ overlapped = FALSE

Goto(t, from, to) == at[t] = from /\ at' = [at EXCEPT ![t] = to]

InFatFs(t) == mounted /\ (at[t] = "open" \/ (at[t] \in {"write", "close"} /\ bound[t]))

\* Thread t enters a call while another one sleeps inside.
Enter(t) == overlapped' = (overlapped \/ \E u \in Types \ {t} : InFatFs(u))

-----------------------------------------------------------------------------

\* fs_mount, which may fail.  The build has CONFIG_FS_FATFS_MOUNT_MKFS=y and the
\* flags of mp are 0: where FatFs finds no file system - a new card, a damaged one,
\* a first sector misread - it makes one, and whatever files there were are gone.
Mount ==
    /\ mounted' \in BOOLEAN
    /\ card' \in {card, [t \in Types |-> <<>>]}

\* A card that does not answer only costs a log line: fs_mount is tried in any
\* case, once, and its result is kept nowhere but in the VFS.
init_and_mount_sdcard ==
    /\ ~booted
    /\ booted' = TRUE
    /\ Mount
    /\ UNCHANGED <<at, callVars, rec, overlapped>>

\* save_data is called and enters fs_open.
SaveCall(t) ==
    /\ booted
    /\ rec[t] < MaxSaves[t]
    /\ Goto(t, "idle", "open")
    /\ rec' = [rec EXCEPT ![t] = @ + 1]
    /\ Enter(t)
    /\ UNCHANGED <<booted, mounted, callVars, card>>

\* fs_open returns a file, and fs_write is entered.
Opened(t) ==
    /\ mounted
    /\ files < MaxFiles
    /\ Goto(t, "open", "write")
    /\ files' = files + 1
    /\ bound' = [bound EXCEPT ![t] = TRUE]
    /\ Enter(t)
    /\ UNCHANGED <<booted, mounted, rec, unsynced, card>>

\* Mutant: the card is mounted again when a file cannot be opened.
NotOpenedRemounts(t) ==
    /\ Goto(t, "open", "failed")
    /\ Mount
    /\ UNCHANGED <<booted, callVars, rec, overlapped>>

\* fs_open fails: no volume, no free file object, an error of the card.  The
\* code goes on to fs_write, which rejects the handle, and sleeps 500 ms.
NotOpened(t) ==
    /\ Goto(t, "open", "failed")
    /\ UNCHANGED <<booted, mounted, callVars, rec, card, overlapped>>

\* fs_write returns a byte count, of the whole record or of a part of it, and
\* fs_close is entered.
Written(t) ==
    /\ Goto(t, "write", "close")
    /\ \E w \in {"whole", "part"} : unsynced' = [unsynced EXCEPT ![t] = w]
    /\ Enter(t)
    /\ UNCHANGED <<booted, mounted, bound, files, rec, card>>

\* fs_write fails on the card, before or after a part of the record.
NotWritten(t) ==
    /\ Goto(t, "write", "failed")
    /\ \E w \in {"none", "part"} : unsynced' = [unsynced EXCEPT ![t] = w]
    /\ UNCHANGED <<booted, mounted, bound, files, rec, card, overlapped>>

\* Mutants: save_data returns when the write fails, without fs_close; the file
\* is opened again until a write succeeds.
FailureReturns == "idle"
FailureRetried == "open"

AfterFailure == "close"

\* 500 ms after a failed write fs_close is entered.
Wake(t) ==
    /\ Goto(t, "failed", AfterFailure)
    /\ IF bound[t] THEN Enter(t) ELSE UNCHANGED overlapped
    /\ UNCHANGED <<booted, mounted, callVars, rec, card>>

\* Mutant: a file object is freed for a handle that has none.
FilesAfterAnyClose(t) == files - 1

FilesAfterClose(t) == IF bound[t] THEN files - 1 ELSE files

\* Mutant: the record is saved again unless all of it was written.
RepeatedUnlessWhole(t) == IF unsynced[t] = "whole" THEN "idle" ELSE "open"

\* The results of fs_write and fs_close lead to no second try.
AfterClose(t) == "idle"

\* fs_close returns, save_data too.  The file object is freed in any case; the
\* record is behind the others (FS_O_APPEND), unless the last write to the card
\* failed.
Closed(t) ==
    /\ Goto(t, "close", AfterClose(t))
    /\ bound' = [bound EXCEPT ![t] = FALSE]
    /\ files' = FilesAfterClose(t)
    /\ unsynced' = [unsynced EXCEPT ![t] = "none"]
    /\ \/ card' = card
       \/ /\ unsynced[t] # "none"
          /\ card' = [card EXCEPT ![t] =
                        Append(@, IF unsynced[t] = "whole" THEN rec[t] ELSE Torn)]
    /\ UNCHANGED <<booted, mounted, rec, overlapped>>

save_data(t) ==
    \/ Opened(t) \/ NotOpened(t)
    \/ Written(t) \/ NotWritten(t)
    \/ Wake(t) \/ Closed(t)

\* The board loses its supply or is reset: of all this the card alone is left.
FSReset ==
    /\ booted' = FALSE
    /\ mounted' = FALSE
    /\ at' = [t \in Types |-> "idle"]
    /\ bound' = [t \in Types |-> FALSE]
    /\ unsynced' = [t \in Types |-> "none"]
    /\ files' = 0
    /\ UNCHANGED <<rec, card, overlapped>>

FSNext ==
    \/ init_and_mount_sdcard
    \/ \E t \in Types : SaveCall(t)
    \/ \E t \in Types : save_data(t)
    \/ FSReset

FSSpec == FSInit /\ [][FSNext]_fsVars

\* The card driver bounds its retries and k_msleep ends: every call returns.
FSFairSpec == FSSpec /\ \A t \in Types : WF_fsVars(save_data(t))

-----------------------------------------------------------------------------

\* No path through save_data loses a file object: each one in use belongs to a
\* call in progress, and the pool serves all threads at once.
FilesAccountedFor ==
    /\ \A t \in Types : at[t] \in {"idle", "open"} => ~bound[t]
    /\ files = Cardinality({t \in Types : bound[t]})

\* A thread that enters fs_open finds a file object, if the pool has one for each
\* thread: no failed save before it, and none under way, has used the pool up.
PoolSuffices ==
    Cardinality(Types) <= MaxFiles =>
        \A t \in Types : at[t] = "open" => files < MaxFiles

\* Formatting takes the files away, while nobody is at work on them: entries are
\* lost only with no call of save_data in progress and no file object in use, never
\* under the hands of the other thread.
FormatsAlone ==
    [][(\E t \in Types : Len(card'[t]) < Len(card[t]))
          => files = 0 /\ \A t \in Types : at[t] = "idle"]_fsVars

\* A call leaves at most one entry in its file, torn or whole; the file has fewer
\* than there were calls while the last of them is in progress.
OneEntryPerCall(t) ==
    IF at[t] = "idle" THEN Len(card[t]) <= rec[t] ELSE Len(card[t]) < rec[t]

\* The whole records in a file are in the order of their measurement.
WholeInOrder(t) ==
    \A i, j \in DOMAIN card[t] :
        i < j /\ card[t][i] # Torn /\ card[t][j] # Torn => card[t][i] < card[t][j]

\* However saves fail, at whatever point the board is reset and whenever the card is
\* formatted, no call leaves two entries and no record is out of its order or there
\* twice.  As long as FatFs has not been entered by two threads at once.
RecordsInOrder ==
    ~overlapped => \A t \in Types : OneEntryPerCall(t) /\ WholeInOrder(t)

\* save_data keeps its promise to main.c, also that it returns: with no card, a
\* full one or a failing one, no thread is lost in it.
Service == INSTANCE FileService WITH saving <- {t \in Types : at[t] # "idle"}

ImplementsService == Service!ServiceSpec
=============================================================================

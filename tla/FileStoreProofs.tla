--------------------------- MODULE FileStoreProofs ---------------------------
(***************************************************************************)
(* The safety of FileStore for every finite set of file types, every pool  *)
(* of file objects and every number of records.                            *)
(***************************************************************************)
EXTENDS FileStore, FiniteSetTheorems, TLAPS

\* Each record in a file is an earlier one than the record being saved, and
\* between two saves none is later than the last one.
OrderOf(t) ==
    /\ at[t] = "idle" => unsynced[t] = "none"
    /\ at[t] # "idle" => 0 < rec[t]
    /\ \A i \in DOMAIN card[t] :
          card[t][i] <= rec[t] /\ (at[t] # "idle" => card[t][i] < rec[t])
    /\ OneEntryPerCall(t)
    /\ WholeInOrder(t)

\* Before the card has been mounted or given up nobody saves.
BootInv == ~booted => \A t \in Types : at[t] = "idle"

FSInv ==
    /\ FSTypeOK
    /\ FilesAccountedFor
    /\ BootInv
    /\ \A t \in Types : OrderOf(t)

OpenCalls == {t \in Types : bound[t]}

\* The calls that hold a file are finitely many.
LEMMA OpenFinite == IsFiniteSet(OpenCalls)
<1>1. OpenCalls \subseteq Types
  BY DEF OpenCalls
<1>. QED
  BY <1>1, FS_Subset, FileAssumption

\* A file opened or closed changes the number of open ones by one.
LEMMA OpenCounted ==
    ASSUME NEW t \in Types, FSTypeOK
    PROVE  /\ ~bound[t] /\ bound' = [bound EXCEPT ![t] = TRUE]
                => Cardinality(OpenCalls') = Cardinality(OpenCalls) + 1
           /\ bound[t] /\ bound' = [bound EXCEPT ![t] = FALSE]
                => Cardinality(OpenCalls') = Cardinality(OpenCalls) - 1
           /\ ~bound[t] /\ bound' = [bound EXCEPT ![t] = FALSE]
                => OpenCalls' = OpenCalls
<1>1. ASSUME ~bound[t], bound' = [bound EXCEPT ![t] = TRUE]
      PROVE  Cardinality(OpenCalls') = Cardinality(OpenCalls) + 1
  <2>1. OpenCalls' = OpenCalls \cup {t} /\ t \notin OpenCalls
    BY <1>1, Zenon DEF OpenCalls, FSTypeOK
  <2>. QED
    BY <2>1, OpenFinite, FS_AddElement
<1>2. ASSUME bound[t], bound' = [bound EXCEPT ![t] = FALSE]
      PROVE  Cardinality(OpenCalls') = Cardinality(OpenCalls) - 1
  <2>1. OpenCalls' = OpenCalls \ {t} /\ t \in OpenCalls
    BY <1>2, Zenon DEF OpenCalls, FSTypeOK
  <2>. QED
    BY <2>1, OpenFinite, FS_RemoveElement
<1>3. ASSUME ~bound[t], bound' = [bound EXCEPT ![t] = FALSE]
      PROVE  OpenCalls' = OpenCalls
  BY <1>3, Zenon DEF OpenCalls, FSTypeOK
<1>. QED
  BY <1>1, <1>2, <1>3
-----------------------------------------------------------------------------

\* FSInit establishes the invariant.
LEMMA FSInitInv == FSInit => FSInv
<1> SUFFICES ASSUME FSInit PROVE FSInv
  OBVIOUS
<1>1. FSTypeOK
  <2>1. rec \in [Types -> Nat] /\ \A t \in Types : rec[t] <= MaxSaves[t]
    BY FileAssumption DEF FSInit
  <2>2. card \in [Types -> Seq(Nat)]
    BY DEF FSInit
  <2>. QED
    BY <2>1, <2>2 DEF FSInit, FSTypeOK
<1>2. FilesAccountedFor
  <2>1. {t \in Types : bound[t]} = {}
    BY DEF FSInit
  <2>. QED
    BY <2>1, FS_EmptySet DEF FSInit, FilesAccountedFor
<1>3. \A t \in Types : OrderOf(t)
  BY DEF FSInit, OrderOf, OneEntryPerCall, WholeInOrder
<1>4. BootInv
  BY DEF FSInit, BootInv
<1>. QED
  BY <1>1, <1>2, <1>3, <1>4 DEF FSInv

\* A step that leaves the files, the records and the card alone preserves the
\* invariant if it goes between points inside save_data, or to its end.
LEMMA ControlStep ==
    ASSUME FSInv, NEW t \in Types,
           NEW from \in {"open", "write", "failed"},
           NEW to \in {"failed", "close"}, Goto(t, from, to),
           unsynced' \in [Types -> {"none", "whole", "part"}],
           \A u \in Types : u # t => unsynced'[u] = unsynced[u],
           overlapped' \in BOOLEAN,
           UNCHANGED <<booted, mounted, bound, files, rec, card>>
    PROVE  FSInv'
<1>1. FSTypeOK'
  BY DEF FSInv, FSTypeOK, Goto
<1>2. FilesAccountedFor'
  BY DEF FSInv, FSTypeOK, FilesAccountedFor, Goto
<1>3. \A u \in Types : OrderOf(u)'
  BY DEF FSInv, FSTypeOK, OrderOf, OneEntryPerCall, WholeInOrder, Goto
<1>4. BootInv'
  BY DEF FSInv, FSTypeOK, BootInv, Goto
<1>. QED
  BY <1>1, <1>2, <1>3, <1>4 DEF FSInv

\* What is known of the history variable after a call has been entered.
LEMMA EnterType == \A t \in Types : Enter(t) => overlapped' \in BOOLEAN
  BY DEF Enter

\* Every step preserves the invariant; one step per action.
LEMMA FSStepInv == FSInv /\ [FSNext]_fsVars => FSInv'
<1> SUFFICES ASSUME FSInv, [FSNext]_fsVars PROVE FSInv'
  OBVIOUS
<1> USE DEF callVars
<1>1. CASE init_and_mount_sdcard
  <2>1. FSTypeOK'
    <3>1. mounted' \in BOOLEAN /\ (card' = card \/ card' = [t \in Types |-> <<>>])
      BY <1>1 DEF init_and_mount_sdcard, Mount
    <3>2. [t \in Types |-> <<>>] \in [Types -> Seq(Nat)]
      OBVIOUS
    <3>3. card' \in [Types -> Seq(Nat)]
      BY <3>1, <3>2 DEF FSInv, FSTypeOK
    <3>. QED
      BY <1>1, <3>1, <3>3 DEF init_and_mount_sdcard, FSInv, FSTypeOK
  <2>2. FilesAccountedFor' /\ BootInv'
    BY <1>1 DEF init_and_mount_sdcard, FSInv, FilesAccountedFor, BootInv
  <2>3. ASSUME NEW t \in Types PROVE OrderOf(t)'
    <3>1. CASE card' = card
      BY <1>1, <3>1
      DEF init_and_mount_sdcard, FSInv, OrderOf, OneEntryPerCall, WholeInOrder
    <3>2. CASE card' = [u \in Types |-> <<>>]
      BY <1>1, <3>2
      DEF init_and_mount_sdcard, FSInv, FSTypeOK, OrderOf, OneEntryPerCall, WholeInOrder
    <3>. QED
      BY <1>1, <3>1, <3>2 DEF init_and_mount_sdcard, Mount
  <2>. QED
    BY <2>1, <2>2, <2>3 DEF FSInv
<1>2. ASSUME NEW t \in Types, SaveCall(t) PROVE FSInv'
  <2>1. FSTypeOK'
    <3>1. rec[t] \in Nat /\ MaxSaves[t] \in Nat /\ rec[t] < MaxSaves[t]
      BY <1>2, FileAssumption DEF SaveCall, FSInv, FSTypeOK
    <3>2. rec' \in [Types -> Nat] /\ \A u \in Types : rec'[u] <= MaxSaves[u]
      BY <1>2, <3>1, FileAssumption DEF SaveCall, FSInv, FSTypeOK
    <3>. QED
      BY <1>2, <3>2, EnterType DEF SaveCall, Goto, FSInv, FSTypeOK
  <2>2. FilesAccountedFor'
    BY <1>2 DEF SaveCall, Goto, FSInv, FSTypeOK, FilesAccountedFor
  <2>3. ASSUME NEW u \in Types PROVE OrderOf(u)'
    <3>1. CASE u = t
      <4>1. /\ rec'[t] = rec[t] + 1 /\ rec[t] \in Nat
            /\ card'[t] = card[t] /\ card[t] \in Seq(Nat) /\ at'[t] = "open"
        BY <1>2, FileAssumption DEF SaveCall, Goto, FSInv, FSTypeOK
      <4>2. at[t] = "idle"
        BY <1>2 DEF SaveCall, Goto
      <4>. QED
        BY <3>1, <4>1, <4>2 DEF FSInv, OrderOf, OneEntryPerCall, WholeInOrder
    <3>2. CASE u # t
      BY <1>2, <3>2
      DEF SaveCall, Goto, FSInv, FSTypeOK, OrderOf, OneEntryPerCall, WholeInOrder
    <3>. QED
      BY <3>1, <3>2
  <2>4. BootInv'
    BY <1>2 DEF SaveCall, BootInv
  <2>. QED
    BY <2>1, <2>2, <2>3, <2>4 DEF FSInv
<1>3. ASSUME NEW t \in Types, Opened(t) PROVE FSInv'
  <2>1. FSTypeOK'
    BY <1>3, EnterType DEF Opened, Goto, FSInv, FSTypeOK
  <2>2. ~bound[t]
    BY <1>3 DEF Opened, Goto, FSInv, FilesAccountedFor
  <2>3. Cardinality(OpenCalls') = Cardinality(OpenCalls) + 1
    BY <1>3, <2>2, OpenCounted DEF Opened, FSInv
  <2>4. \A u \in Types : at'[u] \in {"idle", "open"} => ~bound'[u]
    BY <1>3 DEF Opened, Goto, FSInv, FSTypeOK, FilesAccountedFor
  <2>5. FilesAccountedFor'
    BY <1>3, <2>3, <2>4 DEF Opened, FSInv, FilesAccountedFor, OpenCalls
  <2>6. \A u \in Types : OrderOf(u)'
    BY <1>3 DEF Opened, Goto, FSInv, FSTypeOK, OrderOf, OneEntryPerCall, WholeInOrder
  <2>7. BootInv'
    BY <1>3 DEF Opened, Goto, FSInv, FSTypeOK, BootInv
  <2>. QED
    BY <2>1, <2>5, <2>6, <2>7 DEF FSInv
<1>4. ASSUME NEW t \in Types, NotOpened(t) PROVE FSInv'
  BY <1>4, ControlStep DEF NotOpened, FSInv, FSTypeOK
<1>5. ASSUME NEW t \in Types, Written(t) PROVE FSInv'
  BY <1>5, ControlStep, EnterType DEF Written, FSInv, FSTypeOK
<1>6. ASSUME NEW t \in Types, NotWritten(t) PROVE FSInv'
  BY <1>6, ControlStep DEF NotWritten, FSInv, FSTypeOK
<1>7. ASSUME NEW t \in Types, Wake(t) PROVE FSInv'
  <2>1. overlapped' \in BOOLEAN
    BY <1>7, EnterType DEF Wake, FSInv, FSTypeOK
  <2>. QED
    BY <1>7, <2>1, ControlStep DEF Wake, AfterFailure, FSInv, FSTypeOK
<1>8. ASSUME NEW t \in Types, Closed(t) PROVE FSInv'
  <2>1. /\ at[t] = "close" /\ rec[t] \in Nat /\ 0 < rec[t]
        /\ card[t] \in Seq(Nat)
    BY <1>8, FileAssumption DEF Closed, AfterClose, Goto, FSInv, FSTypeOK, OrderOf
  <2>2. PICK r \in {Torn, rec[t]} :
           card' = card \/ card' = [card EXCEPT ![t] = Append(@, r)]
    BY <1>8 DEF Closed
  <2>3. r \in Nat /\ r <= rec[t]
    BY <2>1, <2>2 DEF Torn
  <2>4. FilesAccountedFor'
    <3>1. \A u \in Types : at'[u] \in {"idle", "open"} => ~bound'[u]
      BY <1>8 DEF Closed, AfterClose, Goto, FSInv, FSTypeOK, FilesAccountedFor
    <3>2. CASE bound[t]
      <4>1. Cardinality(OpenCalls') = Cardinality(OpenCalls) - 1
        BY <1>8, <3>2, OpenCounted DEF Closed, FSInv
      <4>. QED
        BY <1>8, <3>1, <3>2, <4>1
        DEF Closed, FilesAfterClose, FSInv, FilesAccountedFor, OpenCalls
    <3>3. CASE ~bound[t]
      <4>1. OpenCalls' = OpenCalls
        BY <1>8, <3>3, OpenCounted DEF Closed, FSInv
      <4>. QED
        BY <1>8, <3>1, <3>3, <4>1
        DEF Closed, FilesAfterClose, FSInv, FilesAccountedFor, OpenCalls
    <3>. QED
      BY <3>2, <3>3
  <2>5. FSTypeOK'
    <3>1. files' \in Nat
      <4>1. IsFiniteSet(OpenCalls')
        BY OpenFinite, FS_Subset, FileAssumption DEF OpenCalls
      <4>. QED
        BY <2>4, <4>1, FS_CardinalityType DEF FilesAccountedFor, OpenCalls
    <3>2. card' \in [Types -> Seq(Nat)]
      <4>1. Append(card[t], r) \in Seq(Nat)
        BY <2>1, <2>3
      <4>. QED
        BY <2>2, <4>1 DEF FSInv, FSTypeOK
    <3>. QED
      BY <1>8, <3>1, <3>2 DEF Closed, AfterClose, Goto, FSInv, FSTypeOK
  <2>6. ASSUME NEW u \in Types PROVE OrderOf(u)'
    <3>1. CASE u = t /\ card'[t] = Append(card[t], r)
      <4> DEFINE n == Len(card[t])
      <4>1. /\ n \in Nat /\ DOMAIN card[t] = 1..n /\ DOMAIN card'[t] = 1..(n + 1)
            /\ card'[t][n + 1] = r
            /\ \A i \in 1..n : card'[t][i] = card[t][i] /\ card[t][i] \in Nat
        BY <2>1, <2>3, <3>1
      <4>2. at'[t] = "idle" /\ rec'[t] = rec[t] /\ unsynced'[t] = "none"
        BY <1>8 DEF Closed, AfterClose, Goto, FSInv, FSTypeOK
      <4>3. \A i \in 1..n : card[t][i] < rec[t]
        BY <2>1, <4>1 DEF FSInv, OrderOf
      <4> HIDE DEF n
      <4>4. ASSUME NEW i \in 1..(n + 1)
            PROVE  card'[t][i] <= rec'[t]
        <5>1. CASE i \in 1..n
          <6>1. card'[t][i] = card[t][i] /\ card[t][i] \in Nat
            BY <4>1, <5>1
          <6>2. card[t][i] < rec[t]
            BY <4>3, <5>1
          <6>3. rec[t] \in Nat
            BY DEF FSInv, FSTypeOK
          <6>. QED
            BY <4>2, <6>1, <6>2, <6>3
        <5>2. CASE i = n + 1
          <6>1. r \in Nat /\ r <= rec[t]
            BY <2>1, <2>3 DEF Torn, FSInv, FSTypeOK
          <6>. QED
            BY <4>1, <4>2, <5>2, <6>1
        <5>. QED
          BY <4>1, <5>1, <5>2
      <4>5. ASSUME NEW i \in 1..(n + 1), NEW j \in 1..(n + 1),
                   i < j, card'[t][i] # Torn, card'[t][j] # Torn
            PROVE  card'[t][i] < card'[t][j]
        <5>1. i \in 1..n
          BY <4>1, <4>5
        <5>2. CASE j = n + 1
          BY <2>2, <4>1, <4>3, <4>5, <5>1, <5>2
        <5>3. CASE j \in 1..n
          BY <4>1, <4>5, <5>1, <5>3 DEF FSInv, OrderOf, WholeInOrder
        <5>. QED
          BY <4>1, <5>2, <5>3
      <4>6. OneEntryPerCall(t)'
        <5>1. n < rec[t]
          BY <2>1 DEF FSInv, OrderOf, OneEntryPerCall, n
        <5>2. Len(card'[t]) = n + 1
          BY <2>1, <3>1 DEF n
        <5>. QED
          BY <2>1, <4>1, <4>2, <5>1, <5>2 DEF OneEntryPerCall
      <4>7. WholeInOrder(t)'
        BY <4>1, <4>5 DEF WholeInOrder
      <4>. QED
        BY <3>1, <4>1, <4>2, <4>4, <4>6, <4>7 DEF OrderOf
    <3>2. CASE card'[u] = card[u]
      <4>1. /\ rec'[u] = rec[u] /\ rec[u] \in Nat /\ card[u] \in Seq(Nat)
            /\ unsynced'[u] = IF u = t THEN "none" ELSE unsynced[u]
            /\ at'[u] = IF u = t THEN "idle" ELSE at[u]
        BY <1>8 DEF Closed, AfterClose, Goto, FSInv, FSTypeOK
      <4>2. \A k \in DOMAIN card[u] : card[u][k] \in Nat
        BY <4>1
      <4>3. Len(card[u]) \in Nat
        BY <4>1
      <4>4. OneEntryPerCall(u)'
        BY <2>1, <3>2, <4>1, <4>3 DEF FSInv, OrderOf, OneEntryPerCall
      <4>5. WholeInOrder(u)'
        BY <3>2 DEF FSInv, OrderOf, WholeInOrder
      <4>. QED
        BY <2>1, <3>2, <4>1, <4>2, <4>4, <4>5 DEF FSInv, OrderOf
    <3>. QED
      BY <2>2, <3>1, <3>2 DEF FSInv, FSTypeOK
  <2>7. BootInv'
    BY <1>8 DEF Closed, AfterClose, Goto, FSInv, FSTypeOK, BootInv
  <2>. QED
    BY <2>4, <2>5, <2>6, <2>7 DEF FSInv
<1>9. CASE FSReset
  <2>1. FSTypeOK'
    BY <1>9 DEF FSReset, FSInv, FSTypeOK
  <2>2. FilesAccountedFor'
    <3>1. {t \in Types : bound[t]}' = {}
      BY <1>9 DEF FSReset
    <3>. QED
      BY <1>9, <3>1, FS_EmptySet DEF FSReset, FilesAccountedFor
  <2>3. ASSUME NEW t \in Types PROVE OrderOf(t)'
    <3>1. /\ at'[t] = "idle" /\ unsynced'[t] = "none" /\ UNCHANGED <<rec, card>>
          /\ rec[t] \in Nat /\ Len(card[t]) \in Nat
      BY <1>9 DEF FSReset, FSInv, FSTypeOK
    <3>. QED
      BY <3>1 DEF FSInv, OrderOf, OneEntryPerCall, WholeInOrder
  <2>4. BootInv'
    BY <1>9 DEF FSReset, BootInv
  <2>. QED
    BY <2>1, <2>2, <2>3, <2>4 DEF FSInv
<1>10. CASE UNCHANGED fsVars
  BY <1>10 DEF fsVars, FSInv, FSTypeOK, FilesAccountedFor, BootInv, OrderOf,
     OneEntryPerCall, WholeInOrder
<1>. QED
  BY <1>1, <1>2, <1>3, <1>4, <1>5, <1>6, <1>7, <1>8, <1>9, <1>10
  DEF FSNext, save_data

\* The invariant holds in every reachable state.
LEMMA FSInductive == FSSpec => []FSInv
  BY FSInitInv, FSStepInv, PTL DEF FSSpec
-----------------------------------------------------------------------------

\* Types of file_system.c: the count of file objects never falls below zero.
THEOREM FSTypeCorrect == FSSpec => []FSTypeOK
<1>1. FSInv => FSTypeOK
  BY DEF FSInv
<1>. QED
  BY <1>1, FSInductive, PTL

\* No file object is lost, whichever calls fail and whenever the board is reset.
THEOREM NoFileLost == FSSpec => []FilesAccountedFor
<1>1. FSInv => FilesAccountedFor
  BY DEF FSInv
<1>. QED
  BY <1>1, FSInductive, PTL

\* A pool with one file object for each thread is never used up when one of them
\* opens its file, for any number of threads.
THEOREM PoolNeverEmpty == FSSpec => []PoolSuffices
<1>1. ASSUME FSInv, Cardinality(Types) <= MaxFiles, NEW t \in Types, at[t] = "open"
      PROVE  files < MaxFiles
  <2>1. ~bound[t] /\ files = Cardinality(OpenCalls)
    BY <1>1 DEF FSInv, FilesAccountedFor, OpenCalls
  <2>2. OpenCalls \subseteq Types /\ OpenCalls # Types
    BY <2>1 DEF OpenCalls
  <2>3. /\ Cardinality(OpenCalls) <= Cardinality(Types)
        /\ Cardinality(OpenCalls) # Cardinality(Types)
    BY <2>2, FS_Subset, FileAssumption
  <2>4. Cardinality(OpenCalls) \in Nat /\ Cardinality(Types) \in Nat
    BY OpenFinite, FS_CardinalityType, FileAssumption
  <2>. QED
    BY <1>1, <2>1, <2>3, <2>4, FileAssumption
<1>2. FSInv => PoolSuffices
  BY <1>1 DEF PoolSuffices
<1>. QED
  BY <1>2, FSInductive, PTL

\* In every file the whole records are in the order of their measurement, and each
\* call has left at most one entry.
THEOREM RecordsOrdered == FSSpec => []RecordsInOrder
<1>1. FSInv => RecordsInOrder
  BY DEF FSInv, OrderOf, RecordsInOrder
<1>. QED
  BY <1>1, FSInductive, PTL

\* A call of save_data takes nothing out of a file.
LEMMA CallsKeepEntries ==
    ASSUME FSInv, NEW u \in Types, SaveCall(u) \/ save_data(u), NEW t \in Types
    PROVE  Len(card[t]) <= Len(card'[t])
<1>1. card[t] \in Seq(Nat)
  BY DEF FSInv, FSTypeOK
<1>2. CASE UNCHANGED card
  BY <1>1, <1>2
<1>3. CASE Closed(u)
  <2>1. PICK r \in {Torn, rec[u]} :
           card' = card \/ card' = [card EXCEPT ![u] = Append(@, r)]
    BY <1>3 DEF Closed
  <2>2. card'[t] = card[t] \/ card'[t] = Append(card[t], r)
    BY <2>1 DEF FSInv, FSTypeOK
  <2>. QED
    BY <1>1, <2>2
<1>. QED
  BY <1>2, <1>3
  DEF SaveCall, save_data, Opened, NotOpened, Written, NotWritten, Wake

\* The card is formatted only while no call of save_data is in progress and no file
\* object is in use.
THEOREM FormattedAlone == FSSpec => FormatsAlone
<1>1. ASSUME FSInv, [FSNext]_fsVars, NEW t \in Types, Len(card'[t]) < Len(card[t])
      PROVE  files = 0 /\ \A u \in Types : at[u] = "idle"
  <2>1. Len(card[t]) \in Nat /\ card' # card
    BY <1>1 DEF FSInv, FSTypeOK
  <2>2. ASSUME NEW u \in Types, SaveCall(u) \/ save_data(u) PROVE FALSE
    <3>1. Len(card'[t]) \in Nat
      BY <1>1, FSStepInv DEF FSInv, FSTypeOK
    <3>. QED
      BY <1>1, <2>1, <2>2, <3>1, CallsKeepEntries
  <2>3. init_and_mount_sdcard
    BY <1>1, <2>1, <2>2 DEF FSNext, FSReset, fsVars
  <2>4. \A u \in Types : at[u] = "idle"
    BY <1>1, <2>3 DEF init_and_mount_sdcard, FSInv, BootInv
  <2>5. OpenCalls = {}
    BY <1>1, <2>4 DEF FSInv, FilesAccountedFor, OpenCalls
  <2>. QED
    BY <1>1, <2>4, <2>5, FS_EmptySet DEF FSInv, FilesAccountedFor, OpenCalls
<1>2. FSInv /\ [FSNext]_fsVars
      => [(\E t \in Types : Len(card'[t]) < Len(card[t]))
             => files = 0 /\ \A t \in Types : at[t] = "idle"]_fsVars
  BY <1>1
<1>. QED
  BY <1>2, FSInductive, PTL DEF FSSpec, FormatsAlone

-----------------------------------------------------------------------------
(* Refinement                                                              *)

\* Every step of file_system.c is a step of the service or none.
LEMMA FSStepImplements ==
    FSInv /\ [FSNext]_fsVars => [Service!ServiceNext]_(Service!serviceVars)
<1> SUFFICES ASSUME FSInv, [FSNext]_fsVars
             PROVE  [Service!ServiceNext]_(Service!serviceVars)
  OBVIOUS
<1> USE DEF Service!ServiceNext, Service!serviceVars, FSInv, FSTypeOK, Goto, callVars
<1>1. CASE init_and_mount_sdcard
  BY <1>1 DEF init_and_mount_sdcard, Mount, Service!ServiceBoot
<1>2. ASSUME NEW t \in Types, SaveCall(t)
      PROVE  [Service!ServiceNext]_(Service!serviceVars)
  BY <1>2 DEF SaveCall, Service!ServiceCall
<1>3. ASSUME NEW t \in Types,
             Opened(t) \/ NotOpened(t) \/ Written(t) \/ NotWritten(t) \/ Wake(t)
      PROVE  [Service!ServiceNext]_(Service!serviceVars)
  <2>1. UNCHANGED <<booted, rec>>
    BY <1>3 DEF Opened, NotOpened, Written, NotWritten, Wake
  <2>2. \A u \in Types : at'[u] # "idle" <=> at[u] # "idle"
    BY <1>3 DEF Opened, NotOpened, Written, NotWritten, Wake, AfterFailure
  <2>. QED
    BY <2>1, <2>2
<1>4. ASSUME NEW t \in Types, Closed(t)
      PROVE  [Service!ServiceNext]_(Service!serviceVars)
  BY <1>4 DEF Closed, AfterClose, Service!ServiceReturn
<1>5. CASE FSReset
  BY <1>5 DEF FSReset, Service!ServiceReset
<1>6. CASE UNCHANGED fsVars
  BY <1>6 DEF fsVars
<1>. QED
  BY <1>1, <1>2, <1>3, <1>4, <1>5, <1>6 DEF FSNext, save_data

\* file_system.c, with its failures and resets, implements the safety of
\* FileService, for every set of file types and every pool.
THEOREM FileRefinement ==
    FSSpec => Service!ServiceInit /\ [][Service!ServiceNext]_(Service!serviceVars)
<1>1. FSInit => Service!ServiceInit
  BY DEF FSInit, Service!ServiceInit
<1>. QED
  BY <1>1, FSStepImplements, FSInductive, PTL DEF FSSpec
=============================================================================

--------------------------- MODULE GasSensorsProofs ---------------------------
(***************************************************************************)
(* Proofs about GasSensors, for every number of channels and samples and   *)
(* every set of readings.                                                  *)
(***************************************************************************)
EXTENDS GasSensors, TLAPS

\* The slot's own transfers so far have done what they were meant to: what k's
\* converter holds at "point" and "read" is what was measured for k, and a slot
\* that is finished has it in result.
SlotInv ==
    /\ pc \in {"point", "read"} /\ level[k] # None
          => converted[Converter(k)] = level[k]
    /\ pc = "read" /\ level[k] # None => pointer[Converter(k)] = 0
    /\ \A n \in Slots : level[n] # None =>
          /\ pc \in {"config", "divide"} => result[n] = Clamp(level[n])
          /\ pc \in {"point", "read"} /\ n # k => result[n] = Clamp(level[n])
          /\ pc = "idle" => result[n] = Clamp(level[n]) \div Samples

\* Inside the loops a sample is still to be taken.
LoopInv == pc \in {"config", "point", "read"} => s < Samples

GInv == GasTypeOK /\ LoopInv /\ SlotInv

\* What a word is.
LEMMA WordBounds ==
    /\ MaxWord = 65535
    /\ \A w : w \in Words <=> w \in Int /\ 0 <= w /\ w <= MaxWord
<1>1. MaxWord = 65535
  BY DEF MaxWord
<1>2. MaxWord \in Int
  BY <1>1
<1>3. \A w : w \in Words <=> w \in Int /\ 0 <= w /\ w <= MaxWord
  BY <1>2 DEF Words
<1>. QED
  BY <1>1, <1>3

\* Two bytes are a word.
LEMMA TornWord ==
    ASSUME NEW w \in Words, NEW v \in Words
    PROVE  Torn(w, v) \in Words
<1>1. w \in Int /\ 0 <= w /\ w <= 65535 /\ v \in Int
  BY WordBounds
<1>2. w \div 256 \in Int /\ 0 <= w \div 256 /\ w \div 256 < 256
  BY <1>1
<1>3. v % 256 \in Int /\ 0 <= v % 256 /\ v % 256 < 256
  BY <1>1
<1>4. /\ 256 * (w \div 256) + (v % 256) \in Int
      /\ 0 <= 256 * (w \div 256) + (v % 256)
      /\ 256 * (w \div 256) + (v % 256) <= 65535
  BY <1>2, <1>3
<1>. QED
  BY <1>4, WordBounds DEF Torn

\* An average is a word.
LEMMA QuotientWord ==
    ASSUME NEW w \in Words, NEW d \in Nat \ {0}
    PROVE  w \div d \in Words
<1>1. w \in Int /\ 0 <= w /\ w <= MaxWord /\ d \in Int /\ 1 <= d
  BY WordBounds
<1>2. w \div d \in Int /\ 0 <= w \div d /\ w \div d <= w
  BY <1>1
<1>. QED
  BY <1>1, <1>2, WordBounds

\* Where a slot lies, and that there is a first one.
LEMMA SlotPlace ==
    /\ \A n \in Slots : Converter(n) \in Converters
    /\ 0 \in Slots
<1>1. 0 \in Slots
  BY GasAssumption DEF Slots
<1>2. \A n \in Slots : Converter(n) = 0 \/ Converter(n) = 1
  BY DEF Converter
<1>. QED
  BY <1>1, <1>2 DEF Converters

\* What is counted of a word is a word, and so is what a converter sends.
LEMMA CountedWord ==
    /\ \A w \in Words : Clamp(w) \in Words
    /\ GasTypeOK => Word \in Words
<1>1. 0 \in Words /\ ConfigWord \in Words
  BY WordBounds DEF ConfigWord
<1>. QED
  BY <1>1, SlotPlace DEF Clamp, Word, GasTypeOK
-----------------------------------------------------------------------------

\* Init establishes the invariant.
LEMMA GasInitInv == Init => GInv
<1>1. 0 \in Words /\ 0 \in 0..Samples
  BY WordBounds, GasAssumption
<1>2. Init => GasTypeOK
  BY <1>1, SlotPlace, GasAssumption DEF Init, GasTypeOK, Converters
<1>3. Init => LoopInv /\ SlotInv
  BY DEF Init, LoopInv, SlotInv
<1>. QED
  BY <1>2, <1>3 DEF GInv

\* The entry of the slot is written: right, if its transfers have succeeded, and
\* on to the next slot with the others as they were.
LEMMA StoreStep ==
    ASSUME GInv, pc = "read", NEW w \in Words, Store(w),
           \/ w = Word /\ level' = level
           \/ Measured(None)
    PROVE  GInv'
<1>1. GasTypeOK'
  <2>1. k \in Slots /\ k \in Int /\ 0 <= k /\ k <= 2 * Channels - 1
    BY GasAssumption DEF GInv, GasTypeOK, Slots
  <2>2. k' \in Slots
    BY <2>1, SlotPlace, GasAssumption DEF Store, LastSlot, Slots
  <2>3. s' \in 0..Samples /\ pc' \in {"config", "divide"}
    BY GasAssumption DEF GInv, GasTypeOK, LoopInv, Store
  <2>4. result' \in [Slots -> Words]
    BY <2>1, CountedWord DEF GInv, GasTypeOK, Store
  <2>5. level' \in [Slots -> Readings \cup {None}]
    BY DEF GInv, GasTypeOK, Measured
  <2>. QED
    BY <2>2, <2>3, <2>4, <2>5 DEF GInv, GasTypeOK, Store, convVars
<1>2. SlotInv'
  <2>1. pc' \in {"config", "divide"}
    BY DEF Store
  <2>2. ASSUME NEW n \in Slots, level'[n] # None
        PROVE  result'[n] = Clamp(level'[n])
    <3>1. CASE n = k
      <4>1. level' = level /\ w = Word
        BY <2>2, <3>1 DEF GInv, GasTypeOK, Measured
      <4>2. Word = level[k]
        BY <2>2, <3>1, <4>1 DEF GInv, SlotInv, Word
      <4>. QED
        BY <3>1, <4>1, <4>2 DEF GInv, GasTypeOK, Store
    <3>2. CASE n # k
      BY <2>2, <3>2 DEF GInv, GasTypeOK, SlotInv, Store, Measured
    <3>. QED
      BY <3>1, <3>2
  <2>. QED
    BY <2>1, <2>2 DEF SlotInv
<1>3. LoopInv'
  <2>1. pc' = "config" => s' = s \/ (s' = s + 1 /\ s' # Samples)
    BY DEF Store
  <2>2. s \in Int /\ s < Samples /\ Samples \in Int
    BY GasAssumption DEF GInv, GasTypeOK, LoopInv
  <2>. QED
    BY <2>1, <2>2 DEF LoopInv, Store
<1>. QED
  BY <1>1, <1>2, <1>3 DEF GInv

\* Every step preserves the invariant; one step per action.
LEMMA GasStepInv == GInv /\ [Next]_vars => GInv'
<1> SUFFICES ASSUME GInv, [Next]_vars PROVE GInv'
  OBVIOUS
<1> USE DEF Step, convVars, LoopInv
<1>1. CASE Call
  <2>1. GasTypeOK'
    BY <1>1, SlotPlace, GasAssumption DEF Call, GInv, GasTypeOK
  <2>. QED
    BY <1>1, <2>1, GasAssumption DEF Call, GInv, SlotInv
<1>2. CASE ConfigDone
  <2>1. PICK r \in Readings : Configure(r) /\ Measured(r)
    BY <1>2 DEF ConfigDone
  <2>2. r \in Words
    BY GasAssumption
  <2>3. GasTypeOK'
    BY <1>2, <2>1, <2>2, SlotPlace
    DEF ConfigDone, Configure, Measured, GInv, GasTypeOK, Converters
  <2>4. SlotInv'
    BY <1>2, <2>1, SlotPlace
    DEF ConfigDone, Configure, Measured, GInv, GasTypeOK, SlotInv
  <2>. QED
    BY <1>2, <2>3, <2>4 DEF ConfigDone, GInv
<1>3. CASE ConfigFails
  <2>1. pointer' \in [Converters -> {0, 1}] /\ converted' \in [Converters -> Words]
    BY <1>3, SlotPlace, GasAssumption
    DEF ConfigFails, Configure, GInv, GasTypeOK
  <2>2. GasTypeOK'
    BY <1>3, <2>1 DEF ConfigFails, Measured, GInv, GasTypeOK
  <2>3. SlotInv'
    BY <1>3 DEF ConfigFails, Measured, GInv, GasTypeOK, SlotInv
  <2>. QED
    BY <1>3, <2>2, <2>3 DEF ConfigFails, GInv
<1>4. CASE PointDone
  <2>1. GasTypeOK'
    BY <1>4, SlotPlace DEF PointDone, PointerBack, GInv, GasTypeOK
  <2>2. SlotInv'
    BY <1>4, SlotPlace DEF PointDone, PointerBack, GInv, GasTypeOK, SlotInv
  <2>. QED
    BY <1>4, <2>1, <2>2 DEF PointDone, GInv
<1>5. CASE PointFails
  <2>1. GasTypeOK'
    BY <1>5, SlotPlace DEF PointFails, PointerBack, Measured, GInv, GasTypeOK
  <2>2. SlotInv'
    BY <1>5 DEF PointFails, Measured, GInv, GasTypeOK, SlotInv
  <2>. QED
    BY <1>5, <2>1, <2>2 DEF PointFails, GInv
<1>6. CASE ReadDone
  BY <1>6, StoreStep, CountedWord DEF ReadDone, GInv
<1>7. CASE ReadFails
  <2>1. Word \in Words /\ readbuf \in Words
    BY CountedWord DEF GInv, GasTypeOK
  <2>2. PICK w \in {readbuf, Torn(Word, readbuf), Word} : Store(w)
    BY <1>7 DEF ReadFails
  <2>3. w \in Words
    BY <2>1, <2>2, TornWord
  <2>. QED
    BY <1>7, <2>2, <2>3, StoreStep DEF ReadFails
<1>8. CASE Return
  <2>1. \A n \in Slots : result[n] \div Samples \in Words
    BY QuotientWord, GasAssumption DEF GInv, GasTypeOK
  <2>2. GasTypeOK'
    BY <1>8, <2>1 DEF Return, GInv, GasTypeOK
  <2>3. SlotInv'
    BY <1>8 DEF Return, GInv, SlotInv
  <2>. QED
    BY <1>8, <2>2, <2>3 DEF Return, GInv
<1>9. CASE UNCHANGED vars
  BY <1>9 DEF vars, GInv, GasTypeOK, SlotInv, Converter, Clamp
<1>. QED
  BY <1>1, <1>2, <1>3, <1>4, <1>5, <1>6, <1>7, <1>8, <1>9
  DEF Next, gas_sensors_read, Faults

\* The invariant holds in every reachable state.
LEMMA GasInductive == Spec => []GInv
  BY GasInitInv, GasStepInv, PTL DEF Spec

\* Types of the gas sensors' state: the slot stays inside the array of the
\* caller, and every entry fits its 16 bits.
THEOREM GasTypeCorrect == Spec => []GasTypeOK
<1>1. GInv => GasTypeOK
  BY DEF GInv
<1>. QED
  BY <1>1, GasInductive, PTL

\* A failed transfer harms no slot but its own (gas_sensors.c:72-90), for any
\* number of channels and samples.
THEOREM FaultsLocal == Spec => []FaultsStayLocal
<1>1. GInv => FaultsStayLocal
  BY DEF GInv, SlotInv, FaultsStayLocal
<1>. QED
  BY <1>1, GasInductive, PTL

-----------------------------------------------------------------------------
(* What is written, and how many transfers it takes                        *)

\* The entries written in this call: all of them from the second sample on, and
\* in the first one those before the slot.
WrittenInv ==
    /\ pc \in {"config", "point", "read"}
          => \A n \in Slots : s > 0 \/ n < k => result[n] <= Limit
    /\ pc = "divide" => \A n \in Slots : result[n] <= Limit

\* What is counted of any word is within Limit.
LEMMA CountedWithin == \A w \in Words : Clamp(w) <= Limit
<1>1. Limit \in Int /\ 0 <= Limit
  BY DEF Limit
<1>. QED
  BY <1>1, WordBounds DEF Clamp

\* The entry of the slot is written, and is the last one that was missing when
\* the slot is.
LEMMA StoreWrites ==
    ASSUME GInv, WrittenInv, pc = "read", NEW w \in Words, Store(w)
    PROVE  WrittenInv'
<1>1. /\ k \in Slots /\ k \in Int /\ s \in Int /\ 0 <= s
      /\ \A n \in Slots : n \in Int /\ 0 <= n /\ n <= 2 * Channels - 1
  BY GasAssumption DEF GInv, GasTypeOK, Slots
<1>2. ASSUME NEW n \in Slots, s > 0 \/ n <= k
      PROVE  result'[n] <= Limit
  <2>1. CASE n = k
    BY <2>1, CountedWithin DEF GInv, GasTypeOK, Store
  <2>2. CASE n # k
    <3>1. result'[n] = result[n]
      BY <2>2 DEF GInv, GasTypeOK, Store
    <3>2. s > 0 \/ n < k
      BY <1>1, <1>2, <2>2
    <3>. QED
      BY <3>1, <3>2 DEF WrittenInv
  <2>. QED
    BY <2>1, <2>2
<1>3. CASE LastSlot
  <2>1. \A n \in Slots : n <= k
    BY <1>1, <1>3 DEF LastSlot
  <2>. QED
    BY <1>2, <2>1 DEF WrittenInv, Store
<1>4. CASE ~LastSlot
  <2>1. s' = s /\ k' = k + 1 /\ pc' = "config"
    BY <1>4 DEF Store
  <2>2. \A n \in Slots : s' > 0 \/ n < k' => s > 0 \/ n <= k
    BY <1>1, <2>1
  <2>. QED
    BY <1>2, <2>1, <2>2 DEF WrittenInv
<1>. QED
  BY <1>3, <1>4

\* Every step keeps the entries written in this call.
LEMMA WrittenStep == GInv /\ WrittenInv /\ [Next]_vars => WrittenInv'
<1> SUFFICES ASSUME GInv, WrittenInv, [Next]_vars PROVE WrittenInv'
  OBVIOUS
<1>1. CASE Call
  <2>1. \A n \in Slots : n \in Int /\ 0 <= n
    BY GasAssumption DEF Slots
  <2>. QED
    BY <1>1, <2>1 DEF Call, Step, WrittenInv
<1>2. CASE ConfigDone \/ ConfigFails \/ PointDone \/ PointFails
  BY <1>2 DEF ConfigDone, ConfigFails, PointDone, PointFails, Step, WrittenInv
<1>3. CASE ReadDone
  BY <1>3, StoreWrites, CountedWord DEF ReadDone, GInv
<1>4. CASE ReadFails
  <2>1. Word \in Words /\ readbuf \in Words
    BY CountedWord DEF GInv, GasTypeOK
  <2>2. PICK w \in {readbuf, Torn(Word, readbuf), Word} : Store(w)
    BY <1>4 DEF ReadFails
  <2>3. w \in Words
    BY <2>1, <2>2, TornWord
  <2>. QED
    BY <1>4, <2>2, <2>3, StoreWrites DEF ReadFails
<1>5. CASE Return
  BY <1>5 DEF Return, Step, WrittenInv
<1>6. CASE UNCHANGED vars
  BY <1>6 DEF vars, WrittenInv
<1>. QED
  BY <1>1, <1>2, <1>3, <1>4, <1>5, <1>6 DEF Next, gas_sensors_read, Faults

\* The division never sees what the caller's array held before the call, for
\* any number of channels and samples and whatever is read.
THEOREM ResultsWritten == Spec => []NothingLeftOver
<1>1. Init => WrittenInv
  BY DEF Init, WrittenInv
<1>2. WrittenInv => NothingLeftOver
  BY DEF WrittenInv, NothingLeftOver
<1>. QED
  BY <1>1, <1>2, WrittenStep, GasInductive, PTL DEF Spec

\* The slots that are left inside the loops are a number.
LEMMA SlotsLeftNat ==
    GInv /\ pc \in {"config", "point", "read"} => SlotsLeft \in Nat
<1> SUFFICES ASSUME GInv, pc \in {"config", "point", "read"}
             PROVE  SlotsLeft \in Nat
  OBVIOUS
<1> DEFINE rounds == Samples - s
           width  == 2 * Channels
<1>1. /\ rounds \in Int /\ rounds >= 1 /\ width \in Int /\ width >= 0
      /\ k \in Int /\ k <= width - 1
  BY GasAssumption DEF GInv, GasTypeOK, LoopInv, Slots
<1>2. rounds * width \in Int /\ rounds * width >= width
  <2> HIDE DEF rounds, width
  <2>1. \A a, b \in Nat : a * b \in Nat
    OBVIOUS
  <2>2. (rounds - 1) * width >= 0 /\ (rounds - 1) * width = rounds * width - width
    BY <1>1, <2>1
  <2>. QED
    BY <1>1, <2>2
<1>. QED
  BY <1>1, <1>2 DEF SlotsLeft

\* A read, good or failed, leaves one slot less, be it the last of a round.
LEMMA StoreCloser ==
    ASSUME GInv, pc = "read", NEW w, Store(w)
    PROVE  SlotsLeft' = SlotsLeft - 1
<1> DEFINE width == 2 * Channels
<1>1. s \in Int /\ k \in Int /\ Samples \in Int /\ width \in Int
  BY GasAssumption DEF GInv, GasTypeOK, Slots
<1>2. \/ s' = s + 1 /\ k' = 0 /\ k = width - 1
      \/ s' = s /\ k' = k + 1
  BY DEF Store, LastSlot
<1>3. (Samples - (s + 1)) * width = (Samples - s) * width - width
  BY <1>1
<1>4. (Samples - s) * width \in Int
  BY <1>1
<1>. QED
  BY <1>1, <1>2, <1>3, <1>4 DEF SlotsLeft

\* gas_sensors_read makes no transfer twice: each is one less to be made, for any
\* number of channels and samples.
THEOREM TransfersCounted == Spec => TransfersBounded
<1> USE DEF Step
<1>1. GInv => TransfersLeft \in Nat
  BY SlotsLeftNat DEF TransfersLeft, SlotSteps, GInv, GasTypeOK
<1>2. ASSUME GInv, Next, pc # "idle"
      PROVE  TransfersLeft' < TransfersLeft
  <2>1. CASE ConfigDone \/ ConfigFails \/ PointDone \/ PointFails
    <3>1. SlotsLeft \in Nat /\ SlotsLeft' = SlotsLeft
      BY <1>2, <2>1, SlotsLeftNat
      DEF ConfigDone, ConfigFails, PointDone, PointFails, SlotsLeft
    <3>. QED
      BY <2>1, <3>1 DEF ConfigDone, ConfigFails, PointDone, PointFails,
         TransfersLeft, SlotSteps
  <2>2. ASSUME pc = "read", NEW w, Store(w)
        PROVE  TransfersLeft' < TransfersLeft
    <3>1. SlotsLeft \in Nat /\ SlotsLeft' = SlotsLeft - 1
      BY <1>2, <2>2, SlotsLeftNat, StoreCloser
    <3>2. pc' \in {"config", "divide"}
      BY <2>2 DEF Store
    <3>. QED
      BY <2>2, <3>1, <3>2 DEF TransfersLeft, SlotSteps
  <2>3. CASE Return
    BY <2>3 DEF Return, TransfersLeft
  <2>4. ~Call
    BY <1>2 DEF Call
  <2>. QED
    BY <1>2, <2>1, <2>2, <2>3, <2>4
    DEF Next, gas_sensors_read, Faults, ReadDone, ReadFails
<1>3. GInv /\ [Next]_vars
      => [/\ TransfersLeft \in Nat
          /\ pc = "idle" \/ TransfersLeft' < TransfersLeft]_vars
  BY <1>1, <1>2
<1>. QED
  BY <1>3, GasInductive, PTL DEF Spec, TransfersBounded
=============================================================================

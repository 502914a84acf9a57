------------------------------ MODULE GasSensors ------------------------------
(***************************************************************************)
(* gas_sensors.c: gas_sensors_read, one thread of main.c reading eight     *)
(* inputs of two I2C converters.  A slot is an entry of result; for each   *)
(* slot the converter is configured, its pointer set back to the           *)
(* conversion register, and two bytes are read.  The code looks at the     *)
(* outcome of none of these transfers.  The converters are external.       *)
(***************************************************************************)
EXTENDS Integers

CONSTANTS
    Channels,   \* inputs of a converter (4)
    Samples,    \* argument of gas_sensors_read (5 in main.c)
    Readings    \* the words a conversion may give

MaxWord == 65535
Words == 0..MaxWord            \* uint16_t

ASSUME GasAssumption ==
    /\ Channels \in Nat \ {0}
    /\ Samples \in Nat \ {0}
    /\ Readings \subseteq Words

Slots == 0..(2 * Channels - 1)
Converters == {0, 1}            \* 0x48 and 0x49
Converter(n) == IF n < Channels THEN 0 ELSE 1
None == -1

VARIABLES
    pc,         \* the transfer that comes next, "idle" outside the function
    s,          \* the sample index
    k,          \* the slot
    pointer,    \* of each converter: 0 conversion register, 1 configuration
    converted,  \* of each converter: its conversion register
    readbuf,    \* the two bytes as a word
    result,     \* the caller's array gs
    level       \* history, level[n]: what the converter measured for slot n in
                \* this round, None when one of the slot's transfers failed

convVars == <<pointer, converted>>
vars == <<pc, s, k, convVars, readbuf, result, level>>

GasTypeOK ==
    /\ pc \in {"idle", "config", "point", "read", "divide"}
    /\ s \in 0..Samples
    /\ k \in Slots
    /\ pointer \in [Converters -> {0, 1}]
    /\ converted \in [Converters -> Words]
    /\ readbuf \in Words
    /\ result \in [Slots -> Words]
    /\ level \in [Slots -> Readings \cup {None}]

\* gs is not initialised in main.c.
Init ==
    /\ pc = "idle"
    /\ s = 0
    /\ k = 0
    /\ pointer = [a \in Converters |-> 0]
    /\ converted = [a \in Converters |-> 0]
    /\ readbuf = 0
    /\ result \in [Slots -> Readings]
    /\ level = [n \in Slots |-> None]

-----------------------------------------------------------------------------
(* The transfers of a slot, each followed by a sleep                       *)

Step(from, to) == pc = from /\ pc' = to
Measured(r) == level' = [level EXCEPT ![k] = r]

\* The bytes 0x01, multiplexer and gain: the pointer goes to the configuration
\* register, and the conversion of the channel is over before the read.
Configure(r) ==
    /\ pointer' = [pointer EXCEPT ![Converter(k)] = 1]
    /\ converted' = [converted EXCEPT ![Converter(k)] = r]

ConfigDone ==
    /\ Step("config", "point")
    /\ \E r \in Readings : Configure(r) /\ Measured(r)
    /\ UNCHANGED <<s, k, readbuf, result>>

\* The error may come before the pointer byte, after it, or after all three.
ConfigFails ==
    /\ Step("config", "point")
    /\ \/ UNCHANGED convVars
       \/ pointer' = [pointer EXCEPT ![Converter(k)] = 1] /\ UNCHANGED converted
       \/ \E r \in Readings : Configure(r)
    /\ Measured(None)
    /\ UNCHANGED <<s, k, readbuf, result>>

\* Mutant: the pointer is thought to be at the conversion register already.
PointerLeft == pointer

PointerBack == [pointer EXCEPT ![Converter(k)] = 0]

PointDone ==
    /\ Step("point", "read")
    /\ pointer' = PointerBack
    /\ UNCHANGED <<s, k, converted, readbuf, result, level>>

PointFails ==
    /\ Step("point", "read")
    /\ pointer' \in {pointer, PointerBack}
    /\ Measured(None)
    /\ UNCHANGED <<s, k, converted, readbuf, result>>

\* 0xC183, 0xD183, 0xE183 and 0xF183, which all count as above Limit.
ConfigWord == 49539

\* What the converter of the slot sends.
Word == IF pointer[Converter(k)] = 0 THEN converted[Converter(k)] ELSE ConfigWord

\* The first byte of w with the second one of v.
Torn(w, v) == 256 * (w \div 256) + (v % 256)

-----------------------------------------------------------------------------
(* gas_sensors_read                                                        *)

Limit == 10000
Clamp(w) == IF w > Limit THEN 0 ELSE w

\* Mutants: the loop over the channels runs once more, or once less.
LastSlotLate == k = 2 * Channels
LastSlotEarly == k = 2 * Channels - 2

LastSlot == k = 2 * Channels - 1

\* The entry is overwritten; on to the next slot, the next sample, or the end.
Store(w) ==
    /\ readbuf' = w
    /\ result' = [result EXCEPT ![k] = Clamp(w)]
    /\ k' = IF LastSlot THEN 0 ELSE k + 1
    /\ s' = IF LastSlot THEN s + 1 ELSE s
    /\ pc' = IF LastSlot /\ s + 1 = Samples THEN "divide" ELSE "config"
    /\ UNCHANGED convVars

ReadDone ==
    /\ pc = "read"
    /\ Store(Word)
    /\ UNCHANGED level

\* Mutant: after a failed read the channel is tried again.
ReadRetried ==
    /\ Step("read", "config")
    /\ Measured(None)
    /\ UNCHANGED <<s, k, convVars, readbuf, result>>

\* The error may come before the first byte has been stored, before the second
\* or after it; the code goes on with what is in the buffer.
ReadFails ==
    /\ pc = "read"
    /\ \E w \in {readbuf, Torn(Word, readbuf), Word} : Store(w)
    /\ Measured(None)

\* The buffer is on the stack and not initialised.
Call ==
    /\ Step("idle", "config")
    /\ s' = 0
    /\ k' = 0
    /\ readbuf' \in Readings
    /\ level' = [n \in Slots |-> None]
    /\ UNCHANGED <<convVars, result>>

Return ==
    /\ Step("divide", "idle")
    /\ result' = [n \in Slots |-> result[n] \div Samples]
    /\ UNCHANGED <<s, k, convVars, readbuf, level>>

gas_sensors_read == Call \/ ConfigDone \/ PointDone \/ ReadDone \/ Return
Faults == ConfigFails \/ PointFails \/ ReadFails
Next == gas_sensors_read \/ Faults

Spec == Init /\ [][Next]_vars

\* Every transfer ends, with success or, by the timeout of the I2C driver,
\* without; nothing keeps the thread from running.
FairSpec == Spec /\ WF_vars(Next)

\* No transfer fails.
FaultFreeSpec == Init /\ [][gas_sensors_read]_vars

-----------------------------------------------------------------------------

\* An entry whose own three transfers succeeded in the last round is what its
\* own channel measured then, whatever failed for other channels and in earlier
\* rounds: each slot writes the multiplexer and the pointer anew.
FaultsStayLocal ==
    \A n \in Slots : level[n] # None =>
        /\ pc = "divide" => result[n] = Clamp(level[n])
        /\ pc = "idle"   => result[n] = Clamp(level[n]) \div Samples

\* gs is not initialised (main.c:162): nothing of what it held enters the division
\* of gas_sensors.c:136 and the record, whichever transfers fail and whatever
\* torn word a failed one leaves.  Each entry has been written, within Limit.
NothingLeftOver == pc = "divide" => \A n \in Slots : result[n] <= Limit

\* The slots still to be read after this one, the transfers left of this one, and
\* with them the steps that are left to gas_sensors_read, its return included.
SlotsLeft == (Samples - s) * (2 * Channels) - k - 1

SlotSteps == CASE pc = "config" -> 3
               [] pc = "point" -> 2
               [] OTHER -> 1

TransfersLeft == CASE pc = "idle" -> 0
                   [] pc = "divide" -> 1
                   [] OTHER -> 3 * SlotsLeft + SlotSteps + 1

\* Failed transfers cost the thread nothing: each one, good or failed, is one less
\* to be made before gas_sensors_read returns.
TransfersBounded ==
    [][/\ TransfersLeft \in Nat
       /\ pc = "idle" \/ TransfersLeft' < TransfersLeft]_vars

\* gas_sensors_read returns, whichever transfers fail.
GasReadReturns == pc # "idle" ~> pc = "idle"

\* gas_sensors.c:86 and 136 make an average of the samples: with no failed
\* transfer it is no smaller than the smallest of them.
AveragesSamples ==
    pc = "idle" => \A n \in Slots :
        level[n] # None => \E r \in Readings : Clamp(r) <= result[n]
=============================================================================

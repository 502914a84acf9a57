--------------------------- MODULE OpcDriverProofs ---------------------------
(***************************************************************************)
(* The safety of OpcDriver for every sample count, SKIP and poll limit.    *)
(***************************************************************************)
EXTENDS OpcDriver, TLAPS

\* The points of each function, and what opc_send_command was called with.
PointsOf(ph) ==
    CASE ph = "idle"  -> {"idle"}
      [] ph = "start" -> {"countdown", "probe", "selected", "clocked", "option",
                          "check", "retry", "unpowered", "settle"}
      [] ph = "read"  -> {"sample", "selected", "clocked", "answer", "bytes",
                          "bytes_end"}
      [] ph = "stop"  -> {"countdown", "probe", "selected", "clocked", "option",
                          "check", "retry", "off", "release"}

CallsOf(ph) ==
    CASE ph = "idle"  -> {}
      [] ph = "start" -> {<<PowerCmd, "option">>, <<OptionOn, "check">>}
      [] ph = "read"  -> {<<HistogramCmd, "answer">>}
      [] ph = "stop"  -> {<<PowerCmd, "option">>, <<OptionOff, "check">>}

ControlInv ==
    /\ pc \in PointsOf(phase)
    /\ pc \in {"selected", "clocked"} => <<cmd, ret>> \in CallsOf(phase)

\* The relay is off between sessions, before opc_start switches it on, during a
\* power cycle, and once opc_stop has switched it off.
Unpowered == \/ phase = "idle"
             \/ phase = "start" /\ pc \in {"countdown", "unpowered"}
             \/ pc = "release"

PowerInv ==
    /\ relay = IF Unpowered THEN 0 ELSE 1
    /\ relay = 0 => armed = 0 /\ fan = 0

\* How a confirmed start is known to be one: READY arms the unit, the option
\* reaches it armed, and only then does an ACK mean that the fan runs.  Likewise
\* for a confirmed stop.
RunningInv ==
    /\ pc = "clocked" /\ cmd = PowerCmd /\ rx = READY => armed = 1
    /\ pc = "option" /\ rx = READY => armed = 1
    /\ pc = "selected" /\ ret = "check" /\ r1 = READY => armed = 1
    /\ phase = "start" /\ pc = "clocked" /\ ret = "check" /\ Confirmed => fan = 1
    /\ phase = "start" /\ pc = "check" /\ Confirmed => fan = 1
    /\ phase = "start" /\ pc = "settle" => fan = 1
    /\ phase = "read" => fan = 1
    /\ phase = "stop" /\ pc = "clocked" /\ ret = "check" /\ Confirmed => fan = 0
    /\ phase = "stop" /\ pc = "check" /\ Confirmed => fan = 0
    /\ pc = "off" /\ Confirmed => fan = 0
    /\ pc = "retry" => ~Confirmed

PollInv ==
    /\ c <= PollLimit + 1
    /\ phase = "start" /\ relay = 1 =>
          IF pc = "retry" THEN polls = c \/ polls = c + 1
                          ELSE polls = c \/ polls = c - 1

LineInv ==
    /\ phase = "idle" => ss = 0 /\ mosi = 0
    /\ phase \in {"read", "stop"} /\ ~InTransfer => ss = 1
    /\ pc \in {"option", "check", "retry", "settle"} => ss = 1

SumInv ==
    /\ phase = "read" => /\ s <= Samples
                         /\ pc # "sample" => s < Samples
                         /\ summed = IF s > Skip THEN s - Skip ELSE 0
    /\ phase = "stop" => summed = Div

IInv == /\ TypeOK
        /\ ControlInv
        /\ PowerInv
        /\ RunningInv
        /\ PollInv
        /\ LineInv
        /\ SumInv
-----------------------------------------------------------------------------

\* The bounds on the parameters, in the form the steps below use them.
LEMMA Bounds == /\ Samples \in Int /\ Skip \in Int /\ PollLimit \in Int
                /\ 0 <= Skip /\ Skip < Samples /\ Samples <= 255
                /\ 0 <= PollLimit /\ PollLimit <= 253
  BY OpcAssumption

\* A uint8_t below its maximum is incremented without wrapping.
LEMMA IncrementExact == ASSUME NEW n \in 0..254 PROVE Increment(n) = n + 1
  BY DEF Increment

\* Init establishes the inductive invariant.
LEMMA InitInductive == Init => IInv
<1> SUFFICES ASSUME Init PROVE IInv
  OBVIOUS
<1> USE Bounds
    DEF Init, Phases, Points, Commands, Replies, PointsOf, CallsOf, Unpowered,
        InTransfer, Confirmed, PowerCmd, OptionOn, OptionOff, HistogramCmd,
        READY, ACK, MaxPolls
<1>1. TypeOK
  BY DEF TypeOK
<1>2. ControlInv
  BY DEF ControlInv
<1>3. PowerInv
  BY DEF PowerInv
<1>4. RunningInv
  BY DEF RunningInv
<1>5. PollInv
  BY DEF PollInv
<1>6. LineInv
  BY DEF LineInv
<1>7. SumInv
  BY DEF SumInv
<1>. QED
  BY <1>1, <1>2, <1>3, <1>4, <1>5, <1>6, <1>7 DEF IInv

\* Every step of the driver preserves it.
LEMMA StepInductive == IInv /\ [Next]_vars => IInv'
<1> SUFFICES ASSUME IInv, [Next]_vars PROVE IInv'
  OBVIOUS
<1> USE Bounds
    DEF IInv, TypeOK, ControlInv, PowerInv, RunningInv, PollInv, LineInv,
        SumInv, Phases, Points, Commands, Replies, PointsOf, CallsOf,
        Unpowered, InTransfer, Confirmed, PowerCmd, OptionOn, OptionOff,
        HistogramCmd, READY, ACK, MaxPolls, pinVars, unitVars, callVars, pollVars,
        readVars, dataVars, Goto, Raised
<1>1. ASSUME Begin PROVE IInv'
  BY <1>1 DEF Begin
<1>2. ASSUME phase \in {"start", "stop"}, RelayOn PROVE IInv'
  BY <1>2 DEF RelayOn
<1>3. ASSUME phase \in {"start", "stop"}, Probe PROVE IInv'
  BY <1>3 DEF Probe, SendCommand
<1>4. ASSUME phase = "start", SendOption(OptionOn) PROVE IInv'
  BY <1>4 DEF SendOption, SendCommand
<1>5. ASSUME phase = "stop", SendOption(OptionOff) PROVE IInv'
  BY <1>5 DEF SendOption, SendCommand
<1>6. ASSUME phase = "start", StartReady PROVE IInv'
  BY <1>6 DEF StartReady
<1>7. ASSUME phase \in {"start", "stop"}, NotReady PROVE IInv'
  BY <1>7 DEF NotReady
<1>8. ASSUME phase \in {"start", "stop"}, PollAgain PROVE IInv'
  <2>1. TypeOK'
    BY <1>8 DEF PollAgain, PollCounted, OutOfPatience, Increment
  <2>2. ControlInv'
    BY <1>8 DEF PollAgain, PollCounted, OutOfPatience, Increment
  <2>3. PowerInv'
    BY <1>8 DEF PollAgain, PollCounted, OutOfPatience, Increment
  <2>4. RunningInv'
    BY <1>8 DEF PollAgain, PollCounted, OutOfPatience, Increment
  <2>5. PollInv'
    <3>1. c \in 0..254 /\ c' = c + 1
      BY <1>8, IncrementExact DEF PollAgain, PollCounted, OutOfPatience
    <3>2. c <= PollLimit
      BY <1>8 DEF PollAgain, OutOfPatience
    <3>3. c' <= PollLimit + 1
      BY <3>1, <3>2
    <3>4. ASSUME phase' = "start", relay' = 1 PROVE polls' = c' \/ polls' = c' - 1
      <4>1. polls = c \/ polls = c + 1
        BY <1>8, <3>4 DEF PollAgain
      <4>. QED
        BY <1>8, <3>1, <4>1 DEF PollAgain
    <3>5. pc' = "probe"
      BY <1>8 DEF PollAgain
    <3>. QED
      BY <3>3, <3>4, <3>5
  <2>6. LineInv'
    BY <1>8 DEF PollAgain, PollCounted, OutOfPatience, Increment
  <2>7. SumInv'
    BY <1>8 DEF PollAgain, PollCounted, OutOfPatience, Increment
  <2>. QED
    BY <2>1, <2>2, <2>3, <2>4, <2>5, <2>6, <2>7
<1>9. ASSUME phase = "start", PowerCycle PROVE IInv'
  <2>1. TypeOK'
    BY <1>9 DEF PowerCycle, OutOfPatience, CutPower
  <2>2. ControlInv'
    BY <1>9 DEF PowerCycle, OutOfPatience, CutPower
  <2>3. PowerInv'
    BY <1>9 DEF PowerCycle, OutOfPatience, CutPower
  <2>4. RunningInv'
    BY <1>9 DEF PowerCycle, OutOfPatience, CutPower
  <2>5. PollInv'
    BY <1>9 DEF PowerCycle, OutOfPatience, CutPower
  <2>6. LineInv'
    BY <1>9 DEF PowerCycle, OutOfPatience, CutPower
  <2>7. SumInv'
    BY <1>9 DEF PowerCycle, OutOfPatience, CutPower
  <2>. QED
    BY <2>1, <2>2, <2>3, <2>4, <2>5, <2>6, <2>7
<1>10. ASSUME phase = "start", PowerBack PROVE IInv'
  BY <1>10 DEF PowerBack, SupplyBack, CountAfterCycle, Increment
<1>11. ASSUME NEW r \in Replies, Answer(r) PROVE IInv'
  <2>1. TypeOK'
    BY <1>11 DEF Answer, UnitAnswers
  <2>2. ControlInv'
    BY <1>11 DEF Answer, UnitAnswers
  <2>3. PowerInv'
    BY <1>11 DEF Answer, UnitAnswers
  <2>4. RunningInv'
    BY <1>11 DEF Answer, UnitAnswers
  <2>5. PollInv'
    BY <1>11 DEF Answer, UnitAnswers
  <2>6. LineInv'
    BY <1>11 DEF Answer, UnitAnswers
  <2>7. SumInv'
    BY <1>11 DEF Answer, UnitAnswers
  <2>. QED
    BY <2>1, <2>2, <2>3, <2>4, <2>5, <2>6, <2>7
<1>12. ASSUME Deselect PROVE IInv'
  BY <1>12 DEF Deselect
<1>13. ASSUME ReadBegin PROVE IInv'
  BY <1>13 DEF ReadBegin, Div
<1>14. ASSUME phase = "read", RequestSample PROVE IInv'
  BY <1>14 DEF RequestSample, SendCommand
<1>15. ASSUME phase = "read", SelectForBytes PROVE IInv'
  BY <1>15 DEF SelectForBytes
<1>16. ASSUME phase = "read", ReadBytes PROVE IInv'
  <2>1. TypeOK'
    BY <1>16 DEF ReadBytes
  <2>2. ControlInv'
    BY <1>16 DEF ReadBytes
  <2>3. PowerInv'
    BY <1>16 DEF ReadBytes
  <2>4. RunningInv'
    BY <1>16 DEF ReadBytes
  <2>5. PollInv'
    BY <1>16 DEF ReadBytes
  <2>6. LineInv'
    BY <1>16 DEF ReadBytes
  <2>7. SumInv'
    BY <1>16 DEF ReadBytes
  <2>. QED
    BY <2>1, <2>2, <2>3, <2>4, <2>5, <2>6, <2>7
<1>17. ASSUME phase = "read", SampleRead PROVE IInv'
  <2>0. /\ s \in 0..254 /\ s < Samples /\ s' = s + 1
        /\ summed' = IF s > Skip - 1 THEN summed + 1 ELSE summed
        /\ summed' \in 0..(Samples - Skip)
        /\ stale' \in 0..summed'
    <3>1. s \in 0..254 /\ s < Samples
      BY <1>17 DEF SampleRead
    <3>2. summed \in 0..(Samples - Skip - 1)
      BY <1>17, <3>1 DEF SampleRead
    <3>3. s' = s + 1
      BY <1>17, <3>1, IncrementExact DEF SampleRead, Accumulate
    <3>. QED
      BY <1>17, <3>1, <3>2, <3>3 DEF SampleRead, Accumulate, Counts
  <2>1. TypeOK'
    BY <1>17, <2>0 DEF SampleRead, Accumulate, Counts
  <2>2. ControlInv'
    BY <1>17 DEF SampleRead, Accumulate, Increment
  <2>3. PowerInv'
    BY <1>17 DEF SampleRead, Accumulate, Increment
  <2>4. RunningInv'
    BY <1>17 DEF SampleRead, Accumulate, Increment
  <2>5. PollInv'
    BY <1>17 DEF SampleRead, Accumulate, Increment
  <2>6. LineInv'
    BY <1>17 DEF SampleRead, Accumulate, Increment
  <2>7. SumInv'
    BY <1>17, <2>0 DEF SampleRead, Accumulate, Counts
  <2>. QED
    BY <2>1, <2>2, <2>3, <2>4, <2>5, <2>6, <2>7
<1>18. ASSUME phase = "read", SampleMissed PROVE IInv'
  <2>0. /\ s \in 0..254 /\ s < Samples /\ s' = s + 1
        /\ summed' = IF s > Skip - 1 THEN summed + 1 ELSE summed
        /\ summed' \in 0..(Samples - Skip)
        /\ stale' \in 0..summed'
    <3>1. s \in 0..254 /\ s < Samples
      BY <1>18 DEF SampleMissed
    <3>2. summed \in 0..(Samples - Skip - 1)
      BY <1>18, <3>1 DEF SampleMissed
    <3>3. s' = s + 1
      BY <1>18, <3>1, IncrementExact DEF SampleMissed, Accumulate
    <3>. QED
      BY <1>18, <3>1, <3>2, <3>3 DEF SampleMissed, Accumulate, Counts
  <2>1. TypeOK'
    BY <1>18, <2>0 DEF SampleMissed, Accumulate, Counts
  <2>2. ControlInv'
    BY <1>18 DEF SampleMissed, Accumulate, Increment
  <2>3. PowerInv'
    BY <1>18 DEF SampleMissed, Accumulate, Increment
  <2>4. RunningInv'
    BY <1>18 DEF SampleMissed, Accumulate, Increment
  <2>5. PollInv'
    BY <1>18 DEF SampleMissed, Accumulate, Increment
  <2>6. LineInv'
    BY <1>18 DEF SampleMissed, Accumulate, Increment
  <2>7. SumInv'
    BY <1>18, <2>0 DEF SampleMissed, Accumulate, Counts
  <2>. QED
    BY <2>1, <2>2, <2>3, <2>4, <2>5, <2>6, <2>7
<1>19. ASSUME phase = "read", ReadReturn PROVE IInv'
  <2>1. TypeOK'
    BY <1>19 DEF ReadReturn, Div
  <2>2. ControlInv'
    BY <1>19 DEF ReadReturn, Div
  <2>3. PowerInv'
    BY <1>19 DEF ReadReturn, Div
  <2>4. RunningInv'
    BY <1>19 DEF ReadReturn, Div
  <2>5. PollInv'
    BY <1>19 DEF ReadReturn, Div
  <2>6. LineInv'
    BY <1>19 DEF ReadReturn, Div
  <2>7. SumInv'
    <3>1. s = Samples /\ s > Skip
      BY <1>19 DEF ReadReturn
    <3>2. summed = Div
      BY <1>19, <3>1 DEF Div
    <3>. QED
      BY <1>19, <3>2 DEF ReadReturn
  <2>. QED
    BY <2>1, <2>2, <2>3, <2>4, <2>5, <2>6, <2>7
<1>20. ASSUME phase = "stop", StopConfirmed PROVE IInv'
  BY <1>20 DEF StopConfirmed
<1>21. ASSUME phase = "stop", GiveUp PROVE IInv'
  BY <1>21 DEF GiveUp
<1>22. ASSUME phase = "stop", RelayOff PROVE IInv'
  <2>1. TypeOK'
    BY <1>22 DEF RelayOff, CutPower
  <2>2. ControlInv'
    BY <1>22 DEF RelayOff, CutPower
  <2>3. PowerInv'
    BY <1>22 DEF RelayOff, CutPower
  <2>4. RunningInv'
    BY <1>22 DEF RelayOff, CutPower
  <2>5. PollInv'
    BY <1>22 DEF RelayOff, CutPower
  <2>6. LineInv'
    BY <1>22 DEF RelayOff, CutPower
  <2>7. SumInv'
    BY <1>22 DEF RelayOff, CutPower
  <2>. QED
    BY <2>1, <2>2, <2>3, <2>4, <2>5, <2>6, <2>7
<1>23. ASSUME opc_release PROVE IInv'
  <2>1. TypeOK'
    BY <1>23 DEF opc_release, MosiReleased
  <2>2. ControlInv'
    BY <1>23 DEF opc_release, MosiReleased
  <2>3. PowerInv'
    BY <1>23 DEF opc_release, MosiReleased
  <2>4. RunningInv'
    BY <1>23 DEF opc_release, MosiReleased
  <2>5. PollInv'
    BY <1>23 DEF opc_release, MosiReleased
  <2>6. LineInv'
    BY <1>23 DEF opc_release, MosiReleased
  <2>7. SumInv'
    BY <1>23 DEF opc_release, MosiReleased
  <2>. QED
    BY <2>1, <2>2, <2>3, <2>4, <2>5, <2>6, <2>7
<1>24. CASE UNCHANGED vars
  BY <1>24 DEF vars
<1>25. CASE opc_start
  BY <1>2, <1>3, <1>4, <1>6, <1>7, <1>8, <1>9, <1>10, <1>25 DEF opc_start
<1>26. CASE opc_send_command
  BY <1>11, <1>12, <1>26 DEF opc_send_command, Transceive
<1>27. CASE opc_read_histogram
  BY <1>14, <1>15, <1>16, <1>17, <1>18, <1>19, <1>27 DEF opc_read_histogram
<1>28. CASE opc_stop
  BY <1>2, <1>3, <1>5, <1>7, <1>8, <1>20, <1>21, <1>22, <1>28 DEF opc_stop
<1>. HIDE DEF IInv
<1>. QED
  BY <1>1, <1>13, <1>23, <1>24, <1>25, <1>26, <1>27, <1>28 DEF Next
-----------------------------------------------------------------------------

\* The inductive invariant holds in every reachable state.
THEOREM Inductive == Spec => []IInv
<1>1. Init => IInv
  BY InitInductive
<1>2. IInv /\ [Next]_vars => IInv'
  BY StepInductive
<1>. QED
  BY <1>1, <1>2, PTL DEF Spec

\* The variables of the driver keep their types: both uint8_t counters stay in
\* range, and no more samples are counted stale than were added up.
THEOREM TypeCorrect == Spec => []TypeOK
<1>1. IInv => TypeOK
  BY DEF IInv
<1>. QED
  BY <1>1, Inductive, PTL

\* No byte is clocked into an unpowered unit.
THEOREM NoUnpoweredTransfer == Spec => []PoweredWhenClocked
<1>1. IInv => PoweredWhenClocked
  BY DEF IInv, TypeOK, ControlInv, PowerInv, PointsOf, Phases, Unpowered,
     PoweredWhenClocked, InTransfer
<1>. QED
  BY <1>1, Inductive, PTL

\* Transfers with a running unit are framed by the slave-select line.
THEOREM TransfersFramed == Spec => []FramesSeparated
<1>1. IInv => FramesSeparated
  BY DEF IInv, LineInv, FramesSeparated
<1>. QED
  BY <1>1, Inductive, PTL

\* Between sessions every line that could feed the unit is low.
THEOREM IdleQuiet == Spec => []QuietWhenIdle
<1>1. IInv => QuietWhenIdle
  BY DEF IInv, PowerInv, LineInv, Unpowered, QuietWhenIdle
<1>. QED
  BY <1>1, Inductive, PTL

\* opc_read_histogram only ever talks to a powered unit whose fan runs.
THEOREM HistogramOfRunningUnit == Spec => []ReadsRunningUnit
<1>1. IInv => ReadsRunningUnit
  BY DEF IInv, PowerInv, RunningInv, ControlInv, PointsOf, Unpowered,
     ReadsRunningUnit
<1>. QED
  BY <1>1, Inductive, PTL

\* The divisor of the average is the number of samples added up, for every
\* sample count greater than SKIP.
THEOREM AverageDivisor == Spec => []AverageOverCounted
<1>1. IInv => AverageOverCounted
  BY DEF IInv, SumInv, AverageOverCounted
<1>. QED
  BY <1>1, Inductive, PTL

\* The poll counter stays within one of its limit, so that it never wraps.
THEOREM PollsBounded == Spec => []PatienceBounded
<1>1. IInv => PatienceBounded
  BY Bounds DEF IInv, TypeOK, PollInv, PatienceBounded
<1>. QED
  BY <1>1, Inductive, PTL

\* A power cycle of opc_start is always the outcome of PollLimit + 1 failed polls
\* since the unit was last powered.
THEOREM CyclesEarned == Spec => PowerCycleEarned
<1>1. ASSUME IInv, [Next]_vars, phase = "start", relay = 1, relay' = 0
      PROVE  polls >= PollLimit + 1
  <2>1. PowerCycle \/ pc = "off"
    BY <1>1 DEF Next, vars, Begin, opc_start, opc_send_command, ReadBegin,
       opc_read_histogram, opc_stop, opc_release, RelayOn, Probe, SendOption,
       StartReady, NotReady, PollAgain, PowerBack, SupplyBack, Transceive, Answer,
       Deselect, Goto, pinVars, dataVars
  <2>2. pc = "retry" /\ c > PollLimit
    BY <1>1, <2>1 DEF PowerCycle, OutOfPatience, Goto, IInv, ControlInv, PointsOf
  <2>. QED
    BY <1>1, <2>2, Bounds DEF IInv, TypeOK, PollInv
<1>2. IInv /\ [Next]_vars
      => [phase = "start" /\ relay = 1 /\ relay' = 0 => polls >= PollLimit + 1]_vars
  BY <1>1
<1>. QED
  BY <1>2, Inductive, PTL DEF Spec, PowerCycleEarned

\* A confirmed shutdown has switched the fan off before the relay is opened.
THEOREM StopsObeyed == Spec => []ConfirmedStopObeyed
<1>1. IInv => ConfirmedStopObeyed
  BY DEF IInv, RunningInv, ConfirmedStopObeyed
<1>. QED
  BY <1>1, Inductive, PTL

-----------------------------------------------------------------------------
(* The bound on the steps of a session                                     *)

\* The ranges of what is left in a poll and in a sample.
LEMMA StepsRange == PollSteps \in 1..8 /\ SampleSteps \in 1..6
  BY DEF PollSteps, SampleSteps

\* The bound is a number, as the polls and samples that are left are.
LEMMA StepsLeftNat == IInv => StepsLeft \in Nat
<1> SUFFICES ASSUME IInv PROVE StepsLeft \in Nat
  OBVIOUS
<1>1. c \in Int /\ c <= PollLimit + 1 /\ s \in Int /\ phase \in Phases
  BY DEF IInv, TypeOK, PollInv
<1>2. PollSteps \in 1..8 /\ SampleSteps \in 1..6
  BY StepsRange
<1>3. PollsLeft \in Nat /\ PollsMax \in Nat /\ StopMax \in Nat /\ ReadMax \in Nat
  BY <1>1, <1>2, Bounds DEF PollsLeft, PollsMax, StopMax, ReadMax
<1>4. phase = "read" => s <= Samples
  BY DEF IInv, SumInv
<1>. QED
  BY <1>1, <1>2, <1>3, <1>4, Bounds DEF StepsLeft, Phases

\* A step within the poll, as opc_start and opc_stop share it, or the next poll.
LEMMA PollCloser ==
    ASSUME IInv, phase \in {"start", "stop"}, phase' = phase,
           pc \in {"probe", "selected", "clocked", "option", "check", "retry"},
           pc' \in {"probe", "selected", "clocked", "option", "check", "retry"},
           \/ c' = c /\ PollSteps' < PollSteps
           \/ c' = c + 1 /\ pc = "retry"
    PROVE  StepsLeft' < StepsLeft
<1>1. PollSteps \in 1..8 /\ PollSteps' \in 1..8
  BY DEF PollSteps
<1>2. pc = "retry" => PollSteps = 1
  BY DEF PollSteps
<1>3. c \in Int
  BY DEF IInv, TypeOK
<1>4. PollsLeft' < PollsLeft /\ PollsLeft \in Int /\ PollsLeft' \in Int
  BY <1>1, <1>2, <1>3, Bounds DEF PollsLeft
<1>5. ReadMax \in Int
  BY Bounds DEF ReadMax, StopMax, PollsMax
<1>. QED
  BY <1>4, <1>5 DEF StepsLeft

\* A step within a sample, or the next sample.
LEMMA SampleCloser ==
    ASSUME IInv, phase = "read", phase' = phase,
           \/ s' = s /\ SampleSteps' < SampleSteps
           \/ s' = s + 1
    PROVE  StepsLeft' < StepsLeft
<1>1. SampleSteps \in 1..6 /\ SampleSteps' \in 1..6
  BY DEF SampleSteps
<1>2. s \in Int /\ StopMax \in Int /\ Samples \in Int
  BY Bounds DEF IInv, TypeOK, StopMax, PollsMax
<1>. QED
  BY <1>1, <1>2 DEF StepsLeft

\* Every step but the first of a session and the return of the power uses up
\* at least one of the steps left.
LEMMA StepCloser ==
    ASSUME IInv, Next, phase # "idle", pc # "unpowered"
    PROVE  StepsLeft' < StepsLeft
<1>1. /\ c \in 0..254 /\ c <= PollLimit + 1 /\ s \in Int /\ phase \in Phases
      /\ pc \in PointsOf(phase)
  BY Bounds DEF IInv, TypeOK, PollInv, ControlInv
<1>2. /\ PollsMax \in Nat /\ StopMax = PollsMax + 2 /\ ReadMax \in Int
      /\ StopMax < ReadMax
  BY Bounds DEF PollsMax, StopMax, ReadMax
<1>3. PollsLeft \in Nat /\ PollsLeft > 0
  BY <1>1, StepsRange, Bounds DEF PollsLeft
<1>4. ASSUME phase \in {"start", "stop"}, RelayOn PROVE StepsLeft' < StepsLeft
  <2>1. PollsLeft' < PollsMax /\ PollsLeft' \in Int
    BY <1>4, Bounds DEF RelayOn, Goto, PollsLeft, PollSteps, PollsMax
  <2>. QED
    BY <1>2, <1>4, <2>1 DEF RelayOn, Goto, StepsLeft
<1>5. ASSUME phase \in {"start", "stop"}, Probe PROVE StepsLeft' < StepsLeft
  BY <1>5, PollCloser DEF Probe, SendCommand, pollVars, PollSteps
<1>6. ASSUME phase \in {"start", "stop"}, NEW b, SendOption(b)
      PROVE  StepsLeft' < StepsLeft
  BY <1>6, PollCloser DEF SendOption, SendCommand, PollSteps
<1>7. ASSUME phase \in {"start", "stop"}, NotReady PROVE StepsLeft' < StepsLeft
  BY <1>7, PollCloser DEF NotReady, Goto, pollVars, PollSteps
<1>8. ASSUME phase \in {"start", "stop"}, PollAgain PROVE StepsLeft' < StepsLeft
  BY <1>1, <1>8, IncrementExact, PollCloser DEF PollAgain, PollCounted, Goto
<1>9. ASSUME phase = "start", StartReady PROVE StepsLeft' < StepsLeft
  BY <1>2, <1>3, <1>9 DEF StartReady, dataVars, Goto, StepsLeft, ReadMax, StopMax, PollsMax
<1>10. ASSUME phase = "start", PowerCycle PROVE StepsLeft' < StepsLeft
  BY <1>2, <1>3, <1>10 DEF PowerCycle, Goto, StepsLeft
<1>11. CASE opc_start
  <2>1. ~PowerBack
    BY DEF PowerBack, Goto
  <2>. QED
    BY <1>4, <1>5, <1>6, <1>7, <1>8, <1>9, <1>10, <1>11, <2>1 DEF opc_start
<1>12. ASSUME NEW r \in Replies, Answer(r) PROVE StepsLeft' < StepsLeft
  <2>1. CASE phase \in {"start", "stop"}
    BY <1>12, <2>1, PollCloser DEF Answer, Goto, callVars, PollSteps
  <2>2. CASE phase = "read"
    BY <1>12, <2>2, SampleCloser DEF Answer, Goto, readVars, SampleSteps
  <2>. QED
    BY <1>1, <2>1, <2>2 DEF Phases
<1>13. CASE Deselect
  <2>1. <<cmd, ret>> \in CallsOf(phase)
    BY <1>13 DEF Deselect, Goto, IInv, ControlInv
  <2>2. CASE phase \in {"start", "stop"}
    <3>1. ret \in {"option", "check"}
      BY <2>1, <2>2 DEF CallsOf
    <3>. QED
      BY <1>13, <2>2, <3>1, PollCloser DEF Deselect, Goto, pollVars, PollSteps
  <2>3. CASE phase = "read"
    <3>1. ret = "answer"
      BY <2>1, <2>3 DEF CallsOf
    <3>. QED
      BY <1>13, <2>3, <3>1, SampleCloser DEF Deselect, Goto, readVars, SampleSteps
  <2>. QED
    BY <1>1, <2>2, <2>3 DEF Phases
<1>14. CASE ReadBegin
  BY <1>2, <1>14, Bounds DEF ReadBegin, Goto, StepsLeft, SampleSteps, ReadMax
<1>15. CASE opc_read_histogram
  <2>1. CASE RequestSample \/ SelectForBytes \/ ReadBytes
    BY <1>15, <2>1, SampleCloser DEF opc_read_histogram, RequestSample, SendCommand,
       SelectForBytes, ReadBytes, Goto, readVars, SampleSteps
  <2>2. CASE SampleRead \/ SampleMissed
    <3>1. s \in 0..254 /\ Increment(s) = s + 1
      BY <1>15, <2>2, IncrementExact, Bounds DEF opc_read_histogram, SampleRead,
         SampleMissed, Goto, IInv, TypeOK, SumInv
    <3>. QED
      BY <1>15, <2>2, <3>1, SampleCloser DEF opc_read_histogram, SampleRead,
         SampleMissed, Accumulate
  <2>3. CASE ReadReturn
    <3>1. s = Samples
      BY <1>1, <1>15, <2>3, Bounds DEF opc_read_histogram, ReadReturn, Goto, IInv, SumInv
    <3>. QED
      BY <1>2, <1>15, <2>3, <3>1, Bounds DEF opc_read_histogram, ReadReturn, Goto,
         StepsLeft, SampleSteps
  <2>. QED
    BY <1>15, <2>1, <2>2, <2>3 DEF opc_read_histogram
<1>16. CASE opc_stop
  <2>1. CASE StopConfirmed \/ GiveUp
    BY <1>3, <1>16, <2>1 DEF opc_stop, StopConfirmed, GiveUp, dataVars, Goto, StepsLeft
  <2>2. CASE RelayOff
    BY <1>16, <2>2 DEF opc_stop, RelayOff, Goto, StepsLeft
  <2>. QED
    BY <1>4, <1>5, <1>6, <1>7, <1>8, <1>16, <2>1, <2>2 DEF opc_stop
<1>17. CASE opc_release
  BY <1>17 DEF opc_release, Goto, StepsLeft
<1>18. ~Begin
  BY <1>1 DEF Begin, Goto, PointsOf, Phases
<1>. QED
  BY <1>11, <1>12, <1>13, <1>14, <1>15, <1>16, <1>17, <1>18
  DEF Next, opc_send_command, Transceive

\* Only a power cycle of opc_start prolongs a session: opc_stop and
\* opc_read_histogram end within StepsLeft blocking calls whatever the unit
\* answers, for every sample count and poll limit.
THEOREM SessionsBounded == Spec => OnlyCyclesProlong
<1>1. IInv /\ [Next]_vars
      => [/\ StepsLeft \in Nat
          /\ phase = "idle" \/ pc = "unpowered" \/ StepsLeft' < StepsLeft]_vars
  BY StepsLeftNat, StepCloser
<1>. QED
  BY <1>1, Inductive, PTL DEF Spec, OnlyCyclesProlong

-----------------------------------------------------------------------------
(* Refinement                                                              *)

\* Every step of the driver is a step of the abstract session or none.
LEMMA StepImplements == IInv /\ [Next]_vars => [Session!SessionNext]_(Session!sessionVars)
<1> SUFFICES ASSUME IInv, [Next]_vars
             PROVE  [Session!SessionNext]_(Session!sessionVars)
  OBVIOUS
<1> USE DEF Session!SessionNext, Session!sessionVars, IInv, TypeOK, Goto, pinVars,
        unitVars, dataVars
<1>1. CASE Begin
  BY <1>1 DEF Begin, ControlInv, PointsOf, Phases, pinVars, unitVars, Session!SessionBegin
<1>2. CASE opc_start
  <2>1. CASE RelayOn
    BY <1>2, <2>1 DEF opc_start, RelayOn, PowerInv, Unpowered, unitVars,
       Session!SessionPowerOn
  <2>2. CASE PowerBack
    BY <1>2, <2>2 DEF opc_start, PowerBack, SupplyBack, PowerInv, Unpowered,
       Session!SessionPowerOn
  <2>3. CASE PowerCycle
    BY <1>2, <2>3 DEF opc_start, PowerCycle, CutPower, PowerInv, Unpowered,
       Session!SessionPowerCycle
  <2>4. CASE Probe \/ SendOption(OptionOn) \/ StartReady \/ NotReady \/ PollAgain
    BY <2>4 DEF Probe, SendOption, SendCommand, StartReady, NotReady, PollAgain,
       pinVars, unitVars
  <2>. QED
    BY <1>2, <2>1, <2>2, <2>3, <2>4 DEF opc_start
<1>3. CASE Deselect
  BY <1>3 DEF Deselect, unitVars
<1>4. ASSUME NEW r \in Replies, Answer(r)
      PROVE  [Session!SessionNext]_(Session!sessionVars)
  <2>1. UNCHANGED <<phase, relay>> /\ relay = 1
    BY <1>4 DEF Answer, PowerInv, Unpowered, ControlInv, PointsOf, Phases
  <2>2. CASE fan' = fan
    BY <2>1, <2>2
  <2>3. CASE fan' # fan
    <3>1. cmd \in {OptionOn, OptionOff} /\ fan' = IF cmd = OptionOn THEN 1 ELSE 0
      BY <1>4, <2>3 DEF Answer, UnitAnswers
    <3>2. \/ phase = "start" /\ cmd = OptionOn
          \/ phase = "stop" /\ cmd = OptionOff
      BY <1>4, <3>1 DEF Answer, ControlInv, PointsOf, CallsOf, Phases, PowerCmd,
         OptionOn, OptionOff, HistogramCmd
    <3>. QED
      BY <2>1, <3>1, <3>2 DEF Session!SessionObey, OptionOn, OptionOff
  <2>. QED
    BY <2>2, <2>3
<1>5. CASE ReadBegin
  BY <1>5 DEF ReadBegin, PowerInv, RunningInv, Unpowered, pinVars, unitVars,
     Session!SessionMeasure
<1>6. CASE opc_read_histogram
  <2>1. CASE ReadReturn
    BY <1>6, <2>1 DEF opc_read_histogram, ReadReturn, pinVars, unitVars,
       Session!SessionStop
  <2>2. CASE RequestSample \/ SelectForBytes \/ ReadBytes \/ SampleRead \/ SampleMissed
    BY <2>2 DEF RequestSample, SendCommand, SelectForBytes, ReadBytes, SampleRead,
       SampleMissed, pinVars, unitVars
  <2>. QED
    BY <1>6, <2>1, <2>2 DEF opc_read_histogram
<1>7. CASE opc_stop
  <2>1. CASE RelayOff
    BY <1>7, <2>1 DEF opc_stop, RelayOff, CutPower, PowerInv, Unpowered,
       Session!SessionPowerOff
  <2>2. CASE RelayOn
    BY <1>7, <2>2 DEF opc_stop, RelayOn, PowerInv, Unpowered, unitVars
  <2>3. CASE Probe \/ SendOption(OptionOff) \/ StopConfirmed \/ NotReady
             \/ PollAgain \/ GiveUp
    BY <2>3 DEF Probe, SendOption, SendCommand, StopConfirmed, NotReady, PollAgain,
       GiveUp, pinVars, unitVars
  <2>. QED
    BY <1>7, <2>1, <2>2, <2>3 DEF opc_stop
<1>8. CASE opc_release
  BY <1>8 DEF opc_release, PowerInv, Unpowered, unitVars, Session!SessionEnd
<1>9. CASE UNCHANGED vars
  BY <1>9 DEF vars
<1>. QED
  BY <1>1, <1>2, <1>3, <1>4, <1>5, <1>6, <1>7, <1>8, <1>9
  DEF Next, opc_send_command, Transceive

\* opc.c, with its polls, power cycles and give-ups, implements the session that
\* count_particles relies on, for every parameter.
THEOREM Refinement == Spec => ImplementsSession
<1>1. Init => Session!SessionInit
  BY DEF Init, Session!SessionInit
<1>. QED
  BY <1>1, StepImplements, Inductive, PTL DEF Spec, ImplementsSession, Session!SessionSpec
=============================================================================

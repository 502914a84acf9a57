------------------------------ MODULE OpcDriver ------------------------------
(***************************************************************************)
(* opc.c: the driver of the optical particle counter, as the thread        *)
(* count_particles calls it: opc_init, opc_start, opc_read_histogram,      *)
(* opc_stop, opc_release.  One action is the code between two blocking     *)
(* calls (k_msleep, k_usleep).  The unit at the other end of the SPI bus   *)
(* is external: it may answer any byte at any time, and is modelled by     *)
(* what opc.c relies on, a READY answer to the power command followed by   *)
(* an ACK to the option byte.                                              *)
(***************************************************************************)
EXTENDS Integers

CONSTANTS
    Samples,     \* argument of opc_read_histogram, a uint8_t (7 in main.c)
    Skip,        \* SKIP, the samples left out of the average
    PollLimit    \* polls counted before opc.c loses patience (20)

ASSUME OpcAssumption ==
    /\ Samples \in 1..255
    /\ Skip \in 0..(Samples - 1)
    /\ PollLimit \in 0..253

READY == 243               \* 0xF3
ACK   == 3                 \* 0x03
Replies == {READY, ACK, 0} \* 0 stands for every other byte; 49 (busy) is only logged

PowerCmd     == 3          \* 0x03, introduces an option byte
OptionOn     == 0
OptionOff    == 1
HistogramCmd == 48         \* 0x30
Commands == {PowerCmd, OptionOn, OptionOff, HistogramCmd}

VARIABLES
    phase,    \* the opc.c function in progress
    pc,       \* where the thread sleeps in it
    cmd,      \* tx_buf of opc_send_command
    ret,      \* where opc_send_command returns to
    rx,       \* rx_buf, the byte it returns
    r1,       \* answer to the power command of this poll
    c,        \* the poll counter, a uint8_t
    s,        \* the sample index, a uint8_t
    summed,   \* samples added into result
    stale,    \* of these, samples whose bytes were not read from the unit
    relay,    \* gpiob 3
    ss,       \* gpioa 4, slave select, active low
    mosi,     \* gpioa 7
    armed,    \* the unit: 1 when it expects an option byte
    fan,      \* the unit: 1 when its fan and laser are on
    polls     \* history: failed polls since the relay was last switched on,
              \* counted up to MaxPolls

\* The bound of polls, one above what PatienceBounded allows.
MaxPolls == PollLimit + 3

pinVars  == <<relay, ss, mosi>>
unitVars == <<armed, fan>>
callVars == <<cmd, ret>>
pollVars == <<rx, r1, c>>
readVars == <<s, summed, stale>>
dataVars == <<phase, callVars, pollVars, readVars, pinVars, unitVars, polls>>
vars == <<pc, dataVars>>

Phases == {"idle", "start", "read", "stop"}
Points == {"idle", "countdown", "probe", "selected", "clocked", "option",
           "check", "retry", "unpowered", "settle", "sample", "answer",
           "bytes", "bytes_end", "off", "release"}

TypeOK ==
    /\ phase \in Phases
    /\ pc \in Points
    /\ cmd \in Commands
    /\ ret \in {"option", "check", "answer"}
    /\ rx \in Replies
    /\ r1 \in Replies
    /\ c \in 0..255
    /\ s \in 0..Samples
    /\ summed \in 0..(Samples - Skip)
    /\ stale \in 0..summed
    /\ relay \in {0, 1}
    /\ ss \in {0, 1}
    /\ mosi \in {0, 1}
    /\ armed \in {0, 1}
    /\ fan \in {0, 1}
    /\ polls \in 0..MaxPolls

\* main.c leaves the pins inactive before it creates the thread.
Init ==
    /\ phase = "idle"
    /\ pc = "idle"
    /\ cmd = PowerCmd
    /\ ret = "option"
    /\ rx = 0
    /\ r1 = 0
    /\ c = 0
    /\ s = 0
    /\ summed = 0
    /\ stale = 0
    /\ relay = 0
    /\ ss = 0
    /\ mosi = 0
    /\ armed = 0
    /\ fan = 0
    /\ polls = 0

-----------------------------------------------------------------------------
(* opc_send_command and the unit that answers it                           *)

Goto(from, to) == pc = from /\ pc' = to

\* The slave is selected, then the thread sleeps 4 us.
SendCommand(b, k) ==
    /\ cmd' = b
    /\ ret' = k
    /\ ss' = 0
    /\ pc' = "selected"

\* The unit takes the byte cmd and answers r.  READY to the power command
\* makes it expect an option; it obeys the option when it answers ACK, and may
\* have obeyed when the answer is something else.
UnitAnswers(r) ==
    /\ armed' = IF cmd = PowerCmd /\ r = READY THEN 1 ELSE 0
    /\ IF armed = 1 /\ cmd \in {OptionOn, OptionOff}
       THEN \/ fan' = IF cmd = OptionOn THEN 1 ELSE 0
            \/ r # ACK /\ fan' = fan
       ELSE fan' = fan

\* spi_transceive: eight clocks; MOSI keeps the last bit of the byte.
Answer(r) ==
    /\ Goto("selected", "clocked")
    /\ UnitAnswers(r)
    /\ rx' = r
    /\ mosi' = cmd % 2
    /\ UNCHANGED <<phase, callVars, r1, c, readVars, relay, ss, polls>>

Transceive == \E r \in Replies : Answer(r)

\* Mutant: the line stays down between two transfers.
LeftDown == ss

Raised == 1

Deselect ==
    /\ Goto("clocked", ret)
    /\ ss' = Raised
    /\ UNCHANGED <<phase, callVars, pollVars, readVars, relay, mosi, unitVars, polls>>

-----------------------------------------------------------------------------
(* The poll that opc_start and opc_stop share                              *)

\* The countdown is over: the relay is switched on, in opc_stop too.
RelayOn ==
    /\ Goto("countdown", "probe")
    /\ relay' = 1
    /\ polls' = IF relay = 0 THEN 0 ELSE polls
    /\ r1' = 0
    /\ c' = 0
    /\ UNCHANGED <<phase, callVars, rx, readVars, ss, mosi, unitVars>>

Probe ==
    /\ pc = "probe"
    /\ SendCommand(PowerCmd, "option")
    /\ UNCHANGED <<phase, pollVars, readVars, relay, mosi, unitVars, polls>>

SendOption(b) ==
    /\ pc = "option"
    /\ r1' = rx
    /\ SendCommand(b, "check")
    /\ UNCHANGED <<phase, rx, c, readVars, relay, mosi, unitVars, polls>>

\* Mutant: the answer to the option byte is not looked at.
ConfirmedByFirst == r1 = READY

Confirmed == r1 = READY /\ rx = ACK

\* The poll failed; the thread sleeps before it looks at the counter.
NotReady ==
    /\ ~Confirmed
    /\ Goto("check", "retry")
    /\ polls' = IF polls < MaxPolls THEN polls + 1 ELSE polls
    /\ UNCHANGED <<phase, callVars, pollVars, readVars, pinVars, unitVars>>

\* Mutant: a limit that a uint8_t never exceeds.
PatienceUnlimited == c > 255

OutOfPatience == c > PollLimit

Increment(n) == (n + 1) % 256

\* Mutant: the counter is not incremented.
PollUncounted == c

PollCounted == Increment(c)

\* The next poll; at c = 10 the thread sleeps 5 s more, which changes nothing.
PollAgain ==
    /\ ~OutOfPatience
    /\ Goto("retry", "probe")
    /\ c' = PollCounted
    /\ UNCHANGED <<phase, callVars, rx, r1, readVars, pinVars, unitVars, polls>>

\* gpio_pin_set(gpiob, 3, 0): the unit loses its power and its state.  The
\* four other lines that opc.c clears here are pins of gpiob, not those of SPI.
CutPower ==
    /\ relay' = 0
    /\ armed' = 0
    /\ fan' = 0
    /\ UNCHANGED <<ss, mosi>>

-----------------------------------------------------------------------------
(* opc_init and opc_start                                                  *)

\* opc_init binds the SPI device, which the overlay always provides.
Begin ==
    /\ Goto("idle", "countdown")
    /\ phase' = "start"
    /\ UNCHANGED <<callVars, pollVars, readVars, pinVars, unitVars, polls>>

StartReady ==
    /\ Confirmed
    /\ Goto("check", "settle")
    /\ UNCHANGED dataVars

PowerCycle ==
    /\ OutOfPatience
    /\ Goto("retry", "unpowered")
    /\ CutPower
    /\ UNCHANGED <<phase, callVars, pollVars, readVars, polls>>

\* Mutant: the relay is not switched on again.
SupplyLeft == relay

SupplyBack == 1

\* Mutant: the counter is not reset.
CountHeldOver == Increment(c)

\* c is reset and then counts the poll that led here.
CountAfterCycle == Increment(0)

\* 8 s later.
PowerBack ==
    /\ Goto("unpowered", "probe")
    /\ relay' = SupplyBack
    /\ c' = CountAfterCycle
    /\ polls' = 0
    /\ UNCHANGED <<phase, callVars, rx, r1, readVars, ss, mosi, unitVars>>

opc_start ==
    /\ phase = "start"
    /\ \/ RelayOn
       \/ Probe
       \/ SendOption(OptionOn)
       \/ StartReady
       \/ NotReady
       \/ PollAgain
       \/ PowerCycle
       \/ PowerBack

-----------------------------------------------------------------------------
(* opc_read_histogram                                                      *)

\* opc_start returns after 5 s and opc_read_histogram(Samples) is called.
ReadBegin ==
    /\ phase = "start" /\ phase' = "read"
    /\ Goto("settle", "sample")
    /\ s' = 0
    /\ summed' = 0
    /\ stale' = 0
    /\ UNCHANGED <<callVars, pollVars, pinVars, unitVars, polls>>

RequestSample ==
    /\ pc = "sample"
    /\ s < Samples
    /\ SendCommand(HistogramCmd, "answer")
    /\ UNCHANGED <<phase, pollVars, readVars, relay, mosi, unitVars, polls>>

SelectForBytes ==
    /\ rx = READY
    /\ Goto("answer", "bytes")
    /\ ss' = 0
    /\ UNCHANGED <<phase, callVars, pollVars, readVars, relay, mosi, unitVars, polls>>

\* The 62 bytes of vals; the last bit of the filler byte 0xC0 is 0.
ReadBytes ==
    /\ Goto("bytes", "bytes_end")
    /\ mosi' = 0
    /\ armed' = 0
    /\ UNCHANGED <<phase, callVars, pollVars, readVars, relay, ss, fan, polls>>

\* Mutants: off by one, one sample more is skipped, or one less.
CountsOneLess == s > Skip
CountsOneMore == s >= Skip - 1

\* The sample is one of those added up.
Counts == s > Skip - 1

\* vals is converted and added into result; lost is 1 when vals was not read
\* in this sample, and then holds what the stack held.  5 s later s++.
Accumulate(lost) ==
    /\ summed' = IF Counts THEN summed + 1 ELSE summed
    /\ stale' = IF Counts THEN stale + lost ELSE stale
    /\ s' = Increment(s)

SampleRead ==
    /\ Goto("bytes_end", "sample")
    /\ ss' = Raised
    /\ Accumulate(0)
    /\ UNCHANGED <<phase, callVars, pollVars, relay, mosi, unitVars, polls>>

\* Mutant: a missed sample is tried again, without end.
SampleRetried == rx # READY /\ Goto("answer", "sample") /\ UNCHANGED dataVars

SampleMissed ==
    /\ rx # READY
    /\ Goto("answer", "sample")
    /\ Accumulate(1)
    /\ UNCHANGED <<phase, callVars, pollVars, pinVars, unitVars, polls>>

\* The sums are divided by Div and opc_stop is called.
Div == Samples - Skip

ReadReturn ==
    /\ s >= Samples
    /\ Goto("sample", "countdown")
    /\ phase' = "stop"
    /\ UNCHANGED <<callVars, pollVars, readVars, pinVars, unitVars, polls>>

opc_read_histogram ==
    /\ phase = "read"
    /\ \/ RequestSample
       \/ SelectForBytes
       \/ ReadBytes
       \/ SampleRead
       \/ SampleMissed
       \/ ReadReturn

-----------------------------------------------------------------------------
(* opc_stop and opc_release                                                *)

StopConfirmed ==
    /\ Confirmed
    /\ Goto("check", "off")
    /\ UNCHANGED dataVars

\* Mutant: return in the place of break, the relay is left on.
GiveUpPowered == OutOfPatience /\ Goto("retry", "release") /\ UNCHANGED dataVars

GiveUp ==
    /\ OutOfPatience
    /\ Goto("retry", "off")
    /\ UNCHANGED dataVars

RelayOff ==
    /\ Goto("off", "release")
    /\ CutPower
    /\ UNCHANGED <<phase, callVars, pollVars, readVars, polls>>

opc_stop ==
    /\ phase = "stop"
    /\ \/ RelayOn
       \/ Probe
       \/ SendOption(OptionOff)
       \/ StopConfirmed
       \/ NotReady
       \/ PollAgain
       \/ GiveUp
       \/ RelayOff

\* Mutant: pin 7 is left as the last transfer left it.
MosiKept == mosi

MosiReleased == 0

opc_release ==
    /\ phase = "stop" /\ phase' = "idle"
    /\ Goto("release", "idle")
    /\ ss' = 0
    /\ mosi' = MosiReleased
    /\ UNCHANGED <<callVars, pollVars, readVars, relay, unitVars, polls>>

-----------------------------------------------------------------------------

opc_send_command == Transceive \/ Deselect

Next ==
    \/ Begin
    \/ opc_start
    \/ opc_send_command
    \/ ReadBegin
    \/ opc_read_histogram
    \/ opc_stop
    \/ opc_release

\* Nothing preempts the thread for good: the three workers have one priority
\* and each of them sleeps, so the scheduler keeps running this one.
Spec == Init /\ [][Next]_vars /\ WF_vars(Next)

\* The environment of SessionCompletes: a unit polled again and again answers
\* READY some day, and a unit that is expecting the option some day says ACK.
UnitFairness ==
    /\ SF_vars(phase = "start" /\ cmd = PowerCmd /\ Answer(READY))
    /\ SF_vars(phase = "start" /\ cmd = OptionOn /\ armed = 1 /\ Answer(ACK))

FairSpec == Spec /\ UnitFairness
-----------------------------------------------------------------------------
(* Safety                                                                  *)

\* The SPI lines are driven for the unit: a byte is on its way.
InTransfer == pc \in {"selected", "clocked", "bytes", "bytes_end"}

\* No byte is ever clocked into a unit whose relay is off, whatever the order
\* of failed polls, power cycles and give-ups (opc.c:146-179, 203-230).
PoweredWhenClocked == InTransfer => relay = 1

\* Once the unit runs, each transfer has its own slave-select frame: every path
\* of opc_send_command and of the 62-byte read raises the line it pulled down.
FramesSeparated == phase \in {"read", "stop"} /\ ~InTransfer => ss = 1

\* Between two sessions no line feeds the unit: opc_stop has cut the relay and
\* opc_release has cleared what the last transfer left on the pins.
QuietWhenIdle == phase = "idle" => relay = 0 /\ ss = 0 /\ mosi = 0

\* Histograms are asked of a unit that has switched its fan and laser on since
\* it was last powered: a power cycle in between never goes unnoticed.
ReadsRunningUnit == phase = "read" => relay = 1 /\ fan = 1

\* opc_read_histogram divides by the number of samples it has added up
\* (opc.c:407 against opc.c:419), for every argument greater than SKIP.
AverageOverCounted == phase = "stop" => summed = Div

\* The uint8_t poll counter stays next to its limit, far from wrapping, and a
\* power-on is given up after PollLimit + 2 failed polls at the latest.
PatienceBounded ==
    /\ c <= PollLimit + 1
    /\ phase = "start" /\ relay = 1 => polls <= PollLimit + 2

\* opc_start power-cycles the unit only after PollLimit + 1 failed polls in the
\* current power-on: the counter of an earlier power-on is never held over.
PowerCycleEarned ==
    [][phase = "start" /\ relay = 1 /\ relay' = 0 => polls >= PollLimit + 1]_vars

\* A shutdown that opc_stop takes for confirmed (opc.c:210) is one: the unit has
\* switched its fan and laser off by the time its relay is opened, also when it
\* answered earlier polls half, or obeyed one without saying so.
ConfirmedStopObeyed == pc = "off" /\ Confirmed => fan = 0

\* How many blocking calls of opc_send_command and of the loop around it are
\* left in this poll, and in this sample of opc_read_histogram.
PollSteps ==
    CASE pc = "probe" -> 8
      [] pc = "selected" -> IF ret = "option" THEN 7 ELSE 4
      [] pc = "clocked" -> IF ret = "option" THEN 6 ELSE 3
      [] pc = "option" -> 5
      [] pc = "check" -> 2
      [] OTHER -> 1

SampleSteps ==
    CASE pc = "sample" -> 6
      [] pc = "selected" -> 5
      [] pc = "clocked" -> 4
      [] pc = "answer" -> 3
      [] pc = "bytes" -> 2
      [] OTHER -> 1

PollsLeft == 8 * (PollLimit + 1 - c) + PollSteps
PollsMax == 8 * (PollLimit + 2) + 1
StopMax == PollsMax + 2
ReadMax == StopMax + 6 * Samples + 6

\* At most so many steps of the driver are left before the session ends, or
\* before opc_start power-cycles the unit.
StepsLeft ==
    CASE phase = "idle" -> 0
      [] phase = "stop" -> CASE pc = "release" -> 1
                             [] pc = "off" -> 2
                             [] pc = "countdown" -> StopMax
                             [] OTHER -> PollsLeft + 2
      [] phase = "read" -> StopMax + 6 * (Samples - s) + SampleSteps
      [] phase = "start" -> CASE pc = "unpowered" -> 0
                              [] pc = "settle" -> ReadMax + 1
                              [] pc = "countdown" -> ReadMax + 1 + PollsMax
                              [] OTHER -> ReadMax + 1 + PollsLeft

\* Nothing but a power cycle prolongs a session: whatever the unit answers, each
\* step of opc_start, opc_read_histogram and opc_stop brings its end nearer, or
\* the power cycle, so that neither lasts longer than StepsLeft says.
OnlyCyclesProlong ==
    [][/\ StepsLeft \in Nat
       /\ phase = "idle" \/ pc = "unpowered" \/ StepsLeft' < StepsLeft]_vars

\* The driver implements the session that count_particles relies on.
Session == INSTANCE OpcSession WITH power <- (relay = 1), sampling <- (fan = 1)

ImplementsSession == Session!SessionSpec

-----------------------------------------------------------------------------
(* Liveness                                                                *)

\* opc_stop returns whatever the unit answers, silence and noise included.
StopEnds == phase = "stop" ~> phase = "idle"

\* A unit is never left powered for ever: opc_start has recourse to the relay
\* again and again when the unit does not get ready (opc.c:167-177).
PowerRecurrentlyCut == []<>(relay = 0)

\* With a unit that some day gets ready, a session that has begun comes back
\* to count_particles.
SessionCompletes == phase = "start" ~> phase = "idle"

-----------------------------------------------------------------------------
(* What the comments of opc.c say                                          *)

\* opc.c:202, of the loop of opc_stop: "Iterate until 243 (ready)".  The relay
\* would be switched off only after the unit has answered.
StopIteratesUntilReady == pc = "off" => Confirmed

\* opc.c:418 "Calculate Average", of the samples read from the unit.
AveragesReadSamples == phase = "stop" => stale = 0

\* opc.c:170-173 clear pins 4, 7 and 5 when the relay is cut, and leave out pin 6,
\* the "MISO (input line)": slave select and MOSI are to be low while the unit is
\* without power.  The lines of SPI are pins of gpioa, these are pins of gpiob.
CycleLinesLow == pc = "unpowered" => ss = 0 /\ mosi = 0
=============================================================================

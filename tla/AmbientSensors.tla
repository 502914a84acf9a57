---------------------------- MODULE AmbientSensors ----------------------------
(***************************************************************************)
(* ambient_sensors.c: ambient_sensors_read, which two threads of main.c    *)
(* call for the one BME280.  One action is the code between two points     *)
(* where the thread may block: k_msleep and the I2C transfers inside       *)
(* sensor_sample_fetch.  sensor_channel_get only copies from the memory of *)
(* the driver: the three calls of a sample are one step, and cannot fail.  *)
(*                                                                         *)
(* The BME280 and its driver are external.  The unit measures by itself; a *)
(* value is the number of its measurement.  The driver keeps one sample    *)
(* for all callers; the I2C driver lets one transfer on the bus at a time. *)
(***************************************************************************)
EXTENDS Integers

CONSTANTS
    Threads,    \* the callers of ambient_sensors_read
    Samples,    \* its argument in each thread, a uint8_t (1 in main.c)
    MaxUnit     \* bound: measurements the BME280 takes

ASSUME AmbientAssumption ==
    /\ Samples \in [Threads -> 1..255]
    /\ MaxUnit \in Nat \ {0}

VARIABLES
    unit,       \* the measurement in the registers of the BME280, from 1
    sample,     \* the one in the data of the driver, 0 before the first fetch
    latch,      \* latch[t]: the one that t's burst read is transferring
    at,         \* at[t]: where t sleeps, "idle" outside the function
    i,          \* i[t]: samples added to the sum
    sum,        \* sum[t]: the measurements in it
    since,      \* history, since[t]: unit when the last call of t began
    values      \* values[t]: the measurements averaged in t's amb_sensors

callerVars == <<i, sum, since, values>>
vars == <<unit, sample, latch, at, callerVars>>

AmbientTypeOK ==
    /\ unit \in 1..MaxUnit
    /\ sample \in 0..MaxUnit
    /\ latch \in [Threads -> 0..MaxUnit]
    /\ at \in [Threads -> {"idle", "settle", "status", "burst", "fetched", "failed"}]
    /\ i \in [Threads -> Nat]
    /\ \A t \in Threads : i[t] <= Samples[t]
    /\ sum \in [Threads -> SUBSET (1..MaxUnit)]
    /\ since \in [Threads -> 1..MaxUnit]
    /\ values \in [Threads -> SUBSET (1..MaxUnit)]

\* The threads read for the first time 10 s after boot or later, when the unit
\* has measured; amb_sensors holds zeros until a call succeeds.
Init ==
    /\ unit = 1
    /\ sample = 0
    /\ latch = [t \in Threads |-> 0]
    /\ at = [t \in Threads |-> "idle"]
    /\ i = [t \in Threads |-> 0]
    /\ sum = [t \in Threads |-> {}]
    /\ since = [t \in Threads |-> 1]
    /\ values = [t \in Threads |-> {}]

Goto(t, from, to) == at[t] = from /\ at' = [at EXCEPT ![t] = to]

-----------------------------------------------------------------------------
(* The BME280 and sensor_sample_fetch                                      *)

Measure ==
    /\ unit < MaxUnit
    /\ unit' = unit + 1
    /\ UNCHANGED <<sample, latch, at, callerVars>>

\* The status register has shown an idle unit (until then it is read again every
\* 3 ms); the burst read of the measurement registers begins.
Ready(t) ==
    /\ \A u \in Threads : at[u] # "burst"
    /\ Goto(t, "status", "burst")
    /\ latch' = [latch EXCEPT ![t] = unit]
    /\ UNCHANGED <<unit, sample, callerVars>>

\* The burst is complete: humidity, temperature and pressure are computed before
\* another thread can run, the fetch returns 0 and the thread sleeps 20 ms.
Fetched(t) ==
    /\ Goto(t, "burst", "fetched")
    /\ sample' = latch[t]
    /\ UNCHANGED <<unit, latch, callerVars>>

\* A transfer fails, of the status or of the burst: the fetch returns an error
\* and leaves the sample alone; the thread sleeps 20 ms all the same.
NotFetched(t) ==
    /\ Goto(t, "status", "failed") \/ Goto(t, "burst", "failed")
    /\ UNCHANGED <<unit, sample, latch, callerVars>>

-----------------------------------------------------------------------------
(* ambient_sensors_read                                                    *)

\* Mutant: what an array on the stack would hold from the call before.
SumLeftOver(t) == sum[t]

\* The array sum is not initialised.  In this build its place is taken by three
\* registers of the caller that hold 0, or an address that is 1e-34 as a float:
\* the sum starts empty.
SumAtEntry(t) == {}

Call(t) ==
    /\ Goto(t, "idle", "settle")
    /\ i' = [i EXCEPT ![t] = 0]
    /\ sum' = [sum EXCEPT ![t] = SumAtEntry(t)]
    /\ since' = [since EXCEPT ![t] = unit]
    /\ UNCHANGED <<unit, sample, latch, values>>

\* After 20 ms sensor_sample_fetch is entered.
Fetch(t) ==
    /\ Goto(t, "settle", "status")
    /\ UNCHANGED <<unit, sample, latch, callerVars>>

\* Mutant: the code goes on to the channels whatever the fetch returned.
AnyFetch == {"fetched", "failed"}

\* rc == 0: the points at which the channels are read.
GoodFetch == {"fetched"}

\* Mutant: off by one, the loop runs once more.
LastSampleLate(t) == i[t] >= Samples[t]

LastSample(t) == i[t] + 1 >= Samples[t]

\* The sum with the channels of this sample, which another thread may have
\* fetched during the 20 ms.
SumWith(t) == sum[t] \cup {sample}

AddSample(t) ==
    /\ at[t] \in GoodFetch
    /\ ~LastSample(t)
    /\ at' = [at EXCEPT ![t] = "settle"]
    /\ i' = [i EXCEPT ![t] = @ + 1]
    /\ sum' = [sum EXCEPT ![t] = SumWith(t)]
    /\ UNCHANGED <<unit, sample, latch, since, values>>

\* The last sample is added and the average stored in the caller's array.
Average(t) ==
    /\ at[t] \in GoodFetch
    /\ LastSample(t)
    /\ at' = [at EXCEPT ![t] = "idle"]
    /\ i' = [i EXCEPT ![t] = @ + 1]
    /\ sum' = [sum EXCEPT ![t] = SumWith(t)]
    /\ values' = [values EXCEPT ![t] = SumWith(t)]
    /\ UNCHANGED <<unit, sample, latch, since>>

\* Mutant: a failed fetch is tried again, without end.
RetryFetch(t) ==
    /\ Goto(t, "failed", "settle")
    /\ UNCHANGED <<unit, sample, latch, callerVars>>

\* rc != 0: return, and the caller goes on with the values it has.
GiveUp(t) ==
    /\ Goto(t, "failed", "idle")
    /\ UNCHANGED <<unit, sample, latch, callerVars>>

ambient_sensors_read(t) == Fetch(t) \/ AddSample(t) \/ Average(t) \/ GiveUp(t)

sensor_sample_fetch(t) == Ready(t) \/ Fetched(t) \/ NotFetched(t)

Next ==
    \/ Measure
    \/ \E t \in Threads : Call(t) \/ ambient_sensors_read(t) \/ sensor_sample_fetch(t)

Spec == Init /\ [][Next]_vars

\* The scheduler runs a thread that is ready, and the I2C driver bounds its
\* transfers by a timeout.  A unit that is polled again and again is found idle
\* some day: sensor_sample_fetch has no limit of its own.
FairSpec ==
    /\ Spec
    /\ \A t \in Threads :
          /\ WF_vars(ambient_sensors_read(t) \/ Fetched(t))
          /\ SF_vars(Ready(t))

-----------------------------------------------------------------------------

\* A record never shows older air than its thread had before it called: what the
\* other thread or a failed fetch left in the driver is not used, although 20 ms
\* and the other thread's fetch may lie between fetch and channels
\* (ambient_sensors.c:87-98, main.c:130 and 176).
ValuesOfThisCall ==
    [][\A t \in Threads : values'[t] # values[t] =>
          values'[t] # {} /\ \A m \in values'[t] : since[t] <= m /\ m <= unit]_vars

\* Successive records of a thread do not go back in time, through errors, through
\* repeated values and through what the other thread does.
RecordsAdvance ==
    [][\A t \in Threads : values'[t] # values[t] =>
          \A m \in values[t], n \in values'[t] : m <= n]_vars

\* How many steps of its own a call has at most before it.
SampleSteps(t) == CASE at[t] = "settle" -> 4
                    [] at[t] = "status" -> 3
                    [] at[t] = "burst" -> 2
                    [] OTHER -> 1

StepsLeft(t) ==
    IF at[t] = "idle" THEN 0 ELSE 4 * (Samples[t] - i[t] - 1) + SampleSteps(t)

\* A call is never thrown back, by a fetch that fails or by the other thread on the
\* bus and in the driver: what does not bring it nearer to its end leaves it where
\* it was, so that it returns after as many steps as its samples allow.
CallsMoveOn ==
    [][\A t \in Threads :
          /\ StepsLeft(t) \in Nat
          /\ at[t] # "idle" => \/ StepsLeft(t)' < StepsLeft(t)
                               \/ UNCHANGED <<at[t], i[t], sum[t], values[t]>>]_vars

\* ambient_sensors.c keeps its promise to main.c, also that it returns.
Service == INSTANCE AmbientService WITH calls <- {t \in Threads : at[t] # "idle"}

ImplementsAmbient == Service!AmbientSpec
=============================================================================

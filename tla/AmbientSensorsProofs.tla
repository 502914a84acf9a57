------------------------- MODULE AmbientSensorsProofs -------------------------
(***************************************************************************)
(* The safety of AmbientSensors for every set of callers, every number of  *)
(* samples of each and every bound on the measurements.                    *)
(***************************************************************************)
EXTENDS AmbientSensors, TLAPS

\* One burst is on the bus at a time, and is newer than the sample it replaces.
BusInv ==
    /\ \A t, u \in Threads : at[t] = "burst" /\ at[u] = "burst" => t = u
    /\ \A t \in Threads : at[t] = "burst" => /\ since[t] <= latch[t]
                                             /\ sample <= latch[t]
                                             /\ latch[t] <= unit
    /\ sample <= unit

\* A thread that is about to read the channels finds a sample of its own call,
\* whoever fetched it, and has only such samples in its sum.
FreshOf(t) ==
    /\ since[t] <= unit
    /\ at[t] = "fetched" => since[t] <= sample
    /\ at[t] # "idle" => \A m \in sum[t] : since[t] <= m /\ m <= unit
    /\ at[t] # "idle" => i[t] < Samples[t]
    /\ \A m \in values[t] : m <= unit
    /\ at[t] # "idle" => \A m \in values[t] : m <= since[t]

FreshInv == \A t \in Threads : FreshOf(t)

AInv == AmbientTypeOK /\ BusInv /\ FreshInv
-----------------------------------------------------------------------------

\* Init establishes the invariant.
LEMMA AmbientInitInv == Init => AInv
  BY AmbientAssumption
  DEF Init, AInv, AmbientTypeOK, BusInv, FreshInv, FreshOf

\* Every step preserves the invariant; one step per action.
LEMMA AmbientStepInv == AInv /\ [Next]_vars => AInv'
<1> SUFFICES ASSUME AInv, [Next]_vars PROVE AInv'
  OBVIOUS
<1> USE AmbientAssumption DEF AInv, callerVars, Goto
<1>0. \A u \in Threads : Samples[u] \in Int /\ 1 <= Samples[u]
  OBVIOUS
<1>1. CASE Measure
  BY <1>1 DEF Measure, AmbientTypeOK, BusInv, FreshInv, FreshOf
<1>2. ASSUME NEW t \in Threads, Call(t) PROVE AInv'
  <2>1. AmbientTypeOK'
    <3>1. sum' \in [Threads -> SUBSET (1..MaxUnit)]
      BY <1>2 DEF Call, SumAtEntry, AmbientTypeOK
    <3>2. i' \in [Threads -> Nat]
      BY <1>2 DEF Call, AmbientTypeOK
    <3>3. ASSUME NEW u \in Threads PROVE i'[u] <= Samples[u]
      BY <1>0, <1>2 DEF Call, AmbientTypeOK
    <3>. QED
      BY <1>2, <3>1, <3>2, <3>3 DEF Call, AmbientTypeOK
  <2>2. BusInv'
    BY <1>2 DEF Call, SumAtEntry, AmbientTypeOK, BusInv, FreshInv, FreshOf
  <2>3. ASSUME NEW u \in Threads PROVE FreshOf(u)'
    <3>1. CASE u = t
      <4>1. since'[t] = unit /\ sum'[t] = {} /\ i'[t] = 0 /\ at'[t] = "settle"
        BY <1>2 DEF Call, SumAtEntry, AmbientTypeOK
      <4>2. values'[t] = values[t] /\ unit' = unit
        BY <1>2 DEF Call
      <4>. QED
        BY <1>0, <3>1, <4>1, <4>2 DEF AmbientTypeOK, FreshInv, FreshOf
    <3>2. CASE u # t
      BY <1>2, <3>2 DEF Call, SumAtEntry, AmbientTypeOK, BusInv, FreshInv, FreshOf
    <3>. QED
      BY <3>1, <3>2
  <2>. QED
    BY <2>1, <2>2, <2>3 DEF FreshInv
<1>3. ASSUME NEW t \in Threads, Fetch(t) PROVE AInv'
  BY <1>3 DEF Fetch, AmbientTypeOK, BusInv, FreshInv, FreshOf
<1>4. ASSUME NEW t \in Threads, Ready(t) PROVE AInv'
  BY <1>4 DEF Ready, AmbientTypeOK, BusInv, FreshInv, FreshOf
<1>5. ASSUME NEW t \in Threads, Fetched(t) PROVE AInv'
  BY <1>5 DEF Fetched, AmbientTypeOK, BusInv, FreshInv, FreshOf
<1>6. ASSUME NEW t \in Threads, NotFetched(t) PROVE AInv'
  BY <1>6 DEF NotFetched, AmbientTypeOK, BusInv, FreshInv, FreshOf
<1>7. ASSUME NEW t \in Threads, AddSample(t) PROVE AInv'
  <2>1. AmbientTypeOK'
    <3>1. SumWith(t) \in SUBSET (1..MaxUnit)
      BY <1>7 DEF AddSample, GoodFetch, SumWith, AmbientTypeOK, FreshInv, FreshOf
    <3>2. i' \in [Threads -> Nat]
      BY <1>7 DEF AddSample, AmbientTypeOK
    <3>3. ASSUME NEW u \in Threads PROVE i'[u] <= Samples[u]
      BY <1>0, <1>7 DEF AddSample, GoodFetch, LastSample, AmbientTypeOK
    <3>. QED
      BY <1>7, <3>1, <3>2, <3>3 DEF AddSample, AmbientTypeOK
  <2>2. BusInv'
    BY <1>7 DEF AddSample, GoodFetch, LastSample, SumWith, AmbientTypeOK, BusInv, FreshInv, FreshOf
  <2>3. ASSUME NEW u \in Threads PROVE FreshOf(u)'
    <3>1. CASE u = t
      <4>1. /\ at[t] = "fetched" /\ at'[t] = "settle"
            /\ sum'[t] = sum[t] \cup {sample} /\ i'[t] = i[t] + 1
            /\ i[t] + 1 < Samples[t]
        BY <1>0, <1>7 DEF AddSample, GoodFetch, LastSample, SumWith, AmbientTypeOK
      <4>2. UNCHANGED <<since, values, unit, sample>>
        BY <1>7 DEF AddSample
      <4>. QED
        BY <3>1, <4>1, <4>2 DEF BusInv, FreshInv, FreshOf
    <3>2. CASE u # t
      BY <1>7, <3>2 DEF AddSample, GoodFetch, LastSample, SumWith, AmbientTypeOK, BusInv, FreshInv, FreshOf
    <3>. QED
      BY <3>1, <3>2
  <2>. QED
    BY <2>1, <2>2, <2>3 DEF FreshInv
<1>8. ASSUME NEW t \in Threads, Average(t) PROVE AInv'
  <2>1. AmbientTypeOK'
    <3>1. SumWith(t) \in SUBSET (1..MaxUnit)
      BY <1>8 DEF Average, GoodFetch, SumWith, AmbientTypeOK, FreshInv, FreshOf
    <3>2. i' \in [Threads -> Nat]
      BY <1>8 DEF Average, AmbientTypeOK
    <3>3. ASSUME NEW u \in Threads PROVE i'[u] <= Samples[u]
      BY <1>0, <1>8 DEF Average, GoodFetch, AmbientTypeOK, FreshInv, FreshOf
    <3>. QED
      BY <1>8, <3>1, <3>2, <3>3 DEF Average, AmbientTypeOK
  <2>2. BusInv'
    BY <1>8 DEF Average, GoodFetch, LastSample, SumWith, AmbientTypeOK, BusInv, FreshInv, FreshOf
  <2>3. ASSUME NEW u \in Threads PROVE FreshOf(u)'
    <3>1. CASE u = t
      BY <1>8, <3>1 DEF Average, GoodFetch, LastSample, SumWith, AmbientTypeOK, BusInv, FreshInv, FreshOf
    <3>2. CASE u # t
      BY <1>8, <3>2 DEF Average, GoodFetch, LastSample, SumWith, AmbientTypeOK, BusInv, FreshInv, FreshOf
    <3>. QED
      BY <3>1, <3>2
  <2>. QED
    BY <2>1, <2>2, <2>3 DEF FreshInv
<1>9. ASSUME NEW t \in Threads, GiveUp(t) PROVE AInv'
  BY <1>9 DEF GiveUp, AmbientTypeOK, BusInv, FreshInv, FreshOf
<1>10. CASE UNCHANGED vars
  BY <1>10 DEF vars, AmbientTypeOK, BusInv, FreshInv, FreshOf
<1>. QED
  BY <1>1, <1>2, <1>3, <1>4, <1>5, <1>6, <1>7, <1>8, <1>9, <1>10
  DEF Next, ambient_sensors_read, sensor_sample_fetch
-----------------------------------------------------------------------------

\* The invariant holds in every reachable state.
LEMMA AmbientInductive == Spec => []AInv
  BY AmbientInitInv, AmbientStepInv, PTL DEF Spec

\* The variables keep their types; no call adds up more than its samples.
THEOREM AmbientTypeCorrect == Spec => []AmbientTypeOK
<1>1. AInv => AmbientTypeOK
  BY DEF AInv
<1>. QED
  BY <1>1, AmbientInductive, PTL

\* Only the last step of a call writes the caller's values.
LEMMA ValuesWritten ==
    ASSUME AInv, [Next]_vars, NEW t \in Threads, values'[t] # values[t]
    PROVE  Average(t) /\ values'[t] = SumWith(t)
<1>1. PICK u \in Threads : Average(u)
  BY DEF Next, vars, callerVars, Measure, Call, ambient_sensors_read, Fetch, AddSample,
     GiveUp, sensor_sample_fetch, Ready, Fetched, NotFetched
<1>2. values' = [values EXCEPT ![u] = SumWith(u)]
  BY <1>1 DEF Average
<1>3. u = t
  BY <1>2 DEF AInv, AmbientTypeOK
<1>. QED
  BY <1>1, <1>2, <1>3 DEF AInv, AmbientTypeOK

\* Every record is made of measurements of its own call, however the two threads
\* meet in the driver, for any number of threads and of samples.
THEOREM ReadsFresh == Spec => ValuesOfThisCall
<1>1. ASSUME AInv, [Next]_vars, NEW t \in Threads, values'[t] # values[t]
      PROVE  values'[t] # {} /\ \A m \in values'[t] : since[t] <= m /\ m <= unit
  <2>1. at[t] = "fetched" /\ values'[t] = sum[t] \cup {sample}
    BY <1>1, ValuesWritten DEF Average, GoodFetch, SumWith
  <2>2. since[t] <= sample /\ sample <= unit
    BY <2>1, <1>1 DEF AInv, BusInv, FreshInv, FreshOf
  <2>3. \A m \in sum[t] : since[t] <= m /\ m <= unit
    BY <2>1, <1>1 DEF AInv, FreshInv, FreshOf
  <2>. QED
    BY <2>1, <2>2, <2>3
<1>2. AInv /\ [Next]_vars
      => [\A t \in Threads : values'[t] # values[t] =>
             values'[t] # {} /\ \A m \in values'[t] : since[t] <= m /\ m <= unit]_vars
  BY <1>1
<1>. QED
  BY <1>2, AmbientInductive, PTL DEF Spec, ValuesOfThisCall

\* The records of a thread never go back in time.
THEOREM ReadsAdvance == Spec => RecordsAdvance
<1>1. ASSUME AInv, [Next]_vars, NEW t \in Threads, values'[t] # values[t],
             NEW m \in values[t], NEW n \in values'[t]
      PROVE  m <= n
  <2>1. at[t] = "fetched" /\ values'[t] = sum[t] \cup {sample}
    BY <1>1, ValuesWritten DEF Average, GoodFetch, SumWith
  <2>2. m <= since[t]
    BY <2>1, <1>1 DEF AInv, FreshInv, FreshOf
  <2>3. since[t] <= n
    BY <2>1, <1>1 DEF AInv, FreshInv, FreshOf
  <2>4. m \in Int /\ n \in Int /\ since[t] \in Int
    BY <1>1, <2>1 DEF AInv, AmbientTypeOK
  <2>. QED
    BY <2>2, <2>3, <2>4
<1>2. AInv /\ [Next]_vars
      => [\A t \in Threads : values'[t] # values[t] =>
             \A m \in values[t], n \in values'[t] : m <= n]_vars
  BY <1>1
<1>. QED
  BY <1>2, AmbientInductive, PTL DEF Spec, RecordsAdvance

\* A call that is in progress has a sample left to take.
LEMMA SampleLeft ==
    ASSUME AInv, NEW t \in Threads
    PROVE  i[t] \in Nat /\ Samples[t] \in Nat /\ (at[t] # "idle" => i[t] < Samples[t])
<1>1. i[t] \in Nat
  BY DEF AInv, AmbientTypeOK
<1>2. Samples[t] \in 1..255
  BY AmbientAssumption
<1>3. at[t] # "idle" => i[t] < Samples[t]
  BY DEF AInv, FreshInv, FreshOf
<1>. QED
  BY <1>1, <1>2, <1>3

\* The bound on the steps of a call is a number.
LEMMA StepsLeftNat == ASSUME AInv, NEW t \in Threads PROVE StepsLeft(t) \in Nat
<1>1. SampleSteps(t) \in 1..4
  BY DEF SampleSteps
<1>. QED
  BY <1>1, SampleLeft DEF StepsLeft

\* The step of a thread inside its call brings the end of the call nearer.
LEMMA OwnStepCloser ==
    ASSUME AInv, NEW t \in Threads, at[t] # "idle",
           ambient_sensors_read(t) \/ sensor_sample_fetch(t)
    PROVE  StepsLeft(t)' < StepsLeft(t)
<1> USE DEF Goto, callerVars
<1>1. i[t] \in Int /\ Samples[t] \in Int /\ i[t] < Samples[t]
  BY SampleLeft
<1>2. CASE Fetch(t) \/ Ready(t) \/ Fetched(t) \/ NotFetched(t)
  <2>1. /\ i' = i
        /\ \/ at[t] = "settle" /\ at'[t] = "status"
           \/ at[t] = "status" /\ at'[t] \in {"burst", "failed"}
           \/ at[t] = "burst" /\ at'[t] \in {"fetched", "failed"}
    BY <1>2 DEF Fetch, Ready, Fetched, NotFetched, AInv, AmbientTypeOK
  <2>2. SampleSteps(t) \in Int /\ SampleSteps(t)' \in Int /\ SampleSteps(t)' < SampleSteps(t)
    BY <2>1 DEF SampleSteps
  <2>. QED
    BY <1>1, <2>1, <2>2 DEF StepsLeft
<1>3. CASE AddSample(t)
  <2>1. at[t] = "fetched" /\ at'[t] = "settle" /\ i'[t] = i[t] + 1
    BY <1>3 DEF AddSample, GoodFetch, AInv, AmbientTypeOK
  <2>2. SampleSteps(t) = 1 /\ SampleSteps(t)' = 4
    BY <2>1 DEF SampleSteps
  <2>. QED
    BY <1>1, <2>1, <2>2 DEF StepsLeft
<1>4. CASE Average(t) \/ GiveUp(t)
  <2>1. at'[t] = "idle" /\ at[t] \in {"fetched", "failed"}
    BY <1>4 DEF Average, GoodFetch, GiveUp, AInv, AmbientTypeOK
  <2>2. SampleSteps(t) = 1
    BY <2>1 DEF SampleSteps
  <2>. QED
    BY <1>1, <2>1, <2>2 DEF StepsLeft
<1>. QED
  BY <1>2, <1>3, <1>4 DEF ambient_sensors_read, sensor_sample_fetch

\* No step of another thread, and no measurement, touches a call.
LEMMA OtherStepApart ==
    ASSUME AInv, NEW t \in Threads, at[t] # "idle",
           Measure \/ \E u \in Threads : Call(u) \/ (u # t /\ (ambient_sensors_read(u)
                                                            \/ sensor_sample_fetch(u)))
    PROVE  UNCHANGED <<at[t], i[t], sum[t], values[t]>>
<1> USE DEF Goto, callerVars
<1>1. CASE Measure
  BY <1>1 DEF Measure
<1>2. ASSUME NEW u \in Threads, Call(u)
      PROVE  UNCHANGED <<at[t], i[t], sum[t], values[t]>>
  BY <1>2 DEF Call, AInv, AmbientTypeOK
<1>3. ASSUME NEW u \in Threads, u # t, ambient_sensors_read(u)
      PROVE  UNCHANGED <<at[t], i[t], sum[t], values[t]>>
  BY <1>3 DEF ambient_sensors_read, Fetch, AddSample, Average, GiveUp, AInv, AmbientTypeOK
<1>4. ASSUME NEW u \in Threads, u # t, sensor_sample_fetch(u)
      PROVE  UNCHANGED <<at[t], i[t], sum[t], values[t]>>
  BY <1>4 DEF sensor_sample_fetch, Ready, Fetched, NotFetched, AInv, AmbientTypeOK
<1>. QED
  BY <1>1, <1>2, <1>3, <1>4

\* Each call returns after a number of its own steps that its samples bound, for
\* any number of threads on the one sensor.
THEOREM CallsBounded == Spec => CallsMoveOn
<1>1. ASSUME AInv, Next, NEW t \in Threads, at[t] # "idle"
      PROVE  \/ StepsLeft(t)' < StepsLeft(t)
             \/ UNCHANGED <<at[t], i[t], sum[t], values[t]>>
  BY <1>1, OwnStepCloser, OtherStepApart DEF Next
<1>2. AInv /\ [Next]_vars
      => [\A t \in Threads :
             /\ StepsLeft(t) \in Nat
             /\ at[t] # "idle" => \/ StepsLeft(t)' < StepsLeft(t)
                                  \/ UNCHANGED <<at[t], i[t], sum[t], values[t]>>]_vars
  BY <1>1, StepsLeftNat
<1>. QED
  BY <1>2, AmbientInductive, PTL DEF Spec, CallsMoveOn

-----------------------------------------------------------------------------
(* Refinement                                                              *)

\* Every step is a step of AmbientService or none.
LEMMA AmbientStepImplements ==
    AInv /\ [Next]_vars => [Service!AmbientNext]_(Service!ambientVars)
<1> SUFFICES ASSUME AInv, [Next]_vars
             PROVE  [Service!AmbientNext]_(Service!ambientVars)
  OBVIOUS
<1> USE DEF AInv, AmbientTypeOK, Goto, Service!AmbientNext, Service!ambientVars
<1>1. CASE Measure
  BY <1>1 DEF Measure, callerVars, Service!AmbientMeasure
<1>2. ASSUME NEW t \in Threads, Call(t)
      PROVE  Service!AmbientCall(t)
  BY <1>2 DEF Call, Service!AmbientCall
<1>3. ASSUME NEW t \in Threads, Fetch(t) \/ Ready(t) \/ Fetched(t) \/ NotFetched(t) \/ AddSample(t)
      PROVE  UNCHANGED Service!ambientVars
  <2>1. UNCHANGED <<unit, since, values>>
    BY <1>3 DEF Fetch, Ready, Fetched, NotFetched, AddSample, callerVars
  <2>2. at[t] # "idle" /\ at'[t] # "idle" /\ \A u \in Threads : u # t => at'[u] = at[u]
    BY <1>3 DEF Fetch, Ready, Fetched, NotFetched, AddSample, GoodFetch
  <2>. QED
    BY <2>1, <2>2
<1>4. ASSUME NEW t \in Threads, Average(t)
      PROVE  Service!AmbientReturn(t)
  <2>1. SumWith(t) # {} /\ SumWith(t) \in SUBSET (since[t]..unit)
    BY <1>4 DEF Average, GoodFetch, SumWith, BusInv, FreshInv, FreshOf
  <2>. QED
    BY <1>4, <2>1 DEF Average, GoodFetch, Service!AmbientReturn
<1>5. ASSUME NEW t \in Threads, GiveUp(t)
      PROVE  Service!AmbientReturn(t)
  BY <1>5 DEF GiveUp, callerVars, Service!AmbientReturn
<1>6. CASE UNCHANGED vars
  BY <1>6 DEF vars, callerVars
<1>. QED
  BY <1>1, <1>2, <1>3, <1>4, <1>5, <1>6
  DEF Next, ambient_sensors_read, sensor_sample_fetch

\* The safety part of AmbientService holds of ambient_sensors_read for every set
\* of threads; that it returns is left to TLC.
THEOREM AmbientRefinement ==
    Spec => Service!AmbientInit /\ [][Service!AmbientNext]_(Service!ambientVars)
<1>1. Init => Service!AmbientInit
  BY DEF Init, Service!AmbientInit
<1>. QED
  BY <1>1, AmbientStepImplements, AmbientInductive, PTL DEF Spec
=============================================================================

----------------------------- MODULE AirLabProofs -----------------------------
(***************************************************************************)
(* The safety of AirLab for every number of records and of resets.         *)
(***************************************************************************)
EXTENDS AirLab, TLAPS

\* The threads exist once main has come to its final loop, and the card has been
\* mounted or given up before; a save_data is in progress where its caller waits.
ThreadInv ==
    /\ mainPc # "running" => countPc = "none" /\ gasPc = "none" /\ sendPc = "none"
    /\ mainPc # "boot" => booted
    /\ "opc" \in saving <=> countPc = "save"
    /\ "gas" \in saving <=> gasPc = "save"

\* A counter without power does not sample.
SessionInv == CounterOffOutside /\ (~power => ~sampling)

\* The downlink callback is registered by a thread that has started the radio.
RadioInv == CallbackAlive /\ SendsConfigured

\* What is published, on the air or delivered is a record that has been measured,
\* in the gas thread one whose save_data has returned.
FrameOf(t, wait) == sendPc = wait => frame \in Nat /\ frame <= msg[t]

RecordInv ==
    /\ \A t \in Types : msg[t] <= rec[t] /\ delivered[t] <= rec[t]
    /\ FrameOf("gas", "gas_air")
    /\ FrameOf("opc", "opc_air")
    /\ "gas" \in saving => msg["gas"] < rec["gas"] /\ delivered["gas"] < rec["gas"]

LInv ==
    /\ TypeOK
    /\ ThreadInv
    /\ SessionInv
    /\ RadioInv
    /\ RedLedExplained
    /\ RecordInv
-----------------------------------------------------------------------------

\* Init establishes the invariant.
LEMMA LabInitInv == Init => LInv
<1> SUFFICES ASSUME Init PROVE LInv
  OBVIOUS
<1> USE DEF Init, Session!SessionInit, Service!ServiceInit
<1>1. (\A t \in Types : MaxSaves[t] \in Nat) /\ MaxResets \in Nat
  BY AirLabAssumption DEF Types
<1>2. TypeOK
  <2>1. PcTypeOK
    BY DEF PcTypeOK, CountPoints, GasPoints, SendPoints
  <2>2. BoardTypeOK
    <3>1. resets \in 0..MaxResets
      BY <1>1
    <3>. QED
      BY <3>1, Zenon DEF BoardTypeOK
  <2>3. RecordTypeOK
    BY <1>1 DEF RecordTypeOK, None
  <2>4. Session!SessionTypeOK
    BY DEF Session!SessionTypeOK
  <2>5. Service!ServiceTypeOK
    <3>1. rec \in [Types -> Nat]
      OBVIOUS
    <3>2. \A t \in Types : rec[t] <= MaxSaves[t]
      BY <1>1
    <3>3. booted \in BOOLEAN /\ saving \in SUBSET Types
      BY Zenon
    <3>. QED
      BY <3>1, <3>2, <3>3, Zenon DEF Service!ServiceTypeOK
  <2>. QED
    BY <2>1, <2>2, <2>3, <2>4, <2>5 DEF TypeOK
<1>3. ThreadInv
  BY DEF ThreadInv
<1>4. SessionInv /\ RadioInv
  BY DEF SessionInv, CounterOffOutside, RadioInv, CallbackAlive, SendsConfigured
<1>5. RedLedExplained /\ RecordInv
  BY DEF RedLedExplained, RecordInv, FrameOf
<1>. QED
  BY <1>2, <1>3, <1>4, <1>5 DEF LInv

\* The bounds of both types are numbers.
LEMMA MaxSavesType == MaxSaves["gas"] \in Nat /\ MaxSaves["opc"] \in Nat
  BY AirLabAssumption

\* Every step keeps the points of the threads in their sets.
LEMMA PcStep == LInv /\ [Next]_vars => PcTypeOK'
<1> SUFFICES ASSUME LInv, [Next]_vars PROVE PcTypeOK'
  OBVIOUS
<1> USE DEF LInv, TypeOK, ledVars, linkVars, frameVars, loraVars, opcVars,
           fileVars, PcTypeOK, CountPoints, GasPoints, SendPoints
<1>1. CASE MountCard
  BY <1>1 DEF MountCard, notMain, Service!ServiceBoot
<1>2. CASE NoAmbientSensor
  BY <1>2 DEF NoAmbientSensor, notMain
<1>3. CASE CreateThreads
  BY <1>3 DEF CreateThreads, notMain, ThreadsAfter
<1>4. CASE CountBegin
  BY <1>4 DEF CountBegin, notCount, CountGoto, Session!SessionBegin
<1>5. CASE CountSession
  BY <1>5 DEF CountSession, notCount, CountGoto, Session!SessionPowerOn,
      Session!SessionObey, Session!SessionPowerCycle, Session!SessionMeasure,
      Session!SessionStop, Session!SessionPowerOff
<1>6. CASE CountSessionEnd
  BY <1>6 DEF CountSessionEnd, notCount, CountGoto, SessionClosed,
      Session!SessionEnd
<1>7. CASE CountPublish
  BY <1>7 DEF CountPublish, notCount, CountGoto, Service!ServiceCall
<1>8. CASE CountSaved
  BY <1>8 DEF CountSaved, notCount, CountGoto, Service!ServiceReturn
<1>9. CASE GasRead
  BY <1>9 DEF GasRead, notGas, GasGoto
<1>10. CASE GasSaveCall
  BY <1>10 DEF GasSaveCall, notGas, GasGoto, Service!ServiceCall
<1>11. CASE GasPublish
  BY <1>11 DEF GasPublish, notGas, GasGoto, Service!ServiceReturn
<1>12. CASE NoRadio
  BY <1>12 DEF NoRadio, notSend, SendGoto
<1>13. CASE StartRadio
  BY <1>13 DEF StartRadio, notSend, SendGoto
<1>14. CASE JoinFails
  BY <1>14 DEF JoinFails, notSend, SendGoto
<1>15. CASE JoinRedOff
  BY <1>15 DEF JoinRedOff, notSend, SendGoto, RedOff
<1>16. CASE JoinRetry
  BY <1>16 DEF JoinRetry, notSend, SendGoto
<1>17. CASE JoinSucceeds
  BY <1>17 DEF JoinSucceeds, notSend, SendGoto, AfterJoin
<1>18. CASE SendGas
  BY <1>18 DEF SendGas, notSend, SendGoto, SendOne, SendCall, Payload,
      SendAcknowledged, SendTooLong, SendFails, SendEnds
<1>19. CASE SendOpc
  BY <1>19 DEF SendOpc, notSend, SendGoto, SendOne, SendCall, Payload,
      SendAcknowledged, SendTooLong, SendFails, SendEnds
<1>20. CASE Reset
  BY <1>20 DEF Reset, Service!ServiceReset
<1>21. CASE UNCHANGED vars
  BY <1>21 DEF vars, pcVars
<1>. QED
  BY <1>1, <1>2, <1>3, <1>4, <1>5, <1>6, <1>7, <1>8, <1>9, <1>10, <1>11, <1>12,
     <1>13, <1>14, <1>15, <1>16, <1>17, <1>18, <1>19, <1>20, <1>21
  DEF Next, main, count_particles, read_gas_and_ambient_sensors, send_data

\* Every step keeps the types of the pins and of the radio's state.
LEMMA BoardStep == LInv /\ [Next]_vars => BoardTypeOK'
<1> SUFFICES ASSUME LInv, [Next]_vars PROVE BoardTypeOK'
  OBVIOUS
<1> USE DEF LInv, TypeOK, ledVars, linkVars, frameVars, loraVars, opcVars,
           fileVars, BoardTypeOK
<1>1. CASE MountCard
  BY <1>1 DEF MountCard, notMain, Service!ServiceBoot
<1>2. CASE NoAmbientSensor
  BY <1>2 DEF NoAmbientSensor, notMain
<1>3. CASE CreateThreads
  BY <1>3 DEF CreateThreads, notMain, ThreadsAfter
<1>4. CASE CountBegin
  BY <1>4 DEF CountBegin, notCount, CountGoto, Session!SessionBegin
<1>5. CASE CountSession
  BY <1>5 DEF CountSession, notCount, CountGoto, Session!SessionPowerOn,
      Session!SessionObey, Session!SessionPowerCycle, Session!SessionMeasure,
      Session!SessionStop, Session!SessionPowerOff
<1>6. CASE CountSessionEnd
  BY <1>6 DEF CountSessionEnd, notCount, CountGoto, SessionClosed,
      Session!SessionEnd
<1>7. CASE CountPublish
  BY <1>7 DEF CountPublish, notCount, CountGoto, Service!ServiceCall
<1>8. CASE CountSaved
  BY <1>8 DEF CountSaved, notCount, CountGoto, Service!ServiceReturn
<1>9. CASE read_gas_and_ambient_sensors
  BY <1>9 DEF read_gas_and_ambient_sensors, GasRead, GasSaveCall, GasPublish,
      notGas
<1>10. CASE NoRadio
  BY <1>10 DEF NoRadio, notSend, SendGoto
<1>11. CASE StartRadio
  BY <1>11 DEF StartRadio, notSend, SendGoto
<1>12. CASE JoinFails
  BY <1>12 DEF JoinFails, notSend, SendGoto
<1>13. CASE JoinRedOff
  BY <1>13 DEF JoinRedOff, notSend, SendGoto, RedOff
<1>14. CASE JoinRetry
  BY <1>14 DEF JoinRetry, notSend, SendGoto
<1>15. CASE JoinSucceeds
  BY <1>15 DEF JoinSucceeds, notSend, SendGoto, AfterJoin
<1>16. CASE SendGas
  BY <1>16 DEF SendGas, notSend, SendGoto, SendOne, SendCall, Payload,
      SendAcknowledged, SendTooLong, SendFails, SendEnds
<1>17. CASE SendOpc
  BY <1>17 DEF SendOpc, notSend, SendGoto, SendOne, SendCall, Payload,
      SendAcknowledged, SendTooLong, SendFails, SendEnds
<1>18. CASE Reset
  <2>1. MaxResets \in Nat
    BY AirLabAssumption
  <2>2. resets' \in 0..MaxResets
    BY <1>18, <2>1 DEF Reset
  <2>. QED
    BY <1>18, <2>2, Zenon DEF Reset
<1>19. CASE UNCHANGED vars
  BY <1>19 DEF vars, pcVars
<1>. QED
  BY <1>1, <1>2, <1>3, <1>4, <1>5, <1>6, <1>7, <1>8, <1>9, <1>10, <1>11, <1>12,
     <1>13, <1>14, <1>15, <1>16, <1>17, <1>18, <1>19
  DEF Next, main, count_particles, read_gas_and_ambient_sensors, send_data

\* Every step keeps the records' types: a message holds what has been given to
\* save_data, and the network what was in a message.
LEMMA RecordTypeStep == LInv /\ [Next]_vars => RecordTypeOK'
<1> SUFFICES ASSUME LInv, [Next]_vars PROVE RecordTypeOK'
  OBVIOUS
<1> USE DEF LInv, TypeOK, ledVars, linkVars, frameVars, loraVars, opcVars,
           fileVars, RecordTypeOK
<1>1. CASE main
  BY <1>1 DEF main, MountCard, NoAmbientSensor, CreateThreads, notMain
<1>2. CASE CountBegin
  BY <1>2 DEF CountBegin, notCount, CountGoto, Session!SessionBegin
<1>3. CASE CountSession
  BY <1>3 DEF CountSession, notCount, CountGoto, Session!SessionPowerOn,
      Session!SessionObey, Session!SessionPowerCycle, Session!SessionMeasure,
      Session!SessionStop, Session!SessionPowerOff
<1>4. CASE CountSessionEnd
  BY <1>4 DEF CountSessionEnd, notCount, CountGoto, SessionClosed,
      Session!SessionEnd
<1>5. CASE CountPublish
  <2>1. rec'["opc"] \in Nat /\ rec'["opc"] <= MaxSaves["opc"]
    BY <1>5, MaxSavesType DEF CountPublish, Service!ServiceCall, Service!ServiceTypeOK, Types
  <2>. QED
    BY <1>5, <2>1 DEF CountPublish, notCount, Types
<1>6. CASE CountSaved
  BY <1>6 DEF CountSaved, notCount, CountGoto, Service!ServiceReturn
<1>7. CASE GasRead
  BY <1>7 DEF GasRead, notGas, GasGoto
<1>8. CASE GasSaveCall
  BY <1>8 DEF GasSaveCall, notGas, GasGoto, Service!ServiceCall
<1>9. CASE GasPublish
  <2>1. rec["gas"] \in Nat /\ rec["gas"] <= MaxSaves["gas"]
    BY DEF Service!ServiceTypeOK, Types
  <2>. QED
    BY <1>9, <2>1 DEF GasPublish, notGas, Types
<1>10. CASE NoRadio
  BY <1>10 DEF NoRadio, notSend, SendGoto
<1>11. CASE StartRadio
  BY <1>11 DEF StartRadio, notSend, SendGoto
<1>12. CASE JoinFails
  BY <1>12 DEF JoinFails, notSend, SendGoto
<1>13. CASE JoinRedOff
  BY <1>13 DEF JoinRedOff, notSend, SendGoto, RedOff
<1>14. CASE JoinRetry
  BY <1>14 DEF JoinRetry, notSend, SendGoto
<1>15. CASE JoinSucceeds
  BY <1>15 DEF JoinSucceeds, notSend, SendGoto, AfterJoin
<1>16. CASE SendGas
  <2>1. UNCHANGED msg /\ frame' \in Nat \cup {None} /\ again' \in Nat \cup {None}
    BY <1>16 DEF SendGas, notSend, SendGoto, SendOne, SendCall, Payload,
       SendAcknowledged, SendTooLong, SendFails, SendEnds, Types
  <2>2. delivered' = delivered \/ (sendPc = "gas_air" /\ delivered' = Arrived("gas"))
    BY <1>16 DEF SendGas, SendGoto, SendOne, SendCall, SendAcknowledged, SendTooLong,
       SendFails, SendEnds
  <2>3. delivered' \in [Types -> Nat] /\ \A t \in Types : delivered'[t] <= MaxSaves[t]
    BY <2>2, MaxSavesType DEF Arrived, RecordInv, FrameOf, None, Types
  <2>. QED
    BY <2>1, <2>3
<1>17. CASE SendOpc
  <2>1. UNCHANGED msg /\ frame' \in Nat \cup {None} /\ again' \in Nat \cup {None}
    BY <1>17 DEF SendOpc, notSend, SendGoto, SendOne, SendCall, Payload,
       SendAcknowledged, SendTooLong, SendFails, SendEnds, Types
  <2>2. delivered' = delivered \/ (sendPc = "opc_air" /\ delivered' = Arrived("opc"))
    BY <1>17 DEF SendOpc, SendGoto, SendOne, SendCall, SendAcknowledged, SendTooLong,
       SendFails, SendEnds
  <2>3. delivered' \in [Types -> Nat] /\ \A t \in Types : delivered'[t] <= MaxSaves[t]
    BY <2>2, MaxSavesType DEF Arrived, RecordInv, FrameOf, None, Types
  <2>. QED
    BY <2>1, <2>3
<1>18. CASE Reset
  <2>1. \A t \in Types : 0 <= MaxSaves[t]
    BY MaxSavesType DEF Types
  <2>. QED
    BY <1>18, <2>1 DEF Reset
<1>19. CASE UNCHANGED vars
  BY <1>19 DEF vars, pcVars
<1>. QED
  BY <1>1, <1>2, <1>3, <1>4, <1>5, <1>6, <1>7, <1>8, <1>9, <1>10, <1>11, <1>12,
     <1>13, <1>14, <1>15, <1>16, <1>17, <1>18, <1>19
  DEF Next, main, count_particles, read_gas_and_ambient_sensors, send_data

\* Every step keeps the types of the particle counter's session.
LEMMA SessionTypeStep == LInv /\ [Next]_vars => Session!SessionTypeOK'
<1> SUFFICES ASSUME LInv, [Next]_vars PROVE Session!SessionTypeOK'
  OBVIOUS
<1> USE DEF LInv, TypeOK, ledVars, linkVars, frameVars, loraVars, opcVars,
           fileVars, Session!SessionTypeOK
<1>1. CASE main
  BY <1>1 DEF main, MountCard, NoAmbientSensor, CreateThreads, notMain
<1>2. CASE CountBegin
  BY <1>2 DEF CountBegin, notCount, CountGoto, Session!SessionBegin
<1>3. CASE CountSession
  BY <1>3 DEF CountSession, notCount, CountGoto, Session!SessionPowerOn,
      Session!SessionObey, Session!SessionPowerCycle, Session!SessionMeasure,
      Session!SessionStop, Session!SessionPowerOff
<1>4. CASE CountSessionEnd
  BY <1>4 DEF CountSessionEnd, notCount, CountGoto, SessionClosed,
      Session!SessionEnd
<1>5. CASE CountPublish
  BY <1>5 DEF CountPublish, notCount, CountGoto, Service!ServiceCall
<1>6. CASE CountSaved
  BY <1>6 DEF CountSaved, notCount, CountGoto, Service!ServiceReturn
<1>7. CASE read_gas_and_ambient_sensors
  BY <1>7 DEF read_gas_and_ambient_sensors, GasRead, GasSaveCall, GasPublish,
      notGas
<1>8. CASE send_data
  BY <1>8 DEF send_data, NoRadio, StartRadio, JoinFails, JoinRedOff, JoinRetry,
      JoinSucceeds, SendGas, SendOpc, notSend, SendOne, SendCall,
      SendAcknowledged, SendTooLong, SendFails, SendEnds
<1>9. CASE Reset
  BY <1>9 DEF Reset, Service!ServiceReset
<1>10. CASE UNCHANGED vars
  BY <1>10 DEF vars, pcVars
<1>. QED
  BY <1>1, <1>2, <1>3, <1>4, <1>5, <1>6, <1>7, <1>8, <1>9, <1>10
  DEF Next, main, count_particles, read_gas_and_ambient_sensors, send_data

\* Every step keeps the types of the card's service.
LEMMA ServiceTypeStep == LInv /\ [Next]_vars => Service!ServiceTypeOK'
<1> SUFFICES ASSUME LInv, [Next]_vars PROVE Service!ServiceTypeOK'
  OBVIOUS
<1> USE DEF LInv, TypeOK, ledVars, linkVars, frameVars, loraVars, opcVars,
           fileVars, Service!ServiceTypeOK
<1>1. CASE MountCard
  BY <1>1 DEF MountCard, notMain, Service!ServiceBoot
<1>2. CASE NoAmbientSensor
  BY <1>2 DEF NoAmbientSensor, notMain
<1>3. CASE CreateThreads
  BY <1>3 DEF CreateThreads, notMain, ThreadsAfter
<1>4. CASE CountBegin
  BY <1>4 DEF CountBegin, notCount, CountGoto, Session!SessionBegin
<1>5. CASE CountSession
  BY <1>5 DEF CountSession, notCount, CountGoto, Session!SessionPowerOn,
      Session!SessionObey, Session!SessionPowerCycle, Session!SessionMeasure,
      Session!SessionStop, Session!SessionPowerOff
<1>6. CASE CountSessionEnd
  BY <1>6 DEF CountSessionEnd, notCount, CountGoto, SessionClosed,
      Session!SessionEnd
<1>7. CASE CountPublish
  <2>1. rec["opc"] \in Nat /\ MaxSaves["opc"] \in Nat /\ rec["opc"] < MaxSaves["opc"]
    BY <1>7, MaxSavesType DEF CountPublish, Service!ServiceCall, Service!ServiceTypeOK, Types
  <2>2. rec' \in [Types -> Nat] /\ \A t \in Types : rec'[t] <= MaxSaves[t]
    BY <1>7, <2>1 DEF CountPublish, Service!ServiceCall, Service!ServiceTypeOK, Types
  <2>3. booted' \in BOOLEAN /\ saving' \in SUBSET Types
    BY <1>7 DEF CountPublish, Service!ServiceCall, Service!ServiceTypeOK, Types
  <2>. QED
    BY <2>2, <2>3, Zenon DEF Service!ServiceTypeOK
<1>8. CASE CountSaved
  BY <1>8 DEF CountSaved, notCount, CountGoto, Service!ServiceReturn
<1>9. CASE GasRead
  BY <1>9 DEF GasRead, notGas, GasGoto
<1>10. CASE GasSaveCall
  <2>1. rec["gas"] \in Nat /\ MaxSaves["gas"] \in Nat /\ rec["gas"] < MaxSaves["gas"]
    BY <1>10, MaxSavesType DEF GasSaveCall, Service!ServiceCall, Service!ServiceTypeOK, Types
  <2>2. rec' \in [Types -> Nat] /\ \A t \in Types : rec'[t] <= MaxSaves[t]
    BY <1>10, <2>1 DEF GasSaveCall, Service!ServiceCall, Service!ServiceTypeOK, Types
  <2>3. booted' \in BOOLEAN /\ saving' \in SUBSET Types
    BY <1>10 DEF GasSaveCall, Service!ServiceCall, Service!ServiceTypeOK, Types
  <2>. QED
    BY <2>2, <2>3, Zenon DEF Service!ServiceTypeOK
<1>11. CASE GasPublish
  BY <1>11 DEF GasPublish, notGas, GasGoto, Service!ServiceReturn
<1>12. CASE send_data
  BY <1>12 DEF send_data, NoRadio, StartRadio, JoinFails, JoinRedOff, JoinRetry,
      JoinSucceeds, SendGas, SendOpc, notSend, SendOne, SendCall,
      SendAcknowledged, SendTooLong, SendFails, SendEnds
<1>13. CASE Reset
  BY <1>13 DEF Reset, Service!ServiceReset
<1>14. CASE UNCHANGED vars
  BY <1>14 DEF vars, pcVars
<1>. QED
  BY <1>1, <1>2, <1>3, <1>4, <1>5, <1>6, <1>7, <1>8, <1>9, <1>10, <1>11, <1>12,
     <1>13, <1>14
  DEF Next, main, count_particles, read_gas_and_ambient_sensors, send_data

\* Every step keeps main, its threads and their calls of save_data in order.
LEMMA ThreadStep == LInv /\ [Next]_vars => ThreadInv'
<1> SUFFICES ASSUME LInv, [Next]_vars PROVE ThreadInv'
  OBVIOUS
<1> USE DEF LInv, TypeOK, ledVars, linkVars, frameVars, loraVars, opcVars,
           fileVars, ThreadInv, PcTypeOK, CountPoints, GasPoints, SendPoints,
           Service!ServiceTypeOK
<1>1. CASE MountCard
  BY <1>1 DEF MountCard, notMain, Service!ServiceBoot
<1>2. CASE NoAmbientSensor
  BY <1>2 DEF NoAmbientSensor, notMain
<1>3. CASE CreateThreads
  BY <1>3 DEF CreateThreads, notMain, ThreadsAfter
<1>4. CASE CountBegin
  BY <1>4 DEF CountBegin, notCount, CountGoto, Session!SessionBegin
<1>5. CASE CountSession
  BY <1>5 DEF CountSession, notCount, CountGoto, Session!SessionPowerOn,
      Session!SessionObey, Session!SessionPowerCycle, Session!SessionMeasure,
      Session!SessionStop, Session!SessionPowerOff
<1>6. CASE CountSessionEnd
  BY <1>6 DEF CountSessionEnd, notCount, CountGoto, SessionClosed,
      Session!SessionEnd
<1>7. CASE CountPublish
  BY <1>7 DEF CountPublish, notCount, CountGoto, Service!ServiceCall
<1>8. CASE CountSaved
  BY <1>8 DEF CountSaved, notCount, CountGoto, Service!ServiceReturn
<1>9. CASE GasRead
  BY <1>9 DEF GasRead, notGas, GasGoto
<1>10. CASE GasSaveCall
  BY <1>10 DEF GasSaveCall, notGas, GasGoto, Service!ServiceCall
<1>11. CASE GasPublish
  BY <1>11 DEF GasPublish, notGas, GasGoto, Service!ServiceReturn
<1>12. CASE NoRadio
  BY <1>12 DEF NoRadio, notSend, SendGoto
<1>13. CASE StartRadio
  BY <1>13 DEF StartRadio, notSend, SendGoto
<1>14. CASE JoinFails
  BY <1>14 DEF JoinFails, notSend, SendGoto
<1>15. CASE JoinRedOff
  BY <1>15 DEF JoinRedOff, notSend, SendGoto, RedOff
<1>16. CASE JoinRetry
  BY <1>16 DEF JoinRetry, notSend, SendGoto
<1>17. CASE JoinSucceeds
  BY <1>17 DEF JoinSucceeds, notSend, SendGoto, AfterJoin
<1>18. CASE SendGas
  BY <1>18 DEF SendGas, notSend, SendGoto, SendOne, SendCall, Payload,
      SendAcknowledged, SendTooLong, SendFails, SendEnds
<1>19. CASE SendOpc
  BY <1>19 DEF SendOpc, notSend, SendGoto, SendOne, SendCall, Payload,
      SendAcknowledged, SendTooLong, SendFails, SendEnds
<1>20. CASE Reset
  BY <1>20 DEF Reset, Service!ServiceReset
<1>21. CASE UNCHANGED vars
  BY <1>21 DEF vars, pcVars
<1>. QED
  BY <1>1, <1>2, <1>3, <1>4, <1>5, <1>6, <1>7, <1>8, <1>9, <1>10, <1>11, <1>12,
     <1>13, <1>14, <1>15, <1>16, <1>17, <1>18, <1>19, <1>20, <1>21
  DEF Next, main, count_particles, read_gas_and_ambient_sensors, send_data

\* Every step keeps the particle counter off outside of a session.
LEMMA SessionStep == LInv /\ [Next]_vars => SessionInv'
<1> SUFFICES ASSUME LInv, [Next]_vars PROVE SessionInv'
  OBVIOUS
<1> USE DEF LInv, TypeOK, ledVars, linkVars, frameVars, loraVars, opcVars,
           fileVars, SessionInv, CounterOffOutside, ThreadInv
<1>1. CASE MountCard
  BY <1>1 DEF MountCard, notMain, Service!ServiceBoot
<1>2. CASE NoAmbientSensor
  BY <1>2 DEF NoAmbientSensor, notMain
<1>3. CASE CreateThreads
  BY <1>3 DEF CreateThreads, notMain, ThreadsAfter
<1>4. CASE CountBegin
  BY <1>4 DEF CountBegin, notCount, CountGoto, Session!SessionBegin
<1>5. CASE CountSession
  BY <1>5 DEF CountSession, notCount, CountGoto, Session!SessionPowerOn,
      Session!SessionObey, Session!SessionPowerCycle, Session!SessionMeasure,
      Session!SessionStop, Session!SessionPowerOff
<1>6. CASE CountSessionEnd
  BY <1>6 DEF CountSessionEnd, notCount, CountGoto, SessionClosed,
      Session!SessionEnd
<1>7. CASE CountPublish
  BY <1>7 DEF CountPublish, notCount, CountGoto, Service!ServiceCall
<1>8. CASE CountSaved
  BY <1>8 DEF CountSaved, notCount, CountGoto, Service!ServiceReturn
<1>9. CASE read_gas_and_ambient_sensors
  BY <1>9 DEF read_gas_and_ambient_sensors, GasRead, GasSaveCall, GasPublish,
      notGas
<1>10. CASE send_data
  BY <1>10 DEF send_data, NoRadio, StartRadio, JoinFails, JoinRedOff, JoinRetry,
      JoinSucceeds, SendGas, SendOpc, notSend, SendOne, SendCall,
      SendAcknowledged, SendTooLong, SendFails, SendEnds
<1>11. CASE Reset
  BY <1>11 DEF Reset, Service!ServiceReset
<1>12. CASE UNCHANGED vars
  BY <1>12 DEF vars, pcVars
<1>. QED
  BY <1>1, <1>2, <1>3, <1>4, <1>5, <1>6, <1>7, <1>8, <1>9, <1>10, <1>11, <1>12
  DEF Next, main, count_particles, read_gas_and_ambient_sensors, send_data

\* Every step keeps the radio's callback alive and the send loop configured.
LEMMA RadioStep == LInv /\ [Next]_vars => RadioInv'
<1> SUFFICES ASSUME LInv, [Next]_vars PROVE RadioInv'
  OBVIOUS
<1> USE DEF LInv, TypeOK, ledVars, linkVars, frameVars, loraVars, opcVars,
           fileVars, RadioInv, CallbackAlive, SendsConfigured, ThreadInv
<1>1. CASE MountCard
  BY <1>1 DEF MountCard, notMain, Service!ServiceBoot
<1>2. CASE NoAmbientSensor
  BY <1>2 DEF NoAmbientSensor, notMain
<1>3. CASE CreateThreads
  BY <1>3 DEF CreateThreads, notMain, ThreadsAfter
<1>4. CASE count_particles
  BY <1>4 DEF count_particles, CountBegin, CountSession, CountSessionEnd,
      CountPublish, CountSaved, notCount
<1>5. CASE read_gas_and_ambient_sensors
  BY <1>5 DEF read_gas_and_ambient_sensors, GasRead, GasSaveCall, GasPublish,
      notGas
<1>6. CASE NoRadio
  BY <1>6 DEF NoRadio, notSend, SendGoto
<1>7. CASE StartRadio
  BY <1>7 DEF StartRadio, notSend, SendGoto
<1>8. CASE JoinFails
  BY <1>8 DEF JoinFails, notSend, SendGoto
<1>9. CASE JoinRedOff
  BY <1>9 DEF JoinRedOff, notSend, SendGoto, RedOff
<1>10. CASE JoinRetry
  BY <1>10 DEF JoinRetry, notSend, SendGoto
<1>11. CASE JoinSucceeds
  BY <1>11 DEF JoinSucceeds, notSend, SendGoto, AfterJoin
<1>12. CASE SendGas
  BY <1>12 DEF SendGas, notSend, SendGoto, SendOne, SendCall, Payload,
      SendAcknowledged, SendTooLong, SendFails, SendEnds
<1>13. CASE SendOpc
  BY <1>13 DEF SendOpc, notSend, SendGoto, SendOne, SendCall, Payload,
      SendAcknowledged, SendTooLong, SendFails, SendEnds
<1>14. CASE Reset
  BY <1>14 DEF Reset, Service!ServiceReset
<1>15. CASE UNCHANGED vars
  BY <1>15 DEF vars, pcVars
<1>. QED
  BY <1>1, <1>2, <1>3, <1>4, <1>5, <1>6, <1>7, <1>8, <1>9, <1>10, <1>11, <1>12,
     <1>13, <1>14, <1>15
  DEF Next, main, count_particles, read_gas_and_ambient_sensors, send_data

\* Every step keeps the red LED explained.
LEMMA RedLedStep == LInv /\ [Next]_vars => RedLedExplained'
<1> SUFFICES ASSUME LInv, [Next]_vars PROVE RedLedExplained'
  OBVIOUS
<1> USE DEF LInv, TypeOK, ledVars, linkVars, frameVars, loraVars, opcVars,
           fileVars, RedLedExplained
<1>1. CASE MountCard
  BY <1>1 DEF MountCard, notMain, Service!ServiceBoot
<1>2. CASE NoAmbientSensor
  BY <1>2 DEF NoAmbientSensor, notMain
<1>3. CASE CreateThreads
  BY <1>3 DEF CreateThreads, notMain, ThreadsAfter
<1>4. CASE CountBegin
  BY <1>4 DEF CountBegin, notCount, CountGoto, Session!SessionBegin
<1>5. CASE CountSession
  BY <1>5 DEF CountSession, notCount, CountGoto, Session!SessionPowerOn,
      Session!SessionObey, Session!SessionPowerCycle, Session!SessionMeasure,
      Session!SessionStop, Session!SessionPowerOff
<1>6. CASE CountSessionEnd
  BY <1>6 DEF CountSessionEnd, notCount, CountGoto, SessionClosed,
      Session!SessionEnd
<1>7. CASE CountPublish
  BY <1>7 DEF CountPublish, notCount, CountGoto, Service!ServiceCall
<1>8. CASE CountSaved
  BY <1>8 DEF CountSaved, notCount, CountGoto, Service!ServiceReturn
<1>9. CASE read_gas_and_ambient_sensors
  BY <1>9 DEF read_gas_and_ambient_sensors, GasRead, GasSaveCall, GasPublish,
      notGas
<1>10. CASE NoRadio
  BY <1>10 DEF NoRadio, notSend, SendGoto
<1>11. CASE StartRadio
  BY <1>11 DEF StartRadio, notSend, SendGoto
<1>12. CASE JoinFails
  BY <1>12 DEF JoinFails, notSend, SendGoto
<1>13. CASE JoinRedOff
  BY <1>13 DEF JoinRedOff, notSend, SendGoto, RedOff
<1>14. CASE JoinRetry
  BY <1>14 DEF JoinRetry, notSend, SendGoto
<1>15. CASE JoinSucceeds
  BY <1>15 DEF JoinSucceeds, notSend, SendGoto, AfterJoin
<1>16. CASE SendGas
  BY <1>16 DEF SendGas, notSend, SendGoto, SendOne, SendCall, Payload,
      SendAcknowledged, SendTooLong, SendFails, SendEnds
<1>17. CASE SendOpc
  BY <1>17 DEF SendOpc, notSend, SendGoto, SendOne, SendCall, Payload,
      SendAcknowledged, SendTooLong, SendFails, SendEnds
<1>18. CASE Reset
  BY <1>18 DEF Reset, Service!ServiceReset
<1>19. CASE UNCHANGED vars
  BY <1>19 DEF vars, pcVars
<1>. QED
  BY <1>1, <1>2, <1>3, <1>4, <1>5, <1>6, <1>7, <1>8, <1>9, <1>10, <1>11, <1>12,
     <1>13, <1>14, <1>15, <1>16, <1>17, <1>18, <1>19
  DEF Next, main, count_particles, read_gas_and_ambient_sensors, send_data

\* Every step keeps what is published, sent and delivered behind what is measured
\* and, for the gas records, saved.
LEMMA RecordStep == LInv /\ [Next]_vars => RecordInv'
<1> SUFFICES ASSUME LInv, [Next]_vars PROVE RecordInv'
  OBVIOUS
<1> USE DEF LInv, TypeOK, ledVars, linkVars, frameVars, loraVars, opcVars,
           fileVars, RecordInv, FrameOf, ThreadInv, RecordTypeOK, None, Types,
           Arrived, Service!ServiceTypeOK
<1>1. CASE main
  BY <1>1 DEF main, MountCard, NoAmbientSensor, CreateThreads, notMain,
      ThreadsAfter, Service!ServiceBoot
<1>2. CASE CountBegin
  BY <1>2 DEF CountBegin, notCount, CountGoto, Session!SessionBegin
<1>3. CASE CountSession
  BY <1>3 DEF CountSession, notCount, CountGoto, Session!SessionPowerOn,
      Session!SessionObey, Session!SessionPowerCycle, Session!SessionMeasure,
      Session!SessionStop, Session!SessionPowerOff
<1>4. CASE CountSessionEnd
  BY <1>4 DEF CountSessionEnd, notCount, CountGoto, SessionClosed,
      Session!SessionEnd
<1>5. CASE CountPublish
  BY <1>5 DEF CountPublish, notCount, CountGoto, Service!ServiceCall
<1>6. CASE CountSaved
  BY <1>6 DEF CountSaved, notCount, CountGoto, Service!ServiceReturn
<1>7. CASE GasRead
  BY <1>7 DEF GasRead, notGas, GasGoto
<1>8. CASE GasSaveCall
  BY <1>8 DEF GasSaveCall, notGas, GasGoto, Service!ServiceCall
<1>9. CASE GasPublish
  BY <1>9 DEF GasPublish, notGas, GasGoto, Service!ServiceReturn
<1>10. CASE NoRadio
  BY <1>10 DEF NoRadio, notSend, SendGoto
<1>11. CASE StartRadio
  BY <1>11 DEF StartRadio, notSend, SendGoto
<1>12. CASE JoinFails
  BY <1>12 DEF JoinFails, notSend, SendGoto
<1>13. CASE JoinRedOff
  BY <1>13 DEF JoinRedOff, notSend, SendGoto, RedOff
<1>14. CASE JoinRetry
  BY <1>14 DEF JoinRetry, notSend, SendGoto
<1>15. CASE JoinSucceeds
  BY <1>15 DEF JoinSucceeds, notSend, SendGoto, AfterJoin
<1>16. CASE SendGas
  BY <1>16 DEF SendGas, notSend, SendGoto, SendOne, SendCall, Payload,
      SendAcknowledged, SendTooLong, SendFails, SendEnds
<1>17. CASE SendOpc
  BY <1>17 DEF SendOpc, notSend, SendGoto, SendOne, SendCall, Payload,
      SendAcknowledged, SendTooLong, SendFails, SendEnds
<1>18. CASE Reset
  BY <1>18 DEF Reset, Service!ServiceReset
<1>19. CASE UNCHANGED vars
  BY <1>19 DEF vars, pcVars
<1>. QED
  BY <1>1, <1>2, <1>3, <1>4, <1>5, <1>6, <1>7, <1>8, <1>9, <1>10, <1>11, <1>12,
     <1>13, <1>14, <1>15, <1>16, <1>17, <1>18, <1>19
  DEF Next, main, count_particles, read_gas_and_ambient_sensors, send_data

\* The invariant holds in every reachable state.
LEMMA LabInductive == Spec => []LInv
<1>1. LInv /\ [Next]_vars => LInv'
  BY PcStep, BoardStep, RecordTypeStep, SessionTypeStep, ServiceTypeStep, ThreadStep,
     SessionStep, RadioStep, RedLedStep, RecordStep, Zenon DEF LInv, TypeOK
<1>. QED
  BY <1>1, LabInitInv, PTL DEF Spec
-----------------------------------------------------------------------------

\* The variables of main.c keep their types.
THEOREM LabTypeCorrect == Spec => []TypeOK
<1>1. LInv => TypeOK
  BY DEF LInv
<1>. QED
  BY <1>1, LabInductive, PTL

\* No gas record is on the air or delivered before save_data has returned.
THEOREM GasSaved == Spec => []GasSavedBeforeSent
<1>1. LInv => GasSavedBeforeSent
  BY DEF LInv, TypeOK, RecordTypeOK, RecordInv, FrameOf, GasSavedBeforeSent, Types,
     Service!ServiceTypeOK
<1>. QED
  BY <1>1, LabInductive, PTL

\* The structure in the frame of send_data outlives its registration.
THEOREM CallbackSafe == Spec => []CallbackAlive
<1>1. LInv => CallbackAlive
  BY DEF LInv, RadioInv
<1>. QED
  BY <1>1, LabInductive, PTL

\* Frames are sent only on a joined device whose data rate is set.
THEOREM SendsSafe == Spec => []SendsConfigured
<1>1. LInv => SendsConfigured
  BY DEF LInv, RadioInv
<1>. QED
  BY <1>1, LabInductive, PTL

\* Neither of the two threads that drive the red LED leaves it lit.
THEOREM RedLedSafe == Spec => []RedLedExplained
<1>1. LInv => RedLedExplained
  BY DEF LInv
<1>. QED
  BY <1>1, LabInductive, PTL

\* The relay of the particle counter is off outside of its sessions.
THEOREM CounterOff == Spec => []CounterOffOutside
<1>1. LInv => CounterOffOutside
  BY DEF LInv, SessionInv
<1>. QED
  BY <1>1, LabInductive, PTL

\* No measuring thread calls save_data too early or twice at a time.
THEOREM SavesSafe == Spec => []SavesAccepted
<1>1. LInv => SavesAccepted
  BY DEF LInv, ThreadInv, SavesAccepted
<1>. QED
  BY <1>1, LabInductive, PTL

-----------------------------------------------------------------------------
(* Deliveries                                                              *)

\* The last delivery is no newer than what is published, once something is, nor
\* than the frame on the air; a reset empties the messages, not the network.
OnAir(t, wait) == sendPc = wait /\ frame # 0 => delivered[t] <= frame

AdvanceInv ==
    /\ \A t \in Types : msg[t] # 0 => delivered[t] <= msg[t]
    /\ OnAir("gas", "gas_air")
    /\ OnAir("opc", "opc_air")

\* What the steps below use of the types.
LEMMA DeliveryTypes ==
    ASSUME LInv
    PROVE  /\ msg \in [Types -> Nat] /\ delivered \in [Types -> Nat]
           /\ rec \in [Types -> Nat]
           /\ \A t \in Types : delivered[t] <= rec[t]
           /\ sendPc = "gas_air" => frame \in Nat /\ frame <= msg["gas"]
           /\ sendPc = "opc_air" => frame \in Nat /\ frame <= msg["opc"]
  BY DEF LInv, TypeOK, RecordTypeOK, RecordInv, FrameOf, Service!ServiceTypeOK

\* A delivery by send_data is the frame on the air.
LEMMA SendDelivers ==
    ASSUME LInv, NEW t \in Types, NEW from, NEW wait, NEW next,
           SendOne(t, from, wait, next), wait = "gas_air" \/ wait = "opc_air",
           t = "gas" <=> wait = "gas_air"
    PROVE  \/ UNCHANGED delivered
           \/ /\ sendPc = wait /\ frame \in Nat /\ frame # 0 /\ frame <= msg[t]
              /\ delivered' = [delivered EXCEPT ![t] = frame]
<1>1. delivered' = delivered \/ (sendPc = wait /\ delivered' = Arrived(t))
  BY DEF SendOne, SendCall, SendAcknowledged, SendTooLong, SendFails, SendEnds, SendGoto
<1>2. sendPc = wait => frame \in Nat /\ frame <= msg[t]
  BY DeliveryTypes DEF Types
<1>3. frame = 0 => Arrived(t) = delivered
  BY DeliveryTypes DEF Arrived
<1>4. frame # 0 => Arrived(t) = [delivered EXCEPT ![t] = frame]
  BY DEF Arrived
<1>. QED
  BY <1>1, <1>2, <1>3, <1>4

\* A step of the send loop keeps deliveries behind what is published and sent.
LEMMA SendAdvances ==
    ASSUME LInv, AdvanceInv, NEW t \in Types, NEW from, NEW wait, NEW next,
           SendOne(t, from, wait, next), wait = "gas_air" \/ wait = "opc_air",
           t = "gas" <=> wait = "gas_air",
           from \in {"gas", "opc"}, next \in {"gas", "opc"}
    PROVE  AdvanceInv'
<1>1. UNCHANGED msg
  BY DEF SendOne, SendCall, SendAcknowledged, SendTooLong, SendFails, SendEnds, notSend
<1>2. \A u \in Types : msg'[u] # 0 => delivered'[u] <= msg'[u]
  <2>1. CASE UNCHANGED delivered
    BY <1>1, <2>1 DEF AdvanceInv
  <2>2. CASE ~UNCHANGED delivered
    BY <1>1, <2>2, SendDelivers, DeliveryTypes DEF AdvanceInv
  <2>. QED
    BY <2>1, <2>2
<1>3. \/ sendPc' = wait /\ frame' = msg[t] /\ delivered' = delivered
      \/ sendPc' = next
  BY DEF SendOne, SendCall, SendAcknowledged, SendTooLong, SendFails, SendEnds,
     SendGoto, Payload
<1>4. OnAir("gas", "gas_air")' /\ OnAir("opc", "opc_air")'
  BY <1>3 DEF AdvanceInv, OnAir, Types
<1>. QED
  BY <1>2, <1>4 DEF AdvanceInv

\* Every step keeps deliveries behind what is published and sent.
LEMMA AdvanceStep == LInv /\ AdvanceInv /\ [Next]_vars => AdvanceInv'
<1> SUFFICES ASSUME LInv, AdvanceInv, [Next]_vars PROVE AdvanceInv'
  OBVIOUS
<1>1. CASE UNCHANGED <<msg, frame, delivered>> /\ sendPc' \notin {"gas_air", "opc_air"}
  BY <1>1 DEF AdvanceInv, OnAir
<1>2. CASE UNCHANGED <<msg, frame, delivered, sendPc>>
  BY <1>2 DEF AdvanceInv, OnAir
<1>3. CASE main
  <2>1. UNCHANGED <<msg, frame, delivered>>
    BY <1>3 DEF main, MountCard, NoAmbientSensor, CreateThreads, notMain, loraVars,
       frameVars
  <2>2. sendPc' = sendPc \/ sendPc' = "ready"
    BY <1>3 DEF main, MountCard, NoAmbientSensor, CreateThreads
  <2>. QED
    BY <1>1, <1>2, <2>1, <2>2
<1>4. CASE CountBegin \/ CountSession \/ CountSessionEnd \/ CountSaved
  BY <1>2, <1>4 DEF CountBegin, CountSession, CountSessionEnd, CountSaved, notCount,
     loraVars, frameVars
<1>5. CASE CountPublish
  <2>1. UNCHANGED <<frame, delivered, sendPc>>
    BY <1>5 DEF CountPublish, notCount, loraVars, frameVars
  <2>2. msg' = [msg EXCEPT !["opc"] = rec["opc"] + 1]
    BY <1>5, DeliveryTypes DEF CountPublish, Service!ServiceCall, Types
  <2>. QED
    BY <2>1, <2>2, DeliveryTypes DEF AdvanceInv, OnAir, Types
<1>6. CASE GasRead \/ GasSaveCall
  BY <1>2, <1>6 DEF GasRead, GasSaveCall, notGas, loraVars, frameVars
<1>7. CASE GasPublish
  <2>1. UNCHANGED <<frame, delivered, sendPc>>
    BY <1>7 DEF GasPublish, notGas, loraVars, frameVars
  <2>2. msg' = [msg EXCEPT !["gas"] = rec["gas"]]
    BY <1>7 DEF GasPublish
  <2>. QED
    BY <2>1, <2>2, DeliveryTypes DEF AdvanceInv, OnAir, Types
<1>8. CASE NoRadio \/ StartRadio \/ JoinFails \/ JoinRedOff \/ JoinRetry \/ JoinSucceeds
  BY <1>1, <1>8 DEF NoRadio, StartRadio, JoinFails, JoinRedOff, JoinRetry,
     JoinSucceeds, AfterJoin, SendGoto, notSend, loraVars, frameVars
<1>9. CASE SendGas \/ SendOpc
  BY <1>9, SendAdvances DEF SendGas, SendOpc, Types
<1>10. CASE Reset
  BY <1>10 DEF Reset, AdvanceInv, OnAir
<1>11. CASE UNCHANGED vars
  BY <1>2, <1>11 DEF vars, pcVars, loraVars, frameVars
<1>. QED
  BY <1>3, <1>4, <1>5, <1>6, <1>7, <1>8, <1>9, <1>10, <1>11
  DEF Next, count_particles, read_gas_and_ambient_sensors, send_data

\* What the network gets is new to it, and a published record of the right type,
\* for every number of records and of resets.
THEOREM NetworkAdvances == Spec => DeliveriesAdvance
<1>1. Init => AdvanceInv
  BY DEF Init, AdvanceInv, OnAir, None, Types
<1>2. ASSUME LInv, AdvanceInv, Next, NEW t \in Types, delivered'[t] # delivered[t]
      PROVE  delivered[t] < delivered'[t] /\ delivered'[t] <= msg[t]
  <2>1. SendGas \/ SendOpc
    BY <1>2 DEF Next, main, MountCard, NoAmbientSensor, CreateThreads, notMain,
       count_particles, CountBegin, CountSession, CountSessionEnd, CountPublish,
       CountSaved, notCount, read_gas_and_ambient_sensors, GasRead, GasSaveCall,
       GasPublish, notGas, send_data, NoRadio, StartRadio, JoinFails, JoinRedOff,
       JoinRetry, JoinSucceeds, Reset, loraVars, frameVars
  <2>2. PICK u \in Types :
           /\ frame \in Nat /\ frame # 0 /\ frame <= msg[u] /\ delivered[u] <= frame
           /\ delivered' = [delivered EXCEPT ![u] = frame]
    BY <1>2, <2>1, SendDelivers DEF SendGas, SendOpc, AdvanceInv, OnAir, Types
  <2>3. t = u /\ delivered'[t] = frame
    BY <1>2, <2>2, DeliveryTypes
  <2>. QED
    BY <1>2, <2>2, <2>3, DeliveryTypes
<1>3. LInv /\ AdvanceInv /\ [Next]_vars
      => [\A t \in Types : delivered'[t] # delivered[t] =>
             delivered[t] < delivered'[t] /\ delivered'[t] <= msg[t]]_vars
  BY <1>2
<1>. QED
  BY <1>1, <1>3, AdvanceStep, LabInductive, PTL DEF Spec, DeliveriesAdvance

-----------------------------------------------------------------------------
(* Resends                                                                 *)

\* A record that -EAGAIN has sent back is no newer than the one in gas_msg.
RefusedInv == again # None => again <= msg["gas"]

\* Every step keeps the refused record behind gas_msg.
LEMMA RefusedStep == LInv /\ RefusedInv /\ [Next]_vars => RefusedInv'
<1> SUFFICES ASSUME LInv, RefusedInv, [Next]_vars PROVE RefusedInv'
  OBVIOUS
<1>1. CASE UNCHANGED <<msg, again>>
  BY <1>1 DEF RefusedInv
<1>2. CASE main
  BY <1>1, <1>2 DEF main, MountCard, NoAmbientSensor, CreateThreads, notMain, loraVars,
     frameVars
<1>3. CASE CountBegin \/ CountSession \/ CountSessionEnd \/ CountSaved
  BY <1>1, <1>3 DEF CountBegin, CountSession, CountSessionEnd, CountSaved, notCount,
     loraVars, frameVars
<1>4. CASE CountPublish
  <2>1. again' = again /\ msg'["gas"] = msg["gas"]
    BY <1>4, DeliveryTypes DEF CountPublish, notCount, loraVars, frameVars, Types
  <2>. QED
    BY <2>1 DEF RefusedInv
<1>5. CASE GasRead \/ GasSaveCall
  BY <1>1, <1>5 DEF GasRead, GasSaveCall, notGas, loraVars, frameVars
<1>6. CASE GasPublish
  <2>1. again' = again /\ msg'["gas"] = rec["gas"]
    BY <1>6, DeliveryTypes DEF GasPublish, notGas, loraVars, frameVars, Types
  <2>2. msg["gas"] <= rec["gas"] /\ msg["gas"] \in Nat /\ rec["gas"] \in Nat
    BY DeliveryTypes DEF LInv, RecordInv, Types
  <2>3. again \in Nat \cup {None}
    BY DEF LInv, TypeOK, RecordTypeOK
  <2>. QED
    BY <2>1, <2>2, <2>3 DEF RefusedInv
<1>7. CASE NoRadio \/ StartRadio \/ JoinFails \/ JoinRedOff \/ JoinRetry \/ JoinSucceeds
  BY <1>1, <1>7 DEF NoRadio, StartRadio, JoinFails, JoinRedOff, JoinRetry,
     JoinSucceeds, notSend, loraVars, frameVars
<1>8. CASE SendGas
  <2>1. UNCHANGED msg
    BY <1>8 DEF SendGas, SendOne, SendCall, SendAcknowledged, SendTooLong, SendFails,
       SendEnds, notSend
  <2>2. again' = again \/ again' = None \/ (sendPc = "gas_air" /\ again' = frame)
    BY <1>8 DEF SendGas, SendOne, SendCall, SendAcknowledged, SendTooLong, SendFails,
       SendEnds, SendGoto
  <2>. QED
    BY <2>1, <2>2, DeliveryTypes DEF RefusedInv
<1>9. CASE SendOpc
  BY <1>1, <1>9 DEF SendOpc, SendOne, SendCall, SendAcknowledged, SendTooLong, SendFails,
     SendEnds, notSend
<1>10. CASE Reset
  BY <1>10 DEF Reset, RefusedInv
<1>11. CASE UNCHANGED vars
  BY <1>1, <1>11 DEF vars, loraVars, frameVars
<1>. QED
  BY <1>2, <1>3, <1>4, <1>5, <1>6, <1>7, <1>8, <1>9, <1>10, <1>11
  DEF Next, count_particles, read_gas_and_ambient_sensors, send_data

\* What follows a refused gas record on the air is that record or a newer one.
THEOREM ResendsNewer == Spec => ResendsNoOlder
<1>1. Init => RefusedInv
  BY DEF Init, RefusedInv
<1>2. ASSUME LInv, RefusedInv, Next, again # None, sendPc = "gas", sendPc' = "gas_air"
      PROVE  again <= frame'
  <2>1. SendGas
    BY <1>2 DEF Next, main, MountCard, NoAmbientSensor, CreateThreads,
       count_particles, CountBegin, CountSession, CountSessionEnd, CountPublish,
       CountSaved, notCount, read_gas_and_ambient_sensors, GasRead, GasSaveCall,
       GasPublish, notGas, send_data, NoRadio, StartRadio, JoinFails, JoinRedOff,
       JoinRetry, JoinSucceeds, SendGoto, SendOpc, SendOne, SendCall,
       SendAcknowledged, SendTooLong, SendFails, SendEnds, Reset
  <2>2. frame' = msg["gas"]
    BY <1>2, <2>1 DEF SendGas, SendOne, SendCall, Payload, SendAcknowledged, SendTooLong,
       SendFails, SendEnds, SendGoto
  <2>. QED
    BY <1>2, <2>2 DEF RefusedInv
<1>3. LInv /\ RefusedInv /\ [Next]_vars
      => [again # None /\ sendPc = "gas" /\ sendPc' = "gas_air" => again <= frame']_vars
  BY <1>2
<1>. QED
  BY <1>1, <1>3, RefusedStep, LabInductive, PTL DEF Spec, ResendsNoOlder
=============================================================================

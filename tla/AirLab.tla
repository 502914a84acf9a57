-------------------------------- MODULE AirLab --------------------------------
(***************************************************************************)
(* main.c: main boots the board and creates three threads of one priority. *)
(* count_particles measures with the particle counter, a session of        *)
(* OpcSession; read_gas_and_ambient_sensors reads the gas and ambient      *)
(* sensors; both save a record (FileService) and publish it in a global    *)
(* message.  send_data joins the LoRaWAN network and sends both messages   *)
(* in turn.  No thread preempts another of its priority, so that one       *)
(* action is what a thread does between two calls that may sleep.          *)
(*                                                                         *)
(* The LoRaWAN stack and the network are external: a call returns what     *)
(* main.c distinguishes, success, -EAGAIN or another error, and the data   *)
(* of a frame is copied when lorawan_send is entered.                      *)
(***************************************************************************)
EXTENDS Integers

CONSTANTS
    MaxSaves,   \* bound: records of each type, see FileService
    MaxResets   \* bound: resets of the board

ASSUME AirLabAssumption ==
    /\ MaxSaves \in [{"gas", "opc"} -> Nat]
    /\ MaxResets \in Nat

Types == {"gas", "opc"}
None  == -1

VARIABLES
    mainPc,     \* "boot", "mounted", "running", or "stopped" when main returned
    countPc,    \* where count_particles sleeps
    gasPc,      \* where read_gas_and_ambient_sensors sleeps
    sendPc,     \* where send_data sleeps
    msg,        \* gas_msg and opc_msg: the record in each, 0 while empty
    ledRed,
    ledGreen,
    registered, \* downlink_cb, in the frame of send_data, is in the stack's list
    joined,     \* the device has joined the network
    drSet,      \* lorawan_set_datarate(DR_2) has succeeded since
    frame,      \* the record in the frame under way, None if there is none
    again,      \* history: the gas record just refused with -EAGAIN, or None
    delivered,  \* the last record of each type that reached the network
    resets,
    \* opc.c, see OpcSession
    phase, power, sampling,
    \* file_system.c, see FileService
    booted, saving, rec

Session == INSTANCE OpcSession
Service == INSTANCE FileService

pcVars   == <<mainPc, countPc, gasPc, sendPc>>
ledVars  == <<ledRed, ledGreen>>
linkVars == <<registered, joined, drSet>>
frameVars == <<frame, again, delivered>>
loraVars == <<linkVars, frameVars>>
opcVars  == <<phase, power, sampling>>
fileVars == <<booted, saving, rec>>
vars == <<pcVars, msg, ledVars, loraVars, resets, opcVars, fileVars>>

\* What each thread leaves alone in all its actions.
notMain  == <<msg, loraVars, resets, opcVars>>
notCount == <<mainPc, gasPc, sendPc, ledGreen, loraVars, resets>>
notGas   == <<mainPc, countPc, sendPc, ledVars, loraVars, resets, opcVars>>
notSend  == <<mainPc, countPc, gasPc, msg, resets, opcVars, fileVars>>

\* A thread that has not been created yet is "none".
CountPoints == {"none", "ready", "session", "ambient", "save", "sleep"}
GasPoints   == {"none", "ready", "reading", "save", "sleep"}
SendPoints  == {"none", "ready", "ended", "join", "join_red", "join_wait",
                "gas", "gas_air", "opc", "opc_air"}

PcTypeOK ==
    /\ mainPc \in {"boot", "mounted", "running", "stopped"}
    /\ countPc \in CountPoints
    /\ gasPc \in GasPoints
    /\ sendPc \in SendPoints

BoardTypeOK ==
    /\ ledRed \in {0, 1}
    /\ ledGreen \in {0, 1}
    /\ registered \in BOOLEAN
    /\ joined \in BOOLEAN
    /\ drSet \in BOOLEAN
    /\ resets \in 0..MaxResets

RecordTypeOK ==
    /\ msg \in [Types -> Nat]
    /\ frame \in Nat \cup {None}
    /\ again \in Nat \cup {None}
    /\ delivered \in [Types -> Nat]
    /\ \A t \in Types : msg[t] <= MaxSaves[t] /\ delivered[t] <= MaxSaves[t]

TypeOK ==
    /\ PcTypeOK
    /\ BoardTypeOK
    /\ RecordTypeOK
    /\ Session!SessionTypeOK
    /\ Service!ServiceTypeOK

Init ==
    /\ mainPc = "boot"
    /\ countPc = "none" /\ gasPc = "none" /\ sendPc = "none"
    /\ msg = [t \in Types |-> 0]
    /\ ledRed = 0 /\ ledGreen = 0
    /\ registered = FALSE /\ joined = FALSE /\ drSet = FALSE
    /\ frame = None /\ again = None
    /\ delivered = [t \in Types |-> 0]
    /\ resets = 0
    /\ Session!SessionInit
    /\ Service!ServiceInit

\* A reset finds nothing in RAM, in the pins and in the radio.
Reset ==
    /\ resets < MaxResets
    /\ mainPc' = "boot"
    /\ countPc' = "none" /\ gasPc' = "none" /\ sendPc' = "none"
    /\ msg' = [t \in Types |-> 0]
    /\ ledRed' = 0 /\ ledGreen' = 0
    /\ registered' = FALSE /\ joined' = FALSE /\ drSet' = FALSE
    /\ frame' = None /\ again' = None
    /\ resets' = resets + 1
    /\ phase' = "idle" /\ power' = FALSE /\ sampling' = FALSE
    /\ Service!ServiceReset
    /\ UNCHANGED delivered

-----------------------------------------------------------------------------
(* main                                                                    *)

MountCard ==
    /\ mainPc = "boot" /\ mainPc' = "mounted"
    /\ Service!ServiceBoot
    /\ UNCHANGED <<notMain, countPc, gasPc, sendPc, ledVars>>

\* get_bme280_device returns NULL: main returns and no thread is created.
NoAmbientSensor ==
    /\ mainPc = "mounted" /\ mainPc' = "stopped"
    /\ UNCHANGED <<notMain, countPc, gasPc, sendPc, ledVars, fileVars>>

\* Mutant: the threads are created before the card is mounted.
ThreadsEarly == "boot"

ThreadsAfter == "mounted"

\* The pins are configured and the three threads created.  main has the highest
\* priority: none of them runs before it sleeps in its final loop.
CreateThreads ==
    /\ mainPc = ThreadsAfter /\ mainPc' = "running"
    /\ countPc' = "ready" /\ gasPc' = "ready" /\ sendPc' = "ready"
    /\ ledRed' = 0 /\ ledGreen' = 0
    /\ UNCHANGED <<notMain, fileVars>>

main == MountCard \/ NoAmbientSensor \/ CreateThreads

-----------------------------------------------------------------------------
(* count_particles                                                         *)

CountGoto(from, to) == countPc \in from /\ countPc' = to

CountBegin ==
    /\ CountGoto({"ready", "sleep"}, "session")
    /\ ledRed' = 1
    /\ Session!SessionBegin
    /\ UNCHANGED <<notCount, msg, fileVars>>

\* Inside opc_start, opc_read_histogram and opc_stop.
CountSession ==
    /\ countPc = "session"
    /\ \/ Session!SessionPowerOn
       \/ Session!SessionObey
       \/ Session!SessionPowerCycle
       \/ Session!SessionMeasure
       \/ Session!SessionStop
       \/ Session!SessionPowerOff
    /\ UNCHANGED <<notCount, countPc, msg, ledRed, fileVars>>

\* Mutant: a counter that does not get ready is left, and left on.
SessionDropped ==
    phase = "start" /\ phase' = "idle" /\ UNCHANGED <<power, sampling>>

SessionClosed == Session!SessionEnd

\* opc_release returns; ambient_sensors_read is entered.
CountSessionEnd ==
    /\ CountGoto({"session"}, "ambient")
    /\ SessionClosed
    /\ ledRed' = 0
    /\ UNCHANGED <<notCount, msg, fileVars>>

\* The record is published in opc_msg and then given to save_data.
CountPublish ==
    /\ CountGoto({"ambient"}, "save")
    /\ Service!ServiceCall("opc")
    /\ msg' = [msg EXCEPT !["opc"] = rec'["opc"]]
    /\ UNCHANGED <<notCount, ledRed, opcVars>>

\* save_data returns; the thread sleeps two minutes.
CountSaved ==
    /\ CountGoto({"save"}, "sleep")
    /\ Service!ServiceReturn("opc")
    /\ UNCHANGED <<notCount, msg, ledRed, opcVars>>

count_particles ==
    CountBegin \/ CountSession \/ CountSessionEnd \/ CountPublish \/ CountSaved

-----------------------------------------------------------------------------
(* read_gas_and_ambient_sensors                                            *)

GasGoto(from, to) == gasPc \in from /\ gasPc' = to

\* Mutant: the sensors are read only on a board that has joined.
GasReadJoined ==
    /\ joined
    /\ GasGoto({"ready", "sleep"}, "reading")
    /\ UNCHANGED <<notGas, msg, fileVars>>

\* After the warm-up, or 30 s after the last record, both sensors are read.
GasRead ==
    /\ GasGoto({"ready", "sleep"}, "reading")
    /\ UNCHANGED <<notGas, msg, fileVars>>

\* Mutant: published first, as count_particles does.
GasPublishFirst ==
    /\ GasGoto({"reading"}, "save")
    /\ Service!ServiceCall("gas")
    /\ msg' = [msg EXCEPT !["gas"] = rec'["gas"]]
    /\ UNCHANGED notGas

\* Mutant: gas_msg is emptied for the record that is being saved.
GasSaveEmpties ==
    /\ GasGoto({"reading"}, "save")
    /\ Service!ServiceCall("gas")
    /\ msg' = [msg EXCEPT !["gas"] = 0]
    /\ UNCHANGED notGas

GasSaveCall ==
    /\ GasGoto({"reading"}, "save")
    /\ Service!ServiceCall("gas")
    /\ UNCHANGED <<notGas, msg>>

\* Only when save_data has returned is the record published in gas_msg.
GasPublish ==
    /\ GasGoto({"save"}, "sleep")
    /\ Service!ServiceReturn("gas")
    /\ msg' = [msg EXCEPT !["gas"] = rec["gas"]]
    /\ UNCHANGED notGas

read_gas_and_ambient_sensors == GasRead \/ GasSaveCall \/ GasPublish

-----------------------------------------------------------------------------
(* send_data                                                               *)

SendGoto(from, to) == sendPc = from /\ sendPc' = to

\* No radio, or lorawan_start fails: the thread returns.
NoRadio ==
    /\ SendGoto("ready", "ended")
    /\ UNCHANGED <<notSend, ledVars, loraVars>>

\* lorawan_start succeeds; the callbacks are registered, lorawan_join is entered.
StartRadio ==
    /\ SendGoto("ready", "join")
    /\ registered' = TRUE
    /\ UNCHANGED <<notSend, joined, drSet, frameVars, ledVars>>

\* The request has ended whatever activation there was.
JoinFails ==
    /\ SendGoto("join", "join_red")
    /\ joined' = FALSE
    /\ ledRed' = 1
    /\ UNCHANGED <<notSend, ledGreen, registered, drSet, frameVars>>

\* Mutant: the red LED is not switched off after a failed join.
RedKept == ledRed

RedOff == 0

JoinRedOff ==
    /\ SendGoto("join_red", "join_wait")
    /\ ledRed' = RedOff
    /\ UNCHANGED <<notSend, ledGreen, loraVars>>

JoinRetry ==
    /\ SendGoto("join_wait", "join")
    /\ UNCHANGED <<notSend, ledVars, loraVars>>

\* Mutant: the result of lorawan_set_datarate is dropped.
AfterAnyJoin(drOk) == "gas"

\* The value of ret after lorawan_join and lorawan_set_datarate decides whether
\* the loop is left: a data rate refused means another join.
AfterJoin(drOk) == IF drOk THEN "gas" ELSE "join"

JoinSucceeds ==
    /\ \E drOk \in BOOLEAN :
          /\ drSet' = drOk
          /\ SendGoto("join", AfterJoin(drOk))
    /\ joined' = TRUE
    /\ ledGreen' = 1
    /\ UNCHANGED <<notSend, ledRed, registered, frameVars>>

\* Mutant: gas_msg is sent in both places.
GasPayload(t) == msg["gas"]

Payload(t) == msg[t]

\* lorawan_send(port, msg[t], strlen(msg[t]), LORAWAN_MSG_CONFIRMED).  The two
\* points name the loop position of the call and the wait for its outcome.
SendCall(t, from, wait) ==
    /\ SendGoto(from, wait)
    /\ frame' = Payload(t)
    /\ UNCHANGED <<notSend, linkVars, again, delivered, ledVars>>

\* What the network has got last; an empty message brings it no record.
Arrived(t) == [delivered EXCEPT ![t] = IF frame = 0 THEN @ ELSE frame]

\* lorawan_send has returned and the frame is gone; refused is the gas record
\* that -EAGAIN has sent back, if any.
SendEnds(t, wait, next, refused) ==
    /\ SendGoto(wait, next)
    /\ frame' = None
    /\ again' = IF t = "gas" THEN refused ELSE again
    /\ UNCHANGED <<notSend, linkVars>>

\* Mutant: a continue after a frame that got through, the loop starts over.
SendStartsOver(t, wait, next) ==
    /\ SendEnds(t, wait, "gas", None)
    /\ delivered' = Arrived(t)
    /\ ledGreen' = 0
    /\ UNCHANGED ledRed

\* The frame is acknowledged: the green LED blinks twenty times, ending dark.
SendAcknowledged(t, wait, next) ==
    /\ SendEnds(t, wait, next, None)
    /\ delivered' = Arrived(t)
    /\ ledGreen' = 0
    /\ UNCHANGED ledRed

\* -EAGAIN: an empty frame went out in the place of the data.
SendTooLong(t, wait, next) ==
    SendEnds(t, wait, next, frame) /\ UNCHANGED <<delivered, ledVars>>

\* Mutant: the return that main.c:301 and 325 have in a comment.
SendReturns(t, wait, next) ==
    SendEnds(t, wait, "ended", None) /\ UNCHANGED <<delivered, ledVars>>

\* Another error: the frame was not sent, or was lost, or its answer was.
SendFails(t, wait, next) ==
    /\ SendEnds(t, wait, next, None)
    /\ delivered' \in {delivered, Arrived(t)}
    /\ UNCHANGED ledVars

SendOne(t, from, wait, next) ==
    \/ SendCall(t, from, wait)
    \/ SendAcknowledged(t, wait, next)
    \/ SendTooLong(t, wait, next)
    \/ SendFails(t, wait, next)

SendGas == SendOne("gas", "gas", "gas_air", "opc")
SendOpc == SendOne("opc", "opc", "opc_air", "gas")

send_data ==
    \/ NoRadio \/ StartRadio
    \/ JoinFails \/ JoinRedOff \/ JoinRetry \/ JoinSucceeds
    \/ SendGas \/ SendOpc

-----------------------------------------------------------------------------

Next == main \/ count_particles \/ read_gas_and_ambient_sensors \/ send_data \/ Reset

Spec == Init /\ [][Next]_vars

\* The ready queue is first-in first-out and no thread of priority 5 keeps the
\* CPU without sleeping.  Nothing is assumed of the particle counter: a session
\* may go on for ever.
Scheduling ==
    /\ WF_vars(main)
    /\ WF_vars(count_particles)
    /\ WF_vars(read_gas_and_ambient_sensors)
    /\ WF_vars(send_data)

FairSpec == Spec /\ Scheduling

\* The network of Uplink: joins are accepted, the data rate is, and frames of
\* either type are acknowledged, if only they are tried for ever.
NetworkFairness ==
    /\ SF_vars(JoinSucceeds /\ drSet')
    /\ SF_vars(SendAcknowledged("gas", "gas_air", "opc"))
    /\ SF_vars(SendAcknowledged("opc", "opc_air", "gas"))

NetworkSpec == FairSpec /\ NetworkFairness

-----------------------------------------------------------------------------
(* Safety                                                                  *)

\* A gas record goes on the air only after save_data has returned (main.c:192,
\* 193): while it is being saved, no frame and no delivery has it.
GasSavedBeforeSent ==
    "gas" \in saving => /\ sendPc = "gas_air" => frame < rec["gas"]
                        /\ delivered["gas"] < rec["gas"]

\* The list of downlink callbacks holds a structure in the frame of send_data
\* (main.c:215, 237): the thread must outlive its registration.
CallbackAlive == registered => sendPc \notin {"none", "ready", "ended"}

\* The send loop runs only on a joined device with the data rate set: a join
\* whose data rate is refused is followed by another join (main.c:248-265).
SendsConfigured == sendPc \in {"gas", "gas_air", "opc", "opc_air"} => joined /\ drSet

\* Two threads drive the red LED.  Neither leaves it lit: it is lit only during
\* a session of the particle counter or for the second after a failed join.
RedLedExplained == ledRed = 1 => countPc = "session" \/ sendPc = "join_red"

\* Whatever count_particles does between two sessions - the ambient sensors, the
\* card, two minutes of sleep - and after a reset in the middle of one, the relay
\* of the particle counter is off (main.c:123-127).
CounterOffOutside == countPc # "session" => phase = "idle" /\ ~power /\ ~sampling

\* When a measuring thread calls save_data, the card has been mounted or given up
\* and its previous call has returned: the call is never refused.
SavesAccepted ==
    /\ countPc \in {"ready", "session", "ambient", "sleep"} => booted /\ "opc" \notin saving
    /\ gasPc \in {"ready", "reading", "sleep"} => booted /\ "gas" \notin saving

\* What reaches the network for the first time is a record of the message's own
\* type, published by then and newer than the one before: frames lost, refused,
\* resent, or acknowledged too late and sent again, and resets that empty the
\* messages, never take the network back (main.c:285, 316).
DeliveriesAdvance ==
    [][\A t \in Types : delivered'[t] # delivered[t] =>
          delivered[t] < delivered'[t] /\ delivered'[t] <= msg[t]]_vars

\* After -EAGAIN gas_msg may have changed by the next turn, at least 24 s and one
\* particle frame later; what goes out then is the record refused or a newer one,
\* unless the board has been reset in between (main.c:285-298).
ResendsNoOlder ==
    [][again # None /\ sendPc = "gas" /\ sendPc' = "gas_air" => again <= frame']_vars

-----------------------------------------------------------------------------
(* Liveness                                                                *)

\* The gas thread goes on measuring and saving whatever the network, the card and
\* the particle counter do, until the board is reset, as long as main found its
\* ambient sensor.
SensingIndependent ==
    mainPc = "running" ~> (rec["gas"] = MaxSaves["gas"] \/ mainPc # "running")

\* Once the radio is started, what is published in gas_msg and opc_msg reaches the
\* network, or something newer does: neither message starves the other.
Uplink ==
    \A t \in Types : \A n \in 1..MaxSaves[t] :
        (registered /\ msg[t] = n) ~> (delivered[t] >= n)

-----------------------------------------------------------------------------
(* What the comments of main.c say                                         *)

\* main.c:289-292: after -EAGAIN "we are just sending the same data here, we'll
\* just continue".
SameDataResent ==
    [][again # None /\ sendPc = "gas" /\ sendPc' = "gas_air" => frame' = again]_vars
=============================================================================

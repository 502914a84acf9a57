# TLA+ specifications of LoRaWAN AirLab

AirLab is the firmware of an air-quality station: a Zephyr application for the
STM32WL55 (`src/src/*.c`) that reads an optical particle counter over bit-banged
SPI, eight electrochemical gas channels and a BME280 over I2C, appends the
readings to two files on an SD card and sends them as confirmed LoRaWAN frames.
This directory holds TLA+ models of it, the TLC configurations that check them,
and TLAPS proofs.

## 1. The system

### Threads and scheduling

`main` (priority 0) mounts the card, looks for the BME280, configures pins,
creates three threads of priority 5 and then sleeps for ever in 5 ms steps:

| thread | loop | shared state it writes |
|---|---|---|
| `count_particles` | particle session, ambient sensors, publish, save, sleep 120 s | `opc_msg`, red LED, pins of the counter, `/SD:/0000.opc` |
| `read_gas_and_ambient_sensors` | gas sensors, ambient sensors, save, publish, sleep 30 s | `gas_msg`, `/SD:/0000.gas` |
| `send_data` | start radio, join until joined, then send `gas_msg`, sleep, send `opc_msg`, sleep | red and green LED, radio |

Two facts of the build shape every model. All three workers have one priority and
time slicing is off (`CONFIG_TIMESLICE_SIZE=0` in the generated configuration), so a
worker loses the CPU to another one only in a call that blocks: `k_msleep`,
`k_usleep`, an I2C or SD transfer, a LoRaWAN call. **One action is therefore the
code between two points where the thread may block**; what lies in between, such
as the two `strcpy` into the messages, is atomic with respect to the other
workers. And ready threads of one priority queue first-in first-out, so a worker
that is ready runs as soon as those before it block: this justifies weak fairness
for each thread, and nothing stronger.

### Components

| component | source | state | operations | correct when |
|---|---|---|---|---|
| particle counter driver | `opc.c` | relay (gpiob 3), SPI lines (gpioa 4, 7), poll counter, sample index, sums; in the unit: power, "expects an option", fan and laser | `opc_init`, `opc_start`, `opc_read_histogram`, `opc_stop`, `opc_release`, `opc_send_command` | the unit is spoken to only while powered, framed by slave select, read only while it runs; polls are bounded and power cycles earned; the average is over what was summed; each session ends dark and unpowered |
| application threads | `main.c` | program counters, `gas_msg`, `opc_msg`, LEDs, join state, the registered downlink callback | see above | sensing never depends on the network; what is sent was saved (gas); the loop sends only when joined with its data rate; LEDs are not left lit; the published data arrives |
| SD card | `file_system.c` | the mount point, one file handle per call; on the card, the two files | `init_and_mount_sdcard`, `save_data`, `lsdir` | each call returns and gives its file object back; it leaves one entry at most, in order, through failures and resets; the card is formatted under nobody's hands |
| gas sensors | `gas_sensors.c` | I2C device, result array | `gas_sensors_init`, `gas_sensors_read` | a transfer that fails costs the entry of its own channel at most; the call returns |
| ambient sensors | `ambient_sensors.c` | the BME280 and its last fetched sample, shared by two threads | `get_bme280_device`, `ambient_sensors_read` | values were measured since the call began, whichever thread fetched them; an error leaves the old values; records do not go back in time |
| time system | `time_system.c` | DS3231 | `init_time_system`, `get_formatted_time`, `get_date` | (never called: every call is in a comment) |
| LoRaWAN stack, FatFs, kernel | not in the repository | | | external |

Interactions are direct calls (threads into `opc.c`, `file_system.c`, the sensor
files), shared globals (`gas_msg`, `opc_msg`), shared hardware (both LEDs; the
BME280; the card, entered by two threads without a lock), and one callback
(`dl_callback`, which only logs) that the LoRaWAN stack reaches through a
structure in the stack frame of `send_data`.

Hard to test: a unit, card or network that fails half-way; retries counted in a
`uint8_t`; a reset during a save; two threads meeting in one device; a message
that changes between two tries to send it. `PROJECT.json` lists these hazards line
by line, each with the properties that watch it.

## 2. The modules

| module | models | role |
|---|---|---|
| `OpcSession` | what a measuring session promises to `count_particles` | abstract |
| `OpcDriver` | `opc.c`, all of a session | implements `OpcSession` |
| `OpcDriverProofs` | | inductive invariant and theorems of `OpcDriver` |
| `FileService` | what `save_data` promises to the threads | abstract |
| `FileStore` | `file_system.c` over FatFs | implements `FileService` |
| `FileStoreProofs` | | inductive invariant and theorems of `FileStore` |
| `AmbientService` | what `ambient_sensors_read` promises to its two callers | abstract |
| `AmbientSensors` | `ambient_sensors.c`, called by two threads | implements `AmbientService` |
| `AmbientSensorsProofs` | | inductive invariant and theorems of `AmbientSensors` |
| `GasSensors` | `gas_sensors.c` with its two converters | called by one thread |
| `GasSensorsProofs` | | inductive invariant and theorems of `GasSensors` |
| `AirLab` | `main.c`: `main` and the three threads | uses `OpcSession` and `FileService` by INSTANCE |
| `AirLabProofs` | | inductive invariant and theorems of `AirLab` |
| `MCOpcDriver`, `MCFileStore`, `MCAmbientSensors`, `MCGasSensors`, `MCAirLab` | constants for TLC | |

`AirLab` composes the system: a step of `count_particles` inside the counter's
driver is a step of `OpcSession`, a call of `save_data` is `ServiceCall` and its
return `ServiceReturn`. As `OpcDriver` and `FileStore` are shown to implement these
two, `AirLab` need not repeat polls, pins or file handles. The two sensor reads are
one blocking call each in `AirLab`, and no property there depends on their outcome;
`AmbientSensors` has the two callers itself, free to call at any time, which includes
every timing that `AirLab` allows.

### OpcDriver

`phase` is the function in progress, `pc` the sleep the thread is in. The loop
shared by `opc_start` and `opc_stop` is `Probe`, `SendOption`, `NotReady`,
`PollAgain`; they differ in what follows patience: `PowerCycle`/`PowerBack`
(opc.c:167-177) against `GiveUp` (opc.c:225-228). `opc_send_command` is three
actions: select (`SendCommand`, in the caller's step), `Transceive`, `Deselect`.
`opc_stop` first switches the relay *on* (opc.c:191); `RelayOn` keeps that.

Abstractions. A reply is `READY` (243), `ACK` (3) or 0 for any other byte; 49 is only
logged. The contents of the 62 bytes are reduced to whether they were read in this
sample (`stale` counts the samples summed without). Sleeps have no length. The unit
(`UnitAnswers`, external) may answer anything at any time; the one thing assumed is
what `opc.c` relies on: `READY` to the power command makes it expect an option, and
an `ACK` to that option means it was obeyed. It may also obey without the ACK
getting through. Cutting the relay makes it forget everything. The pins of gpiob
that opc.c:170-173 and 233-236 clear are not those of the SPI bus
(`boards/nucleo_wl55jc.overlay` puts it on gpioa 4 to 7), so `CutPower` leaves `ss`
and `mosi` alone; gpioa 5 is low between transfers and is not modelled.

`polls` is a history variable, the failed polls of this power-on, counted up to
`MaxPolls`, which is one more than `PatienceBounded` allows.

### FileStore

`at[t]` is the call in which `save_data(_, t)` sleeps. Each type has one calling
thread, as in `main.c`. External facts, from the Zephyr version in the build
directory: `fs_open` takes an object from a pool of `CONFIG_FS_FATFS_NUM_FILES` = 4
and returns it on failure; `fs_write` on an unbound handle fails, `fs_close` on one
does nothing; `fs_close` frees the object even when its last write fails. Data are
in the file object until `fs_close`; it is there that the record reaches the card,
whole, in part (`Torn`, a full card) or not at all. `FSReset` may happen at any
point and leaves the card alone.

`Mount` is `fs_mount` at file_system.c:71. The build has `CONFIG_FS_FATFS_MOUNT_MKFS=y` and the
flags of `mp` are 0, so that FatFs, where it recognises no file system, makes one: the
records of earlier boots are then gone. Whether it recognises one depends on the card (new,
damaged, a sector misread): any boot of the model may format, and the mount may fail after
that too. The card is no lasting record, therefore; what is checked is that only a
boot takes entries away, and under nobody's hands (`FormatsAlone`).

FatFs is built without `FF_FS_REENTRANT`, and the SD driver sleeps while the card is
busy. `overlapped` records that two threads have been inside it together. The model
then goes on as if the two calls did not disturb each other: what FatFs does in that
case cannot be derived from the code here, so **`RecordsInOrder` claims nothing once
`overlapped` is true**. Overlap is a step away in most states: the result covers the
failures, resets and formats of saves that do not meet inside the card.
`FilesAccountedFor`, `FormatsAlone` and the return of each call do not depend on it.

### AmbientSensors

Two threads call `ambient_sensors_read` for the one BME280. `at[t]` is the sleep of
thread `t`: before the fetch (`settle`), in the driver's loop over the status register
(`status`), in the burst transfer (`burst`), and in the 20 ms after the fetch (`fetched`
or `failed`). The driver has one `sample` for all callers, so what a thread reads after
its 20 ms may be what the other one fetched meanwhile. A value is the number of the
unit's measurement; `sum[t]` and `values[t]` are the sets of measurements in the sum and
in the caller's array, an average being told apart only by what went into it. The three
`sensor_channel_get` copy from memory and do not sleep: they are one step and cannot
fail. `main.c` always asks for one sample; the model leaves the number to each thread.

`sum` is not initialised (ambient_sensors.c:66). In the listing of the build the array
lives in registers whose content at that point is 0, or an address that as a `float`
is about 1e-34: `SumAtEntry` is empty. It is a fact of this compilation, not of the
language; its mutant shows what stale content would do.

The driver and the bus are external: one transfer at a time, status polled without a
limit, the sample computed in one step after a good burst and left alone after a bad one.

### GasSensors

`pc` is the transfer that comes next. For each slot (an entry of `result`) the code
writes the multiplexer (`ConfigDone`), sets the pointer of the converter back
(`PointDone`) and reads two bytes (`ReadDone`); it assigns each outcome to `ret` and
looks at none. `ConfigFails`, `PointFails` and `ReadFails` give each transfer the ways it
can stop half-way, with the pointer moved or not and the buffer old, half new or new.
`result`, the buffer and the conversion registers hold words of 16 bits; `Clamp` is
gas_sensors.c:87, `Return` the division at line 136. `level` is a history variable: what
the converter measured for the slot in this round, if nothing failed. The two loops over
four channels are one, over `Slots`; their sleeps have no length, and a conversion is
taken to be over when its 10 ms are.

### AirLab

`mainPc`, `countPc`, `gasPc`, `sendPc` are the points where the four threads sleep.
`msg[t]` is the number of the record in the global message, 0 while it is empty (the
first frames may well be empty). A LoRaWAN send copies its data at the call
(`SendCall`) and ends in one of three outcomes the code distinguishes: 0
(`SendAcknowledged`, with the green LED blinking), `-EAGAIN` (`SendTooLong`: the stack
has sent an empty frame instead), any other error (`SendFails`, after which the
network may or may not have got the frame). `Reset` clears everything but the card,
the network and the bound counters.

## 3. What is checked

| run | bounds | shows |
|---|---|---|
| `opc` | `Samples` = 7, `Skip` = 2, `PollLimit` = 20: the source's own | type invariant; `PoweredWhenClocked`, `FramesSeparated`, `QuietWhenIdle`, `ReadsRunningUnit`, `AverageOverCounted`, `PatienceBounded`, `PowerCycleEarned`, `ConfirmedStopObeyed`; `OnlyCyclesProlong`: how many steps are left at each point, and that only a power cycle sets a session back; `ImplementsSession`; `StopEnds` and `PowerRecurrentlyCut`, the unit owing nothing |
| `opc_fair` | 4, 2, 3 | `SessionCompletes`, with a unit that some day gets ready |
| `file` | two files, four file objects, three records each | type invariant, `FilesAccountedFor`, `RecordsInOrder`, `FormatsAlone`; `ImplementsService` with its liveness |
| `ambient` | two threads, one and two samples, four measurements | type invariant, `ValuesOfThisCall`, `RecordsAdvance`, `CallsMoveOn`; `ImplementsAmbient` with its liveness |
| `gas` | two converters with two channels, two samples, a reading below the limit and one above | type invariant, `FaultsStayLocal`, `NothingLeftOver`, `TransfersBounded`, `GasReadReturns` |
| `airlab` | two gas records, one particle record, one reset | type invariant, `GasSavedBeforeSent`, `CallbackAlive`, `SendsConfigured`, `RedLedExplained`, `CounterOffOutside`, `SavesAccepted`; `DeliveriesAdvance` and `ResendsNoOlder`, what losses, resends and resets may do to the order of records; `SensingIndependent`: the gas thread reaches its bound whatever radio, network and particle counter do |
| `airlab_uplink` | the same, no reset | `Uplink`: a published record of either type, or a newer one, reaches the network |
| `opc_stop_unconfirmed`, `opc_stale_sample`, `opc_cycle_lines`, `airlab_resend`, `gas_average` | as above, `gas_average` with the source's 4 channels and 5 samples | the findings, section 5 |

Why the bounds are enough. `opc` has no bound of its own. The smaller constants
of `opc_fair` keep every branch: a sample skipped and one summed, more polls
than the limit, power cycles, give-ups; the control does not otherwise depend on the
numbers (and the safety is proved for all of them). In `FileStore` three records
allow a good one, a failed or torn one and a good one again, in both files, with
resets anywhere and a format at any boot. In `AmbientSensors` four measurements let the unit go on between any two
of call, burst, the other thread's burst and the channels; calls are not bounded, and two
samples let a call fail with a part of its sum made. In `GasSensors` two channels for
each converter give the step from channel to channel and from converter to converter, two
samples the step from one round to the next. In `AirLab` two gas records give "the old
one is on the air while the new one is saved", and the particle thread touches the others
only through the LEDs and its own message, for which one record is enough. `MaxSaves`
bounds both; a thread that has used up its records sleeps for ever. Resets are bounded by
`MaxResets`; with none in `airlab_uplink`, since a board reset for ever delivers nothing.

Deadlock is checked everywhere but in the `AirLab` runs, which switch it off:
`main` returns when there is no BME280 (main.c:367) and `send_data` when there is no
radio (main.c:221-233), after which the system really stops; so do the threads at
the bound on records.

Fairness. `WF_vars(Next)` for the counter's driver and for `GasSensors` (one thread, which
nothing starves, and transfers that end by a timeout at the latest), `WF` of each thread
of `AirLab`, `WF` of each call in progress for the card (the SD driver bounds its retries)
and for `AmbientSensors`. Strong fairness stands only for the outside world:
`SF_vars(Ready(t))`, a BME280 whose status is polled again and again is found idle some
day; and, only in the two runs that need it, `UnitFairness` (a counter polled again and
again answers some day) and `NetworkFairness` (joins, the data rate and frames tried again
and again succeed some day). `SensingIndependent` uses no fairness of `OpcSession`: a
particle session may go on for ever.

Every property has a mutant in `PROJECT.json`: a definition of the model changed as a
plausible bug would change the code, under which TLC finds the property violated. The
mutated forms stand in the modules just before the definitions they stand in for, with
a comment that starts with "Mutant"; the specifications do not use them.

## 4. What is proved

Every safety property of section 3 is a theorem, for every value of the constants that the
`ASSUME` of its module admits: any sample count up to 255, `Skip` below it and poll
limit up to 253 (so that `c`, a `uint8_t`, can pass it by two); any finite set of files
and any number of file objects; any threads on the BME280; any number of channels, samples
and 16-bit readings; any bounds on records, measurements and resets.

| module | theorem | states |
|---|---|---|
| `OpcDriverProofs` | `TypeCorrect` | `[]TypeOK` |
| | `NoUnpoweredTransfer` | `[]PoweredWhenClocked` |
| | `TransfersFramed` | `[]FramesSeparated` |
| | `IdleQuiet` | `[]QuietWhenIdle` |
| | `HistogramOfRunningUnit` | `[]ReadsRunningUnit` |
| | `AverageDivisor` | `[]AverageOverCounted` |
| | `PollsBounded` | `[]PatienceBounded` |
| | `CyclesEarned` | `PowerCycleEarned` |
| | `StopsObeyed` | `[]ConfirmedStopObeyed` |
| | `SessionsBounded` | `OnlyCyclesProlong` |
| | `Refinement` | `ImplementsSession` |
| `FileStoreProofs` | `FSTypeCorrect` | `[]FSTypeOK` |
| | `NoFileLost` | `[]FilesAccountedFor` |
| | `PoolNeverEmpty` | `[]PoolSuffices` |
| | `RecordsOrdered` | `[]RecordsInOrder` |
| | `FormattedAlone` | `FormatsAlone` |
| | `FileRefinement` | the safety half of `ImplementsService` |
| `AmbientSensorsProofs` | `AmbientTypeCorrect` | `[]AmbientTypeOK` |
| | `ReadsFresh` | `ValuesOfThisCall` |
| | `ReadsAdvance` | `RecordsAdvance` |
| | `CallsBounded` | `CallsMoveOn` |
| | `AmbientRefinement` | the safety half of `ImplementsAmbient` |
| `GasSensorsProofs` | `GasTypeCorrect` | `[]GasTypeOK` |
| | `FaultsLocal` | `[]FaultsStayLocal` |
| | `ResultsWritten` | `[]NothingLeftOver` |
| | `TransfersCounted` | `TransfersBounded` |
| `AirLabProofs` | `LabTypeCorrect` | `[]TypeOK` |
| | `GasSaved` | `[]GasSavedBeforeSent` |
| | `CallbackSafe` | `[]CallbackAlive` |
| | `SendsSafe` | `[]SendsConfigured` |
| | `RedLedSafe` | `[]RedLedExplained` |
| | `CounterOff` | `[]CounterOffOutside` |
| | `SavesSafe` | `[]SavesAccepted` |
| | `NetworkAdvances` | `DeliveriesAdvance` |
| | `ResendsNewer` | `ResendsNoOlder` |

Each module has one inductive invariant, preserved with one proof step per action; where a
later property needs more, a second one stands on it (`WrittenInv`, `AdvanceInv`, `RefusedInv`).

*`IInv` of `OpcDriver`.* None of the properties is inductive alone. `ReadsRunningUnit`, for
one, needs to know how a confirmed start came about: `RunningInv` follows the READY byte
from the wire (`rx`) to `r1` and to the unit that is armed by it, and from there to the ACK
that can only mean a running fan. `ConfirmedStopObeyed` is the same argument for the shutdown
option, in the conjuncts of `RunningInv` that follow `opc_stop`. `AverageOverCounted` needs `SumInv`, the sum as a function
of the sample index. `PatienceBounded` and `PowerCycleEarned` need `PollInv`, which ties the
counter to the failed polls: equal, or one more after a power cycle, as `c` is incremented
once between the reset and the next poll (opc.c:176-178). `PowerInv` gives the relay as a
function of the control point, and `ControlInv` the points each function can be at, as
`opc_send_command` is shared.

*`FSInv` of `FileStore`.* `FilesAccountedFor` is inductive with the types: an open adds one
call to the set of those with a bound handle, a close removes one, and the cardinality
follows. `PoolSuffices`, which is proved and not in the run, follows from it: a thread that
is about to open holds no file object, so that fewer are in use than there are threads.
`RecordsInOrder` needs `OrderOf`: all records in a file are at most the last one measured,
and below it while its save is in progress. In the model the order holds without
the condition on `overlapped`; the property carries it because the model is not to be
believed beyond it. `FormatsAlone` needs `BootInv`, that nobody saves before the boot is over,
and the count of file objects.

*`AInv` of `AmbientSensors`.* `BusInv`: one burst at a time, and never one older than the
driver's sample, which therefore does not go back. `FreshOf(t)`: a thread that has fetched
finds a sample not older than its call, whoever fetched it, and has only such samples in
its sum; those of its last record are not newer than the call. `ReadsFresh`, `ReadsAdvance` and
`AmbientRefinement`, as the runs of their properties, rest on `SumAtEntry`: they hold for this
compilation, not for every one that C allows.

*`GInv` of `GasSensors`.* `SlotInv` follows a slot through its three transfers: a level that
is still known after the configuration is in the conversion register, after the pointer
write the pointer stands there, and after the read it is in the result until the slot comes
round again. Types need `LoopInv` and the arithmetic of a torn word. `WrittenInv` is what
`NothingLeftOver` needs: the entries before the current slot in the first round, and all of
them in later ones, hold words that a `Store` of this call has clamped.

*`LInv` of `AirLab`.* `ThreadInv` ties `saving` to the control points (so `SavesAccepted`),
`SessionInv` the relay to `countPc`, `RadioInv` the radio to `sendPc`. `GasSavedBeforeSent`
rests on `RecordInv`: what is published, on the air or delivered has been measured, and in
the gas thread its save has returned. `AdvanceInv` keeps the last delivery no newer than a
message that is not empty and a frame that is not; it survives a reset, after which the
messages are empty until a record newer than all before it is published. `RefusedInv`
keeps the refused record no newer than `gas_msg`.

*Steps left.* `StepsLeft` of `OpcDriver`, `TransfersLeft` of `GasSensors` and `StepsLeft(t)` of
`AmbientSensors` say how many steps remain at each point. That each step lowers them (a poll of the status
register leaves `StepsLeft(t)` as it is) is an action property, proved from the inductive
invariants, and puts a number to what TLC checks as "returns some day" (`StopEnds`, `GasReadReturns`, `ImplementsAmbient`): with the
constants of the source, an `opc_stop` takes at most 179 steps and a `gas_sensors_read` 121.
What is left to liveness is that the thread is scheduled, that the status register of the
BME280 is found idle some day, and that the counter gets ready for `opc_start`, whose power
cycle is the one step that sets the measure back.

Only model-checked: all liveness (fairness and ENABLED are outside the prover), which is
`StopEnds`, `PowerRecurrentlyCut`, `SessionCompletes`, `GasReadReturns`, `SensingIndependent`,
`Uplink` and the liveness halves of `ImplementsService` and `ImplementsAmbient`.
`OpcSession` promises no liveness, so that `Refinement` is all of `ImplementsSession`.

## 5. Where the code differs from its own comments

- `airlab_resend`. main.c:289-292 says of `-EAGAIN` "since we are just sending the same
  data here, we'll just continue". The next gas frame is another 24 s and one particle
  frame away and takes whatever `gas_msg` holds then. The run shows a refused
  record followed by a frame with the next one: the refused one is never sent.
- `opc_stop_unconfirmed`. "Iterate until 243 (ready)" (opc.c:202) heads a loop that is
  also left after 22 failed polls (opc.c:225-228); the relay is then cut while the unit's
  fan may run. The comment was copied from `opc_start`, where it is true.
- `opc_stale_sample`. `vals` is read only when the unit has answered 243 (opc.c:310), but
  converted and summed in any case (opc.c:330-413): a sample that was missed puts
  uninitialised or old bytes into the average.
- `opc_cycle_lines`. When `opc_start` cuts the relay it also clears pins 4, 7 and 5 of gpiob
  and leaves out pin 6, the "MISO (input line)" (opc.c:172): the lines of SPI. The overlay has
  these on gpioa. Slave select stays high while the unit has no power. `opc_stop` does the
  same, but `opc_release`, which follows it, sets gpioa as well.
- `gas_average`. The line that added up the readings is a comment
  (gas_sensors.c:86); what is left overwrites the entry with each sample and then divides the
  last one by their number (gas_sensors.c:90, 136). Five readings of 2500 become 500. The
  fault is independent of failing transfers, which this run excludes.

## 6. Not modelled

- `time_system.c`, `opc_read_information_string`, `get_sht3xd_device`: no caller in the program.
- `lsdir`, `dl_callback` and the data-rate callback: they only log.
- `gas_sensors_init`, and the binding of devices in `opc_init` and `main`: the device tree
  always provides them.
- The conversion of the 62 histogram bytes, floating-point rounding, text formatting, stack
  sizes, the length of sleeps.
- What an over-range or negative gas reading should give: the code makes it 0 and nothing in
  the repository says otherwise.
- The insides of Zephyr, FatFs and the LoRaWAN stack, which are not in the repository.
- The generated files in `build-nucleo_wl55jc`: system-call stubs, device-tree macros and
  driver tables. They are most of the repository's C lines and hold no logic of the program
  (`CONFIG_USERSPACE` is off, so that each stub is a plain call). What they fix, the
  bus and pin assignments, the priorities, the number of file objects, went into the
  modules as constants and external facts. The program itself is the 1400 lines of
  `src/src/*.c`.

## 7. Plan

Done: `OpcSession`, `OpcDriver`; `FileService`, `FileStore`; `AmbientService`,
`AmbientSensors`; `GasSensors`; `AirLab`; a proof module for each of the five detailed
modules.

Left:

1. `AirLab` over `AmbientService`, if `main.c` comes to use the ambient values for more than the
   text of a record.
2. FatFs entered by two threads: with `FF_FS_REENTRANT` or a lock around `save_data` the
   condition on `overlapped` can go.

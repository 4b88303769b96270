# Verification of the DDA-VEM firmware

TLA+ models, TLC configurations and TLAPS proofs for the firmware of the DDA
coil launcher (`src/Application`), a bare-metal STM32G0B1 program with one
foreground loop, preempted by interrupt handlers, that drives four DRV8874
H-bridges, records a launch and talks to a host over USB CDC; for the Python
library on the host (`src/Host`); and for the firmware of the evaluation board
(`src/EvalBoard`).

Six subsystems are modelled and checked: the
power stage and its fault interlock; the launch acquisition; the path of a
request, an answer and a data frame between the host and the services; a session
of the host library; the record of a launch from the interrupts that produce it to
the host that decodes it; and the evaluation board. Every safety property of these
runs is also proved, for every value of the constants.

## 1. The system

`BoardApplication::process` (App/BoardApplication.cpp:204) is the main loop. One
pass is

    processSafety -> USBcontroller::process -> LaunchManager::process
      -> (system reset) -> RequestManager::process
      -> USBcontroller::processLaunchDataTransfer

It never blocks except in `HAL_Delay` inside a wake or a PMODE change. Everything
else runs in interrupts: EXTI (nFAULT lines, power alert, sensors), the timers of
a launch, I2C/DMA completions, ADC DMA, USB callbacks. All the difficulty of this
code is there: what an interrupt may do between two statements of the pass, what a
flag or a mask still means when the foreground acts on it, and how an operation
that spans many passes ends when several events want to end it.

| component | state | operations | talks to | hard behaviour | what makes it correct |
|---|---|---|---|---|---|
| Safety inputs (`InterruptEvents.cpp`, `stm32g0xx_it.c`) | pins, EXTI pending bits, event flag | EXTI callbacks | latches faults in the two components below | an edge between any two statements; critical sections delay it | a low line that concerns a driving bridge still has its edge |
| `SafetyManager` | fault mask and epoch, safe-state request, release timing, alert cycle, report | latch, process, report, clear | called by ISRs and by the pass | mask and event read at two moments; clear in three steps | reports and clears are about the current faults |
| `CoilController` | wake qualification, shutdown requests, thresholds | coil commands, fault isolation, hardware clear | `Drv8874`, `SafetyManager`, GPIO interrupts | check-then-act under interrupts; partial failures | no drive under a fault, every faulted bridge is put to sleep |
| `Drv8874` | cached state, nSLEEP, VREF, device latch, shared PMODE | setState, setThreshold, setPmode | pins and the threshold DAC | cached state against real outputs | a driving bridge has its reference |
| `BoardApplication` | none of its own | processSafety, enterSafeState, process | all | order of the pass | the stage implements the interlock |
| `LaunchManager` | run active, timeout, sample buffers | startRun, finishRun, process, timer ISR, requests | power monitor, ADC, USB, router | six events may end one run | one verdict per run, with its own cause; data still while sent |
| `Ina226` + `I2cDevice` | transaction state, owner, cancel, failure | start (ISR), process, take, abort | I2C and DMA interrupts | abort racing completion, failure racing the next start | every tick is accounted for |
| `AdcSampler` | DMA owner, event, segments | startDma, stop, result | ADC DMA interrupts | stop may fail and keep the DMA | no write into published data |
| `RequestManager` | slots, insert index, count, gates | queue (also from an ISR), dispatch, reclaim, discard | every service | the slot of a request becomes the slot of its answer | no leak, no double answer, answers arrive |
| `USBcontroller` + `UsbTransport` | transmit state machine, receive ring, transfer progress | process, send, start/cancel transfer | router, launch data, CDC driver | borrowed buffer, stale completions, timeouts, reset | frames in order, verdict before data, transfers end |
| Sensors, velocity capture | debounce history, capture events | edge ISR, begin/end capture | router, launch data | 32-bit time differences, edges from before the run | the edges of a record are those of its run |
| Launch data format (`LaunchData.cpp`) | none | serialize by offset, decode, sample order | USB transfer, host | words and arrays cut by frames | what is decoded is what was recorded |
| Host clients (`src/Host`) | pending request, state of the launch, reassembly | calls of the program, receiver thread | the board | two threads, time-outs, Ctrl+C, stale answers and frames | results belong to their launch, every call returns |
| Evaluation board firmware | capture ring, transmit flag, pending command | capture ISR, USB ISR, process | its own host | ring at its limit, completion racing the main loop | a frame is one new crossing, the ring drains |
| Status LEDs, user input, DAC driver | none that anything depends on | GPIO and SPI writes | | none | not modelled |
| HAL, CMSIS, USB middleware, CubeMX code | | | | third-party or generated | environment only |

## 2. Modules

The power stage:

| module | code | correspondence |
|---|---|---|
| `SafetyLines` | EXTI callbacks, `InterruptGuard` | `low` pins, `edges` EXTI pending bits, `safetyEvent`, `pc` the next foreground statement; `Masked` are the critical sections |
| `SafetyManager` | Service/Safety/SafetyManager.cpp | one action per statement group of `process()` between which an interrupt matters |
| `Drv8874` | Drivers/Drv8874.cpp | `state` cached, `nSleep`, `applied` VREF, `deviceLatch`, `pmode` |
| `CoilController` | Service/Power/CoilController.cpp | the two ISRs, the shutdown pass, the hardware clear, every command |
| `BoardSafety` | App/BoardApplication.cpp | composition: one pass, the environment, the interrupts |
| `Interlock` | the promise | bridges driving, faults latched; `BoardSafety!Abstract` is the refinement mapping |

The launch:

| module | code | correspondence |
|---|---|---|
| `PowerMonitor` | Drivers/Ina226.cpp, I2c/I2cDevice.cpp | `i2cState`, `owner`, `ina`, `cancel`, `failure` are the members; `bus` is the HAL transfer |
| `LaunchRun` | Service/Launch/LaunchManager.cpp, Analog/AdcSampler.cpp | `pc` is the pass and, inside `finishRun`, its statements; the four interrupts come between any two |

The host link:

| module | code | correspondence |
|---|---|---|
| `RequestRouter` | Service/RequestManager/RequestManager.cpp | `queue` is one record [slots, next, count], so that a handler that queues while it is dispatched composes two operators |
| `UsbLink` | UsbTransport.cpp, UsbProtocol.cpp, USBcontroller.cpp | callbacks as actions, `process()` as its three steps, the transfer state machine |
| `HostLink` | the pass from the safety report to the last frame | composition; `answers` and `frames` count what the host has received. `Admitted` is the filter of `queueHostRequest`, and the launch manager answers each command of `Commands` (`ServeStart`, `ServeStop`, `ServeDebug`, `ServeOther`) |

A session of the host library:

| module | code | correspondence |
|---|---|---|
| `BoardService` | LaunchManager, RequestManager, USBcontroller | the board cut at the wire: one launch at a time, answers and notifications in slots, data after the verdict. It abstracts `LaunchRun`, `RequestRouter` and `UsbLink`, without a formal refinement |
| `HostClient` | src/Host/Technician/src/dda_host/competition.py (src/Host/Competition/src/dda_host/_client.py is identical) | `pc` is the step of the program's thread inside the call `call`, `rxPc` that of the receiver; one step per piece of code under `_state_lock`, or per assignment the receiver makes without it |

The record of a launch:

| module | code | correspondence |
|---|---|---|
| `SensorCapture` | SensorController.cpp, SensorEdgeDebounce.h, Sensor.h | debounce and event lists; `genuine` and `kept` say, in unwrapped time, what they should hold |
| `AdcSegments` | AdcSampler.cpp, CurrentSampleOrder.h | the DMA segments, the transferred count and the channel order; conversions are external |
| `LaunchWire` | LaunchData.cpp, `_decode_launch_data` | pure operators and recursive functions: the loops over the sensors, the calls of `SegmentWriter::append`, a segment by offset, and the host's decoder |
| `LaunchRecord` | startRun, finishRun, queueNextLaunchFrame, final frame on the host | composition of the three |

`EvalBoard` models EvalBoard/Firmware/Core/Src/eval_board.c with CDC_Transmit_FS:
the statements of `EvalBoard_Process` between which an interrupt matters, and one
action per callback. The two interrupts have the same priority (main.c:24,
usbd_conf.c:116) and so never preempt each other.

`MCBoardSafety` and `MCHostLink` hold the instances of two specifications; the
others need none.

The proofs (section 4):

| module | extends | theorems about |
|---|---|---|
| `BoardSafetyProofs` | `BoardSafety` | types of the power stage, drive, captured edges, shutdown requests |
| `InterlockProofs` | `BoardSafetyProofs` | reports, clears, PMODE, the refinement of `Interlock`, the current references |
| `LaunchRunProofs` | `LaunchRun` | the launch |
| `HostLinkProofs` | `HostLink` | requests, answers and frames |
| `HostClientProofs` | `HostClient` | the host session |
| `EvalBoardProofs` | `EvalBoard` | the evaluation board |
| `LaunchWireProofs` | `LaunchRecord` | the wire stream of a record, its segments and its decoding |
| `LaunchRecordProofs` | `LaunchWireProofs` | what of a launch reaches the host |

The invariants by which the proofs go beyond the checked ones are stated at the end of
the module they are about, under "Strengthenings", or at the top of the section of the
proof that uses them.

## 3. What the runs check

Passing runs. The state counts are those of TLC on the bounds of the cfg.

| run | question | bounds | states |
|---|---|---|---|
| `bridge_commands` | no drive under a fault, edges captured, faulted bridges scheduled, reports current, clears justified, the stage refines `Interlock` | 2 bridges, 2 falling edges, currents {0,1}, all single-bridge commands and DriveAll | 623 thousand |
| `stage_commands` | a driving bridge has its reference, a sleeping one loses it, PMODE changes only asleep | as above, commands addressing the whole stage, thresholds, PMODE | 2.9 million |
| `stage_recovers` | under fairness: safe state reached, bridge isolated, isolated alert resolved | 1 bridge, validation 2, window 3 | 177 thousand |
| `launch_runs` | data frozen while sent, one verdict per run, ticks accounted, verdict caused by its own run, runs end | 2 runs, 2 ticks, all six faults | 229 thousand |
| `host_traffic` | no leaked slot, buffer borrowed once, at most one answer, frames in order, verdict before data | 2 slots, 2 requests of 8 kinds, ring of 1, 2 data frames, all link faults, 1 report | 1.4 million |
| `answers_arrive` | under fairness on a healthy link: queued requests are answered, transfers end | 2 slots, 2 requests, 1 data frame | 86 thousand |
| `client_session` | under fairness: chunks and results of one launch only, verdicts taken for their launch, an active launch is explained, every call returns | 2 launches, calls Start, Stop, Abort and Wait, 2 data frames, 2 packets in the pipe, lost verdicts, ADC failure, link loss, a launch of an earlier session | 451 thousand |
| `launch_record` | the edges and samples the host decodes are those of the run | 2 runs of 2 scans (1 at half rate) of 2 channels in segments of 2, timer period 4, debounce 2, frames of 7 bytes, rate changes, ADC errors, lists of 2 edges | 1.4 million |
| `eval_board` | under fairness: frames are new crossings, at most two stale ones after START, the ring drains | ring of 3, 6 edges, commands, unplugging | 338 thousand |

`waitForSensor` is the call that may wait for ever (it has no time-out by default):
`CallsReturn` excludes it once the launch is aborted under it by Ctrl+C or a failed
request, when no verdict will wake it.

Runs that find a disagreement between a comment or document and the code:

| run | claim | what the code does |
|---|---|---|
| `single_alert_twice` | SafetyConfig.h:25, a *second* alert becomes a latched fault | one alert whose interrupt falls between the read of the event and of the mask is counted twice, and stays latched for good |
| `abort_race` | I2cDevice.h:124, busy means HAL work is active | a read that completes inside `requestAbort` leaves the device `Reading` with nothing behind it; no later run starts |
| `close_skips_sleep` | competition.py:2118, closing the port makes the firmware enter its safe reset path | a launch that ends just after its response leaves `_launch_active` set; `close()` sends an abort that is rejected, skips the sleep command and closes the port, which the firmware does not notice (usbd_cdc_if.c:218): a bridge driven in debug mode keeps driving |

More disagreements were met and have no run of their own:

* CoilController.h:197: a hardware clear succeeds only "with no newer or pending safety
  edge". An edge on a line already latched moves neither mask nor epoch
  (SafetyManager.cpp:126), and the clear completes past it.
* Ina226.h:181: a failed read latches a failure for the foreground. The next timer
  interrupt starts another read and clears it (Ina226.cpp:154) before it is taken.
* request-timing.md:30: host coil and sensor commands outside a launch are rejected. The
  gate is evaluated when the request is queued (RequestManager.cpp:52), not when it is
  served, which may be after the launch.
* RequestManager.h:145: `hasCapacity()` means `queueRequest()` can accept. A sensor edge
  takes the last slot in between; the packet is already off the ring and lost.
* LaunchManager.h:58: `abortForSafety` neither publishes data nor notifies the host.
  LaunchManager.cpp:329 does both.

Behaviour of the host library that no document excludes, met in `client_session`: run
identifiers restart at 0 in every session, so that a launch left by an earlier session
is told apart by its identifier only if it differs (`EarlierRun` is chosen different);
late answers are matched by service and command only; a verdict of a run whose ADC did
not stop announces data that never comes, and stopLaunch waits for its time-out; after a
verdict that found no slot the client refuses every new launch until stopLaunch or
abortLaunch ends, and the board rejects both. In the record: an edge between
`beginLaunchCapture` and the read of `launchStart` (LaunchManager.cpp:103) has a stamp
before it, which the host's unsigned difference shows as one a timer period late; and
the decoder labels a record with the client's current sampling frequency
(competition.py:2041), which setSamplingFrequency may change, with the board's consent,
after the run and before its last frame.

### Why the bounds are enough

* Two bridges are one that faults and one that does not; a power alert concerns
  both. Bridges are interchangeable (`Permutations(Drivers)`; no property names
  one), and the loops over them are taken in any order, which covers the fixed one.
* Two falling edges make a latched line fall again, or two lines fall; a power
  alert low at boot counts as the first.
* Validation 1 (2 in the liveness run) and window 2 (3) put every comparison of
  `updatePowerAlertCycle` and `updateFaultReleaseValidation` on both sides; ages
  saturate above both.
* Two runs are what it takes to leave something behind for the next; two ticks make
  one read overlap a later tick.
* Two slots: one for a request and one for what competes with it (firmware: five).
  Full, empty, wrapped and fragmented tables all occur. The same properties hold
  with three requests and one data frame (10.3 million states).
* A ring of one request overflows on the second; two data frames are a first and a
  next one before the final.

* `client_session`: two launches are what it takes to confuse one with the next; the launch
  of an earlier session is a third. Two data frames let a chunk be first, next or final.
  The pipe holds two packets, so that the receiver lags behind the board and sees a
  verdict and a frame of different launches. One request fails by itself per session
  (`late`), more only where nothing will come. Drive requests are left to
  `close_skips_sleep`: they leave no mark in what a launch reports and double the states;
  waitForSensor is called only with a launch begun.
* `launch_record`: a timer period of four ticks with a debounce of two makes the timer wrap
  within and between runs (in the firmware 2^32 ticks, 67 s, against a run of 5 s); two
  segments make a segment end inside a run; frames of seven bytes end inside time stamps
  and between the channels of a scan; a second run at half the rate leaves values of the
  first in the buffer. A list of two edges shows an order, a chatter and a gap, and is
  full at the third. No edge and no rate follows the last record.
* `eval_board`: a ring of three holds two events and so is empty, full and wrapped; the size
  is a power of two in the code because a mask computes the remainder `Following` states.
  Six edges are three crossings, one more than the ring holds.

### Fairness and why the code justifies it

* `BoardSafety!FairSpec`: interrupts are served (NVIC); a pass runs on (the loop does
  not block and dispatches at most five requests); `EndPass` and `Tick` strongly,
  because commands from the host, which disable them for a while, are finite per
  pass, and SysTick runs in every blocking delay.
* `LaunchRun!FairSpec`: the foreground as a whole, and the attempt timer, a hardware
  counter started with the run. Nothing is assumed of the host, the ADC or the bus.
* `HostLink!FairSpec`: the foreground, an attached host that reads what it is sent,
  and its enumeration. No host is assumed to send anything, and the faults of the
  link, under which answers are lost by design, are absent from this run.
* `HostClient!FairSpec`: the board's main loop with its attempt timer, the program's thread
  where it does not wait, and the receiver thread. No time-out is assumed to strike, so
  that a call that returns is woken by what it waits for.
* `EvalBoard!FairSpec`: the main loop, which never blocks, and the host script, which reads
  the port in a loop. Nothing is assumed of sensors, commands or the cable.

## 4. What is proved

For every value of the constants: any number of bridges, edges, runs, ticks, slots,
requests, chunks, packets, sensors, channels and samples, any intervals, periods and
capacities, any set of commands and faults.

| theorem | module | states |
|---|---|---|
| `TypeCorrect` | `BoardSafetyProofs` | the types of the power stage |
| `NoDriveTheorem` | `BoardSafetyProofs` | no bridge drives under a fault that concerns it |
| `CapturedTheorem` | `BoardSafetyProofs` | while it drives, a low line still has its captured edge |
| `ScheduledTheorem` | `BoardSafetyProofs` | a latched bridge that is awake has a shutdown request |
| `ReportTheorem` | `InterlockProofs` | without a pending report the last one named the whole mask |
| `ClearTheorem` | `InterlockProofs` | the only memory lost is an isolated alert on a stage that is powered down |
| `PmodeTheorem` | `InterlockProofs` | PMODE changes with every bridge asleep |
| `InterlockTheorem` | `InterlockProofs` | the power stage implements `Interlock` |
| `DriveReferenceTheorem` | `InterlockProofs` | a driving bridge is regulated at its threshold |
| `SleepingReferenceTheorem` | `InterlockProofs` | a reference left on a sleeping bridge is going to be zeroed |
| `LaunchTypeCorrect` | `LaunchRunProofs` | the types of a launch |
| `FrozenTheorem` | `LaunchRunProofs` | nothing writes the data while it is sent |
| `OneVerdictTheorem` | `LaunchRunProofs` | one verdict per run |
| `RunsSampleTheorem` | `LaunchRunProofs` | the timers run inside a run only |
| `VerdictTheorem` | `LaunchRunProofs` | a verdict is caused by its own run |
| `TicksTheorem` | `LaunchRunProofs` | every tick of the power timer is accounted for |
| `HostLinkTypeCorrect` | `HostLinkProofs` | the types of the host link |
| `SlotsTheorem` | `HostLinkProofs` | the slot counter is the number of slots in use |
| `BufferTheorem` | `HostLinkProofs` | the transmit buffer is borrowed once |
| `FramesInOrderTheorem` | `HostLinkProofs` | the host receives the chunks in order, then the final frame |
| `AnswersTheorem` | `HostLinkProofs` | at most one answer per request |
| `VerdictTheorem` | `HostLinkProofs` | no data before the verdict of its run |
| `HostClientTypeCorrect` | `HostClientProofs` | the types of a host session |
| `PayloadTheorem` | `HostClientProofs` | the receiver never joins chunks of two launches |
| `ResultTheorem` | `HostClientProofs` | what stopLaunch returns is of the launch started last |
| `VerdictOfRunTheorem` | `HostClientProofs` | while no request failed, a verdict is taken for its launch |
| `ActiveTheorem` | `HostClientProofs` | while no request failed, an active launch is explained |
| `EvalTypeCorrect` | `EvalBoardProofs` | the types of the evaluation board |
| `FramesTheorem` | `EvalBoardProofs` | every frame is a new crossing of this acquisition |
| `StaleTheorem` | `EvalBoardProofs` | at most two stale frames after START |
| `RecordTypeTheorem` | `LaunchRecordProofs` | lists, segments, buffer and scans of a run keep to their bounds |
| `EdgesTheorem` | `LaunchRecordProofs` | the edges the host decodes are those of the run |
| `SamplesTheorem` | `LaunchRecordProofs` | the samples the host decodes are the first scans of the run, whole and complete |
| `RoundTrip` | `LaunchWireProofs` | the host decodes the stream of a record to the record |
| `SegmentsTheorem` | `LaunchWireProofs` | the segments of a transfer join to its stream, and none is empty before its end |

The assumptions are those on the constants (`LinesAssumption`, `IntervalAssumption`,
`CurrentsAssumption`, `CommandsAssumption`, `RunAssumption`, `FaultsAssumption`,
`RouterAssumption`, `LinkAssumption`, `HostAssumption`, `ServiceAssumption`,
`ClientAssumption`, `EvalAssumption`, `CaptureAssumption`, `SegmentsAssumption`,
`RecordAssumption`); TLC evaluates them in the runs. Those of the record say what the
firmware's constants satisfy: a scan has at least two channels (four bridges), the longest
DMA segment is a number of whole scans (65532, AdcSampler.cpp:8, is a multiple of four),
a run is shorter than the period of TIM2, which the debounce interval is too, and the
buffer holds a run at the highest rate. One theorem has a
hypothesis of its own: `ResultTheorem` supposes that a launch an earlier session left
running has an identifier this session does not use, because identifiers start again
at 0 with every session (competition.py:1097) and without it the property is false.

**The power stage.** `NoDriveUnderFault` is inductive by itself, given the types: every
step that latches a fault removes the drive it forbids in the same step, and only
`Energize`, in a critical section that checks the mask, starts one.
`AssertedLineIsCaptured` is not: the handler drops the edge of a bridge that is
waking, so the proof needs that a waking bridge does not drive
(`WakingNeverDrives`), which needs that only the wake command in progress leaves a
bridge unqualified (`WakingIsActive`). `FaultedBridgeIsScheduled` needs three facts
about the middle of operations: the requests being withdrawn are of bridges that
sleep (`ServicedIsAsleep`), `CoilOff`, which runs outside a critical section, never
raises a bridge that fell asleep (`CoastingIsAwake`), and the hardware clear drops
requests only on a stage that sleeps (`ClearedIsAsleep`).

**The interlock.** A clear spans several passes. What its validation found still holds
when it completes unless a fault was latched meanwhile, which advances the epoch
(`Granted`, `ClearIsGranted`), and interrupts wake nothing on a stage that was found
powered down (`CheckedIsPoweredDown`, for which `SleepIsLow` ties nSLEEP to the cached
state); the same invariants settle PMODE. `ReportIsOfItsEpoch` does for the report what
`ClearIsGranted` does for the clear. For `Interlock` every action is shown to be a step of
the abstract specification or to stutter under `driving` and `latched`: the handlers latch
and remove the drive (`Latch`), `Energize` and the steps that stop bridges map to their
namesakes, and `completeFaultClear` is `ClearAlert` by `ClearTheorem`.

**The references.** A driving bridge has its threshold because VREF is set before it is
energized, one bridge at a time (`CommandedReference`, `OneIsActive`). A command that fails
half-way may leave VREF on a bridge it put to sleep. The proof follows everything from which
that can come, an output forced low, an asserted line, a device latch, to a shutdown
request or a pending safe state (`HalfIsolatedIsScheduled`); the case that makes it
delicate is a policy of driver faults that revokes the safe state an alert has
requested (`AlertIsHandled`: it sees the alert only together with its event).

**The launch.** The inductive invariant `Inv` of `LaunchRunProofs` adds to the
properties where control is (`Control`: `finishRun` is entered with a run active and
returns to the pass or the reset) and what has been stopped by then (`Acquisition`:
after `StopAcquisition` no timer runs, and a run whose data will be sent has given
up its DMA). It mentions no variable of the power monitor, so interrupts keep it at
once. `VerdictInv` adds `PowerInv` (a bus transfer belongs to a transaction, a
transaction to a read, an abort to a cancellation), `CauseInv` (whatever may end the
run was left by an interrupt of this run, because `startRun` clears the rest and
requires an idle monitor) and `Justified` (inside `finishRun` there is a cause). For the
ticks, `CancelInv` says whose read a cancellation is: that of a run that is ending, or
that was refused and counted nothing.

**The host link.** `LinkInv` relates the driver, the transmitter and the transfer:
a busy driver owns the frame in flight (`DriverOwnsTheFrame`), a result is handed on before
the buffer is used again and a failure leads to the reset (`ResultIsHandled`), a transfer
excludes a run (`TransferExcludesRun`), and the frame in the buffer is the one the
progress of the transfer says, read by the host or not (`FrameIsOnItsWay`). Frames are in
order because of the last, except on the way to a reset, where nothing is sent any more.
`AtMostOneAnswer` needs that a request is in one place only, the ring, a slot, the
buffer or answered (`RequestIsInOnePlace`), which needs that a response asks for no
response (`AnswersAreAsked`). `VerdictBeforeData` is the argument behind
`_deferLaunchFrame`: the deferred first frame gives the verdict one whole dispatch with
the buffer free (`VerdictIsDispatched`).

**The host session.** Nothing in a frame but its identifier says which launch it is of, and
the receiver joins chunks without the lock. `PayloadIsOfOneRun` rests on the order of the
pipe alone: what follows a frame, in the pipe or still to come from the board, continues
it or starts over (`FramesAreInOrder`), and what the receiver has in hand is the front of
that. For `ResultIsOfItsRun` an identifier in the pipe, the receiver or the record belongs to
this session's starts, and the last one to the last launch, once its request is served
(`RunsAreTheirs`; `StartsAreOrdered` for requests that wait while earlier ones failed).
The other two hold only while no request failed (`~late`), by `Punctual`: one request
or its answer is under way at most (`RequestIsSingle`), and so is one verdict, of the
last launch, which the client then knows of or is about to (`VerdictIsExpected`); an
accepted start is one that runs or has been reported (`AcceptanceIsExplained`). A session
that finds a launch of an earlier one running counts as late from the beginning.

**The evaluation board.** `FrameInv` orders captures, ring and history by the edges they
are of; the ring is handled through the rank of a place from its tail. The interrupt
drops a pair rather than overwrite the one being sent (`FrameIsOldest`). `StaleIsBounded`
counts the frame in the endpoint and the one the loop is about to send.

**The record.** The two properties span everything between an interrupt and the host, and
the inductive invariant `IInv` of `LaunchRecordProofs` follows the data:

* `TimeInv` bounds the ticks of a run, and with them the scans: `ScanInv` says that the
  scans begun take no more periods than have passed.
* `AdcInv` ties the place where the DMA writes next to the number of conversions
  (`SegmentInv`). It survives the end of a segment because segments are whole scans
  (`WholeSegments`) and because the interrupt of an ended segment is served before the
  next scan begins.
* `BufferInv` says that what lies before that place are the conversions of this run, in
  their order (`Holding`), whatever earlier runs have left behind it; `CountInv` that the
  count finishRun takes lies between the scans that were complete when the timers
  stopped and what has been written. `normalizeBridgeCurrentSamples` exchanges the last
  two channels of a scan, which undoes `ScanOrder` (`NormalizedIs`).
* `CaptureInv` says that while a capture is on, the debounce knows exactly the genuine
  edges of this run and that the last one is less than a timer period old, so that the
  difference modulo the period is the true one (`ElapsedIs`, `AcceptIsGenuine`);
  it is here that the reset of the history at the start of a capture is needed. `ListsInv`
  follows: the lists of the code hold the stamps of the lists of the history.
* `RecordInv` follows the record: published, it holds what the buffer and the lists held;
  while it is sent, the host has the beginning of its stream; decoded, it is the record.

The last part rests on `LaunchWireProofs`. There the recursive functions of `LaunchWire`
(the sizes, the writers and the readers, one step per sensor) are related by induction
over the sensors to one stream, `Stream(record)`, that neither program builds. The library's
induction theorems take an operator and cannot be used; `Induction` states the principle for
a set instead and is proved from the well-foundedness of the naturals, and
`BoundedInduction` and `Recursion` follow from it. `AppendStep` shows that one call of
`SegmentWriter::append` adds to the output what the frame takes of its piece of the stream,
so that `serialize` is the segment of the stream at the offset (`SerializeIs`), and
`SegmentsJoin` that successive segments make up the stream. `ReadersAre` and `ScansAreRead`
take the stream apart again on the host.

**Only model-checked.** The liveness properties (`AlertReachesSafeState`,
`FaultedBridgeIsIsolated`, `IsolatedAlertIsResolved`, `RunEnds`, `AnswerArrives`,
`TransferEnds`, `CallsReturn`, `RingDrains`): fairness and ENABLED are beyond the prover.
The claims of the runs that find a disagreement are false.

## 5. Abstractions

Power stage: GPIO and DAC writes succeed, so the `SafeStateFailure` bit and its
branches are absent; `faultEpoch` is unbounded; a millisecond tick falls between passes
and in the blocking delays; an age stops growing at the bound it is compared with, while
the code compares `now - since`; `Energize` is one step, and a pin that falls between
the two reads of `applyState`, which then makes the bridge sleep so that the handler
ignores the edge (CoilController.cpp:643), is a fall before the first; a rejected command that changes nothing is not a step;
`enterSafeState` calls `disableAll` through `abortForSafety` and again itself, merged
into one; boot and the reset are the initial states, not actions; SlowDecay, which no
request reaches, and the manual `clearFault`, which nothing calls, are absent.

Launch: only the power register is requested; interrupts of equal priority do not
preempt each other; `Ina226::process`, `takeRawMeasurements` and `takeAsyncFailure`
are atomic, because the interrupts that share their state are excluded at the
points where they write (a completed or failed transaction has no transfer left, and
the timer starts nothing unless the monitor is ready); the ADC's segments are one
sequence; coils, sensors and the bytes of the data are elsewhere. What may fail when a run
starts or ends is in the set `Faults`: the bus, the start of the ADC and of its DMA, the
configuration or the start of the timers, the stop of the ADC, and the outputs of bridges
and sensors (whose status can only come from a GPIO or DAC write), which turn a verdict
into `SafetyFault` (LaunchManager.cpp:194). Those statuses are weighed in `StopAcquisition`, where they arise;
no step in between reads the verdict. `finishRun` returns at once without a run (line 155);
every caller has checked that there is one, so that the guard is not repeated. `powerData`
holds more samples than a run has ticks, and its capacity is not modelled. A safety fault, the end of a transfer and a lost link are choices of the
environment. The system reset keeps the history variables.

Host link: time stamps and completed-request snapshots are left out, options are
reduced to whether policy blocked a request; a timeout may happen at any pass ("stall",
"fragment"); the ring counts whole requests, and what remains of a fragment after an
overflow is not continued; the class driver's busy answer cannot occur
(`BufferIsBorrowedOnce`); a device is not enumerated again inside the few instructions
of `UsbTransport::process`; `_communicationHealthy` is false exactly while a
communication failure waits to be taken, because taking it resets the system; the
reset returns to the initial state.

Host session: the service, options and status of a packet are reduced to what decides; the
queue of sensor notifications is one event that may come once a launch has been started
(`SensorNotified`); the CRC is ideal, the contents of a frame being the launch and the
chunk it is of; extending the payload and counting the chunk are one step, because a
reset between them makes the next chunk be refused either way; timing reports are left
out; run identifiers count the starts (`MaxStarts`), so that neither the `run_id` argument
of startLaunch nor the wrap of `_next_run_id` at 128 (competition.py:1213) occurs; `_request_lock` needs no model, because the program makes one call at a time. The
bytes of a packet are not cut: `_read_exact_background` either completes or fails, and
failing is `FailBackground`.

Record: power samples, request snapshots and the velocity are not part of the record
(counted arrays and words like those that are); a failing ADC stop is in `LaunchRun`;
start-up failures of DMA and timers are in `LaunchRun`, and record nothing; an interrupt of
the DMA is served before the next scan is triggered (200 us against microseconds). An ADC
error is one of its DMA: the ADC's own interrupt is not enabled in the NVIC and
`HAL_ADC_IRQHandler` is never called, so that an overrun reaches no callback.

Evaluation board: time stamps are the numbers of their edges, so that equal ones, which the
code drops, do not occur; a second projectile does not reach the first sensor within the
latency of the interrupt that the one before caused at the second one (otherwise the
handler, which serves channel 3 first, would pair them the wrong way round); the float of
the velocity is a function of the pair.

### Not modelled

Power samples, snapshots and velocity of a record; the foreground trigger latch of the
sensors, which nothing reads; configuration commands of the host library, which are
`_request` and no state; its bootloader reconnection, reports, plots and consoles; LEDs and
user input; the DAC driver; blocking register access and calibration of the power monitor;
peripheral initialisation. Third-party and generated code (HAL, CMSIS, USB middleware),
nearly all the lines of the repository, appears as the environment the firmware relies on.

## 6. Plan

1. `BoardService` as the abstract specification that `HostLink`, with the launch of
   `LaunchRun`, implements; today the correspondence is by construction of the two.
2. The velocity capture and the power samples as further fields of `LaunchRecord`.

## 7. Running

    tlc -config BridgeCommands.cfg MCBoardSafety
    tlc -config LaunchRuns.cfg LaunchRun
    tlc -config HostTraffic.cfg MCHostLink
    tlc -config ClientSession.cfg HostClient
    tlc -config LaunchRecord.cfg LaunchRecord
    tlc -config EvalBoard.cfg EvalBoard
    tlapm BoardSafetyProofs.tla
    tlapm InterlockProofs.tla
    tlapm LaunchRunProofs.tla
    tlapm HostLinkProofs.tla
    tlapm HostClientProofs.tla
    tlapm EvalBoardProofs.tla
    tlapm LaunchWireProofs.tla
    tlapm LaunchRecordProofs.tla

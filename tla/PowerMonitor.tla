---------------------------- MODULE PowerMonitor ----------------------------
(***************************************************************************)
(* The asynchronous read of the INA226 power register: I2cDevice, the DMA  *)
(* transaction shared with the I2C interrupts, and Ina226, the measurement *)
(* that the launch acquisition starts from its timer interrupt and         *)
(* collects from the main loop.                                            *)
(*                                                                         *)
(* Only RawPower is ever requested, so the chain of further registers is   *)
(* absent.  The timer, I2C and DMA interrupts all run at priority 1: one   *)
(* never preempts another, each is one step here, and they come between    *)
(* any two foreground steps.                                               *)
(***************************************************************************)
EXTENDS Integers, FiniteSets

CONSTANT Faults   \* what may go wrong, of the kinds below

\* An I2C transfer; the ADC, when it starts or converts; a timer; the stop of the ADC;
\* the stop of the bridges and the sensors; USB.
ASSUME FaultsAssumption ==
  Faults \subseteq {"bus", "adc", "timers", "stop", "outputs", "link"}

VARIABLES
  i2cState,   \* I2cDevice::_asyncState
  owner,      \* I2cDevice::_activeTransaction # nullptr
  bus,        \* the HAL transfer behind it: idle, reading or aborting
  ina,        \* Ina226::_asyncState
  cancel,     \* Ina226::_cancelReadRequested
  failure     \* Ina226::_asyncFailureAvailable

powerVars == <<i2cState, owner, bus, ina, cancel, failure>>

PowerType ==
  /\ i2cState \in {"Idle", "Reading", "ReadComplete", "Aborting", "Error"}
  /\ bus \in {"idle", "reading", "aborting"}
  /\ ina \in {"Ready", "ReadingPower", "MeasurementComplete"}
  /\ owner \in BOOLEAN /\ cancel \in BOOLEAN /\ failure \in BOOLEAN

PowerInit ==
  /\ i2cState = "Idle" /\ owner = FALSE /\ bus = "idle"
  /\ ina = "Ready" /\ cancel = FALSE /\ failure = FALSE

-----------------------------------------------------------------------------
(* Interrupt level.                                                         *)

CanStartRead == ina = "Ready"

\* The timer starts a DMA read; a failure latched earlier is cleared with it.
StartRead ==
  /\ CanStartRead
  /\ i2cState = "Idle" /\ ~owner /\ bus = "idle"
  /\ i2cState' = "Reading" /\ owner' = TRUE /\ bus' = "reading"
  /\ ina' = "ReadingPower" /\ cancel' = FALSE /\ failure' = FALSE

\* The device is not idle, or the HAL refuses the transfer: the failure is
\* latched and the monitor is ready again.
StartReadFails ==
  /\ CanStartRead
  /\ i2cState # "Idle" \/ owner \/ "bus" \in Faults
  /\ failure' = TRUE /\ cancel' = FALSE
  /\ UNCHANGED <<i2cState, owner, bus, ina>>

\* completeTransaction: only the registered owner learns of the completion.
CompleteTransaction(state) ==
  /\ i2cState' = IF owner THEN state ELSE i2cState
  /\ owner' = FALSE
  /\ bus' = "idle"
  /\ UNCHANGED <<ina, cancel, failure>>

ReadCompletes  == bus = "reading"  /\ CompleteTransaction("ReadComplete")
AbortCompletes == bus = "aborting" /\ CompleteTransaction("Error")
BusFails == /\ "bus" \in Faults
            /\ bus # "idle"
            /\ CompleteTransaction("Error")

-----------------------------------------------------------------------------
(* Foreground level.                                                        *)

\* Mutant: the state machine returns to its state before initialization.
DiscardToIdle == cancel' = FALSE /\ ina' = "Idle" /\ UNCHANGED failure

\* The tail of process() for a transfer that ended: a requested cancellation
\* discards it.
Discard == cancel' = FALSE /\ ina' = "Ready" /\ UNCHANGED failure

ProcessPower ==
  \/ /\ i2cState = "Error"
     /\ i2cState' = "Idle"
     /\ \/ cancel /\ Discard
        \/ ~cancel /\ failure' = TRUE /\ ina' = "Ready" /\ UNCHANGED cancel
     /\ UNCHANGED <<owner, bus>>
  \/ /\ i2cState = "ReadComplete" /\ ina = "ReadingPower"
     /\ i2cState' = "Idle"
     /\ \/ cancel /\ Discard
        \/ ~cancel /\ ina' = "MeasurementComplete" /\ UNCHANGED <<cancel, failure>>
     /\ UNCHANGED <<owner, bus>>
  \/ /\ i2cState # "Error"
     /\ ~(i2cState = "ReadComplete" /\ ina = "ReadingPower")
     /\ UNCHANGED powerVars

\* takeRawMeasurements.
HasMeasurement == ina = "MeasurementComplete"

\* Mutant: the measurement stays available and is collected again.
TakeMeasurementAgain == UNCHANGED powerVars

TakeMeasurement ==
  /\ ina' = IF HasMeasurement THEN "Ready" ELSE ina
  /\ UNCHANGED <<i2cState, owner, bus, cancel, failure>>

\* takeAsyncFailure, whatever it returns.
TakeFailure ==
  /\ failure' = FALSE
  /\ UNCHANGED <<i2cState, owner, bus, ina, cancel>>

ReadIsActive == ina = "ReadingPower"

\* abortRead up to the check of requestAbort; cancelRead when nothing is read.
RequestCancel ==
  /\ cancel' = (cancel \/ ReadIsActive)
  /\ ina' = IF HasMeasurement THEN "Ready" ELSE ina
  /\ UNCHANGED <<i2cState, owner, bus, failure>>
AbortIsPossible == ReadIsActive /\ owner /\ i2cState = "Reading"

\* requestAbort after its check: the interrupt may have ended the read since.
MarkAborting ==
  /\ i2cState' = "Aborting"
  /\ UNCHANGED <<owner, bus, ina, cancel, failure>>

\* HAL_I2C_Master_Abort_IT refuses when no transfer is active, and the state is
\* put back to Reading.
CallAbort ==
  /\ IF bus = "reading"
       THEN bus' = "aborting" /\ UNCHANGED i2cState
       ELSE i2cState' = "Reading" /\ UNCHANGED bus
  /\ UNCHANGED <<owner, ina, cancel, failure>>

\* A system reset clears the peripheral and the firmware state.
ResetPower ==
  /\ i2cState' = "Idle" /\ owner' = FALSE /\ bus' = "idle"
  /\ ina' = "Ready" /\ cancel' = FALSE /\ failure' = FALSE
=============================================================================

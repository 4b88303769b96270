--------------------------- MODULE CoilController ---------------------------
(***************************************************************************)
(* Service/Power/CoilController.cpp: the two EXTI handlers that isolate    *)
(* bridges, the foreground passes that sample inputs and finish isolation, *)
(* the hardware half of a fault clear, and the host's coil commands.       *)
(*                                                                         *)
(* A command is split wherever an interrupt or a pin change between two of *)
(* its statements can alter its outcome.  A rejected command that changes  *)
(* nothing is not a step.  All-bridge loops visit the bridges in any order.*)
(***************************************************************************)
EXTENDS SafetyManager, Drv8874

CONSTANT
  Commands      \* coil commands the host sends, a subset of CommandNames

CommandNames ==
  {"Drive", "DriveAll", "CoilOff", "CoilOffAll", "Sleep", "SleepAll",
   "Wake", "WakeAll", "SetCurrent", "SetCurrentAll", "SetPmode"}

ASSUME CommandsAssumption == Commands \subseteq CommandNames

VARIABLES
  waking,       \* driverWakeQualificationMask
  shutdown,     \* driverShutdownRequestedMask
  servicing,    \* copy of the shutdown mask being serviced
  \* locals of the command in progress
  todo,         \* bridges it has not started
  active,       \* the bridge it is working on, if any
  target,       \* the state it asks for
  all,          \* it addresses every bridge
  early         \* lines low at the first read of a wake qualification

controlVars == <<waking, shutdown, servicing>>
commandVars == <<todo, active, target, all, early>>
coilVars == <<driverVars, controlVars, commandVars>>

ControlType ==
  /\ waking \subseteq Drivers
  /\ shutdown \subseteq Drivers
  /\ servicing \subseteq Drivers
  /\ todo \subseteq Drivers
  /\ active \subseteq Drivers
  /\ target \in States
  /\ all \in BOOLEAN
  /\ early \subseteq Lines

\* CoilController::hasFault: latched in the mask, or live on a qualified bridge.
LiveFault(d) == state[d] # "Sleep" /\ d \notin waking /\ DeviceFault(d)
HasFault(d) == d \in mask \/ LiveFault(d)
HasAnyFault == HasAnyLatchedFault \/ \E d \in Drivers : LiveFault(d)

\* What latching a line leaves alone in the safety manager.
keepManager == <<setupVars, releaseVars, autoVars, cycleVars, localVars,
                 lastReport>>

CommandDone ==
  /\ todo' = {} /\ active' = {} /\ target' = "Sleep" /\ all' = FALSE
  /\ early' = {}
  /\ Goto("requests")

\* disableAll(): cancel wake qualification, force every nSLEEP low, put every
\* bridge to sleep and zero every VREF.
DisableAll ==
  /\ waking' = {}
  /\ Sleep(Drivers)
  /\ ZeroReference(Drivers)
  /\ UNCHANGED <<threshold, faultLatched, pmode, shutdown, servicing>>

-----------------------------------------------------------------------------
(* Interrupt handlers.                                                      *)

\* Mutant: the fault is latched and the output is left to the foreground.
LatchWithoutIsolation(d) ==
  /\ AcceptEdge(d)
  /\ IF d \in nSleep /\ d \notin waking
     THEN LatchFaults({d}) /\ shutdown' = shutdown \cup {d}
     ELSE UNCHANGED <<latchVars, shutdown>>
  /\ UNCHANGED <<pc, keepManager, driverVars, waking, servicing, commandVars>>

\* Mutant: the output is forced low and no shutdown is requested.
IsolateWithoutShutdown(d) ==
  /\ AcceptEdge(d)
  /\ IF d \in nSleep /\ d \notin waking
     THEN nSleep' = nSleep \ {d} /\ LatchFaults({d})
     ELSE UNCHANGED <<nSleep, latchVars>>
  /\ UNCHANGED <<pc, keepManager, state, threshold, applied, faultLatched,
                 pmode, controlVars, commandVars>>

\* handleDriverFaultFromIsr: edges of a waking or disabled bridge are ignored.
DriverFaultIsr(d) ==
  /\ AcceptEdge(d)
  /\ IF d \in nSleep /\ d \notin waking
     THEN /\ nSleep' = nSleep \ {d}
          /\ LatchFaults({d})
          /\ shutdown' = shutdown \cup {d}
     ELSE UNCHANGED <<nSleep, latchVars, shutdown>>
  /\ UNCHANGED <<pc, keepManager, state, threshold, applied, faultLatched,
                 pmode, waking, servicing, commandVars>>

\* handlePowerAlertFromIsr: every nSLEEP low, the cached states are left alone.
PowerAlertIsr ==
  /\ AcceptEdge(PowerAlert)
  /\ nSleep' = {}
  /\ LatchFaults({PowerAlert})
  /\ UNCHANGED <<pc, keepManager, state, threshold, applied, faultLatched,
                 pmode, controlVars, commandVars>>

-----------------------------------------------------------------------------
(* Foreground safety pass.                                                  *)

\* Mutant: POWER_ALERT is asked to be isolated as if it were a bridge.
SampleSchedulesAlert(from, to) ==
  LET failed == {d \in Drivers : /\ state[d] # "Sleep"
                                 /\ d \notin waking
                                 /\ d \in low}
      alert == low \cap {PowerAlert}
  IN
  /\ At(from)
  /\ faultLatched' = faultLatched \cup failed
  /\ nSleep' = IF alert = {} THEN nSleep \ failed ELSE {}
  /\ LatchFaults(failed \cup alert)
  /\ shutdown' = shutdown \cup failed \cup alert
  /\ Goto(to)
  /\ UNCHANGED <<lineVars, keepManager, state, threshold, applied, pmode,
                 waking, servicing, commandVars>>

\* sampleAndLatchFaultInputs: awake, qualified bridges and POWER_ALERT.
SampleAndLatchFaultInputs(from, to) ==
  LET failed == {d \in Drivers : /\ state[d] # "Sleep"
                                 /\ d \notin waking
                                 /\ d \in low}
      alert == low \cap {PowerAlert}
  IN
  /\ At(from)
  /\ faultLatched' = faultLatched \cup failed
  /\ nSleep' = IF alert = {} THEN nSleep \ failed ELSE {}
  /\ LatchFaults(failed \cup alert)
  /\ shutdown' = shutdown \cup failed
  /\ Goto(to)
  /\ UNCHANGED <<lineVars, keepManager, state, threshold, applied, pmode,
                 waking, servicing, commandVars>>

\* servicePendingDriverShutdowns: read, isolate, then clear what was read.
ReadShutdowns ==
  /\ At("readShutdowns")
  /\ servicing' = shutdown
  /\ Goto(IF shutdown = {} THEN "snapshotDrivers" ELSE "isolate")
  /\ UNCHANGED <<lineVars, managerVars, driverVars, waking, shutdown,
                 commandVars>>

\* Mutant: the bridge sleeps, its VREF stays.
IsolateWithoutReference ==
  /\ At("isolate")
  /\ Sleep(servicing)
  /\ Goto("clearShutdowns")
  /\ UNCHANGED <<lineVars, managerVars, applied, threshold, faultLatched, pmode,
                 controlVars, commandVars>>

IsolateDrivers ==
  /\ At("isolate")
  /\ Sleep(servicing)
  /\ ZeroReference(servicing)
  /\ Goto("clearShutdowns")
  /\ UNCHANGED <<lineVars, managerVars, threshold, faultLatched, pmode,
                 controlVars, commandVars>>

\* Mutant: every request is cleared, those that arrived meanwhile included.
ClearAllShutdowns ==
  /\ At("clearShutdowns")
  /\ shutdown' = {}
  /\ servicing' = {}
  /\ Goto("snapshotDrivers")
  /\ UNCHANGED <<lineVars, managerVars, driverVars, waking, commandVars>>

ClearShutdowns ==
  /\ At("clearShutdowns")
  /\ shutdown' = shutdown \ servicing
  /\ servicing' = {}
  /\ Goto("snapshotDrivers")
  /\ UNCHANGED <<lineVars, managerVars, driverVars, waking, commandVars>>

\* clearFaultHardware holds one critical section over two checks; a pin may fall
\* between them, and the device latches are then already clear.
HardwareReleased == epoch = clearEpoch /\ edges = {} /\ low = {}

ClearFaultHardware ==
  /\ At("clearHardware")
  /\ IF AllAsleep /\ AllReferencesZero /\ HardwareReleased
     THEN /\ faultLatched' = {}
          /\ Goto("clearHardware2")
          /\ UNCHANGED clearEpoch
     ELSE /\ clearEpoch' = 0
          /\ Goto("requests")
          /\ UNCHANGED faultLatched
  /\ UNCHANGED <<lineVars, latchVars, setupVars, releaseVars, autoVars,
                 cycleVars, snapshot, sawEvent, isolated, reportEpoch,
                 lastReport, state, nSleep, threshold, applied, pmode,
                 controlVars, commandVars>>

ConfirmHardwareClear ==
  /\ At("clearHardware2")
  /\ IF HardwareReleased
     THEN /\ shutdown' = {}
          /\ Goto("completeClear")
          /\ UNCHANGED clearEpoch
     ELSE /\ clearEpoch' = 0
          /\ Goto("requests")
          /\ UNCHANGED shutdown
  /\ UNCHANGED <<lineVars, latchVars, setupVars, releaseVars, autoVars,
                 cycleVars, snapshot, sawEvent, isolated, reportEpoch,
                 lastReport, driverVars, waking, servicing, commandVars>>

-----------------------------------------------------------------------------
(* Host commands, dispatched by RequestManager::process.                    *)

Accept(name) == At("requests") /\ name \in Commands
keepSafety == <<lineVars, managerVars>>

\* setDriverState(d, Forward | Reverse), up to the critical section.
DriveOne(d, dir) ==
  /\ Accept("Drive")
  /\ state[d] # "Sleep"
  /\ threshold[d] # 0
  /\ ~HasGlobalFault /\ ~HasFault(d)
  /\ ApplyReference({d})
  /\ todo' = {d} /\ active' = {} /\ target' = dir /\ all' = FALSE
  /\ Goto("energize")
  /\ UNCHANGED <<early, keepSafety, state, nSleep, threshold, faultLatched, pmode,
                 controlVars>>

DriveAll(dir) ==
  /\ Accept("DriveAll")
  /\ \A d \in Drivers : state[d] # "Sleep"
  /\ ~HasAnyFault
  /\ IF \A d \in Drivers : threshold[d] # 0
     THEN /\ ApplyReference(Drivers)
          /\ todo' = Drivers /\ active' = {} /\ target' = dir /\ all' = TRUE
          /\ Goto("energize")
          /\ UNCHANGED <<early, state, nSleep, threshold, faultLatched, pmode,
                         controlVars>>
     ELSE DisableAll /\ CommandDone
  /\ UNCHANGED keepSafety

\* setEnergizedDriverStateSafely: canEnergize, the bridge's own pin and flag,
\* and Drv8874::setState, in one critical section.  A pin that falls after the
\* last read is a fall after the step.  One that falls between the two reads of
\* applyState makes it sleep the bridge before the section ends, and the handler
\* ignores the edge of a sleeping bridge: the outcome of a fall before the first
\* read with IsolateFailedEnable taken before the handler runs.
Energize(d) ==
  /\ At("energize")
  /\ d \in todo
  /\ IF CanEnergize(d) /\ d \notin edges /\ ~DeviceFault(d)
     THEN Enter(d, target) /\ Goto("verify")
     ELSE UNCHANGED <<state, nSleep>> /\ Goto("enableFailed")
  /\ active' = {d}
  /\ todo' = todo \ {d}
  /\ UNCHANGED <<keepSafety, threshold, applied, faultLatched, pmode,
                 controlVars, target, all, early>>

\* verifyEnabledDriverOrIsolate, before the critical section ends.
VerifyEnabled(d) ==
  /\ At("verify")
  /\ d \in active
  /\ IF HasGlobalFault
     THEN /\ nSleep' = {}
          /\ LatchFaults({PowerAlert})
          /\ Goto("enableFailed")
          /\ UNCHANGED <<faultLatched, shutdown, active>>
     ELSE IF d \in low \cup edges
     THEN /\ faultLatched' = faultLatched \cup {d}
          /\ nSleep' = nSleep \ {d}
          /\ LatchFaults({d})
          /\ shutdown' = shutdown \cup {d}
          /\ Goto("enableFailed")
          /\ UNCHANGED active
     ELSE /\ UNCHANGED <<faultLatched, nSleep, latchVars, shutdown>>
          /\ active' = IF todo = {} THEN active ELSE {}
          /\ Goto(IF todo = {} THEN "resample" ELSE "energize")
  /\ UNCHANGED <<lineVars, keepManager, state, threshold, applied, pmode,
                 waking, servicing, todo, target, all, early>>

\* isolateAfterFailedEnable for one bridge, disableAll() for all of them.
IsolateFailedEnable ==
  /\ At("enableFailed")
  /\ IF all \/ HasGlobalFault
     THEN DisableAll
     ELSE /\ Sleep(active)
          /\ ZeroReference(active)
          /\ UNCHANGED <<threshold, faultLatched, pmode, controlVars>>
  /\ CommandDone
  /\ UNCHANGED keepSafety

\* The check after the enable: the pins were sampled once more.
RecheckAfterEnable ==
  /\ At("recheck")
  /\ IF IF all THEN HasAnyFault ELSE HasGlobalFault
     THEN DisableAll
     ELSE /\ IF ~all /\ \E d \in active : HasFault(d)
             THEN Sleep(active) ELSE UNCHANGED <<state, nSleep>>
          /\ UNCHANGED <<threshold, applied, faultLatched, pmode, controlVars>>
  /\ CommandDone
  /\ UNCHANGED keepSafety

\* setDriverState(CoilOff) for one or all bridges: no bridge may be asleep.
CoilOff(name, S) ==
  /\ Accept(name)
  /\ \A d \in S : state[d] # "Sleep"
  /\ todo' = S /\ target' = "CoilOff" /\ all' = (name = "CoilOffAll")
  /\ active' = {}
  /\ Goto("coast")
  /\ UNCHANGED <<early, keepSafety, driverVars, controlVars>>

\* applyState(CoilOff) up to its last pin check: the inputs go low first.
Coast(d) ==
  /\ At("coast")
  /\ d \in todo
  /\ IF DeviceFault(d)
     THEN /\ IF all THEN DisableAll
             ELSE /\ Sleep({d})
                  /\ UNCHANGED <<threshold, applied, faultLatched, pmode,
                                 controlVars>>
          /\ CommandDone
     ELSE /\ state' = [state EXCEPT ![d] = "CoilOff"]
          /\ active' = {d}
          /\ todo' = todo \ {d}
          /\ Goto("raise")
          /\ UNCHANGED <<nSleep, threshold, applied, faultLatched, pmode,
                         controlVars, target, all, early>>
  /\ UNCHANGED keepSafety

\* _sleep.set(): no critical section protects it from an interrupt that has
\* just forced the same output low.  The last bridge also zeroes the VREFs.
RaiseAfterCoast(d) ==
  /\ At("raise")
  /\ d \in active
  /\ Enter(d, "CoilOff")
  /\ IF todo = {}
     THEN /\ ZeroReference(IF all THEN Drivers ELSE {d})
          /\ CommandDone
     ELSE /\ active' = {}
          /\ Goto("coast")
          /\ UNCHANGED <<applied, todo, target, all, early>>
  /\ UNCHANGED <<keepSafety, threshold, faultLatched, pmode, controlVars>>

SleepOne(d) ==
  /\ Accept("Sleep")
  /\ Sleep({d})
  /\ ZeroReference({d})
  /\ UNCHANGED <<pc, keepSafety, threshold, faultLatched, pmode, controlVars,
                 commandVars>>

\* CoilCommand::Sleep for all bridges; LaunchManager::finishRun calls the same.
SleepAll ==
  /\ Accept("SleepAll")
  /\ DisableAll
  /\ UNCHANGED <<pc, keepSafety, commandVars>>

\* CoilCommand::Wake for one or all bridges; bridges already awake are skipped.
Wake(name, S) ==
  /\ Accept(name)
  /\ \E d \in S : state[d] = "Sleep"
  /\ todo' = {d \in S : state[d] = "Sleep"}
  /\ target' = "CoilOff" /\ all' = (name = "WakeAll") /\ active' = {}
  /\ Goto("wake")
  /\ UNCHANGED <<early, keepSafety, driverVars, controlVars>>

\* beginTestDriverWake up to the delay.
BeginDriverWake(d) ==
  /\ At("wake")
  /\ d \in todo
  /\ IF /\ applied[d] = 0
        /\ ~HasGlobalFault /\ ~HasFault(d)
        /\ \A other \in Drivers : state[other] \in {"Sleep", "CoilOff"}
        /\ ~DeviceFault(d)
     THEN /\ waking' = waking \cup {d}
          /\ Enter(d, "CoilOff")
          /\ active' = {d}
          /\ todo' = todo \ {d}
          /\ Goto("wakeDelay")
          /\ UNCHANGED <<target, all, early>>
     ELSE /\ UNCHANGED <<waking, state, nSleep>>
          /\ CommandDone
  /\ UNCHANGED <<keepSafety, threshold, applied, faultLatched, pmode, shutdown,
                 servicing>>

\* HAL_Delay, then Drv8874::clearFault.
EndDriverWakeDelay(d) ==
  /\ At("wakeDelay")
  /\ d \in active
  /\ faultLatched' = IF d \in low THEN faultLatched ELSE faultLatched \ {d}
  /\ Goto("qualify")
  /\ UNCHANGED <<keepSafety, state, nSleep, threshold, applied, pmode,
                 controlVars, commandVars>>

\* completeDriverWakeQualification, one critical section: read both pins, drop
\* the edge captured while waking, read both again.
ReadWakeInputs(d) ==
  /\ At("qualify")
  /\ d \in active
  /\ early' = low \cap {d, PowerAlert}
  /\ Goto("qualify2")
  /\ UNCHANGED <<keepSafety, driverVars, controlVars, todo, active, target, all>>

CompleteDriverWake(d) ==
  /\ At("qualify2")
  /\ d \in active
  \* An edge of this section was captured before the flag is cleared, and is
  \* dropped, or after it, and is seen by the second read.
  /\ \E seen \in SUBSET (edges \cap {d}) :
       LET driverFault == {d} \cap (low \cup early \cup seen)
           alert == {PowerAlert} \cap (low \cup early \cup edges)
           woken == driverFault \cup alert = {} /\ state[d] = "CoilOff"
       IN
       /\ edges' = edges \ ({d} \ seen)
       /\ LatchFaults(driverFault \cup alert)
       /\ faultLatched' = faultLatched \cup driverFault
       /\ shutdown' = shutdown \cup driverFault
       /\ state' = IF woken THEN state ELSE [state EXCEPT ![d] = "Sleep"]
       /\ nSleep' = IF alert # {} THEN {}
                    ELSE IF woken THEN nSleep ELSE nSleep \ {d}
       /\ IF woken /\ todo # {}
          THEN /\ Goto("wake")
               /\ active' = {} /\ early' = {}
               /\ UNCHANGED <<todo, target, all>>
          ELSE CommandDone
  /\ waking' = waking \ {d}
  /\ UNCHANGED <<low, safetyEvent, falls, keepManager, threshold, applied,
                 pmode, servicing>>

\* setCurrentThresholdMilliamps: raising a current needs a fault-free target.
SetCurrent(d, c) ==
  /\ Accept("SetCurrent")
  /\ c = 0 \/ (~HasGlobalFault /\ ~HasFault(d))
  /\ SetThreshold({d}, c)
  /\ UNCHANGED <<pc, keepSafety, state, nSleep, faultLatched, pmode,
                 controlVars, commandVars>>

SetCurrentAll(c) ==
  /\ Accept("SetCurrentAll")
  /\ c = 0 \/ ~HasAnyFault
  /\ SetThreshold(Drivers, c)
  /\ UNCHANGED <<pc, keepSafety, state, nSleep, faultLatched, pmode,
                 controlVars, commandVars>>

\* Mutant: a bridge that is awake without VREF does not hold PMODE.
BeginSetPmodeZeroReference ==
  /\ Accept("SetPmode")
  /\ AllReferencesZero
  /\ Goto("pmodeDelay")
  /\ UNCHANGED <<keepSafety, coilVars>>

\* setPmode checks once and then waits for tSLEEP before it writes the output.
BeginSetPmode ==
  /\ Accept("SetPmode")
  /\ AllAsleep /\ AllReferencesZero
  /\ Goto("pmodeDelay")
  /\ UNCHANGED <<keepSafety, coilVars>>

WritePmode ==
  /\ At("pmodeDelay")
  /\ pmode' = ~pmode
  /\ Goto("requests")
  /\ UNCHANGED <<keepSafety, state, nSleep, threshold, applied, faultLatched,
                 controlVars, commandVars>>
=============================================================================

---------------------------- MODULE BoardSafety ----------------------------
(***************************************************************************)
(* App/BoardApplication.cpp: one pass of process() as the foreground runs  *)
(* it, processSafety first and the host's requests last, preempted by the  *)
(* safety interrupts of SafetyLines.                                       *)
(***************************************************************************)
EXTENDS CoilController

vars == <<pc, lineVars, managerVars, coilVars>>

ControlPoints ==
  {"sample", "readShutdowns", "isolate", "clearShutdowns", "snapshotDrivers",
   "snapshotPins", "takeEvent", "cycle", "policy", "policyDriver", "release",
   "auto", "report", "reported", "safeState", "safeResult", "takeClear",
   "clearHardware", "clearHardware2", "completeClear", "requests",
   "energize", "verify", "enableFailed", "resample", "recheck", "coast",
   "raise", "wake", "wakeDelay", "qualify", "qualify2", "pmodeDelay"}

-----------------------------------------------------------------------------
(* Steps of processSafety that belong to no component.                      *)

\* The SafetySnapshot is read bridge states first and pins last.
SnapshotDrivers ==
  /\ At("snapshotDrivers")
  /\ snapshot' = [snapshot EXCEPT
       !.outputsSafe = AllAsleep /\ AllReferencesZero,
       !.faultedDisabled = \A d \in mask \cap Drivers : state[d] = "Sleep"]
  /\ Goto("snapshotPins")
  /\ UNCHANGED <<lineVars, latchVars, setupVars, releaseVars, autoVars,
                 cycleVars, sawEvent, isolated, reportEpoch, clearEpoch,
                 lastReport, coilVars>>

SnapshotPins ==
  /\ At("snapshotPins")
  /\ snapshot' = [snapshot EXCEPT !.released = (low = {})]
  /\ Goto("takeEvent")
  /\ UNCHANGED <<lineVars, latchVars, setupVars, releaseVars, autoVars,
                 cycleVars, sawEvent, isolated, reportEpoch, clearEpoch,
                 lastReport, coilVars>>

\* enterSafeState: disableAll, then the outcome is reported.
EnterSafeState ==
  /\ At("safeState")
  /\ IF safeStateRequired
     THEN DisableAll /\ Goto("safeResult")
     ELSE UNCHANGED <<driverVars, controlVars>> /\ Goto("takeClear")
  /\ UNCHANGED <<keepSafety, commandVars>>

\* process() returns and the main loop calls it again.
EndPass ==
  /\ At("requests")
  /\ Goto("sample")
  /\ UNCHANGED <<keepSafety, coilVars>>

\* The millisecond tick.  A pass takes far less than one tick unless it blocks
\* in HAL_Delay, so ticks fall between passes and in the wake and PMODE delays.
Tick ==
  /\ At("requests") \/ At("wakeDelay") \/ At("pmodeDelay")
  /\ AgesAdvance
  /\ UNCHANGED <<pc, lineVars, latchVars, setupVars, releaseTiming,
                 releaseEpoch, autoVars, cycleActive, requiresAck,
                 windowActive, localVars, lastReport, coilVars>>

-----------------------------------------------------------------------------
Environment(l) ==
  /\ PinFalls(l) \/ PinRises(l)
  /\ UNCHANGED <<pc, managerVars, coilVars>>

Interrupts ==
  \/ \E d \in Drivers : DriverFaultIsr(d)
  \/ PowerAlertIsr

SafetyPass ==
  \/ SampleAndLatchFaultInputs("sample", "readShutdowns")
  \/ ReadShutdowns
  \/ IsolateDrivers
  \/ ClearShutdowns
  \/ SnapshotDrivers
  \/ SnapshotPins
  \/ /\ \/ TakeSafetyEvent
        \/ UpdatePowerAlertCycle
        \/ SafeStatePolicyGlobal
        \/ SafeStatePolicyDriver
        \/ ValidateRelease
        \/ RequestAutomaticClear
        \/ QueueFaultReport
        \/ SkipFaultReport
        \/ ConfirmFaultReport
        \/ ReportSafeStateResult
        \/ TakeAutomaticClear
        \/ CompleteFaultClear
     /\ UNCHANGED coilVars
  \/ EnterSafeState
  \/ ClearFaultHardware
  \/ ConfirmHardwareClear

\* A command that is under way runs to its end before the next is dispatched.
CommandStep ==
  \/ \E d \in Drivers :
       \/ Energize(d)
       \/ VerifyEnabled(d)
       \/ Coast(d)
       \/ RaiseAfterCoast(d)
       \/ BeginDriverWake(d)
       \/ EndDriverWakeDelay(d)
       \/ ReadWakeInputs(d)
       \/ CompleteDriverWake(d)
  \/ IsolateFailedEnable
  \/ SampleAndLatchFaultInputs("resample", "recheck")
  \/ RecheckAfterEnable
  \/ WritePmode

HostCommand ==
  \/ \E d \in Drivers, dir \in Directions : DriveOne(d, dir)
  \/ \E dir \in Directions : DriveAll(dir)
  \/ \E d \in Drivers : CoilOff("CoilOff", {d})
  \/ CoilOff("CoilOffAll", Drivers)
  \/ \E d \in Drivers : SleepOne(d)
  \/ SleepAll
  \/ \E d \in Drivers : Wake("Wake", {d})
  \/ Wake("WakeAll", Drivers)
  \/ \E d \in Drivers, c \in Currents : SetCurrent(d, c)
  \/ \E c \in Currents : SetCurrentAll(c)
  \/ BeginSetPmode

Next ==
  \/ \E l \in Lines : Environment(l)
  \/ Interrupts
  \/ SafetyPass
  \/ CommandStep
  \/ HostCommand
  \/ EndPass
  \/ Tick

Init ==
  /\ low \in SUBSET Lines
  /\ edges = {}
  /\ safetyEvent = FALSE
  /\ pc = "sample"
  /\ \E alertAtBoot \in BOOLEAN :
       /\ PowerAlert \in low => alertAtBoot
       /\ falls = IF alertAtBoot THEN 1 ELSE 0
       /\ ManagerInit(alertAtBoot)
  /\ DriverInit
  /\ waking = {} /\ shutdown = {} /\ servicing = {}
  /\ todo = {} /\ active = {} /\ target = "Sleep" /\ all = FALSE
  /\ early = {}

Spec == Init /\ [][Next]_vars

-----------------------------------------------------------------------------
TypeOK ==
  /\ pc \in ControlPoints
  /\ LinesType
  /\ ManagerType
  /\ DriverType
  /\ ControlType

\* "A fault removes drive immediately and prevents unsafe commands from
\* restoring it" (README): no bridge drives while its own fault or the power
\* alert is latched, whatever interrupt lands between whatever two statements.
NoDriveUnderFault ==
  \A d \in Drivers : Driving(d) => mask \cap {d, PowerAlert} = {}

\* The interlock cannot be outrun: while a bridge drives, a line that is low has
\* its edge still captured, so the handler runs before the next statement.  A
\* consumed edge with the pin still low never coexists with drive.
AssertedLineIsCaptured ==
  \A d \in Drivers : Driving(d) => low \cap {d, PowerAlert} \subseteq edges

\* A driver fault latched on a bridge that is not asleep always has its shutdown
\* request: servicePendingDriverShutdowns clears only bits it has acted upon.
FaultedBridgeIsScheduled ==
  \A d \in mask \cap Drivers : state[d] # "Sleep" => d \in shutdown

\* A driving bridge is regulated at its retained threshold, whatever commands
\* and partial failures came before.
DriveHasItsReference ==
  \A d \in Drivers : state[d] \in Directions => applied[d] = threshold[d]

\* A bridge asleep with VREF still applied (a failed command may leave that) is
\* about to be zeroed: by a shutdown request, by the safe state, or, if
\* updateSafeStatePolicy overwrote the request of an alert latched meanwhile, by
\* the pass that sees that alert's event.
SleepingReferenceIsScheduled ==
  \A d \in Drivers :
    state[d] = "Sleep" /\ applied[d] # 0 =>
      \/ d \in shutdown \/ safeStateRequired \/ safetyEvent
      \/ PowerAlert \in mask /\ ~faultSafeStateComplete

\* A report that is no longer pending told the host the whole current mask, even
\* when faults were latched while it was being queued.
ReportIsCurrent ==
  mask # {} /\ ~reportPending => lastReport = mask

\* setPmode checks, waits, then writes: at the write no bridge is awake.
PmodeChangesAsleep ==
  [][pmode' # pmode => nSleep = {} /\ AllAsleep /\ AllReferencesZero]_vars

\* The only fault ever cleared is an isolated power alert that needs no
\* acknowledgement, on a powered-down stage.
OnlyIsolatedAlertClears ==
  [][mask # {} /\ mask' # mask /\ ~(mask \subseteq mask') =>
       /\ mask = {PowerAlert}
       /\ ~requiresAck
       /\ nSleep = {} /\ AllAsleep /\ AllReferencesZero]_vars

\* The power stage implements its abstract interlock: latching a fault and
\* cutting the drive it forbids are one event for any observer of the outputs.
Abstract == INSTANCE Interlock
              WITH driving <- {d \in Drivers : Driving(d)}, latched <- mask

ImplementsInterlock == Abstract!Spec

-----------------------------------------------------------------------------
(* Strengthenings that make the first three inductive.                      *)

\* Only the bridge a wake command is working on is unqualified, and only while
\* that command waits for it or qualifies it.
WakingIsActive ==
  \/ waking = {}
  \/ /\ pc \in {"wakeDelay", "qualify", "qualify2"}
     /\ \E d \in Drivers : waking = {d} /\ active = {d}

\* An interrupt that ignores the edge of a waking bridge ignores no drive.
WakingNeverDrives == \A d \in waking : state[d] \notin Directions

\* A shutdown request is withdrawn for bridges that are asleep.
ServicedIsAsleep ==
  pc = "clearShutdowns" => \A d \in servicing : state[d] = "Sleep"

\* CoilOff was refused for sleeping bridges and none fell asleep since.
CoastingIsAwake ==
  /\ pc = "coast" => \A d \in todo : state[d] # "Sleep"
  /\ pc = "raise" => \A d \in todo \cup active : state[d] # "Sleep"

\* Shutdown requests are dropped altogether on a stage that is asleep.
ClearedIsAsleep == pc = "clearHardware2" => AllAsleep

-----------------------------------------------------------------------------
(* Strengthenings for the interlock, the clear and PMODE.                   *)

\* A bridge asleep keeps its nSLEEP output low: only a command that asks for an
\* awake state raises it.
SleepIsLow ==
  /\ \A d \in nSleep : state[d] # "Sleep"
  /\ pc \in {"energize", "verify"} => target \in Directions

\* Between a check that the stage is powered down and the step that relies on it
\* only interrupts run, which wake nothing.
CheckedIsPoweredDown ==
  pc \in {"safeResult", "clearHardware2", "completeClear", "pmodeDelay"} =>
    AllAsleep /\ AllReferencesZero

\* What was true of the mask when an epoch was noted: it still is, unless a fault
\* was latched meanwhile, which advanced the epoch.
Granted(noted) ==
  /\ noted <= epoch
  /\ noted = epoch => mask = {PowerAlert} /\ ~requiresAck

\* The epoch that travels from the release validation to completeFaultClear.
ClearIsGranted ==
  /\ releaseEpoch <= epoch
  /\ pc \in {"policy", "policyDriver", "release", "auto"} /\ isolated =>
       \/ mask = {PowerAlert}
       \/ releaseEpoch < epoch
       \/ releaseAge = 0
  /\ autoPending =>
       /\ pc \in {"report", "reported", "safeState", "safeResult", "takeClear"}
       /\ Granted(autoEpoch)
  /\ pc \in {"clearHardware", "clearHardware2", "completeClear"} =>
       Granted(clearEpoch)

\* The report being confirmed told the mask of the epoch it notes.
ReportIsOfItsEpoch ==
  pc = "reported" =>
    /\ reportEpoch <= epoch
    /\ reportEpoch = epoch => lastReport = mask

-----------------------------------------------------------------------------
(* Strengthenings for the references.                                       *)

\* A bridge that is about to be energized is regulated at its threshold, and
\* CoilOff zeroes every VREF only after no bridge drives.
CommandedReference ==
  /\ pc \in {"energize", "verify"} =>
       \A d \in todo : applied[d] = threshold[d]
  /\ pc \in {"coast", "raise"} /\ all =>
       \A d \in Drivers \ todo : state[d] \notin Directions

\* A command works on one bridge at a time.
OneIsActive == \A d, e \in active : d = e

\* A bridge is woken with VREF zero.
WokenWithoutReference ==
  pc \in {"wakeDelay", "qualify", "qualify2"} => \A d \in active : applied[d] = 0

\* A shutdown request is withdrawn for bridges that sleep with VREF zero.
ServicedIsZeroed ==
  pc = "clearShutdowns" => \A d \in servicing : applied[d] = 0

\* The latched alert whose safe state has not been completed since its event.
AlertPending ==
  /\ PowerAlert \in mask
  /\ safeStateRequired \/ safetyEvent \/ ~faultSafeStateComplete

\* The bridge is going to be put to sleep with VREF zero.
Scheduled(d) == d \in shutdown \/ AlertPending

\* Everything that can make a bridge fall asleep with its VREF applied is
\* scheduled: an output forced low behind the cached state, an asserted line and
\* a device latch.
HalfIsolatedIsScheduled ==
  \A d \in Drivers :
    /\ state[d] = "Sleep" /\ applied[d] # 0 => Scheduled(d)
    /\ state[d] # "Sleep" /\ d \notin nSleep => Scheduled(d)
    /\ state[d] # "Sleep" /\ d \in faultLatched => Scheduled(d)
    /\ state[d] # "Sleep" /\ d \in low /\ d \notin waking =>
         d \in edges \/ Scheduled(d)

\* A completed safe state lasts as long as its alert: nothing is woken under it.
\* The policy of driver faults, which revokes it, sees the alert only with its
\* event.
AlertIsHandled ==
  /\ PowerAlert \in mask => AlertPending \/ AllAsleep
  /\ pc = "policyDriver" /\ PowerAlert \in mask => safetyEvent

-----------------------------------------------------------------------------
(* A claim of a comment that the code does not keep.                        *)

\* SafetyConfig.h on the repeat window: "Window in which a second released power
\* alert becomes a latched fault".  A single alert is not a repeated one.
OnlyRepeatNeedsAck ==
  requiresAck /\ mask = {PowerAlert} => falls >= 2

-----------------------------------------------------------------------------
(* Liveness.  Interrupts are served; the loop never stops; the dispatcher   *)
(* serves at most five requests, so a pass ends; SysTick keeps running.      *)

FairSpec ==
  /\ Spec
  /\ WF_vars(Interrupts)
  /\ WF_vars(SafetyPass \/ CommandStep)
  /\ SF_vars(EndPass)
  /\ SF_vars(Tick)

\* A latched alert ends in the safe state even when its request is overwritten
\* by the policy or its edge lands between disableAll and the reported result.
AlertReachesSafeState ==
  PowerAlert \in mask ~>
    nSleep = {} /\ AllAsleep /\ AllReferencesZero

\* A bridge with a latched fault is put to sleep with VREF zero.
FaultedBridgeIsIsolated ==
  \A d \in Drivers : d \in mask ~> state[d] = "Sleep" /\ applied[d] = 0

\* A first isolated alert does not outlive its cause: once the lines stay
\* released it is cleared.
IsolatedAlertIsResolved ==
  mask = {PowerAlert} /\ powerAlertConfigured ~>
    mask # {PowerAlert} \/ requiresAck \/ low # {}
=============================================================================

--------------------------- MODULE SafetyManager ---------------------------
(***************************************************************************)
(* Service/Safety/SafetyManager.cpp: the latched fault mask, the safe      *)
(* state policy, the release validation, the automatic clear of an         *)
(* isolated power alert and the fault report.                              *)
(*                                                                         *)
(* Time is kept as ages in ticks, saturating at the interval they are      *)
(* compared with.  The fault mask is the set of latched lines; the         *)
(* SafeStateFailure bit is absent because every status it stands for comes *)
(* from GpioPin::write on a pin configured as an output, which succeeds.   *)
(***************************************************************************)
EXTENDS SafetyLines

CONSTANTS
  ReleaseValidation,  \* FaultReleaseValidationMilliseconds, in ticks
  RepeatWindow        \* PowerAlertRepeatWindowMilliseconds, in ticks

ASSUME IntervalAssumption ==
  /\ ReleaseValidation \in Nat \ {0}
  /\ RepeatWindow \in Nat \ {0}

VARIABLES
  mask, epoch, reportPending, sysState, systemReady, powerAlertConfigured,
  safeStateRequired, faultSafeStateComplete,
  releaseTiming, releaseAge, releaseEpoch,
  cycleActive, requiresAck, windowActive, windowAge,
  autoPending, autoEpoch,
  \* locals of the foreground
  snapshot, sawEvent, isolated, reportEpoch, clearEpoch,
  \* the fault report last accepted by the request queue
  lastReport

latchVars == <<mask, epoch, reportPending, sysState,
               safeStateRequired, faultSafeStateComplete>>
setupVars == <<systemReady, powerAlertConfigured>>
releaseVars == <<releaseTiming, releaseAge, releaseEpoch>>
autoVars == <<autoPending, autoEpoch>>
cycleVars == <<cycleActive, requiresAck, windowActive, windowAge>>
localVars == <<snapshot, sawEvent, isolated, reportEpoch, clearEpoch>>
managerVars == <<latchVars, setupVars, releaseVars, autoVars, cycleVars,
                 localVars, lastReport>>

Epochs == Nat
NoSnapshot ==
  [outputsSafe |-> FALSE, faultedDisabled |-> FALSE, released |-> FALSE]

LatchType ==
  /\ mask \subseteq Lines
  /\ epoch \in Epochs
  /\ reportPending \in BOOLEAN
  /\ sysState \in {"Safe", "Ready", "Faulted"}
  /\ safeStateRequired \in BOOLEAN /\ faultSafeStateComplete \in BOOLEAN

SetupType == systemReady \in BOOLEAN /\ powerAlertConfigured \in BOOLEAN

ReleaseType ==
  /\ releaseTiming \in BOOLEAN
  /\ releaseAge \in 0 .. ReleaseValidation
  /\ releaseEpoch \in Epochs

AutoType == autoPending \in BOOLEAN /\ autoEpoch \in Epochs

CycleType ==
  /\ cycleActive \in BOOLEAN /\ requiresAck \in BOOLEAN
  /\ windowActive \in BOOLEAN
  /\ windowAge \in 0 .. RepeatWindow

LocalType ==
  /\ snapshot \in [outputsSafe : BOOLEAN, faultedDisabled : BOOLEAN,
                   released : BOOLEAN]
  /\ sawEvent \in BOOLEAN /\ isolated \in BOOLEAN
  /\ reportEpoch \in Epochs /\ clearEpoch \in Epochs
  /\ lastReport \subseteq Lines

ManagerType ==
  LatchType /\ SetupType /\ ReleaseType /\ AutoType /\ CycleType /\ LocalType

-----------------------------------------------------------------------------
(* Predicates other components ask for.                                     *)

HasGlobalFault == PowerAlert \in mask \/ PowerAlertObserved
HasAnyLatchedFault == mask # {} \/ PowerAlertObserved

\* Mutant: the bridge's own latched fault is forgotten.
CanEnergizeOwnFault(d) ==
  /\ systemReady /\ powerAlertConfigured
  /\ sysState = "Ready" \/ (sysState = "Faulted" /\ mask # {})
  /\ PowerAlert \notin mask
  /\ ~PowerAlertObserved

CanEnergize(d) ==
  /\ systemReady
  /\ powerAlertConfigured
  /\ sysState = "Ready" \/ (sysState = "Faulted" /\ mask # {})
  /\ mask \cap {PowerAlert, d} = {}
  /\ ~PowerAlertObserved

-----------------------------------------------------------------------------
(* Latching, from the ISRs and from the foreground.                         *)

\* recordFault once per line of F, and handlePowerFault's policy when the alert
\* is newly latched.  A line that is already latched changes nothing: neither
\* the epoch nor the report.
LatchFaults(F) ==
  LET new == F \ mask IN
  /\ mask' = mask \cup F
  /\ epoch' = epoch + Cardinality(new)
  /\ reportPending' = (reportPending \/ new # {})
  /\ sysState' = IF new = {} THEN sysState ELSE "Faulted"
  /\ safeStateRequired' = (safeStateRequired \/ PowerAlert \in new)
  /\ faultSafeStateComplete' = (faultSafeStateComplete /\ PowerAlert \notin new)

ResetRelease ==
  /\ releaseTiming' = FALSE
  /\ releaseAge' = 0
  /\ releaseEpoch' = 0

\* resetFaultRecoveryTracking
ResetRecoveryTracking ==
  /\ faultSafeStateComplete' = FALSE
  /\ ResetRelease
  /\ autoPending' = FALSE
  /\ autoEpoch' = 0

-----------------------------------------------------------------------------
(* SafetyManager::process, one step per read of interrupt-shared state.     *)

\* Mutant: the event does not void the recovery tracking.
TakeEventOnly ==
  /\ At("takeEvent")
  /\ sawEvent' = safetyEvent
  /\ safetyEvent' = FALSE
  /\ Goto("cycle")
  /\ UNCHANGED <<low, edges, falls, latchVars, setupVars, releaseVars, autoVars,
                 cycleVars, snapshot, isolated, reportEpoch, clearEpoch,
                 lastReport>>

TakeSafetyEvent ==
  /\ At("takeEvent")
  /\ sawEvent' = safetyEvent
  /\ safetyEvent' = FALSE
  /\ IF safetyEvent THEN ResetRecoveryTracking
     ELSE UNCHANGED <<faultSafeStateComplete, releaseVars, autoVars>>
  /\ Goto("cycle")
  /\ UNCHANGED <<low, edges, falls, mask, epoch, reportPending, sysState,
                 safeStateRequired, setupVars, cycleVars, snapshot, isolated,
                 reportEpoch, clearEpoch, lastReport>>

\* updatePowerAlertCycle on the mask read here; a repeated alert consumes the
\* window and needs an acknowledgement.
UpdatePowerAlertCycle ==
  LET inWindow == windowActive /\ windowAge < RepeatWindow
      alone == mask = {PowerAlert}
      starts == alone /\ ~cycleActive
      ack == \/ starts /\ inWindow
             \/ alone /\ cycleActive /\ sawEvent
             \/ ~alone /\ mask # {}
  IN
  /\ At("cycle")
  /\ isolated' = alone
  /\ cycleActive' = (cycleActive \/ alone)
  /\ requiresAck' = IF starts THEN inWindow ELSE requiresAck \/ ack
  /\ windowActive' = (inWindow /\ ~ack)
  /\ windowAge' = IF inWindow /\ ~ack THEN windowAge ELSE 0
  /\ sawEvent' = FALSE
  /\ Goto("policy")
  /\ UNCHANGED <<lineVars, latchVars, setupVars, releaseVars, autoVars,
                 snapshot, reportEpoch, clearEpoch, lastReport>>

\* updateSafeStatePolicy, hasGlobalFault() branch.
SafeStatePolicyGlobal ==
  /\ At("policy")
  /\ safeStateRequired' =
       (safeStateRequired \/ (HasGlobalFault /\ ~faultSafeStateComplete))
  /\ Goto(IF HasGlobalFault THEN "release" ELSE "policyDriver")
  /\ UNCHANGED <<lineVars, mask, epoch, reportPending, sysState,
                 faultSafeStateComplete, setupVars, releaseVars, autoVars,
                 cycleVars, localVars, lastReport>>

\* updateSafeStatePolicy, hasAnyFault() branch: reached with the earlier answer
\* of hasGlobalFault(), which an interrupt may have made stale.
SafeStatePolicyDriver ==
  /\ At("policyDriver")
  /\ safeStateRequired' = (safeStateRequired /\ ~HasAnyLatchedFault)
  /\ faultSafeStateComplete' = IF HasAnyLatchedFault
                               THEN snapshot.faultedDisabled
                               ELSE faultSafeStateComplete
  /\ Goto("release")
  /\ UNCHANGED <<lineVars, mask, epoch, reportPending, sysState, setupVars,
                 releaseVars, autoVars, cycleVars, localVars, lastReport>>

\* Mutant: every pass restarts the release interval.
RestartRelease ==
  /\ At("release")
  /\ IF snapshot.released /\ snapshot.outputsSafe
     THEN releaseTiming' = TRUE /\ releaseAge' = 0 /\ releaseEpoch' = epoch
     ELSE ResetRelease
  /\ Goto("auto")
  /\ UNCHANGED <<lineVars, latchVars, setupVars, autoVars, cycleVars,
                 localVars, lastReport>>

\* updateFaultReleaseValidation
ValidateRelease ==
  /\ At("release")
  /\ CASE ~(snapshot.released /\ snapshot.outputsSafe) -> ResetRelease
       [] snapshot.released /\ snapshot.outputsSafe /\ ~releaseTiming ->
            /\ releaseTiming' = TRUE
            /\ releaseAge' = 0
            /\ releaseEpoch' = epoch
       [] OTHER -> UNCHANGED releaseVars
  /\ Goto("auto")
  /\ UNCHANGED <<lineVars, latchVars, setupVars, autoVars, cycleVars,
                 localVars, lastReport>>

\* Mutant: a repeated alert is cleared as well.
RequestClearOfAnyAlert ==
  /\ At("auto")
  /\ LET validated == releaseTiming /\ releaseAge = ReleaseValidation
         grant == /\ isolated /\ faultSafeStateComplete
                  /\ validated /\ powerAlertConfigured
     IN /\ autoPending' = (autoPending \/ grant)
        /\ autoEpoch' = IF grant THEN releaseEpoch ELSE autoEpoch
  /\ isolated' = FALSE
  /\ snapshot' = NoSnapshot
  /\ Goto("report")
  /\ UNCHANGED <<lineVars, latchVars, setupVars, releaseVars, cycleVars,
                 sawEvent, reportEpoch, clearEpoch, lastReport>>

\* updateAutomaticClearRequest
RequestAutomaticClear ==
  /\ At("auto")
  /\ LET validated == releaseTiming /\ releaseAge = ReleaseValidation
         grant == /\ isolated /\ ~requiresAck /\ faultSafeStateComplete
                  /\ validated /\ powerAlertConfigured
     IN /\ autoPending' = (autoPending \/ grant)
        /\ autoEpoch' = IF grant THEN releaseEpoch ELSE autoEpoch
  /\ isolated' = FALSE
  /\ snapshot' = NoSnapshot
  /\ Goto("report")
  /\ UNCHANGED <<lineVars, latchVars, setupVars, releaseVars, cycleVars,
                 sawEvent, reportEpoch, clearEpoch, lastReport>>

\* queueFaultReport: the mask and epoch are copied in one critical section; the
\* request queue may have no free slot.
QueueFaultReport ==
  /\ At("report")
  /\ reportPending
  /\ lastReport' = mask
  /\ reportEpoch' = epoch
  /\ Goto("reported")
  /\ UNCHANGED <<lineVars, latchVars, setupVars, releaseVars, autoVars,
                 cycleVars, snapshot, sawEvent, isolated, clearEpoch>>

SkipFaultReport ==
  /\ At("report")
  /\ Goto("safeState")
  /\ UNCHANGED <<lineVars, managerVars>>

\* Mutant: a fault latched while the report was queued is not reported.
ConfirmAnyReport ==
  /\ At("reported")
  /\ reportPending' = FALSE
  /\ reportEpoch' = 0
  /\ Goto("safeState")
  /\ UNCHANGED <<lineVars, mask, epoch, sysState, safeStateRequired,
                 faultSafeStateComplete, setupVars, releaseVars, autoVars,
                 cycleVars, snapshot, sawEvent, isolated, clearEpoch,
                 lastReport>>

\* The report stands for the mask only if nothing was latched meanwhile.
ConfirmFaultReport ==
  /\ At("reported")
  /\ reportPending' = (reportPending /\ epoch # reportEpoch)
  /\ reportEpoch' = 0
  /\ Goto("safeState")
  /\ UNCHANGED <<lineVars, mask, epoch, sysState, safeStateRequired,
                 faultSafeStateComplete, setupVars, releaseVars, autoVars,
                 cycleVars, snapshot, sawEvent, isolated, clearEpoch,
                 lastReport>>

\* reportSafeStateResult(true)
ReportSafeStateResult ==
  /\ At("safeResult")
  /\ safeStateRequired' = FALSE
  /\ faultSafeStateComplete' = TRUE
  /\ sysState' = IF mask # {} THEN "Faulted" ELSE "Safe"
  /\ Goto("takeClear")
  /\ UNCHANGED <<lineVars, mask, epoch, reportPending, setupVars, releaseVars,
                 autoVars, cycleVars, localVars, lastReport>>

\* takeAutomaticFaultClearRequest
TakeAutomaticClear ==
  /\ At("takeClear")
  /\ IF autoPending
     THEN /\ clearEpoch' = autoEpoch
          /\ ResetRecoveryTracking
          /\ Goto("clearHardware")
     ELSE /\ UNCHANGED <<clearEpoch, faultSafeStateComplete, releaseVars,
                         autoVars>>
          /\ Goto("requests")
  /\ UNCHANGED <<lineVars, mask, epoch, reportPending, sysState,
                 safeStateRequired, setupVars, cycleVars, snapshot, sawEvent,
                 isolated, reportEpoch, lastReport>>

\* completeFaultClear(epoch, true, true)
CompleteFaultClear ==
  /\ At("completeClear")
  /\ IF epoch = clearEpoch
     THEN /\ mask' = {}
          /\ reportPending' = FALSE
          /\ safeStateRequired' = FALSE
          /\ faultSafeStateComplete' = FALSE
          /\ cycleActive' = FALSE
          /\ requiresAck' = FALSE
          /\ windowActive' = TRUE
          /\ windowAge' = 0
          /\ sysState' = IF systemReady THEN "Ready" ELSE "Safe"
     ELSE UNCHANGED <<mask, reportPending, safeStateRequired,
                      faultSafeStateComplete, cycleVars, sysState>>
  /\ clearEpoch' = 0
  /\ Goto("requests")
  /\ UNCHANGED <<lineVars, epoch, setupVars, releaseVars, autoVars, snapshot,
                 sawEvent, isolated, reportEpoch, lastReport>>

-----------------------------------------------------------------------------
\* HAL_GetTick advances.  The code keeps the instant an age started at and
\* compares now - since with the bound; that an age stops growing at its bound,
\* where no comparison tells it from a greater one, is a device of the model.
AgesAdvance ==
  /\ releaseAge' = IF releaseTiming /\ releaseAge < ReleaseValidation
                   THEN releaseAge + 1 ELSE releaseAge
  /\ windowAge' = IF windowActive /\ windowAge < RepeatWindow
                  THEN windowAge + 1 ELSE windowAge

\* What BoardApplication::init leaves behind.  safeState ran before the EXTI
\* flags were examined, so an alert asserted or captured at boot is latched on
\* top of a completed safe state.
ManagerInit(alertAtBoot) ==
  /\ mask = IF alertAtBoot THEN {PowerAlert} ELSE {}
  /\ epoch = IF alertAtBoot THEN 1 ELSE 0
  /\ reportPending = alertAtBoot
  /\ systemReady \in BOOLEAN
  /\ powerAlertConfigured \in BOOLEAN
  /\ systemReady => powerAlertConfigured
  /\ sysState = IF alertAtBoot THEN "Faulted"
                ELSE IF systemReady THEN "Ready" ELSE "Safe"
  /\ safeStateRequired = alertAtBoot
  /\ faultSafeStateComplete = ~alertAtBoot
  /\ releaseTiming = FALSE /\ releaseAge = 0 /\ releaseEpoch = 0
  /\ cycleActive = FALSE /\ requiresAck = FALSE
  /\ windowActive = FALSE /\ windowAge = 0
  /\ autoPending = FALSE /\ autoEpoch = 0
  /\ snapshot = NoSnapshot
  /\ sawEvent = FALSE /\ isolated = FALSE
  /\ reportEpoch = 0 /\ clearEpoch = 0
  /\ lastReport = {}
=============================================================================

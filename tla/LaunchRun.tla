------------------------------ MODULE LaunchRun ------------------------------
(***************************************************************************)
(* One launch acquisition: LaunchManager with its AdcSampler, the power     *)
(* monitor it polls and the three timers.  The foreground executes a pass   *)
(* of BoardApplication::process: the safety pass, USB, the manager, the     *)
(* requests.  finishRun is several steps, because the I2C and ADC           *)
(* interrupts still come while it runs.                                     *)
(*                                                                          *)
(* The bridges and the USB frames have modules of their own; here a safety  *)
(* fault and the fate of a transfer are choices of the environment, and     *)
(* whether the verdict is also sent (notifyHost) is left to HostLink.       *)
(***************************************************************************)
EXTENDS PowerMonitor

CONSTANTS
  MaxRuns,    \* bound: StartRun requests served
  MaxTicks    \* bound: power-timer ticks per run

ASSUME RunAssumption == MaxRuns \in Nat \ {0} /\ MaxTicks \in Nat \ {0}

VARIABLES
  pc,          \* what the foreground executes next
  runActive,   \* LaunchManager::_runActive
  sampling,    \* the three timers run
  timeout,     \* _timeoutRequested
  adcOwned,    \* AdcSampler::_activeDmaOwner # nullptr
  adcActive,   \* LaunchManager::_adcActive
  adcEvent,    \* AdcSampler::_sequenceEvent, or the HAL error codes it falls back to
  samples,     \* _data.powerSampleCount
  missed,      \* _missedPowerSamples
  transfer,    \* USBcontroller::_launchTransferState
  commFailure, \* USBcontroller::_communicationFailure
  ending,      \* the arguments of the finishRun in progress, and where it returns
  \* history, read by no action
  runs,        \* runs started
  verdicts,    \* runs finished
  ticks,       \* power-timer interrupts of this run
  busErrors,   \* reads of this run that ended in a bus error
  causes       \* what happened to this run

runVars == <<runActive, sampling, timeout, adcOwned, adcActive, adcEvent,
             samples, missed>>
linkVars == <<transfer, commFailure>>
history == <<runs, verdicts, ticks, busErrors, causes>>
vars == <<powerVars, runVars, linkVars, history, pc, ending>>

Status == {"Success", "TimedOut", "HostAborted", "SafetyFault", "AcquisitionError"}
Causes == {"expired", "converted", "adcError", "busError", "refused",
           "stopFailed", "outputsFailed", "stopped", "aborted", "safety", "hostLost"}
ControlPoints == {"safety", "usb", "launch", "collect", "failure", "verdict",
                  "requests", "reset", "stop", "drain", "lastSample", "abort",
                  "mark", "callAbort", "publish"}
NoEnding == [status |-> "Success", send |-> FALSE, return |-> "safety"]

EndingType ==
  ending \in [status: Status, send: BOOLEAN, return: ControlPoints]

TypeOK ==
  /\ PowerType
  /\ pc \in ControlPoints
  /\ runActive \in BOOLEAN /\ sampling \in BOOLEAN /\ timeout \in BOOLEAN
  /\ adcOwned \in BOOLEAN /\ adcActive \in BOOLEAN
  /\ adcEvent \in {"None", "Complete", "Error"}
  /\ samples \in Nat /\ missed \in Nat
  /\ transfer \in {"Idle", "Sending"}
  /\ commFailure \in BOOLEAN
  /\ EndingType
  /\ runs \in 0 .. MaxRuns /\ verdicts \in Nat
  /\ ticks \in 0 .. MaxTicks /\ busErrors \in Nat
  /\ causes \subseteq Causes

Init ==
  /\ PowerInit
  /\ pc = "safety"
  /\ runActive = FALSE /\ sampling = FALSE /\ timeout = FALSE
  /\ adcOwned = FALSE /\ adcActive = FALSE /\ adcEvent = "None"
  /\ samples = 0 /\ missed = 0
  /\ transfer = "Idle" /\ commFailure = FALSE
  /\ ending = NoEnding
  /\ runs = 0 /\ verdicts = 0 /\ ticks = 0 /\ busErrors = 0 /\ causes = {}

Goto(p) == pc' = p
Happens(c) == causes' = causes \cup {c}

-----------------------------------------------------------------------------
(* Interrupts.                                                              *)

\* The power timer: a sample that cannot be started is counted as missed.
PowerTick ==
  /\ sampling /\ ticks < MaxTicks
  /\ ticks' = ticks + 1
  /\ \/ StartRead /\ UNCHANGED <<missed, causes>>
     \/ StartReadFails /\ missed' = missed + 1 /\ Happens("busError")
     \/ ~CanStartRead /\ missed' = missed + 1 /\ UNCHANGED <<powerVars, causes>>
  /\ UNCHANGED <<pc, runActive, sampling, timeout, adcOwned, adcActive, adcEvent,
                 samples, linkVars, ending, runs, verdicts, busErrors>>

\* Mutant: the handler compares the wrong timer, and the timeout is never requested.
AttemptExpiresUnseen ==
  /\ sampling
  /\ Happens("expired")
  /\ UNCHANGED <<powerVars, pc, runVars, linkVars, ending, runs, verdicts, ticks,
                 busErrors>>

AttemptExpires ==
  /\ sampling
  /\ timeout' = TRUE
  /\ Happens("expired")
  /\ UNCHANGED <<powerVars, pc, runActive, sampling, adcOwned, adcActive,
                 adcEvent, samples, missed, linkVars, ending, runs, verdicts,
                 ticks, busErrors>>

PowerInterrupt ==
  /\ \/ (ReadCompletes \/ AbortCompletes) /\ UNCHANGED <<busErrors, causes>>
     \/ /\ BusFails
        /\ busErrors' = IF cancel THEN busErrors ELSE busErrors + 1
        /\ Happens("busError")
  /\ UNCHANGED <<pc, runVars, linkVars, ending, runs, verdicts, ticks>>

\* The DMA callback ends the last segment, or the ADC or its DMA fails.
AdcInterrupt ==
  /\ adcOwned /\ sampling
  /\ \/ adcEvent' = "Complete" /\ Happens("converted")
     \/ "adc" \in Faults /\ adcEvent' = "Error" /\ Happens("adcError")
  /\ UNCHANGED <<powerVars, pc, runActive, sampling, timeout, adcOwned,
                 adcActive, samples, missed, linkVars, ending, runs, verdicts,
                 ticks, busErrors>>

-----------------------------------------------------------------------------
(* finishRun.                                                               *)

FinishRun(status, send, return) ==
  /\ ending' = [status |-> status, send |-> send, return |-> return]
  /\ Goto("stop")

\* What of the acquisition may refuse to stop: the bridges or the sensors, and the
\* ADC when it was started.
StopFailures ==
  {f \in {"outputsFailed", "stopFailed"} :
     \/ f = "outputsFailed" /\ "outputs" \in Faults
     \/ f = "stopFailed" /\ "stop" \in Faults /\ adcActive /\ adcOwned}

\* An output that stays on changes the verdict; an ADC that will not stop changes it
\* again.
StopStatus(failures) ==
  CASE "stopFailed" \in failures      -> "AcquisitionError"
    [] failures = {"outputsFailed"}   -> "SafetyFault"
    [] failures = {}                  -> ending.status

\* Mutant: the data is sent although the DMA may still write it.
StopVerdictSends(failures) ==
  [status |-> StopStatus(failures), send |-> ending.send, return |-> ending.return]

\* An ADC that will not stop withholds the data.
StopVerdict(failures) ==
  [status |-> StopStatus(failures),
   send |-> ending.send /\ "stopFailed" \notin failures,
   return |-> ending.return]

\* The timers, the bridges and the sensors are off; an ADC that will not stop
\* keeps its DMA owner.  What failed is weighed later, once the run is inactive
\* (line 194): nothing between reads the verdict.
StopAcquisition ==
  /\ pc = "stop"
  /\ sampling' = FALSE
  /\ adcActive' = FALSE
  /\ \E failures \in SUBSET StopFailures :
       /\ ending' = StopVerdict(failures)
       /\ causes' = causes \cup failures
       /\ IF adcActive /\ "stopFailed" \notin failures
            THEN adcOwned' = FALSE /\ adcEvent' = "None"
            ELSE UNCHANGED <<adcOwned, adcEvent>>
  /\ Goto("drain")
  /\ UNCHANGED <<powerVars, runActive, timeout, samples, missed, linkVars, runs,
                 verdicts, ticks, busErrors>>

\* Ina226::process, from the pass or from finishRun.
PollPower(from, to) ==
  /\ pc = from
  /\ ProcessPower
  /\ Goto(to)
  /\ UNCHANGED <<runVars, linkVars, ending, history>>

CollectPowerSample(from, to) ==
  /\ pc = from
  /\ samples' = IF HasMeasurement THEN samples + 1 ELSE samples
  /\ TakeMeasurement
  /\ Goto(to)
  /\ UNCHANGED <<runActive, sampling, timeout, adcOwned, adcActive, adcEvent,
                 missed, linkVars, ending, history>>

StopPower ==
  /\ pc = "abort"
  /\ RequestCancel
  /\ Goto(IF AbortIsPossible THEN "mark" ELSE "publish")
  /\ UNCHANGED <<runVars, linkVars, ending, history>>

AbortPower ==
  /\ \/ pc = "mark" /\ MarkAborting /\ Goto("callAbort")
     \/ pc = "callAbort" /\ CallAbort /\ Goto("publish")
  /\ UNCHANGED <<runVars, linkVars, ending, history>>

Publish ==
  /\ pc = "publish"
  /\ runActive' = FALSE
  /\ timeout' = FALSE
  /\ transfer' = IF ending.send THEN "Sending" ELSE "Idle"
  /\ verdicts' = verdicts + 1
  /\ Goto(ending.return)
  /\ UNCHANGED <<powerVars, sampling, adcOwned, adcActive, adcEvent, samples,
                 missed, commFailure, ending, runs, ticks, busErrors, causes>>

-----------------------------------------------------------------------------
(* The pass.                                                                *)

\* enterSafeState ends an active run.
SafetyPass ==
  /\ pc = "safety"
  /\ \/ Goto("usb") /\ UNCHANGED <<ending, causes>>
     \/ /\ runActive
        /\ FinishRun("SafetyFault", TRUE, "usb")
        /\ Happens("safety")
  /\ UNCHANGED <<powerVars, runVars, linkVars, runs, verdicts, ticks, busErrors>>

\* USBcontroller::process: nothing, the last frame of a transfer, or a failure
\* of the link, which also cancels the transfer unless it is a partial request.
UsbPass ==
  /\ pc = "usb"
  /\ \/ UNCHANGED linkVars
     \/ transfer' = "Idle" /\ UNCHANGED commFailure
     \/ "link" \in Faults /\ commFailure' = TRUE /\ transfer' \in {"Idle", transfer}
  /\ Goto("launch")
  /\ UNCHANGED <<powerVars, runVars, ending, history>>

\* LaunchManager::process after a communication failure.
LoseHost ==
  /\ pc = "launch" /\ commFailure
  /\ commFailure' = FALSE
  /\ \/ runActive /\ FinishRun("HostAborted", FALSE, "reset") /\ Happens("hostLost")
     \/ ~runActive /\ Goto("reset") /\ UNCHANGED <<ending, causes>>
  /\ UNCHANGED <<powerVars, runVars, transfer, runs, verdicts, ticks, busErrors>>

LaunchPass ==
  /\ ~commFailure
  /\ PollPower("launch", IF runActive THEN "collect" ELSE "requests")

FailurePass ==
  /\ pc = "failure"
  /\ TakeFailure
  /\ \/ failure /\ FinishRun("AcquisitionError", TRUE, "requests")
     \/ ~failure /\ Goto("verdict") /\ UNCHANGED ending
  /\ UNCHANGED <<runVars, linkVars, history>>

VerdictPass ==
  /\ pc = "verdict"
  /\ \/ timeout /\ FinishRun("TimedOut", TRUE, "requests") /\ UNCHANGED adcEvent
     \/ /\ ~timeout
        /\ adcEvent' = "None"
        /\ \/ adcEvent = "Complete" /\ FinishRun("TimedOut", TRUE, "requests")
           \/ adcEvent = "Error" /\ FinishRun("AcquisitionError", TRUE, "requests")
           \/ adcEvent = "None" /\ Goto("requests") /\ UNCHANGED ending
  /\ UNCHANGED <<powerVars, runActive, sampling, timeout, adcOwned, adcActive,
                 samples, missed, linkVars, history>>

\* Mutant: a failure latched after the last run ended is taken for one of this run.
KeepOldFailure == UNCHANGED powerVars

\* A failure of the run before is discarded.
DropOldFailure == TakeFailure

RefuseRun ==
  /\ FinishRun("AcquisitionError", FALSE, "requests")
  /\ causes' = {"refused"}

\* The monitor is not ready, or a timer cannot be configured.
RefusePower ==
  /\ ina # "Ready" \/ "timers" \in Faults
  /\ RefuseRun
  /\ UNCHANGED <<powerVars, adcOwned, adcActive, adcEvent, sampling>>

\* The DMA is still owned, or the ADC does not start and gives its ownership back.
RefuseAdc ==
  /\ ina = "Ready"
  /\ DropOldFailure
  /\ \/ adcOwned /\ UNCHANGED adcEvent
     \/ ~adcOwned /\ "adc" \in Faults /\ adcEvent' = "None"
  /\ RefuseRun
  /\ UNCHANGED <<adcOwned, adcActive, sampling>>

\* The ADC is armed; the timers start, or one does not and all are stopped again.
BeginSampling ==
  /\ ina = "Ready" /\ ~adcOwned
  /\ DropOldFailure
  /\ adcOwned' = TRUE /\ adcActive' = TRUE /\ adcEvent' = "None"
  /\ \/ sampling' = TRUE /\ causes' = {} /\ Goto("requests") /\ UNCHANGED ending
     \/ "timers" \in Faults /\ UNCHANGED sampling /\ RefuseRun

\* startRun.  The launch becomes active before its preconditions are checked, and
\* finishRun undoes it when one of them fails.
StartRun ==
  /\ pc = "requests" /\ runs < MaxRuns
  /\ ~runActive /\ transfer = "Idle"
  /\ runs' = runs + 1
  /\ runActive' = TRUE
  /\ samples' = 0 /\ missed' = 0 /\ timeout' = FALSE
  /\ ticks' = 0 /\ busErrors' = 0
  /\ RefusePower \/ RefuseAdc \/ BeginSampling
  /\ UNCHANGED <<linkVars, verdicts>>

\* Mutant: the request does not check that a run is active.
StopRunAnytime ==
  /\ pc = "requests"
  /\ FinishRun("Success", TRUE, "requests")
  /\ Happens("stopped")
  /\ UNCHANGED <<powerVars, runVars, linkVars, runs, verdicts, ticks, busErrors>>

StopRun ==
  /\ pc = "requests" /\ runActive
  /\ FinishRun("Success", TRUE, "requests")
  /\ Happens("stopped")
  /\ UNCHANGED <<powerVars, runVars, linkVars, runs, verdicts, ticks, busErrors>>

AbortRun ==
  /\ pc = "requests" /\ runActive
  /\ FinishRun("HostAborted", FALSE, "requests")
  /\ Happens("aborted")
  /\ UNCHANGED <<powerVars, runVars, linkVars, runs, verdicts, ticks, busErrors>>

EndPass ==
  /\ pc = "requests"
  /\ Goto("safety")
  /\ UNCHANGED <<powerVars, runVars, linkVars, ending, history>>

\* NVIC_SystemReset after a lost host.
SystemReset ==
  /\ pc = "reset"
  /\ ResetPower
  /\ runActive' = FALSE /\ sampling' = FALSE /\ timeout' = FALSE
  /\ adcOwned' = FALSE /\ adcActive' = FALSE /\ adcEvent' = "None"
  /\ samples' = 0 /\ missed' = 0
  /\ transfer' = "Idle" /\ commFailure' = FALSE
  /\ ending' = NoEnding
  /\ Goto("safety")
  /\ UNCHANGED history

-----------------------------------------------------------------------------
Interrupt == PowerTick \/ AttemptExpires \/ PowerInterrupt \/ AdcInterrupt

Foreground ==
  \/ SafetyPass \/ UsbPass \/ LoseHost \/ LaunchPass
  \/ CollectPowerSample("collect", "failure") \/ FailurePass \/ VerdictPass
  \/ StartRun \/ StopRun \/ AbortRun \/ EndPass
  \/ StopAcquisition \/ PollPower("drain", "lastSample")
  \/ CollectPowerSample("lastSample", "abort") \/ StopPower \/ AbortPower
  \/ Publish \/ SystemReset

Next == Interrupt \/ Foreground

Spec == Init /\ [][Next]_vars

\* The main loop never blocks and the attempt timer is a free-running counter.
FairSpec == Spec /\ WF_vars(Foreground) /\ WF_vars(AttemptExpires)

-----------------------------------------------------------------------------
(* Properties.                                                              *)

\* Nothing writes the launch data while it is being transferred: no timer, no
\* ADC DMA, no run (LaunchManager::_data is sent in place, LaunchManager.cpp:208).
PublishedDataIsFrozen ==
  transfer = "Sending" => ~sampling /\ ~adcOwned /\ ~runActive

\* Every StartRun that was accepted gets exactly one verdict, whichever of the
\* host, the timers, the faults and the safety pass ends it first.  A restart
\* comes only after the run that was active has its verdict.
OneVerdictPerRun == runs = verdicts + (IF runActive THEN 1 ELSE 0)

\* Every tick of the power timer is a sample, a missed sample, a bus error or
\* the one read in flight: the sample counts of the launch data add up.
EveryTickIsAccounted ==
  runActive /\ ~cancel =>
    ticks = samples + missed + busErrors
              + (IF HasMeasurement \/ (ReadIsActive /\ i2cState # "Error")
                   THEN 1 ELSE 0)

\* A verdict is caused by something that happened to this run, never by a
\* timeout, a failure or an ADC event left by the one before.
Explains(status) ==
  CASE status = "TimedOut"         -> {"expired", "converted"}
    [] status = "AcquisitionError" -> {"adcError", "busError", "refused", "stopFailed"}
    [] status = "SafetyFault"      -> {"safety", "outputsFailed"}
    [] status = "HostAborted"      -> {"aborted", "hostLost"}
    [] status = "Success"          -> {"stopped"}
VerdictIsCaused == pc = "publish" => causes \cap Explains(ending.status) # {}

\* The timers run only inside a run, and outside finishRun a run samples.
RunsSample ==
  /\ sampling => runActive
  /\ pc \in {"safety", "usb", "launch", "collect", "failure", "verdict", "requests"}
       => runActive = sampling

\* Every run ends: the attempt timer bounds it.
RunEnds == runActive ~> ~runActive

-----------------------------------------------------------------------------
(* What a comment of the code says, and the code does not do.               *)

\* I2cDevice.h:124, of the state isBusy reports: `true` while asynchronous HAL
\* work remains active.
BusyMeansActive ==
  i2cState \in {"Reading", "Aborting"} /\ pc \notin {"mark", "callAbort"}
    => bus # "idle"
=============================================================================

-------------------------- MODULE LaunchRunProofs --------------------------
(***************************************************************************)
(* Proofs about LaunchRun, for any number of runs and ticks and any set of *)
(* faults.                                                                 *)
(***************************************************************************)
EXTENDS LaunchRun, TLAPS

Stopped == pc \in {"drain", "lastSample", "abort", "mark", "callAbort", "publish"}
Finishing == pc = "stop" \/ Stopped

\* finishRun is entered once per run and returns to the pass, or to the reset.
Control ==
  /\ pc \in {"collect", "failure", "verdict"} \/ Finishing => runActive
  /\ Finishing => ending.return \in {"usb", "requests", "reset"}
  /\ pc = "reset" => ~runActive

\* The timers and the DMA run together; a run whose data will be sent has
\* stopped both before it is published.
Acquisition ==
  /\ sampling => adcActive
  /\ Stopped \/ pc = "reset" => ~sampling
  /\ pc = "stop" /\ ending.send => sampling
  /\ Stopped /\ ending.send => ~adcOwned

Inv == TypeOK /\ Control /\ Acquisition
         /\ RunsSample /\ PublishedDataIsFrozen /\ OneVerdictPerRun

-----------------------------------------------------------------------------
(* Typing.                                                                  *)

\* Every operation of the power monitor keeps its types.
LEMMA PowerTyping ==
  ASSUME PowerType
  PROVE  /\ (StartRead => PowerType')
         /\ (StartReadFails => PowerType')
         /\ (ReadCompletes \/ AbortCompletes \/ BusFails => PowerType')
         /\ (ProcessPower => PowerType')
         /\ (TakeMeasurement \/ TakeFailure \/ RequestCancel => PowerType')
         /\ (MarkAborting \/ CallAbort \/ ResetPower => PowerType')
         /\ (UNCHANGED powerVars => PowerType')
<1>1. StartRead \/ StartReadFails => PowerType'
  BY DEF PowerType, StartRead, StartReadFails
<1>2. ReadCompletes \/ AbortCompletes \/ BusFails => PowerType'
  BY DEF PowerType, ReadCompletes, AbortCompletes, BusFails, CompleteTransaction
<1>3. ProcessPower => PowerType'
  BY DEF PowerType, ProcessPower, Discard, powerVars
<1>4. TakeMeasurement \/ TakeFailure \/ RequestCancel => PowerType'
  BY DEF PowerType, TakeMeasurement, TakeFailure, RequestCancel, ReadIsActive
<1>5. MarkAborting \/ CallAbort \/ ResetPower => PowerType'
  BY DEF PowerType, MarkAborting, CallAbort, ResetPower
<1>6. UNCHANGED powerVars => PowerType'
  BY DEF PowerType, powerVars
<1>. QED BY <1>1, <1>2, <1>3, <1>4, <1>5, <1>6

\* The verdict of a run that was stopped, and its type.
LEMMA StopStatusOf ==
  ASSUME NEW failures \in SUBSET StopFailures
  PROVE  \/ failures = {} /\ StopStatus(failures) = ending.status
         \/ "outputsFailed" \in failures /\ StopStatus(failures) = "SafetyFault"
         \/ "stopFailed" \in failures /\ StopStatus(failures) = "AcquisitionError"
<1>1. CASE "stopFailed" \in failures
  BY <1>1 DEF StopStatus
<1>2. CASE failures = {"outputsFailed"}
  BY <1>2 DEF StopStatus
<1>3. CASE failures = {}
  BY <1>3 DEF StopStatus
<1>. QED
  BY <1>1, <1>2, <1>3 DEF StopFailures

\* finishRun is entered with arguments of their types.
LEMMA EndingTyping ==
  ASSUME TypeOK
  PROVE  /\ \A status \in Status, send \in BOOLEAN, return \in ControlPoints :
              FinishRun(status, send, return)
                => EndingType' /\ pc' \in ControlPoints
         /\ UNCHANGED ending => EndingType'
         /\ \A failures \in SUBSET StopFailures :
              ending' = StopVerdict(failures) => EndingType'
<1>1. \A status \in Status, send \in BOOLEAN, return \in ControlPoints :
        FinishRun(status, send, return)
          => EndingType' /\ pc' \in ControlPoints
  BY DEF FinishRun, Goto, ControlPoints, EndingType
<1>2. UNCHANGED ending => EndingType'
  BY DEF TypeOK, EndingType
<1>3. \A failures \in SUBSET StopFailures :
        ending' = StopVerdict(failures) => EndingType'
  BY StopStatusOf DEF TypeOK, EndingType, StopVerdict, Status
<1>. QED
  BY <1>1, <1>2, <1>3

\* An interrupt keeps every type.
LEMMA InterruptTyping == TypeOK /\ Interrupt => TypeOK'
<1>. SUFFICES ASSUME TypeOK, Interrupt PROVE TypeOK'
  OBVIOUS
<1>. USE RunAssumption
<1>1. CASE PowerTick
  <2>1. PowerType'
    BY <1>1, PowerTyping DEF TypeOK, PowerTick
  <2>2. ticks' \in 0 .. MaxTicks
    BY <1>1 DEF TypeOK, PowerTick
  <2>3. missed' \in Nat
    BY <1>1 DEF TypeOK, PowerTick
  <2>4. causes' \subseteq Causes
    BY <1>1 DEF TypeOK, PowerTick, Happens, Causes
  <2>. QED
    BY <1>1, <2>1, <2>2, <2>3, <2>4, EndingTyping
    DEF TypeOK, PowerTick, linkVars
<1>2. CASE AttemptExpires
  BY <1>2, PowerTyping, EndingTyping DEF TypeOK, AttemptExpires, linkVars, Happens, Causes
<1>3. CASE PowerInterrupt
  <2>1. PowerType'
    BY <1>3, PowerTyping DEF TypeOK, PowerInterrupt
  <2>2. busErrors' \in Nat
    BY <1>3 DEF TypeOK, PowerInterrupt
  <2>3. causes' \subseteq Causes
    BY <1>3 DEF TypeOK, PowerInterrupt, Happens, Causes
  <2>. QED
    BY <1>3, <2>1, <2>2, <2>3, EndingTyping DEF TypeOK, PowerInterrupt, linkVars, runVars
<1>4. CASE AdcInterrupt
  BY <1>4, PowerTyping, EndingTyping DEF TypeOK, AdcInterrupt, linkVars, Happens, Causes
<1>. QED BY <1>1, <1>2, <1>3, <1>4 DEF Interrupt

\* A foreground step keeps every type.
LEMMA ForegroundTyping == TypeOK /\ Foreground => TypeOK'
<1>. SUFFICES ASSUME TypeOK, Foreground PROVE TypeOK'
  OBVIOUS
<1>. USE RunAssumption DEF linkVars, runVars, history, Happens
<1>1. CASE SafetyPass
  <2>1. PowerType'
    BY <1>1, PowerTyping DEF TypeOK, SafetyPass
  <2>2. EndingType' /\ pc' \in ControlPoints
    BY <1>1, EndingTyping DEF TypeOK, SafetyPass, Goto, Status, ControlPoints
  <2>3. causes' \subseteq Causes
    BY <1>1 DEF TypeOK, SafetyPass, Causes
  <2>. QED
    BY <1>1, <2>1, <2>2, <2>3 DEF TypeOK, SafetyPass
<1>2. CASE UsbPass
  BY <1>2, PowerTyping, EndingTyping DEF TypeOK, UsbPass, Goto, ControlPoints
<1>3. CASE LoseHost
  <2>1. PowerType'
    BY <1>3, PowerTyping DEF TypeOK, LoseHost
  <2>2. EndingType' /\ pc' \in ControlPoints
    BY <1>3, EndingTyping DEF TypeOK, LoseHost, Goto, Status, ControlPoints
  <2>3. causes' \subseteq Causes
    BY <1>3 DEF TypeOK, LoseHost, Causes
  <2>. QED
    BY <1>3, <2>1, <2>2, <2>3 DEF TypeOK, LoseHost
<1>4. CASE LaunchPass
  BY <1>4, PowerTyping, EndingTyping DEF TypeOK, LaunchPass, PollPower, Goto,
     ControlPoints
<1>5. CASE CollectPowerSample("collect", "failure")
  <2>1. PowerType'
    BY <1>5, PowerTyping DEF TypeOK, CollectPowerSample
  <2>2. samples' \in Nat
    BY <1>5 DEF TypeOK, CollectPowerSample
  <2>. QED
    BY <1>5, <2>1, <2>2, EndingTyping DEF TypeOK, CollectPowerSample, Goto, ControlPoints
<1>6. CASE FailurePass
  <2>1. PowerType'
    BY <1>6, PowerTyping DEF TypeOK, FailurePass
  <2>2. EndingType' /\ pc' \in ControlPoints
    BY <1>6, EndingTyping DEF TypeOK, FailurePass, Goto, Status, ControlPoints
  <2>. QED
    BY <1>6, <2>1, <2>2 DEF TypeOK, FailurePass
<1>7. CASE VerdictPass
  <2>1. PowerType'
    BY <1>7, PowerTyping DEF TypeOK, VerdictPass
  <2>2. EndingType' /\ pc' \in ControlPoints
    BY <1>7, EndingTyping DEF TypeOK, VerdictPass, Goto, Status, ControlPoints
  <2>. QED
    BY <1>7, <2>1, <2>2 DEF TypeOK, VerdictPass
<1>8. CASE StartRun
  <2>1. PowerType'
    BY <1>8, PowerTyping DEF TypeOK, StartRun, RefusePower, RefuseAdc, BeginSampling,
       DropOldFailure
  <2>2. EndingType' /\ pc' \in ControlPoints
    BY <1>8, EndingTyping DEF TypeOK, StartRun, RefusePower, RefuseAdc, BeginSampling,
       RefuseRun, Goto, Status, ControlPoints
  <2>3. causes' \subseteq Causes
    BY <1>8 DEF StartRun, RefusePower, RefuseAdc, BeginSampling, RefuseRun, Causes
  <2>4. /\ adcOwned' \in BOOLEAN /\ adcActive' \in BOOLEAN /\ sampling' \in BOOLEAN
        /\ adcEvent' \in {"None", "Complete", "Error"}
    BY <1>8 DEF TypeOK, StartRun, RefusePower, RefuseAdc, BeginSampling
  <2>5. runs' \in 0 .. MaxRuns /\ ticks' \in 0 .. MaxTicks
    BY <1>8 DEF TypeOK, StartRun
  <2>. QED
    BY <1>8, <2>1, <2>2, <2>3, <2>4, <2>5 DEF TypeOK, StartRun
<1>9. CASE StopRun \/ AbortRun
  <2>1. PowerType'
    BY <1>9, PowerTyping DEF TypeOK, StopRun, AbortRun
  <2>2. EndingType' /\ pc' \in ControlPoints
    BY <1>9, EndingTyping DEF TypeOK, StopRun, AbortRun, Goto, Status, ControlPoints
  <2>3. causes' \subseteq Causes
    BY <1>9 DEF TypeOK, StopRun, AbortRun, Causes
  <2>. QED
    BY <1>9, <2>1, <2>2, <2>3 DEF TypeOK, StopRun, AbortRun
<1>10. CASE EndPass
  BY <1>10, PowerTyping, EndingTyping DEF TypeOK, EndPass, Goto, ControlPoints
<1>11. CASE StopAcquisition
  <2>1. PowerType'
    BY <1>11, PowerTyping DEF TypeOK, StopAcquisition
  <2>2. EndingType'
    BY <1>11, EndingTyping DEF StopAcquisition
  <2>3. causes' \subseteq Causes
    BY <1>11 DEF TypeOK, StopAcquisition, StopFailures, Causes
  <2>. QED
    BY <1>11, <2>1, <2>2, <2>3 DEF TypeOK, StopAcquisition, Goto, ControlPoints
<1>12. CASE PollPower("drain", "lastSample")
  BY <1>12, PowerTyping, EndingTyping DEF TypeOK, PollPower, Goto, ControlPoints
<1>13. CASE CollectPowerSample("lastSample", "abort")
  <2>1. PowerType'
    BY <1>13, PowerTyping DEF TypeOK, CollectPowerSample
  <2>2. samples' \in Nat
    BY <1>13 DEF TypeOK, CollectPowerSample
  <2>. QED
    BY <1>13, <2>1, <2>2, EndingTyping DEF TypeOK, CollectPowerSample, Goto, ControlPoints
<1>14. CASE StopPower
  BY <1>14, PowerTyping, EndingTyping DEF TypeOK, StopPower, Goto, ControlPoints
<1>15. CASE AbortPower
  BY <1>15, PowerTyping, EndingTyping DEF TypeOK, AbortPower, Goto, ControlPoints
<1>16. CASE Publish
  <2>1. PowerType'
    BY <1>16, PowerTyping DEF TypeOK, Publish
  <2>2. EndingType' /\ pc' \in ControlPoints
    BY <1>16, EndingTyping DEF TypeOK, EndingType, Publish, Goto
  <2>3. verdicts' \in Nat
    BY <1>16 DEF TypeOK, Publish
  <2>. QED
    BY <1>16, <2>1, <2>2, <2>3 DEF TypeOK, Publish
<1>17. CASE SystemReset
  <2>1. PowerType'
    BY <1>17, PowerTyping DEF TypeOK, SystemReset
  <2>2. EndingType'
    BY <1>17 DEF SystemReset, EndingType, NoEnding, Status, ControlPoints
  <2>. QED
    BY <1>17, <2>1, <2>2 DEF TypeOK, SystemReset, Goto, ControlPoints
<1>. QED
  BY <1>1, <1>2, <1>3, <1>4, <1>5, <1>6, <1>7, <1>8, <1>9, <1>10, <1>11, <1>12,
     <1>13, <1>14, <1>15, <1>16, <1>17
  DEF Foreground

\* The initial state is well typed.
LEMMA InitTyping == Init => TypeOK
<1>. SUFFICES ASSUME Init PROVE TypeOK
  OBVIOUS
<1>1. PowerType
  BY DEF Init, PowerInit, PowerType
<1>2. EndingType
  BY DEF Init, EndingType, NoEnding, Status, ControlPoints
<1>3. runs \in 0 .. MaxRuns /\ ticks \in 0 .. MaxTicks
  BY RunAssumption DEF Init
<1>4. pc \in ControlPoints /\ causes \subseteq Causes
  BY DEF Init, ControlPoints
<1>. QED
  BY <1>1, <1>2, <1>3, <1>4 DEF Init, TypeOK

\* A stuttering step keeps every type.
LEMMA StutterTyping == TypeOK /\ UNCHANGED vars => TypeOK'
<1>. SUFFICES ASSUME TypeOK, UNCHANGED vars PROVE TypeOK'
  OBVIOUS
<1>1. PowerType'
  BY PowerTyping DEF TypeOK, vars
<1>. QED
  BY <1>1, EndingTyping DEF TypeOK, vars, linkVars, runVars, history

\* Every variable of a launch keeps its type.
THEOREM LaunchTypeCorrect == Spec => []TypeOK
<1>1. TypeOK /\ [Next]_vars => TypeOK'
  BY InterruptTyping, ForegroundTyping, StutterTyping DEF Next
<1>. QED
  BY <1>1, InitTyping, PTL DEF Spec

-----------------------------------------------------------------------------
(* Runs.                                                                    *)

\* The power monitor's variables do not occur in the invariant, nor do those of
\* the link other than the transfer.
LEMMA InterruptKeepsInv == Inv /\ Interrupt => Inv'
<1>. SUFFICES ASSUME Inv, Interrupt PROVE Inv'
  OBVIOUS
<1>1. TypeOK'
  BY InterruptTyping DEF Inv
<1>2. /\ UNCHANGED <<pc, runActive, sampling, adcOwned, adcActive>>
      /\ UNCHANGED <<transfer, ending, runs, verdicts>>
  BY DEF Interrupt, PowerTick, AttemptExpires, PowerInterrupt, AdcInterrupt,
         runVars, linkVars
<1>. QED
  BY <1>1, <1>2
  DEF Inv, Control, Acquisition, RunsSample, PublishedDataIsFrozen,
      OneVerdictPerRun, Finishing, Stopped

\* A step of finishRun keeps the invariant.
LEMMA FinishKeepsInv ==
  ASSUME Inv, TypeOK',
         StopAcquisition \/ PollPower("drain", "lastSample")
           \/ CollectPowerSample("lastSample", "abort") \/ StopPower \/ AbortPower
           \/ Publish \/ SystemReset
  PROVE  Inv'
<1>. USE DEF Inv, Control, Acquisition, RunsSample, PublishedDataIsFrozen,
             OneVerdictPerRun, Finishing, Stopped, Goto, runVars, linkVars, history
<1>1. CASE StopAcquisition
  <2>1. PICK failures \in SUBSET StopFailures :
          /\ ending' = StopVerdict(failures)
          /\ IF adcActive /\ "stopFailed" \notin failures
               THEN adcOwned' = FALSE ELSE adcOwned' = adcOwned
    BY <1>1 DEF StopAcquisition
  <2>2. /\ ending'.send = (ending.send /\ "stopFailed" \notin failures)
        /\ ending'.return = ending.return
    BY <2>1 DEF StopVerdict, TypeOK, EndingType
  <2>3. ending'.send => ~adcOwned'
    BY <1>1, <2>1, <2>2 DEF StopAcquisition
  <2>. QED
    BY <1>1, <2>2, <2>3 DEF StopAcquisition
<1>2. CASE PollPower("drain", "lastSample")
  BY <1>2 DEF PollPower
<1>3. CASE CollectPowerSample("lastSample", "abort")
  BY <1>3 DEF CollectPowerSample
<1>4. CASE StopPower
  BY <1>4 DEF StopPower
<1>5. CASE AbortPower
  BY <1>5 DEF AbortPower
<1>6. CASE Publish
  BY <1>6 DEF Publish, TypeOK
<1>7. CASE SystemReset
  BY <1>7 DEF SystemReset
<1>. QED
  BY <1>1, <1>2, <1>3, <1>4, <1>5, <1>6, <1>7

\* A step of the pass keeps the invariant.
LEMMA PassKeepsInv ==
  ASSUME Inv, TypeOK',
         SafetyPass \/ UsbPass \/ LoseHost \/ LaunchPass
           \/ CollectPowerSample("collect", "failure") \/ FailurePass
           \/ VerdictPass \/ StartRun \/ StopRun \/ AbortRun \/ EndPass
  PROVE  Inv'
<1>. USE DEF Inv, Control, Acquisition, RunsSample, PublishedDataIsFrozen,
             OneVerdictPerRun, Finishing, Stopped, Goto, runVars, linkVars, history,
             FinishRun
<1>1. CASE SafetyPass
  BY <1>1 DEF SafetyPass
<1>2. CASE UsbPass
  BY <1>2 DEF UsbPass
<1>3. CASE LoseHost
  BY <1>3 DEF LoseHost
<1>4. CASE LaunchPass
  BY <1>4 DEF LaunchPass, PollPower
<1>5. CASE CollectPowerSample("collect", "failure")
  BY <1>5 DEF CollectPowerSample
<1>6. CASE FailurePass
  <2>1. runActive /\ sampling
    BY <1>6 DEF FailurePass
  <2>2. CASE failure
    BY <1>6, <2>1, <2>2 DEF FailurePass
  <2>3. CASE ~failure
    BY <1>6, <2>1, <2>3 DEF FailurePass
  <2>. QED
    BY <2>2, <2>3
<1>7. CASE VerdictPass
  <2>1. runActive /\ sampling
    BY <1>7 DEF VerdictPass
  <2>2. CASE pc' = "stop"
    <3>1. ending'.return = "requests"
      BY <1>7, <2>2 DEF VerdictPass
    <3>. QED
      BY <1>7, <2>1, <2>2, <3>1 DEF VerdictPass
  <2>3. CASE pc' = "requests"
    BY <1>7, <2>1, <2>3 DEF VerdictPass
  <2>. QED
    BY <1>7, <2>2, <2>3 DEF VerdictPass
<1>8. CASE StartRun
  <2>1. ~runActive /\ ~sampling
    BY <1>8 DEF StartRun
  <2>2. runs' = verdicts' + 1 /\ runActive' /\ UNCHANGED transfer /\ transfer = "Idle"
    BY <1>8 DEF StartRun, TypeOK
  <2>3. CASE /\ sampling' /\ adcActive'
             /\ pc' = "requests"
    BY <2>2, <2>3
  <2>4. CASE /\ UNCHANGED sampling
             /\ RefuseRun
    <3>1. pc' = "stop" /\ ending'.send = FALSE /\ ending'.return = "requests"
      BY <2>4 DEF RefuseRun
    <3>. QED
      BY <2>1, <2>2, <2>4, <3>1
  <2>. QED
    BY <1>8, <2>3, <2>4 DEF StartRun, RefusePower, RefuseAdc, BeginSampling
<1>9. CASE StopRun \/ AbortRun
  BY <1>9 DEF StopRun, AbortRun
<1>10. CASE EndPass
  BY <1>10 DEF EndPass
<1>. QED
  BY <1>1, <1>2, <1>3, <1>4, <1>5, <1>6, <1>7, <1>8, <1>9, <1>10

\* The invariant holds initially.
LEMMA InitInv == Init => Inv
<1>. SUFFICES ASSUME Init PROVE Inv
  OBVIOUS
<1>1. Control /\ Acquisition /\ RunsSample
  BY DEF Init, Control, Acquisition, RunsSample, Finishing, Stopped
<1>2. PublishedDataIsFrozen /\ OneVerdictPerRun
  BY DEF Init, PublishedDataIsFrozen, OneVerdictPerRun
<1>. QED
  BY <1>1, <1>2, InitTyping DEF Inv

\* A stuttering step keeps the invariant.
LEMMA StutterKeepsInv == Inv /\ UNCHANGED vars => Inv'
BY StutterTyping
DEF vars, runVars, linkVars, history, Inv, Control, Acquisition, RunsSample,
    PublishedDataIsFrozen, OneVerdictPerRun, Finishing, Stopped

\* The invariant is inductive.
LEMMA InvIsInductive == Inv /\ [Next]_vars => Inv'
<1>. SUFFICES ASSUME Inv, [Next]_vars PROVE Inv'
  OBVIOUS
<1>1. CASE Interrupt
  BY <1>1, InterruptKeepsInv
<1>2. CASE Foreground
  <2>1. TypeOK'
    BY <1>2, ForegroundTyping DEF Inv
  <2>. QED
    BY <1>2, <2>1, FinishKeepsInv, PassKeepsInv DEF Foreground
<1>3. CASE UNCHANGED vars
  BY <1>3, StutterKeepsInv
<1>. QED
  BY <1>1, <1>2, <1>3 DEF Next

\* The launch data is never written while it is being transferred.
THEOREM FrozenTheorem == Spec => []PublishedDataIsFrozen
<1>1. Inv => PublishedDataIsFrozen
  BY DEF Inv
<1>. QED
  BY <1>1, InitInv, InvIsInductive, PTL DEF Spec

\* Every run gets exactly one verdict.
THEOREM OneVerdictTheorem == Spec => []OneVerdictPerRun
<1>1. Inv => OneVerdictPerRun
  BY DEF Inv
<1>. QED
  BY <1>1, InitInv, InvIsInductive, PTL DEF Spec

\* The timers run inside a run and nowhere else.
THEOREM RunsSampleTheorem == Spec => []RunsSample
<1>1. Inv => RunsSample
  BY DEF Inv
<1>. QED
  BY <1>1, InitInv, InvIsInductive, PTL DEF Spec

-----------------------------------------------------------------------------
(* A verdict is caused by its own run.                                      *)


\* The states of the transaction, of the bus and of the monitor agree: a
\* transaction that is not idle belongs to a read, and a bus that is active has
\* one.  Only a requested abort is aborted.
PowerInv ==
  /\ i2cState # "Idle" => ina = "ReadingPower"
  /\ bus # "idle" => i2cState \in {"Reading", "Aborting"}
  /\ bus = "aborting" => cancel
  /\ pc \in {"mark", "callAbort"} => ina = "ReadingPower" /\ cancel

\* Whatever a run may end on was left by an interrupt of that run.
CauseInv ==
  sampling =>
    /\ failure => "busError" \in causes
    /\ i2cState = "Error" /\ ~cancel => "busError" \in causes
    /\ timeout => "expired" \in causes
    /\ adcEvent = "Complete" => "converted" \in causes
    /\ adcEvent = "Error" => "adcError" \in causes

\* finishRun is entered with a cause.
Justified == Finishing => causes \cap Explains(ending.status) # {}

VerdictInv == Inv /\ PowerInv /\ CauseInv /\ Justified

-----------------------------------------------------------------------------
\* Each cause is an explanation of the verdict it leads to.
LEMMA Explanations ==
  /\ "expired" \in Explains("TimedOut") /\ "converted" \in Explains("TimedOut")
  /\ {"adcError", "busError", "refused", "stopFailed"} = Explains("AcquisitionError")
  /\ "safety" \in Explains("SafetyFault") /\ "outputsFailed" \in Explains("SafetyFault")
  /\ "aborted" \in Explains("HostAborted") /\ "hostLost" \in Explains("HostAborted")
  /\ "stopped" \in Explains("Success")
BY DEF Explains

\* A bus transfer that the monitor starts, ends or aborts keeps the agreement of
\* the transaction states.
LEMMA PowerAgreement == Inv /\ PowerInv /\ [Next]_vars => PowerInv'
<1>. SUFFICES ASSUME Inv, PowerInv, [Next]_vars PROVE PowerInv'
  OBVIOUS
<1>. USE DEF PowerInv, Goto
<1>1. CASE Interrupt
  <2>1. UNCHANGED pc /\ (pc \in {"mark", "callAbort"} => ~sampling)
    BY <1>1 DEF Interrupt, PowerTick, AttemptExpires, PowerInterrupt, AdcInterrupt,
                Inv, Acquisition, Stopped
  <2>2. CASE PowerTick
    BY <2>1, <2>2 DEF PowerTick, StartRead, StartReadFails, CanStartRead, powerVars
  <2>3. CASE PowerInterrupt
    BY <2>1, <2>3 DEF PowerInterrupt, ReadCompletes, AbortCompletes, BusFails,
                      CompleteTransaction, Inv, TypeOK, PowerType
  <2>4. CASE AttemptExpires \/ AdcInterrupt
    BY <2>1, <2>4 DEF AttemptExpires, AdcInterrupt, powerVars
  <2>. QED
    BY <1>1, <2>2, <2>3, <2>4 DEF Interrupt
<1>2. CASE /\ UNCHANGED powerVars
           /\ pc' \notin {"mark", "callAbort"} \/ UNCHANGED pc
  BY <1>2 DEF powerVars
<1>3. CASE \/ LaunchPass \/ PollPower("drain", "lastSample")
  BY <1>3 DEF LaunchPass, PollPower, ProcessPower, Discard, powerVars,
              Inv, TypeOK, PowerType
<1>4. CASE CollectPowerSample("collect", "failure") \/ CollectPowerSample("lastSample", "abort")
  BY <1>4 DEF CollectPowerSample, TakeMeasurement, HasMeasurement
<1>5. CASE FailurePass
  BY <1>5 DEF FailurePass, TakeFailure, FinishRun
<1>6. CASE StartRun
  BY <1>6 DEF StartRun, RefusePower, RefuseAdc, BeginSampling, DropOldFailure,
              TakeFailure, RefuseRun, FinishRun, powerVars
<1>7. CASE StopPower
  BY <1>7 DEF StopPower, RequestCancel, AbortIsPossible, ReadIsActive, HasMeasurement
<1>8. CASE AbortPower
  BY <1>8 DEF AbortPower, MarkAborting, CallAbort
<1>9. CASE SystemReset
  BY <1>9 DEF SystemReset, ResetPower
<1>10. CASE SafetyPass \/ UsbPass \/ LoseHost \/ VerdictPass \/ StopRun \/ AbortRun
              \/ EndPass \/ StopAcquisition \/ UNCHANGED vars
  BY <1>2, <1>10 DEF SafetyPass, UsbPass, LoseHost, VerdictPass, StopRun, AbortRun,
                     EndPass, StopAcquisition, FinishRun, vars
<1>11. CASE Publish
  BY <1>2, <1>11 DEF Publish, Inv, Control, Finishing, Stopped
<1>. QED
  BY <1>1, <1>3, <1>4, <1>5, <1>6, <1>7, <1>8, <1>9, <1>10, <1>11 DEF Next, Foreground

\* An interrupt that leaves a reason to end the run records its cause.
LEMMA InterruptCauses ==
  ASSUME Inv, PowerInv, CauseInv, Interrupt
  PROVE  CauseInv' /\ causes \subseteq causes'
<1>. USE DEF CauseInv, Happens
<1>1. CASE PowerTick
  BY <1>1 DEF PowerTick, StartRead, StartReadFails, CanStartRead, powerVars, PowerInv
<1>2. CASE AttemptExpires
  BY <1>2 DEF AttemptExpires, powerVars
<1>3. CASE PowerInterrupt
  BY <1>3 DEF PowerInterrupt, ReadCompletes, AbortCompletes, BusFails,
              CompleteTransaction, runVars, PowerInv
<1>4. CASE AdcInterrupt
  BY <1>4 DEF AdcInterrupt, powerVars
<1>. QED
  BY <1>1, <1>2, <1>3, <1>4 DEF Interrupt

\* A foreground step takes a reason, or leaves it with its cause.
LEMMA ForegroundCauses ==
  ASSUME Inv, PowerInv, CauseInv, Foreground
  PROVE  CauseInv' /\ (Finishing \/ ~StartRun => causes \subseteq causes')
<1>. USE DEF CauseInv, Happens, runVars, history
<1>1. CASE StartRun
  BY <1>1 DEF StartRun, RefusePower, RefuseAdc, BeginSampling, DropOldFailure,
              TakeFailure, PowerInv, powerVars, Inv, RunsSample, Finishing, Stopped
<1>2. CASE LaunchPass \/ PollPower("drain", "lastSample")
  BY <1>2 DEF LaunchPass, PollPower, ProcessPower, Discard, powerVars
<1>3. CASE CollectPowerSample("collect", "failure") \/ CollectPowerSample("lastSample", "abort")
  BY <1>3 DEF CollectPowerSample, TakeMeasurement
<1>4. CASE FailurePass
  BY <1>4 DEF FailurePass, TakeFailure
<1>5. CASE VerdictPass
  BY <1>5 DEF VerdictPass, powerVars
<1>6. CASE StopPower \/ AbortPower \/ SystemReset
  BY <1>6 DEF StopPower, AbortPower, SystemReset, RequestCancel, MarkAborting,
              CallAbort, ResetPower, Inv, Acquisition, Stopped
<1>7. CASE StopAcquisition \/ Publish
  BY <1>7 DEF StopAcquisition, Publish, powerVars
<1>8. CASE SafetyPass \/ LoseHost
  <2>1. causes \subseteq causes'
    BY <1>8 DEF SafetyPass, LoseHost
  <2>2. UNCHANGED <<sampling, failure, i2cState, cancel, timeout, adcEvent>>
    BY <1>8 DEF SafetyPass, LoseHost, powerVars
  <2>. QED
    BY <2>1, <2>2
<1>9. CASE StopRun \/ AbortRun
  <2>1. causes \subseteq causes'
    BY <1>9 DEF StopRun, AbortRun
  <2>2. UNCHANGED <<sampling, failure, i2cState, cancel, timeout, adcEvent>>
    BY <1>9 DEF StopRun, AbortRun, powerVars
  <2>. QED
    BY <2>1, <2>2
<1>10. CASE UsbPass \/ EndPass
  BY <1>10 DEF UsbPass, EndPass, powerVars
<1>. QED
  BY <1>1, <1>2, <1>3, <1>4, <1>5, <1>6, <1>7, <1>8, <1>9, <1>10 DEF Foreground

\* finishRun is entered with a cause, and an ADC that will not stop is one.
LEMMA JustifiedKept ==
  ASSUME Inv, PowerInv, CauseInv, Justified, Foreground,
         Finishing \/ ~StartRun => causes \subseteq causes'
  PROVE  Justified'
<1>. USE Explanations DEF Justified, Finishing, Stopped, Goto, Happens, FinishRun
<1>1. CASE SafetyPass
  BY <1>1 DEF SafetyPass
<1>2. CASE LoseHost
  BY <1>2 DEF LoseHost
<1>3. CASE StopRun \/ AbortRun
  BY <1>3 DEF StopRun, AbortRun
<1>4. CASE FailurePass
  <2>1. failure => "busError" \in causes /\ causes' = causes
    BY <1>4 DEF FailurePass, CauseInv, Inv, Control, RunsSample, history
  <2>. QED
    BY <1>4, <2>1 DEF FailurePass
<1>5. CASE VerdictPass
  <2>1. /\ timeout => "expired" \in causes
        /\ adcEvent = "Complete" => "converted" \in causes
        /\ adcEvent = "Error" => "adcError" \in causes
        /\ causes' = causes
    BY <1>5 DEF VerdictPass, CauseInv, Inv, Control, RunsSample, history
  <2>. QED
    BY <1>5, <2>1 DEF VerdictPass
<1>6. CASE StartRun
  BY <1>6 DEF StartRun, RefusePower, RefuseAdc, BeginSampling, RefuseRun
<1>7. CASE StopAcquisition
  <2>1. PICK failures \in SUBSET StopFailures :
          ending' = StopVerdict(failures) /\ causes' = causes \cup failures
    BY <1>7 DEF StopAcquisition
  <2>2. ending'.status = StopStatus(failures)
    BY <2>1 DEF StopVerdict
  <2>3. causes' \cap Explains(ending'.status) # {}
    BY <1>7, <2>1, <2>2, StopStatusOf DEF StopAcquisition
  <2>. QED
    BY <2>3
<1>8. CASE PollPower("drain", "lastSample") \/ CollectPowerSample("lastSample", "abort")
             \/ StopPower \/ AbortPower
  BY <1>8 DEF PollPower, CollectPowerSample, StopPower, AbortPower, history
<1>9. CASE UsbPass \/ LaunchPass \/ CollectPowerSample("collect", "failure")
             \/ EndPass \/ SystemReset
  BY <1>9 DEF UsbPass, LaunchPass, PollPower, CollectPowerSample, EndPass, SystemReset
<1>10. CASE Publish
  BY <1>10 DEF Publish, Inv, Control
<1>. QED
  BY <1>1, <1>2, <1>3, <1>4, <1>5, <1>6, <1>7, <1>8, <1>9, <1>10 DEF Foreground

\* The strengthened invariant is inductive.
LEMMA VerdictInvIsInductive == VerdictInv /\ [Next]_vars => VerdictInv'
<1>. SUFFICES ASSUME VerdictInv, [Next]_vars PROVE VerdictInv'
  OBVIOUS
<1>. USE DEF VerdictInv
<1>1. Inv' /\ PowerInv'
  BY InvIsInductive, PowerAgreement
<1>2. CASE Interrupt
  <2>1. CauseInv' /\ causes \subseteq causes'
    BY <1>2, InterruptCauses
  <2>2. UNCHANGED <<pc, ending>>
    BY <1>2 DEF Interrupt, PowerTick, AttemptExpires, PowerInterrupt, AdcInterrupt
  <2>3. Justified'
    BY <2>1, <2>2 DEF Justified, Finishing, Stopped
  <2>. QED
    BY <1>1, <2>1, <2>3
<1>3. CASE Foreground
  <2>1. CauseInv' /\ (Finishing \/ ~StartRun => causes \subseteq causes')
    BY <1>3, ForegroundCauses
  <2>2. Justified'
    BY <1>3, <2>1, JustifiedKept
  <2>. QED
    BY <1>1, <2>1, <2>2
<1>4. CASE UNCHANGED vars
  BY <1>1, <1>4 DEF vars, powerVars, runVars, history, CauseInv, Justified,
                    Finishing, Stopped
<1>. QED
  BY <1>2, <1>3, <1>4 DEF Next

\* The strengthened invariant holds initially.
LEMMA VerdictInvInit == Init => VerdictInv
BY InitInv DEF Init, PowerInit, VerdictInv, PowerInv, CauseInv, Justified,
               Finishing, Stopped

\* A verdict is caused by something that happened to its own run.
THEOREM VerdictTheorem == Spec => []VerdictIsCaused
<1>1. VerdictInv => VerdictIsCaused
  BY DEF VerdictInv, Justified, Finishing, Stopped, VerdictIsCaused
<1>. QED
  BY <1>1, VerdictInvInit, VerdictInvIsInductive, PTL DEF Spec

-----------------------------------------------------------------------------
(* The sample counts.                                                       *)

\* Nothing was counted yet: a run that was refused.
Uncounted == ticks = 0 /\ samples = 0 /\ missed = 0 /\ busErrors = 0

\* A cancellation is that of the read in flight, and outside a run a read that is
\* left is cancelled.  A run with a cancelled read ends, or was refused for it.
CancelInv ==
  /\ cancel => ina = "ReadingPower"
  /\ bus # "idle" => owner
  /\ sampling => ~cancel
  /\ pc \in {"abort", "mark", "callAbort", "publish"} => ~HasMeasurement
  /\ ~runActive \/ pc \in {"mark", "callAbort", "publish"} => ina = "Ready" \/ cancel
  /\ runActive /\ cancel => pc \in {"mark", "callAbort", "publish"} \/ Uncounted

TickInv == Inv /\ PowerInv /\ CancelInv /\ EveryTickIsAccounted

\* An interrupt counts the tick or the bus error that it is.
LEMMA InterruptCounts ==
  ASSUME TickInv, Interrupt
  PROVE  CancelInv' /\ EveryTickIsAccounted'
<1>. USE DEF TickInv, PowerInv, CancelInv, EveryTickIsAccounted, Uncounted,
             HasMeasurement, ReadIsActive, powerVars, runVars, linkVars
<1>1. /\ ticks \in Nat /\ samples \in Nat /\ missed \in Nat /\ busErrors \in Nat
      /\ PowerType
  BY DEF Inv, TypeOK
<1>2. sampling => runActive /\ pc \notin {"abort", "mark", "callAbort", "publish"}
  BY DEF Inv, RunsSample, Acquisition, Stopped
<1>3. CASE PowerTick
  <2>1. CASE StartRead
    <3>1. /\ ina = "Ready" /\ ina' = "ReadingPower" /\ i2cState' = "Reading"
          /\ ~cancel /\ ~cancel' /\ owner'
          /\ sampling /\ runActive /\ UNCHANGED <<pc, runActive, sampling>>
          /\ ticks' = ticks + 1 /\ UNCHANGED <<samples, busErrors>>
      BY <1>1, <1>2, <1>3, <2>1 DEF PowerTick, StartRead, CanStartRead
    <3>2. UNCHANGED missed
      BY <1>3, <2>1 DEF PowerTick, StartRead, StartReadFails
    <3>3. EveryTickIsAccounted'
      BY <1>1, <3>1, <3>2
    <3>4. CancelInv'
      BY <1>2, <3>1
    <3>. QED
      BY <3>3, <3>4
  <2>2. CASE StartReadFails /\ missed' = missed + 1
    BY <1>1, <1>2, <1>3, <2>2 DEF PowerTick, StartReadFails, CanStartRead
  <2>3. CASE missed' = missed + 1 /\ UNCHANGED powerVars
    BY <1>1, <1>2, <1>3, <2>3 DEF PowerTick
  <2>. QED
    BY <1>3, <2>1, <2>2, <2>3 DEF PowerTick
<1>4. CASE AttemptExpires \/ AdcInterrupt
  BY <1>1, <1>4 DEF AttemptExpires, AdcInterrupt
<1>5. CASE PowerInterrupt
  <2>1. UNCHANGED <<pc, ina, cancel, runActive, sampling, ticks, samples, missed>>
    BY <1>5 DEF PowerInterrupt, ReadCompletes, AbortCompletes, BusFails,
                CompleteTransaction
  <2>2. CASE ReadCompletes
    BY <1>1, <1>5, <2>1, <2>2 DEF PowerInterrupt, ReadCompletes, BusFails,
                                  CompleteTransaction
  <2>3. CASE AbortCompletes
    BY <1>1, <1>5, <2>1, <2>3 DEF PowerInterrupt, AbortCompletes, BusFails,
                                  CompleteTransaction
  <2>4. CASE BusFails /\ busErrors' = IF cancel THEN busErrors ELSE busErrors + 1
    BY <1>1, <1>5, <2>1, <2>4 DEF BusFails, CompleteTransaction
  <2>. QED
    BY <1>5, <2>2, <2>3, <2>4 DEF PowerInterrupt
<1>. QED
  BY <1>3, <1>4, <1>5 DEF Interrupt

\* A foreground step moves a tick from the read in flight to the samples or the
\* bus errors, and starts the counts of a run at zero.
LEMMA ForegroundCounts ==
  ASSUME TickInv, Foreground
  PROVE  CancelInv' /\ EveryTickIsAccounted'
<1>. USE DEF TickInv, PowerInv, CancelInv, EveryTickIsAccounted, Uncounted,
             HasMeasurement, ReadIsActive, powerVars, runVars, linkVars, history, Goto
<1>1. /\ ticks \in Nat /\ samples \in Nat /\ missed \in Nat /\ busErrors \in Nat
      /\ PowerType
  BY DEF Inv, TypeOK
<1>2. CASE StartRun
  BY <1>1, <1>2 DEF StartRun, RefusePower, RefuseAdc, BeginSampling, DropOldFailure,
                    TakeFailure, RefuseRun, FinishRun, Inv, RunsSample
<1>3. CASE \/ LaunchPass \/ PollPower("drain", "lastSample")
  <2>1. /\ ProcessPower /\ pc \in {"launch", "drain"}
        /\ pc' \in {"collect", "requests", "lastSample"}
        /\ UNCHANGED <<runActive, sampling, ticks, samples, missed, busErrors>>
    BY <1>3 DEF LaunchPass, PollPower
  <2>2. CASE i2cState = "Error"
    BY <1>1, <2>1, <2>2 DEF ProcessPower, Discard
  <2>3. CASE i2cState = "ReadComplete" /\ ina = "ReadingPower"
    BY <1>1, <2>1, <2>3 DEF ProcessPower, Discard
  <2>4. CASE UNCHANGED powerVars
    BY <1>1, <2>1, <2>4
  <2>. QED
    BY <2>1, <2>2, <2>3, <2>4 DEF ProcessPower
<1>4. CASE \/ CollectPowerSample("collect", "failure")
           \/ CollectPowerSample("lastSample", "abort")
  <2>1. /\ TakeMeasurement /\ pc \in {"collect", "lastSample"}
        /\ pc' \in {"failure", "abort"}
        /\ samples' = IF HasMeasurement THEN samples + 1 ELSE samples
        /\ UNCHANGED <<runActive, sampling, ticks, missed, busErrors>>
    BY <1>4 DEF CollectPowerSample
  <2>. QED
    BY <1>1, <2>1 DEF TakeMeasurement
<1>5. CASE StopPower
  <2>1. /\ pc = "abort" /\ pc' \in {"mark", "publish"} /\ runActive /\ ~sampling
        /\ ina \in {"Ready", "ReadingPower"} /\ UNCHANGED <<ina, owner, bus, i2cState>>
        /\ cancel' = (cancel \/ ina = "ReadingPower")
        /\ UNCHANGED <<runActive, sampling, ticks, samples, missed, busErrors>>
    BY <1>1, <1>5 DEF StopPower, RequestCancel, Inv, Control, Acquisition, Finishing,
                      Stopped, PowerType
  <2>2. CASE ina = "Ready"
    BY <1>1, <2>1, <2>2
  <2>3. CASE ina = "ReadingPower"
    BY <2>1, <2>3
  <2>. QED
    BY <2>1, <2>2, <2>3
<1>6. CASE AbortPower
  BY <1>1, <1>6 DEF AbortPower, MarkAborting, CallAbort
<1>7. CASE Publish
  <2>1. pc' \in {"usb", "requests", "reset"} /\ ~runActive'
    BY <1>7 DEF Publish, Inv, Control, Finishing, Stopped
  <2>. QED
    BY <1>1, <1>7, <2>1 DEF Publish
<1>8. CASE SystemReset
  BY <1>8 DEF SystemReset, ResetPower
<1>9. CASE FailurePass
  BY <1>1, <1>9 DEF FailurePass, TakeFailure, FinishRun
<1>10. CASE StopAcquisition
  BY <1>1, <1>10 DEF StopAcquisition
<1>11. CASE \/ SafetyPass \/ UsbPass \/ LoseHost \/ VerdictPass \/ StopRun \/ AbortRun
            \/ EndPass
  <2>1. /\ UNCHANGED <<powerVars, runActive, sampling, ticks, samples, missed, busErrors>>
        /\ pc \notin {"mark", "callAbort", "publish"}
        /\ pc' \notin {"abort", "mark", "callAbort", "publish"}
    BY <1>11 DEF SafetyPass, UsbPass, LoseHost, VerdictPass, StopRun, AbortRun, EndPass,
                 FinishRun
  <2>. QED
    BY <1>1, <2>1
<1>. QED
  BY <1>2, <1>3, <1>4, <1>5, <1>6, <1>7, <1>8, <1>9, <1>10, <1>11 DEF Foreground

\* The counts are inductive.
LEMMA TickInvIsInductive == TickInv /\ [Next]_vars => TickInv'
<1>. SUFFICES ASSUME TickInv, [Next]_vars PROVE TickInv'
  OBVIOUS
<1>1. Inv' /\ PowerInv'
  BY InvIsInductive, PowerAgreement DEF TickInv
<1>2. CASE Interrupt \/ Foreground
  BY <1>1, <1>2, InterruptCounts, ForegroundCounts DEF TickInv
<1>3. CASE UNCHANGED vars
  BY <1>1, <1>3 DEF vars, powerVars, runVars, history, TickInv, CancelInv, Uncounted,
                    EveryTickIsAccounted, HasMeasurement, ReadIsActive
<1>. QED
  BY <1>2, <1>3 DEF Next

\* Every tick of the power timer is a sample, a missed sample, a bus error or the
\* read in flight, over runs that end during a read and runs that are refused.
THEOREM TicksTheorem == Spec => []EveryTickIsAccounted
<1>1. Init => TickInv
  BY InitInv DEF Init, PowerInit, TickInv, PowerInv, CancelInv, EveryTickIsAccounted,
                 HasMeasurement
<1>2. TickInv => EveryTickIsAccounted
  BY DEF TickInv
<1>. QED
  BY <1>1, <1>2, TickInvIsInductive, PTL DEF Spec
=============================================================================

--------------------------- MODULE InterlockProofs ---------------------------
(***************************************************************************)
(* BoardSafety implements Interlock, and what the handlers can do between   *)
(* a check of the foreground and the step that relies on it: the clear of   *)
(* the fault mask, the fault report and the change of PMODE.  Then the VREF *)
(* outputs of the bridges: a driving bridge is regulated at its threshold,  *)
(* and a bridge that fell asleep with VREF applied is going to be zeroed.   *)
(***************************************************************************)
EXTENDS BoardSafetyProofs

USE LinesAssumption, IntervalAssumption, CurrentsAssumption

USE DEF vars, lineVars, managerVars, latchVars, setupVars, releaseVars,
        autoVars, cycleVars, localVars, coilVars, driverVars, controlVars,
        commandVars, keepManager, keepSafety, Goto

-----------------------------------------------------------------------------
(* The steps as the safety manager sees them.                               *)

\* Control points at which the manager has nothing in progress.
BridgePoints ==
  {"sample", "readShutdowns", "isolate", "clearShutdowns", "snapshotDrivers",
   "requests", "energize", "verify", "enableFailed", "resample", "recheck",
   "coast", "raise", "wake", "wakeDelay", "qualify", "qualify2", "pmodeDelay"}

\* A step that may latch faults: a noted epoch that is still current stands for
\* the mask it was noted with.
LatchStep ==
  /\ UNCHANGED keepManager
  /\ pc' = pc \/ (pc \in BridgePoints /\ pc' \in BridgePoints)
  /\ epoch' \in Nat /\ epoch <= epoch'
  /\ mask \subseteq mask'
  /\ mask' # mask => epoch < epoch' /\ reportPending'
  /\ mask' = mask => UNCHANGED latchVars

\* A step that does not concern the manager.
QuietStep ==
  /\ UNCHANGED managerVars
  /\ \/ pc' = pc
     \/ pc \in BridgePoints /\ pc' \in BridgePoints
     \/ pc = "safeState" /\ pc' \in {"safeResult", "takeClear"}

\* recordFault advances the epoch with every line it adds to the mask.
LEMMA LatchAdvancesEpoch ==
  ASSUME TypeOK, NEW F \in SUBSET Lines, LatchFaults(F), UNCHANGED keepManager,
         pc' = pc \/ (pc \in BridgePoints /\ pc' \in BridgePoints)
  PROVE  LatchStep
<1>1. Cardinality(F \ mask) \in Nat
  BY NewLinesAreCounted
<1>2. epoch \in Nat /\ epoch' = epoch + Cardinality(F \ mask)
  BY DEF TypeOK, ManagerType, LatchType, Epochs, LatchFaults
<1>3. mask' = mask \cup F
  BY DEF LatchFaults
<1>4. ASSUME mask' # mask PROVE Cardinality(F \ mask) # 0 /\ reportPending'
  <2>1. F \ mask # {}
    BY <1>3, <1>4
  <2>2. IsFiniteSet(Lines)
    BY FS_AddElement DEF Lines
  <2>3. IsFiniteSet(F \ mask)
    BY <2>2, FS_Subset
  <2>4. QED
    BY <2>1, <2>3, FS_EmptySet DEF LatchFaults
<1>5. ASSUME mask' = mask PROVE UNCHANGED latchVars
  <2>1. F \ mask = {}
    BY <1>3, <1>5
  <2>2. epoch' = epoch
    BY <1>2, <2>1, FS_EmptySet
  <2>3. QED
    BY <1>5, <2>1, <2>2 DEF LatchFaults, TypeOK, ManagerType, LatchType
<1>6. QED
  BY <1>1, <1>2, <1>3, <1>4, <1>5 DEF LatchStep

\* Leaving the latch alone is a latching step, too.
LEMMA KeepIsLatch ==
  ASSUME TypeOK, UNCHANGED latchVars, UNCHANGED keepManager,
         pc' = pc \/ (pc \in BridgePoints /\ pc' \in BridgePoints)
  PROVE  LatchStep
BY DEF LatchStep, TypeOK, ManagerType, LatchType, Epochs

\* A step of the board, classified by what it means to the manager.
ManagerView ==
  \/ LatchStep
  \/ QuietStep
  \/ ManagerStep
  \/ SnapshotDrivers
  \/ SnapshotPins
  \/ ClearFaultHardware
  \/ ConfirmHardwareClear
  \/ Tick

\* Faults are latched by five steps; the commands and the servicing of the
\* shutdown requests do not touch the manager.
LEMMA ViewStep ==
  ASSUME TypeOK, [Next]_vars
  PROVE  ManagerView
<1> USE DEF ManagerView, QuietStep, BridgePoints, At
<1>1. CASE \E l \in Lines : Environment(l)
  BY <1>1 DEF Environment, PinFalls, PinRises
<1>2. CASE \E d \in Drivers : DriverFaultIsr(d)
  <2>1. UNCHANGED latchVars \/ \E F \in SUBSET Lines : LatchFaults(F)
    BY <1>2 DEF DriverFaultIsr, Lines
  <2>2. UNCHANGED keepManager
    BY <1>2 DEF DriverFaultIsr
  <2>3. pc' = pc \/ (pc \in BridgePoints /\ pc' \in BridgePoints)
    BY <1>2 DEF DriverFaultIsr, At
  <2>4. QED
    BY <2>1, <2>2, <2>3, LatchAdvancesEpoch, KeepIsLatch
<1>3. CASE PowerAlertIsr
  <2>1. UNCHANGED latchVars \/ \E F \in SUBSET Lines : LatchFaults(F)
    BY <1>3 DEF PowerAlertIsr, Lines
  <2>2. UNCHANGED keepManager
    BY <1>3 DEF PowerAlertIsr
  <2>3. pc' = pc \/ (pc \in BridgePoints /\ pc' \in BridgePoints)
    BY <1>3 DEF PowerAlertIsr, At
  <2>4. QED
    BY <2>1, <2>2, <2>3, LatchAdvancesEpoch, KeepIsLatch
<1>4. CASE SampleAndLatchFaultInputs("sample", "readShutdowns")
  <2>1. UNCHANGED latchVars \/ \E F \in SUBSET Lines : LatchFaults(F)
    BY <1>4 DEF SampleAndLatchFaultInputs, Lines
  <2>2. UNCHANGED keepManager
    BY <1>4 DEF SampleAndLatchFaultInputs
  <2>3. pc' = pc \/ (pc \in BridgePoints /\ pc' \in BridgePoints)
    BY <1>4 DEF SampleAndLatchFaultInputs, At
  <2>4. QED
    BY <2>1, <2>2, <2>3, LatchAdvancesEpoch, KeepIsLatch
<1>5. CASE ReadShutdowns
  BY <1>5 DEF ReadShutdowns
<1>6. CASE IsolateDrivers
  BY <1>6 DEF IsolateDrivers, Sleep
<1>7. CASE ClearShutdowns
  BY <1>7 DEF ClearShutdowns
<1>8. CASE SnapshotDrivers
  BY <1>8
<1>9. CASE SnapshotPins
  BY <1>9
<1>10. CASE ManagerStep /\ UNCHANGED coilVars
  BY <1>10
<1>11. CASE EnterSafeState
  BY <1>11 DEF EnterSafeState, DisableAll, Sleep
<1>12. CASE ClearFaultHardware
  BY <1>12
<1>13. CASE ConfirmHardwareClear
  BY <1>13
<1>14. CASE \E d \in Drivers : Energize(d)
  BY <1>14 DEF Energize, Enter
<1>15. CASE \E d \in Drivers : VerifyEnabled(d)
  <2>1. UNCHANGED latchVars \/ \E F \in SUBSET Lines : LatchFaults(F)
    BY <1>15 DEF VerifyEnabled, Lines
  <2>2. UNCHANGED keepManager
    BY <1>15 DEF VerifyEnabled
  <2>3. pc' = pc \/ (pc \in BridgePoints /\ pc' \in BridgePoints)
    BY <1>15 DEF VerifyEnabled, At
  <2>4. QED
    BY <2>1, <2>2, <2>3, LatchAdvancesEpoch, KeepIsLatch
<1>16. CASE \E d \in Drivers : Coast(d)
  BY <1>16 DEF Coast, DisableAll, Sleep, CommandDone
<1>17. CASE \E d \in Drivers : RaiseAfterCoast(d)
  BY <1>17 DEF RaiseAfterCoast, Enter, CommandDone
<1>18. CASE \E d \in Drivers : BeginDriverWake(d)
  BY <1>18 DEF BeginDriverWake, Enter, CommandDone
<1>19. CASE \E d \in Drivers : EndDriverWakeDelay(d)
  BY <1>19 DEF EndDriverWakeDelay
<1>20. CASE \E d \in Drivers : ReadWakeInputs(d)
  BY <1>20 DEF ReadWakeInputs
<1>21. CASE \E d \in Drivers : CompleteDriverWake(d)
  <2>1. UNCHANGED latchVars \/ \E F \in SUBSET Lines : LatchFaults(F)
    BY <1>21 DEF CompleteDriverWake, Lines
  <2>2. UNCHANGED keepManager
    BY <1>21 DEF CompleteDriverWake
  <2>3. pc' = pc \/ (pc \in BridgePoints /\ pc' \in BridgePoints)
    BY <1>21 DEF CompleteDriverWake, At, CommandDone
  <2>4. QED
    BY <2>1, <2>2, <2>3, LatchAdvancesEpoch, KeepIsLatch
<1>22. CASE IsolateFailedEnable
  BY <1>22 DEF IsolateFailedEnable, DisableAll, Sleep, CommandDone
<1>23. CASE SampleAndLatchFaultInputs("resample", "recheck")
  <2>1. UNCHANGED latchVars \/ \E F \in SUBSET Lines : LatchFaults(F)
    BY <1>23 DEF SampleAndLatchFaultInputs, Lines
  <2>2. UNCHANGED keepManager
    BY <1>23 DEF SampleAndLatchFaultInputs
  <2>3. pc' = pc \/ (pc \in BridgePoints /\ pc' \in BridgePoints)
    BY <1>23 DEF SampleAndLatchFaultInputs, At
  <2>4. QED
    BY <2>1, <2>2, <2>3, LatchAdvancesEpoch, KeepIsLatch
<1>24. CASE RecheckAfterEnable
  BY <1>24 DEF RecheckAfterEnable, DisableAll, Sleep, CommandDone
<1>25. CASE WritePmode
  BY <1>25 DEF WritePmode
<1>26. CASE HostCommand
  <2>1. CASE \E d \in Drivers, dir \in Directions : DriveOne(d, dir)
    BY <2>1 DEF Accept, DriveOne
  <2>2. CASE \E dir \in Directions : DriveAll(dir)
    BY <2>2 DEF Accept, DriveAll, DisableAll, Sleep, CommandDone
  <2>3. CASE \E d \in Drivers : CoilOff("CoilOff", {d})
    BY <2>3 DEF Accept, CoilOff
  <2>4. CASE CoilOff("CoilOffAll", Drivers)
    BY <2>4 DEF Accept, CoilOff
  <2>5. CASE \E d \in Drivers : SleepOne(d)
    BY <2>5 DEF Accept, SleepOne, Sleep, CommandDone
  <2>6. CASE SleepAll
    BY <2>6 DEF Accept, SleepAll, DisableAll, Sleep, CommandDone
  <2>7. CASE \E d \in Drivers : Wake("Wake", {d})
    BY <2>7 DEF Accept, Wake
  <2>8. CASE Wake("WakeAll", Drivers)
    BY <2>8 DEF Accept, Wake
  <2>9. CASE \E d \in Drivers, c \in Currents : SetCurrent(d, c)
    BY <2>9 DEF Accept, SetCurrent
  <2>10. CASE \E c \in Currents : SetCurrentAll(c)
    BY <2>10 DEF Accept, SetCurrentAll
  <2>11. CASE BeginSetPmode
    BY <2>11 DEF Accept, BeginSetPmode
  <2>12. QED
    BY <1>26, <2>1, <2>2, <2>3, <2>4, <2>5, <2>6, <2>7, <2>8, <2>9,
       <2>10, <2>11 DEF HostCommand
<1>27. CASE EndPass
  BY <1>27 DEF EndPass
<1>28. CASE Tick
  BY <1>28
<1>29. CASE UNCHANGED vars
  BY <1>29
<1>30. QED
  BY <1>1, <1>2, <1>3, <1>4, <1>5, <1>6, <1>7, <1>8, <1>9, <1>10, <1>11,
     <1>12, <1>13, <1>14, <1>15, <1>16, <1>17, <1>18, <1>19, <1>20, <1>21,
     <1>22, <1>23, <1>24, <1>25, <1>26, <1>27, <1>28, <1>29 DEF Next,
     Interrupts, SafetyPass, CommandStep, ManagerStep

-----------------------------------------------------------------------------
(* The fault report.                                                        *)

\* A report under way keeps telling the mask of the epoch it notes, and one that
\* was confirmed the current mask.
LEMMA ReportStep ==
  ASSUME TypeOK, ReportIsOfItsEpoch, ReportIsCurrent, [Next]_vars
  PROVE  (ReportIsOfItsEpoch /\ ReportIsCurrent)'
<1> USE DEF ReportIsOfItsEpoch, ReportIsCurrent, BridgePoints, TypeOK,
       ManagerType, LatchType, LocalType, Epochs, At
<1>1. CASE LatchStep
  BY <1>1 DEF LatchStep
<1>2. CASE QuietStep
  BY <1>2 DEF QuietStep
<1>3. CASE TakeSafetyEvent
  BY <1>3 DEF TakeSafetyEvent
<1>4. CASE UpdatePowerAlertCycle
  BY <1>4 DEF UpdatePowerAlertCycle
<1>5. CASE SafeStatePolicyGlobal
  BY <1>5 DEF SafeStatePolicyGlobal
<1>6. CASE SafeStatePolicyDriver
  BY <1>6 DEF SafeStatePolicyDriver
<1>7. CASE ValidateRelease
  BY <1>7 DEF ValidateRelease
<1>8. CASE RequestAutomaticClear
  BY <1>8 DEF RequestAutomaticClear
<1>9. CASE QueueFaultReport
  BY <1>9 DEF QueueFaultReport
<1>10. CASE SkipFaultReport
  BY <1>10 DEF SkipFaultReport
<1>11. CASE ConfirmFaultReport
  BY <1>11 DEF ConfirmFaultReport
<1>12. CASE ReportSafeStateResult
  BY <1>12 DEF ReportSafeStateResult
<1>13. CASE TakeAutomaticClear
  BY <1>13 DEF TakeAutomaticClear
<1>14. CASE CompleteFaultClear
  BY <1>14 DEF CompleteFaultClear
<1>15. CASE SnapshotDrivers
  BY <1>15 DEF SnapshotDrivers
<1>16. CASE SnapshotPins
  BY <1>16 DEF SnapshotPins
<1>17. CASE ClearFaultHardware
  BY <1>17 DEF ClearFaultHardware
<1>18. CASE ConfirmHardwareClear
  BY <1>18 DEF ConfirmHardwareClear
<1>19. CASE Tick
  BY <1>19 DEF Tick, AgesAdvance
<1>20. QED
  BY ViewStep, <1>1, <1>2, <1>3, <1>4, <1>5, <1>6, <1>7, <1>8, <1>9, <1>10,
     <1>11, <1>12, <1>13, <1>14, <1>15, <1>16, <1>17, <1>18, <1>19 DEF
     ManagerView, ManagerStep

\* No fault latched while a report was being queued is left untold: when no
\* report is pending, the last one named the whole mask.
THEOREM ReportTheorem == Spec => []ReportIsCurrent
<1> DEFINE IInv == ReportIsOfItsEpoch /\ ReportIsCurrent
<1>1. Init => IInv
  BY DEF Init, ManagerInit, ReportIsOfItsEpoch, ReportIsCurrent
<1>2. TypeOK /\ IInv /\ [Next]_vars => IInv'
  BY ReportStep
<1>3. IInv => ReportIsCurrent
  OBVIOUS
<1>4. QED
  BY <1>1, <1>2, <1>3, TypeCorrect, PTL DEF Spec

-----------------------------------------------------------------------------
(* What a powered-down stage keeps.                                         *)

\* A bridge asleep keeps its nSLEEP output low.
LEMMA SleepIsLowStep ==
  ASSUME TypeOK, SleepIsLow, [Next]_vars
  PROVE  SleepIsLow'
<1> USE DEF SleepIsLow, TypeOK, DriverType, ControlType, At, Directions,
       States
<1>1. CASE \E l \in Lines : Environment(l)
  BY <1>1 DEF Environment, PinFalls, PinRises
<1>2. CASE \E d \in Drivers : DriverFaultIsr(d)
  BY <1>2 DEF DriverFaultIsr, AcceptEdge
<1>3. CASE PowerAlertIsr
  BY <1>3 DEF PowerAlertIsr, AcceptEdge
<1>4. CASE SampleAndLatchFaultInputs("sample", "readShutdowns")
  BY <1>4 DEF SampleAndLatchFaultInputs
<1>5. CASE ReadShutdowns
  BY <1>5 DEF ReadShutdowns
<1>6. CASE IsolateDrivers
  BY <1>6 DEF IsolateDrivers, Sleep
<1>7. CASE ClearShutdowns
  BY <1>7 DEF ClearShutdowns
<1>8. CASE SnapshotDrivers
  BY <1>8 DEF SnapshotDrivers
<1>9. CASE SnapshotPins
  BY <1>9 DEF SnapshotPins
<1>10. CASE ManagerStep /\ UNCHANGED coilVars
  BY <1>10 DEF ManagerStep, TakeSafetyEvent, UpdatePowerAlertCycle,
     SafeStatePolicyGlobal, SafeStatePolicyDriver, ValidateRelease,
     RequestAutomaticClear, QueueFaultReport, SkipFaultReport,
     ConfirmFaultReport, ReportSafeStateResult, TakeAutomaticClear,
     CompleteFaultClear
<1>11. CASE EnterSafeState
  BY <1>11 DEF EnterSafeState, DisableAll, Sleep
<1>12. CASE ClearFaultHardware
  BY <1>12 DEF ClearFaultHardware
<1>13. CASE ConfirmHardwareClear
  BY <1>13 DEF ConfirmHardwareClear
<1>14. CASE \E d \in Drivers : Energize(d)
  BY <1>14 DEF Energize, Enter
<1>15. CASE \E d \in Drivers : VerifyEnabled(d)
  BY <1>15 DEF VerifyEnabled
<1>16. CASE \E d \in Drivers : Coast(d)
  BY <1>16 DEF Coast, DisableAll, Sleep, CommandDone
<1>17. CASE \E d \in Drivers : RaiseAfterCoast(d)
  BY <1>17 DEF RaiseAfterCoast, Enter, CommandDone
<1>18. CASE \E d \in Drivers : BeginDriverWake(d)
  BY <1>18 DEF BeginDriverWake, Enter, CommandDone
<1>19. CASE \E d \in Drivers : EndDriverWakeDelay(d)
  BY <1>19 DEF EndDriverWakeDelay
<1>20. CASE \E d \in Drivers : ReadWakeInputs(d)
  BY <1>20 DEF ReadWakeInputs
<1>21. CASE \E d \in Drivers : CompleteDriverWake(d)
  BY <1>21 DEF CompleteDriverWake, CommandDone
<1>22. CASE IsolateFailedEnable
  BY <1>22 DEF IsolateFailedEnable, DisableAll, Sleep, CommandDone
<1>23. CASE SampleAndLatchFaultInputs("resample", "recheck")
  BY <1>23 DEF SampleAndLatchFaultInputs
<1>24. CASE RecheckAfterEnable
  BY <1>24 DEF RecheckAfterEnable, DisableAll, Sleep, CommandDone
<1>25. CASE WritePmode
  BY <1>25 DEF WritePmode
<1>26. CASE HostCommand
  <2>1. CASE \E d \in Drivers, dir \in Directions : DriveOne(d, dir)
    BY <2>1 DEF Accept, DriveOne
  <2>2. CASE \E dir \in Directions : DriveAll(dir)
    BY <2>2 DEF Accept, DriveAll, DisableAll, Sleep, CommandDone
  <2>3. CASE \E d \in Drivers : CoilOff("CoilOff", {d})
    BY <2>3 DEF Accept, CoilOff
  <2>4. CASE CoilOff("CoilOffAll", Drivers)
    BY <2>4 DEF Accept, CoilOff
  <2>5. CASE \E d \in Drivers : SleepOne(d)
    BY <2>5 DEF Accept, SleepOne, Sleep, CommandDone
  <2>6. CASE SleepAll
    BY <2>6 DEF Accept, SleepAll, DisableAll, Sleep, CommandDone
  <2>7. CASE \E d \in Drivers : Wake("Wake", {d})
    BY <2>7 DEF Accept, Wake
  <2>8. CASE Wake("WakeAll", Drivers)
    BY <2>8 DEF Accept, Wake
  <2>9. CASE \E d \in Drivers, c \in Currents : SetCurrent(d, c)
    BY <2>9 DEF Accept, SetCurrent
  <2>10. CASE \E c \in Currents : SetCurrentAll(c)
    BY <2>10 DEF Accept, SetCurrentAll
  <2>11. CASE BeginSetPmode
    BY <2>11 DEF Accept, BeginSetPmode
  <2>12. QED
    BY <1>26, <2>1, <2>2, <2>3, <2>4, <2>5, <2>6, <2>7, <2>8, <2>9,
       <2>10, <2>11 DEF HostCommand
<1>27. CASE EndPass
  BY <1>27 DEF EndPass
<1>28. CASE Tick
  BY <1>28 DEF Tick, AgesAdvance
<1>29. CASE UNCHANGED vars
  BY <1>29
<1>30. QED
  BY <1>1, <1>2, <1>3, <1>4, <1>5, <1>6, <1>7, <1>8, <1>9, <1>10, <1>11,
     <1>12, <1>13, <1>14, <1>15, <1>16, <1>17, <1>18, <1>19, <1>20, <1>21,
     <1>22, <1>23, <1>24, <1>25, <1>26, <1>27, <1>28, <1>29 DEF Next,
     Interrupts, SafetyPass, CommandStep, ManagerStep

\* Only interrupts run between a check of the stage and the step that relies on
\* it.
LEMMA CheckedStep ==
  ASSUME TypeOK, CheckedIsPoweredDown, [Next]_vars
  PROVE  CheckedIsPoweredDown'
<1> USE DEF CheckedIsPoweredDown, AllAsleep, AllReferencesZero,
       ZeroReference, TypeOK, DriverType, ControlType, At, Directions, States
<1>1. CASE \E l \in Lines : Environment(l)
  BY <1>1 DEF Environment, PinFalls, PinRises
<1>2. CASE \E d \in Drivers : DriverFaultIsr(d)
  BY <1>2 DEF DriverFaultIsr, AcceptEdge
<1>3. CASE PowerAlertIsr
  BY <1>3 DEF PowerAlertIsr, AcceptEdge
<1>4. CASE SampleAndLatchFaultInputs("sample", "readShutdowns")
  BY <1>4 DEF SampleAndLatchFaultInputs
<1>5. CASE ReadShutdowns
  BY <1>5 DEF ReadShutdowns
<1>6. CASE IsolateDrivers
  BY <1>6 DEF IsolateDrivers, Sleep
<1>7. CASE ClearShutdowns
  BY <1>7 DEF ClearShutdowns
<1>8. CASE SnapshotDrivers
  BY <1>8 DEF SnapshotDrivers
<1>9. CASE SnapshotPins
  BY <1>9 DEF SnapshotPins
<1>10. CASE ManagerStep /\ UNCHANGED coilVars
  BY <1>10 DEF ManagerStep, TakeSafetyEvent, UpdatePowerAlertCycle,
     SafeStatePolicyGlobal, SafeStatePolicyDriver, ValidateRelease,
     RequestAutomaticClear, QueueFaultReport, SkipFaultReport,
     ConfirmFaultReport, ReportSafeStateResult, TakeAutomaticClear,
     CompleteFaultClear
<1>11. CASE EnterSafeState
  BY <1>11 DEF EnterSafeState, DisableAll, Sleep
<1>12. CASE ClearFaultHardware
  BY <1>12 DEF ClearFaultHardware
<1>13. CASE ConfirmHardwareClear
  BY <1>13 DEF ConfirmHardwareClear
<1>14. CASE \E d \in Drivers : Energize(d)
  BY <1>14 DEF Energize, Enter
<1>15. CASE \E d \in Drivers : VerifyEnabled(d)
  BY <1>15 DEF VerifyEnabled
<1>16. CASE \E d \in Drivers : Coast(d)
  BY <1>16 DEF Coast, DisableAll, Sleep, CommandDone
<1>17. CASE \E d \in Drivers : RaiseAfterCoast(d)
  BY <1>17 DEF RaiseAfterCoast, Enter, CommandDone
<1>18. CASE \E d \in Drivers : BeginDriverWake(d)
  BY <1>18 DEF BeginDriverWake, Enter, CommandDone
<1>19. CASE \E d \in Drivers : EndDriverWakeDelay(d)
  BY <1>19 DEF EndDriverWakeDelay
<1>20. CASE \E d \in Drivers : ReadWakeInputs(d)
  BY <1>20 DEF ReadWakeInputs
<1>21. CASE \E d \in Drivers : CompleteDriverWake(d)
  BY <1>21 DEF CompleteDriverWake, CommandDone
<1>22. CASE IsolateFailedEnable
  BY <1>22 DEF IsolateFailedEnable, DisableAll, Sleep, CommandDone
<1>23. CASE SampleAndLatchFaultInputs("resample", "recheck")
  BY <1>23 DEF SampleAndLatchFaultInputs
<1>24. CASE RecheckAfterEnable
  BY <1>24 DEF RecheckAfterEnable, DisableAll, Sleep, CommandDone
<1>25. CASE WritePmode
  BY <1>25 DEF WritePmode
<1>26. CASE HostCommand
  <2>1. CASE \E d \in Drivers, dir \in Directions : DriveOne(d, dir)
    BY <2>1 DEF Accept, DriveOne
  <2>2. CASE \E dir \in Directions : DriveAll(dir)
    BY <2>2 DEF Accept, DriveAll, DisableAll, Sleep, CommandDone
  <2>3. CASE \E d \in Drivers : CoilOff("CoilOff", {d})
    BY <2>3 DEF Accept, CoilOff
  <2>4. CASE CoilOff("CoilOffAll", Drivers)
    BY <2>4 DEF Accept, CoilOff
  <2>5. CASE \E d \in Drivers : SleepOne(d)
    BY <2>5 DEF Accept, SleepOne, Sleep, CommandDone
  <2>6. CASE SleepAll
    BY <2>6 DEF Accept, SleepAll, DisableAll, Sleep, CommandDone
  <2>7. CASE \E d \in Drivers : Wake("Wake", {d})
    BY <2>7 DEF Accept, Wake
  <2>8. CASE Wake("WakeAll", Drivers)
    BY <2>8 DEF Accept, Wake
  <2>9. CASE \E d \in Drivers, c \in Currents : SetCurrent(d, c)
    BY <2>9 DEF Accept, SetCurrent
  <2>10. CASE \E c \in Currents : SetCurrentAll(c)
    BY <2>10 DEF Accept, SetCurrentAll
  <2>11. CASE BeginSetPmode
    BY <2>11 DEF Accept, BeginSetPmode
  <2>12. QED
    BY <1>26, <2>1, <2>2, <2>3, <2>4, <2>5, <2>6, <2>7, <2>8, <2>9,
       <2>10, <2>11 DEF HostCommand
<1>27. CASE EndPass
  BY <1>27 DEF EndPass
<1>28. CASE Tick
  BY <1>28 DEF Tick, AgesAdvance
<1>29. CASE UNCHANGED vars
  BY <1>29
<1>30. QED
  BY <1>1, <1>2, <1>3, <1>4, <1>5, <1>6, <1>7, <1>8, <1>9, <1>10, <1>11,
     <1>12, <1>13, <1>14, <1>15, <1>16, <1>17, <1>18, <1>19, <1>20, <1>21,
     <1>22, <1>23, <1>24, <1>25, <1>26, <1>27, <1>28, <1>29 DEF Next,
     Interrupts, SafetyPass, CommandStep, ManagerStep

\* The epoch that is carried to completeFaultClear is current only while the mask
\* is the isolated alert whose release was validated.
LEMMA GrantStep ==
  ASSUME TypeOK, ClearIsGranted, [Next]_vars
  PROVE  ClearIsGranted'
<1> USE DEF ClearIsGranted, Granted, BridgePoints, TypeOK, ManagerType,
       LatchType, ReleaseType, AutoType, LocalType, Epochs, At
<1>1. CASE LatchStep
  BY <1>1 DEF LatchStep
<1>2. CASE QuietStep
  BY <1>2 DEF QuietStep
<1>3. CASE TakeSafetyEvent
  BY <1>3 DEF TakeSafetyEvent, ResetRecoveryTracking, ResetRelease
<1>4. CASE UpdatePowerAlertCycle
  BY <1>4 DEF UpdatePowerAlertCycle
<1>5. CASE SafeStatePolicyGlobal
  BY <1>5 DEF SafeStatePolicyGlobal
<1>6. CASE SafeStatePolicyDriver
  BY <1>6 DEF SafeStatePolicyDriver
<1>7. CASE ValidateRelease
  BY <1>7 DEF ValidateRelease, ResetRelease
<1>8. CASE RequestAutomaticClear
  BY <1>8 DEF RequestAutomaticClear
<1>9. CASE QueueFaultReport
  BY <1>9 DEF QueueFaultReport
<1>10. CASE SkipFaultReport
  BY <1>10 DEF SkipFaultReport
<1>11. CASE ConfirmFaultReport
  BY <1>11 DEF ConfirmFaultReport
<1>12. CASE ReportSafeStateResult
  BY <1>12 DEF ReportSafeStateResult
<1>13. CASE TakeAutomaticClear
  BY <1>13 DEF TakeAutomaticClear, ResetRecoveryTracking, ResetRelease
<1>14. CASE CompleteFaultClear
  BY <1>14 DEF CompleteFaultClear
<1>15. CASE SnapshotDrivers
  BY <1>15 DEF SnapshotDrivers
<1>16. CASE SnapshotPins
  BY <1>16 DEF SnapshotPins
<1>17. CASE ClearFaultHardware
  BY <1>17 DEF ClearFaultHardware
<1>18. CASE ConfirmHardwareClear
  BY <1>18 DEF ConfirmHardwareClear
<1>19. CASE Tick
  BY <1>19 DEF Tick, AgesAdvance
<1>20. QED
  BY ViewStep, <1>1, <1>2, <1>3, <1>4, <1>5, <1>6, <1>7, <1>8, <1>9, <1>10,
     <1>11, <1>12, <1>13, <1>14, <1>15, <1>16, <1>17, <1>18, <1>19 DEF
     ManagerView, ManagerStep

\* What the clear and PMODE rest on.
StageInv == SleepIsLow /\ CheckedIsPoweredDown /\ ClearIsGranted

\* StageInv is an invariant of the board.
LEMMA StageInvariant == Spec => []StageInv
<1>1. Init => StageInv
  <2>1. Init => SleepIsLow /\ CheckedIsPoweredDown
    BY DEF Init, DriverInit, SleepIsLow, CheckedIsPoweredDown
  <2>2. Init => ClearIsGranted
    BY DEF Init, ManagerInit, ClearIsGranted
  <2>3. QED
    BY <2>1, <2>2 DEF StageInv
<1>2. TypeOK /\ StageInv /\ [Next]_vars => StageInv'
  BY SleepIsLowStep, CheckedStep, GrantStep DEF StageInv
<1>3. QED
  BY <1>1, <1>2, TypeCorrect, PTL DEF Spec

\* Every step but completeFaultClear only adds to the mask.
LEMMA MaskGrows ==
  ASSUME TypeOK, [Next]_vars, ~CompleteFaultClear
  PROVE  mask \subseteq mask'
BY ViewStep DEF ManagerView, LatchStep, QuietStep, ManagerStep,
   TakeSafetyEvent, UpdatePowerAlertCycle, SafeStatePolicyGlobal,
   SafeStatePolicyDriver, ValidateRelease, RequestAutomaticClear,
   QueueFaultReport, SkipFaultReport, ConfirmFaultReport,
   ReportSafeStateResult, TakeAutomaticClear, SnapshotDrivers, SnapshotPins,
   ClearFaultHardware, ConfirmHardwareClear, Tick

\* completeFaultClear clears an isolated alert that needs no acknowledgement, on
\* a powered-down stage, or nothing.
LEMMA ClearIsSafe ==
  ASSUME TypeOK, StageInv, CompleteFaultClear, mask' # mask
  PROVE  /\ mask = {PowerAlert} /\ mask' = {}
         /\ ~requiresAck
         /\ nSleep = {} /\ AllAsleep /\ AllReferencesZero
<1>1. pc = "completeClear" /\ epoch = clearEpoch /\ mask' = {}
  BY DEF CompleteFaultClear, At
<1>2. mask = {PowerAlert} /\ ~requiresAck
  BY <1>1 DEF StageInv, ClearIsGranted, Granted
<1>3. AllAsleep /\ AllReferencesZero
  BY <1>1 DEF StageInv, CheckedIsPoweredDown
<1>4. nSleep = {}
  BY <1>3 DEF StageInv, SleepIsLow, AllAsleep, TypeOK, DriverType
<1>5. QED
  BY <1>1, <1>2, <1>3, <1>4

\* The only fault memory ever lost is an isolated power alert that needs no
\* acknowledgement, on a stage that is powered down: nothing that interrupts the
\* clear between its validation and its completion is cleared with it.
THEOREM ClearTheorem == Spec => OnlyIsolatedAlertClears
<1>1. ASSUME TypeOK, StageInv, [Next]_vars, mask # {}, mask' # mask,
             ~(mask \subseteq mask')
      PROVE  /\ mask = {PowerAlert}
             /\ ~requiresAck
             /\ nSleep = {} /\ AllAsleep /\ AllReferencesZero
  BY <1>1, MaskGrows, ClearIsSafe
<1>2. QED
  BY <1>1, StageInvariant, TypeCorrect, PTL DEF Spec, OnlyIsolatedAlertClears

\* PMODE is written by setPmode alone.
LEMMA PmodeStep ==
  ASSUME TypeOK, [Next]_vars
  PROVE  pmode' # pmode => WritePmode
<1> USE DEF TypeOK
<1>1. CASE \E l \in Lines : Environment(l)
  BY <1>1 DEF Environment, PinFalls, PinRises
<1>2. CASE \E d \in Drivers : DriverFaultIsr(d)
  BY <1>2 DEF DriverFaultIsr, AcceptEdge
<1>3. CASE PowerAlertIsr
  BY <1>3 DEF PowerAlertIsr, AcceptEdge
<1>4. CASE SampleAndLatchFaultInputs("sample", "readShutdowns")
  BY <1>4 DEF SampleAndLatchFaultInputs
<1>5. CASE ReadShutdowns
  BY <1>5 DEF ReadShutdowns
<1>6. CASE IsolateDrivers
  BY <1>6 DEF IsolateDrivers, Sleep
<1>7. CASE ClearShutdowns
  BY <1>7 DEF ClearShutdowns
<1>8. CASE SnapshotDrivers
  BY <1>8 DEF SnapshotDrivers
<1>9. CASE SnapshotPins
  BY <1>9 DEF SnapshotPins
<1>10. CASE ManagerStep /\ UNCHANGED coilVars
  BY <1>10 DEF ManagerStep, TakeSafetyEvent, UpdatePowerAlertCycle,
     SafeStatePolicyGlobal, SafeStatePolicyDriver, ValidateRelease,
     RequestAutomaticClear, QueueFaultReport, SkipFaultReport,
     ConfirmFaultReport, ReportSafeStateResult, TakeAutomaticClear,
     CompleteFaultClear
<1>11. CASE EnterSafeState
  BY <1>11 DEF EnterSafeState, DisableAll, Sleep
<1>12. CASE ClearFaultHardware
  BY <1>12 DEF ClearFaultHardware
<1>13. CASE ConfirmHardwareClear
  BY <1>13 DEF ConfirmHardwareClear
<1>14. CASE \E d \in Drivers : Energize(d)
  BY <1>14 DEF Energize, Enter
<1>15. CASE \E d \in Drivers : VerifyEnabled(d)
  BY <1>15 DEF VerifyEnabled
<1>16. CASE \E d \in Drivers : Coast(d)
  BY <1>16 DEF Coast, DisableAll, Sleep, CommandDone
<1>17. CASE \E d \in Drivers : RaiseAfterCoast(d)
  BY <1>17 DEF RaiseAfterCoast, Enter, CommandDone
<1>18. CASE \E d \in Drivers : BeginDriverWake(d)
  BY <1>18 DEF BeginDriverWake, Enter, CommandDone
<1>19. CASE \E d \in Drivers : EndDriverWakeDelay(d)
  BY <1>19 DEF EndDriverWakeDelay
<1>20. CASE \E d \in Drivers : ReadWakeInputs(d)
  BY <1>20 DEF ReadWakeInputs
<1>21. CASE \E d \in Drivers : CompleteDriverWake(d)
  BY <1>21 DEF CompleteDriverWake, CommandDone
<1>22. CASE IsolateFailedEnable
  BY <1>22 DEF IsolateFailedEnable, DisableAll, Sleep, CommandDone
<1>23. CASE SampleAndLatchFaultInputs("resample", "recheck")
  BY <1>23 DEF SampleAndLatchFaultInputs
<1>24. CASE RecheckAfterEnable
  BY <1>24 DEF RecheckAfterEnable, DisableAll, Sleep, CommandDone
<1>25. CASE WritePmode
  BY <1>25 DEF WritePmode
<1>26. CASE HostCommand
  <2>1. CASE \E d \in Drivers, dir \in Directions : DriveOne(d, dir)
    BY <2>1 DEF Accept, DriveOne
  <2>2. CASE \E dir \in Directions : DriveAll(dir)
    BY <2>2 DEF Accept, DriveAll, DisableAll, Sleep, CommandDone
  <2>3. CASE \E d \in Drivers : CoilOff("CoilOff", {d})
    BY <2>3 DEF Accept, CoilOff
  <2>4. CASE CoilOff("CoilOffAll", Drivers)
    BY <2>4 DEF Accept, CoilOff
  <2>5. CASE \E d \in Drivers : SleepOne(d)
    BY <2>5 DEF Accept, SleepOne, Sleep, CommandDone
  <2>6. CASE SleepAll
    BY <2>6 DEF Accept, SleepAll, DisableAll, Sleep, CommandDone
  <2>7. CASE \E d \in Drivers : Wake("Wake", {d})
    BY <2>7 DEF Accept, Wake
  <2>8. CASE Wake("WakeAll", Drivers)
    BY <2>8 DEF Accept, Wake
  <2>9. CASE \E d \in Drivers, c \in Currents : SetCurrent(d, c)
    BY <2>9 DEF Accept, SetCurrent
  <2>10. CASE \E c \in Currents : SetCurrentAll(c)
    BY <2>10 DEF Accept, SetCurrentAll
  <2>11. CASE BeginSetPmode
    BY <2>11 DEF Accept, BeginSetPmode
  <2>12. QED
    BY <1>26, <2>1, <2>2, <2>3, <2>4, <2>5, <2>6, <2>7, <2>8, <2>9,
       <2>10, <2>11 DEF HostCommand
<1>27. CASE EndPass
  BY <1>27 DEF EndPass
<1>28. CASE Tick
  BY <1>28 DEF Tick, AgesAdvance
<1>29. CASE UNCHANGED vars
  BY <1>29
<1>30. QED
  BY <1>1, <1>2, <1>3, <1>4, <1>5, <1>6, <1>7, <1>8, <1>9, <1>10, <1>11,
     <1>12, <1>13, <1>14, <1>15, <1>16, <1>17, <1>18, <1>19, <1>20, <1>21,
     <1>22, <1>23, <1>24, <1>25, <1>26, <1>27, <1>28, <1>29 DEF Next,
     Interrupts, SafetyPass, CommandStep, ManagerStep

\* No bridge is awake when the shared PMODE output changes, although setPmode
\* checks the stage before it waits.
THEOREM PmodeTheorem == Spec => PmodeChangesAsleep
<1>1. ASSUME TypeOK, StageInv, [Next]_vars, pmode' # pmode
      PROVE  nSleep = {} /\ AllAsleep /\ AllReferencesZero
  <2>1. pc = "pmodeDelay"
    BY <1>1, PmodeStep DEF WritePmode, At
  <2>2. AllAsleep /\ AllReferencesZero
    BY <1>1, <2>1 DEF StageInv, CheckedIsPoweredDown
  <2>3. QED
    BY <1>1, <2>2 DEF StageInv, SleepIsLow, AllAsleep, TypeOK, DriverType
<1>2. QED
  BY <1>1, StageInvariant, TypeCorrect, PTL DEF Spec, PmodeChangesAsleep

-----------------------------------------------------------------------------
(* The refinement.  A step of the board latches, energizes one bridge,      *)
(* clears the alert, or at most takes drive away.                           *)

\* A step that latches nothing and begins no drive.
LEMMA StopMaps ==
  ASSUME UNCHANGED mask, \A d \in Drivers : Driving(d)' => Driving(d)
  PROVE  Abstract!Next
BY DEF Abstract!Next, Abstract!Stop

\* A step that latches lines and cuts exactly the drive they forbid.
LEMMA LatchMaps ==
  ASSUME NEW F \in SUBSET Lines, mask' = mask \cup F,
         \A d \in Drivers :
           Driving(d)' <=> Driving(d) /\ d \notin F /\ PowerAlert \notin F
  PROVE  Abstract!Next
<1>1. {d \in Drivers : Driving(d)}' =
        {d \in Drivers : Driving(d)} \ Abstract!Forbidden(F)
  BY DEF Abstract!Forbidden
<1>2. Abstract!Latch
  BY <1>1 DEF Abstract!Latch, Lines
<1>3. QED
  BY <1>2 DEF Abstract!Next

\* Energizing is for a bridge without a latched fault, and under no alert.
LEMMA EnergizeMaps ==
  ASSUME TypeOK, NEW d \in Drivers, Energize(d)
  PROVE  Abstract!Next
<1> USE DEF Energize, Enter, Driving, TypeOK, DriverType, ControlType, At
<1>1. CASE target \in Directions /\ CanEnergize(d) /\ d \notin edges
           /\ ~DeviceFault(d)
  <2>1. {e \in Drivers : Driving(e)}' = {e \in Drivers : Driving(e)} \cup {d}
    BY <1>1
  <2>2. d \notin Abstract!Forbidden(mask)
    BY <1>1 DEF Abstract!Forbidden, CanEnergize
  <2>3. UNCHANGED mask
    OBVIOUS
  <2>4. QED
    BY <2>1, <2>2, <2>3 DEF Abstract!Next, Abstract!Energize
<1>2. CASE ~(target \in Directions /\ CanEnergize(d) /\ d \notin edges
             /\ ~DeviceFault(d))
  <2>1. \A e \in Drivers : Driving(e)' => Driving(e)
    BY <1>2
  <2>2. QED
    BY <2>1, StopMaps
<1>3. QED
  BY <1>1, <1>2

\* The clear of an isolated alert finds nothing driving.
LEMMA ClearMaps ==
  ASSUME TypeOK, StageInv, CompleteFaultClear, UNCHANGED coilVars
  PROVE  Abstract!Next
<1>1. {d \in Drivers : Driving(d)}' = {d \in Drivers : Driving(d)}
  BY DEF Driving
<1>2. CASE mask' = mask
  BY <1>1, <1>2, StopMaps
<1>3. CASE mask' # mask
  <2>1. mask = {PowerAlert} /\ mask' = {} /\ {d \in Drivers : Driving(d)} = {}
    BY <1>3, ClearIsSafe DEF Driving
  <2>2. QED
    BY <1>1, <2>1 DEF Abstract!Next, Abstract!ClearAlert
<1>4. QED
  BY <1>2, <1>3

\* The pass that samples the inputs cuts what it latches.
LEMMA SampleMaps ==
  ASSUME TypeOK, NEW from, NEW to, SampleAndLatchFaultInputs(from, to)
  PROVE  Abstract!Next
<1> DEFINE failed == {d \in Drivers : /\ state[d] # "Sleep"
                                      /\ d \notin waking
                                      /\ d \in low}
           alert == low \cap {PowerAlert}
<1>1. mask' = mask \cup (failed \cup alert)
  BY DEF SampleAndLatchFaultInputs, LatchFaults
<1>2. \A d \in Drivers :
        Driving(d)' <=> /\ Driving(d)
                        /\ d \notin failed \cup alert
                        /\ PowerAlert \notin failed \cup alert
  BY DEF SampleAndLatchFaultInputs, Driving
<1>3. failed \cup alert \in SUBSET Lines
  BY DEF Lines
<1>4. QED
  BY <1>1, <1>2, <1>3, LatchMaps

\* The check after an enable cuts what it latches.
LEMMA VerifyMaps ==
  ASSUME TypeOK, NEW d \in Drivers, VerifyEnabled(d)
  PROVE  Abstract!Next
<1> USE DEF VerifyEnabled, Driving, LatchFaults, TypeOK, DriverType
<1>1. CASE HasGlobalFault
  BY <1>1, LatchMaps DEF Lines
<1>2. CASE ~HasGlobalFault /\ d \in low \cup edges
  <2>1. mask' = mask \cup {d} /\ d # PowerAlert /\ {d} \in SUBSET Lines
    BY <1>2 DEF Lines
  <2>2. \A e \in Drivers :
          Driving(e)' <=> Driving(e) /\ e \notin {d} /\ PowerAlert \notin {d}
    BY <1>2, <2>1
  <2>3. QED
    BY ONLY <2>1, <2>2, LatchMaps
<1>3. CASE ~HasGlobalFault /\ d \notin low \cup edges
  BY <1>3, StopMaps
<1>4. QED
  BY <1>1, <1>2, <1>3

\* A wake qualification cuts what it latches, or puts the bridge to sleep.
LEMMA QualifyMaps ==
  ASSUME TypeOK, NEW d \in Drivers, CompleteDriverWake(d)
  PROVE  Abstract!Next
<1> PICK seen \in SUBSET (edges \cap {d}) :
      LET driverFault == {d} \cap (low \cup early \cup seen)
          alert == {PowerAlert} \cap (low \cup early \cup edges)
          woken == driverFault \cup alert = {} /\ state[d] = "CoilOff"
      IN  /\ LatchFaults(driverFault \cup alert)
          /\ state' = IF woken THEN state ELSE [state EXCEPT ![d] = "Sleep"]
          /\ nSleep' = IF alert # {} THEN {}
                       ELSE IF woken THEN nSleep ELSE nSleep \ {d}
  BY DEF CompleteDriverWake
<1> DEFINE driverFault == {d} \cap (low \cup early \cup seen)
           alert == {PowerAlert} \cap (low \cup early \cup edges)
<1> USE DEF LatchFaults, Driving, Directions, TypeOK, DriverType
<1>1. CASE driverFault \cup alert = {}
  BY <1>1, StopMaps
<1>2. CASE driverFault \cup alert # {}
  <2>1. mask' = mask \cup (driverFault \cup alert)
    OBVIOUS
  <2>2. \A e \in Drivers :
          Driving(e)' <=> /\ Driving(e)
                          /\ e \notin driverFault \cup alert
                          /\ PowerAlert \notin driverFault \cup alert
    BY <1>2
  <2>3. driverFault \cup alert \in SUBSET Lines
    BY DEF Lines
  <2>4. QED
    BY ONLY <2>1, <2>2, <2>3, LatchMaps
<1>3. QED
  BY <1>1, <1>2

\* Every step of the board is a step of the interlock.
LEMMA RefinementStep ==
  ASSUME TypeOK, StageInv, [Next]_vars
  PROVE  [Abstract!Next]_<<{d \in Drivers : Driving(d)}, mask>>
<1> USE DEF Driving, Lines, At, TypeOK, LinesType, ManagerType, LatchType,
       DriverType, ControlType, Directions, States
<1>1. CASE \E l \in Lines : Environment(l)
  <2>1. UNCHANGED mask /\ \A e \in Drivers : Driving(e)' => Driving(e)
    BY <1>1 DEF Environment, PinFalls, PinRises
  <2>2. QED
    BY <2>1, StopMaps
<1>2. CASE \E d \in Drivers : DriverFaultIsr(d)
  <2> PICK d \in Drivers : DriverFaultIsr(d)
    BY <1>2
  <2>1. CASE d \in nSleep /\ d \notin waking
    <3>1. mask' = mask \cup {d} /\ d # PowerAlert /\ {d} \in SUBSET Lines
      BY <2>1 DEF DriverFaultIsr, LatchFaults
    <3>2. \A e \in Drivers :
            Driving(e)' <=> Driving(e) /\ e \notin {d} /\ PowerAlert \notin {d}
      BY <2>1, <3>1 DEF DriverFaultIsr
    <3>3. QED
      BY ONLY <3>1, <3>2, LatchMaps
  <2>2. CASE ~(d \in nSleep /\ d \notin waking)
    BY <2>2, StopMaps DEF DriverFaultIsr
  <2>3. QED
    BY <2>1, <2>2
<1>3. CASE PowerAlertIsr
  BY <1>3, LatchMaps DEF PowerAlertIsr, LatchFaults
<1>4. CASE SampleAndLatchFaultInputs("sample", "readShutdowns")
  BY <1>4, SampleMaps
<1>5. CASE ReadShutdowns
  <2>1. UNCHANGED mask /\ \A e \in Drivers : Driving(e)' => Driving(e)
    BY <1>5 DEF ReadShutdowns
  <2>2. QED
    BY <2>1, StopMaps
<1>6. CASE IsolateDrivers
  <2>1. UNCHANGED mask /\ \A e \in Drivers : Driving(e)' => Driving(e)
    BY <1>6 DEF IsolateDrivers, Sleep
  <2>2. QED
    BY <2>1, StopMaps
<1>7. CASE ClearShutdowns
  <2>1. UNCHANGED mask /\ \A e \in Drivers : Driving(e)' => Driving(e)
    BY <1>7 DEF ClearShutdowns
  <2>2. QED
    BY <2>1, StopMaps
<1>8. CASE SnapshotDrivers
  <2>1. UNCHANGED mask /\ \A e \in Drivers : Driving(e)' => Driving(e)
    BY <1>8 DEF SnapshotDrivers
  <2>2. QED
    BY <2>1, StopMaps
<1>9. CASE SnapshotPins
  <2>1. UNCHANGED mask /\ \A e \in Drivers : Driving(e)' => Driving(e)
    BY <1>9 DEF SnapshotPins
  <2>2. QED
    BY <2>1, StopMaps
<1>10. CASE ManagerStep /\ UNCHANGED coilVars
  <2>1. CASE CompleteFaultClear
    BY <1>10, <2>1, ClearMaps
  <2>2. CASE ~CompleteFaultClear
    <3>1. UNCHANGED mask /\ \A e \in Drivers : Driving(e)' => Driving(e)
      BY <1>10, <2>2 DEF ManagerStep, TakeSafetyEvent, UpdatePowerAlertCycle,
         SafeStatePolicyGlobal, SafeStatePolicyDriver, ValidateRelease,
         RequestAutomaticClear, QueueFaultReport, SkipFaultReport,
         ConfirmFaultReport, ReportSafeStateResult, TakeAutomaticClear
    <3>2. QED
      BY <3>1, StopMaps
  <2>3. QED
    BY <2>1, <2>2
<1>11. CASE EnterSafeState
  <2>1. UNCHANGED mask /\ \A e \in Drivers : Driving(e)' => Driving(e)
    BY <1>11 DEF EnterSafeState, DisableAll, Sleep
  <2>2. QED
    BY <2>1, StopMaps
<1>12. CASE ClearFaultHardware
  <2>1. UNCHANGED mask /\ \A e \in Drivers : Driving(e)' => Driving(e)
    BY <1>12 DEF ClearFaultHardware
  <2>2. QED
    BY <2>1, StopMaps
<1>13. CASE ConfirmHardwareClear
  <2>1. UNCHANGED mask /\ \A e \in Drivers : Driving(e)' => Driving(e)
    BY <1>13 DEF ConfirmHardwareClear
  <2>2. QED
    BY <2>1, StopMaps
<1>14. CASE \E d \in Drivers : Energize(d)
  BY <1>14, EnergizeMaps
<1>15. CASE \E d \in Drivers : VerifyEnabled(d)
  BY <1>15, VerifyMaps
<1>16. CASE \E d \in Drivers : Coast(d)
  <2>1. UNCHANGED mask /\ \A e \in Drivers : Driving(e)' => Driving(e)
    BY <1>16 DEF Coast, DisableAll, Sleep, CommandDone
  <2>2. QED
    BY <2>1, StopMaps
<1>17. CASE \E d \in Drivers : RaiseAfterCoast(d)
  <2>1. UNCHANGED mask /\ \A e \in Drivers : Driving(e)' => Driving(e)
    BY <1>17 DEF RaiseAfterCoast, Enter, CommandDone
  <2>2. QED
    BY <2>1, StopMaps
<1>18. CASE \E d \in Drivers : BeginDriverWake(d)
  <2>1. UNCHANGED mask /\ \A e \in Drivers : Driving(e)' => Driving(e)
    BY <1>18 DEF BeginDriverWake, Enter, CommandDone
  <2>2. QED
    BY <2>1, StopMaps
<1>19. CASE \E d \in Drivers : EndDriverWakeDelay(d)
  <2>1. UNCHANGED mask /\ \A e \in Drivers : Driving(e)' => Driving(e)
    BY <1>19 DEF EndDriverWakeDelay
  <2>2. QED
    BY <2>1, StopMaps
<1>20. CASE \E d \in Drivers : ReadWakeInputs(d)
  <2>1. UNCHANGED mask /\ \A e \in Drivers : Driving(e)' => Driving(e)
    BY <1>20 DEF ReadWakeInputs
  <2>2. QED
    BY <2>1, StopMaps
<1>21. CASE \E d \in Drivers : CompleteDriverWake(d)
  BY <1>21, QualifyMaps
<1>22. CASE IsolateFailedEnable
  <2>1. UNCHANGED mask /\ \A e \in Drivers : Driving(e)' => Driving(e)
    BY <1>22 DEF IsolateFailedEnable, DisableAll, Sleep, CommandDone
  <2>2. QED
    BY <2>1, StopMaps
<1>23. CASE SampleAndLatchFaultInputs("resample", "recheck")
  BY <1>23, SampleMaps
<1>24. CASE RecheckAfterEnable
  <2>1. UNCHANGED mask /\ \A e \in Drivers : Driving(e)' => Driving(e)
    BY <1>24 DEF RecheckAfterEnable, DisableAll, Sleep, CommandDone
  <2>2. QED
    BY <2>1, StopMaps
<1>25. CASE WritePmode
  <2>1. UNCHANGED mask /\ \A e \in Drivers : Driving(e)' => Driving(e)
    BY <1>25 DEF WritePmode
  <2>2. QED
    BY <2>1, StopMaps
<1>26. CASE HostCommand
  <2>1. UNCHANGED mask /\ \A e \in Drivers : Driving(e)' => Driving(e)
    BY <1>26 DEF HostCommand, Accept, DriveOne, DriveAll, CoilOff, SleepOne,
       SleepAll, Wake, SetCurrent, SetCurrentAll, BeginSetPmode, DisableAll,
       Sleep, CommandDone
  <2>2. QED
    BY <2>1, StopMaps
<1>27. CASE EndPass
  <2>1. UNCHANGED mask /\ \A e \in Drivers : Driving(e)' => Driving(e)
    BY <1>27 DEF EndPass
  <2>2. QED
    BY <2>1, StopMaps
<1>28. CASE Tick
  <2>1. UNCHANGED mask /\ \A e \in Drivers : Driving(e)' => Driving(e)
    BY <1>28 DEF Tick, AgesAdvance
  <2>2. QED
    BY <2>1, StopMaps
<1>29. CASE UNCHANGED vars
  <2>1. UNCHANGED mask /\ \A e \in Drivers : Driving(e)' => Driving(e)
    BY <1>29 DEF Driving
  <2>2. QED
    BY <2>1, StopMaps
<1>30. QED
  BY <1>1, <1>2, <1>3, <1>4, <1>5, <1>6, <1>7, <1>8, <1>9, <1>10, <1>11,
     <1>12, <1>13, <1>14, <1>15, <1>16, <1>17, <1>18, <1>19, <1>20, <1>21,
     <1>22, <1>23, <1>24, <1>25, <1>26, <1>27, <1>28, <1>29 DEF Next,
     Interrupts, SafetyPass, CommandStep, ManagerStep

\* The power stage implements its interlock: whatever the handlers preempt,
\* latching a fault and cutting the drive it forbids are one event.
THEOREM InterlockTheorem == Spec => ImplementsInterlock
<1>1. Init => Abstract!Init
  BY DEF Init, ManagerInit, DriverInit, Abstract!Init, Driving
<1>2. TypeOK /\ StageInv /\ [Next]_vars =>
        [Abstract!Next]_<<{d \in Drivers : Driving(d)}, mask>>
  BY RefinementStep
<1>3. QED
  BY <1>1, <1>2, StageInvariant, TypeCorrect, PTL
     DEF Spec, ImplementsInterlock, Abstract!Spec

-----------------------------------------------------------------------------
(* A driving bridge is regulated at its retained threshold.                 *)

\* A command that energizes applied the references of the bridges it still has to
\* visit, and no bridge that CoilOff has visited drives.
LEMMA CommandedStep ==
  ASSUME TypeOK, CommandedReference, [Next]_vars
  PROVE  CommandedReference'
<1> USE DEF CommandedReference, ApplyReference, ZeroReference, TypeOK,
       DriverType, ControlType, At, Directions, States
<1>1. CASE \E l \in Lines : Environment(l)
  BY <1>1 DEF Environment, PinFalls, PinRises
<1>2. CASE \E d \in Drivers : DriverFaultIsr(d)
  BY <1>2 DEF DriverFaultIsr, AcceptEdge
<1>3. CASE PowerAlertIsr
  BY <1>3 DEF PowerAlertIsr, AcceptEdge
<1>4. CASE SampleAndLatchFaultInputs("sample", "readShutdowns")
  BY <1>4 DEF SampleAndLatchFaultInputs
<1>5. CASE ReadShutdowns
  BY <1>5 DEF ReadShutdowns
<1>6. CASE IsolateDrivers
  BY <1>6 DEF IsolateDrivers, Sleep
<1>7. CASE ClearShutdowns
  BY <1>7 DEF ClearShutdowns
<1>8. CASE SnapshotDrivers
  BY <1>8 DEF SnapshotDrivers
<1>9. CASE SnapshotPins
  BY <1>9 DEF SnapshotPins
<1>10. CASE ManagerStep /\ UNCHANGED coilVars
  BY <1>10 DEF ManagerStep, TakeSafetyEvent, UpdatePowerAlertCycle,
     SafeStatePolicyGlobal, SafeStatePolicyDriver, ValidateRelease,
     RequestAutomaticClear, QueueFaultReport, SkipFaultReport,
     ConfirmFaultReport, ReportSafeStateResult, TakeAutomaticClear,
     CompleteFaultClear
<1>11. CASE EnterSafeState
  BY <1>11 DEF EnterSafeState, DisableAll, Sleep
<1>12. CASE ClearFaultHardware
  BY <1>12 DEF ClearFaultHardware
<1>13. CASE ConfirmHardwareClear
  BY <1>13 DEF ConfirmHardwareClear
<1>14. CASE \E d \in Drivers : Energize(d)
  BY <1>14 DEF Energize, Enter
<1>15. CASE \E d \in Drivers : VerifyEnabled(d)
  BY <1>15 DEF VerifyEnabled
<1>16. CASE \E d \in Drivers : Coast(d)
  BY <1>16 DEF Coast, DisableAll, Sleep, CommandDone
<1>17. CASE \E d \in Drivers : RaiseAfterCoast(d)
  BY <1>17 DEF RaiseAfterCoast, Enter, CommandDone
<1>18. CASE \E d \in Drivers : BeginDriverWake(d)
  BY <1>18 DEF BeginDriverWake, Enter, CommandDone
<1>19. CASE \E d \in Drivers : EndDriverWakeDelay(d)
  BY <1>19 DEF EndDriverWakeDelay
<1>20. CASE \E d \in Drivers : ReadWakeInputs(d)
  BY <1>20 DEF ReadWakeInputs
<1>21. CASE \E d \in Drivers : CompleteDriverWake(d)
  BY <1>21 DEF CompleteDriverWake, CommandDone
<1>22. CASE IsolateFailedEnable
  BY <1>22 DEF IsolateFailedEnable, DisableAll, Sleep, CommandDone
<1>23. CASE SampleAndLatchFaultInputs("resample", "recheck")
  BY <1>23 DEF SampleAndLatchFaultInputs
<1>24. CASE RecheckAfterEnable
  BY <1>24 DEF RecheckAfterEnable, DisableAll, Sleep, CommandDone
<1>25. CASE WritePmode
  BY <1>25 DEF WritePmode
<1>26. CASE HostCommand
  <2>1. CASE \E d \in Drivers, dir \in Directions : DriveOne(d, dir)
    BY <2>1 DEF Accept, DriveOne
  <2>2. CASE \E dir \in Directions : DriveAll(dir)
    BY <2>2 DEF Accept, DriveAll, DisableAll, Sleep, CommandDone
  <2>3. CASE \E d \in Drivers : CoilOff("CoilOff", {d})
    BY <2>3 DEF Accept, CoilOff
  <2>4. CASE CoilOff("CoilOffAll", Drivers)
    BY <2>4 DEF Accept, CoilOff
  <2>5. CASE \E d \in Drivers : SleepOne(d)
    BY <2>5 DEF Accept, SleepOne, Sleep, CommandDone
  <2>6. CASE SleepAll
    BY <2>6 DEF Accept, SleepAll, DisableAll, Sleep, CommandDone
  <2>7. CASE \E d \in Drivers : Wake("Wake", {d})
    BY <2>7 DEF Accept, Wake
  <2>8. CASE Wake("WakeAll", Drivers)
    BY <2>8 DEF Accept, Wake
  <2>9. CASE \E d \in Drivers, c \in Currents : SetCurrent(d, c)
    BY <2>9 DEF Accept, SetCurrent
  <2>10. CASE \E c \in Currents : SetCurrentAll(c)
    BY <2>10 DEF Accept, SetCurrentAll
  <2>11. CASE BeginSetPmode
    BY <2>11 DEF Accept, BeginSetPmode
  <2>12. QED
    BY <1>26, <2>1, <2>2, <2>3, <2>4, <2>5, <2>6, <2>7, <2>8, <2>9,
       <2>10, <2>11 DEF HostCommand
<1>27. CASE EndPass
  BY <1>27 DEF EndPass
<1>28. CASE Tick
  BY <1>28 DEF Tick, AgesAdvance
<1>29. CASE UNCHANGED vars
  BY <1>29
<1>30. QED
  BY <1>1, <1>2, <1>3, <1>4, <1>5, <1>6, <1>7, <1>8, <1>9, <1>10, <1>11,
     <1>12, <1>13, <1>14, <1>15, <1>16, <1>17, <1>18, <1>19, <1>20, <1>21,
     <1>22, <1>23, <1>24, <1>25, <1>26, <1>27, <1>28, <1>29 DEF Next,
     Interrupts, SafetyPass, CommandStep, ManagerStep

\* References and driving states change together.
LEMMA DriveReferenceStep ==
  ASSUME TypeOK, CommandedReference, DriveHasItsReference, [Next]_vars
  PROVE  DriveHasItsReference'
<1> USE DEF CommandedReference, DriveHasItsReference, ApplyReference,
       ZeroReference, SetThreshold, TypeOK, DriverType, ControlType, At,
       Directions, States
<1>1. CASE \E l \in Lines : Environment(l)
  BY <1>1 DEF Environment, PinFalls, PinRises
<1>2. CASE \E d \in Drivers : DriverFaultIsr(d)
  BY <1>2 DEF DriverFaultIsr, AcceptEdge
<1>3. CASE PowerAlertIsr
  BY <1>3 DEF PowerAlertIsr, AcceptEdge
<1>4. CASE SampleAndLatchFaultInputs("sample", "readShutdowns")
  BY <1>4 DEF SampleAndLatchFaultInputs
<1>5. CASE ReadShutdowns
  BY <1>5 DEF ReadShutdowns
<1>6. CASE IsolateDrivers
  BY <1>6 DEF IsolateDrivers, Sleep
<1>7. CASE ClearShutdowns
  BY <1>7 DEF ClearShutdowns
<1>8. CASE SnapshotDrivers
  BY <1>8 DEF SnapshotDrivers
<1>9. CASE SnapshotPins
  BY <1>9 DEF SnapshotPins
<1>10. CASE ManagerStep /\ UNCHANGED coilVars
  BY <1>10 DEF ManagerStep, TakeSafetyEvent, UpdatePowerAlertCycle,
     SafeStatePolicyGlobal, SafeStatePolicyDriver, ValidateRelease,
     RequestAutomaticClear, QueueFaultReport, SkipFaultReport,
     ConfirmFaultReport, ReportSafeStateResult, TakeAutomaticClear,
     CompleteFaultClear
<1>11. CASE EnterSafeState
  BY <1>11 DEF EnterSafeState, DisableAll, Sleep
<1>12. CASE ClearFaultHardware
  BY <1>12 DEF ClearFaultHardware
<1>13. CASE ConfirmHardwareClear
  BY <1>13 DEF ConfirmHardwareClear
<1>14. CASE \E d \in Drivers : Energize(d)
  BY <1>14 DEF Energize, Enter
<1>15. CASE \E d \in Drivers : VerifyEnabled(d)
  BY <1>15 DEF VerifyEnabled
<1>16. CASE \E d \in Drivers : Coast(d)
  BY <1>16 DEF Coast, DisableAll, Sleep, CommandDone
<1>17. CASE \E d \in Drivers : RaiseAfterCoast(d)
  BY <1>17 DEF RaiseAfterCoast, Enter, CommandDone
<1>18. CASE \E d \in Drivers : BeginDriverWake(d)
  BY <1>18 DEF BeginDriverWake, Enter, CommandDone
<1>19. CASE \E d \in Drivers : EndDriverWakeDelay(d)
  BY <1>19 DEF EndDriverWakeDelay
<1>20. CASE \E d \in Drivers : ReadWakeInputs(d)
  BY <1>20 DEF ReadWakeInputs
<1>21. CASE \E d \in Drivers : CompleteDriverWake(d)
  BY <1>21 DEF CompleteDriverWake, CommandDone
<1>22. CASE IsolateFailedEnable
  BY <1>22 DEF IsolateFailedEnable, DisableAll, Sleep, CommandDone
<1>23. CASE SampleAndLatchFaultInputs("resample", "recheck")
  BY <1>23 DEF SampleAndLatchFaultInputs
<1>24. CASE RecheckAfterEnable
  BY <1>24 DEF RecheckAfterEnable, DisableAll, Sleep, CommandDone
<1>25. CASE WritePmode
  BY <1>25 DEF WritePmode
<1>26. CASE HostCommand
  <2>1. CASE \E d \in Drivers, dir \in Directions : DriveOne(d, dir)
    BY <2>1 DEF Accept, DriveOne
  <2>2. CASE \E dir \in Directions : DriveAll(dir)
    BY <2>2 DEF Accept, DriveAll, DisableAll, Sleep, CommandDone
  <2>3. CASE \E d \in Drivers : CoilOff("CoilOff", {d})
    BY <2>3 DEF Accept, CoilOff
  <2>4. CASE CoilOff("CoilOffAll", Drivers)
    BY <2>4 DEF Accept, CoilOff
  <2>5. CASE \E d \in Drivers : SleepOne(d)
    BY <2>5 DEF Accept, SleepOne, Sleep, CommandDone
  <2>6. CASE SleepAll
    BY <2>6 DEF Accept, SleepAll, DisableAll, Sleep, CommandDone
  <2>7. CASE \E d \in Drivers : Wake("Wake", {d})
    BY <2>7 DEF Accept, Wake
  <2>8. CASE Wake("WakeAll", Drivers)
    BY <2>8 DEF Accept, Wake
  <2>9. CASE \E d \in Drivers, c \in Currents : SetCurrent(d, c)
    BY <2>9 DEF Accept, SetCurrent
  <2>10. CASE \E c \in Currents : SetCurrentAll(c)
    BY <2>10 DEF Accept, SetCurrentAll
  <2>11. CASE BeginSetPmode
    BY <2>11 DEF Accept, BeginSetPmode
  <2>12. QED
    BY <1>26, <2>1, <2>2, <2>3, <2>4, <2>5, <2>6, <2>7, <2>8, <2>9,
       <2>10, <2>11 DEF HostCommand
<1>27. CASE EndPass
  BY <1>27 DEF EndPass
<1>28. CASE Tick
  BY <1>28 DEF Tick, AgesAdvance
<1>29. CASE UNCHANGED vars
  BY <1>29
<1>30. QED
  BY <1>1, <1>2, <1>3, <1>4, <1>5, <1>6, <1>7, <1>8, <1>9, <1>10, <1>11,
     <1>12, <1>13, <1>14, <1>15, <1>16, <1>17, <1>18, <1>19, <1>20, <1>21,
     <1>22, <1>23, <1>24, <1>25, <1>26, <1>27, <1>28, <1>29 DEF Next,
     Interrupts, SafetyPass, CommandStep, ManagerStep

\* A driving bridge is regulated at its retained threshold, whatever commands and
\* partial failures came before.
THEOREM DriveReferenceTheorem == Spec => []DriveHasItsReference
<1> DEFINE IInv == CommandedReference /\ DriveHasItsReference
<1>1. Init => IInv
  BY DEF Init, DriverInit, CommandedReference, DriveHasItsReference, Directions
<1>2. TypeOK /\ IInv /\ [Next]_vars => IInv'
  BY CommandedStep, DriveReferenceStep
<1>3. IInv => DriveHasItsReference
  OBVIOUS
<1>4. QED
  BY <1>1, <1>2, <1>3, TypeCorrect, PTL DEF Spec

-----------------------------------------------------------------------------
(* A reference left on a sleeping bridge.                                   *)

\* A command visits its bridges one at a time.
LEMMA OneActiveStep ==
  ASSUME TypeOK, OneIsActive, [Next]_vars
  PROVE  OneIsActive'
<1> USE DEF OneIsActive, TypeOK, DriverType, ControlType, At, Directions,
       States
<1>1. CASE \E l \in Lines : Environment(l)
  BY <1>1 DEF Environment, PinFalls, PinRises
<1>2. CASE \E d \in Drivers : DriverFaultIsr(d)
  BY <1>2 DEF DriverFaultIsr, AcceptEdge
<1>3. CASE PowerAlertIsr
  BY <1>3 DEF PowerAlertIsr, AcceptEdge
<1>4. CASE SampleAndLatchFaultInputs("sample", "readShutdowns")
  BY <1>4 DEF SampleAndLatchFaultInputs
<1>5. CASE ReadShutdowns
  BY <1>5 DEF ReadShutdowns
<1>6. CASE IsolateDrivers
  BY <1>6 DEF IsolateDrivers, Sleep
<1>7. CASE ClearShutdowns
  BY <1>7 DEF ClearShutdowns
<1>8. CASE SnapshotDrivers
  BY <1>8 DEF SnapshotDrivers
<1>9. CASE SnapshotPins
  BY <1>9 DEF SnapshotPins
<1>10. CASE ManagerStep /\ UNCHANGED coilVars
  BY <1>10 DEF ManagerStep, TakeSafetyEvent, UpdatePowerAlertCycle,
     SafeStatePolicyGlobal, SafeStatePolicyDriver, ValidateRelease,
     RequestAutomaticClear, QueueFaultReport, SkipFaultReport,
     ConfirmFaultReport, ReportSafeStateResult, TakeAutomaticClear,
     CompleteFaultClear
<1>11. CASE EnterSafeState
  BY <1>11 DEF EnterSafeState, DisableAll, Sleep
<1>12. CASE ClearFaultHardware
  BY <1>12 DEF ClearFaultHardware
<1>13. CASE ConfirmHardwareClear
  BY <1>13 DEF ConfirmHardwareClear
<1>14. CASE \E d \in Drivers : Energize(d)
  BY <1>14 DEF Energize, Enter
<1>15. CASE \E d \in Drivers : VerifyEnabled(d)
  BY <1>15 DEF VerifyEnabled
<1>16. CASE \E d \in Drivers : Coast(d)
  BY <1>16 DEF Coast, DisableAll, Sleep, CommandDone
<1>17. CASE \E d \in Drivers : RaiseAfterCoast(d)
  BY <1>17 DEF RaiseAfterCoast, Enter, CommandDone
<1>18. CASE \E d \in Drivers : BeginDriverWake(d)
  BY <1>18 DEF BeginDriverWake, Enter, CommandDone
<1>19. CASE \E d \in Drivers : EndDriverWakeDelay(d)
  BY <1>19 DEF EndDriverWakeDelay
<1>20. CASE \E d \in Drivers : ReadWakeInputs(d)
  BY <1>20 DEF ReadWakeInputs
<1>21. CASE \E d \in Drivers : CompleteDriverWake(d)
  BY <1>21 DEF CompleteDriverWake, CommandDone
<1>22. CASE IsolateFailedEnable
  BY <1>22 DEF IsolateFailedEnable, DisableAll, Sleep, CommandDone
<1>23. CASE SampleAndLatchFaultInputs("resample", "recheck")
  BY <1>23 DEF SampleAndLatchFaultInputs
<1>24. CASE RecheckAfterEnable
  BY <1>24 DEF RecheckAfterEnable, DisableAll, Sleep, CommandDone
<1>25. CASE WritePmode
  BY <1>25 DEF WritePmode
<1>26. CASE HostCommand
  <2>1. CASE \E d \in Drivers, dir \in Directions : DriveOne(d, dir)
    BY <2>1 DEF Accept, DriveOne
  <2>2. CASE \E dir \in Directions : DriveAll(dir)
    BY <2>2 DEF Accept, DriveAll, DisableAll, Sleep, CommandDone
  <2>3. CASE \E d \in Drivers : CoilOff("CoilOff", {d})
    BY <2>3 DEF Accept, CoilOff
  <2>4. CASE CoilOff("CoilOffAll", Drivers)
    BY <2>4 DEF Accept, CoilOff
  <2>5. CASE \E d \in Drivers : SleepOne(d)
    BY <2>5 DEF Accept, SleepOne, Sleep, CommandDone
  <2>6. CASE SleepAll
    BY <2>6 DEF Accept, SleepAll, DisableAll, Sleep, CommandDone
  <2>7. CASE \E d \in Drivers : Wake("Wake", {d})
    BY <2>7 DEF Accept, Wake
  <2>8. CASE Wake("WakeAll", Drivers)
    BY <2>8 DEF Accept, Wake
  <2>9. CASE \E d \in Drivers, c \in Currents : SetCurrent(d, c)
    BY <2>9 DEF Accept, SetCurrent
  <2>10. CASE \E c \in Currents : SetCurrentAll(c)
    BY <2>10 DEF Accept, SetCurrentAll
  <2>11. CASE BeginSetPmode
    BY <2>11 DEF Accept, BeginSetPmode
  <2>12. QED
    BY <1>26, <2>1, <2>2, <2>3, <2>4, <2>5, <2>6, <2>7, <2>8, <2>9,
       <2>10, <2>11 DEF HostCommand
<1>27. CASE EndPass
  BY <1>27 DEF EndPass
<1>28. CASE Tick
  BY <1>28 DEF Tick, AgesAdvance
<1>29. CASE UNCHANGED vars
  BY <1>29
<1>30. QED
  BY <1>1, <1>2, <1>3, <1>4, <1>5, <1>6, <1>7, <1>8, <1>9, <1>10, <1>11,
     <1>12, <1>13, <1>14, <1>15, <1>16, <1>17, <1>18, <1>19, <1>20, <1>21,
     <1>22, <1>23, <1>24, <1>25, <1>26, <1>27, <1>28, <1>29 DEF Next,
     Interrupts, SafetyPass, CommandStep, ManagerStep

\* A bridge is woken with VREF zero.
LEMMA WokenStep ==
  ASSUME TypeOK, WokenWithoutReference, [Next]_vars
  PROVE  WokenWithoutReference'
<1> USE DEF WokenWithoutReference, ZeroReference, TypeOK, DriverType,
       ControlType, At, Directions, States
<1>1. CASE \E l \in Lines : Environment(l)
  BY <1>1 DEF Environment, PinFalls, PinRises
<1>2. CASE \E d \in Drivers : DriverFaultIsr(d)
  BY <1>2 DEF DriverFaultIsr, AcceptEdge
<1>3. CASE PowerAlertIsr
  BY <1>3 DEF PowerAlertIsr, AcceptEdge
<1>4. CASE SampleAndLatchFaultInputs("sample", "readShutdowns")
  BY <1>4 DEF SampleAndLatchFaultInputs
<1>5. CASE ReadShutdowns
  BY <1>5 DEF ReadShutdowns
<1>6. CASE IsolateDrivers
  BY <1>6 DEF IsolateDrivers, Sleep
<1>7. CASE ClearShutdowns
  BY <1>7 DEF ClearShutdowns
<1>8. CASE SnapshotDrivers
  BY <1>8 DEF SnapshotDrivers
<1>9. CASE SnapshotPins
  BY <1>9 DEF SnapshotPins
<1>10. CASE ManagerStep /\ UNCHANGED coilVars
  BY <1>10 DEF ManagerStep, TakeSafetyEvent, UpdatePowerAlertCycle,
     SafeStatePolicyGlobal, SafeStatePolicyDriver, ValidateRelease,
     RequestAutomaticClear, QueueFaultReport, SkipFaultReport,
     ConfirmFaultReport, ReportSafeStateResult, TakeAutomaticClear,
     CompleteFaultClear
<1>11. CASE EnterSafeState
  BY <1>11 DEF EnterSafeState, DisableAll, Sleep
<1>12. CASE ClearFaultHardware
  BY <1>12 DEF ClearFaultHardware
<1>13. CASE ConfirmHardwareClear
  BY <1>13 DEF ConfirmHardwareClear
<1>14. CASE \E d \in Drivers : Energize(d)
  BY <1>14 DEF Energize, Enter
<1>15. CASE \E d \in Drivers : VerifyEnabled(d)
  BY <1>15 DEF VerifyEnabled
<1>16. CASE \E d \in Drivers : Coast(d)
  BY <1>16 DEF Coast, DisableAll, Sleep, CommandDone
<1>17. CASE \E d \in Drivers : RaiseAfterCoast(d)
  BY <1>17 DEF RaiseAfterCoast, Enter, CommandDone
<1>18. CASE \E d \in Drivers : BeginDriverWake(d)
  BY <1>18 DEF BeginDriverWake, Enter, CommandDone
<1>19. CASE \E d \in Drivers : EndDriverWakeDelay(d)
  BY <1>19 DEF EndDriverWakeDelay
<1>20. CASE \E d \in Drivers : ReadWakeInputs(d)
  BY <1>20 DEF ReadWakeInputs
<1>21. CASE \E d \in Drivers : CompleteDriverWake(d)
  BY <1>21 DEF CompleteDriverWake, CommandDone
<1>22. CASE IsolateFailedEnable
  BY <1>22 DEF IsolateFailedEnable, DisableAll, Sleep, CommandDone
<1>23. CASE SampleAndLatchFaultInputs("resample", "recheck")
  BY <1>23 DEF SampleAndLatchFaultInputs
<1>24. CASE RecheckAfterEnable
  BY <1>24 DEF RecheckAfterEnable, DisableAll, Sleep, CommandDone
<1>25. CASE WritePmode
  BY <1>25 DEF WritePmode
<1>26. CASE HostCommand
  <2>1. CASE \E d \in Drivers, dir \in Directions : DriveOne(d, dir)
    BY <2>1 DEF Accept, DriveOne
  <2>2. CASE \E dir \in Directions : DriveAll(dir)
    BY <2>2 DEF Accept, DriveAll, DisableAll, Sleep, CommandDone
  <2>3. CASE \E d \in Drivers : CoilOff("CoilOff", {d})
    BY <2>3 DEF Accept, CoilOff
  <2>4. CASE CoilOff("CoilOffAll", Drivers)
    BY <2>4 DEF Accept, CoilOff
  <2>5. CASE \E d \in Drivers : SleepOne(d)
    BY <2>5 DEF Accept, SleepOne, Sleep, CommandDone
  <2>6. CASE SleepAll
    BY <2>6 DEF Accept, SleepAll, DisableAll, Sleep, CommandDone
  <2>7. CASE \E d \in Drivers : Wake("Wake", {d})
    BY <2>7 DEF Accept, Wake
  <2>8. CASE Wake("WakeAll", Drivers)
    BY <2>8 DEF Accept, Wake
  <2>9. CASE \E d \in Drivers, c \in Currents : SetCurrent(d, c)
    BY <2>9 DEF Accept, SetCurrent
  <2>10. CASE \E c \in Currents : SetCurrentAll(c)
    BY <2>10 DEF Accept, SetCurrentAll
  <2>11. CASE BeginSetPmode
    BY <2>11 DEF Accept, BeginSetPmode
  <2>12. QED
    BY <1>26, <2>1, <2>2, <2>3, <2>4, <2>5, <2>6, <2>7, <2>8, <2>9,
       <2>10, <2>11 DEF HostCommand
<1>27. CASE EndPass
  BY <1>27 DEF EndPass
<1>28. CASE Tick
  BY <1>28 DEF Tick, AgesAdvance
<1>29. CASE UNCHANGED vars
  BY <1>29
<1>30. QED
  BY <1>1, <1>2, <1>3, <1>4, <1>5, <1>6, <1>7, <1>8, <1>9, <1>10, <1>11,
     <1>12, <1>13, <1>14, <1>15, <1>16, <1>17, <1>18, <1>19, <1>20, <1>21,
     <1>22, <1>23, <1>24, <1>25, <1>26, <1>27, <1>28, <1>29 DEF Next,
     Interrupts, SafetyPass, CommandStep, ManagerStep

\* A shutdown request is withdrawn for bridges whose VREF is zero.
LEMMA ServicedZeroStep ==
  ASSUME TypeOK, ServicedIsZeroed, [Next]_vars
  PROVE  ServicedIsZeroed'
<1> USE DEF ServicedIsZeroed, ZeroReference, TypeOK, DriverType,
       ControlType, At, Directions, States
<1>1. CASE \E l \in Lines : Environment(l)
  BY <1>1 DEF Environment, PinFalls, PinRises
<1>2. CASE \E d \in Drivers : DriverFaultIsr(d)
  BY <1>2 DEF DriverFaultIsr, AcceptEdge
<1>3. CASE PowerAlertIsr
  BY <1>3 DEF PowerAlertIsr, AcceptEdge
<1>4. CASE SampleAndLatchFaultInputs("sample", "readShutdowns")
  BY <1>4 DEF SampleAndLatchFaultInputs
<1>5. CASE ReadShutdowns
  BY <1>5 DEF ReadShutdowns
<1>6. CASE IsolateDrivers
  BY <1>6 DEF IsolateDrivers, Sleep
<1>7. CASE ClearShutdowns
  BY <1>7 DEF ClearShutdowns
<1>8. CASE SnapshotDrivers
  BY <1>8 DEF SnapshotDrivers
<1>9. CASE SnapshotPins
  BY <1>9 DEF SnapshotPins
<1>10. CASE ManagerStep /\ UNCHANGED coilVars
  BY <1>10 DEF ManagerStep, TakeSafetyEvent, UpdatePowerAlertCycle,
     SafeStatePolicyGlobal, SafeStatePolicyDriver, ValidateRelease,
     RequestAutomaticClear, QueueFaultReport, SkipFaultReport,
     ConfirmFaultReport, ReportSafeStateResult, TakeAutomaticClear,
     CompleteFaultClear
<1>11. CASE EnterSafeState
  BY <1>11 DEF EnterSafeState, DisableAll, Sleep
<1>12. CASE ClearFaultHardware
  BY <1>12 DEF ClearFaultHardware
<1>13. CASE ConfirmHardwareClear
  BY <1>13 DEF ConfirmHardwareClear
<1>14. CASE \E d \in Drivers : Energize(d)
  BY <1>14 DEF Energize, Enter
<1>15. CASE \E d \in Drivers : VerifyEnabled(d)
  BY <1>15 DEF VerifyEnabled
<1>16. CASE \E d \in Drivers : Coast(d)
  BY <1>16 DEF Coast, DisableAll, Sleep, CommandDone
<1>17. CASE \E d \in Drivers : RaiseAfterCoast(d)
  BY <1>17 DEF RaiseAfterCoast, Enter, CommandDone
<1>18. CASE \E d \in Drivers : BeginDriverWake(d)
  BY <1>18 DEF BeginDriverWake, Enter, CommandDone
<1>19. CASE \E d \in Drivers : EndDriverWakeDelay(d)
  BY <1>19 DEF EndDriverWakeDelay
<1>20. CASE \E d \in Drivers : ReadWakeInputs(d)
  BY <1>20 DEF ReadWakeInputs
<1>21. CASE \E d \in Drivers : CompleteDriverWake(d)
  BY <1>21 DEF CompleteDriverWake, CommandDone
<1>22. CASE IsolateFailedEnable
  BY <1>22 DEF IsolateFailedEnable, DisableAll, Sleep, CommandDone
<1>23. CASE SampleAndLatchFaultInputs("resample", "recheck")
  BY <1>23 DEF SampleAndLatchFaultInputs
<1>24. CASE RecheckAfterEnable
  BY <1>24 DEF RecheckAfterEnable, DisableAll, Sleep, CommandDone
<1>25. CASE WritePmode
  BY <1>25 DEF WritePmode
<1>26. CASE HostCommand
  <2>1. CASE \E d \in Drivers, dir \in Directions : DriveOne(d, dir)
    BY <2>1 DEF Accept, DriveOne
  <2>2. CASE \E dir \in Directions : DriveAll(dir)
    BY <2>2 DEF Accept, DriveAll, DisableAll, Sleep, CommandDone
  <2>3. CASE \E d \in Drivers : CoilOff("CoilOff", {d})
    BY <2>3 DEF Accept, CoilOff
  <2>4. CASE CoilOff("CoilOffAll", Drivers)
    BY <2>4 DEF Accept, CoilOff
  <2>5. CASE \E d \in Drivers : SleepOne(d)
    BY <2>5 DEF Accept, SleepOne, Sleep, CommandDone
  <2>6. CASE SleepAll
    BY <2>6 DEF Accept, SleepAll, DisableAll, Sleep, CommandDone
  <2>7. CASE \E d \in Drivers : Wake("Wake", {d})
    BY <2>7 DEF Accept, Wake
  <2>8. CASE Wake("WakeAll", Drivers)
    BY <2>8 DEF Accept, Wake
  <2>9. CASE \E d \in Drivers, c \in Currents : SetCurrent(d, c)
    BY <2>9 DEF Accept, SetCurrent
  <2>10. CASE \E c \in Currents : SetCurrentAll(c)
    BY <2>10 DEF Accept, SetCurrentAll
  <2>11. CASE BeginSetPmode
    BY <2>11 DEF Accept, BeginSetPmode
  <2>12. QED
    BY <1>26, <2>1, <2>2, <2>3, <2>4, <2>5, <2>6, <2>7, <2>8, <2>9,
       <2>10, <2>11 DEF HostCommand
<1>27. CASE EndPass
  BY <1>27 DEF EndPass
<1>28. CASE Tick
  BY <1>28 DEF Tick, AgesAdvance
<1>29. CASE UNCHANGED vars
  BY <1>29
<1>30. QED
  BY <1>1, <1>2, <1>3, <1>4, <1>5, <1>6, <1>7, <1>8, <1>9, <1>10, <1>11,
     <1>12, <1>13, <1>14, <1>15, <1>16, <1>17, <1>18, <1>19, <1>20, <1>21,
     <1>22, <1>23, <1>24, <1>25, <1>26, <1>27, <1>28, <1>29 DEF Next,
     Interrupts, SafetyPass, CommandStep, ManagerStep

\* Latching a line never cancels the handling of an alert, and latching a new
\* alert begins it.
LEMMA LatchKeepsPending ==
  ASSUME TypeOK, NEW F \in SUBSET Lines, LatchFaults(F),
         safetyEvent => safetyEvent'
  PROVE  /\ AlertPending => AlertPending'
         /\ PowerAlert \in F \ mask => AlertPending'
         /\ PowerAlert \in mask' => PowerAlert \in F \cup mask
BY DEF LatchFaults, AlertPending, TypeOK, ManagerType, LatchType, LinesType

\* A latched alert is handled or all is asleep, and nothing is woken under it.
LEMMA AlertStep ==
  ASSUME TypeOK, AlertIsHandled, CheckedIsPoweredDown, CoastingIsAwake,
     [Next]_vars
  PROVE  AlertIsHandled'
<1> USE DEF AlertIsHandled, CheckedIsPoweredDown, CoastingIsAwake, TypeOK,
       DriverType, ControlType, At, Directions, States, AlertPending,
       AllAsleep, LinesType, ManagerType, LatchType
<1>1. CASE \E l \in Lines : Environment(l)
  BY <1>1 DEF Environment, PinFalls, PinRises
<1>2. CASE \E d \in Drivers : DriverFaultIsr(d)
  BY <1>2 DEF DriverFaultIsr, AcceptEdge, LatchFaults
<1>3. CASE PowerAlertIsr
  BY <1>3 DEF PowerAlertIsr, AcceptEdge, LatchFaults
<1>4. CASE SampleAndLatchFaultInputs("sample", "readShutdowns")
  BY <1>4 DEF SampleAndLatchFaultInputs, LatchFaults
<1>5. CASE ReadShutdowns
  BY <1>5 DEF ReadShutdowns
<1>6. CASE IsolateDrivers
  BY <1>6 DEF IsolateDrivers, Sleep
<1>7. CASE ClearShutdowns
  BY <1>7 DEF ClearShutdowns
<1>8. CASE SnapshotDrivers
  BY <1>8 DEF SnapshotDrivers
<1>9. CASE SnapshotPins
  BY <1>9 DEF SnapshotPins
<1>10. CASE TakeSafetyEvent /\ UNCHANGED coilVars
  BY <1>10 DEF TakeSafetyEvent, ResetRecoveryTracking
<1>11. CASE UpdatePowerAlertCycle /\ UNCHANGED coilVars
  BY <1>11 DEF UpdatePowerAlertCycle
<1>12. CASE SafeStatePolicyGlobal /\ UNCHANGED coilVars
  BY <1>12 DEF SafeStatePolicyGlobal, HasGlobalFault
<1>13. CASE SafeStatePolicyDriver /\ UNCHANGED coilVars
  BY <1>13 DEF SafeStatePolicyDriver
<1>14. CASE ValidateRelease /\ UNCHANGED coilVars
  BY <1>14 DEF ValidateRelease
<1>15. CASE RequestAutomaticClear /\ UNCHANGED coilVars
  BY <1>15 DEF RequestAutomaticClear
<1>16. CASE QueueFaultReport /\ UNCHANGED coilVars
  BY <1>16 DEF QueueFaultReport
<1>17. CASE SkipFaultReport /\ UNCHANGED coilVars
  BY <1>17 DEF SkipFaultReport
<1>18. CASE ConfirmFaultReport /\ UNCHANGED coilVars
  BY <1>18 DEF ConfirmFaultReport
<1>19. CASE ReportSafeStateResult /\ UNCHANGED coilVars
  BY <1>19 DEF ReportSafeStateResult
<1>20. CASE TakeAutomaticClear /\ UNCHANGED coilVars
  BY <1>20 DEF TakeAutomaticClear, ResetRecoveryTracking
<1>21. CASE CompleteFaultClear /\ UNCHANGED coilVars
  BY <1>21 DEF CompleteFaultClear
<1>22. CASE EnterSafeState
  BY <1>22 DEF EnterSafeState, DisableAll, Sleep
<1>23. CASE ClearFaultHardware
  BY <1>23 DEF ClearFaultHardware
<1>24. CASE ConfirmHardwareClear
  BY <1>24 DEF ConfirmHardwareClear
<1>25. CASE \E d \in Drivers : Energize(d)
  BY <1>25 DEF Energize, Enter, CanEnergize
<1>26. CASE \E d \in Drivers : VerifyEnabled(d)
  BY <1>26 DEF VerifyEnabled, LatchFaults
<1>27. CASE \E d \in Drivers : Coast(d)
  BY <1>27 DEF Coast, DisableAll, Sleep, CommandDone
<1>28. CASE \E d \in Drivers : RaiseAfterCoast(d)
  BY <1>28 DEF RaiseAfterCoast, Enter, CommandDone
<1>29. CASE \E d \in Drivers : BeginDriverWake(d)
  BY <1>29 DEF BeginDriverWake, Enter, CommandDone, HasGlobalFault
<1>30. CASE \E d \in Drivers : EndDriverWakeDelay(d)
  BY <1>30 DEF EndDriverWakeDelay
<1>31. CASE \E d \in Drivers : ReadWakeInputs(d)
  BY <1>31 DEF ReadWakeInputs
<1>32. CASE \E d \in Drivers : CompleteDriverWake(d)
  BY <1>32 DEF CompleteDriverWake, CommandDone, LatchFaults
<1>33. CASE IsolateFailedEnable
  BY <1>33 DEF IsolateFailedEnable, DisableAll, Sleep, CommandDone
<1>34. CASE SampleAndLatchFaultInputs("resample", "recheck")
  BY <1>34 DEF SampleAndLatchFaultInputs, LatchFaults
<1>35. CASE RecheckAfterEnable
  BY <1>35 DEF RecheckAfterEnable, DisableAll, Sleep, CommandDone
<1>36. CASE WritePmode
  BY <1>36 DEF WritePmode
<1>37. CASE HostCommand
  <2>1. UNCHANGED keepSafety /\ pc' # "policyDriver"
    BY <1>37 DEF HostCommand, Accept, DriveOne, DriveAll, CoilOff, SleepOne,
       SleepAll, Wake, SetCurrent, SetCurrentAll, BeginSetPmode, CommandDone
  <2>2. \A d \in Drivers : state[d] = "Sleep" => state'[d] = "Sleep"
    BY <1>37 DEF HostCommand, DriveOne, DriveAll, CoilOff, SleepOne, SleepAll,
       Wake, SetCurrent, SetCurrentAll, BeginSetPmode, DisableAll, Sleep
  <2>3. QED
    BY <2>1, <2>2
<1>38. CASE EndPass
  BY <1>38 DEF EndPass
<1>39. CASE Tick
  BY <1>39 DEF Tick, AgesAdvance
<1>40. CASE UNCHANGED vars
  BY <1>40
<1>41. QED
  BY <1>1, <1>2, <1>3, <1>4, <1>5, <1>6, <1>7, <1>8, <1>9, <1>10, <1>11,
     <1>12, <1>13, <1>14, <1>15, <1>16, <1>17, <1>18, <1>19, <1>20, <1>21,
     <1>22, <1>23, <1>24, <1>25, <1>26, <1>27, <1>28, <1>29, <1>30, <1>31,
     <1>32, <1>33, <1>34, <1>35, <1>36, <1>37, <1>38, <1>39, <1>40 DEF Next,
     Interrupts, SafetyPass, CommandStep

\* Whatever can make a bridge fall asleep with its VREF applied is scheduled.
LEMMA HalfIsolatedStep ==
  ASSUME TypeOK, OneIsActive, HalfIsolatedIsScheduled, AlertIsHandled,
     CheckedIsPoweredDown, CoastingIsAwake, WokenWithoutReference,
     ServicedIsAsleep, ServicedIsZeroed, WakingIsActive,
     FaultedBridgeIsScheduled, SleepIsLow, [Next]_vars
  PROVE  HalfIsolatedIsScheduled'
<1> USE DEF HalfIsolatedIsScheduled, Scheduled, AlertIsHandled,
       CheckedIsPoweredDown, AllReferencesZero, TypeOK, DriverType,
       ControlType, At, Directions, States, AlertPending, AllAsleep, LinesType,
       ManagerType, LatchType
<1>1. CASE \E l \in Lines : Environment(l)
  BY <1>1 DEF Environment, PinFalls, PinRises
<1>2. CASE \E d \in Drivers : DriverFaultIsr(d)
  BY <1>2 DEF DriverFaultIsr, AcceptEdge, LatchFaults
<1>3. CASE PowerAlertIsr
  BY <1>3 DEF PowerAlertIsr, AcceptEdge, LatchFaults
<1>4. CASE SampleAndLatchFaultInputs("sample", "readShutdowns")
  BY <1>4 DEF SampleAndLatchFaultInputs, LatchFaults
<1>5. CASE ReadShutdowns
  BY <1>5 DEF ReadShutdowns
<1>6. CASE IsolateDrivers
  BY <1>6 DEF IsolateDrivers, Sleep, ZeroReference
<1>7. CASE ClearShutdowns
  BY <1>7 DEF ClearShutdowns, ServicedIsAsleep, ServicedIsZeroed
<1>8. CASE SnapshotDrivers
  BY <1>8 DEF SnapshotDrivers
<1>9. CASE SnapshotPins
  BY <1>9 DEF SnapshotPins
<1>10. CASE TakeSafetyEvent /\ UNCHANGED coilVars
  BY <1>10 DEF TakeSafetyEvent, ResetRecoveryTracking
<1>11. CASE UpdatePowerAlertCycle /\ UNCHANGED coilVars
  BY <1>11 DEF UpdatePowerAlertCycle
<1>12. CASE SafeStatePolicyGlobal /\ UNCHANGED coilVars
  BY <1>12 DEF SafeStatePolicyGlobal, HasGlobalFault
<1>13. CASE SafeStatePolicyDriver /\ UNCHANGED coilVars
  BY <1>13 DEF SafeStatePolicyDriver
<1>14. CASE ValidateRelease /\ UNCHANGED coilVars
  BY <1>14 DEF ValidateRelease
<1>15. CASE RequestAutomaticClear /\ UNCHANGED coilVars
  BY <1>15 DEF RequestAutomaticClear
<1>16. CASE QueueFaultReport /\ UNCHANGED coilVars
  BY <1>16 DEF QueueFaultReport
<1>17. CASE SkipFaultReport /\ UNCHANGED coilVars
  BY <1>17 DEF SkipFaultReport
<1>18. CASE ConfirmFaultReport /\ UNCHANGED coilVars
  BY <1>18 DEF ConfirmFaultReport
<1>19. CASE ReportSafeStateResult /\ UNCHANGED coilVars
  BY <1>19 DEF ReportSafeStateResult
<1>20. CASE TakeAutomaticClear /\ UNCHANGED coilVars
  BY <1>20 DEF TakeAutomaticClear, ResetRecoveryTracking
<1>21. CASE CompleteFaultClear /\ UNCHANGED coilVars
  BY <1>21 DEF CompleteFaultClear
<1>22. CASE EnterSafeState
  BY <1>22 DEF EnterSafeState, DisableAll, Sleep, ZeroReference
<1>23. CASE ClearFaultHardware
  BY <1>23 DEF ClearFaultHardware
<1>24. CASE ConfirmHardwareClear
  BY <1>24 DEF ConfirmHardwareClear
<1>25. CASE \E d \in Drivers : Energize(d)
  BY <1>25 DEF Energize, Enter, DeviceFault, SleepIsLow
<1>26. CASE \E d \in Drivers : VerifyEnabled(d)
  BY <1>26 DEF VerifyEnabled, LatchFaults
<1>27. CASE \E d \in Drivers : Coast(d)
  <2> PICK d \in Drivers : Coast(d)
    BY <1>27
  <2>1. /\ state[d] # "Sleep" /\ d \notin waking /\ edges = {}
        /\ UNCHANGED keepSafety
    BY DEF Coast, CoastingIsAwake, WakingIsActive, Masked
  <2>2. CASE ~DeviceFault(d)
    BY <2>1, <2>2 DEF Coast, DeviceFault
  <2>3. CASE DeviceFault(d) /\ all
    BY <2>1, <2>3 DEF Coast, DisableAll, Sleep, ZeroReference
  <2>4. CASE DeviceFault(d) /\ ~all
    <3>1. Scheduled(d)
      BY <2>1, <2>4 DEF DeviceFault
    <3>2. /\ \A e \in Drivers \ {d} : state'[e] = state[e]
          /\ state'[d] = "Sleep" /\ nSleep' = nSleep \ {d}
          /\ UNCHANGED <<applied, faultLatched, shutdown, waking>>
      BY <2>4 DEF Coast, Sleep
    <3>3. QED
      BY <2>1, <3>1, <3>2
  <2>5. QED
    BY <2>2, <2>3, <2>4
<1>28. CASE \E d \in Drivers : RaiseAfterCoast(d)
  BY <1>28 DEF RaiseAfterCoast, Enter, CommandDone, CoastingIsAwake,
     ZeroReference
<1>29. CASE \E d \in Drivers : BeginDriverWake(d)
  BY <1>29 DEF BeginDriverWake, Enter, CommandDone, HasGlobalFault,
     DeviceFault
<1>30. CASE \E d \in Drivers : EndDriverWakeDelay(d)
  BY <1>30 DEF EndDriverWakeDelay
<1>31. CASE \E d \in Drivers : ReadWakeInputs(d)
  BY <1>31 DEF ReadWakeInputs
<1>32. CASE \E d \in Drivers : CompleteDriverWake(d)
  BY <1>32 DEF CompleteDriverWake, CommandDone, LatchFaults,
     WokenWithoutReference, WakingIsActive
<1>33. CASE IsolateFailedEnable
  BY <1>33 DEF IsolateFailedEnable, DisableAll, Sleep, CommandDone,
     ZeroReference
<1>34. CASE SampleAndLatchFaultInputs("resample", "recheck")
  BY <1>34 DEF SampleAndLatchFaultInputs, LatchFaults
<1>35. CASE RecheckAfterEnable
  <2> USE <1>35
  <2>1. waking = {} /\ edges = {} /\ UNCHANGED keepSafety
    BY DEF RecheckAfterEnable, WakingIsActive, Masked
  <2>2. CASE UNCHANGED driverVars /\ UNCHANGED controlVars
    BY <2>1, <2>2
  <2>3. CASE DisableAll
    BY <2>1, <2>3 DEF DisableAll, Sleep, ZeroReference
  <2>4. CASE /\ ~all /\ Sleep(active)
             /\ \E d \in active : HasFault(d)
             /\ UNCHANGED <<threshold, applied, faultLatched, pmode,
                            controlVars>>
    <3>1. PICK d \in Drivers : HasFault(d) /\ active = {d}
      BY <2>4 DEF OneIsActive
    <3>2. state[d] # "Sleep" => Scheduled(d)
      BY <2>1, <3>1 DEF HasFault, LiveFault, DeviceFault,
         FaultedBridgeIsScheduled
    <3>3. /\ \A e \in Drivers \ {d} : state'[e] = state[e]
          /\ state'[d] = "Sleep" /\ nSleep' = nSleep \ {d}
          /\ UNCHANGED <<applied, faultLatched, shutdown, waking>>
      BY <2>4, <3>1 DEF Sleep
    <3>4. QED
      BY <2>1, <3>2, <3>3
  <2>5. QED
    BY <2>2, <2>3, <2>4 DEF RecheckAfterEnable
<1>36. CASE WritePmode
  BY <1>36 DEF WritePmode
<1>37. CASE HostCommand
  BY <1>37 DEF HostCommand, Accept, DriveOne, DriveAll, CoilOff, SleepOne,
     SleepAll, Wake, SetCurrent, SetCurrentAll, BeginSetPmode, DisableAll,
     Sleep, CommandDone, ApplyReference, ZeroReference, SetThreshold
<1>38. CASE EndPass
  BY <1>38 DEF EndPass
<1>39. CASE Tick
  BY <1>39 DEF Tick, AgesAdvance
<1>40. CASE UNCHANGED vars
  BY <1>40
<1>41. QED
  BY <1>1, <1>2, <1>3, <1>4, <1>5, <1>6, <1>7, <1>8, <1>9, <1>10, <1>11,
     <1>12, <1>13, <1>14, <1>15, <1>16, <1>17, <1>18, <1>19, <1>20, <1>21,
     <1>22, <1>23, <1>24, <1>25, <1>26, <1>27, <1>28, <1>29, <1>30, <1>31,
     <1>32, <1>33, <1>34, <1>35, <1>36, <1>37, <1>38, <1>39, <1>40 DEF Next,
     Interrupts, SafetyPass, CommandStep

\* The strengthening under which no sleeping bridge keeps a reference for good.
ReferenceInv ==
  /\ WakingIsActive /\ CoastingIsAwake
  /\ ServicedIsAsleep /\ ClearedIsAsleep /\ FaultedBridgeIsScheduled
  /\ SleepIsLow /\ CheckedIsPoweredDown
  /\ OneIsActive /\ WokenWithoutReference /\ ServicedIsZeroed
  /\ AlertIsHandled /\ HalfIsolatedIsScheduled

\* A failed command may leave VREF applied to a bridge it put to sleep; a
\* shutdown request or the safe state is then under way that zeroes it, even when
\* the policy of driver faults overwrote the request of an alert.
THEOREM SleepingReferenceTheorem == Spec => []SleepingReferenceIsScheduled
<1>1. Init => ReferenceInv
  BY DEF Init, DriverInit, ManagerInit, ReferenceInv, WakingIsActive,
     CoastingIsAwake, ServicedIsAsleep, ClearedIsAsleep,
     FaultedBridgeIsScheduled, CheckedIsPoweredDown, OneIsActive,
     WokenWithoutReference,
     ServicedIsZeroed, SleepIsLow, AlertIsHandled, AlertPending, HalfIsolatedIsScheduled,
     AllAsleep
<1>2. TypeOK /\ ReferenceInv /\ [Next]_vars => ReferenceInv'
  <2> SUFFICES ASSUME TypeOK, ReferenceInv, [Next]_vars PROVE ReferenceInv'
    OBVIOUS
  <2>1. WakingIsActive' /\ CoastingIsAwake'
    BY WakingStep, CoastingStep DEF ReferenceInv
  <2>2. ServicedIsAsleep' /\ ClearedIsAsleep' /\ FaultedBridgeIsScheduled'
    BY ServicedStep, ClearedStep, ScheduledStep DEF ReferenceInv
  <2>3. SleepIsLow' /\ CheckedIsPoweredDown'
    BY SleepIsLowStep, CheckedStep DEF ReferenceInv
  <2>4. OneIsActive' /\ WokenWithoutReference' /\ ServicedIsZeroed'
    BY OneActiveStep, WokenStep, ServicedZeroStep DEF ReferenceInv
  <2>5. AlertIsHandled' /\ HalfIsolatedIsScheduled'
    BY AlertStep, HalfIsolatedStep DEF ReferenceInv
  <2>6. QED
    BY <2>1, <2>2, <2>3, <2>4, <2>5 DEF ReferenceInv
<1>3. ReferenceInv => SleepingReferenceIsScheduled
  BY DEF ReferenceInv, HalfIsolatedIsScheduled, Scheduled, AlertPending,
     SleepingReferenceIsScheduled
<1>4. QED
  BY <1>1, <1>2, <1>3, TypeCorrect, PTL DEF Spec
=============================================================================

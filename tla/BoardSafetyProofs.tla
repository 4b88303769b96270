------------------------- MODULE BoardSafetyProofs -------------------------
(***************************************************************************)
(* BoardSafety keeps its types, and its interlock, for every set of         *)
(* bridges, every bound on the falling edges, every interval and every      *)
(* command set.                                                             *)
(***************************************************************************)
EXTENDS BoardSafety, FiniteSetTheorems, TLAPS

USE LinesAssumption, IntervalAssumption, CurrentsAssumption

USE DEF vars, lineVars, managerVars, latchVars, setupVars, releaseVars,
        autoVars, cycleVars, localVars, coilVars, driverVars, controlVars,
        commandVars, keepManager, keepSafety, Goto

-----------------------------------------------------------------------------
(* Latching.                                                                *)

\* The lines are finitely many, so the number of newly latched ones is a
\* natural number.
LEMMA NewLinesAreCounted ==
  ASSUME NEW F \in SUBSET Lines
  PROVE  Cardinality(F \ mask) \in Nat
<1>1. IsFiniteSet(Lines)
  BY FS_AddElement DEF Lines
<1>2. IsFiniteSet(F \ mask)
  BY <1>1, FS_Subset
<1>3. QED
  BY <1>2, FS_CardinalityType

\* recordFault keeps the latch variables well typed.
LEMMA LatchFaultsType ==
  ASSUME LatchType, NEW F \in SUBSET Lines, LatchFaults(F)
  PROVE  LatchType'
<1>1. Cardinality(F \ mask) \in Nat
  BY NewLinesAreCounted
<1>2. epoch' \in Epochs
  BY <1>1 DEF LatchFaults, LatchType, Epochs
<1>3. QED
  BY <1>2, Zenon DEF LatchFaults, LatchType

-----------------------------------------------------------------------------
(* Type correctness.  A step that leaves a group of variables alone leaves  *)
(* its type alone.                                                          *)

\* The types of the safety lines, when no line variable changes.
LEMMA KeepLines == LinesType /\ UNCHANGED lineVars => LinesType'
BY DEF LinesType

\* The types of the fault latch, when it does not change.
LEMMA KeepLatch == LatchType /\ UNCHANGED latchVars => LatchType'
BY DEF LatchType

\* The types of the safety manager, when none of its variables changes.
LEMMA KeepManager == ManagerType /\ UNCHANGED managerVars => ManagerType'
<1> SUFFICES ASSUME ManagerType, UNCHANGED managerVars PROVE ManagerType'
  OBVIOUS
<1>1. LatchType' /\ SetupType' /\ ReleaseType'
  BY DEF ManagerType, LatchType, SetupType, ReleaseType
<1>2. AutoType' /\ CycleType' /\ LocalType'
  BY DEF ManagerType, AutoType, CycleType, LocalType
<1>3. QED
  BY <1>1, <1>2 DEF ManagerType

\* The types of the bridges and of the command, when they do not change.
LEMMA KeepCoils ==
  DriverType /\ ControlType /\ UNCHANGED coilVars => DriverType' /\ ControlType'
BY DEF DriverType, ControlType

\* A step that latches lines and touches no other variable of the manager.
LEMMA LatchOrKeepManager ==
  ASSUME ManagerType, UNCHANGED keepManager,
         UNCHANGED latchVars \/ \E F \in SUBSET Lines : LatchFaults(F)
  PROVE  ManagerType'
<1>1. LatchType'
  BY KeepLatch, LatchFaultsType DEF ManagerType
<1>2. SetupType' /\ ReleaseType' /\ AutoType' /\ CycleType'
  BY DEF ManagerType, SetupType, ReleaseType, AutoType, CycleType
<1>3. LocalType'
  BY DEF ManagerType, LocalType
<1>4. QED
  BY <1>1, <1>2, <1>3 DEF ManagerType

\* The boot states are well typed.
LEMMA TypeInit == Init => TypeOK
<1> SUFFICES ASSUME Init PROVE TypeOK
  OBVIOUS
<1> PICK alertAtBoot \in BOOLEAN :
      /\ falls = IF alertAtBoot THEN 1 ELSE 0
      /\ ManagerInit(alertAtBoot)
  BY DEF Init
<1>1. pc \in ControlPoints
  BY DEF Init, ControlPoints
<1>2. LinesType
  <2>1. falls \in 0 .. MaxFalls
    BY LinesAssumption
  <2>2. low \subseteq Lines /\ edges \subseteq Lines /\ safetyEvent \in BOOLEAN
    BY DEF Init
  <2>3. QED
    BY <2>1, <2>2 DEF LinesType
<1>3. ManagerType
  <2>1. LatchType /\ SetupType
    BY DEF ManagerInit, LatchType, SetupType, Epochs, Lines
  <2>2. ReleaseType
    <3>1. releaseAge \in 0 .. ReleaseValidation
      BY DEF ManagerInit
    <3>2. QED
      BY <3>1 DEF ManagerInit, ReleaseType, Epochs
  <2>3. CycleType /\ AutoType
    <3>1. windowAge \in 0 .. RepeatWindow
      BY DEF ManagerInit
    <3>2. QED
      BY <3>1 DEF ManagerInit, CycleType, AutoType, Epochs
  <2>4. LocalType
    BY DEF ManagerInit, LocalType, NoSnapshot, Epochs
  <2>5. QED
    BY <2>1, <2>2, <2>3, <2>4 DEF ManagerType
<1>4. DriverType /\ ControlType
  BY DEF Init, DriverInit, DriverType, ControlType, States
<1>5. QED
  BY <1>1, <1>2, <1>3, <1>4 DEF TypeOK

\* The environment and the interrupt handlers.
LEMMA TypeInterrupts ==
  ASSUME TypeOK, (\E l \in Lines : Environment(l)) \/ Interrupts
  PROVE  TypeOK'
<1> USE DEF TypeOK
<1>1. CASE \E l \in Lines : Environment(l)
  <2>1. LinesType'
    BY <1>1 DEF Environment, PinFalls, PinRises, LinesType
  <2>2. UNCHANGED <<pc, managerVars, coilVars>>
    BY <1>1 DEF Environment
  <2>3. QED
    BY <2>1, <2>2, KeepManager, KeepCoils
<1>2. CASE \E d \in Drivers : DriverFaultIsr(d)
  <2> PICK d \in Drivers : DriverFaultIsr(d)
    BY <1>2
  <2>1. LinesType' /\ pc' = pc
    BY DEF DriverFaultIsr, AcceptEdge, LinesType
  <2>2. ManagerType'
    BY LatchOrKeepManager DEF DriverFaultIsr, Lines
  <2>3. DriverType' /\ ControlType'
    BY DEF DriverFaultIsr, DriverType, ControlType
  <2>4. QED
    BY <2>1, <2>2, <2>3
<1>3. CASE PowerAlertIsr
  <2>1. LinesType' /\ pc' = pc
    BY <1>3 DEF PowerAlertIsr, AcceptEdge, LinesType
  <2>2. ManagerType'
    BY <1>3, LatchOrKeepManager DEF PowerAlertIsr, Lines
  <2>3. DriverType' /\ ControlType'
    BY <1>3 DEF PowerAlertIsr, DriverType, ControlType
  <2>4. QED
    BY <2>1, <2>2, <2>3
<1>4. QED
  BY <1>1, <1>2, <1>3 DEF Interrupts

\* The manager's steps leave the bridges alone.
ManagerStep ==
  \/ TakeSafetyEvent
  \/ UpdatePowerAlertCycle
  \/ SafeStatePolicyGlobal
  \/ SafeStatePolicyDriver
  \/ ValidateRelease
  \/ RequestAutomaticClear
  \/ QueueFaultReport
  \/ SkipFaultReport
  \/ ConfirmFaultReport
  \/ ReportSafeStateResult
  \/ TakeAutomaticClear
  \/ CompleteFaultClear

\* A step of the safety manager alone keeps every type.
LEMMA TypeManagerStep ==
  ASSUME TypeOK, ManagerStep, UNCHANGED coilVars
  PROVE  TypeOK'
<1> USE DEF TypeOK, ManagerType
<1>1. DriverType' /\ ControlType'
  BY KeepCoils
<1>2. SetupType'
  BY DEF ManagerStep, SetupType, TakeSafetyEvent, UpdatePowerAlertCycle,
     SafeStatePolicyGlobal, SafeStatePolicyDriver, ValidateRelease,
     RequestAutomaticClear, QueueFaultReport, SkipFaultReport,
     ConfirmFaultReport, ReportSafeStateResult, TakeAutomaticClear,
     CompleteFaultClear
<1>3. CASE TakeSafetyEvent
  <2> USE <1>3 DEF TakeSafetyEvent, ResetRecoveryTracking, ResetRelease
  <2>1. LinesType' /\ pc' \in ControlPoints
    BY DEF LinesType, ControlPoints
  <2>2. LatchType'
    BY DEF LatchType, LocalType
  <2>3. ReleaseType' /\ AutoType'
    <3>1. releaseAge' \in 0 .. ReleaseValidation
      BY DEF ReleaseType
    <3>2. releaseTiming' \in BOOLEAN /\ releaseEpoch' \in Epochs
      BY DEF ReleaseType, LatchType, Epochs
    <3>3. AutoType'
      BY DEF AutoType, Epochs
    <3>4. QED
      BY ONLY <3>1, <3>2, <3>3 DEF ReleaseType
  <2>4. CycleType'
    BY DEF CycleType
  <2>5. LocalType'
    <3>1. sawEvent' \in BOOLEAN
      BY DEF LinesType
    <3>2. QED
      BY <3>1 DEF LocalType
  <2>6. QED
    BY ONLY <1>1, <1>2, <2>1, <2>2, <2>3, <2>4, <2>5 DEF TypeOK, ManagerType
<1>4. CASE UpdatePowerAlertCycle
  <2> USE <1>4 DEF UpdatePowerAlertCycle
  <2>1. LinesType' /\ pc' \in ControlPoints
    BY DEF LinesType, ControlPoints
  <2>2. LatchType'
    BY DEF LatchType, LocalType
  <2>3. ReleaseType' /\ AutoType'
    BY DEF ReleaseType, AutoType, LatchType, Epochs
  <2>4. CycleType'
    <3>1. windowAge' \in 0 .. RepeatWindow
      BY DEF CycleType
    <3>2. cycleActive' \in BOOLEAN /\ windowActive' \in BOOLEAN
      BY DEF CycleType
    <3>3. requiresAck' \in BOOLEAN
      BY DEF CycleType
    <3>4. QED
      BY ONLY <3>1, <3>2, <3>3 DEF CycleType
  <2>5. LocalType'
    BY DEF LocalType, LatchType, AutoType, Epochs
  <2>6. QED
    BY ONLY <1>1, <1>2, <2>1, <2>2, <2>3, <2>4, <2>5 DEF TypeOK, ManagerType
<1>5. CASE SafeStatePolicyGlobal
  <2> USE <1>5 DEF SafeStatePolicyGlobal
  <2>1. LinesType' /\ pc' \in ControlPoints
    BY DEF LinesType, ControlPoints
  <2>2. LatchType'
    BY DEF LatchType, LocalType
  <2>3. ReleaseType' /\ AutoType'
    BY DEF ReleaseType, AutoType, LatchType, Epochs
  <2>4. CycleType'
    BY DEF CycleType
  <2>5. LocalType'
    BY DEF LocalType, LatchType, AutoType, Epochs
  <2>6. QED
    BY ONLY <1>1, <1>2, <2>1, <2>2, <2>3, <2>4, <2>5 DEF TypeOK, ManagerType
<1>6. CASE SafeStatePolicyDriver
  <2> USE <1>6 DEF SafeStatePolicyDriver
  <2>1. LinesType' /\ pc' \in ControlPoints
    BY DEF LinesType, ControlPoints
  <2>2. LatchType'
    BY DEF LatchType, LocalType
  <2>3. ReleaseType' /\ AutoType'
    BY DEF ReleaseType, AutoType, LatchType, Epochs
  <2>4. CycleType'
    BY DEF CycleType
  <2>5. LocalType'
    BY DEF LocalType, LatchType, AutoType, Epochs
  <2>6. QED
    BY ONLY <1>1, <1>2, <2>1, <2>2, <2>3, <2>4, <2>5 DEF TypeOK, ManagerType
<1>7. CASE ValidateRelease
  <2> USE <1>7 DEF ValidateRelease, ResetRelease
  <2>1. LinesType' /\ pc' \in ControlPoints
    BY DEF LinesType, ControlPoints
  <2>2. LatchType'
    BY DEF LatchType, LocalType
  <2>3. ReleaseType' /\ AutoType'
    <3>1. releaseAge' \in 0 .. ReleaseValidation
      BY DEF ReleaseType
    <3>2. releaseTiming' \in BOOLEAN /\ releaseEpoch' \in Epochs
      BY DEF ReleaseType, LatchType, Epochs
    <3>3. AutoType'
      BY DEF AutoType, Epochs
    <3>4. QED
      BY ONLY <3>1, <3>2, <3>3 DEF ReleaseType
  <2>4. CycleType'
    BY DEF CycleType
  <2>5. LocalType'
    BY DEF LocalType, LatchType, AutoType, Epochs
  <2>6. QED
    BY ONLY <1>1, <1>2, <2>1, <2>2, <2>3, <2>4, <2>5 DEF TypeOK, ManagerType
<1>8. CASE RequestAutomaticClear
  <2> USE <1>8 DEF RequestAutomaticClear, NoSnapshot
  <2>1. LinesType' /\ pc' \in ControlPoints
    BY DEF LinesType, ControlPoints
  <2>2. LatchType'
    BY DEF LatchType, LocalType
  <2>3. ReleaseType' /\ AutoType'
    BY DEF ReleaseType, AutoType, LatchType, Epochs
  <2>4. CycleType'
    BY DEF CycleType
  <2>5. LocalType'
    BY DEF LocalType, LatchType, AutoType, Epochs
  <2>6. QED
    BY ONLY <1>1, <1>2, <2>1, <2>2, <2>3, <2>4, <2>5 DEF TypeOK, ManagerType
<1>9. CASE QueueFaultReport
  <2> USE <1>9 DEF QueueFaultReport
  <2>1. LinesType' /\ pc' \in ControlPoints
    BY DEF LinesType, ControlPoints
  <2>2. LatchType'
    BY DEF LatchType, LocalType
  <2>3. ReleaseType' /\ AutoType'
    BY DEF ReleaseType, AutoType, LatchType, Epochs
  <2>4. CycleType'
    BY DEF CycleType
  <2>5. LocalType'
    BY DEF LocalType, LatchType, AutoType, Epochs
  <2>6. QED
    BY ONLY <1>1, <1>2, <2>1, <2>2, <2>3, <2>4, <2>5 DEF TypeOK, ManagerType
<1>10. CASE SkipFaultReport
  <2> USE <1>10 DEF SkipFaultReport
  <2>1. LinesType' /\ pc' \in ControlPoints
    BY DEF LinesType, ControlPoints
  <2>2. LatchType'
    BY DEF LatchType, LocalType
  <2>3. ReleaseType' /\ AutoType'
    BY DEF ReleaseType, AutoType, LatchType, Epochs
  <2>4. CycleType'
    BY DEF CycleType
  <2>5. LocalType'
    BY DEF LocalType, LatchType, AutoType, Epochs
  <2>6. QED
    BY ONLY <1>1, <1>2, <2>1, <2>2, <2>3, <2>4, <2>5 DEF TypeOK, ManagerType
<1>11. CASE ConfirmFaultReport
  <2> USE <1>11 DEF ConfirmFaultReport
  <2>1. LinesType' /\ pc' \in ControlPoints
    BY DEF LinesType, ControlPoints
  <2>2. LatchType'
    BY DEF LatchType, LocalType
  <2>3. ReleaseType' /\ AutoType'
    BY DEF ReleaseType, AutoType, LatchType, Epochs
  <2>4. CycleType'
    BY DEF CycleType
  <2>5. LocalType'
    BY DEF LocalType, LatchType, AutoType, Epochs
  <2>6. QED
    BY ONLY <1>1, <1>2, <2>1, <2>2, <2>3, <2>4, <2>5 DEF TypeOK, ManagerType
<1>12. CASE ReportSafeStateResult
  <2> USE <1>12 DEF ReportSafeStateResult
  <2>1. LinesType' /\ pc' \in ControlPoints
    BY DEF LinesType, ControlPoints
  <2>2. LatchType'
    BY DEF LatchType, LocalType
  <2>3. ReleaseType' /\ AutoType'
    BY DEF ReleaseType, AutoType, LatchType, Epochs
  <2>4. CycleType'
    BY DEF CycleType
  <2>5. LocalType'
    BY DEF LocalType, LatchType, AutoType, Epochs
  <2>6. QED
    BY ONLY <1>1, <1>2, <2>1, <2>2, <2>3, <2>4, <2>5 DEF TypeOK, ManagerType
<1>13. CASE TakeAutomaticClear
  <2> USE <1>13 DEF TakeAutomaticClear, ResetRecoveryTracking, ResetRelease
  <2>1. LinesType' /\ pc' \in ControlPoints
    BY DEF LinesType, ControlPoints
  <2>2. LatchType'
    BY DEF LatchType, LocalType
  <2>3. ReleaseType' /\ AutoType'
    <3>1. releaseAge' \in 0 .. ReleaseValidation
      BY DEF ReleaseType
    <3>2. releaseTiming' \in BOOLEAN /\ releaseEpoch' \in Epochs
      BY DEF ReleaseType, LatchType, Epochs
    <3>3. AutoType'
      BY DEF AutoType, Epochs
    <3>4. QED
      BY ONLY <3>1, <3>2, <3>3 DEF ReleaseType
  <2>4. CycleType'
    BY DEF CycleType
  <2>5. LocalType'
    BY DEF LocalType, LatchType, AutoType, Epochs
  <2>6. QED
    BY ONLY <1>1, <1>2, <2>1, <2>2, <2>3, <2>4, <2>5 DEF TypeOK, ManagerType
<1>14. CASE CompleteFaultClear
  <2> USE <1>14 DEF CompleteFaultClear
  <2>1. LinesType' /\ pc' \in ControlPoints
    BY DEF LinesType, ControlPoints
  <2>2. LatchType'
    BY DEF LatchType, LocalType
  <2>3. ReleaseType' /\ AutoType'
    BY DEF ReleaseType, AutoType, LatchType, Epochs
  <2>4. CycleType'
    <3>1. windowAge' \in 0 .. RepeatWindow
      BY DEF CycleType
    <3>2. cycleActive' \in BOOLEAN /\ windowActive' \in BOOLEAN
      BY DEF CycleType
    <3>3. requiresAck' \in BOOLEAN
      BY DEF CycleType
    <3>4. QED
      BY ONLY <3>1, <3>2, <3>3 DEF CycleType
  <2>5. LocalType'
    BY DEF LocalType, LatchType, AutoType, Epochs
  <2>6. QED
    BY ONLY <1>1, <1>2, <2>1, <2>2, <2>3, <2>4, <2>5 DEF TypeOK, ManagerType
<1>15. QED
  BY <1>3, <1>4, <1>5, <1>6, <1>7, <1>8, <1>9, <1>10, <1>11, <1>12, <1>13, <1>14
     DEF ManagerStep

\* The rest of the safety pass.
LEMMA TypeSafetyPass ==
  ASSUME TypeOK, SafetyPass
  PROVE  TypeOK'
<1> USE DEF TypeOK
<1>1. CASE SampleAndLatchFaultInputs("sample", "readShutdowns")
  <2> USE <1>1 DEF SampleAndLatchFaultInputs
  <2>1. LinesType' /\ pc' \in ControlPoints
    BY DEF LinesType, ControlPoints
  <2>2. ManagerType'
    BY LatchOrKeepManager DEF Lines, LinesType
  <2>3. DriverType'
    BY DEF DriverType, States, Directions, ControlType
  <2>4. ControlType'
    BY DEF ControlType, States, Directions, Lines, LinesType
  <2>5. QED
    BY <2>1, <2>2, <2>3, <2>4
<1>2. CASE ReadShutdowns
  <2> USE <1>2 DEF ReadShutdowns
  <2>1. LinesType' /\ pc' \in ControlPoints
    BY DEF LinesType, ControlPoints
  <2>2. ManagerType'
    BY KeepManager
  <2>3. DriverType'
    BY DEF DriverType, States, Directions, ControlType
  <2>4. ControlType'
    BY DEF ControlType, States, Directions, Lines, LinesType
  <2>5. QED
    BY <2>1, <2>2, <2>3, <2>4
<1>3. CASE IsolateDrivers
  <2> USE <1>3 DEF IsolateDrivers, Sleep, ZeroReference
  <2>1. LinesType' /\ pc' \in ControlPoints
    BY DEF LinesType, ControlPoints
  <2>2. ManagerType'
    BY KeepManager
  <2>3. DriverType'
    BY DEF DriverType, States, Directions, ControlType
  <2>4. ControlType'
    BY DEF ControlType, States, Directions, Lines, LinesType
  <2>5. QED
    BY <2>1, <2>2, <2>3, <2>4
<1>4. CASE ClearShutdowns
  <2> USE <1>4 DEF ClearShutdowns
  <2>1. LinesType' /\ pc' \in ControlPoints
    BY DEF LinesType, ControlPoints
  <2>2. ManagerType'
    BY KeepManager
  <2>3. DriverType'
    BY DEF DriverType, States, Directions, ControlType
  <2>4. ControlType'
    BY DEF ControlType, States, Directions, Lines, LinesType
  <2>5. QED
    BY <2>1, <2>2, <2>3, <2>4
<1>5. CASE SnapshotDrivers
  <2> USE <1>5 DEF SnapshotDrivers
  <2>1. LinesType' /\ pc' \in ControlPoints
    BY DEF LinesType, ControlPoints
  <2>2. ManagerType'
    <3>1. LatchType' /\ SetupType' /\ ReleaseType'
      BY DEF ManagerType, LatchType, SetupType, ReleaseType
    <3>2. AutoType' /\ CycleType'
      BY DEF ManagerType, AutoType, CycleType
    <3>3. LocalType'
      BY DEF ManagerType, LocalType, Epochs
    <3>4. QED
      BY <3>1, <3>2, <3>3 DEF ManagerType
  <2>3. DriverType'
    BY DEF DriverType, States, Directions, ControlType
  <2>4. ControlType'
    BY DEF ControlType, States, Directions, Lines, LinesType
  <2>5. QED
    BY <2>1, <2>2, <2>3, <2>4
<1>6. CASE SnapshotPins
  <2> USE <1>6 DEF SnapshotPins
  <2>1. LinesType' /\ pc' \in ControlPoints
    BY DEF LinesType, ControlPoints
  <2>2. ManagerType'
    <3>1. LatchType' /\ SetupType' /\ ReleaseType'
      BY DEF ManagerType, LatchType, SetupType, ReleaseType
    <3>2. AutoType' /\ CycleType'
      BY DEF ManagerType, AutoType, CycleType
    <3>3. LocalType'
      BY DEF ManagerType, LocalType, Epochs
    <3>4. QED
      BY <3>1, <3>2, <3>3 DEF ManagerType
  <2>3. DriverType'
    BY DEF DriverType, States, Directions, ControlType
  <2>4. ControlType'
    BY DEF ControlType, States, Directions, Lines, LinesType
  <2>5. QED
    BY <2>1, <2>2, <2>3, <2>4
<1>7. CASE EnterSafeState
  <2> USE <1>7 DEF EnterSafeState, DisableAll, Sleep, ZeroReference
  <2>1. LinesType' /\ pc' \in ControlPoints
    BY DEF LinesType, ControlPoints
  <2>2. ManagerType'
    BY KeepManager
  <2>3. DriverType'
    BY DEF DriverType, States, Directions, ControlType
  <2>4. ControlType'
    BY DEF ControlType, States, Directions, Lines, LinesType
  <2>5. QED
    BY <2>1, <2>2, <2>3, <2>4
<1>8. CASE ClearFaultHardware
  <2> USE <1>8 DEF ClearFaultHardware
  <2>1. LinesType' /\ pc' \in ControlPoints
    BY DEF LinesType, ControlPoints
  <2>2. ManagerType'
    <3>1. LatchType' /\ SetupType' /\ ReleaseType'
      BY DEF ManagerType, LatchType, SetupType, ReleaseType
    <3>2. AutoType' /\ CycleType'
      BY DEF ManagerType, AutoType, CycleType
    <3>3. LocalType'
      BY DEF ManagerType, LocalType, Epochs
    <3>4. QED
      BY <3>1, <3>2, <3>3 DEF ManagerType
  <2>3. DriverType'
    BY DEF DriverType, States, Directions, ControlType
  <2>4. ControlType'
    BY DEF ControlType, States, Directions, Lines, LinesType
  <2>5. QED
    BY <2>1, <2>2, <2>3, <2>4
<1>9. CASE ConfirmHardwareClear
  <2> USE <1>9 DEF ConfirmHardwareClear
  <2>1. LinesType' /\ pc' \in ControlPoints
    BY DEF LinesType, ControlPoints
  <2>2. ManagerType'
    <3>1. LatchType' /\ SetupType' /\ ReleaseType'
      BY DEF ManagerType, LatchType, SetupType, ReleaseType
    <3>2. AutoType' /\ CycleType'
      BY DEF ManagerType, AutoType, CycleType
    <3>3. LocalType'
      BY DEF ManagerType, LocalType, Epochs
    <3>4. QED
      BY <3>1, <3>2, <3>3 DEF ManagerType
  <2>3. DriverType'
    BY DEF DriverType, States, Directions, ControlType
  <2>4. ControlType'
    BY DEF ControlType, States, Directions, Lines, LinesType
  <2>5. QED
    BY <2>1, <2>2, <2>3, <2>4
<1>10. CASE ManagerStep /\ UNCHANGED coilVars
  BY <1>10, TypeManagerStep
<1>11. QED
  BY <1>1, <1>2, <1>3, <1>4, <1>5, <1>6, <1>7, <1>8, <1>9, <1>10
     DEF SafetyPass, ManagerStep

\* A command in progress.
LEMMA TypeCommandStep ==
  ASSUME TypeOK, CommandStep
  PROVE  TypeOK'
<1> USE DEF TypeOK, CommandDone
<1>1. CASE \E d \in Drivers : Energize(d)
  <2> PICK d \in Drivers : Energize(d)
    BY <1>1
  <2> USE DEF Energize, Enter
  <2>1. LinesType' /\ pc' \in ControlPoints
    BY DEF LinesType, ControlPoints
  <2>2. ManagerType'
    BY KeepManager
  <2>3. DriverType'
    BY DEF DriverType, States, Directions, ControlType
  <2>4. ControlType'
    BY DEF ControlType, States, Directions, Lines, LinesType
  <2>5. QED
    BY <2>1, <2>2, <2>3, <2>4
<1>2. CASE \E d \in Drivers : VerifyEnabled(d)
  <2> PICK d \in Drivers : VerifyEnabled(d)
    BY <1>2
  <2> USE DEF VerifyEnabled
  <2>1. LinesType' /\ pc' \in ControlPoints
    BY DEF LinesType, ControlPoints
  <2>2. ManagerType'
    BY LatchOrKeepManager DEF Lines, LinesType
  <2>3. DriverType'
    BY DEF DriverType, States, Directions, ControlType
  <2>4. ControlType'
    BY DEF ControlType, States, Directions, Lines, LinesType
  <2>5. QED
    BY <2>1, <2>2, <2>3, <2>4
<1>3. CASE \E d \in Drivers : Coast(d)
  <2> PICK d \in Drivers : Coast(d)
    BY <1>3
  <2> USE DEF Coast, DisableAll, Sleep, ZeroReference
  <2>1. LinesType' /\ pc' \in ControlPoints
    BY DEF LinesType, ControlPoints
  <2>2. ManagerType'
    BY KeepManager
  <2>3. DriverType'
    BY DEF DriverType, States, Directions, ControlType
  <2>4. ControlType'
    BY DEF ControlType, States, Directions, Lines, LinesType
  <2>5. QED
    BY <2>1, <2>2, <2>3, <2>4
<1>4. CASE \E d \in Drivers : RaiseAfterCoast(d)
  <2> PICK d \in Drivers : RaiseAfterCoast(d)
    BY <1>4
  <2> USE DEF RaiseAfterCoast, Enter, ZeroReference
  <2>1. LinesType' /\ pc' \in ControlPoints
    BY DEF LinesType, ControlPoints
  <2>2. ManagerType'
    BY KeepManager
  <2>3. DriverType'
    BY DEF DriverType, States, Directions, ControlType
  <2>4. ControlType'
    BY DEF ControlType, States, Directions, Lines, LinesType
  <2>5. QED
    BY <2>1, <2>2, <2>3, <2>4
<1>5. CASE \E d \in Drivers : BeginDriverWake(d)
  <2> PICK d \in Drivers : BeginDriverWake(d)
    BY <1>5
  <2> USE DEF BeginDriverWake, Enter
  <2>1. LinesType' /\ pc' \in ControlPoints
    BY DEF LinesType, ControlPoints
  <2>2. ManagerType'
    BY KeepManager
  <2>3. DriverType'
    BY DEF DriverType, States, Directions, ControlType
  <2>4. ControlType'
    BY DEF ControlType, States, Directions, Lines, LinesType
  <2>5. QED
    BY <2>1, <2>2, <2>3, <2>4
<1>6. CASE \E d \in Drivers : EndDriverWakeDelay(d)
  <2> PICK d \in Drivers : EndDriverWakeDelay(d)
    BY <1>6
  <2> USE DEF EndDriverWakeDelay
  <2>1. LinesType' /\ pc' \in ControlPoints
    BY DEF LinesType, ControlPoints
  <2>2. ManagerType'
    BY KeepManager
  <2>3. DriverType'
    BY DEF DriverType, States, Directions, ControlType
  <2>4. ControlType'
    BY DEF ControlType, States, Directions, Lines, LinesType
  <2>5. QED
    BY <2>1, <2>2, <2>3, <2>4
<1>7. CASE \E d \in Drivers : ReadWakeInputs(d)
  <2> PICK d \in Drivers : ReadWakeInputs(d)
    BY <1>7
  <2> USE DEF ReadWakeInputs
  <2>1. LinesType' /\ pc' \in ControlPoints
    BY DEF LinesType, ControlPoints
  <2>2. ManagerType'
    BY KeepManager
  <2>3. DriverType'
    BY DEF DriverType, States, Directions, ControlType
  <2>4. ControlType'
    BY DEF ControlType, States, Directions, Lines, LinesType
  <2>5. QED
    BY <2>1, <2>2, <2>3, <2>4
<1>8. CASE \E d \in Drivers : CompleteDriverWake(d)
  <2> PICK d \in Drivers : CompleteDriverWake(d)
    BY <1>8
  <2> USE DEF CompleteDriverWake
  <2>1. LinesType' /\ pc' \in ControlPoints
    BY DEF LinesType, ControlPoints
  <2>2. ManagerType'
    BY LatchOrKeepManager DEF Lines, LinesType
  <2>3. DriverType'
    BY DEF DriverType, States, Directions, ControlType
  <2>4. ControlType'
    BY DEF ControlType, States, Directions, Lines, LinesType
  <2>5. QED
    BY <2>1, <2>2, <2>3, <2>4
<1>9. CASE IsolateFailedEnable
  <2> USE <1>9 DEF IsolateFailedEnable, DisableAll, Sleep, ZeroReference
  <2>1. LinesType' /\ pc' \in ControlPoints
    BY DEF LinesType, ControlPoints
  <2>2. ManagerType'
    BY KeepManager
  <2>3. DriverType'
    BY DEF DriverType, States, Directions, ControlType
  <2>4. ControlType'
    BY DEF ControlType, States, Directions, Lines, LinesType
  <2>5. QED
    BY <2>1, <2>2, <2>3, <2>4
<1>10. CASE SampleAndLatchFaultInputs("resample", "recheck")
  <2> USE <1>10 DEF SampleAndLatchFaultInputs
  <2>1. LinesType' /\ pc' \in ControlPoints
    BY DEF LinesType, ControlPoints
  <2>2. ManagerType'
    BY LatchOrKeepManager DEF Lines, LinesType
  <2>3. DriverType'
    BY DEF DriverType, States, Directions, ControlType
  <2>4. ControlType'
    BY DEF ControlType, States, Directions, Lines, LinesType
  <2>5. QED
    BY <2>1, <2>2, <2>3, <2>4
<1>11. CASE RecheckAfterEnable
  <2> USE <1>11 DEF RecheckAfterEnable, DisableAll, Sleep, ZeroReference
  <2>1. LinesType' /\ pc' \in ControlPoints
    BY DEF LinesType, ControlPoints
  <2>2. ManagerType'
    BY KeepManager
  <2>3. DriverType'
    BY DEF DriverType, States, Directions, ControlType
  <2>4. ControlType'
    BY DEF ControlType, States, Directions, Lines, LinesType
  <2>5. QED
    BY <2>1, <2>2, <2>3, <2>4
<1>12. CASE WritePmode
  <2> USE <1>12 DEF WritePmode
  <2>1. LinesType' /\ pc' \in ControlPoints
    BY DEF LinesType, ControlPoints
  <2>2. ManagerType'
    BY KeepManager
  <2>3. DriverType'
    BY DEF DriverType, States, Directions, ControlType
  <2>4. ControlType'
    BY DEF ControlType, States, Directions, Lines, LinesType
  <2>5. QED
    BY <2>1, <2>2, <2>3, <2>4
<1>13. QED
  BY <1>1, <1>2, <1>3, <1>4, <1>5, <1>6, <1>7, <1>8, <1>9, <1>10, <1>11, <1>12
     DEF CommandStep

\* A command that is accepted.
LEMMA TypeHostCommand ==
  ASSUME TypeOK, HostCommand
  PROVE  TypeOK'
<1> USE DEF TypeOK, CommandDone, Accept
<1>1. CASE \E d \in Drivers, dir \in Directions : DriveOne(d, dir)
  <2> PICK d \in Drivers, dir \in Directions : DriveOne(d, dir)
    BY <1>1
  <2> USE DEF DriveOne, ApplyReference
  <2>1. LinesType' /\ pc' \in ControlPoints
    BY DEF LinesType, ControlPoints
  <2>2. ManagerType'
    BY KeepManager
  <2>3. DriverType'
    BY DEF DriverType, States, Directions, ControlType
  <2>4. ControlType'
    BY DEF ControlType, States, Directions, Lines, LinesType
  <2>5. QED
    BY <2>1, <2>2, <2>3, <2>4
<1>2. CASE \E dir \in Directions : DriveAll(dir)
  <2> PICK dir \in Directions : DriveAll(dir)
    BY <1>2
  <2> USE DEF DriveAll, ApplyReference, DisableAll, Sleep, ZeroReference
  <2>1. LinesType' /\ pc' \in ControlPoints
    BY DEF LinesType, ControlPoints
  <2>2. ManagerType'
    BY KeepManager
  <2>3. DriverType'
    BY DEF DriverType, States, Directions, ControlType
  <2>4. ControlType'
    BY DEF ControlType, States, Directions, Lines, LinesType
  <2>5. QED
    BY <2>1, <2>2, <2>3, <2>4
<1>3. CASE \E d \in Drivers : CoilOff("CoilOff", {d})
  <2> PICK d \in Drivers : CoilOff("CoilOff", {d})
    BY <1>3
  <2> USE DEF CoilOff
  <2>1. LinesType' /\ pc' \in ControlPoints
    BY DEF LinesType, ControlPoints
  <2>2. ManagerType'
    BY KeepManager
  <2>3. DriverType'
    BY DEF DriverType, States, Directions, ControlType
  <2>4. ControlType'
    BY DEF ControlType, States, Directions, Lines, LinesType
  <2>5. QED
    BY <2>1, <2>2, <2>3, <2>4
<1>4. CASE CoilOff("CoilOffAll", Drivers)
  <2> USE <1>4 DEF CoilOff
  <2>1. LinesType' /\ pc' \in ControlPoints
    BY DEF LinesType, ControlPoints
  <2>2. ManagerType'
    BY KeepManager
  <2>3. DriverType'
    BY DEF DriverType, States, Directions, ControlType
  <2>4. ControlType'
    BY DEF ControlType, States, Directions, Lines, LinesType
  <2>5. QED
    BY <2>1, <2>2, <2>3, <2>4
<1>5. CASE \E d \in Drivers : SleepOne(d)
  <2> PICK d \in Drivers : SleepOne(d)
    BY <1>5
  <2> USE DEF SleepOne, Sleep, ZeroReference
  <2>1. LinesType' /\ pc' \in ControlPoints
    BY DEF LinesType, ControlPoints
  <2>2. ManagerType'
    BY KeepManager
  <2>3. DriverType'
    BY DEF DriverType, States, Directions, ControlType
  <2>4. ControlType'
    BY DEF ControlType, States, Directions, Lines, LinesType
  <2>5. QED
    BY <2>1, <2>2, <2>3, <2>4
<1>6. CASE SleepAll
  <2> USE <1>6 DEF SleepAll, DisableAll, Sleep, ZeroReference
  <2>1. LinesType' /\ pc' \in ControlPoints
    BY DEF LinesType, ControlPoints
  <2>2. ManagerType'
    BY KeepManager
  <2>3. DriverType'
    BY DEF DriverType, States, Directions, ControlType
  <2>4. ControlType'
    BY DEF ControlType, States, Directions, Lines, LinesType
  <2>5. QED
    BY <2>1, <2>2, <2>3, <2>4
<1>7. CASE \E d \in Drivers : Wake("Wake", {d})
  <2> PICK d \in Drivers : Wake("Wake", {d})
    BY <1>7
  <2> USE DEF Wake
  <2>1. LinesType' /\ pc' \in ControlPoints
    BY DEF LinesType, ControlPoints
  <2>2. ManagerType'
    BY KeepManager
  <2>3. DriverType'
    BY DEF DriverType, States, Directions, ControlType
  <2>4. ControlType'
    BY DEF ControlType, States, Directions, Lines, LinesType
  <2>5. QED
    BY <2>1, <2>2, <2>3, <2>4
<1>8. CASE Wake("WakeAll", Drivers)
  <2> USE <1>8 DEF Wake
  <2>1. LinesType' /\ pc' \in ControlPoints
    BY DEF LinesType, ControlPoints
  <2>2. ManagerType'
    BY KeepManager
  <2>3. DriverType'
    BY DEF DriverType, States, Directions, ControlType
  <2>4. ControlType'
    BY DEF ControlType, States, Directions, Lines, LinesType
  <2>5. QED
    BY <2>1, <2>2, <2>3, <2>4
<1>9. CASE \E d \in Drivers, c \in Currents : SetCurrent(d, c)
  <2> PICK d \in Drivers, c \in Currents : SetCurrent(d, c)
    BY <1>9
  <2> USE DEF SetCurrent, SetThreshold
  <2>1. LinesType' /\ pc' \in ControlPoints
    BY DEF LinesType, ControlPoints
  <2>2. ManagerType'
    BY KeepManager
  <2>3. DriverType'
    BY DEF DriverType, States, Directions, ControlType
  <2>4. ControlType'
    BY DEF ControlType, States, Directions, Lines, LinesType
  <2>5. QED
    BY <2>1, <2>2, <2>3, <2>4
<1>10. CASE \E c \in Currents : SetCurrentAll(c)
  <2> PICK c \in Currents : SetCurrentAll(c)
    BY <1>10
  <2> USE DEF SetCurrentAll, SetThreshold
  <2>1. LinesType' /\ pc' \in ControlPoints
    BY DEF LinesType, ControlPoints
  <2>2. ManagerType'
    BY KeepManager
  <2>3. DriverType'
    BY DEF DriverType, States, Directions, ControlType
  <2>4. ControlType'
    BY DEF ControlType, States, Directions, Lines, LinesType
  <2>5. QED
    BY <2>1, <2>2, <2>3, <2>4
<1>11. CASE BeginSetPmode
  <2> USE <1>11 DEF BeginSetPmode
  <2>1. LinesType' /\ pc' \in ControlPoints
    BY DEF LinesType, ControlPoints
  <2>2. ManagerType'
    BY KeepManager
  <2>3. DriverType'
    BY DEF DriverType, States, Directions, ControlType
  <2>4. ControlType'
    BY DEF ControlType, States, Directions, Lines, LinesType
  <2>5. QED
    BY <2>1, <2>2, <2>3, <2>4
<1>12. QED
  BY <1>1, <1>2, <1>3, <1>4, <1>5, <1>6, <1>7, <1>8, <1>9, <1>10, <1>11
     DEF HostCommand

\* Every step keeps every type.
LEMMA TypeStep == TypeOK /\ [Next]_vars => TypeOK'
<1> SUFFICES ASSUME TypeOK, [Next]_vars PROVE TypeOK'
  OBVIOUS
<1>1. CASE EndPass
  BY <1>1, KeepLines, KeepManager, KeepCoils DEF EndPass, TypeOK, ControlPoints
<1>2. CASE Tick
  <2> USE <1>2 DEF Tick, AgesAdvance, TypeOK
  <2>1. LatchType' /\ SetupType' /\ AutoType' /\ LocalType'
    BY DEF ManagerType, LatchType, SetupType, AutoType, LocalType
  <2>2. ReleaseType'
    BY DEF ManagerType, ReleaseType
  <2>3. CycleType'
    BY DEF ManagerType, CycleType
  <2>4. LinesType' /\ pc' \in ControlPoints
    BY DEF LinesType
  <2>5. QED
    BY <2>1, <2>2, <2>3, <2>4, KeepCoils DEF ManagerType
<1>3. CASE UNCHANGED vars
  BY <1>3, KeepLines, KeepManager, KeepCoils DEF TypeOK
<1>4. QED
  BY <1>1, <1>2, <1>3, TypeInterrupts, TypeSafetyPass, TypeCommandStep,
     TypeHostCommand DEF Next

\* Every variable keeps its type: no interleaving of interrupts, passes and
\* commands leaves an age past its interval or a bridge in an unknown state.
THEOREM TypeCorrect == Spec => []TypeOK
<1>1. QED
  BY TypeInit, TypeStep, PTL DEF Spec

-----------------------------------------------------------------------------
(* No drive under a fault: every step that latches cuts the drive in the   *)
(* same step, and only Energize begins to drive.                           *)

\* No step starts or keeps a drive that a latched fault forbids.
LEMMA NoDriveStep ==
  ASSUME TypeOK, NoDriveUnderFault, [Next]_vars
  PROVE  NoDriveUnderFault'
<1> USE DEF NoDriveUnderFault, Driving, TypeOK, DriverType, ControlType, At,
       Directions, States
<1>1. CASE \E l \in Lines : Environment(l)
  BY <1>1 DEF Environment, PinFalls, PinRises
<1>2. CASE \E d \in Drivers : DriverFaultIsr(d)
  BY <1>2 DEF DriverFaultIsr, AcceptEdge, LatchFaults
<1>3. CASE PowerAlertIsr
  BY <1>3 DEF PowerAlertIsr, AcceptEdge, LatchFaults
<1>4. CASE SampleAndLatchFaultInputs("sample", "readShutdowns")
  BY <1>4 DEF SampleAndLatchFaultInputs, LatchFaults
<1>5. CASE ReadShutdowns
  BY <1>5 DEF ReadShutdowns
<1>6. CASE IsolateDrivers
  BY <1>6 DEF IsolateDrivers, Sleep
<1>7. CASE ClearShutdowns
  BY <1>7 DEF ClearShutdowns
<1>8. CASE SnapshotDrivers
  BY <1>8 DEF SnapshotDrivers
<1>9. CASE SnapshotPins
  BY <1>9 DEF SnapshotPins
<1>10. CASE ManagerStep /\ UNCHANGED coilVars
  BY <1>10 DEF ManagerStep, TakeSafetyEvent, UpdatePowerAlertCycle,
     SafeStatePolicyGlobal, SafeStatePolicyDriver, ValidateRelease,
     RequestAutomaticClear, QueueFaultReport, SkipFaultReport,
     ConfirmFaultReport, ReportSafeStateResult, TakeAutomaticClear,
     CompleteFaultClear
<1>11. CASE EnterSafeState
  BY <1>11 DEF EnterSafeState, DisableAll, Sleep
<1>12. CASE ClearFaultHardware
  BY <1>12 DEF ClearFaultHardware
<1>13. CASE ConfirmHardwareClear
  BY <1>13 DEF ConfirmHardwareClear
<1>14. CASE \E d \in Drivers : Energize(d)
  BY <1>14 DEF Energize, Enter, CanEnergize
<1>15. CASE \E d \in Drivers : VerifyEnabled(d)
  BY <1>15 DEF VerifyEnabled, LatchFaults
<1>16. CASE \E d \in Drivers : Coast(d)
  BY <1>16 DEF Coast, DisableAll, Sleep, CommandDone
<1>17. CASE \E d \in Drivers : RaiseAfterCoast(d)
  BY <1>17 DEF RaiseAfterCoast, Enter, CommandDone
<1>18. CASE \E d \in Drivers : BeginDriverWake(d)
  BY <1>18 DEF BeginDriverWake, Enter, CommandDone, HasFault
<1>19. CASE \E d \in Drivers : EndDriverWakeDelay(d)
  BY <1>19 DEF EndDriverWakeDelay
<1>20. CASE \E d \in Drivers : ReadWakeInputs(d)
  BY <1>20 DEF ReadWakeInputs
<1>21. CASE \E d \in Drivers : CompleteDriverWake(d)
  BY <1>21 DEF CompleteDriverWake, CommandDone, LatchFaults
<1>22. CASE IsolateFailedEnable
  BY <1>22 DEF IsolateFailedEnable, DisableAll, Sleep, CommandDone
<1>23. CASE SampleAndLatchFaultInputs("resample", "recheck")
  BY <1>23 DEF SampleAndLatchFaultInputs, LatchFaults
<1>24. CASE RecheckAfterEnable
  BY <1>24 DEF RecheckAfterEnable, DisableAll, Sleep, CommandDone
<1>25. CASE WritePmode
  BY <1>25 DEF WritePmode
<1>26. CASE HostCommand
  <2>1. CASE \E d \in Drivers, dir \in Directions : DriveOne(d, dir)
    BY <2>1 DEF Accept, DriveOne
  <2>2. CASE \E dir \in Directions : DriveAll(dir)
    BY <2>2 DEF Accept, DriveAll, DisableAll, Sleep, CommandDone
  <2>3. CASE \E d \in Drivers : CoilOff("CoilOff", {d})
    BY <2>3 DEF Accept, CoilOff
  <2>4. CASE CoilOff("CoilOffAll", Drivers)
    BY <2>4 DEF Accept, CoilOff
  <2>5. CASE \E d \in Drivers : SleepOne(d)
    BY <2>5 DEF Accept, SleepOne, Sleep, CommandDone
  <2>6. CASE SleepAll
    BY <2>6 DEF Accept, SleepAll, DisableAll, Sleep, CommandDone
  <2>7. CASE \E d \in Drivers : Wake("Wake", {d})
    BY <2>7 DEF Accept, Wake
  <2>8. CASE Wake("WakeAll", Drivers)
    BY <2>8 DEF Accept, Wake
  <2>9. CASE \E d \in Drivers, c \in Currents : SetCurrent(d, c)
    BY <2>9 DEF Accept, SetCurrent
  <2>10. CASE \E c \in Currents : SetCurrentAll(c)
    BY <2>10 DEF Accept, SetCurrentAll
  <2>11. CASE BeginSetPmode
    BY <2>11 DEF Accept, BeginSetPmode
  <2>12. QED
    BY <1>26, <2>1, <2>2, <2>3, <2>4, <2>5, <2>6, <2>7, <2>8, <2>9,
       <2>10, <2>11 DEF HostCommand
<1>27. CASE EndPass
  BY <1>27 DEF EndPass
<1>28. CASE Tick
  BY <1>28 DEF Tick
<1>29. CASE UNCHANGED vars
  BY <1>29
<1>30. QED
  BY <1>1, <1>2, <1>3, <1>4, <1>5, <1>6, <1>7, <1>8, <1>9, <1>10, <1>11,
     <1>12, <1>13, <1>14, <1>15, <1>16, <1>17, <1>18, <1>19, <1>20, <1>21,
     <1>22, <1>23, <1>24, <1>25, <1>26, <1>27, <1>28, <1>29 DEF Next,
     Interrupts, SafetyPass, CommandStep, ManagerStep

\* No bridge drives while its own fault or the power alert is latched, whatever
\* interrupt lands between whatever two statements.
THEOREM NoDriveTheorem == Spec => []NoDriveUnderFault
<1>1. Init => NoDriveUnderFault
  BY DEF Init, DriverInit, NoDriveUnderFault, Driving
<1>2. QED
  BY <1>1, NoDriveStep, TypeCorrect, PTL DEF Spec

-----------------------------------------------------------------------------
(* A line that is low while a bridge drives has its edge still captured.   *)
(* The handler may drop the edge of a waking bridge, so the proof needs    *)
(* that a waking bridge does not drive, which needs that only the wake     *)
(* command in progress leaves a bridge unqualified.                        *)

\* A bridge is left unqualified only by the wake command in progress.
LEMMA WakingStep ==
  ASSUME TypeOK, WakingIsActive, [Next]_vars
  PROVE  WakingIsActive'
<1> USE DEF WakingIsActive, TypeOK, DriverType, ControlType, At, Directions,
       States
<1>1. CASE \E l \in Lines : Environment(l)
  BY <1>1 DEF Environment, PinFalls, PinRises
<1>2. CASE \E d \in Drivers : DriverFaultIsr(d)
  BY <1>2 DEF DriverFaultIsr, AcceptEdge, LatchFaults
<1>3. CASE PowerAlertIsr
  BY <1>3 DEF PowerAlertIsr, AcceptEdge, LatchFaults
<1>4. CASE SampleAndLatchFaultInputs("sample", "readShutdowns")
  BY <1>4 DEF SampleAndLatchFaultInputs, LatchFaults
<1>5. CASE ReadShutdowns
  BY <1>5 DEF ReadShutdowns
<1>6. CASE IsolateDrivers
  BY <1>6 DEF IsolateDrivers, Sleep
<1>7. CASE ClearShutdowns
  BY <1>7 DEF ClearShutdowns
<1>8. CASE SnapshotDrivers
  BY <1>8 DEF SnapshotDrivers
<1>9. CASE SnapshotPins
  BY <1>9 DEF SnapshotPins
<1>10. CASE ManagerStep /\ UNCHANGED coilVars
  BY <1>10 DEF ManagerStep, TakeSafetyEvent, UpdatePowerAlertCycle,
     SafeStatePolicyGlobal, SafeStatePolicyDriver, ValidateRelease,
     RequestAutomaticClear, QueueFaultReport, SkipFaultReport,
     ConfirmFaultReport, ReportSafeStateResult, TakeAutomaticClear,
     CompleteFaultClear
<1>11. CASE EnterSafeState
  BY <1>11 DEF EnterSafeState, DisableAll, Sleep
<1>12. CASE ClearFaultHardware
  BY <1>12 DEF ClearFaultHardware
<1>13. CASE ConfirmHardwareClear
  BY <1>13 DEF ConfirmHardwareClear
<1>14. CASE \E d \in Drivers : Energize(d)
  BY <1>14 DEF Energize, Enter, CanEnergize
<1>15. CASE \E d \in Drivers : VerifyEnabled(d)
  BY <1>15 DEF VerifyEnabled, LatchFaults
<1>16. CASE \E d \in Drivers : Coast(d)
  BY <1>16 DEF Coast, DisableAll, Sleep, CommandDone
<1>17. CASE \E d \in Drivers : RaiseAfterCoast(d)
  BY <1>17 DEF RaiseAfterCoast, Enter, CommandDone
<1>18. CASE \E d \in Drivers : BeginDriverWake(d)
  BY <1>18 DEF BeginDriverWake, Enter, CommandDone, HasFault
<1>19. CASE \E d \in Drivers : EndDriverWakeDelay(d)
  BY <1>19 DEF EndDriverWakeDelay
<1>20. CASE \E d \in Drivers : ReadWakeInputs(d)
  BY <1>20 DEF ReadWakeInputs
<1>21. CASE \E d \in Drivers : CompleteDriverWake(d)
  BY <1>21 DEF CompleteDriverWake, CommandDone, LatchFaults
<1>22. CASE IsolateFailedEnable
  BY <1>22 DEF IsolateFailedEnable, DisableAll, Sleep, CommandDone
<1>23. CASE SampleAndLatchFaultInputs("resample", "recheck")
  BY <1>23 DEF SampleAndLatchFaultInputs, LatchFaults
<1>24. CASE RecheckAfterEnable
  BY <1>24 DEF RecheckAfterEnable, DisableAll, Sleep, CommandDone
<1>25. CASE WritePmode
  BY <1>25 DEF WritePmode
<1>26. CASE HostCommand
  <2>1. CASE \E d \in Drivers, dir \in Directions : DriveOne(d, dir)
    BY <2>1 DEF Accept, DriveOne
  <2>2. CASE \E dir \in Directions : DriveAll(dir)
    BY <2>2 DEF Accept, DriveAll, DisableAll, Sleep, CommandDone
  <2>3. CASE \E d \in Drivers : CoilOff("CoilOff", {d})
    BY <2>3 DEF Accept, CoilOff
  <2>4. CASE CoilOff("CoilOffAll", Drivers)
    BY <2>4 DEF Accept, CoilOff
  <2>5. CASE \E d \in Drivers : SleepOne(d)
    BY <2>5 DEF Accept, SleepOne, Sleep, CommandDone
  <2>6. CASE SleepAll
    BY <2>6 DEF Accept, SleepAll, DisableAll, Sleep, CommandDone
  <2>7. CASE \E d \in Drivers : Wake("Wake", {d})
    BY <2>7 DEF Accept, Wake
  <2>8. CASE Wake("WakeAll", Drivers)
    BY <2>8 DEF Accept, Wake
  <2>9. CASE \E d \in Drivers, c \in Currents : SetCurrent(d, c)
    BY <2>9 DEF Accept, SetCurrent
  <2>10. CASE \E c \in Currents : SetCurrentAll(c)
    BY <2>10 DEF Accept, SetCurrentAll
  <2>11. CASE BeginSetPmode
    BY <2>11 DEF Accept, BeginSetPmode
  <2>12. QED
    BY <1>26, <2>1, <2>2, <2>3, <2>4, <2>5, <2>6, <2>7, <2>8, <2>9,
       <2>10, <2>11 DEF HostCommand
<1>27. CASE EndPass
  BY <1>27 DEF EndPass
<1>28. CASE Tick
  BY <1>28 DEF Tick
<1>29. CASE UNCHANGED vars
  BY <1>29
<1>30. QED
  BY <1>1, <1>2, <1>3, <1>4, <1>5, <1>6, <1>7, <1>8, <1>9, <1>10, <1>11,
     <1>12, <1>13, <1>14, <1>15, <1>16, <1>17, <1>18, <1>19, <1>20, <1>21,
     <1>22, <1>23, <1>24, <1>25, <1>26, <1>27, <1>28, <1>29 DEF Next,
     Interrupts, SafetyPass, CommandStep, ManagerStep

\* A bridge that is still waking does not drive.
LEMMA WakingNeverDrivesStep ==
  ASSUME TypeOK, WakingIsActive, WakingNeverDrives, [Next]_vars
  PROVE  WakingNeverDrives'
<1> USE DEF WakingNeverDrives, WakingIsActive, TypeOK, DriverType,
       ControlType, At, Directions, States
<1>1. CASE \E l \in Lines : Environment(l)
  BY <1>1 DEF Environment, PinFalls, PinRises
<1>2. CASE \E d \in Drivers : DriverFaultIsr(d)
  BY <1>2 DEF DriverFaultIsr, AcceptEdge, LatchFaults
<1>3. CASE PowerAlertIsr
  BY <1>3 DEF PowerAlertIsr, AcceptEdge, LatchFaults
<1>4. CASE SampleAndLatchFaultInputs("sample", "readShutdowns")
  BY <1>4 DEF SampleAndLatchFaultInputs, LatchFaults
<1>5. CASE ReadShutdowns
  BY <1>5 DEF ReadShutdowns
<1>6. CASE IsolateDrivers
  BY <1>6 DEF IsolateDrivers, Sleep
<1>7. CASE ClearShutdowns
  BY <1>7 DEF ClearShutdowns
<1>8. CASE SnapshotDrivers
  BY <1>8 DEF SnapshotDrivers
<1>9. CASE SnapshotPins
  BY <1>9 DEF SnapshotPins
<1>10. CASE ManagerStep /\ UNCHANGED coilVars
  BY <1>10 DEF ManagerStep, TakeSafetyEvent, UpdatePowerAlertCycle,
     SafeStatePolicyGlobal, SafeStatePolicyDriver, ValidateRelease,
     RequestAutomaticClear, QueueFaultReport, SkipFaultReport,
     ConfirmFaultReport, ReportSafeStateResult, TakeAutomaticClear,
     CompleteFaultClear
<1>11. CASE EnterSafeState
  BY <1>11 DEF EnterSafeState, DisableAll, Sleep
<1>12. CASE ClearFaultHardware
  BY <1>12 DEF ClearFaultHardware
<1>13. CASE ConfirmHardwareClear
  BY <1>13 DEF ConfirmHardwareClear
<1>14. CASE \E d \in Drivers : Energize(d)
  BY <1>14 DEF Energize, Enter, CanEnergize
<1>15. CASE \E d \in Drivers : VerifyEnabled(d)
  BY <1>15 DEF VerifyEnabled, LatchFaults
<1>16. CASE \E d \in Drivers : Coast(d)
  BY <1>16 DEF Coast, DisableAll, Sleep, CommandDone
<1>17. CASE \E d \in Drivers : RaiseAfterCoast(d)
  BY <1>17 DEF RaiseAfterCoast, Enter, CommandDone
<1>18. CASE \E d \in Drivers : BeginDriverWake(d)
  BY <1>18 DEF BeginDriverWake, Enter, CommandDone, HasFault
<1>19. CASE \E d \in Drivers : EndDriverWakeDelay(d)
  BY <1>19 DEF EndDriverWakeDelay
<1>20. CASE \E d \in Drivers : ReadWakeInputs(d)
  BY <1>20 DEF ReadWakeInputs
<1>21. CASE \E d \in Drivers : CompleteDriverWake(d)
  BY <1>21 DEF CompleteDriverWake, CommandDone, LatchFaults
<1>22. CASE IsolateFailedEnable
  BY <1>22 DEF IsolateFailedEnable, DisableAll, Sleep, CommandDone
<1>23. CASE SampleAndLatchFaultInputs("resample", "recheck")
  BY <1>23 DEF SampleAndLatchFaultInputs, LatchFaults
<1>24. CASE RecheckAfterEnable
  BY <1>24 DEF RecheckAfterEnable, DisableAll, Sleep, CommandDone
<1>25. CASE WritePmode
  BY <1>25 DEF WritePmode
<1>26. CASE HostCommand
  <2>1. CASE \E d \in Drivers, dir \in Directions : DriveOne(d, dir)
    BY <2>1 DEF Accept, DriveOne
  <2>2. CASE \E dir \in Directions : DriveAll(dir)
    BY <2>2 DEF Accept, DriveAll, DisableAll, Sleep, CommandDone
  <2>3. CASE \E d \in Drivers : CoilOff("CoilOff", {d})
    BY <2>3 DEF Accept, CoilOff
  <2>4. CASE CoilOff("CoilOffAll", Drivers)
    BY <2>4 DEF Accept, CoilOff
  <2>5. CASE \E d \in Drivers : SleepOne(d)
    BY <2>5 DEF Accept, SleepOne, Sleep, CommandDone
  <2>6. CASE SleepAll
    BY <2>6 DEF Accept, SleepAll, DisableAll, Sleep, CommandDone
  <2>7. CASE \E d \in Drivers : Wake("Wake", {d})
    BY <2>7 DEF Accept, Wake
  <2>8. CASE Wake("WakeAll", Drivers)
    BY <2>8 DEF Accept, Wake
  <2>9. CASE \E d \in Drivers, c \in Currents : SetCurrent(d, c)
    BY <2>9 DEF Accept, SetCurrent
  <2>10. CASE \E c \in Currents : SetCurrentAll(c)
    BY <2>10 DEF Accept, SetCurrentAll
  <2>11. CASE BeginSetPmode
    BY <2>11 DEF Accept, BeginSetPmode
  <2>12. QED
    BY <1>26, <2>1, <2>2, <2>3, <2>4, <2>5, <2>6, <2>7, <2>8, <2>9,
       <2>10, <2>11 DEF HostCommand
<1>27. CASE EndPass
  BY <1>27 DEF EndPass
<1>28. CASE Tick
  BY <1>28 DEF Tick
<1>29. CASE UNCHANGED vars
  BY <1>29
<1>30. QED
  BY <1>1, <1>2, <1>3, <1>4, <1>5, <1>6, <1>7, <1>8, <1>9, <1>10, <1>11,
     <1>12, <1>13, <1>14, <1>15, <1>16, <1>17, <1>18, <1>19, <1>20, <1>21,
     <1>22, <1>23, <1>24, <1>25, <1>26, <1>27, <1>28, <1>29 DEF Next,
     Interrupts, SafetyPass, CommandStep, ManagerStep

\* A driving bridge whose line is asserted keeps the captured edge of it.
LEMMA CapturedStep ==
  ASSUME TypeOK, WakingNeverDrives, AssertedLineIsCaptured, [Next]_vars
  PROVE  AssertedLineIsCaptured'
<1> USE DEF AssertedLineIsCaptured, WakingNeverDrives, Driving, LinesType,
       Lines, TypeOK, DriverType, ControlType, At, Directions, States
<1>1. CASE \E l \in Lines : Environment(l)
  BY <1>1 DEF Environment, PinFalls, PinRises
<1>2. CASE \E d \in Drivers : DriverFaultIsr(d)
  BY <1>2 DEF DriverFaultIsr, AcceptEdge, LatchFaults
<1>3. CASE PowerAlertIsr
  BY <1>3 DEF PowerAlertIsr, AcceptEdge, LatchFaults
<1>4. CASE SampleAndLatchFaultInputs("sample", "readShutdowns")
  BY <1>4 DEF SampleAndLatchFaultInputs, LatchFaults
<1>5. CASE ReadShutdowns
  BY <1>5 DEF ReadShutdowns
<1>6. CASE IsolateDrivers
  BY <1>6 DEF IsolateDrivers, Sleep
<1>7. CASE ClearShutdowns
  BY <1>7 DEF ClearShutdowns
<1>8. CASE SnapshotDrivers
  BY <1>8 DEF SnapshotDrivers
<1>9. CASE SnapshotPins
  BY <1>9 DEF SnapshotPins
<1>10. CASE ManagerStep /\ UNCHANGED coilVars
  BY <1>10 DEF ManagerStep, TakeSafetyEvent, UpdatePowerAlertCycle,
     SafeStatePolicyGlobal, SafeStatePolicyDriver, ValidateRelease,
     RequestAutomaticClear, QueueFaultReport, SkipFaultReport,
     ConfirmFaultReport, ReportSafeStateResult, TakeAutomaticClear,
     CompleteFaultClear
<1>11. CASE EnterSafeState
  BY <1>11 DEF EnterSafeState, DisableAll, Sleep
<1>12. CASE ClearFaultHardware
  BY <1>12 DEF ClearFaultHardware
<1>13. CASE ConfirmHardwareClear
  BY <1>13 DEF ConfirmHardwareClear
<1>14. CASE \E d \in Drivers : Energize(d)
  BY <1>14 DEF Energize, Enter, CanEnergize, DeviceFault, PowerAlertObserved
<1>15. CASE \E d \in Drivers : VerifyEnabled(d)
  BY <1>15 DEF VerifyEnabled, LatchFaults, HasGlobalFault,
     PowerAlertObserved
<1>16. CASE \E d \in Drivers : Coast(d)
  BY <1>16 DEF Coast, DisableAll, Sleep, CommandDone
<1>17. CASE \E d \in Drivers : RaiseAfterCoast(d)
  BY <1>17 DEF RaiseAfterCoast, Enter, CommandDone
<1>18. CASE \E d \in Drivers : BeginDriverWake(d)
  BY <1>18 DEF BeginDriverWake, Enter, CommandDone, HasFault
<1>19. CASE \E d \in Drivers : EndDriverWakeDelay(d)
  BY <1>19 DEF EndDriverWakeDelay
<1>20. CASE \E d \in Drivers : ReadWakeInputs(d)
  BY <1>20 DEF ReadWakeInputs
<1>21. CASE \E d \in Drivers : CompleteDriverWake(d)
  BY <1>21 DEF CompleteDriverWake, CommandDone, LatchFaults
<1>22. CASE IsolateFailedEnable
  BY <1>22 DEF IsolateFailedEnable, DisableAll, Sleep, CommandDone
<1>23. CASE SampleAndLatchFaultInputs("resample", "recheck")
  BY <1>23 DEF SampleAndLatchFaultInputs, LatchFaults
<1>24. CASE RecheckAfterEnable
  BY <1>24 DEF RecheckAfterEnable, DisableAll, Sleep, CommandDone
<1>25. CASE WritePmode
  BY <1>25 DEF WritePmode
<1>26. CASE HostCommand
  <2>1. CASE \E d \in Drivers, dir \in Directions : DriveOne(d, dir)
    BY <2>1 DEF Accept, DriveOne
  <2>2. CASE \E dir \in Directions : DriveAll(dir)
    BY <2>2 DEF Accept, DriveAll, DisableAll, Sleep, CommandDone
  <2>3. CASE \E d \in Drivers : CoilOff("CoilOff", {d})
    BY <2>3 DEF Accept, CoilOff
  <2>4. CASE CoilOff("CoilOffAll", Drivers)
    BY <2>4 DEF Accept, CoilOff
  <2>5. CASE \E d \in Drivers : SleepOne(d)
    BY <2>5 DEF Accept, SleepOne, Sleep, CommandDone
  <2>6. CASE SleepAll
    BY <2>6 DEF Accept, SleepAll, DisableAll, Sleep, CommandDone
  <2>7. CASE \E d \in Drivers : Wake("Wake", {d})
    BY <2>7 DEF Accept, Wake
  <2>8. CASE Wake("WakeAll", Drivers)
    BY <2>8 DEF Accept, Wake
  <2>9. CASE \E d \in Drivers, c \in Currents : SetCurrent(d, c)
    BY <2>9 DEF Accept, SetCurrent
  <2>10. CASE \E c \in Currents : SetCurrentAll(c)
    BY <2>10 DEF Accept, SetCurrentAll
  <2>11. CASE BeginSetPmode
    BY <2>11 DEF Accept, BeginSetPmode
  <2>12. QED
    BY <1>26, <2>1, <2>2, <2>3, <2>4, <2>5, <2>6, <2>7, <2>8, <2>9,
       <2>10, <2>11 DEF HostCommand
<1>27. CASE EndPass
  BY <1>27 DEF EndPass
<1>28. CASE Tick
  BY <1>28 DEF Tick
<1>29. CASE UNCHANGED vars
  BY <1>29
<1>30. QED
  BY <1>1, <1>2, <1>3, <1>4, <1>5, <1>6, <1>7, <1>8, <1>9, <1>10, <1>11,
     <1>12, <1>13, <1>14, <1>15, <1>16, <1>17, <1>18, <1>19, <1>20, <1>21,
     <1>22, <1>23, <1>24, <1>25, <1>26, <1>27, <1>28, <1>29 DEF Next,
     Interrupts, SafetyPass, CommandStep, ManagerStep

\* While a bridge drives, no asserted line has had its edge consumed: the
\* handler of that edge still runs before the next statement.
THEOREM CapturedTheorem == Spec => []AssertedLineIsCaptured
<1> DEFINE IInv == WakingIsActive /\ WakingNeverDrives /\ AssertedLineIsCaptured
<1>1. Init => IInv
  BY DEF Init, DriverInit, WakingIsActive, WakingNeverDrives,
     AssertedLineIsCaptured, Driving
<1>2. TypeOK /\ IInv /\ [Next]_vars => IInv'
  BY WakingStep, WakingNeverDrivesStep, CapturedStep
<1>3. IInv => AssertedLineIsCaptured
  OBVIOUS
<1>4. QED
  BY <1>1, <1>2, <1>3, TypeCorrect, PTL DEF Spec

-----------------------------------------------------------------------------
(* A latched driver fault on an awake bridge keeps its shutdown request.    *)
(* Requests are withdrawn after the bridges slept, and CoilOff, which runs  *)
(* outside a critical section, never wakes a bridge that sleeps.            *)

\* A shutdown request about to be withdrawn is of a bridge that sleeps.
LEMMA ServicedStep ==
  ASSUME TypeOK, ServicedIsAsleep, [Next]_vars
  PROVE  ServicedIsAsleep'
<1> USE DEF ServicedIsAsleep, TypeOK, DriverType, ControlType, At,
       Directions, States
<1>1. CASE \E l \in Lines : Environment(l)
  BY <1>1 DEF Environment, PinFalls, PinRises
<1>2. CASE \E d \in Drivers : DriverFaultIsr(d)
  BY <1>2 DEF DriverFaultIsr, AcceptEdge, LatchFaults
<1>3. CASE PowerAlertIsr
  BY <1>3 DEF PowerAlertIsr, AcceptEdge, LatchFaults
<1>4. CASE SampleAndLatchFaultInputs("sample", "readShutdowns")
  BY <1>4 DEF SampleAndLatchFaultInputs, LatchFaults
<1>5. CASE ReadShutdowns
  BY <1>5 DEF ReadShutdowns
<1>6. CASE IsolateDrivers
  BY <1>6 DEF IsolateDrivers, Sleep
<1>7. CASE ClearShutdowns
  BY <1>7 DEF ClearShutdowns
<1>8. CASE SnapshotDrivers
  BY <1>8 DEF SnapshotDrivers
<1>9. CASE SnapshotPins
  BY <1>9 DEF SnapshotPins
<1>10. CASE ManagerStep /\ UNCHANGED coilVars
  BY <1>10 DEF ManagerStep, TakeSafetyEvent, UpdatePowerAlertCycle,
     SafeStatePolicyGlobal, SafeStatePolicyDriver, ValidateRelease,
     RequestAutomaticClear, QueueFaultReport, SkipFaultReport,
     ConfirmFaultReport, ReportSafeStateResult, TakeAutomaticClear,
     CompleteFaultClear
<1>11. CASE EnterSafeState
  BY <1>11 DEF EnterSafeState, DisableAll, Sleep
<1>12. CASE ClearFaultHardware
  BY <1>12 DEF ClearFaultHardware
<1>13. CASE ConfirmHardwareClear
  BY <1>13 DEF ConfirmHardwareClear
<1>14. CASE \E d \in Drivers : Energize(d)
  BY <1>14 DEF Energize, Enter, CanEnergize
<1>15. CASE \E d \in Drivers : VerifyEnabled(d)
  BY <1>15 DEF VerifyEnabled, LatchFaults
<1>16. CASE \E d \in Drivers : Coast(d)
  BY <1>16 DEF Coast, DisableAll, Sleep, CommandDone
<1>17. CASE \E d \in Drivers : RaiseAfterCoast(d)
  BY <1>17 DEF RaiseAfterCoast, Enter, CommandDone
<1>18. CASE \E d \in Drivers : BeginDriverWake(d)
  BY <1>18 DEF BeginDriverWake, Enter, CommandDone, HasFault
<1>19. CASE \E d \in Drivers : EndDriverWakeDelay(d)
  BY <1>19 DEF EndDriverWakeDelay
<1>20. CASE \E d \in Drivers : ReadWakeInputs(d)
  BY <1>20 DEF ReadWakeInputs
<1>21. CASE \E d \in Drivers : CompleteDriverWake(d)
  BY <1>21 DEF CompleteDriverWake, CommandDone, LatchFaults
<1>22. CASE IsolateFailedEnable
  BY <1>22 DEF IsolateFailedEnable, DisableAll, Sleep, CommandDone
<1>23. CASE SampleAndLatchFaultInputs("resample", "recheck")
  BY <1>23 DEF SampleAndLatchFaultInputs, LatchFaults
<1>24. CASE RecheckAfterEnable
  BY <1>24 DEF RecheckAfterEnable, DisableAll, Sleep, CommandDone
<1>25. CASE WritePmode
  BY <1>25 DEF WritePmode
<1>26. CASE HostCommand
  <2>1. CASE \E d \in Drivers, dir \in Directions : DriveOne(d, dir)
    BY <2>1 DEF Accept, DriveOne
  <2>2. CASE \E dir \in Directions : DriveAll(dir)
    BY <2>2 DEF Accept, DriveAll, DisableAll, Sleep, CommandDone
  <2>3. CASE \E d \in Drivers : CoilOff("CoilOff", {d})
    BY <2>3 DEF Accept, CoilOff
  <2>4. CASE CoilOff("CoilOffAll", Drivers)
    BY <2>4 DEF Accept, CoilOff
  <2>5. CASE \E d \in Drivers : SleepOne(d)
    BY <2>5 DEF Accept, SleepOne, Sleep, CommandDone
  <2>6. CASE SleepAll
    BY <2>6 DEF Accept, SleepAll, DisableAll, Sleep, CommandDone
  <2>7. CASE \E d \in Drivers : Wake("Wake", {d})
    BY <2>7 DEF Accept, Wake
  <2>8. CASE Wake("WakeAll", Drivers)
    BY <2>8 DEF Accept, Wake
  <2>9. CASE \E d \in Drivers, c \in Currents : SetCurrent(d, c)
    BY <2>9 DEF Accept, SetCurrent
  <2>10. CASE \E c \in Currents : SetCurrentAll(c)
    BY <2>10 DEF Accept, SetCurrentAll
  <2>11. CASE BeginSetPmode
    BY <2>11 DEF Accept, BeginSetPmode
  <2>12. QED
    BY <1>26, <2>1, <2>2, <2>3, <2>4, <2>5, <2>6, <2>7, <2>8, <2>9,
       <2>10, <2>11 DEF HostCommand
<1>27. CASE EndPass
  BY <1>27 DEF EndPass
<1>28. CASE Tick
  BY <1>28 DEF Tick
<1>29. CASE UNCHANGED vars
  BY <1>29
<1>30. QED
  BY <1>1, <1>2, <1>3, <1>4, <1>5, <1>6, <1>7, <1>8, <1>9, <1>10, <1>11,
     <1>12, <1>13, <1>14, <1>15, <1>16, <1>17, <1>18, <1>19, <1>20, <1>21,
     <1>22, <1>23, <1>24, <1>25, <1>26, <1>27, <1>28, <1>29 DEF Next,
     Interrupts, SafetyPass, CommandStep, ManagerStep

\* A bridge that CoilOff is about to raise again is awake.
LEMMA CoastingStep ==
  ASSUME TypeOK, CoastingIsAwake, [Next]_vars
  PROVE  CoastingIsAwake'
<1> USE DEF CoastingIsAwake, TypeOK, DriverType, ControlType, At,
       Directions, States
<1>1. CASE \E l \in Lines : Environment(l)
  BY <1>1 DEF Environment, PinFalls, PinRises
<1>2. CASE \E d \in Drivers : DriverFaultIsr(d)
  BY <1>2 DEF DriverFaultIsr, AcceptEdge, LatchFaults
<1>3. CASE PowerAlertIsr
  BY <1>3 DEF PowerAlertIsr, AcceptEdge, LatchFaults
<1>4. CASE SampleAndLatchFaultInputs("sample", "readShutdowns")
  BY <1>4 DEF SampleAndLatchFaultInputs, LatchFaults
<1>5. CASE ReadShutdowns
  BY <1>5 DEF ReadShutdowns
<1>6. CASE IsolateDrivers
  BY <1>6 DEF IsolateDrivers, Sleep
<1>7. CASE ClearShutdowns
  BY <1>7 DEF ClearShutdowns
<1>8. CASE SnapshotDrivers
  BY <1>8 DEF SnapshotDrivers
<1>9. CASE SnapshotPins
  BY <1>9 DEF SnapshotPins
<1>10. CASE ManagerStep /\ UNCHANGED coilVars
  BY <1>10 DEF ManagerStep, TakeSafetyEvent, UpdatePowerAlertCycle,
     SafeStatePolicyGlobal, SafeStatePolicyDriver, ValidateRelease,
     RequestAutomaticClear, QueueFaultReport, SkipFaultReport,
     ConfirmFaultReport, ReportSafeStateResult, TakeAutomaticClear,
     CompleteFaultClear
<1>11. CASE EnterSafeState
  BY <1>11 DEF EnterSafeState, DisableAll, Sleep
<1>12. CASE ClearFaultHardware
  BY <1>12 DEF ClearFaultHardware
<1>13. CASE ConfirmHardwareClear
  BY <1>13 DEF ConfirmHardwareClear
<1>14. CASE \E d \in Drivers : Energize(d)
  BY <1>14 DEF Energize, Enter, CanEnergize
<1>15. CASE \E d \in Drivers : VerifyEnabled(d)
  BY <1>15 DEF VerifyEnabled, LatchFaults
<1>16. CASE \E d \in Drivers : Coast(d)
  BY <1>16 DEF Coast, DisableAll, Sleep, CommandDone
<1>17. CASE \E d \in Drivers : RaiseAfterCoast(d)
  BY <1>17 DEF RaiseAfterCoast, Enter, CommandDone
<1>18. CASE \E d \in Drivers : BeginDriverWake(d)
  BY <1>18 DEF BeginDriverWake, Enter, CommandDone, HasFault
<1>19. CASE \E d \in Drivers : EndDriverWakeDelay(d)
  BY <1>19 DEF EndDriverWakeDelay
<1>20. CASE \E d \in Drivers : ReadWakeInputs(d)
  BY <1>20 DEF ReadWakeInputs
<1>21. CASE \E d \in Drivers : CompleteDriverWake(d)
  BY <1>21 DEF CompleteDriverWake, CommandDone, LatchFaults
<1>22. CASE IsolateFailedEnable
  BY <1>22 DEF IsolateFailedEnable, DisableAll, Sleep, CommandDone
<1>23. CASE SampleAndLatchFaultInputs("resample", "recheck")
  BY <1>23 DEF SampleAndLatchFaultInputs, LatchFaults
<1>24. CASE RecheckAfterEnable
  BY <1>24 DEF RecheckAfterEnable, DisableAll, Sleep, CommandDone
<1>25. CASE WritePmode
  BY <1>25 DEF WritePmode
<1>26. CASE HostCommand
  <2>1. CASE \E d \in Drivers, dir \in Directions : DriveOne(d, dir)
    BY <2>1 DEF Accept, DriveOne
  <2>2. CASE \E dir \in Directions : DriveAll(dir)
    BY <2>2 DEF Accept, DriveAll, DisableAll, Sleep, CommandDone
  <2>3. CASE \E d \in Drivers : CoilOff("CoilOff", {d})
    BY <2>3 DEF Accept, CoilOff
  <2>4. CASE CoilOff("CoilOffAll", Drivers)
    BY <2>4 DEF Accept, CoilOff
  <2>5. CASE \E d \in Drivers : SleepOne(d)
    BY <2>5 DEF Accept, SleepOne, Sleep, CommandDone
  <2>6. CASE SleepAll
    BY <2>6 DEF Accept, SleepAll, DisableAll, Sleep, CommandDone
  <2>7. CASE \E d \in Drivers : Wake("Wake", {d})
    BY <2>7 DEF Accept, Wake
  <2>8. CASE Wake("WakeAll", Drivers)
    BY <2>8 DEF Accept, Wake
  <2>9. CASE \E d \in Drivers, c \in Currents : SetCurrent(d, c)
    BY <2>9 DEF Accept, SetCurrent
  <2>10. CASE \E c \in Currents : SetCurrentAll(c)
    BY <2>10 DEF Accept, SetCurrentAll
  <2>11. CASE BeginSetPmode
    BY <2>11 DEF Accept, BeginSetPmode
  <2>12. QED
    BY <1>26, <2>1, <2>2, <2>3, <2>4, <2>5, <2>6, <2>7, <2>8, <2>9,
       <2>10, <2>11 DEF HostCommand
<1>27. CASE EndPass
  BY <1>27 DEF EndPass
<1>28. CASE Tick
  BY <1>28 DEF Tick
<1>29. CASE UNCHANGED vars
  BY <1>29
<1>30. QED
  BY <1>1, <1>2, <1>3, <1>4, <1>5, <1>6, <1>7, <1>8, <1>9, <1>10, <1>11,
     <1>12, <1>13, <1>14, <1>15, <1>16, <1>17, <1>18, <1>19, <1>20, <1>21,
     <1>22, <1>23, <1>24, <1>25, <1>26, <1>27, <1>28, <1>29 DEF Next,
     Interrupts, SafetyPass, CommandStep, ManagerStep

\* All bridges sleep while the fault clear drops every shutdown request.
LEMMA ClearedStep ==
  ASSUME TypeOK, ClearedIsAsleep, [Next]_vars
  PROVE  ClearedIsAsleep'
<1> USE DEF ClearedIsAsleep, AllAsleep, TypeOK, DriverType, ControlType, At,
       Directions, States
<1>1. CASE \E l \in Lines : Environment(l)
  BY <1>1 DEF Environment, PinFalls, PinRises
<1>2. CASE \E d \in Drivers : DriverFaultIsr(d)
  BY <1>2 DEF DriverFaultIsr, AcceptEdge, LatchFaults
<1>3. CASE PowerAlertIsr
  BY <1>3 DEF PowerAlertIsr, AcceptEdge, LatchFaults
<1>4. CASE SampleAndLatchFaultInputs("sample", "readShutdowns")
  BY <1>4 DEF SampleAndLatchFaultInputs, LatchFaults
<1>5. CASE ReadShutdowns
  BY <1>5 DEF ReadShutdowns
<1>6. CASE IsolateDrivers
  BY <1>6 DEF IsolateDrivers, Sleep
<1>7. CASE ClearShutdowns
  BY <1>7 DEF ClearShutdowns
<1>8. CASE SnapshotDrivers
  BY <1>8 DEF SnapshotDrivers
<1>9. CASE SnapshotPins
  BY <1>9 DEF SnapshotPins
<1>10. CASE ManagerStep /\ UNCHANGED coilVars
  BY <1>10 DEF ManagerStep, TakeSafetyEvent, UpdatePowerAlertCycle,
     SafeStatePolicyGlobal, SafeStatePolicyDriver, ValidateRelease,
     RequestAutomaticClear, QueueFaultReport, SkipFaultReport,
     ConfirmFaultReport, ReportSafeStateResult, TakeAutomaticClear,
     CompleteFaultClear
<1>11. CASE EnterSafeState
  BY <1>11 DEF EnterSafeState, DisableAll, Sleep
<1>12. CASE ClearFaultHardware
  BY <1>12 DEF ClearFaultHardware
<1>13. CASE ConfirmHardwareClear
  BY <1>13 DEF ConfirmHardwareClear
<1>14. CASE \E d \in Drivers : Energize(d)
  BY <1>14 DEF Energize, Enter, CanEnergize
<1>15. CASE \E d \in Drivers : VerifyEnabled(d)
  BY <1>15 DEF VerifyEnabled, LatchFaults
<1>16. CASE \E d \in Drivers : Coast(d)
  BY <1>16 DEF Coast, DisableAll, Sleep, CommandDone
<1>17. CASE \E d \in Drivers : RaiseAfterCoast(d)
  BY <1>17 DEF RaiseAfterCoast, Enter, CommandDone
<1>18. CASE \E d \in Drivers : BeginDriverWake(d)
  BY <1>18 DEF BeginDriverWake, Enter, CommandDone, HasFault
<1>19. CASE \E d \in Drivers : EndDriverWakeDelay(d)
  BY <1>19 DEF EndDriverWakeDelay
<1>20. CASE \E d \in Drivers : ReadWakeInputs(d)
  BY <1>20 DEF ReadWakeInputs
<1>21. CASE \E d \in Drivers : CompleteDriverWake(d)
  BY <1>21 DEF CompleteDriverWake, CommandDone, LatchFaults
<1>22. CASE IsolateFailedEnable
  BY <1>22 DEF IsolateFailedEnable, DisableAll, Sleep, CommandDone
<1>23. CASE SampleAndLatchFaultInputs("resample", "recheck")
  BY <1>23 DEF SampleAndLatchFaultInputs, LatchFaults
<1>24. CASE RecheckAfterEnable
  BY <1>24 DEF RecheckAfterEnable, DisableAll, Sleep, CommandDone
<1>25. CASE WritePmode
  BY <1>25 DEF WritePmode
<1>26. CASE HostCommand
  <2>1. CASE \E d \in Drivers, dir \in Directions : DriveOne(d, dir)
    BY <2>1 DEF Accept, DriveOne
  <2>2. CASE \E dir \in Directions : DriveAll(dir)
    BY <2>2 DEF Accept, DriveAll, DisableAll, Sleep, CommandDone
  <2>3. CASE \E d \in Drivers : CoilOff("CoilOff", {d})
    BY <2>3 DEF Accept, CoilOff
  <2>4. CASE CoilOff("CoilOffAll", Drivers)
    BY <2>4 DEF Accept, CoilOff
  <2>5. CASE \E d \in Drivers : SleepOne(d)
    BY <2>5 DEF Accept, SleepOne, Sleep, CommandDone
  <2>6. CASE SleepAll
    BY <2>6 DEF Accept, SleepAll, DisableAll, Sleep, CommandDone
  <2>7. CASE \E d \in Drivers : Wake("Wake", {d})
    BY <2>7 DEF Accept, Wake
  <2>8. CASE Wake("WakeAll", Drivers)
    BY <2>8 DEF Accept, Wake
  <2>9. CASE \E d \in Drivers, c \in Currents : SetCurrent(d, c)
    BY <2>9 DEF Accept, SetCurrent
  <2>10. CASE \E c \in Currents : SetCurrentAll(c)
    BY <2>10 DEF Accept, SetCurrentAll
  <2>11. CASE BeginSetPmode
    BY <2>11 DEF Accept, BeginSetPmode
  <2>12. QED
    BY <1>26, <2>1, <2>2, <2>3, <2>4, <2>5, <2>6, <2>7, <2>8, <2>9,
       <2>10, <2>11 DEF HostCommand
<1>27. CASE EndPass
  BY <1>27 DEF EndPass
<1>28. CASE Tick
  BY <1>28 DEF Tick
<1>29. CASE UNCHANGED vars
  BY <1>29
<1>30. QED
  BY <1>1, <1>2, <1>3, <1>4, <1>5, <1>6, <1>7, <1>8, <1>9, <1>10, <1>11,
     <1>12, <1>13, <1>14, <1>15, <1>16, <1>17, <1>18, <1>19, <1>20, <1>21,
     <1>22, <1>23, <1>24, <1>25, <1>26, <1>27, <1>28, <1>29 DEF Next,
     Interrupts, SafetyPass, CommandStep, ManagerStep

\* A faulted bridge that is awake keeps its shutdown request.
LEMMA ScheduledStep ==
  ASSUME TypeOK, ServicedIsAsleep, CoastingIsAwake, ClearedIsAsleep, FaultedBridgeIsScheduled, [Next]_vars
  PROVE  FaultedBridgeIsScheduled'
<1> USE DEF FaultedBridgeIsScheduled, ServicedIsAsleep, CoastingIsAwake,
       ClearedIsAsleep, AllAsleep, TypeOK, DriverType, ControlType, At,
       Directions, States
<1>1. CASE \E l \in Lines : Environment(l)
  BY <1>1 DEF Environment, PinFalls, PinRises
<1>2. CASE \E d \in Drivers : DriverFaultIsr(d)
  BY <1>2 DEF DriverFaultIsr, AcceptEdge, LatchFaults
<1>3. CASE PowerAlertIsr
  BY <1>3 DEF PowerAlertIsr, AcceptEdge, LatchFaults
<1>4. CASE SampleAndLatchFaultInputs("sample", "readShutdowns")
  BY <1>4 DEF SampleAndLatchFaultInputs, LatchFaults
<1>5. CASE ReadShutdowns
  BY <1>5 DEF ReadShutdowns
<1>6. CASE IsolateDrivers
  BY <1>6 DEF IsolateDrivers, Sleep
<1>7. CASE ClearShutdowns
  BY <1>7 DEF ClearShutdowns
<1>8. CASE SnapshotDrivers
  BY <1>8 DEF SnapshotDrivers
<1>9. CASE SnapshotPins
  BY <1>9 DEF SnapshotPins
<1>10. CASE ManagerStep /\ UNCHANGED coilVars
  BY <1>10 DEF ManagerStep, TakeSafetyEvent, UpdatePowerAlertCycle,
     SafeStatePolicyGlobal, SafeStatePolicyDriver, ValidateRelease,
     RequestAutomaticClear, QueueFaultReport, SkipFaultReport,
     ConfirmFaultReport, ReportSafeStateResult, TakeAutomaticClear,
     CompleteFaultClear
<1>11. CASE EnterSafeState
  BY <1>11 DEF EnterSafeState, DisableAll, Sleep
<1>12. CASE ClearFaultHardware
  BY <1>12 DEF ClearFaultHardware
<1>13. CASE ConfirmHardwareClear
  BY <1>13 DEF ConfirmHardwareClear
<1>14. CASE \E d \in Drivers : Energize(d)
  BY <1>14 DEF Energize, Enter, CanEnergize
<1>15. CASE \E d \in Drivers : VerifyEnabled(d)
  BY <1>15 DEF VerifyEnabled, LatchFaults
<1>16. CASE \E d \in Drivers : Coast(d)
  BY <1>16 DEF Coast, DisableAll, Sleep, CommandDone
<1>17. CASE \E d \in Drivers : RaiseAfterCoast(d)
  BY <1>17 DEF RaiseAfterCoast, Enter, CommandDone
<1>18. CASE \E d \in Drivers : BeginDriverWake(d)
  BY <1>18 DEF BeginDriverWake, Enter, CommandDone, HasFault
<1>19. CASE \E d \in Drivers : EndDriverWakeDelay(d)
  BY <1>19 DEF EndDriverWakeDelay
<1>20. CASE \E d \in Drivers : ReadWakeInputs(d)
  BY <1>20 DEF ReadWakeInputs
<1>21. CASE \E d \in Drivers : CompleteDriverWake(d)
  BY <1>21 DEF CompleteDriverWake, CommandDone, LatchFaults
<1>22. CASE IsolateFailedEnable
  BY <1>22 DEF IsolateFailedEnable, DisableAll, Sleep, CommandDone
<1>23. CASE SampleAndLatchFaultInputs("resample", "recheck")
  BY <1>23 DEF SampleAndLatchFaultInputs, LatchFaults
<1>24. CASE RecheckAfterEnable
  BY <1>24 DEF RecheckAfterEnable, DisableAll, Sleep, CommandDone
<1>25. CASE WritePmode
  BY <1>25 DEF WritePmode
<1>26. CASE HostCommand
  <2>1. CASE \E d \in Drivers, dir \in Directions : DriveOne(d, dir)
    BY <2>1 DEF Accept, DriveOne
  <2>2. CASE \E dir \in Directions : DriveAll(dir)
    BY <2>2 DEF Accept, DriveAll, DisableAll, Sleep, CommandDone
  <2>3. CASE \E d \in Drivers : CoilOff("CoilOff", {d})
    BY <2>3 DEF Accept, CoilOff
  <2>4. CASE CoilOff("CoilOffAll", Drivers)
    BY <2>4 DEF Accept, CoilOff
  <2>5. CASE \E d \in Drivers : SleepOne(d)
    BY <2>5 DEF Accept, SleepOne, Sleep, CommandDone
  <2>6. CASE SleepAll
    BY <2>6 DEF Accept, SleepAll, DisableAll, Sleep, CommandDone
  <2>7. CASE \E d \in Drivers : Wake("Wake", {d})
    BY <2>7 DEF Accept, Wake
  <2>8. CASE Wake("WakeAll", Drivers)
    BY <2>8 DEF Accept, Wake
  <2>9. CASE \E d \in Drivers, c \in Currents : SetCurrent(d, c)
    BY <2>9 DEF Accept, SetCurrent
  <2>10. CASE \E c \in Currents : SetCurrentAll(c)
    BY <2>10 DEF Accept, SetCurrentAll
  <2>11. CASE BeginSetPmode
    BY <2>11 DEF Accept, BeginSetPmode
  <2>12. QED
    BY <1>26, <2>1, <2>2, <2>3, <2>4, <2>5, <2>6, <2>7, <2>8, <2>9,
       <2>10, <2>11 DEF HostCommand
<1>27. CASE EndPass
  BY <1>27 DEF EndPass
<1>28. CASE Tick
  BY <1>28 DEF Tick
<1>29. CASE UNCHANGED vars
  BY <1>29
<1>30. QED
  BY <1>1, <1>2, <1>3, <1>4, <1>5, <1>6, <1>7, <1>8, <1>9, <1>10, <1>11,
     <1>12, <1>13, <1>14, <1>15, <1>16, <1>17, <1>18, <1>19, <1>20, <1>21,
     <1>22, <1>23, <1>24, <1>25, <1>26, <1>27, <1>28, <1>29 DEF Next,
     Interrupts, SafetyPass, CommandStep, ManagerStep

\* No interleaving of the edge handlers with servicePendingDriverShutdowns and
\* the commands loses the shutdown of a faulted bridge.
THEOREM ScheduledTheorem == Spec => []FaultedBridgeIsScheduled
<1> DEFINE IInv ==
      /\ ServicedIsAsleep /\ CoastingIsAwake /\ ClearedIsAsleep
      /\ FaultedBridgeIsScheduled
<1>1. Init => IInv
  BY DEF Init, DriverInit, ServicedIsAsleep, CoastingIsAwake, ClearedIsAsleep,
     FaultedBridgeIsScheduled
<1>2. TypeOK /\ IInv /\ [Next]_vars => IInv'
  BY ServicedStep, CoastingStep, ClearedStep, ScheduledStep
<1>3. IInv => FaultedBridgeIsScheduled
  OBVIOUS
<1>4. QED
  BY <1>1, <1>2, <1>3, TypeCorrect, PTL DEF Spec
=============================================================================

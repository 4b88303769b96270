------------------------------ MODULE Drv8874 ------------------------------
(***************************************************************************)
(* Drivers/Drv8874.cpp, one per bridge, and the shared PMODE output.       *)
(*                                                                         *)
(* IN1 and IN2 always hold the levels the truth table gives to the cached  *)
(* state: both are written in the step that writes state, and every state  *)
(* but Forward and Reverse is non-driving in both modes.  nSleep is the    *)
(* output register itself, because interrupts clear it behind the cache.   *)
(***************************************************************************)
EXTENDS SafetyLines

CONSTANT
  Currents      \* retained thresholds in the model, 0 among them

ASSUME CurrentsAssumption == Currents \subseteq Nat /\ 0 \in Currents

VARIABLES
  state,        \* _state: the last commanded state
  nSleep,       \* bridges whose nSLEEP output is high
  threshold,    \* _currentThresholdMilliamps
  applied,      \* _appliedCurrentThresholdMilliamps, the VREF output
  faultLatched, \* bridges with _faultLatched
  pmode         \* shared PMODE level, TRUE for PWM

Directions == {"Forward", "Reverse"}
States == Directions \cup {"Sleep", "CoilOff"}

driverVars == <<state, nSleep, threshold, applied, faultLatched, pmode>>

DriverType ==
  /\ state \in [Drivers -> States]
  /\ nSleep \subseteq Drivers
  /\ threshold \in [Drivers -> Currents]
  /\ applied \in [Drivers -> Currents]
  /\ faultLatched \subseteq Drivers
  /\ pmode \in BOOLEAN

\* A bridge delivers current only with nSLEEP high and driving inputs.
Driving(d) == d \in nSleep /\ state[d] \in Directions

-----------------------------------------------------------------------------
\* Drv8874::hasFault, the live pin or the device latch.
DeviceFault(d) == d \in faultLatched \/ d \in low

\* applyState(Sleep) on a set of bridges; VREF is written by the caller.
Sleep(S) ==
  /\ state' = [d \in Drivers |-> IF d \in S THEN "Sleep" ELSE state[d]]
  /\ nSleep' = nSleep \ S

\* applyState for an awake state, from its second fault check on.
Enter(d, s) ==
  /\ state' = [state EXCEPT ![d] = s]
  /\ nSleep' = nSleep \cup {d}

\* writeCurrentThreshold(0), the retained threshold is kept.
ZeroReference(S) ==
  applied' = [d \in Drivers |-> IF d \in S THEN 0 ELSE applied[d]]

\* applyCurrentThreshold
ApplyReference(S) ==
  applied' = [d \in Drivers |-> IF d \in S THEN threshold[d] ELSE applied[d]]

\* Mutant: an awake bridge only retains the value, too.
RetainThreshold(S, c) ==
  /\ threshold' = [d \in Drivers |-> IF d \in S THEN c ELSE threshold[d]]
  /\ UNCHANGED applied

\* setCurrentThresholdMilliamps: a sleeping bridge only retains the value.
SetThreshold(S, c) ==
  /\ threshold' = [d \in Drivers |-> IF d \in S THEN c ELSE threshold[d]]
  /\ applied' = [d \in Drivers |->
                   IF d \in S /\ state[d] # "Sleep" THEN c ELSE applied[d]]

AllAsleep == \A d \in Drivers : state[d] = "Sleep"
AllReferencesZero == \A d \in Drivers : applied[d] = 0

\* Constructor and init(): asleep, VREF zero, the default threshold retained.
DriverInit ==
  /\ state = [d \in Drivers |-> "Sleep"]
  /\ nSleep = {}
  /\ threshold \in {[d \in Drivers |-> c] : c \in Currents \ {0}}
  /\ applied = [d \in Drivers |-> 0]
  /\ faultLatched = {}
  /\ pmode = TRUE
=============================================================================

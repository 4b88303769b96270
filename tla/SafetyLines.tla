---------------------------- MODULE SafetyLines ----------------------------
(***************************************************************************)
(* The active-low safety inputs (one nFAULT per bridge, one POWER_ALERT),  *)
(* the EXTI falling-edge flags that capture them, and the rule by which    *)
(* the two EXTI handlers preempt the single foreground loop.               *)
(*                                                                         *)
(* Both vectors run at NVIC priority 0, so a captured edge is served       *)
(* before the foreground executes its next instruction, unless the         *)
(* foreground holds an InterruptGuard (PRIMASK).  The model keeps that     *)
(* rule: a foreground step needs edges = {} except between the steps of    *)
(* one critical section.                                                   *)
(***************************************************************************)
EXTENDS Integers, FiniteSets

CONSTANTS
  Drivers,      \* the bridges H1 .. H4
  PowerAlert,   \* the INA226 POWER_ALERT line, and its bit of the fault mask
  MaxFalls      \* bound: falling edges of all lines in one behaviour

ASSUME LinesAssumption ==
  /\ IsFiniteSet(Drivers)
  /\ PowerAlert \notin Drivers
  /\ MaxFalls \in Nat \ {0}

VARIABLES
  low,          \* lines whose pin is low (asserted)
  edges,        \* lines whose EXTI falling flag is set
  safetyEvent,  \* InterruptEvents.cpp safetyInterruptPending
  falls,        \* number of falling edges so far, an alert at boot included
  pc            \* what the foreground executes next

Lines == Drivers \cup {PowerAlert}

\* Steps that execute with PRIMASK set and are followed by another step of the
\* same critical section: the enable check after the bridge was switched on, the
\* second read of a wake qualification, and the second half of
\* clearFaultHardware.
Masked == pc \in {"verify", "qualify2", "clearHardware2"}

\* A foreground step at control point p.
At(p) == pc = p /\ (Masked \/ edges = {})
Goto(p) == pc' = p

lineVars == <<low, edges, safetyEvent, falls>>

LinesType ==
  /\ low \subseteq Lines
  /\ edges \subseteq Lines
  /\ safetyEvent \in BOOLEAN
  /\ falls \in 0 .. MaxFalls

-----------------------------------------------------------------------------
(* The environment: a line may be asserted or released at any moment.       *)

PinFalls(l) ==
  /\ falls < MaxFalls
  /\ l \notin low
  /\ low' = low \cup {l}
  /\ edges' = edges \cup {l}
  /\ falls' = falls + 1
  /\ UNCHANGED safetyEvent

PinRises(l) ==
  /\ l \in low
  /\ low' = low \ {l}
  /\ UNCHANGED <<edges, safetyEvent, falls>>

\* Mutant: the flags of every line are cleared with the one that is served.
AcceptEveryEdge(l) ==
  /\ ~Masked
  /\ l \in edges
  /\ edges' = {}
  /\ safetyEvent' = TRUE
  /\ UNCHANGED <<low, falls>>

\* HAL_GPIO_EXTI_IRQHandler clears the flag and then calls
\* HAL_GPIO_EXTI_Falling_Callback, whose first statement records the event.
AcceptEdge(l) ==
  /\ ~Masked
  /\ l \in edges
  /\ edges' = edges \ {l}
  /\ safetyEvent' = TRUE
  /\ UNCHANGED <<low, falls>>

\* SafetyManager::powerAlertFaultObserved: the level or a captured edge.
PowerAlertObserved == PowerAlert \in low \cup edges
=============================================================================

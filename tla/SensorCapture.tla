--------------------------- MODULE SensorCapture ---------------------------
(***************************************************************************)
(* The sensors of the board: the edge interrupts with their debounce and    *)
(* the bounded list of edges a launch keeps.  Time is counted in ticks; the *)
(* code only sees it modulo the period of TIM2.  The signals are external.  *)
(***************************************************************************)
EXTENDS Integers, Sequences

CONSTANTS
  SensorCount,
  Capacity,      \* SensorEvents::Capacity
  intervalTicks, \* interval of SensorEdgeDebounce
  TimerPeriod    \* ticks after which TIM2 wraps

ASSUME CaptureAssumption ==
  /\ SensorCount \in Nat \ {0} /\ Capacity \in Nat \ {0}
  /\ intervalTicks \in Nat /\ TimerPeriod \in Nat /\ intervalTicks < TimerPeriod

VARIABLES
  now,              \* time
  lastTimestamp,    \* of each polarity of each sensor
  timestampValid,
  events,           \* Sensor::_events
  launchCapture,    \* _launchCaptureActive
  \* history
  genuine,          \* when the last edge was that the interval does not exclude
  kept              \* the edges of the launch that should be kept

captureVars == <<now, lastTimestamp, timestampValid, events, launchCapture,
                 genuine, kept>>

Edges == {"Rising", "Falling"}
Lines == (1 .. SensorCount) \X Edges
Timestamp == 0 .. TimerPeriod - 1
NoEdges == [s \in 1 .. SensorCount |-> [e \in Edges |-> <<>>]]
Never == -1

timestamp(time) == time % TimerPeriod
Elapsed(since, stamp) == (stamp - since) % TimerPeriod

CaptureType ==
  /\ now \in Nat
  /\ lastTimestamp \in [Lines -> Timestamp] /\ timestampValid \in [Lines -> BOOLEAN]
  /\ \A s \in 1 .. SensorCount, e \in Edges :
       events[s][e] \in Seq(Timestamp) /\ Len(events[s][e]) <= Capacity
  /\ launchCapture \in BOOLEAN
  /\ genuine \in [Lines -> Nat \cup {Never}]

CaptureInit ==
  /\ now = 0
  /\ lastTimestamp = [l \in Lines |-> 0] /\ timestampValid = [l \in Lines |-> FALSE]
  /\ events = NoEdges /\ launchCapture = FALSE
  /\ genuine = [l \in Lines |-> Never] /\ kept = NoEdges

-----------------------------------------------------------------------------
\* Mutant: the edges of a bounce are kept too.
acceptBounce(line) == TRUE

accept(line) ==
  ~(timestampValid[line]
    /\ Elapsed(lastTimestamp[line], timestamp(now)) < intervalTicks)

Keep(list, line, stamp) ==
  IF Len(list[line[1]][line[2]]) < Capacity
    THEN [list EXCEPT ![line[1]][line[2]] = Append(@, stamp)]
    ELSE list

\* What the debounce means: an edge counts unless one of the same polarity that
\* counted is less than an interval old.
IsGenuine(line) == genuine[line] = Never \/ now - genuine[line] >= intervalTicks

handleSensorInterrupt(line) ==
  /\ IF accept(line)
       THEN /\ lastTimestamp' = [lastTimestamp EXCEPT ![line] = timestamp(now)]
            /\ timestampValid' = [timestampValid EXCEPT ![line] = TRUE]
            /\ events' = IF launchCapture THEN Keep(events, line, timestamp(now))
                                          ELSE events
       ELSE UNCHANGED <<lastTimestamp, timestampValid, events>>
  /\ genuine' = IF IsGenuine(line) THEN [genuine EXCEPT ![line] = now] ELSE genuine
  /\ kept' = IF IsGenuine(line) /\ launchCapture THEN Keep(kept, line, now) ELSE kept
  /\ UNCHANGED <<now, launchCapture>>

\* With interrupts masked.
beginLaunchCapture ==
  /\ events' = NoEdges
  /\ lastTimestamp' = [l \in Lines |-> 0]
  /\ timestampValid' = [l \in Lines |-> FALSE]
  /\ launchCapture' = TRUE
  /\ genuine' = [l \in Lines |-> Never]
  /\ kept' = NoEdges
  /\ UNCHANGED now

endLaunchCapture ==
  /\ launchCapture' = FALSE
  /\ UNCHANGED <<now, lastTimestamp, timestampValid, events, genuine, kept>>
=============================================================================

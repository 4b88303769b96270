----------------------------- MODULE EvalBoard -----------------------------
(***************************************************************************)
(* The evaluation board: its main loop, the timer interrupt that pairs the  *)
(* captures of the two sensors, the USB interrupt, and the host script that *)
(* starts and stops the acquisition.  The two interrupts have one priority, *)
(* so each runs to its end; the main loop can be interrupted at every step  *)
(* but the one that masks interrupts.  A time stamp is the number of the    *)
(* edge it was taken at.  The timer hardware and the CDC class driver are   *)
(* external.                                                                *)
(***************************************************************************)
EXTENDS Integers, FiniteSets

CONSTANTS
  QueueSize, \* EVENT_QUEUE_SIZE
  MaxEdges   \* bound: sensor edges of a behaviour

ASSUME EvalAssumption == QueueSize \in Nat \ {0, 1} /\ MaxEdges \in Nat

VARIABLES
  events, queueHead, queueTail, \* the ring of captured pairs
  acquiring,
  firstCaptured, firstTimestamp,
  transmitBusy,
  pendingCommand,
  pc,           \* step of EvalBoard_Process
  frame,        \* the event it has copied
  \* environment
  configured,   \* the host has configured the CDC class
  wire,         \* the frame the IN endpoint holds (TxState = 1), or NoEvent
  capture,      \* capture registers whose interrupt flag is set; 0: not set
  edges,        \* edges so far
  \* history
  cleared,      \* the last edge served before the last command was executed
  sentUpTo,     \* the last time stamp handed to the class driver
  asked,        \* the last edge served before the last START arrived
  stale         \* frames read since then that are of before

ring == <<events, queueHead, queueTail>>
capturing == <<acquiring, firstCaptured, firstTimestamp>>
loop == <<pc, frame>>
hardware == <<configured, wire, capture, edges>>
history == <<cleared, sentUpTo, asked, stale>>
vars == <<ring, capturing, transmitBusy, pendingCommand, loop, hardware, history>>

Stamp == 0 .. MaxEdges
Event == [first: Stamp, second: Stamp]
NoEvent == [first |-> 0, second |-> 0]
Sensors == {1, 2}

TypeOK ==
  /\ events \in [0 .. QueueSize - 1 -> Event]
  /\ queueHead \in 0 .. QueueSize - 1 /\ queueTail \in 0 .. QueueSize - 1
  /\ acquiring \in BOOLEAN /\ firstCaptured \in BOOLEAN /\ firstTimestamp \in Stamp
  /\ transmitBusy \in BOOLEAN /\ pendingCommand \in {"none", "START", "STOP"}
  /\ pc \in {"loop", "queue", "mark", "transmit", "advance"}
  /\ frame \in Event /\ wire \in Event /\ configured \in BOOLEAN
  /\ capture \in [Sensors -> Stamp] /\ edges \in Stamp
  /\ cleared \in Stamp /\ sentUpTo \in Stamp /\ asked \in Stamp /\ stale \in Nat

Init ==
  /\ events = [i \in 0 .. QueueSize - 1 |-> NoEvent]
  /\ queueHead = 0 /\ queueTail = 0
  /\ acquiring = FALSE /\ firstCaptured = FALSE /\ firstTimestamp = 0
  /\ transmitBusy = FALSE /\ pendingCommand = "none"
  /\ pc = "loop" /\ frame = NoEvent
  /\ configured = FALSE /\ wire = NoEvent
  /\ capture = [s \in Sensors |-> 0] /\ edges = 0
  /\ cleared = 0 /\ sentUpTo = 0 /\ asked = 0 /\ stale = 0

\* Mutant: the index is not masked.
FollowingUnmasked(index) == index + 1

Following(index) == (index + 1) % QueueSize

\* The last edge that was served: one whose interrupt is still pending counts
\* for the acquisition it is served in.
LastServed ==
  CHOOSE e \in Stamp :
    /\ \A s \in Sensors : capture[s] # 0 => e < capture[s]
    /\ e = edges \/ \E s \in Sensors : capture[s] = e + 1

-----------------------------------------------------------------------------
(* EvalBoard_Process.                                                       *)

\* Mutant: the first edge of a crossing survives the command.
clearAcquisitionKeepsFirst ==
  /\ firstCaptured' = firstCaptured
  /\ queueHead' = 0 /\ queueTail' = 0

\* Mutant: the ring survives the command.
clearAcquisitionKeepsQueue ==
  /\ firstCaptured' = FALSE
  /\ UNCHANGED <<queueHead, queueTail>>

clearAcquisition ==
  /\ firstCaptured' = FALSE
  /\ queueHead' = 0 /\ queueTail' = 0

\* With interrupts masked.  A command that replaces the one seen by the test is
\* executed in its stead, so test and execution are one step.
ExecuteCommand ==
  /\ pc = "loop" /\ pendingCommand # "none"
  /\ clearAcquisition
  /\ acquiring' = (pendingCommand = "START")
  /\ pendingCommand' = "none"
  /\ cleared' = LastServed
  /\ UNCHANGED <<events, firstTimestamp, transmitBusy, loop, hardware, sentUpTo,
                 asked, stale>>

NoCommand ==
  /\ pc = "loop" /\ pendingCommand = "none"
  /\ pc' = "queue"
  /\ UNCHANGED <<ring, capturing, transmitBusy, pendingCommand, frame, hardware,
                 history>>

TakeEvent ==
  /\ pc = "queue"
  /\ IF transmitBusy \/ queueTail = queueHead
       THEN pc' = "loop" /\ UNCHANGED frame
       ELSE pc' = "mark" /\ frame' = events[queueTail]
  /\ UNCHANGED <<ring, capturing, transmitBusy, pendingCommand, hardware, history>>

MarkBusy ==
  /\ pc = "mark"
  /\ transmitBusy' = TRUE
  /\ pc' = "transmit"
  /\ UNCHANGED <<ring, capturing, pendingCommand, frame, hardware, history>>

\* CDC_Transmit_FS refuses without a configured host or under a transfer.
Transmit ==
  /\ pc = "transmit"
  /\ IF configured /\ wire = NoEvent
       THEN /\ wire' = frame /\ sentUpTo' = frame.second
            /\ pc' = "advance"
            /\ UNCHANGED transmitBusy
       ELSE /\ transmitBusy' = FALSE
            /\ pc' = "loop"
            /\ UNCHANGED <<wire, sentUpTo>>
  /\ UNCHANGED <<ring, capturing, pendingCommand, frame, configured, capture,
                 edges, cleared, asked, stale>>

\* Mutant: the transmission is marked busy after it was started.
AdvanceThenMark ==
  /\ pc = "advance"
  /\ queueTail' = Following(queueTail)
  /\ transmitBusy' = TRUE
  /\ pc' = "loop"
  /\ UNCHANGED <<events, queueHead, capturing, pendingCommand, frame, hardware,
                 history>>

Advance ==
  /\ pc = "advance"
  /\ queueTail' = Following(queueTail)
  /\ pc' = "loop"
  /\ UNCHANGED <<events, queueHead, capturing, transmitBusy, pendingCommand, frame,
                 hardware, history>>

Process ==
  ExecuteCommand \/ NoCommand \/ TakeEvent \/ MarkBusy \/ Transmit \/ Advance

-----------------------------------------------------------------------------
(* The USB interrupt.                                                       *)

OnUsbReceive(command) ==
  /\ configured
  /\ pendingCommand' = command
  /\ IF command = "START" THEN asked' = LastServed /\ stale' = 0
                          ELSE UNCHANGED <<asked, stale>>
  /\ UNCHANGED <<ring, capturing, transmitBusy, loop, hardware, cleared, sentUpTo>>

OnUsbConnected ==
  /\ ~configured
  /\ configured' = TRUE
  /\ transmitBusy' = FALSE
  /\ UNCHANGED <<ring, capturing, pendingCommand, loop, wire, capture, edges, history>>

OnUsbDisconnected ==
  /\ configured
  /\ configured' = FALSE /\ wire' = NoEvent
  /\ acquiring' = FALSE /\ firstCaptured' = FALSE
  /\ pendingCommand' = "STOP"
  /\ transmitBusy' = FALSE
  /\ UNCHANGED <<ring, firstTimestamp, loop, capture, edges, history>>

\* The host has read the frame.
OnUsbTransmitComplete ==
  /\ wire # NoEvent
  /\ wire' = NoEvent
  /\ transmitBusy' = FALSE
  /\ stale' = IF wire.first <= asked THEN stale + 1 ELSE stale
  /\ UNCHANGED <<ring, capturing, pendingCommand, loop, configured, capture, edges,
                 cleared, sentUpTo, asked>>

-----------------------------------------------------------------------------
(* The sensors and the timer interrupt.                                     *)

\* A beam is cut.  A second projectile does not reach the first sensor within
\* the latency of the interrupt the one before caused at the second sensor:
\* the handler serves channel 3 before channel 4, whichever was first.
SensorEdge(s) ==
  /\ edges < MaxEdges
  /\ s = 1 => capture[2] = 0
  /\ edges' = edges + 1
  /\ capture' = [capture EXCEPT ![s] = edges + 1]
  /\ UNCHANGED <<ring, capturing, transmitBusy, pendingCommand, loop, configured,
                 wire, history>>

\* The pair is dropped when the ring is full.
Enqueue(first, second) ==
  IF Following(queueHead) = queueTail
    THEN UNCHANGED <<events, queueHead>>
    ELSE /\ events' = [events EXCEPT ![queueHead] = [first |-> first, second |-> second]]
         /\ queueHead' = Following(queueHead)

\* One interrupt serves the flags it finds set, channel 3 first.
CaptureCallback ==
  /\ capture # [s \in Sensors |-> 0]
  /\ capture' = [s \in Sensors |-> 0]
  /\ LET first == IF capture[1] # 0 THEN capture[1] ELSE firstTimestamp
         paired == capture[2] # 0 /\ (firstCaptured \/ capture[1] # 0)
     IN IF acquiring
          THEN /\ firstTimestamp' = first
               /\ firstCaptured' = (~paired /\ (firstCaptured \/ capture[1] # 0))
               /\ IF paired THEN Enqueue(first, capture[2])
                            ELSE UNCHANGED <<events, queueHead>>
          ELSE UNCHANGED <<firstTimestamp, firstCaptured, events, queueHead>>
  /\ UNCHANGED <<queueTail, acquiring, transmitBusy, pendingCommand, loop, configured,
                 wire, edges, history>>

-----------------------------------------------------------------------------
Next ==
  \/ Process
  \/ \E command \in {"START", "STOP"} : OnUsbReceive(command)
  \/ OnUsbConnected \/ OnUsbDisconnected \/ OnUsbTransmitComplete
  \/ \E s \in Sensors : SensorEdge(s)
  \/ CaptureCallback

Spec == Init /\ [][Next]_vars

\* The main loop never blocks and the script reads the port in a loop.
FairSpec == Spec /\ WF_vars(Process) /\ WF_vars(OnUsbTransmitComplete)

-----------------------------------------------------------------------------
(* Properties.                                                              *)

\* A frame handed to the class driver is one crossing, both of whose edges are
\* of the acquisition in progress, and a later crossing than the frame before:
\* none is repeated, reordered, overwritten in the ring or put together from
\* the ends of two acquisitions.
FramesAreNewCrossings ==
  [][wire' # wire /\ wire' # NoEvent =>
       /\ cleared < wire'.first /\ sentUpTo < wire'.first
       /\ wire'.first < wire'.second]_vars

\* What the host reads after its START and was captured before it: at most the
\* frame in the endpoint and the one the main loop was about to send.
StaleFramesAreFew == stale <= 2

\* Once the crossings stop (MaxEdges), the ring drains unless the host leaves: no
\* lost completion or refused transfer leaves transmitBusy set for ever.
RingDrains == queueTail # queueHead ~> queueTail = queueHead \/ ~configured

-----------------------------------------------------------------------------
(* Strengthenings of FramesAreNewCrossings and StaleFramesAreFew.           *)

\* The pairs that wait, and how many are before one of them.
Live(i) == IF queueTail <= queueHead THEN queueTail <= i /\ i < queueHead
                                     ELSE queueTail <= i \/ i < queueHead
Rank(i) == IF queueTail <= i THEN i - queueTail ELSE i - queueTail + QueueSize

\* A stamp taken before every edge that has not been served.
Served(stamp) ==
  /\ stamp <= edges
  /\ \A s \in Sensors : capture[s] # 0 => stamp < capture[s]

\* A pending capture is an edge; if both sensors have one, the first was earlier.
CapturesAreOrdered ==
  /\ \A s \in Sensors : capture[s] <= edges
  /\ capture[1] # 0 /\ capture[2] # 0 => capture[1] < capture[2]

HistoryIsServed == Served(cleared) /\ Served(sentUpTo) /\ Served(asked)

\* The pairs that wait are crossings of this acquisition, in their order.
RingIsOrdered ==
  \A i \in 0 .. QueueSize - 1 : Live(i) =>
    /\ cleared < events[i].first /\ events[i].first < events[i].second
    /\ Served(events[i].second)
    /\ sentUpTo < events[i].first \/ (pc = "advance" /\ i = queueTail)
    /\ \A j \in 0 .. QueueSize - 1 :
         Live(j) /\ Rank(i) < Rank(j) => events[i].second < events[j].first

\* So is the first edge of a crossing whose second is awaited.
FirstIsNewest ==
  firstCaptured =>
    /\ cleared < firstTimestamp /\ sentUpTo < firstTimestamp
    /\ Served(firstTimestamp)
    /\ \A i \in 0 .. QueueSize - 1 :
         Live(i) => events[i].second < firstTimestamp

\* The frame that was copied is still the oldest pair: the interrupt drops a new
\* one rather than overwrite it, and no command is executed meanwhile.
FrameIsOldest ==
  /\ pc \in {"mark", "transmit", "advance"} =>
       queueTail # queueHead /\ frame = events[queueTail]
  /\ pc = "advance" => sentUpTo = frame.second

\* Frames of before the last START can come from the endpoint and from the main
\* loop until it executes a command, which it does before it takes another.
WireIsStale == wire # NoEvent /\ wire.first <= asked
LoopIsStale == pc \in {"queue", "mark", "transmit"} /\ cleared < asked
StaleIsBounded ==
  /\ cleared < asked => pendingCommand # "none"
  /\ stale + (IF WireIsStale THEN 1 ELSE 0) + (IF LoopIsStale THEN 1 ELSE 0) <= 2
=============================================================================

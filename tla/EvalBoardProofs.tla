--------------------------- MODULE EvalBoardProofs ---------------------------
(***************************************************************************)
(* The evaluation board, for every size of its ring and any number of       *)
(* edges: what the main loop sends while the capture and the USB interrupts *)
(* preempt it, and what a host can read of an acquisition before its own.   *)
(***************************************************************************)
EXTENDS EvalBoard, TLAPS

USE EvalAssumption

USE DEF vars, ring, capturing, loop, hardware, history

-----------------------------------------------------------------------------
(* The ring and the clock of edges.                                         *)

\* The masked increment of an index.
LEMMA FollowingIsNext ==
  ASSUME NEW i \in 0 .. QueueSize - 1
  PROVE  Following(i) = IF i = QueueSize - 1 THEN 0 ELSE i + 1
<1>1. CASE i = QueueSize - 1
  BY <1>1 DEF Following
<1>2. CASE i # QueueSize - 1
  <2>1. i + 1 \in 0 .. QueueSize - 1
    BY <1>2
  <2>2. \A a \in 0 .. QueueSize - 1 : a % QueueSize = a
    OBVIOUS
  <2>3. QED
    BY <1>2, <2>1, <2>2 DEF Following
<1>3. QED
  BY <1>1, <1>2

\* A pair that finds room becomes the newest one.
LEMMA EnqueueRing ==
  ASSUME queueHead \in 0 .. QueueSize - 1, queueTail \in 0 .. QueueSize - 1,
         Following(queueHead) # queueTail,
         queueHead' = Following(queueHead), UNCHANGED queueTail
  PROVE  /\ ~Live(queueHead)
         /\ \A i \in 0 .. QueueSize - 1 :
              /\ Live(i)' <=> Live(i) \/ i = queueHead
              /\ Live(i) => Rank(i) < Rank(queueHead)
              /\ Rank(i)' = Rank(i)
BY FollowingIsNext DEF Live, Rank

\* Sending a pair removes the oldest one.
LEMMA AdvanceRing ==
  ASSUME queueHead \in 0 .. QueueSize - 1, queueTail \in 0 .. QueueSize - 1,
         queueTail # queueHead,
         queueTail' = Following(queueTail), UNCHANGED queueHead
  PROVE  /\ Live(queueTail)
         /\ \A i \in 0 .. QueueSize - 1 :
              /\ Live(i)' <=> Live(i) /\ i # queueTail
              /\ Live(i) /\ i # queueTail => Rank(queueTail) < Rank(i)
         /\ \A i, j \in 0 .. QueueSize - 1 :
              Live(i)' /\ Live(j)' /\ Rank(i)' < Rank(j)' => Rank(i) < Rank(j)
BY FollowingIsNext DEF Live, Rank

\* The oldest pair is before every other.
LEMMA OldestRing ==
  ASSUME queueHead \in 0 .. QueueSize - 1, queueTail \in 0 .. QueueSize - 1,
         queueTail # queueHead
  PROVE  /\ Live(queueTail)
         /\ \A i \in 0 .. QueueSize - 1 :
              Live(i) /\ i # queueTail => Rank(queueTail) < Rank(i)
BY DEF Live, Rank

\* LastServed is the newest stamp that is served.
LEMMA LastServedIsNewest ==
  ASSUME TypeOK
  PROVE  /\ LastServed \in Stamp
         /\ CapturesAreOrdered => Served(LastServed)
         /\ \A stamp \in Stamp : Served(stamp) => stamp <= LastServed
<1> DEFINE P(e) == /\ \A s \in Sensors : capture[s] # 0 => e < capture[s]
                   /\ e = edges \/ \E s \in Sensors : capture[s] = e + 1
<1> USE DEF TypeOK, Stamp, Sensors
<1>1. \E e \in Stamp : P(e)
  <2>1. CASE capture[1] = 0 /\ capture[2] = 0
    BY <2>1
  <2>2. CASE capture[1] # 0 /\ (capture[2] = 0 \/ capture[1] <= capture[2])
    <3>1. capture[1] - 1 \in Stamp /\ P(capture[1] - 1)
      BY <2>2
    <3>2. QED
      BY <3>1
  <2>3. CASE capture[2] # 0 /\ (capture[1] = 0 \/ capture[2] <= capture[1])
    <3>1. capture[2] - 1 \in Stamp /\ P(capture[2] - 1)
      BY <2>3
    <3>2. QED
      BY <3>1
  <2>4. QED
    BY <2>1, <2>2, <2>3
<1>2. LastServed \in Stamp /\ P(LastServed)
  BY <1>1 DEF LastServed
<1> HIDE DEF P
<1>3. CapturesAreOrdered => Served(LastServed)
  BY <1>2 DEF P, Served, CapturesAreOrdered
<1>4. ASSUME NEW stamp \in Stamp, Served(stamp) PROVE stamp <= LastServed
  BY <1>2, <1>4 DEF P, Served
<1>5. QED
  BY <1>2, <1>3, <1>4

-----------------------------------------------------------------------------
(* Type correctness.                                                        *)

\* Every variable of the evaluation board keeps its type.
THEOREM EvalTypeCorrect == Spec => []TypeOK
<1> NoEvent \in Event /\ 0 \in Stamp
  BY DEF NoEvent, Event, Stamp
<1>1. Init => TypeOK
  <2> SUFFICES ASSUME Init PROVE TypeOK
    OBVIOUS
  <2>1. events \in [0 .. QueueSize - 1 -> Event] /\ capture \in [Sensors -> Stamp]
    BY DEF Init
  <2>2. /\ queueHead \in 0 .. QueueSize - 1 /\ queueTail \in 0 .. QueueSize - 1
        /\ edges \in Stamp /\ stale \in Nat
    BY DEF Init
  <2>3. QED
    BY <2>1, <2>2 DEF Init, TypeOK
<1>2. ASSUME TypeOK, [Next]_vars PROVE TypeOK'
  <2> USE <1>2 DEF TypeOK
  <2>1. CASE ExecuteCommand
    <3>1. acquiring' \in BOOLEAN /\ cleared' \in Stamp
      BY <2>1, LastServedIsNewest DEF ExecuteCommand
    <3>2. queueHead' \in 0 .. QueueSize - 1 /\ queueTail' \in 0 .. QueueSize - 1
      BY <2>1 DEF ExecuteCommand, clearAcquisition
    <3>3. QED
      BY <2>1, <3>1, <3>2 DEF ExecuteCommand, clearAcquisition
  <2>2. CASE NoCommand \/ TakeEvent \/ MarkBusy
    BY <2>2 DEF NoCommand, TakeEvent, MarkBusy
  <2>3. CASE Transmit
    BY <2>3 DEF Transmit, Event
  <2>4. CASE Advance
    BY <2>4, FollowingIsNext DEF Advance
  <2>5. CASE \E command \in {"START", "STOP"} : OnUsbReceive(command)
    BY <2>5, LastServedIsNewest DEF OnUsbReceive
  <2>6. CASE OnUsbConnected \/ OnUsbDisconnected
    BY <2>6 DEF OnUsbConnected, OnUsbDisconnected
  <2>7. CASE OnUsbTransmitComplete
    <3>1. stale' \in Nat /\ wire' \in Event
      BY <2>7 DEF OnUsbTransmitComplete
    <3>2. QED
      BY <2>7, <3>1 DEF OnUsbTransmitComplete
  <2>8. CASE \E s \in Sensors : SensorEdge(s)
    BY <2>8 DEF SensorEdge, Stamp
  <2>9. CASE CaptureCallback
    <3> DEFINE first == IF capture[1] # 0 THEN capture[1] ELSE firstTimestamp
    <3>1. first \in Stamp /\ capture[2] \in Stamp
      BY DEF Sensors
    <3>2. Following(queueHead) \in 0 .. QueueSize - 1
      BY FollowingIsNext
    <3>3. [first |-> first, second |-> capture[2]] \in Event
      BY <3>1 DEF Event
    <3>4. /\ capture' \in [Sensors -> Stamp]
          /\ firstTimestamp' \in Stamp
      BY <2>9, <3>1 DEF CaptureCallback
    <3>5. firstCaptured' \in BOOLEAN
      BY <2>9 DEF CaptureCallback
    <3>6. /\ events' \in [0 .. QueueSize - 1 -> Event]
          /\ queueHead' \in 0 .. QueueSize - 1
      <4>1. Enqueue(first, capture[2]) \/ UNCHANGED <<events, queueHead>>
        BY <2>9 DEF CaptureCallback
      <4>2. QED
        BY <4>1, <3>2, <3>3 DEF Enqueue
    <3>7. QED
      BY <2>9, <3>4, <3>5, <3>6 DEF CaptureCallback
  <2>10. CASE UNCHANGED vars
    BY <2>10
  <2>11. QED
    BY <2>1, <2>2, <2>3, <2>4, <2>5, <2>6, <2>7, <2>8, <2>9, <2>10
       DEF Next, Process
<1>3. QED
  BY <1>1, <1>2, PTL DEF Spec

-----------------------------------------------------------------------------
(* The clock of edges.                                                      *)

\* Pending captures stay ordered edges.
LEMMA CapturesStep ==
  ASSUME TypeOK, CapturesAreOrdered, [Next]_vars
  PROVE  CapturesAreOrdered'
<1> USE DEF CapturesAreOrdered, TypeOK, Sensors, Stamp
<1>1. CASE Process
  BY <1>1 DEF Process, ExecuteCommand, NoCommand, TakeEvent, MarkBusy, Transmit,
     Advance
<1>2. CASE \E command \in {"START", "STOP"} : OnUsbReceive(command)
  BY <1>2 DEF OnUsbReceive
<1>3. CASE OnUsbConnected \/ OnUsbDisconnected \/ OnUsbTransmitComplete
  BY <1>3 DEF OnUsbConnected, OnUsbDisconnected, OnUsbTransmitComplete
<1>4. CASE \E s \in Sensors : SensorEdge(s)
  BY <1>4 DEF SensorEdge
<1>5. CASE CaptureCallback
  BY <1>5 DEF CaptureCallback
<1>6. QED
  BY <1>1, <1>2, <1>3, <1>4, <1>5 DEF Next

\* A stamp that is served stays so.
ServedAfter(stamp) ==
  /\ stamp <= edges'
  /\ \A s \in Sensors : capture'[s] # 0 => stamp < capture'[s]

\* No step takes back that a stamp is served.
LEMMA ServedStep ==
  ASSUME TypeOK, [Next]_vars
  PROVE  \A stamp \in Stamp : Served(stamp) => ServedAfter(stamp)
<1> USE DEF Served, ServedAfter, TypeOK, Sensors, Stamp
<1>1. CASE UNCHANGED <<capture, edges>>
  BY <1>1
<1>2. CASE \E s \in Sensors : SensorEdge(s)
  BY <1>2 DEF SensorEdge
<1>3. CASE CaptureCallback
  BY <1>3 DEF CaptureCallback
<1>4. QED
  BY <1>1, <1>2, <1>3 DEF Next, Process, ExecuteCommand, NoCommand, TakeEvent,
     MarkBusy, Transmit, Advance, OnUsbReceive, OnUsbConnected,
     OnUsbDisconnected, OnUsbTransmitComplete

\* What was executed, sent and asked for is served.
LEMMA HistoryStep ==
  ASSUME TypeOK, CapturesAreOrdered, HistoryIsServed, RingIsOrdered,
         FrameIsOldest, [Next]_vars
  PROVE  HistoryIsServed'
<1>1. ServedAfter(cleared) /\ ServedAfter(sentUpTo) /\ ServedAfter(asked)
  BY ServedStep DEF HistoryIsServed, TypeOK
<1>2. ServedAfter(LastServed)
  BY ServedStep, LastServedIsNewest
<1>3. CASE pc = "transmit"
  <2>1. frame.second \in Stamp /\ Served(frame.second)
    BY <1>3, OldestRing DEF FrameIsOldest, RingIsOrdered, TypeOK, Event
  <2>2. ServedAfter(frame.second)
    BY <2>1, ServedStep
  <2>3. /\ cleared' = cleared /\ asked' \in {asked, LastServed}
        /\ sentUpTo' \in {sentUpTo, frame.second}
    BY <1>3 DEF Next, Process, ExecuteCommand, NoCommand, TakeEvent, MarkBusy,
       Transmit, Advance, OnUsbReceive, OnUsbConnected, OnUsbDisconnected,
       OnUsbTransmitComplete, SensorEdge, CaptureCallback
  <2>4. QED
    BY <1>1, <1>2, <2>2, <2>3 DEF HistoryIsServed, Served, ServedAfter
<1>4. CASE pc # "transmit"
  <2>1. /\ cleared' \in {cleared, LastServed} /\ asked' \in {asked, LastServed}
        /\ sentUpTo' = sentUpTo
    BY <1>4 DEF Next, Process, ExecuteCommand, NoCommand, TakeEvent, MarkBusy,
       Transmit, Advance, OnUsbReceive, OnUsbConnected, OnUsbDisconnected,
       OnUsbTransmitComplete, SensorEdge, CaptureCallback
  <2>2. QED
    BY <1>1, <1>2, <2>1 DEF HistoryIsServed, Served, ServedAfter
<1>5. QED
  BY <1>3, <1>4

-----------------------------------------------------------------------------
(* The ring.                                                                *)

\* What the interrupt of the timer pairs: the edges of one crossing, newer than
\* all that was executed, sent or queued.
LEMMA PairIsNewest ==
  ASSUME TypeOK, CapturesAreOrdered, HistoryIsServed, RingIsOrdered,
         FirstIsNewest,
         NEW first \in Stamp, capture[1] # 0 \/ firstCaptured,
         first = IF capture[1] # 0 THEN capture[1] ELSE firstTimestamp
  PROVE  /\ cleared < first /\ sentUpTo < first /\ first <= edges
         /\ \A i \in 0 .. QueueSize - 1 : Live(i) => events[i].second < first
         /\ capture[2] # 0 => first < capture[2]
<1> USE DEF Sensors
<1>1. CASE capture[1] # 0
  <2>1. cleared < first /\ sentUpTo < first
    BY <1>1 DEF HistoryIsServed, Served
  <2>2. \A i \in 0 .. QueueSize - 1 : Live(i) => events[i].second < first
    BY <1>1 DEF RingIsOrdered, Served
  <2>3. first <= edges /\ (capture[2] # 0 => first < capture[2])
    BY <1>1 DEF CapturesAreOrdered
  <2>4. QED
    BY <2>1, <2>2, <2>3
<1>2. CASE capture[1] = 0
  BY <1>2 DEF FirstIsNewest, Served
<1>3. QED
  BY <1>1, <1>2

\* The main loop keeps a copy of the oldest pair.
LEMMA FrameStep ==
  ASSUME TypeOK, FrameIsOldest, [Next]_vars
  PROVE  FrameIsOldest'
<1> USE DEF FrameIsOldest, TypeOK
<1>1. CASE ExecuteCommand \/ NoCommand
  BY <1>1 DEF ExecuteCommand, NoCommand
<1>2. CASE TakeEvent \/ MarkBusy \/ Transmit \/ Advance
  BY <1>2 DEF TakeEvent, MarkBusy, Transmit, Advance
<1>3. CASE \E command \in {"START", "STOP"} : OnUsbReceive(command)
  BY <1>3 DEF OnUsbReceive
<1>4. CASE OnUsbConnected \/ OnUsbDisconnected \/ OnUsbTransmitComplete
  BY <1>4 DEF OnUsbConnected, OnUsbDisconnected, OnUsbTransmitComplete
<1>5. CASE \E s \in Sensors : SensorEdge(s)
  BY <1>5 DEF SensorEdge
<1>6. CASE CaptureCallback
  <2>1. UNCHANGED <<queueTail, pc, frame, sentUpTo>>
    BY <1>6 DEF CaptureCallback
  <2>2. CASE UNCHANGED <<events, queueHead>>
    BY <2>1, <2>2
  <2>3. CASE \E first, second : Enqueue(first, second)
    BY <2>1, <2>3 DEF Enqueue
  <2>4. QED
    BY <1>6, <2>2, <2>3 DEF CaptureCallback
<1>7. CASE UNCHANGED vars
  BY <1>7
<1>8. QED
  BY <1>1, <1>2, <1>3, <1>4, <1>5, <1>6, <1>7 DEF Next, Process

\* The pairs that wait stay in their order, through the interrupt that adds one
\* and the main loop that sends one.
LEMMA RingStep ==
  ASSUME TypeOK, CapturesAreOrdered, HistoryIsServed, RingIsOrdered,
         FirstIsNewest, FrameIsOldest, [Next]_vars
  PROVE  RingIsOrdered'
<1> DEFINE Index == 0 .. QueueSize - 1
<1> queueHead \in Index /\ queueTail \in Index /\ events \in [Index -> Event]
  BY DEF TypeOK
<1>1. \A i \in Index : Live(i) => ServedAfter(events[i].second)
  BY ServedStep DEF RingIsOrdered, Event
<1>2. CASE /\ UNCHANGED <<ring, cleared, sentUpTo>>
           /\ pc = "advance" => pc' = "advance"
  BY <1>1, <1>2 DEF RingIsOrdered, Live, Rank, Served, ServedAfter
<1>3. CASE ExecuteCommand
  BY <1>3 DEF ExecuteCommand, clearAcquisition, RingIsOrdered, Live
<1>4. CASE Transmit
  <2>1. CASE configured /\ wire = NoEvent
    <3>1. /\ UNCHANGED <<ring, cleared, capture, edges>> /\ pc' = "advance"
          /\ pc = "transmit" /\ sentUpTo' = events[queueTail].second
          /\ queueTail # queueHead
      BY <1>4, <2>1 DEF Transmit, FrameIsOldest
    <3>2. \A i \in Index : Live(i) /\ i # queueTail => sentUpTo' < events[i].first
      BY <3>1, OldestRing DEF RingIsOrdered
    <3>3. QED
      BY <3>1, <3>2 DEF RingIsOrdered, Live, Rank, Served
  <2>2. CASE ~(configured /\ wire = NoEvent)
    BY <1>2, <1>4, <2>2 DEF Transmit
  <2>3. QED
    BY <2>1, <2>2
<1>5. CASE Advance
  <2>1. /\ UNCHANGED <<events, queueHead, cleared, sentUpTo, capture, edges>>
        /\ queueTail' = Following(queueTail) /\ queueTail # queueHead
        /\ sentUpTo = events[queueTail].second
    BY <1>5 DEF Advance, FrameIsOldest
  <2>2. /\ Live(queueTail)
        /\ \A i \in Index : /\ Live(i)' <=> Live(i) /\ i # queueTail
                            /\ Live(i) /\ i # queueTail =>
                                 Rank(queueTail) < Rank(i)
        /\ \A i, j \in Index :
             Live(i)' /\ Live(j)' /\ Rank(i)' < Rank(j)' => Rank(i) < Rank(j)
    BY <2>1, AdvanceRing
  <2>3. \A i \in Index : Live(i)' => sentUpTo < events[i].first
    BY <2>1, <2>2 DEF RingIsOrdered
  <2>4. QED
    BY <2>1, <2>2, <2>3 DEF RingIsOrdered, Served
<1>6. CASE CaptureCallback
  <2> DEFINE first == IF capture[1] # 0 THEN capture[1] ELSE firstTimestamp
  <2>1. /\ UNCHANGED <<queueTail, cleared, sentUpTo, pc, edges>>
        /\ \A s \in Sensors : capture'[s] = 0
    BY <1>6 DEF CaptureCallback
  <2>2. CASE UNCHANGED <<events, queueHead>>
    BY <1>2, <2>1, <2>2
  <2>3. CASE /\ capture[1] # 0 \/ firstCaptured
             /\ capture[2] # 0
             /\ Following(queueHead) # queueTail
             /\ events' = [events EXCEPT ![queueHead] =
                             [first |-> first, second |-> capture[2]]]
             /\ queueHead' = Following(queueHead)
    <3>1. /\ ~Live(queueHead)
          /\ \A i \in Index : /\ Live(i)' <=> Live(i) \/ i = queueHead
                              /\ Live(i) => Rank(i) < Rank(queueHead)
                              /\ Rank(i)' = Rank(i)
      BY <2>1, <2>3, EnqueueRing
    <3>2. first \in Stamp
      BY DEF TypeOK, Sensors
    <3>3. /\ cleared < first /\ sentUpTo < first /\ first < capture[2]
          /\ \A i \in Index : Live(i) => events[i].second < first
      BY <2>3, <3>2, PairIsNewest
    <3>4. capture[2] <= edges
      BY DEF CapturesAreOrdered, Sensors
    <3>5. /\ events'[queueHead].first = first
          /\ events'[queueHead].second = capture[2]
          /\ \A i \in Index \ {queueHead} : events'[i] = events[i]
      BY <2>3
    <3> HIDE DEF first
    <3>6. \A i \in Index : Live(i)' =>
            /\ cleared < events'[i].first
            /\ events'[i].first < events'[i].second
            /\ events'[i].second <= edges
            /\ sentUpTo < events'[i].first \/ (pc = "advance" /\ i = queueTail)
      BY <3>1, <3>3, <3>4, <3>5 DEF RingIsOrdered, Served
    <3>7. \A i, j \in Index :
            Live(i)' /\ Live(j)' /\ Rank(i) < Rank(j) =>
              events'[i].second < events'[j].first
      <4> TAKE i, j \in Index
      <4> HAVE Live(i)' /\ Live(j)' /\ Rank(i) < Rank(j)
      <4> Rank(i) \in Int /\ Rank(j) \in Int
        BY DEF Rank
      <4>1. CASE i = queueHead
        BY <3>1, <4>1
      <4>2. CASE i # queueHead /\ j = queueHead
        BY <3>1, <3>3, <3>5, <4>2
      <4>3. CASE i # queueHead /\ j # queueHead
        BY <3>1, <3>5, <4>3 DEF RingIsOrdered
      <4>4. QED
        BY <4>1, <4>2, <4>3
    <3>8. QED
      BY <2>1, <3>1, <3>6, <3>7 DEF RingIsOrdered, Served
  <2>4. QED
    BY <1>6, <2>2, <2>3 DEF CaptureCallback, Enqueue
<1>7. QED
  BY <1>2, <1>3, <1>4, <1>5, <1>6 DEF Next, Process, NoCommand, TakeEvent,
     MarkBusy, OnUsbReceive, OnUsbConnected, OnUsbDisconnected,
     OnUsbTransmitComplete, SensorEdge

\* The first edge of a crossing stays newer than all that waits or was sent.
LEMMA FirstStep ==
  ASSUME TypeOK, CapturesAreOrdered, HistoryIsServed, RingIsOrdered,
         FirstIsNewest, FrameIsOldest, [Next]_vars
  PROVE  FirstIsNewest'
<1> DEFINE Index == 0 .. QueueSize - 1
<1> queueHead \in Index /\ queueTail \in Index /\ events \in [Index -> Event]
  BY DEF TypeOK
<1>1. firstCaptured => ServedAfter(firstTimestamp)
  BY ServedStep DEF FirstIsNewest, TypeOK
<1>2. CASE UNCHANGED <<ring, firstCaptured, firstTimestamp, cleared, sentUpTo>>
  BY <1>1, <1>2 DEF FirstIsNewest, Live, Served, ServedAfter
<1>3. CASE ExecuteCommand \/ OnUsbDisconnected
  BY <1>3 DEF ExecuteCommand, clearAcquisition, OnUsbDisconnected, FirstIsNewest
<1>4. CASE Transmit
  <2>1. CASE configured /\ wire = NoEvent
    <3>1. /\ UNCHANGED <<ring, firstCaptured, firstTimestamp, cleared, capture,
                         edges>>
          /\ sentUpTo' = events[queueTail].second /\ queueTail # queueHead
      BY <1>4, <2>1 DEF Transmit, FrameIsOldest
    <3>2. firstCaptured => sentUpTo' < firstTimestamp
      BY <3>1, OldestRing DEF FirstIsNewest
    <3>3. QED
      BY <3>1, <3>2 DEF FirstIsNewest, Live, Served
  <2>2. QED
    BY <1>2, <1>4, <2>1 DEF Transmit
<1>5. CASE Advance
  <2>1. /\ UNCHANGED <<events, queueHead, firstCaptured, firstTimestamp, cleared,
                       sentUpTo, capture, edges>>
        /\ queueTail' = Following(queueTail) /\ queueTail # queueHead
    BY <1>5 DEF Advance, FrameIsOldest
  <2>2. \A i \in Index : Live(i)' => Live(i)
    BY <2>1, AdvanceRing
  <2>3. QED
    BY <2>1, <2>2 DEF FirstIsNewest, Served
<1>6. CASE CaptureCallback
  <2>1. /\ UNCHANGED <<queueTail, cleared, sentUpTo, edges>>
        /\ \A s \in Sensors : capture'[s] = 0
    BY <1>6 DEF CaptureCallback
  <2>2. CASE ~acquiring
    BY <1>2, <1>6, <2>1, <2>2 DEF CaptureCallback
  <2>3. CASE acquiring /\ firstCaptured'
    <3> DEFINE first == IF capture[1] # 0 THEN capture[1] ELSE firstTimestamp
    <3>1. /\ firstTimestamp' = first /\ UNCHANGED <<events, queueHead>>
          /\ capture[1] # 0 \/ firstCaptured
      BY <1>6, <2>3 DEF CaptureCallback
    <3>2. first \in Stamp
      BY DEF TypeOK, Sensors
    <3>3. /\ cleared < first /\ sentUpTo < first /\ first <= edges
          /\ \A i \in Index : Live(i) => events[i].second < first
      BY <3>1, <3>2, PairIsNewest
    <3>4. QED
      BY <2>1, <3>1, <3>3 DEF FirstIsNewest, Live, Served
  <2>4. QED
    BY <2>2, <2>3 DEF FirstIsNewest
<1>7. QED
  BY <1>2, <1>3, <1>4, <1>5, <1>6 DEF Next, Process, NoCommand, TakeEvent,
     MarkBusy, OnUsbReceive, OnUsbConnected, OnUsbTransmitComplete, SensorEdge

-----------------------------------------------------------------------------
(* Frames.                                                                  *)

\* The captures and the ring keep each other ordered.
FrameInv ==
  /\ CapturesAreOrdered /\ HistoryIsServed
  /\ RingIsOrdered /\ FirstIsNewest /\ FrameIsOldest

\* FrameInv is an invariant of the evaluation board.
LEMMA FrameInvariant == Spec => []FrameInv
<1>1. Init => FrameInv
  BY DEF Init, FrameInv, CapturesAreOrdered, HistoryIsServed, Served,
     RingIsOrdered, Live, FirstIsNewest, FrameIsOldest, Sensors
<1>2. TypeOK /\ FrameInv /\ [Next]_vars => FrameInv'
  BY CapturesStep, HistoryStep, RingStep, FirstStep, FrameStep DEF FrameInv
<1>3. QED
  BY <1>1, <1>2, EvalTypeCorrect, PTL DEF Spec

\* The frame the main loop is about to send is a new crossing.
LEMMA FrameIsNew ==
  ASSUME TypeOK, FrameInv, pc \in {"mark", "transmit"}
  PROVE  /\ cleared < frame.first /\ sentUpTo < frame.first
         /\ frame.first < frame.second
BY OldestRing DEF FrameInv, FrameIsOldest, RingIsOrdered, TypeOK

\* A frame handed to the class driver is one crossing of the acquisition in
\* progress and a later one than the frame before: the interrupts that preempt
\* the main loop repeat, reorder, overwrite or mix nothing.
THEOREM FramesTheorem == Spec => FramesAreNewCrossings
<1>1. ASSUME TypeOK, FrameInv, [Next]_vars, wire' # wire, wire' # NoEvent
      PROVE  /\ cleared < wire'.first /\ sentUpTo < wire'.first
             /\ wire'.first < wire'.second
  <2>1. pc = "transmit" /\ wire' = frame
    BY <1>1 DEF Next, Process, ExecuteCommand, NoCommand, TakeEvent, MarkBusy,
       Transmit, Advance, OnUsbReceive, OnUsbConnected, OnUsbDisconnected,
       OnUsbTransmitComplete, SensorEdge, CaptureCallback
  <2>2. QED
    BY <1>1, <2>1, FrameIsNew
<1>2. QED
  BY <1>1, FrameInvariant, EvalTypeCorrect, PTL DEF Spec, FramesAreNewCrossings

\* At most two frames of before the last START can still reach the host, and one
\* of them is counted as soon as it is read.
LEMMA StaleStep ==
  ASSUME TypeOK, FrameInv, StaleIsBounded, [Next]_vars
  PROVE  StaleIsBounded'
<1> USE DEF StaleIsBounded, WireIsStale, LoopIsStale, TypeOK, Stamp
<1>1. asked <= LastServed
  BY LastServedIsNewest DEF FrameInv, HistoryIsServed
<1>2. LastServed \in Stamp
  BY LastServedIsNewest
<1>3. CASE ExecuteCommand
  BY <1>1, <1>2, <1>3 DEF ExecuteCommand
<1>4. CASE NoCommand \/ TakeEvent \/ MarkBusy \/ Advance
  BY <1>4 DEF NoCommand, TakeEvent, MarkBusy, Advance
<1>5. CASE Transmit
  <2>1. cleared < frame.first /\ frame.first \in Stamp
    BY <1>5, FrameIsNew DEF Transmit, Event
  <2>2. CASE configured /\ wire = NoEvent
    BY <1>5, <2>1, <2>2 DEF Transmit
  <2>3. CASE ~(configured /\ wire = NoEvent)
    BY <1>5, <2>3 DEF Transmit
  <2>4. QED
    BY <2>2, <2>3
<1>6. CASE \E command \in {"START", "STOP"} : OnUsbReceive(command)
  BY <1>2, <1>6 DEF OnUsbReceive
<1>7. CASE OnUsbConnected \/ OnUsbDisconnected
  BY <1>7 DEF OnUsbConnected, OnUsbDisconnected
<1>8. CASE OnUsbTransmitComplete
  BY <1>8 DEF OnUsbTransmitComplete
<1>9. CASE (\E s \in Sensors : SensorEdge(s)) \/ CaptureCallback
  BY <1>9 DEF SensorEdge, CaptureCallback
<1>10. CASE UNCHANGED vars
  BY <1>10
<1>11. QED
  BY <1>3, <1>4, <1>5, <1>6, <1>7, <1>8, <1>9, <1>10 DEF Next, Process

\* After its START a host reads at most two frames that were captured before it:
\* the one in the endpoint and the one the main loop was about to send.
THEOREM StaleTheorem == Spec => []StaleFramesAreFew
<1>1. Init => StaleIsBounded
  BY DEF Init, StaleIsBounded, WireIsStale, LoopIsStale
<1>2. TypeOK /\ FrameInv /\ StaleIsBounded /\ [Next]_vars => StaleIsBounded'
  BY StaleStep
<1>3. TypeOK /\ StaleIsBounded => StaleFramesAreFew
  BY DEF TypeOK, StaleIsBounded, StaleFramesAreFew
<1>4. QED
  BY <1>1, <1>2, <1>3, FrameInvariant, EvalTypeCorrect, PTL DEF Spec
=============================================================================

--------------------------- MODULE HostLinkProofs ---------------------------
(***************************************************************************)
(* The path of a host request, of its answer and of the launch data, for    *)
(* every number of slots, requests and chunks, every fault of the link and  *)
(* every set of messages a host may send.                                   *)
(***************************************************************************)
EXTENDS HostLink, FiniteSetTheorems, SequenceTheorems, TLAPS

USE RouterAssumption, LinkAssumption, HostAssumption

-----------------------------------------------------------------------------
(* The slots.                                                               *)

Queues == [slots: [Slots -> Request], next: Slots, count: Nat]
Used(q) == {i \in Slots : q.slots[i].state # "Idle"}
Consistent(q) == q \in Queues /\ q.count = Cardinality(Used(q))

\* Some element of a non-empty set has the least value of a function into the
\* natural numbers: strict inclusion of finite sets is well founded.
LEMMA LeastValue ==
  ASSUME NEW S, S # {}, NEW f \in [S -> Nat]
  PROVE  \E i \in S : \A j \in S : f[i] <= f[j]
<1>. DEFINE R == StrictSubsetOrdering(Nat)
            T == {0 .. f[i] : i \in S}
<1>1. IsWellFoundedOn(R, FiniteSubsetsOf(Nat))
  BY FS_StrictSubsetOrderingWellFounded
<1>2. T \subseteq FiniteSubsetsOf(Nat) /\ T # {}
  <2>1. \A i \in S : IsFiniteSet(0 .. f[i]) /\ 0 .. f[i] \in SUBSET Nat
    BY FS_Interval
  <2>. QED
    BY <2>1 DEF FiniteSubsetsOf
<1>3. PICK X \in T : \A Y \in T : <<Y, X>> \notin R
  <2>. HIDE DEF R, T
  <2>. QED
    BY <1>1, <1>2, WFMin
<1>4. PICK i \in S : X = 0 .. f[i]
  OBVIOUS
<1>5. ASSUME NEW j \in S, f[j] < f[i]
      PROVE  FALSE
  <2>1. 0 .. f[j] \in SUBSET Nat /\ 0 .. f[i] \in SUBSET Nat
    OBVIOUS
  <2>2. 0 .. f[j] \subseteq 0 .. f[i] /\ 0 .. f[j] # 0 .. f[i]
    <3>1. f[i] \in 0 .. f[i] /\ f[i] \notin 0 .. f[j]
      BY <1>5
    <3>. QED
      BY <3>1, <1>5
  <2>3. <<0 .. f[j], 0 .. f[i]>> \in R
    BY <2>1, <2>2 DEF StrictSubsetOrdering
  <2>. QED
    BY <1>3, <1>4, <2>3
<1>. QED
  BY <1>5

\* The slot that queueUnchecked fills is a free one.
LEMMA NextFreeIsFree ==
  ASSUME NEW q \in Queues, Free(q) # {}
  PROVE  NextFree(q) \in Free(q)
<1>. DEFINE d == [i \in Free(q) |-> (i - q.next) % Capacity]
<1>1. d \in [Free(q) -> Nat]
  BY DEF Free, Slots, Queues
<1>2. PICK i \in Free(q) : \A j \in Free(q) : d[i] <= d[j]
  <2>. HIDE DEF d
  <2>. QED
    BY <1>1, LeastValue
<1>3. \A j \in Free(q) : (i - q.next) % Capacity <= (j - q.next) % Capacity
  BY <1>2
<1>. QED
  BY <1>3 DEF NextFree

\* Writing a record over a slot changes the count by the use of that slot.
LEMMA UsedAfterWrite ==
  ASSUME NEW q \in Queues, NEW i \in Slots, NEW r \in Request, NEW p \in Queues,
         p.slots = [q.slots EXCEPT ![i] = r]
  PROVE  /\ r.state # "Idle" => Used(p) = Used(q) \cup {i}
         /\ r.state = "Idle" => Used(p) = Used(q) \ {i}
BY DEF Used, Queues

\* The slots in use are finitely many.
LEMMA UsedIsFinite ==
  ASSUME NEW q
  PROVE  IsFiniteSet(Used(q)) /\ Cardinality(Used(q)) \in Nat
<1>1. IsFiniteSet(Slots)
  BY FS_Interval DEF Slots
<1>2. Used(q) \in SUBSET Slots
  BY DEF Used
<1>3. IsFiniteSet(Used(q))
  BY <1>1, <1>2, FS_Subset
<1>. QED
  BY <1>3, FS_CardinalityType

\* What a queued request looks like in its slot.
LEMMA AcceptedIsUsed ==
  ASSUME NEW r \in Request
  PROVE  /\ Accepted(r) \in Request /\ Accepted(r).state # "Idle"
         /\ Refusal(r) \in Request /\ Refusal(r).state = "Outgoing"
BY DEF Request, Accepted, Refusal, Services

\* queueUnchecked fills one free slot and counts it, or does nothing.
LEMMA InsertFillsOne ==
  ASSUME NEW q, Consistent(q), NEW r \in Request
  PROVE  /\ Consistent(Insert(q, r))
         /\ \/ Insert(q, r) = q
            \/ \E i \in Slots : /\ q.slots[i].state = "Idle"
                                /\ Insert(q, r).slots = [q.slots EXCEPT ![i] = Accepted(r)]
<1>1. CASE HasCapacity(q) /\ Free(q) # {}
  <2>. DEFINE i == NextFree(q)
              p == Insert(q, r)
  <2>1. i \in Slots /\ q.slots[i].state = "Idle"
    BY <1>1, NextFreeIsFree DEF Free, Consistent
  <2>2. p = [slots |-> [q.slots EXCEPT ![i] = Accepted(r)], next |-> NextIndex(i),
             count |-> q.count + 1]
    BY <1>1 DEF Insert
  <2>. HIDE DEF i, p
  <2>3. NextIndex(i) \in Slots
    BY <2>1 DEF NextIndex, Slots
  <2>4. Accepted(r) \in Request /\ Accepted(r).state # "Idle"
    BY AcceptedIsUsed
  <2>5. p \in Queues
    BY <2>1, <2>2, <2>3, <2>4 DEF Queues, Consistent
  <2>8. p.slots = [q.slots EXCEPT ![i] = Accepted(r)] /\ p.count = q.count + 1
    BY <2>2
  <2>6. Used(p) = Used(q) \cup {i} /\ i \notin Used(q)
    <3>1. i \notin Used(q) /\ q \in Queues
      BY <2>1 DEF Used, Consistent
    <3>. QED
      BY <3>1, <2>1, <2>4, <2>5, <2>8, UsedAfterWrite
  <2>7. Cardinality(Used(p)) = Cardinality(Used(q)) + 1
    BY <2>6, UsedIsFinite, FS_AddElement
  <2>9. Consistent(p)
    BY <2>5, <2>7, <2>8 DEF Consistent
  <2>. QED
    BY <2>1, <2>8, <2>9 DEF p
<1>2. CASE ~(HasCapacity(q) /\ Free(q) # {})
  BY <1>2 DEF Insert
<1>. QED
  BY <1>1, <1>2

\* What a gate makes of a request.
Gated(r) == IF BlocksHostRequest(r) THEN Refusal(r) ELSE r

\* The gates make a request of a request.
LEMMA GatedIsRequest ==
  ASSUME NEW r \in Request
  PROVE  Gated(r) \in Request
BY AcceptedIsUsed DEF Gated

\* queueRequest fills one free slot with what the gates let through, or does nothing.
LEMMA QueueFillsOne ==
  ASSUME NEW q, Consistent(q), NEW r \in Request
  PROVE  /\ Consistent(QueueRequest(q, r))
         /\ \/ QueueRequest(q, r) = q
            \/ \E i \in Slots :
                 /\ q.slots[i].state = "Idle"
                 /\ QueueRequest(q, r).slots = [q.slots EXCEPT ![i] = Accepted(Gated(r))]
<1>1. CASE BlocksSensorNotification(r)
  BY <1>1 DEF QueueRequest
<1>2. CASE ~BlocksSensorNotification(r)
  <2>1. QueueRequest(q, r) = Insert(q, Gated(r))
    BY <1>2 DEF QueueRequest, Gated
  <2>2. \/ Insert(q, Gated(r)) = q
        \/ \E i \in Slots :
             /\ q.slots[i].state = "Idle"
             /\ Insert(q, Gated(r)).slots = [q.slots EXCEPT ![i] = Accepted(Gated(r))]
    BY GatedIsRequest, InsertFillsOne, Zenon
  <2>3. Consistent(Insert(q, Gated(r)))
    BY GatedIsRequest, InsertFillsOne, Zenon
  <2>. QED
    BY <2>1, <2>2, <2>3, Zenon
<1>. QED
  BY <1>1, <1>2

\* Request::complete keeps the slot in use and the count right.
LEMMA CompleteKeepsCount ==
  ASSUME NEW q, Consistent(q), NEW i \in Slots, IsRouted(q.slots[i]),
         NEW by \in Services
  PROVE  /\ Consistent(Complete(q, i, by))
         /\ Complete(q, i, by).slots = [q.slots EXCEPT ![i] = Completed(q.slots[i], by)]
<1>. DEFINE r == q.slots[i]
            p == Complete(q, i, by)
<1>1. r \in Request /\ q \in Queues /\ r.state # "Idle"
  BY DEF Consistent, Queues, IsRouted
<1>2. Completed(r, by) \in Request /\ Completed(r, by).state # "Idle"
  BY <1>1 DEF Completed, Request
<1>3. p = [q EXCEPT !.slots = [q.slots EXCEPT ![i] = Completed(r, by)]]
  BY <1>1 DEF Complete, Queues
<1>. HIDE DEF p
<1>4. p.slots = [q.slots EXCEPT ![i] = Completed(r, by)] /\ p.count = q.count
  BY <1>1, <1>3 DEF Queues
<1>5. p \in Queues
  BY <1>1, <1>2, <1>3 DEF Queues
<1>6. Used(p) = Used(q)
  <2>1. i \in Used(q)
    BY <1>1 DEF Used
  <2>2. Used(p) = Used(q) \cup {i}
    <3>. HIDE DEF r
    <3>. QED
      BY <1>1, <1>2, <1>4, <1>5, UsedAfterWrite
  <2>. QED
    BY <2>1, <2>2
<1>7. Consistent(p)
  BY <1>4, <1>5, <1>6 DEF Consistent
<1>. QED
  BY <1>4, <1>7 DEF p

\* Emptying used slots, with the count reduced by their number, keeps it right.
LEMMA EmptyingKeepsCount ==
  ASSUME NEW q, Consistent(q), NEW C \in SUBSET Used(q), NEW p,
         p = [q EXCEPT !.slots = [i \in Slots |-> IF i \in C THEN Empty ELSE q.slots[i]],
                       !.count = @ - Cardinality(C)]
  PROVE  Consistent(p)
<1>1. q \in Queues
  BY DEF Consistent
<1>2. Empty \in Request /\ Empty.state = "Idle"
  BY DEF Empty, Request, Services
<1>3. /\ p.slots = [i \in Slots |-> IF i \in C THEN Empty ELSE q.slots[i]]
      /\ p.count = q.count - Cardinality(C) /\ p.next = q.next
      /\ p = [slots |-> p.slots, next |-> p.next, count |-> p.count]
  BY <1>1 DEF Queues
<1>4. Used(p) = Used(q) \ C
  BY <1>2, <1>3 DEF Used
<1>5. Used(q) \cap C = C
  OBVIOUS
<1>6. /\ Cardinality(Used(p)) = Cardinality(Used(q)) - Cardinality(C)
      /\ Cardinality(C) \in Nat /\ Cardinality(Used(p)) \in Nat
  <2>1. IsFiniteSet(Used(q)) /\ IsFiniteSet(C)
    BY UsedIsFinite, FS_Subset
  <2>2. Cardinality(Used(q) \ C) = Cardinality(Used(q)) - Cardinality(Used(q) \cap C)
    BY <2>1, FS_Difference
  <2>. QED
    BY <1>4, <1>5, <2>1, <2>2, UsedIsFinite, FS_CardinalityType
<1>7. p.slots \in [Slots -> Request]
  BY <1>1, <1>2, <1>3 DEF Queues
<1>8. p.count = Cardinality(Used(p)) /\ p.count \in Nat
  BY <1>3, <1>6 DEF Consistent
<1>9. p \in Queues
  BY <1>1, <1>3, <1>7, <1>8 DEF Queues
<1>. QED
  BY <1>8, <1>9 DEF Consistent

\* clearCompleted and discardRequestsInvolving only empty slots.
LEMMA ClearingEmpties ==
  ASSUME NEW q, Consistent(q)
  PROVE  /\ Consistent(ClearCompleted(q))
         /\ \A i \in Slots : ClearCompleted(q).slots[i] \in {q.slots[i], Empty}
<1>1. Done(q) \in SUBSET Used(q)
  BY DEF Done, Used
<1>2. Consistent(ClearCompleted(q))
  BY <1>1, EmptyingKeepsCount DEF ClearCompleted
<1>. QED
  BY <1>2 DEF ClearCompleted, Consistent, Queues

\* discardRequestsInvolving only empties slots.
LEMMA DiscardingEmpties ==
  ASSUME NEW q, Consistent(q), NEW service
  PROVE  /\ Consistent(DiscardInvolving(q, service))
         /\ \A i \in Slots :
              DiscardInvolving(q, service).slots[i] \in {q.slots[i], Empty}
<1>1. Involving(q, service) \in SUBSET Used(q)
  BY DEF Involving, Used
<1>2. Consistent(DiscardInvolving(q, service))
  BY <1>1, EmptyingKeepsCount DEF DiscardInvolving
<1>. QED
  BY <1>2 DEF DiscardInvolving, Consistent, Queues

-----------------------------------------------------------------------------
(* Types.                                                                   *)

USE DEF vars, routerVars, gateVars, linkVars, transportVars, receiveVars,
        transferVars, hostVars, Goto, NextTurn

\* An empty slot has the type of a slot.
LEMMA EmptyIsRequest == Empty \in Request
BY DEF Empty, Request, Services

\* A notification has the type of a slot.
LEMMA NotificationIsRequest ==
  ASSUME NEW source \in Services, NEW command \in Commands
  PROVE  Notification(source, command) \in Request
BY EmptyIsRequest DEF Notification, Request, Empty, Services

\* The head of a non-empty receive ring is a request, and the rest is shorter.
LEMMA HeadOfRing ==
  ASSUME NEW s \in Seq(Request), s # <<>>
  PROVE  /\ Head(s) \in Request /\ Head(s) = s[1]
         /\ Tail(s) \in Seq(Request) /\ Len(Tail(s)) = Len(s) - 1 /\ Len(s) > 0
         /\ \A j \in 1 .. Len(s) - 1 : Tail(s)[j] = s[j + 1]
<1>1. Len(s) \in Nat /\ Len(s) > 0
  BY LenProperties, EmptySeq
<1>. QED
  BY <1>1, HeadTailProperties

\* The empty queue is consistent.
LEMMA EmptyQueueIsConsistent == Consistent(EmptyQueue)
<1>1. Used(EmptyQueue) = {}
  BY DEF Used, EmptyQueue, Empty
<1>2. EmptyQueue \in Queues
  BY EmptyIsRequest DEF EmptyQueue, Queues, Slots
<1>3. EmptyQueue.count = 0
  BY DEF EmptyQueue
<1>. QED
  BY <1>1, <1>2, <1>3, FS_EmptySet DEF Consistent

\* The queue stays consistent under every step of the pass and every interrupt.
LEMMA QueueStep ==
  TypeOK /\ SlotsAreCounted /\ [Next]_vars => Consistent(queue)'
<1>. SUFFICES ASSUME TypeOK, SlotsAreCounted, [Next]_vars
              PROVE  Consistent(queue')
  OBVIOUS
<1>1. Consistent(queue)
  BY DEF TypeOK, RouterType, SlotsAreCounted, Consistent, Queues, Used
<1>2. turn # Capacity => turn \in Slots
  BY DEF TypeOK, Slots
<1>3. /\ RunStatus \in Request
      /\ Notification("Safety", "ReportFault") \in Request
      /\ Notification("Sensor", "ReportSensor") \in Request
  BY NotificationIsRequest DEF RunStatus, Services
<1>4. CASE UNCHANGED queue
  BY <1>1, <1>4
<1>5. CASE SensorEdge
  BY <1>1, <1>3, <1>5, QueueFillsOne DEF SensorEdge
<1>6. CASE SafetyPass
  <2>1. PICK q : /\ q \in {queue, QueueRequest(queue, Notification("Safety", "ReportFault"))}
                 /\ queue' = q \/ queue' = QueueRequest(q, RunStatus)
    BY <1>6 DEF SafetyPass, EndRun
  <2>2. Consistent(q)
    BY <1>1, <1>3, <2>1, QueueFillsOne
  <2>. QED
    BY <1>3, <2>1, <2>2, QueueFillsOne
<1>7. CASE PacketPass
  <2>1. queue' = queue \/ (HasRequest /\ queue' = QueueRequest(queue, Head(rx)))
    BY <1>7, Zenon DEF PacketPass, TakeRequest
  <2>2. HasRequest => Head(rx) \in Request
    BY HeadOfRing DEF HasRequest, TypeOK
  <2>. QED
    BY <1>1, <2>1, <2>2, QueueFillsOne
<1>8. CASE LoseHost
  BY <1>1, <1>8, DiscardingEmpties DEF LoseHost
<1>9. CASE LaunchPass
  <2>1. queue' = queue \/ queue' = QueueRequest(queue, RunStatus)
    BY <1>9 DEF LaunchPass, EndRun
  <2>. QED
    BY <1>1, <1>3, <2>1, QueueFillsOne
<1>10. CASE ServeDevice \/ ServeStart \/ ServeDebug \/ ServeOther \/ SendResponse
  <2>1. turn < Capacity /\ IsRouted(queue.slots[turn])
    BY <1>10 DEF ServeDevice, ServeStart, ServeDebug, ServeOther, SendResponse,
                 Dispatching, Current
  <2>2. queue' = queue \/ \E by \in Services : queue' = Complete(queue, turn, by)
    BY <1>10 DEF ServeDevice, ServeStart, ServeDebug, ServeOther, SendResponse, Services
  <2>3. turn \in Slots
    BY <1>2, <2>1 DEF TypeOK
  <2>. QED
    <3>1. ASSUME NEW by \in Services
          PROVE  Consistent(Complete(queue, turn, by))
      BY <1>1, <2>1, <2>3, CompleteKeepsCount
    <3>. QED
      BY <1>1, <2>2, <3>1
<1>11. CASE ServeStop
  <2>1. turn \in Slots /\ IsRouted(queue.slots[turn])
    BY <1>2, <1>11 DEF ServeStop, Dispatching, Current, TypeOK
  <2>2. PICK q : /\ q \in {queue, QueueRequest(queue, RunStatus)}
                 /\ queue' = Complete(q, turn, "Launch")
    BY <1>11 DEF ServeStop
  <2>3. Consistent(q) /\ q.slots[turn] = queue.slots[turn]
    <3>1. CASE q = queue
      BY <1>1, <3>1
    <3>2. CASE q = QueueRequest(queue, RunStatus)
      <4>1. Consistent(q)
        BY <1>1, <1>3, <3>2, QueueFillsOne
      <4>2. q = queue \/ \E i \in Slots :
              /\ queue.slots[i].state = "Idle"
              /\ q.slots = [queue.slots EXCEPT ![i] = Accepted(Gated(RunStatus))]
        BY <1>1, <1>3, <3>2, QueueFillsOne
      <4>3. ASSUME NEW i \in Slots, queue.slots[i].state = "Idle",
                   q.slots = [queue.slots EXCEPT ![i] = Accepted(Gated(RunStatus))]
            PROVE  q.slots[turn] = queue.slots[turn]
        <5>1. turn # i
          BY <2>1, <4>3 DEF IsRouted
        <5>2. queue.slots \in [Slots -> Request]
          BY <1>1 DEF Consistent, Queues
        <5>. QED
          BY <2>1, <4>3, <5>1, <5>2
      <4>. QED
        BY <4>1, <4>2, <4>3
    <3>. QED
      BY <2>2, <3>1, <3>2
  <2>4. "Launch" \in Services
    BY DEF Services
  <2>. QED
    BY <2>1, <2>2, <2>3, <2>4, CompleteKeepsCount
<1>12. CASE ClearPass
  BY <1>1, <1>12, ClearingEmpties DEF ClearPass
<1>13. CASE SystemReset
  BY <1>13, EmptyQueueIsConsistent DEF SystemReset
<1>. QED
  BY <1>4, <1>5, <1>6, <1>7, <1>8, <1>9, <1>10, <1>11, <1>12, <1>13
     DEF Next, Interrupt, Foreground, HostSends, HostReads, Attach, Cable,
         TransportPass, CapacityCheck, SkipSlot, EndDispatch, FramePass

\* What each frame is.
FrameRecords == [kind: {"none", "data", "final", "response"}, id: Nat, chunk: 0 .. Chunks]

\* Every frame is a record of its type, and the next one is what the progress says.
LEMMA FrameTypes ==
  ASSUME LinkType
  PROVE  /\ NoFrame \in FrameRecords /\ NextFrame \in FrameRecords
         /\ \A i \in Nat : ResponseFrame(i) \in FrameRecords
         /\ NextFrame.kind \in {"data", "final"} /\ NextFrame.id = 0
         /\ NextFrame.kind = "data" => chunk < Chunks /\ NextFrame.chunk = chunk
         /\ NextFrame.kind = "final" => chunk = Chunks
<1>1. chunk \in 0 .. Chunks /\ Chunks \in 0 .. Chunks /\ 0 \in 0 .. Chunks
  BY DEF LinkType
<1>2. NoFrame \in FrameRecords /\ \A i \in Nat : ResponseFrame(i) \in FrameRecords
  BY <1>1 DEF NoFrame, ResponseFrame, FrameRecords
<1>3. CASE chunk < Chunks
  BY <1>1, <1>2, <1>3 DEF NextFrame, DataFrame, FrameRecords
<1>4. CASE ~(chunk < Chunks)
  BY <1>1, <1>2, <1>4 DEF NextFrame, FinalFrame, FrameRecords
<1>. QED
  BY <1>3, <1>4

\* The receive ring holds requests, as many as it has room for.
LEMMA RingStep ==
  TypeOK /\ [Next]_vars => rx' \in Seq(Request) /\ Len(rx') <= RxCapacity
<1>. SUFFICES ASSUME TypeOK, [Next]_vars
              PROVE  rx' \in Seq(Request) /\ Len(rx') <= RxCapacity
  OBVIOUS
<1>1. CASE UNCHANGED rx
  BY <1>1 DEF TypeOK, LinkType
<1>2. CASE rx' = <<>>
  BY <1>2, EmptySeq
<1>3. CASE HostSends
  <2>1. PICK m \in HostMessages :
          Receive([Empty EXCEPT !.dest = m.dest, !.source = "Usb",
                                !.command = m.command, !.answer = m.answer,
                                !.asked = m.answer, !.id = sent + 1])
    BY <1>3 DEF HostSends
  <2>. DEFINE r == [Empty EXCEPT !.dest = m.dest, !.source = "Usb",
                                 !.command = m.command, !.answer = m.answer,
                                 !.asked = m.answer, !.id = sent + 1]
  <2>2. r \in Request
    <3>1. sent + 1 \in 0 .. MaxRequests
      BY <1>3 DEF HostSends, TypeOK
    <3>2. m.dest \in Services /\ m.command \in Commands /\ m.answer \in BOOLEAN
      OBVIOUS
    <3>. QED
      BY <3>1, <3>2, EmptyIsRequest DEF Request, Services
  <2>3. rx' = rx \/ (Len(rx) < RxCapacity /\ rx' = Append(rx, r))
    BY <2>1 DEF Receive
  <2>. HIDE DEF r
  <2>4. rx \in Seq(Request) /\ Len(rx) \in Nat /\ Len(rx) <= RxCapacity
    BY LenProperties DEF TypeOK, LinkType
  <2>. QED
    BY <2>2, <2>3, <2>4, AppendProperties
<1>4. CASE HasRequest /\ rx' = Tail(rx)
  <2>1. rx \in Seq(Request) /\ rx # <<>> /\ Len(rx) \in Nat /\ Len(rx) <= RxCapacity
    BY <1>4, LenProperties DEF TypeOK, LinkType, HasRequest
  <2>. QED
    BY <1>4, <2>1, HeadOfRing
<1>5. CASE TransportPass
  BY <1>1, <1>2, <1>5 DEF TransportPass, ProcessConnectionEvents,
     ProcessTransmitCompletion,
                   ProcessTransmit, HandleTransmitResult, ClearReceived
<1>6. CASE PacketPass
  BY <1>1, <1>2, <1>4, <1>6 DEF PacketPass, TakeRequest, ReceiveNothing, ClearReceived
<1>. QED
  BY <1>1, <1>2, <1>3, <1>5, <1>6
     DEF Next, Interrupt, Foreground, HostReads, FrameRead, Attach, Plug, Cable,
         Unplug, ReceiveFragment, SensorEdge, SafetyPass, CapacityCheck, LoseHost,
         LaunchPass, SkipSlot, ServeDevice, ServeStart, ServeStop, ServeDebug, ServeOther,
         SendResponse, EndDispatch, ClearPass, FramePass, ProcessTransfer, QueueBytes,
         SystemReset, ClearReceived

\* The variables of the link keep their types under every step.
LEMMA LinkTypeStep ==
  /\ TypeOK /\ SlotsAreCounted /\ FrameIsOnItsWay /\ [Next]_vars
  => LinkType'
<1>. SUFFICES ASSUME TypeOK, SlotsAreCounted, FrameIsOnItsWay, [Next]_vars
              PROVE  LinkType'
  OBVIOUS
<1>1. rx' \in Seq(Request) /\ Len(rx') <= RxCapacity
  BY RingStep
<1>2. LinkType
  BY DEF TypeOK
<1>3. txFrame \in FrameRecords
  BY <1>2 DEF LinkType, FrameRecords
<1>4. \A s \in Slots : queue.slots[s].id \in Nat
  BY DEF TypeOK, RouterType, Request
<1>5. turn < Capacity => turn \in Slots
  BY DEF TypeOK, Slots
<1>6. frameQueued = "data" => chunk < Chunks
  BY <1>2, FrameTypes DEF FrameIsOnItsWay
<1>7. /\ NoFrame \in FrameRecords /\ NextFrame \in FrameRecords
      /\ \A i \in Nat : ResponseFrame(i) \in FrameRecords
      /\ NextFrame.kind \in {"data", "final"}
  BY <1>2, FrameTypes
<1>. DEFINE
       Transport == /\ cdc \in {"detached", "idle", "busy"}
                    /\ connected \in BOOLEAN
                    /\ events \subseteq {"connected", "disconnected"}
                    /\ txState \in {"Empty", "Ready", "InFlight", "TimedOut"}
                    /\ txFrame \in FrameRecords
                    /\ txCompleted \in BOOLEAN
                    /\ txResult \in {"None", "Connected", "Complete", "Failed",
                                     "TimedOut", "Disconnected"}
       Received == /\ fragment \in BOOLEAN /\ overflow \in BOOLEAN
                   /\ partialActive \in BOOLEAN /\ commFailure \in BOOLEAN
       Progress == /\ transfer \in {"Idle", "Sending"} /\ defer \in BOOLEAN
                   /\ frameQueued \in {"no", "data", "final"} /\ chunk \in 0 .. Chunks
<1>8. Transport /\ Received /\ Progress
  BY <1>2, <1>3 DEF LinkType
<1>9. Transport'
  <2>1. CASE UNCHANGED transportVars
    BY <1>8, <2>1
  <2>2. CASE HostSends \/ HostReads \/ Attach \/ Cable
    BY <1>8, <2>2 DEF HostSends, Receive, HostReads, FrameRead, Attach, Plug, Cable,
       Unplug,
                      ReceiveFragment
  <2>3. CASE TransportPass
    BY <1>7, <1>8, <2>3 DEF TransportPass, ProcessConnectionEvents,
          ProcessTransmitCompletion, ProcessTransmit, HandleTransmitResult
  <2>4. CASE SendResponse
    BY <1>4, <1>5, <1>7, <1>8, <2>4 DEF SendResponse, Dispatching, Current, QueueBytes
  <2>5. CASE FramePass
    BY <1>7, <1>8, <2>5 DEF FramePass, ProcessTransfer, QueueBytes
  <2>6. CASE SystemReset
    BY <1>7, <1>8, <2>6 DEF SystemReset
  <2>. QED
    BY <2>1, <2>2, <2>3, <2>4, <2>5, <2>6
       DEF Next, Interrupt, Foreground, SensorEdge, SafetyPass, CapacityCheck, PacketPass,
           TakeRequest, ReceiveNothing, LoseHost, LaunchPass, SkipSlot, ServeDevice,
           ServeStart, ServeStop, ServeDebug, ServeOther, EndDispatch, ClearPass
<1>10. Received'
  <2>1. CASE UNCHANGED <<fragment, overflow, partialActive, commFailure>>
    BY <1>8, <2>1
  <2>2. CASE HostSends \/ Cable
    BY <1>8, <2>2 DEF HostSends, Receive, Cable, Unplug, ReceiveFragment
  <2>3. CASE TransportPass
    BY <1>8, <2>3 DEF TransportPass, ProcessConnectionEvents, ClearReceived,
          ProcessTransmitCompletion, ProcessTransmit, HandleTransmitResult
  <2>4. CASE PacketPass
    BY <1>8, <2>4 DEF PacketPass, TakeRequest, ReceiveNothing, ClearReceived
  <2>5. CASE LoseHost \/ SystemReset
    BY <1>8, <2>5 DEF LoseHost, SystemReset, ClearReceived
  <2>. QED
    BY <2>1, <2>2, <2>3, <2>4, <2>5
       DEF Next, Interrupt, Foreground, HostReads, FrameRead, Attach, Plug, SensorEdge,
           SafetyPass, CapacityCheck, LaunchPass, SkipSlot, ServeDevice, ServeStart,
           ServeStop, ServeDebug, ServeOther, SendResponse, EndDispatch, ClearPass, FramePass,
           ProcessTransfer
<1>11. Progress'
  <2>1. CASE UNCHANGED transferVars
    BY <1>8, <2>1
  <2>2. CASE StartTransfer \/ CancelTransfer
    <3>1. 0 \in 0 .. Chunks
      OBVIOUS
    <3>2. /\ transfer' \in {"Idle", "Sending"} /\ defer' \in BOOLEAN
          /\ frameQueued' = "no" /\ chunk' = 0
      BY <2>2 DEF StartTransfer, CancelTransfer
    <3>. QED
      BY <3>1, <3>2
  <2>3. CASE TransportPass
    BY <1>6, <1>8, <2>1, <2>2, <2>3 DEF TransportPass, ProcessConnectionEvents,
          ProcessTransmitCompletion, ProcessTransmit, HandleTransmitResult, CommitFrame
  <2>4. CASE FramePass
    BY <1>7, <1>8, <2>4 DEF FramePass, ProcessTransfer
  <2>. QED
    BY <2>1, <2>2, <2>3, <2>4
       DEF Next, Interrupt, Foreground, HostSends, Receive, HostReads, FrameRead, Attach,
           Plug, Cable, Unplug, ReceiveFragment, SensorEdge, SafetyPass, EndRun,
           CapacityCheck, PacketPass, TakeRequest, ReceiveNothing, LoseHost, LaunchPass,
           SkipSlot, ServeDevice, ServeStart, ServeStop, ServeDebug, ServeOther,
           SendResponse, EndDispatch, ClearPass, SystemReset
<1>. QED
  BY <1>1, <1>9, <1>10, <1>11 DEF LinkType, FrameRecords

\* The control point, the slot that is dispatched and what the host has done.
HostType ==
  /\ pc \in ControlPoints /\ turn \in 0 .. Capacity
  /\ sent \in 0 .. MaxRequests /\ reports \in 0 .. MaxReports
  /\ answers \in [Requests -> Nat] /\ frames \in 0 .. Chunks

\* The foreground, the host and its counters keep their types.
LEMMA HostTypeStep ==
  /\ TypeOK /\ DriverOwnsTheFrame /\ FrameIsOnItsWay /\ FramesAreInOrder
  /\ [Next]_vars
  => HostType'
<1>. SUFFICES ASSUME TypeOK, DriverOwnsTheFrame, FrameIsOnItsWay, FramesAreInOrder,
                     [Next]_vars
              PROVE  HostType'
  OBVIOUS
<1>1. HostType
  BY DEF TypeOK, HostType
<1>. USE DEF HostType, ControlPoints
<1>2. CASE UNCHANGED <<pc, turn, hostVars>>
  BY <1>1, <1>2
<1>3. CASE HostSends
  BY <1>1, <1>3 DEF HostSends
<1>4. CASE HostReads
  <2>1. /\ txFrame.kind = "data" => frames < Chunks
        /\ frames \in 0 .. Chunks
    BY <1>1, <1>4 DEF HostReads, FrameRead, DriverOwnsTheFrame, FrameIsOnItsWay,
                      FramesAreInOrder
  <2>2. frames' \in 0 .. Chunks
    BY <1>4, <2>1 DEF HostReads
  <2>3. answers' \in [Requests -> Nat]
    BY <1>1, <1>4 DEF HostReads
  <2>. QED
    BY <1>1, <1>4, <2>2, <2>3 DEF HostReads
<1>5. CASE SensorEdge
  BY <1>1, <1>5 DEF SensorEdge
<1>6. CASE SafetyPass
  BY <1>1, <1>6 DEF SafetyPass
<1>7. CASE TransportPass \/ CapacityCheck \/ PacketPass \/ LoseHost \/ LaunchPass
  <2>1. UNCHANGED hostVars /\ turn' \in {turn, 0}
    BY <1>7 DEF TransportPass, CapacityCheck, PacketPass, LoseHost, LaunchPass
  <2>2. pc' \in ControlPoints
    BY <1>7 DEF TransportPass, CapacityCheck, PacketPass, LoseHost, LaunchPass
  <2>. QED
    BY <1>1, <2>1, <2>2
<1>8. CASE SkipSlot \/ ServeDevice \/ ServeStart \/ ServeStop \/ ServeDebug
           \/ ServeOther \/ SendResponse
  <2>1. UNCHANGED <<pc, hostVars>> /\ turn' = turn + 1 /\ turn < Capacity
    BY <1>8 DEF SkipSlot, ServeDevice, ServeStart, ServeStop, ServeDebug, ServeOther,
                SendResponse, Dispatching
  <2>. QED
    BY <1>1, <2>1
<1>9. CASE EndDispatch \/ ClearPass \/ FramePass \/ SystemReset
  BY <1>1, <1>9 DEF EndDispatch, ClearPass, FramePass, SystemReset
<1>. QED
  BY <1>2, <1>3, <1>4, <1>5, <1>6, <1>7, <1>8, <1>9
     DEF Next, Interrupt, Foreground, Attach, Cable

\* A step keeps the types and the count of the slots.
LEMMA TypeStep ==
  /\ TypeOK /\ SlotsAreCounted /\ DriverOwnsTheFrame /\ FrameIsOnItsWay
  /\ FramesAreInOrder /\ [Next]_vars
  => TypeOK' /\ SlotsAreCounted'
<1>. SUFFICES ASSUME TypeOK, SlotsAreCounted, DriverOwnsTheFrame, FrameIsOnItsWay,
                     FramesAreInOrder, [Next]_vars
              PROVE  TypeOK' /\ SlotsAreCounted'
  OBVIOUS
<1>1. Consistent(queue)'
  BY QueueStep
<1>2. LinkType' /\ rx' \in Seq(Request)
  BY LinkTypeStep, RingStep
<1>3. HostType'
  BY HostTypeStep
<1>4. (sensorBlock \in BOOLEAN /\ launchActive \in BOOLEAN /\ debug \in BOOLEAN)'
  BY DEF TypeOK, RouterType, Next, Interrupt, Foreground, HostSends, HostReads, Attach,
         Cable, SensorEdge, SafetyPass, EndRun, SetLaunchActive, TransportPass,
         CapacityCheck, PacketPass, LoseHost, LaunchPass, SkipSlot, ServeDevice,
         ServeStart, ServeStop, ServeDebug, ServeOther, SendResponse, EndDispatch,
         ClearPass, FramePass, SystemReset
<1>. QED
  BY <1>1, <1>2, <1>3, <1>4
     DEF TypeOK, RouterType, HostType, Consistent, Queues, SlotsAreCounted, Used

-----------------------------------------------------------------------------
(* The transmit buffer and the frames of a transfer.                        *)

\* A step of the pass outside UsbTransport::process, or an interrupt that only
\* queues or receives, changes nothing the class driver shares.
LEMMA OutsideTransport ==
  ASSUME [Next]_vars, ~TransportPass, ~HostReads, ~Attach, ~Cable, ~SystemReset
  PROVE  /\ UNCHANGED <<cdc, events, txCompleted, txResult>>
         /\ \/ UNCHANGED <<txState, txFrame>>
            \/ /\ SendResponse
               /\ CanQueueBytes /\ txState' = "Ready"
               /\ txFrame' = ResponseFrame(Current.id)
            \/ /\ FramePass
               /\ ~defer /\ transfer = "Sending" /\ frameQueued = "no"
               /\ CanQueueBytes /\ txState' = "Ready" /\ txFrame' = NextFrame
         /\ connected' = connected \/ connected' = TRUE
         /\ pc' \in {"completion", "transmit", "result"} => UNCHANGED pc
BY DEF Next, Interrupt, Foreground, HostSends, Receive, SensorEdge, SafetyPass,
       CapacityCheck, PacketPass, TakeRequest, ReceiveNothing, LoseHost, LaunchPass,
       SkipSlot, ServeDevice, ServeStart, ServeStop, ServeDebug, ServeOther, SendResponse,
       QueueBytes, EndDispatch, ClearPass, FramePass, ProcessTransfer

\* The class driver borrows only the frame in flight.
LEMMA DriverStep ==
  TypeOK /\ DriverOwnsTheFrame /\ [Next]_vars => DriverOwnsTheFrame'
<1>. SUFFICES ASSUME TypeOK, DriverOwnsTheFrame, [Next]_vars
              PROVE  DriverOwnsTheFrame'
  OBVIOUS
<1>. USE DEF DriverOwnsTheFrame
<1>1. cdc \in {"detached", "idle", "busy"} /\ txCompleted \in BOOLEAN
  BY DEF TypeOK, LinkType
<1>2. CASE TransportPass
  <2>1. CASE pc = "events" /\ ProcessConnectionEvents /\ Goto("completion")
    BY <1>1, <2>1 DEF ProcessConnectionEvents
  <2>2. CASE pc = "completion" /\ ProcessTransmitCompletion /\ Goto("transmit")
    BY <1>1, <2>2 DEF ProcessTransmitCompletion
  <2>3. CASE pc = "transmit" /\ ProcessTransmit /\ Goto("result")
    BY <1>1, <2>3 DEF ProcessTransmit
  <2>4. CASE pc = "result" /\ HandleTransmitResult /\ Goto("capacity")
    BY <1>1, <2>4 DEF HandleTransmitResult
  <2>. QED
    BY <1>2, <2>1, <2>2, <2>3, <2>4 DEF TransportPass
<1>3. CASE HostReads
  BY <1>1, <1>3 DEF HostReads, FrameRead
<1>4. CASE Attach
  BY <1>1, <1>4 DEF Attach, Plug
<1>5. CASE Cable
  BY <1>1, <1>5 DEF Cable, Unplug, ReceiveFragment
<1>6. CASE SystemReset
  BY <1>6 DEF SystemReset
<1>7. CASE ~TransportPass /\ ~HostReads /\ ~Attach /\ ~Cable /\ ~SystemReset
  <2>1. /\ UNCHANGED <<cdc, events, txCompleted>>
        /\ UNCHANGED txState \/ txState = "Empty"
        /\ pc' \in {"completion", "transmit"} => UNCHANGED pc
    BY <1>7, OutsideTransport DEF CanQueueBytes
  <2>. QED
    BY <1>1, <2>1
<1>. QED
  BY <1>2, <1>3, <1>4, <1>5, <1>6, <1>7

\* A result of the transmitter is handled in its pass, and a failure is followed by
\* nothing but the reset.
LEMMA ResultStep ==
  TypeOK /\ DriverOwnsTheFrame /\ ResultIsHandled /\ [Next]_vars => ResultIsHandled'
<1>. SUFFICES ASSUME TypeOK, DriverOwnsTheFrame, ResultIsHandled, [Next]_vars
              PROVE  ResultIsHandled'
  OBVIOUS
<1>. USE DEF ResultIsHandled, Doomed, Fault
<1>1. CASE TransportPass
  <2>1. CASE pc = "events" /\ ProcessConnectionEvents /\ Goto("completion")
    BY <1>1, <2>1 DEF ProcessConnectionEvents, TransportPass
  <2>2. CASE pc = "completion" /\ ProcessTransmitCompletion /\ Goto("transmit")
    BY <1>1, <2>2 DEF ProcessTransmitCompletion, TransportPass
  <2>3. CASE pc = "transmit" /\ ProcessTransmit /\ Goto("result")
    BY <1>1, <2>3 DEF ProcessTransmit, TransportPass
  <2>4. CASE pc = "result" /\ HandleTransmitResult /\ Goto("capacity")
    BY <1>1, <2>4 DEF HandleTransmitResult, TransportPass
  <2>. QED
    BY <1>1, <2>1, <2>2, <2>3, <2>4 DEF TransportPass
<1>2. CASE HostReads \/ Attach \/ Cable
  BY <1>2 DEF HostReads, FrameRead, Attach, Plug, Cable, Unplug, ReceiveFragment
<1>3. CASE SystemReset
  BY <1>3 DEF SystemReset
<1>4. CASE ~TransportPass /\ ~HostReads /\ ~Attach /\ ~Cable /\ ~SystemReset
  <2>1. /\ UNCHANGED txResult
        /\ UNCHANGED <<txState, txFrame>> \/ txState' = "Ready"
        /\ pc' \in {"completion", "transmit", "result"} => UNCHANGED pc
    BY <1>4, OutsideTransport DEF CanQueueBytes
  <2>2. pc \in {"completion", "transmit", "result"} =>
          UNCHANGED <<pc, txState, commFailure>>
    BY <1>4 DEF Next, Interrupt, Foreground, HostSends, Receive, SensorEdge, SafetyPass,
          CapacityCheck, PacketPass, LoseHost, LaunchPass, SkipSlot, ServeDevice,
          ServeStart, ServeStop, ServeDebug, ServeOther, SendResponse, Dispatching,
          EndDispatch, ClearPass, FramePass
  <2>3. \/ UNCHANGED <<pc, commFailure>>
        \/ /\ pc # "reset" /\ pc' \in {"capacity", "packet", "launch"}
           /\ UNCHANGED commFailure \/ commFailure'
        \/ pc # "reset" /\ ~commFailure /\ ~commFailure'
        \/ pc' = "reset" /\ ~commFailure'
    BY <1>4 DEF Next, Interrupt, Foreground, HostSends, Receive, SensorEdge, SafetyPass,
          CapacityCheck, PacketPass, TakeRequest, ReceiveNothing, LoseHost, LaunchPass,
          SkipSlot, ServeDevice, ServeStart, ServeStop, ServeDebug, ServeOther,
          SendResponse, Dispatching, EndDispatch, ClearPass, FramePass, ProcessTransfer
  <2>. QED
    BY <2>1, <2>2, <2>3 DEF TypeOK, LinkType
<1>. QED
  BY <1>1, <1>2, <1>3, <1>4

\* Outside UsbTransport::process, the progress of a transfer changes only when it
\* queues a frame: a run that ends finds the transfer idle.
LEMMA OutsideTransfer ==
  ASSUME [Next]_vars, TransferExcludesRun, ~TransportPass, ~HostReads, ~LoseHost,
         ~FramePass, ~SystemReset
  PROVE  /\ UNCHANGED <<frameQueued, chunk, frames>>
         /\ \/ UNCHANGED <<launchActive, transfer, defer>>
            \/ /\ launchActive /\ ~launchActive'
               /\ transfer = "Idle"
               /\ \/ transfer' = "Idle" /\ ~defer'
                  \/ transfer' = "Sending" /\ defer' /\ connected
            \/ /\ ServeStart
               /\ transfer = "Idle" /\ UNCHANGED <<transfer, defer>>
BY DEF TransferExcludesRun, Next, Interrupt, Foreground, HostSends, Receive, Attach, Plug,
       Cable, Unplug, ReceiveFragment, SensorEdge, SafetyPass, EndRun, SetLaunchActive,
       StartTransfer, CancelTransfer, CapacityCheck, PacketPass, TakeRequest,
       ReceiveNothing, LaunchPass, SkipSlot, ServeDevice, ServeStart, ServeStop,
       ServeDebug, ServeOther, SendResponse, QueueBytes, EndDispatch, ClearPass

\* While the pass is doomed, only the reset ends that.
LEMMA DoomedUntilReset ==
  ASSUME TypeOK, ResultIsHandled, [Next]_vars, Doomed, ~SystemReset
  PROVE  Doomed'
<1>. USE DEF Doomed, Fault, ResultIsHandled
<1>1. CASE TransportPass
  BY <1>1 DEF TransportPass, ProcessConnectionEvents, ProcessTransmitCompletion,
              ProcessTransmit, HandleTransmitResult
<1>2. CASE HostReads \/ Attach \/ Cable
  BY <1>2 DEF HostReads, FrameRead, Attach, Plug, Cable, Unplug, ReceiveFragment
<1>3. CASE ~TransportPass /\ ~HostReads /\ ~Attach /\ ~Cable
  <2>1. UNCHANGED txResult
    BY <1>3, OutsideTransport
  <2>2. commFailure \/ pc = "reset" => commFailure' \/ pc' = "reset"
    BY <1>3 DEF Next, Interrupt, Foreground, HostSends, Receive, SensorEdge, SafetyPass,
          CapacityCheck, PacketPass, TakeRequest, ReceiveNothing, LoseHost, LaunchPass,
          SkipSlot, ServeDevice, ServeStart, ServeStop, ServeDebug, ServeOther,
          SendResponse, Dispatching, EndDispatch, ClearPass, FramePass, ProcessTransfer
  <2>. QED
    BY <2>1, <2>2
<1>. QED
  BY <1>1, <1>2, <1>3

\* A run starts only with an idle transfer, and a transfer starts where a run ends.
LEMMA ExcludesStep ==
  TypeOK /\ ResultIsHandled /\ TransferExcludesRun /\ [Next]_vars => TransferExcludesRun'
<1>. SUFFICES ASSUME TypeOK, ResultIsHandled, TransferExcludesRun, [Next]_vars
              PROVE  TransferExcludesRun'
  OBVIOUS
<1>1. CASE SystemReset
  BY <1>1 DEF SystemReset, CancelTransfer, TransferExcludesRun
<1>2. CASE LoseHost
  BY <1>2 DEF LoseHost, SetLaunchActive, CancelTransfer, TransferExcludesRun, Doomed
<1>3. CASE HostReads
  BY <1>3, DoomedUntilReset DEF HostReads, FrameRead, TransferExcludesRun, Doomed, Fault
<1>4. CASE TransportPass
  <2>1. Doomed => Doomed'
    <3>1. ~SystemReset
      BY <1>4 DEF TransportPass, SystemReset
    <3>. QED
      BY <3>1, DoomedUntilReset
  <2>2. UNCHANGED launchActive
    BY <1>4 DEF TransportPass
  <2>3. CASE pc = "events" /\ ProcessConnectionEvents /\ Goto("completion")
    BY <2>1, <2>2, <2>3 DEF ProcessConnectionEvents, TransferExcludesRun, Doomed, Fault
  <2>4. CASE pc = "completion" /\ ProcessTransmitCompletion /\ Goto("transmit")
    BY <2>1, <2>2, <2>4 DEF ProcessTransmitCompletion, TransferExcludesRun
  <2>5. CASE pc = "transmit" /\ ProcessTransmit /\ Goto("result")
    BY <2>1, <2>2, <2>5 DEF ProcessTransmit, TransferExcludesRun
  <2>6. CASE pc = "result" /\ HandleTransmitResult /\ Goto("capacity")
    BY <2>1, <2>2, <2>6 DEF HandleTransmitResult, CommitFrame, CancelTransfer,
                            TransferExcludesRun, Doomed, Fault
  <2>. QED
    BY <1>4, <2>3, <2>4, <2>5, <2>6 DEF TransportPass
<1>5. CASE FramePass
  <2>1. UNCHANGED connected /\ ~Doomed
    BY <1>5 DEF FramePass, ProcessTransfer, QueueBytes, Doomed, Fault, ResultIsHandled
  <2>. QED
    BY <1>5, <2>1 DEF FramePass, ProcessTransfer, TransferExcludesRun
<1>6. CASE ~SystemReset /\ ~LoseHost /\ ~HostReads /\ ~TransportPass /\ ~FramePass
  <2>1. Doomed => Doomed'
    BY <1>6, DoomedUntilReset
  <2>2. connected' = connected \/ connected'
    BY <1>6 DEF Next, Interrupt, Foreground, HostSends, Receive, Attach, Plug,
       Cable, Unplug, ReceiveFragment, SensorEdge, SafetyPass,
       CapacityCheck, PacketPass, TakeRequest, ReceiveNothing, LaunchPass, SkipSlot,
       ServeDevice, ServeStart, ServeStop, ServeDebug, ServeOther, SendResponse, QueueBytes,
       EndDispatch, ClearPass
  <2>3. UNCHANGED <<frameQueued, chunk>>
    BY <1>6, OutsideTransfer
  <2>4. \/ UNCHANGED <<launchActive, transfer, defer>>
        \/ /\ ~launchActive'
           /\ \/ transfer' = "Idle" /\ ~defer'
              \/ transfer' = "Sending" /\ connected
           /\ transfer = "Idle"
        \/ transfer = "Idle" /\ UNCHANGED <<transfer, defer>>
    BY <1>6, OutsideTransfer
  <2>. QED
    BY <2>1, <2>2, <2>3, <2>4 DEF TransferExcludesRun
<1>. QED
  BY <1>1, <1>2, <1>3, <1>4, <1>5, <1>6

\* The next frame depends on the chunk alone.
LEMMA NextFrameKept ==
  ASSUME UNCHANGED chunk
  PROVE  NextFrame' = NextFrame
BY DEF NextFrame, DataFrame, FinalFrame

\* The frame in the buffer is the next one the host expects, whatever step is taken.
LEMMA FrameStep ==
  /\ TypeOK /\ DriverOwnsTheFrame /\ ResultIsHandled /\ TransferExcludesRun
  /\ FrameIsOnItsWay /\ FramesAreInOrder /\ [Next]_vars
  => FrameIsOnItsWay' /\ FramesAreInOrder'
<1>. SUFFICES ASSUME TypeOK, DriverOwnsTheFrame, ResultIsHandled, TransferExcludesRun,
                     FrameIsOnItsWay, FramesAreInOrder, [Next]_vars
              PROVE  FrameIsOnItsWay' /\ FramesAreInOrder'
  OBVIOUS
<1>. USE DEF FrameIsOnItsWay, FramesAreInOrder
<1>1. /\ NextFrame.kind \in {"data", "final"} /\ NextFrame.id = 0
      /\ NextFrame.kind = "data" => chunk < Chunks /\ NextFrame.chunk = chunk
      /\ NextFrame.kind = "final" => chunk = Chunks
  BY FrameTypes DEF TypeOK
<1>2. /\ NoFrame.kind = "none"
      /\ \A i : ResponseFrame(i).kind = "response"
  BY DEF NoFrame, ResponseFrame
<1>3. /\ chunk \in 0 .. Chunks /\ frames \in 0 .. Chunks /\ txCompleted \in BOOLEAN
      /\ txState \in {"Empty", "Ready", "InFlight", "TimedOut"}
  BY DEF TypeOK, LinkType
<1>4. CASE SystemReset
  BY <1>2, <1>4 DEF SystemReset, CancelTransfer
<1>5. CASE LoseHost
  <2>1. /\ UNCHANGED <<txFrame, txCompleted, txState, txResult, frames>>
        /\ Doomed'
        /\ UNCHANGED <<frameQueued, chunk>> \/ frameQueued' = "no"
    BY <1>5 DEF LoseHost, CancelTransfer, Doomed
  <2>. QED
    BY <2>1, NextFrameKept
<1>6. CASE HostReads
  <2>1. /\ UNCHANGED <<txFrame, txState, txResult, frameQueued, chunk>>
        /\ txCompleted' /\ ~txCompleted
        /\ Doomed' <=> Doomed
        /\ frames' = CASE txFrame.kind = "data" -> frames + 1
                       [] txFrame.kind = "final" -> 0
                       [] OTHER -> frames
    BY <1>6 DEF HostReads, FrameRead, DriverOwnsTheFrame, Doomed, Fault
  <2>2. txResult # "Complete"
    BY <1>6 DEF HostReads, FrameRead, DriverOwnsTheFrame, ResultIsHandled
  <2>. QED
    BY <1>1, <1>3, <2>1, <2>2, NextFrameKept
<1>7. CASE FramePass
  <2>1. /\ UNCHANGED <<txCompleted, txResult, frames, chunk>>
        /\ ~Doomed /\ txResult # "Complete"
    BY <1>7 DEF FramePass, ProcessTransfer, QueueBytes, Doomed, Fault, ResultIsHandled
  <2>2. \/ UNCHANGED <<txState, txFrame, frameQueued>>
        \/ /\ txState = "Empty" /\ txState' = "Ready" /\ txFrame' = NextFrame
           /\ frameQueued = "no" /\ frameQueued' = NextFrame.kind
    BY <1>7 DEF FramePass, ProcessTransfer, QueueBytes, CanQueueBytes
  <2>3. txState = "Empty" => ~txCompleted
    BY DEF DriverOwnsTheFrame
  <2>. QED
    BY <1>1, <1>3, <2>1, <2>2, <2>3, NextFrameKept
<1>8. CASE TransportPass
  <2>1. UNCHANGED frames
    BY <1>8 DEF TransportPass
  <2>2. CASE pc = "events" /\ ProcessConnectionEvents /\ Goto("completion")
    <3>1. ~Doomed /\ UNCHANGED <<frameQueued, chunk>>
      BY <2>2 DEF ProcessConnectionEvents, ResultIsHandled, Doomed, Fault
    <3>2. \/ Doomed' /\ txFrame' = NoFrame
          \/ /\ UNCHANGED <<txState, txFrame, txCompleted>>
             /\ txResult # "Complete" /\ txResult' # "Complete"
      BY <2>2 DEF ProcessConnectionEvents, ResultIsHandled, Doomed, Fault
    <3>. QED
      BY <1>2, <2>1, <3>1, <3>2, NextFrameKept
  <2>3. CASE pc = "completion" /\ ProcessTransmitCompletion /\ Goto("transmit")
    <3>1. UNCHANGED <<frameQueued, chunk>> /\ ~txCompleted'
      BY <2>3 DEF ProcessTransmitCompletion
    <3>2. Doomed => Doomed' /\ txFrame = NoFrame /\ txFrame' = NoFrame
      BY <2>3 DEF ProcessTransmitCompletion, ResultIsHandled, Doomed, Fault
    <3>3. CASE txCompleted
      <4>1. ~Doomed => txState = "InFlight"
        BY <3>3 DEF DriverOwnsTheFrame, ResultIsHandled
      <4>2. txFrame' = NoFrame /\ (~Doomed => txResult' = "Complete")
        BY <2>3, <3>3, <4>1 DEF ProcessTransmitCompletion, DriverOwnsTheFrame
      <4>. QED
        BY <1>2, <2>1, <3>1, <3>2, <3>3, <4>2, NextFrameKept
    <3>4. CASE ~txCompleted
      <4>1. UNCHANGED <<txState, txFrame, txResult>>
        BY <2>3, <3>4 DEF ProcessTransmitCompletion
      <4>. QED
        BY <1>2, <2>1, <3>1, <3>2, <3>4, <4>1, NextFrameKept
    <3>. QED
      BY <1>3, <3>3, <3>4
  <2>4. CASE pc = "transmit" /\ ProcessTransmit /\ Goto("result")
    <3>1. UNCHANGED <<frameQueued, chunk, txCompleted>>
      BY <2>4 DEF ProcessTransmit
    <3>2. \/ txState = "InFlight" /\ txResult' = "TimedOut" /\ UNCHANGED txFrame
          \/ txState = "Ready" /\ txState' = "InFlight" /\ UNCHANGED <<txFrame, txResult>>
          \/ txFrame' = NoFrame /\ txResult' = "Failed"
          \/ UNCHANGED <<txState, txFrame, txResult>>
      BY <2>4 DEF ProcessTransmit
    <3>3. Doomed => Doomed'
      BY <2>4, <3>2 DEF ResultIsHandled, Doomed, Fault
    <3>4. txResult' \in {"TimedOut", "Failed"} => Doomed'
      BY DEF Doomed, Fault
    <3>. QED
      BY <1>2, <2>1, <3>1, <3>2, <3>3, <3>4, NextFrameKept
  <2>5. CASE pc = "result" /\ HandleTransmitResult /\ Goto("capacity")
    <3>1. UNCHANGED <<txState, txFrame, txCompleted>> /\ txResult' = "None"
      BY <2>5 DEF HandleTransmitResult
    <3>2. CASE Fault
      BY <2>1, <2>5, <3>1, <3>2 DEF HandleTransmitResult, CancelTransfer, Fault, Doomed
    <3>3. CASE ~Fault /\ txResult = "Complete"
      <4>1. ~Doomed /\ txFrame = NoFrame /\ CommitFrame
        BY <2>5, <3>3 DEF HandleTransmitResult, ResultIsHandled, Doomed, Fault
      <4>2. CASE frameQueued = "no"
        BY <1>2, <2>1, <3>1, <4>1, <4>2, NextFrameKept DEF CommitFrame
      <4>3. CASE frameQueued = "data"
        BY <1>1, <1>2, <2>1, <3>1, <3>3, <4>1, <4>3 DEF CommitFrame
      <4>4. CASE frameQueued = "final"
        BY <1>2, <2>1, <3>1, <3>3, <4>1, <4>4 DEF CommitFrame, CancelTransfer
      <4>. QED
        BY <1>1, <4>2, <4>3, <4>4
    <3>4. CASE ~Fault /\ txResult # "Complete"
      <4>1. UNCHANGED <<frameQueued, chunk>>
        BY <2>5, <3>4 DEF HandleTransmitResult, Fault
      <4>2. ~Doomed
        BY <2>5, <3>4 DEF ResultIsHandled, Doomed
      <4>. QED
        BY <2>1, <3>1, <3>4, <4>1, <4>2, NextFrameKept
    <3>. QED
      BY <3>2, <3>3, <3>4
  <2>. QED
    BY <1>8, <2>2, <2>3, <2>4, <2>5 DEF TransportPass
<1>9. CASE ~SystemReset /\ ~LoseHost /\ ~HostReads /\ ~FramePass /\ ~TransportPass
  <2>1. UNCHANGED <<frameQueued, chunk, frames>>
    BY <1>9, OutsideTransfer
  <2>2. Doomed => Doomed'
    BY <1>9, DoomedUntilReset
  <2>3. UNCHANGED <<txCompleted, txResult>>
    BY <1>9, OutsideTransport DEF Attach, Plug, Cable, Unplug, ReceiveFragment
  <2>4. \/ UNCHANGED <<txState, txFrame>>
        \/ SendResponse /\ txState = "Empty" /\ txFrame'.kind = "response"
    BY <1>2, <1>9, OutsideTransport DEF Attach, Plug, Cable, Unplug, ReceiveFragment,
                                        CanQueueBytes
  <2>5. SendResponse => ~Doomed /\ txResult # "Complete"
    BY DEF SendResponse, Dispatching, ResultIsHandled, Doomed, Fault
  <2>6. txState = "Empty" => ~txCompleted
    BY DEF DriverOwnsTheFrame
  <2>. QED
    BY <1>1, <1>3, <2>1, <2>2, <2>3, <2>4, <2>5, <2>6, NextFrameKept
<1>. QED
  BY <1>4, <1>5, <1>6, <1>7, <1>8, <1>9

-----------------------------------------------------------------------------
(* The inductive invariant of the link.                                     *)

LinkInv ==
  /\ TypeOK /\ SlotsAreCounted
  /\ DriverOwnsTheFrame /\ ResultIsHandled /\ TransferExcludesRun
  /\ FrameIsOnItsWay /\ FramesAreInOrder

\* The invariant of the link holds after a reset.
LEMMA LinkInitial ==
  Init => LinkInv
<1>. SUFFICES ASSUME Init PROVE LinkInv
  OBVIOUS
<1>1. Consistent(queue)
  BY EmptyQueueIsConsistent DEF Init, RouterInit
<1>2. NoFrame \in FrameRecords /\ NoFrame.kind = "none"
  BY DEF NoFrame, FrameRecords
<1>3. LinkType
  <2>1. Len(rx) = 0
    BY EmptySeq DEF Init, LinkInit
  <2>2. 0 \in 0 .. Chunks /\ 0 <= RxCapacity
    OBVIOUS
  <2>. QED
    BY <1>2, <2>1, <2>2 DEF Init, LinkInit, LinkType, FrameRecords
<1>4. TypeOK
  <2>1. rx \in Seq(Request)
    BY EmptySeq DEF Init, LinkInit
  <2>2. HostType
    BY DEF Init, HostType, ControlPoints
  <2>3. RouterType
    BY <1>1 DEF Init, RouterInit, RouterType, Consistent, Queues
  <2>. QED
    BY <1>3, <2>1, <2>2, <2>3 DEF TypeOK, HostType
<1>5. SlotsAreCounted
  BY <1>1 DEF SlotsAreCounted, Consistent, Used
<1>6. DriverOwnsTheFrame /\ ResultIsHandled /\ TransferExcludesRun
  BY DEF Init, RouterInit, LinkInit, DriverOwnsTheFrame, ResultIsHandled, Fault,
         TransferExcludesRun
<1>7. FrameIsOnItsWay /\ FramesAreInOrder
  BY <1>2 DEF Init, LinkInit, FrameIsOnItsWay, FramesAreInOrder
<1>. QED
  BY <1>4, <1>5, <1>6, <1>7 DEF LinkInv

\* The invariant of the link is kept by every step.
LEMMA LinkInductive ==
  LinkInv /\ [Next]_vars => LinkInv'
BY TypeStep, DriverStep, ResultStep, ExcludesStep, FrameStep DEF LinkInv

\* The invariant of the link always holds.
LEMMA LinkInvariant == Spec => []LinkInv
BY LinkInitial, LinkInductive, PTL DEF Spec

\* Every variable of the link keeps its type: no index of a slot, a chunk or a
\* request leaves its range, over any number of requests, resets and transfers.
THEOREM HostLinkTypeCorrect == Spec => []TypeOK
BY LinkInvariant, PTL DEF LinkInv

\* RequestManager::_requestCount is the number of slots in use, whatever the main
\* loop and the interrupts queue, complete, clear or discard.
THEOREM SlotsTheorem == Spec => []SlotsAreCounted
BY LinkInvariant, PTL DEF LinkInv

\* While the class driver reads the transmit buffer in place, UsbTransport neither
\* rewrites nor resubmits it.
THEOREM BufferTheorem == Spec => []BufferIsBorrowedOnce
<1>1. LinkInv => BufferIsBorrowedOnce
  BY DEF LinkInv, DriverOwnsTheFrame, BufferIsBorrowedOnce
<1>. QED
  BY <1>1, LinkInvariant, PTL

\* The host receives the chunks of a transfer in order, each once, then the final
\* frame.
THEOREM FramesInOrderTheorem == Spec => []FramesAreInOrder
BY LinkInvariant, PTL DEF LinkInv

-----------------------------------------------------------------------------
(* What a step does to a slot.                                              *)

FaultReport == Notification("Safety", "ReportFault")
EdgeReport == Notification("Sensor", "ReportSensor")

\* A notification takes a free slot as it is, or no slot.
LEMMA NotificationTakesFree ==
  ASSUME NEW q, Consistent(q), NEW n \in {RunStatus, FaultReport, EdgeReport}
  PROVE  /\ Consistent(QueueRequest(q, n))
         /\ \A s \in Slots :
              \/ QueueRequest(q, n).slots[s] = q.slots[s]
              \/ q.slots[s].state = "Idle" /\ QueueRequest(q, n).slots[s] = n
<1>1. n \in Request /\ n.state = "Outgoing" /\ n.source # "Usb"
  <2>1. /\ RunStatus \in Request /\ FaultReport \in Request /\ EdgeReport \in Request
    BY NotificationIsRequest DEF RunStatus, FaultReport, EdgeReport, Services
  <2>2. /\ RunStatus.state = "Outgoing" /\ RunStatus.source = "Launch"
        /\ FaultReport.state = "Outgoing" /\ FaultReport.source = "Safety"
        /\ EdgeReport.state = "Outgoing" /\ EdgeReport.source = "Sensor"
    BY DEF RunStatus, FaultReport, EdgeReport, Notification, Empty
  <2>. QED
    BY <2>1, <2>2
<1>2. Accepted(Gated(n)) = n
  BY <1>1 DEF Gated, BlocksHostRequest, Accepted, Request
<1>3. /\ Consistent(QueueRequest(q, n))
      /\ \/ QueueRequest(q, n) = q
         \/ \E i \in Slots : /\ q.slots[i].state = "Idle"
                             /\ QueueRequest(q, n).slots = [q.slots EXCEPT ![i] = n]
  BY <1>1, <1>2, QueueFillsOne
<1>4. q.slots \in [Slots -> Request]
  BY DEF Consistent, Queues
<1>. QED
  BY <1>3, <1>4

\* Apart from the request that PacketPass queues, a slot is kept, emptied, filled
\* with a notification, or its request completed when it is dispatched.
SlotStep(s) ==
  \/ queue'.slots[s] \in {queue.slots[s], Empty}
  \/ /\ queue.slots[s].state = "Idle"
     /\ queue'.slots[s] \in {RunStatus, FaultReport, EdgeReport}
  \/ /\ s = turn /\ pc = "dispatch" /\ IsRouted(queue.slots[s])
     /\ \E by \in Services : queue'.slots[s] = Completed(queue.slots[s], by)

\* Every slot takes one of those steps.
LEMMA SlotSteps ==
  ASSUME TypeOK, SlotsAreCounted, [Next]_vars, ~PacketPass
  PROVE  \A s \in Slots : SlotStep(s)
<1>1. Consistent(queue)
  BY DEF TypeOK, RouterType, SlotsAreCounted, Consistent, Queues, Used
<1>2. CASE UNCHANGED queue
  BY <1>2 DEF SlotStep
<1>3. CASE \E n \in {RunStatus, EdgeReport} : queue' = QueueRequest(queue, n)
  BY <1>1, <1>3, NotificationTakesFree DEF SlotStep
<1>4. CASE SafetyPass
  <2>1. PICK q : /\ q \in {queue, QueueRequest(queue, FaultReport)}
                 /\ queue' = q \/ queue' = QueueRequest(q, RunStatus)
    BY <1>4 DEF SafetyPass, EndRun, FaultReport
  <2>2. /\ Consistent(q)
        /\ \A s \in Slots : \/ q.slots[s] = queue.slots[s]
                            \/ queue.slots[s].state = "Idle" /\ q.slots[s] = FaultReport
    <3>1. CASE q = queue
      BY <1>1, <3>1
    <3>2. CASE q = QueueRequest(queue, FaultReport)
      BY <1>1, <3>2, NotificationTakesFree
    <3>. QED
      BY <2>1, <3>1, <3>2
  <2>3. \A s \in Slots : \/ queue'.slots[s] = q.slots[s]
                         \/ q.slots[s].state = "Idle" /\ queue'.slots[s] = RunStatus
    <3>1. CASE queue' = q
      BY <3>1
    <3>2. CASE queue' = QueueRequest(q, RunStatus)
      BY <2>2, <3>2, NotificationTakesFree
    <3>. QED
      BY <2>1, <3>1, <3>2
  <2>4. FaultReport.state = "Outgoing"
    BY DEF FaultReport, Notification, Empty
  <2>. QED
    BY <2>2, <2>3, <2>4 DEF SlotStep
<1>5. CASE LoseHost
  BY <1>1, <1>5, DiscardingEmpties DEF LoseHost, SlotStep
<1>6. CASE ClearPass
  BY <1>1, <1>6, ClearingEmpties DEF ClearPass, SlotStep
<1>7. CASE SystemReset
  BY <1>7 DEF SystemReset, EmptyQueue, SlotStep
<1>8. CASE ServeDevice \/ ServeStart \/ ServeStop \/ ServeDebug \/ ServeOther
           \/ SendResponse
  <2>1. /\ turn \in Slots /\ pc = "dispatch" /\ IsRouted(queue.slots[turn])
    <3>1. turn < Capacity /\ pc = "dispatch" /\ IsRouted(queue.slots[turn])
      BY <1>8 DEF ServeDevice, ServeStart, ServeStop, ServeDebug, ServeOther,
                  SendResponse, Dispatching, Current
    <3>. QED
      BY <3>1 DEF TypeOK, Slots
  <2>2. \/ UNCHANGED queue
        \/ \E by \in Services : \E q \in {queue, QueueRequest(queue, RunStatus)} :
             queue' = Complete(q, turn, by)
    <3>1. {"Coil", "Sensor", "Safety", "Launch", "Usb"} \subseteq Services
      BY DEF Services
    <3>2. CASE ServeDevice
      BY <3>1, <3>2 DEF ServeDevice
    <3>3. CASE ServeStop
      BY <3>1, <3>3 DEF ServeStop
    <3>4. CASE ServeStart \/ ServeDebug \/ ServeOther
      BY <3>1, <3>4 DEF ServeStart, ServeDebug, ServeOther
    <3>5. CASE SendResponse
      BY <3>1, <3>5 DEF SendResponse
    <3>. QED
      BY <1>8, <3>2, <3>3, <3>4, <3>5
  <2>3. ASSUME NEW by \in Services, NEW q \in {queue, QueueRequest(queue, RunStatus)},
               queue' = Complete(q, turn, by)
        PROVE  \A s \in Slots : SlotStep(s)
    <3>1. /\ Consistent(q)
          /\ \A s \in Slots : \/ q.slots[s] = queue.slots[s]
                              \/ queue.slots[s].state = "Idle" /\ q.slots[s] = RunStatus
      <4>1. CASE q = queue
        BY <1>1, <4>1
      <4>2. CASE q = QueueRequest(queue, RunStatus)
        BY <1>1, <4>2, NotificationTakesFree
      <4>. QED
        BY <4>1, <4>2
    <3>2. q.slots[turn] = queue.slots[turn]
      BY <2>1, <3>1 DEF IsRouted
    <3>3. queue'.slots = [q.slots EXCEPT ![turn] = Completed(queue.slots[turn], by)]
      BY <2>1, <2>3, <3>1, <3>2, CompleteKeepsCount
    <3>4. q.slots \in [Slots -> Request]
      BY <3>1 DEF Consistent, Queues
    <3>5. ASSUME NEW s \in Slots, s # turn
          PROVE  queue'.slots[s] = q.slots[s]
      BY <3>3, <3>4, <3>5
    <3>6. queue'.slots[turn] = Completed(queue.slots[turn], by)
      BY <2>1, <3>3, <3>4
    <3>. QED
      BY <2>1, <3>1, <3>5, <3>6 DEF SlotStep
  <2>. QED
    BY <1>2, <2>2, <2>3
<1>. QED
  BY <1>2, <1>3, <1>4, <1>5, <1>6, <1>7, <1>8
     DEF Next, Interrupt, Foreground, HostSends, HostReads, Attach, Cable, SensorEdge,
         TransportPass, CapacityCheck, LaunchPass, EndRun, SkipSlot, EndDispatch, FramePass,
         EdgeReport

\* What no host asked for has no identity and waits for no answer.
LEMMA NotificationsAreUnasked ==
  ASSUME NEW n \in {Empty, RunStatus, FaultReport, EdgeReport}
  PROVE  n.id = 0 /\ ~n.answer
<1>1. Empty.id = 0 /\ ~Empty.answer
  BY DEF Empty
<1>2. \A source, command : /\ Notification(source, command).id = 0
                           /\ ~Notification(source, command).answer
  BY DEF Empty, Notification
<1>. QED
  BY <1>1, <1>2 DEF RunStatus, FaultReport, EdgeReport

\* PacketPass leaves the queue alone, or one free slot takes the oldest request.
LEMMA PacketSlot ==
  ASSUME TypeOK, SlotsAreCounted, PacketPass
  PROVE  \/ UNCHANGED queue /\ rx' \in {rx, <<>>}
         \/ HasRequest /\ rx' = Tail(rx) /\ UNCHANGED queue
         \/ /\ HasRequest /\ rx' = Tail(rx)
            /\ \E i \in Slots :
                 /\ queue.slots[i].state = "Idle"
                 /\ queue'.slots = [queue.slots EXCEPT ![i] = Accepted(Gated(Head(rx)))]
<1>1. Consistent(queue)
  BY DEF TypeOK, RouterType, SlotsAreCounted, Consistent, Queues, Used
<1>2. HasRequest => Head(rx) \in Request
  BY HeadOfRing DEF HasRequest, TypeOK
<1>3. CASE UNCHANGED queue
  BY <1>3 DEF PacketPass, TakeRequest, ReceiveNothing, ClearReceived
<1>4. CASE /\ HasRequest /\ rx' = Tail(rx)
           /\ queue' = QueueRequest(queue, Head(rx))
  BY <1>1, <1>2, <1>4, QueueFillsOne
<1>. QED
  BY <1>3, <1>4 DEF PacketPass, TakeRequest

\* What the gates make of a request of the host keeps its identity.
LEMMA HostRequestInSlot ==
  ASSUME NEW r \in Request, r.state = "Idle"
  PROVE  /\ Accepted(Gated(r)).id = r.id
         /\ Accepted(Gated(r)).state \in {"Incoming", "Outgoing"}
         /\ Accepted(Gated(r)).answer => Accepted(Gated(r)).state = "Incoming"
BY DEF Accepted, Gated, Refusal, Request

\* Only a request of the host waits for an answer.
LEMMA AnswersStep ==
  /\ TypeOK /\ SlotsAreCounted /\ RequestIsInOnePlace /\ AnswersAreAsked
  /\ [Next]_vars
  => AnswersAreAsked'
<1>. SUFFICES ASSUME TypeOK, SlotsAreCounted, RequestIsInOnePlace, AnswersAreAsked,
                     [Next]_vars, NEW s \in Slots, queue'.slots[s].answer
              PROVE  queue'.slots[s].id # 0 /\ queue'.slots[s].state # "Outgoing"
  BY DEF AnswersAreAsked
<1>1. queue.slots \in [Slots -> Request]
  BY DEF TypeOK, RouterType
<1>2. CASE PacketPass
  <2>1. CASE UNCHANGED queue
    BY <2>1 DEF AnswersAreAsked
  <2>2. CASE /\ HasRequest
             /\ \E i \in Slots :
                  queue'.slots = [queue.slots EXCEPT ![i] = Accepted(Gated(Head(rx)))]
    <3>1. Head(rx) \in Request /\ Head(rx) = rx[1] /\ Len(rx) > 0 /\ Len(rx) \in Nat
      BY <2>2, HeadOfRing, LenProperties DEF HasRequest, TypeOK
    <3>2. Head(rx).state = "Idle" /\ Head(rx).id # 0
      BY <3>1 DEF RequestIsInOnePlace, TypeOK
    <3>3. queue'.slots[s] \in {queue.slots[s], Accepted(Gated(Head(rx)))}
      BY <1>1, <2>2
    <3>. QED
      BY <3>1, <3>2, <3>3, HostRequestInSlot DEF AnswersAreAsked
  <2>. QED
    BY <1>2, <2>1, <2>2, PacketSlot
<1>3. CASE ~PacketPass
  <2>1. SlotStep(s)
    BY <1>3, SlotSteps
  <2>2. CASE queue'.slots[s] = queue.slots[s]
    BY <2>2 DEF AnswersAreAsked
  <2>3. CASE queue'.slots[s] \in {Empty, RunStatus, FaultReport, EdgeReport}
    BY <2>3, NotificationsAreUnasked
  <2>4. CASE \E by \in Services : queue'.slots[s] = Completed(queue.slots[s], by)
    BY <1>1, <2>4 DEF Completed, AnswersAreAsked, Request
  <2>. QED
    BY <2>1, <2>2, <2>3, <2>4 DEF SlotStep
<1>. QED
  BY <1>2, <1>3

\* Outside PacketPass, no request gets on its way.
LEMMA NoneSetsOut ==
  ASSUME TypeOK, SlotsAreCounted, [Next]_vars, ~PacketPass
  PROVE  \A s \in Slots, i \in Requests : OnItsWay(s, i)' => OnItsWay(s, i)
<1>. SUFFICES ASSUME NEW s \in Slots, NEW i \in Requests, OnItsWay(s, i)'
              PROVE  OnItsWay(s, i)
  OBVIOUS
<1>1. SlotStep(s)
  BY SlotSteps
<1>2. queue.slots \in [Slots -> Request]
  BY DEF TypeOK, RouterType
<1>3. queue'.slots[s].id = i /\ i # 0
  BY DEF OnItsWay, Requests
<1>4. CASE queue'.slots[s] = queue.slots[s]
  BY <1>4 DEF OnItsWay
<1>5. CASE queue'.slots[s] \in {Empty, RunStatus, FaultReport, EdgeReport}
  BY <1>3, <1>5, NotificationsAreUnasked
<1>6. CASE /\ IsRouted(queue.slots[s])
           /\ \E by \in Services : queue'.slots[s] = Completed(queue.slots[s], by)
  <2>1. queue.slots[s] \in Request
    BY <1>2
  <2>. QED
    BY <1>3, <1>6, <2>1 DEF Completed, OnItsWay, Request
<1>. QED
  BY <1>1, <1>4, <1>5, <1>6 DEF SlotStep

\* The steps that neither send, queue nor answer a request of the host at most
\* discard it.
Discarding ==
  /\ rx' \in {rx, <<>>} /\ UNCHANGED <<sent, answers>>
  /\ UNCHANGED <<txFrame, txCompleted>> \/ txFrame'.id = 0

\* All other steps discard at most.
LEMMA OthersDiscard ==
  ASSUME TypeOK, DriverOwnsTheFrame, [Next]_vars, ~HostSends, ~HostReads, ~PacketPass,
         ~(SendResponse /\ txFrame' = ResponseFrame(Current.id))
  PROVE  Discarding
<1>. USE DEF Discarding
<1>1. NoFrame.id = 0 /\ NextFrame.id = 0
  BY FrameTypes DEF NoFrame, TypeOK
<1>2. CASE TransportPass
  BY <1>1, <1>2 DEF TransportPass, ProcessConnectionEvents, ProcessTransmitCompletion,
        ProcessTransmit, HandleTransmitResult, ClearReceived, DriverOwnsTheFrame, TypeOK,
        LinkType
<1>3. CASE Attach \/ Cable
  BY <1>3 DEF Attach, Plug, Cable, Unplug, ReceiveFragment
<1>4. CASE SystemReset
  BY <1>1, <1>4 DEF SystemReset, ClearReceived
<1>5. CASE ~TransportPass /\ ~Attach /\ ~Cable /\ ~SystemReset
  <2>1. UNCHANGED txCompleted /\ (UNCHANGED txFrame \/ txFrame'.id = 0)
    BY <1>1, <1>5, OutsideTransport
  <2>2. UNCHANGED <<rx, sent, answers>>
    BY <1>5 DEF Next, Interrupt, Foreground, SensorEdge, SafetyPass, CapacityCheck,
       LoseHost,
          LaunchPass, SkipSlot, ServeDevice, ServeStart, ServeStop, ServeDebug, ServeOther,
          SendResponse, EndDispatch, ClearPass, FramePass, ProcessTransfer
  <2>. QED
    BY <2>1, <2>2
<1>. QED
  BY <1>2, <1>3, <1>4, <1>5

\* A request of the host stays in one place, and is answered once.
PlaceInv == RequestIsInOnePlace /\ AnswersAreAsked /\ AtMostOneAnswer

\* Whatever step is taken, a request has one place.
LEMMA PlaceStep ==
  LinkInv /\ PlaceInv /\ [Next]_vars => RequestIsInOnePlace' /\ AtMostOneAnswer'
<1>. SUFFICES ASSUME LinkInv, PlaceInv, [Next]_vars
              PROVE  RequestIsInOnePlace' /\ AtMostOneAnswer'
  OBVIOUS
<1>1. /\ TypeOK /\ SlotsAreCounted /\ DriverOwnsTheFrame /\ ResultIsHandled
      /\ RequestIsInOnePlace /\ AnswersAreAsked /\ AtMostOneAnswer
  BY DEF LinkInv, PlaceInv
<1>2. /\ rx \in Seq(Request) /\ Len(rx) \in Nat /\ sent \in 0 .. MaxRequests
      /\ answers \in [Requests -> Nat] /\ queue.slots \in [Slots -> Request]
      /\ txCompleted \in BOOLEAN
  BY <1>1, LenProperties DEF TypeOK, RouterType, LinkType
<1>3. CASE /\ Discarding
           /\ \A s \in Slots, i \in Requests : OnItsWay(s, i)' => OnItsWay(s, i)
  <2>1. \A s \in Slots, i \in Requests : OnItsWay(s, i)' => OnItsWay(s, i)
    BY <1>3
  <2>2. UNCHANGED <<sent, answers>>
    BY <1>3 DEF Discarding
  <2>3. rx' = rx \/ Len(rx') = 0
    BY <1>3, EmptySeq DEF Discarding
  <2>4. UNCHANGED <<txFrame, txCompleted>> \/ txFrame'.id = 0
    BY <1>3 DEF Discarding
  <2>5. AtMostOneAnswer'
    BY <1>1, <2>2 DEF AtMostOneAnswer
  <2>6. \A j \in 1 .. Len(rx) : rx[j].id \in Requests
    BY <1>1, <1>2 DEF RequestIsInOnePlace, Requests
  <2>7. (\A j \in 1 .. Len(rx) :
          /\ rx[j].id \in 1 .. sent /\ rx[j].state = "Idle"
          /\ \A k \in 1 .. Len(rx) : k # j => rx[k].id # rx[j].id
          /\ \A s \in Slots : ~OnItsWay(s, rx[j].id)
          /\ txFrame.id # rx[j].id /\ answers[rx[j].id] = 0)'
    <3>1. CASE rx' = rx
      BY <1>1, <2>1, <2>2, <2>4, <2>6, <3>1 DEF RequestIsInOnePlace, Requests
    <3>2. CASE Len(rx') = 0
      BY <3>2
    <3>. QED
      BY <2>3, <3>1, <3>2
  <2>8. (\A i \in Requests : \A s \in Slots : OnItsWay(s, i) =>
          /\ \A t \in Slots : t # s => ~OnItsWay(t, i)
          /\ i <= sent /\ txFrame.id # i /\ answers[i] = 0)'
    BY <1>1, <2>1, <2>2, <2>4 DEF RequestIsInOnePlace, Requests
  <2>9. (/\ txFrame.id \in Requests => txFrame.id <= sent
                               /\ (~txCompleted => answers[txFrame.id] = 0)
         /\ \A i \in Requests : i > sent => answers[i] = 0
         /\ txFrame.id \in 0 .. MaxRequests)'
    BY <1>1, <2>2, <2>4 DEF RequestIsInOnePlace, Requests
  <2>. QED
    BY <2>5, <2>7, <2>8, <2>9 DEF RequestIsInOnePlace
<1>4. CASE HostSends
  <2>1. /\ UNCHANGED <<queue, txFrame, txCompleted, answers>>
        /\ sent' = sent + 1 /\ sent < MaxRequests
    BY <1>4 DEF HostSends, Receive
  <2>2. PICK r : /\ r.id = sent + 1 /\ r.state = "Idle"
                 /\ rx' = rx \/ rx' = Append(rx, r)
    <3>1. PICK m \in HostMessages :
            Receive([Empty EXCEPT !.dest = m.dest, !.source = "Usb",
                                  !.command = m.command, !.answer = m.answer,
                                  !.asked = m.answer, !.id = sent + 1])
      BY <1>4 DEF HostSends
    <3>. DEFINE q == [Empty EXCEPT !.dest = m.dest, !.source = "Usb",
                                   !.command = m.command, !.answer = m.answer,
                                   !.asked = m.answer, !.id = sent + 1]
    <3>2. q.id = sent + 1 /\ q.state = "Idle"
      BY DEF Empty
    <3>3. rx' = rx \/ rx' = Append(rx, q)
      BY <3>1 DEF Receive
    <3>. HIDE DEF q
    <3>. QED
      BY <3>2, <3>3
  <2>3. /\ Len(rx') = Len(rx) \/ Len(rx') = Len(rx) + 1
        /\ \A j \in 1 .. Len(rx) : rx'[j] = rx[j]
        /\ Len(rx') = Len(rx) + 1 => rx'[Len(rx) + 1] = r
    BY <1>2, <2>2
  <2>4. \A s \in Slots, i \in Requests : OnItsWay(s, i)' <=> OnItsWay(s, i)
    BY <2>1 DEF OnItsWay
  <2>5. \A j \in 1 .. Len(rx') :
          \/ j \in 1 .. Len(rx) /\ rx'[j] = rx[j]
          \/ j = Len(rx) + 1 /\ rx'[j] = r
    BY <1>2, <2>3
  <2>6. /\ sent + 1 \in Requests
        /\ \A j \in 1 .. Len(rx) : rx[j].id \in Requests /\ rx[j].id # sent + 1
        /\ \A s \in Slots : ~OnItsWay(s, sent + 1)
        /\ txFrame.id # sent + 1 /\ answers[sent + 1] = 0
    BY <1>1, <1>2, <2>1 DEF RequestIsInOnePlace, Requests
  <2>7. AtMostOneAnswer'
    BY <1>1, <2>1 DEF AtMostOneAnswer
  <2>8. (\A j \in 1 .. Len(rx) :
          /\ rx[j].id \in 1 .. sent /\ rx[j].state = "Idle"
          /\ \A k \in 1 .. Len(rx) : k # j => rx[k].id # rx[j].id
          /\ \A s \in Slots : ~OnItsWay(s, rx[j].id)
          /\ txFrame.id # rx[j].id /\ answers[rx[j].id] = 0)'
    <3>. SUFFICES ASSUME NEW j \in 1 .. Len(rx')
                  PROVE  /\ rx'[j].id \in 1 .. sent' /\ rx'[j].state = "Idle"
                         /\ \A k \in 1 .. Len(rx') : k # j => rx'[k].id # rx'[j].id
                         /\ \A s \in Slots : ~OnItsWay(s, rx[j].id)'
                         /\ txFrame'.id # rx'[j].id /\ answers'[rx'[j].id] = 0
      OBVIOUS
    <3>1. CASE j \in 1 .. Len(rx) /\ rx'[j] = rx[j]
      <4>1. /\ rx[j].id \in 1 .. sent /\ rx[j].state = "Idle" /\ rx[j].id \in Requests
            /\ \A k \in 1 .. Len(rx) : k # j => rx[k].id # rx[j].id
            /\ \A s \in Slots : ~OnItsWay(s, rx[j].id)
            /\ txFrame.id # rx[j].id /\ answers[rx[j].id] = 0
        BY <1>1, <2>6, <3>1 DEF RequestIsInOnePlace
      <4>2. rx'[j].id \in 1 .. sent'
        BY <1>2, <2>1, <3>1, <4>1
      <4>3. \A k \in 1 .. Len(rx') : k # j => rx'[k].id # rx'[j].id
        BY <2>2, <2>5, <2>6, <3>1, <4>1
      <4>4. \A s \in Slots : ~OnItsWay(s, rx[j].id)'
        BY <2>1, <3>1, <4>1 DEF OnItsWay
      <4>. QED
        BY <2>1, <3>1, <4>1, <4>2, <4>3, <4>4
    <3>2. CASE j = Len(rx) + 1 /\ rx'[j] = r
      <4>1. rx'[j].id = sent + 1 /\ rx'[j].state = "Idle" /\ sent + 1 \in 1 .. sent'
        BY <1>2, <2>1, <2>2, <3>2
      <4>2. \A k \in 1 .. Len(rx') : k # j => rx'[k].id # rx'[j].id
        BY <2>5, <2>6, <3>2, <4>1
      <4>3. \A s \in Slots : ~OnItsWay(s, rx[j].id)'
        BY <2>1, <2>6, <4>1 DEF OnItsWay
      <4>4. txFrame'.id # rx'[j].id /\ answers'[rx'[j].id] = 0
        BY <2>1, <2>6, <4>1
      <4>. QED
        BY <4>1, <4>2, <4>3, <4>4
    <3>. QED
      BY <2>5, <3>1, <3>2
  <2>9. (\A i \in Requests : \A s \in Slots : OnItsWay(s, i) =>
          /\ \A t \in Slots : t # s => ~OnItsWay(t, i)
          /\ i <= sent /\ txFrame.id # i /\ answers[i] = 0)'
    BY <1>1, <1>2, <2>1, <2>4 DEF RequestIsInOnePlace, Requests
  <2>10. (/\ txFrame.id \in Requests => txFrame.id <= sent
                               /\ (~txCompleted => answers[txFrame.id] = 0)
          /\ \A i \in Requests : i > sent => answers[i] = 0
          /\ txFrame.id \in 0 .. MaxRequests)'
    BY <1>1, <1>2, <2>1 DEF RequestIsInOnePlace, Requests
  <2>. QED
    BY <2>7, <2>8, <2>9, <2>10 DEF RequestIsInOnePlace
<1>5. CASE HostReads
  <2>1. /\ UNCHANGED <<queue, txFrame, rx, sent>> /\ ~txCompleted /\ txCompleted'
        /\ answers' = IF txFrame.id \in Requests
                        THEN [answers EXCEPT ![txFrame.id] = @ + 1] ELSE answers
    BY <1>1, <1>5 DEF HostReads, FrameRead, DriverOwnsTheFrame
  <2>2. \A s \in Slots, i \in Requests : OnItsWay(s, i)' <=> OnItsWay(s, i)
    BY <2>1 DEF OnItsWay
  <2>3. /\ txFrame.id \in Requests => answers[txFrame.id] = 0 /\ txFrame.id <= sent
        /\ \A i \in Requests : /\ i # txFrame.id => answers'[i] = answers[i]
                               /\ i = txFrame.id => answers'[i] = 1
    BY <1>1, <1>2, <2>1 DEF RequestIsInOnePlace
  <2>4. AtMostOneAnswer'
    BY <1>1, <2>3 DEF AtMostOneAnswer
  <2>5. \A j \in 1 .. Len(rx) : rx[j].id \in Requests
    BY <1>1, <1>2 DEF RequestIsInOnePlace, Requests
  <2>. QED
    <3>1. (\A j \in 1 .. Len(rx) :
            /\ rx[j].id \in 1 .. sent /\ rx[j].state = "Idle"
            /\ \A k \in 1 .. Len(rx) : k # j => rx[k].id # rx[j].id
            /\ \A s \in Slots : ~OnItsWay(s, rx[j].id)
            /\ txFrame.id # rx[j].id /\ answers[rx[j].id] = 0)'
      BY <1>1, <2>1, <2>2, <2>3, <2>5 DEF RequestIsInOnePlace
    <3>2. (\A i \in Requests : \A s \in Slots : OnItsWay(s, i) =>
            /\ \A t \in Slots : t # s => ~OnItsWay(t, i)
            /\ i <= sent /\ txFrame.id # i /\ answers[i] = 0)'
      BY <1>1, <2>1, <2>2, <2>3 DEF RequestIsInOnePlace
    <3>3. (\A i \in Requests : i > sent => answers[i] = 0)'
      BY <1>1, <1>2, <2>1, <2>3 DEF RequestIsInOnePlace, Requests
    <3>4. (/\ txFrame.id \in Requests => txFrame.id <= sent
                                  /\ (~txCompleted => answers[txFrame.id] = 0)
           /\ txFrame.id \in 0 .. MaxRequests)'
      BY <1>1, <2>1 DEF RequestIsInOnePlace
    <3>. QED
      BY <2>4, <3>1, <3>2, <3>3, <3>4 DEF RequestIsInOnePlace
<1>6. CASE SendResponse /\ txFrame' = ResponseFrame(Current.id)
  <2>0. PICK t, n : t = turn /\ n = queue.slots[turn].id
    OBVIOUS
  <2>1. /\ ~PacketPass
        /\ UNCHANGED <<rx, sent, answers, txCompleted>>
        /\ txFrame'.id = n
        /\ turn < Capacity /\ IsRouted(queue.slots[turn])
    BY <1>6, <2>0 DEF SendResponse, Dispatching, Current, PacketPass, QueueBytes,
       ResponseFrame
  <2>2. t \in Slots /\ n \in 0 .. MaxRequests
    BY <1>1, <1>2, <2>0, <2>1 DEF TypeOK, Slots, Request
  <2>3. n \in Requests => OnItsWay(t, n)
    BY <2>0, <2>1 DEF OnItsWay
  <2>4. CASE n \notin Requests
    <3>1. n = 0
      BY <2>2, <2>4 DEF Requests
    <3>2. \A s \in Slots, i \in Requests : OnItsWay(s, i)' => OnItsWay(s, i)
      BY <1>1, <2>1, NoneSetsOut
    <3>. QED
      BY <1>3, <2>1, <3>1, <3>2 DEF Discarding
  <2>5. CASE n \in Requests /\ txFrame = ResponseFrame(n)
    <3>1. txFrame.id = n
      BY <2>5 DEF ResponseFrame
    <3>. QED
      BY <1>1, <2>2, <2>3, <2>5, <3>1 DEF RequestIsInOnePlace
  <2>6. CASE n \in Requests /\ txFrame # ResponseFrame(n)
    <3>1. queue' = Complete(queue, turn, "Usb") /\ queue.slots[turn].state = "Outgoing"
      BY <1>6, <2>0, <2>6 DEF SendResponse, Current
    <3>2. ~OnItsWay(t, n)'
      <4>1. Completed(queue.slots[turn], "Usb").state = "Done"
        BY <1>1, <1>2, <2>0, <2>2, <3>1 DEF AnswersAreAsked, Completed, Request
      <4>2. Consistent(queue)
        BY <1>1 DEF TypeOK, RouterType, SlotsAreCounted, Consistent, Queues, Used
      <4>3. queue'.slots[t] = Completed(queue.slots[t], "Usb")
        <5>1. "Usb" \in Services
          BY DEF Services
        <5>2. queue'.slots = [queue.slots EXCEPT ![t] = Completed(queue.slots[t], "Usb")]
          BY <2>0, <2>1, <2>2, <3>1, <4>2, <5>1, CompleteKeepsCount
        <5>. QED
          BY <1>2, <2>2, <5>2
      <4>4. Completed(queue.slots[t], "Usb").state = "Done"
        BY <2>0, <4>1
      <4>5. queue'.slots[t].state = "Done"
        BY <4>3, <4>4
      <4>. QED
        BY <4>5 DEF OnItsWay, IsRouted
    <3>3. \A s \in Slots, i \in Requests : OnItsWay(s, i)' => OnItsWay(s, i)
      BY <1>1, <2>1, NoneSetsOut
    <3>4. /\ n <= sent /\ answers[n] = 0
          /\ \A s \in Slots : s # t => ~OnItsWay(s, n)
      BY <1>1, <2>2, <2>3, <2>6 DEF RequestIsInOnePlace
    <3>5. (\A j \in 1 .. Len(rx) :
            /\ rx[j].id \in 1 .. sent /\ rx[j].state = "Idle"
            /\ \A k \in 1 .. Len(rx) : k # j => rx[k].id # rx[j].id
            /\ \A s \in Slots : ~OnItsWay(s, rx[j].id)
            /\ txFrame.id # rx[j].id /\ answers[rx[j].id] = 0)'
      <4>1. \A j \in 1 .. Len(rx) : rx[j].id \in Requests /\ rx[j].id # n
        BY <1>1, <1>2, <2>2, <2>3, <2>6 DEF RequestIsInOnePlace, Requests
      <4>. QED
        BY <1>1, <2>1, <3>3, <4>1 DEF RequestIsInOnePlace
    <3>6. (\A i \in Requests : \A s \in Slots : OnItsWay(s, i) =>
            /\ \A u \in Slots : u # s => ~OnItsWay(u, i)
            /\ i <= sent /\ txFrame.id # i /\ answers[i] = 0)'
      BY <1>1, <2>1, <3>2, <3>3, <3>4 DEF RequestIsInOnePlace
    <3>. QED
      BY <1>1, <2>1, <2>2, <2>6, <3>4, <3>5, <3>6 DEF RequestIsInOnePlace, AtMostOneAnswer
  <2>. QED
    BY <2>4, <2>5, <2>6
<1>7. CASE PacketPass
  <2>1. UNCHANGED <<sent, answers, txFrame, txCompleted>>
    BY <1>7 DEF PacketPass, TakeRequest, ReceiveNothing
  <2>2. CASE UNCHANGED queue /\ rx' \in {rx, <<>>}
    <3>1. \A s \in Slots, i \in Requests : OnItsWay(s, i)' => OnItsWay(s, i)
      BY <2>2 DEF OnItsWay
    <3>. QED
      BY <1>3, <2>1, <2>2, <3>1 DEF Discarding
  <2>3. CASE HasRequest /\ rx' = Tail(rx)
    <3>. DEFINE r == rx[1]
    <3>1. /\ r \in Request /\ Head(rx) = r /\ 1 \in 1 .. Len(rx)
          /\ Len(rx') = Len(rx) - 1
          /\ \A j \in 1 .. Len(rx) - 1 : rx'[j] = rx[j + 1]
      BY <1>2, <2>3, HeadOfRing DEF HasRequest
    <3>2. /\ r.id \in 1 .. sent /\ r.id \in Requests /\ r.state = "Idle"
          /\ \A k \in 1 .. Len(rx) : k # 1 => rx[k].id # r.id
          /\ \A s \in Slots : ~OnItsWay(s, r.id)
          /\ txFrame.id # r.id /\ answers[r.id] = 0
      BY <1>1, <1>2, <3>1 DEF RequestIsInOnePlace, Requests
    <3>3. PICK t, n : n = r.id /\ \A s \in Slots, i \in Requests :
            OnItsWay(s, i)' => OnItsWay(s, i) \/ (s = t /\ i = n)
      <4>1. CASE UNCHANGED queue
        BY <4>1 DEF OnItsWay
      <4>2. CASE \E i \in Slots :
                   queue'.slots = [queue.slots EXCEPT ![i] = Accepted(Gated(Head(rx)))]
        <5>1. PICK i \in Slots :
                queue'.slots = [queue.slots EXCEPT ![i] = Accepted(Gated(r))]
          BY <3>1, <4>2
        <5>2. \A s \in Slots : queue'.slots[s] = IF s = i THEN Accepted(Gated(r))
                                                ELSE queue.slots[s]
          BY <1>2, <5>1
        <5>3. Accepted(Gated(r)).id = r.id
          BY <3>1, <3>2, HostRequestInSlot
        <5>. HIDE DEF r
        <5>4. ASSUME NEW s \in Slots, NEW k \in Requests, OnItsWay(s, k)'
              PROVE  OnItsWay(s, k) \/ (s = i /\ k = r.id)
          BY <5>2, <5>3, <5>4 DEF OnItsWay
        <5>. QED
          BY <5>4
      <4>. QED
        BY <1>1, <1>7, <4>1, <4>2, PacketSlot
    <3>4. \A j \in 1 .. Len(rx') : j + 1 \in 1 .. Len(rx) /\ rx'[j] = rx[j + 1]
      BY <1>2, <3>1
    <3>5. (\A j \in 1 .. Len(rx) :
            /\ rx[j].id \in 1 .. sent /\ rx[j].state = "Idle"
            /\ \A k \in 1 .. Len(rx) : k # j => rx[k].id # rx[j].id
            /\ \A s \in Slots : ~OnItsWay(s, rx[j].id)
            /\ txFrame.id # rx[j].id /\ answers[rx[j].id] = 0)'
      <4>. SUFFICES ASSUME NEW j \in 1 .. Len(rx')
                    PROVE  /\ rx'[j].id \in 1 .. sent' /\ rx'[j].state = "Idle"
                           /\ \A k \in 1 .. Len(rx') : k # j => rx'[k].id # rx'[j].id
                           /\ \A s \in Slots : ~OnItsWay(s, rx[j].id)'
                           /\ txFrame'.id # rx'[j].id /\ answers'[rx'[j].id] = 0
        OBVIOUS
      <4>1. /\ j + 1 \in 1 .. Len(rx) /\ rx'[j] = rx[j + 1] /\ j + 1 # 1
        BY <3>4
      <4>2. /\ rx[j + 1].id \in 1 .. sent /\ rx[j + 1].state = "Idle"
            /\ \A k \in 1 .. Len(rx) : k # j + 1 => rx[k].id # rx[j + 1].id
            /\ \A s \in Slots : ~OnItsWay(s, rx[j + 1].id)
            /\ txFrame.id # rx[j + 1].id /\ answers[rx[j + 1].id] = 0
        BY <1>1, <4>1 DEF RequestIsInOnePlace
      <4>3. rx[j + 1].id # n /\ rx[j + 1].id \in Requests
        BY <1>2, <3>2, <3>3, <4>1, <4>2 DEF Requests
      <4>4. \A k \in 1 .. Len(rx') : k # j => rx'[k].id # rx'[j].id
        <5>. SUFFICES ASSUME NEW k \in 1 .. Len(rx'), k # j
                      PROVE  rx'[k].id # rx'[j].id
          OBVIOUS
        <5>1. k + 1 \in 1 .. Len(rx) /\ rx'[k] = rx[k + 1]
          BY <3>4
        <5>2. k + 1 # j + 1
          OBVIOUS
        <5>3. rx[k + 1].id # rx[j + 1].id
          BY <4>2, <5>1, <5>2
        <5>. QED
          BY <4>1, <5>1, <5>3
      <4>. QED
        BY <2>1, <3>3, <4>1, <4>2, <4>3, <4>4
    <3>6. (\A i \in Requests : \A s \in Slots : OnItsWay(s, i) =>
            /\ \A k \in Slots : k # s => ~OnItsWay(k, i)
            /\ i <= sent /\ txFrame.id # i /\ answers[i] = 0)'
      BY <1>1, <1>2, <2>1, <3>2, <3>3 DEF RequestIsInOnePlace
    <3>. QED
      BY <1>1, <2>1, <3>5, <3>6 DEF RequestIsInOnePlace, AtMostOneAnswer
  <2>. QED
    BY <1>1, <1>7, <2>2, <2>3, PacketSlot
<1>. QED
  <2>1. ~PacketPass => \A s \in Slots, i \in Requests : OnItsWay(s, i)' => OnItsWay(s, i)
    BY <1>1, NoneSetsOut
  <2>. QED
    BY <1>1, <1>3, <1>4, <1>5, <1>6, <1>7, <2>1, OthersDiscard

\* Before the host sends anything, no request is anywhere.
LEMMA PlaceInitial ==
  Init => PlaceInv
<1>. SUFFICES ASSUME Init PROVE PlaceInv
  OBVIOUS
<1>1. /\ \A s \in Slots : queue.slots[s] = Empty
      /\ Empty.state = "Idle" /\ ~Empty.answer
  BY DEF Init, RouterInit, EmptyQueue, Empty
<1>2. Len(rx) = 0 /\ txFrame.id = 0 /\ sent = 0
  BY EmptySeq DEF Init, LinkInit, NoFrame
<1>3. \A i \in Requests : answers[i] = 0
  BY DEF Init
<1>4. RequestIsInOnePlace
  BY <1>1, <1>2, <1>3 DEF RequestIsInOnePlace, OnItsWay, IsRouted, Requests
<1>. QED
  BY <1>1, <1>3, <1>4 DEF PlaceInv, AnswersAreAsked, AtMostOneAnswer

\* The place of a request is inductive on top of the link.
LEMMA PlaceInvariant == Spec => [](LinkInv /\ PlaceInv)
<1>1. LinkInv /\ PlaceInv /\ [Next]_vars => LinkInv' /\ PlaceInv'
  <2>1. LinkInv /\ PlaceInv /\ [Next]_vars => AnswersAreAsked'
    BY AnswersStep DEF LinkInv, PlaceInv
  <2>. QED
    BY <2>1, LinkInductive, PlaceStep DEF PlaceInv
<1>. QED
  BY <1>1, LinkInitial, PlaceInitial, PTL DEF Spec

\* No request is answered twice: not over a response that is sent again after a
\* failure, a slot that is used again, or a reset between request and response.
THEOREM AnswersTheorem == Spec => []AtMostOneAnswer
<1>1. PlaceInv => AtMostOneAnswer
  BY DEF PlaceInv
<1>. QED
  BY <1>1, PlaceInvariant, PTL

-----------------------------------------------------------------------------
(* The verdict of a run and its data.                                       *)

\* The steps of finishRun that queue a verdict.
EndsRun == /\ launchActive /\ ~launchActive'
           /\ SafetyPass \/ LaunchPass \/ ServeStop

\* Nothing but the end of a run puts a verdict into a slot: neither another
\* notification, nor a request of the host, nor a completed one.
LEMMA VerdictIsQueued ==
  ASSUME LinkInv, PlaceInv, [Next]_vars, NEW s \in Slots,
         queue'.slots[s] = RunStatus
  PROVE  queue.slots[s] = RunStatus \/ EndsRun
<1>1. TypeOK /\ SlotsAreCounted /\ RequestIsInOnePlace /\ AnswersAreAsked
  BY DEF LinkInv, PlaceInv
<1>2. Consistent(queue) /\ queue.slots \in [Slots -> Request]
  BY <1>1 DEF TypeOK, RouterType, SlotsAreCounted, Consistent, Queues, Used
<1>3. /\ RunStatus.state = "Outgoing" /\ RunStatus.id = 0
      /\ Empty # RunStatus /\ FaultReport # RunStatus /\ EdgeReport # RunStatus
  BY DEF RunStatus, FaultReport, EdgeReport, Notification, Empty
<1>4. \A i \in Slots, by \in Services : Completed(queue.slots[i], by) # RunStatus
  <2>. SUFFICES ASSUME NEW i \in Slots, NEW by \in Services
                PROVE  Completed(queue.slots[i], by) # RunStatus
    OBVIOUS
  <2>1. queue.slots[i] \in Request /\ (queue.slots[i].answer => queue.slots[i].id # 0)
    BY <1>1, <1>2 DEF AnswersAreAsked
  <2>2. \/ Completed(queue.slots[i], by).state = "Done"
        \/ /\ queue.slots[i].answer
           /\ Completed(queue.slots[i], by).id = queue.slots[i].id
    BY <2>1 DEF Completed, Request
  <2>. QED
    BY <1>3, <2>1, <2>2
<1>5. CASE PacketPass
  <2>1. CASE UNCHANGED queue
    BY <2>1
  <2>2. CASE /\ HasRequest
             /\ \E i \in Slots :
                  queue'.slots = [queue.slots EXCEPT ![i] = Accepted(Gated(Head(rx)))]
    <3>1. Head(rx) \in Request /\ Head(rx) = rx[1] /\ Len(rx) > 0 /\ Len(rx) \in Nat
      BY <1>1, <2>2, HeadOfRing, LenProperties DEF HasRequest, TypeOK
    <3>2. Head(rx).state = "Idle" /\ Head(rx).id # 0
      BY <1>1, <3>1 DEF RequestIsInOnePlace, TypeOK
    <3>3. queue'.slots[s] \in {queue.slots[s], Accepted(Gated(Head(rx)))}
      BY <1>2, <2>2
    <3>4. Accepted(Gated(Head(rx))) # RunStatus
      BY <1>3, <3>1, <3>2, HostRequestInSlot
    <3>. QED
      BY <3>3, <3>4
  <2>. QED
    BY <1>1, <1>5, <2>1, <2>2, PacketSlot
<1>6. CASE ~PacketPass /\ EndsRun
  BY <1>6
<1>7. CASE ~PacketPass /\ ~EndsRun
  <2>1. SlotStep(s)
    BY <1>1, <1>7, SlotSteps
  <2>2. ASSUME queue.slots[s].state = "Idle", queue'.slots[s] = RunStatus
        PROVE  FALSE
    <3>1. \/ UNCHANGED queue
          \/ LoseHost \/ ClearPass \/ SystemReset
          \/ queue' = QueueRequest(queue, EdgeReport)
          \/ queue' = QueueRequest(queue, FaultReport)
          \/ /\ pc = "dispatch" /\ turn < Capacity /\ IsRouted(queue.slots[turn])
             /\ \E by \in {"Coil", "Sensor", "Safety", "Launch", "Usb"} :
                  queue' = Complete(queue, turn, by)
      <4>1. CASE SafetyPass
        BY <1>7, <4>1 DEF SafetyPass, EndsRun, EndRun, SetLaunchActive, FaultReport
      <4>2. CASE LaunchPass
        BY <1>7, <4>2 DEF LaunchPass, EndsRun, EndRun, SetLaunchActive
      <4>3. CASE ServeStop
        BY <1>7, <4>3 DEF ServeStop, EndsRun, SetLaunchActive, Dispatching, Current
      <4>4. CASE ServeDevice \/ ServeStart \/ ServeDebug \/ ServeOther \/ SendResponse
        BY <4>4 DEF ServeDevice, ServeStart, ServeDebug, ServeOther, SendResponse,
                    Dispatching, Current
      <4>. QED
        BY <1>7, <4>1, <4>2, <4>3, <4>4
           DEF Next, Interrupt, Foreground, HostSends, HostReads, Attach, Cable,
               SensorEdge, TransportPass, CapacityCheck, SkipSlot, EndDispatch,
               FramePass, EdgeReport
    <3>2. CASE UNCHANGED queue
      BY <1>3, <2>2, <3>2
    <3>3. CASE LoseHost \/ ClearPass \/ SystemReset
      <4>1. queue'.slots[s] \in {queue.slots[s], Empty}
        <5>1. CASE LoseHost
          BY <1>2, <5>1, DiscardingEmpties DEF LoseHost
        <5>2. CASE ClearPass
          BY <1>2, <5>2, ClearingEmpties DEF ClearPass
        <5>3. CASE SystemReset
          BY <5>3 DEF SystemReset, EmptyQueue
        <5>. QED
          BY <3>3, <5>1, <5>2, <5>3
      <4>. QED
        BY <1>3, <2>2, <4>1
    <3>4. CASE \E n \in {EdgeReport, FaultReport} : queue' = QueueRequest(queue, n)
      <4>1. queue'.slots[s] \in {queue.slots[s], EdgeReport, FaultReport}
        BY <1>2, <3>4, NotificationTakesFree
      <4>. QED
        BY <1>3, <2>2, <4>1
    <3>5. CASE /\ pc = "dispatch" /\ turn < Capacity /\ IsRouted(queue.slots[turn])
               /\ \E by \in {"Coil", "Sensor", "Safety", "Launch", "Usb"} :
                    queue' = Complete(queue, turn, by)
      <4>1. PICK by \in Services : queue' = Complete(queue, turn, by)
        BY <3>5 DEF Services
      <4>2. turn \in Slots
        BY <1>1, <3>5 DEF TypeOK, Slots
      <4>3. queue'.slots = [queue.slots EXCEPT ![turn] = Completed(queue.slots[turn], by)]
        BY <1>2, <3>5, <4>1, <4>2, CompleteKeepsCount
      <4>4. s # turn
        BY <2>2, <3>5 DEF IsRouted
      <4>5. queue'.slots[s] = queue.slots[s]
        BY <1>2, <4>3, <4>4
      <4>. QED
        BY <1>3, <2>2, <4>5
    <3>. QED
      BY <3>1, <3>2, <3>3, <3>4, <3>5
  <2>. QED
    BY <1>3, <1>4, <2>1, <2>2 DEF SlotStep
<1>. QED
  BY <1>5, <1>6, <1>7

\* A run that ends finds no launch data in the transmit buffer, and its own data
\* waits.
LEMMA RunEnds ==
  ASSUME LinkInv, EndsRun
  PROVE  /\ txFrame'.kind \notin {"data", "final"}
         /\ transfer' = "Sending" => defer'
<1>1. UNCHANGED txFrame /\ (transfer' = "Sending" => defer')
  <2>1. CASE SafetyPass
    BY <2>1 DEF EndsRun, SafetyPass, EndRun, StartTransfer, CancelTransfer, transportVars
  <2>2. CASE LaunchPass
    BY <2>2 DEF EndsRun, LaunchPass, EndRun, StartTransfer, CancelTransfer, transportVars
  <2>3. CASE ServeStop
    BY <2>3 DEF EndsRun, ServeStop, StartTransfer, CancelTransfer, transportVars
  <2>. QED
    BY <2>1, <2>2, <2>3 DEF EndsRun
<1>2. ~Doomed
  BY DEF LinkInv, ResultIsHandled, Doomed, EndsRun, SafetyPass, LaunchPass, ServeStop,
         Dispatching
<1>3. frameQueued = "no"
  BY DEF LinkInv, TransferExcludesRun, EndsRun
<1>. QED
  BY <1>1, <1>2, <1>3 DEF LinkInv, FrameIsOnItsWay

VerdictInv == VerdictIsDispatched /\ VerdictBeforeData

\* The verdict leaves the slots before the first frame of its data enters the
\* buffer, whatever step is taken.
LEMMA VerdictStep ==
  LinkInv /\ PlaceInv /\ VerdictInv /\ [Next]_vars => VerdictInv'
<1>. SUFFICES ASSUME LinkInv, PlaceInv, VerdictInv, [Next]_vars
              PROVE  VerdictIsDispatched' /\ VerdictBeforeData'
  BY DEF VerdictInv
<1>1. TypeOK /\ ResultIsHandled /\ TransferExcludesRun /\ DriverOwnsTheFrame
  BY DEF LinkInv
<1>2. CASE EndsRun
  BY <1>2, RunEnds DEF VerdictIsDispatched, VerdictBeforeData
<1>3. CASE ~EndsRun
  <2>1. \A s \in Slots : queue'.slots[s] = RunStatus => queue.slots[s] = RunStatus
    BY <1>3, VerdictIsQueued
  <2>2. VerdictBeforeData'
    <3>1. \/ UNCHANGED txFrame \/ txFrame'.kind \notin {"data", "final"}
          \/ FramePass /\ ~defer /\ transfer = "Sending" /\ CanQueueBytes
      <4>1. NoFrame.kind = "none" /\ \A i : ResponseFrame(i).kind = "response"
        BY DEF NoFrame, ResponseFrame
      <4>2. CASE TransportPass
        BY <4>1, <4>2 DEF TransportPass, ProcessConnectionEvents,
              ProcessTransmitCompletion, ProcessTransmit, HandleTransmitResult
      <4>3. CASE HostReads \/ Attach \/ Cable
        BY <4>3 DEF HostReads, FrameRead, Attach, Plug, Cable, Unplug, ReceiveFragment
      <4>4. CASE SystemReset
        BY <4>1, <4>4 DEF SystemReset
      <4>. QED
        BY <4>1, <4>2, <4>3, <4>4, OutsideTransport
    <3>2. CASE FramePass /\ ~defer /\ transfer = "Sending" /\ CanQueueBytes
      BY <2>1, <3>2 DEF FramePass, CanQueueBytes, VerdictInv, VerdictIsDispatched,
                        VerdictBeforeData
    <3>. QED
      BY <2>1, <3>1, <3>2 DEF VerdictInv, VerdictBeforeData
  <2>3. ASSUME transfer' = "Sending", ~defer', txState' = "Empty", NEW s \in Slots,
               \/ pc' = "dispatch" /\ s < turn'
               \/ pc' \in {"clear", "frame"},
               queue.slots[s] = RunStatus
        PROVE  FALSE
    <3>1. /\ RunStatus.state = "Outgoing" /\ RunStatus.dest = "Usb"
          /\ IsRouted(RunStatus)
      BY DEF RunStatus, Notification, Empty, IsRouted
    <3>2. s \in Nat /\ turn \in Nat
      BY <1>1 DEF TypeOK, Slots
    <3>3. UNCHANGED <<transfer, defer, txState>> =>
            ~(\/ pc = "dispatch" /\ s < turn
              \/ pc \in {"clear", "frame"})
      BY <2>3 DEF VerdictInv, VerdictIsDispatched
    <3>4. CASE LaunchPass
      BY <2>3, <3>2, <3>4 DEF LaunchPass
    <3>5. CASE SkipSlot
      <4>1. s < turn \/ s = turn
        BY <2>3, <3>2, <3>5 DEF SkipSlot, NextTurn
      <4>2. UNCHANGED <<transfer, defer, txState>> /\ pc = "dispatch"
        BY <3>5 DEF SkipSlot, linkVars, transportVars, transferVars
      <4>. QED
        BY <2>3, <3>1, <3>3, <3>5, <4>1, <4>2 DEF SkipSlot, Current
    <3>6. CASE ServeDevice \/ ServeStart \/ ServeStop \/ ServeDebug \/ ServeOther
      <4>1. pc = "dispatch" /\ turn' = turn + 1 /\ UNCHANGED pc
        BY <3>6 DEF ServeDevice, ServeStart, ServeStop, ServeDebug, ServeOther, NextTurn,
                    Dispatching
      <4>2. queue.slots[turn].dest # "Usb"
        BY <3>6 DEF ServeDevice, ServeStart, ServeStop, ServeDebug, ServeOther,
                    Dispatching, Current
      <4>3. UNCHANGED <<transfer, defer, txState>>
        BY <1>3, <3>6 DEF ServeDevice, ServeStart, ServeStop, ServeDebug, ServeOther,
              EndsRun, SetLaunchActive, linkVars, transportVars, transferVars
      <4>4. s < turn \/ s = turn
        BY <2>3, <3>2, <4>1
      <4>. QED
        BY <2>3, <3>1, <3>3, <4>1, <4>2, <4>3, <4>4
    <3>7. CASE SendResponse
      <4>1. pc = "dispatch" /\ turn' = turn + 1 /\ UNCHANGED pc
        BY <3>7 DEF SendResponse, NextTurn, Dispatching
      <4>2. s < turn \/ s = turn
        BY <2>3, <3>2, <4>1
      <4>3. UNCHANGED <<transfer, defer>>
        BY <3>7 DEF SendResponse, transferVars
      <4>4. CASE Current.state = "Outgoing" /\ CanQueueBytes
        BY <2>3, <3>7, <4>4 DEF SendResponse, QueueBytes
      <4>5. CASE ~(Current.state = "Outgoing" /\ CanQueueBytes)
        <5>1. UNCHANGED txState
          BY <3>7, <4>5 DEF SendResponse, transportVars
        <5>2. connected
          BY <1>1, <2>3, <4>1, <4>3 DEF ResultIsHandled, TransferExcludesRun, Doomed
        <5>. QED
          BY <2>3, <3>1, <3>3, <4>1, <4>2, <4>3, <4>5, <5>1, <5>2
             DEF Current, CanQueueBytes
      <4>. QED
        BY <4>4, <4>5
    <3>8. CASE EndDispatch
      BY <2>3, <3>3, <3>8 DEF EndDispatch, linkVars, transportVars, transferVars, Slots
    <3>9. CASE ClearPass
      BY <2>3, <3>3, <3>9 DEF ClearPass, linkVars, transportVars, transferVars
    <3>10. CASE Interrupt \/ UNCHANGED vars
      <4>1. UNCHANGED <<transfer, defer, txState, pc, turn>>
        BY <3>10 DEF Interrupt, HostSends, Receive, HostReads, FrameRead, Attach, Plug,
              Cable, Unplug, ReceiveFragment, SensorEdge, vars, linkVars, transportVars,
              transferVars
      <4>. QED
        BY <2>3, <3>3, <4>1
    <3>11. CASE \/ SafetyPass \/ TransportPass \/ CapacityCheck \/ PacketPass \/ LoseHost
                \/ FramePass \/ SystemReset
      BY <2>3, <3>11 DEF SafetyPass, TransportPass, CapacityCheck, PacketPass, LoseHost,
            FramePass, SystemReset, Goto
    <3>. QED
      BY <3>4, <3>5, <3>6, <3>7, <3>8, <3>9, <3>10, <3>11 DEF Next, Foreground
  <2>. QED
    BY <2>1, <2>2, <2>3 DEF VerdictIsDispatched
<1>. QED
  BY <1>2, <1>3

\* The host has the verdict of a run before it has any of its data: the deferred
\* frame (USBcontroller::_deferLaunchFrame) gives the verdict one whole dispatch.
THEOREM VerdictTheorem == Spec => []VerdictBeforeData
<1>1. Init => VerdictInv
  BY DEF Init, LinkInit, NoFrame, VerdictInv, VerdictIsDispatched, VerdictBeforeData
<1>2. VerdictInv => VerdictBeforeData
  BY DEF VerdictInv
<1>. QED
  BY <1>1, <1>2, PlaceInvariant, VerdictStep, PTL DEF Spec
=============================================================================

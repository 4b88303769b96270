------------------------------ MODULE HostLink ------------------------------
(***************************************************************************)
(* The path of a host request and of its answer: the USB link, the request  *)
(* router and one pass of the main loop that drives them, with the launch   *)
(* manager reduced to what it routes (the mode of the gates, the verdict    *)
(* and the transfer).  USB and sensor interrupts come between any two       *)
(* steps of the pass.                                                       *)
(***************************************************************************)
EXTENDS RequestRouter, UsbLink

CONSTANTS
  HostMessages, \* what the host may send: [dest, command, answer]
  MaxReports    \* bound: sensor edges and fault reports queued

ASSUME HostAssumption ==
  /\ HostMessages \subseteq [dest: Services, command: Commands, answer: BOOLEAN]
  /\ {"RunStatus", "ReportSensor", "ReportFault"} \subseteq Commands
  /\ MaxReports \in Nat

VARIABLES
  pc,        \* what the foreground executes next
  turn,      \* the slot dispatchToServices looks at
  \* history, read by no action
  sent,      \* requests the host has sent
  reports,   \* sensor edges and fault reports so far
  answers,   \* responses the host has received, per request
  frames     \* data frames of the current transfer the host has received

routerVars == <<queue, gateVars>>
hostVars == <<sent, reports, answers, frames>>
vars == <<routerVars, linkVars, pc, turn, hostVars>>

Requests == 1 .. MaxRequests
ControlPoints == {"report", "events", "completion", "transmit", "result",
                  "capacity", "packet", "launch", "dispatch", "clear", "frame",
                  "reset"}

TypeOK ==
  /\ RouterType /\ LinkType /\ rx \in Seq(Request)
  /\ pc \in ControlPoints /\ turn \in 0 .. Capacity
  /\ sent \in 0 .. MaxRequests /\ reports \in 0 .. MaxReports
  /\ answers \in [Requests -> Nat] /\ frames \in 0 .. Chunks

Init ==
  /\ RouterInit /\ LinkInit
  /\ pc = "report" /\ turn = 0
  /\ sent = 0 /\ reports = 0
  /\ answers = [i \in Requests |-> 0] /\ frames = 0

Goto(p) == pc' = p /\ UNCHANGED turn

-----------------------------------------------------------------------------
(* Interrupts.                                                              *)

HostSends ==
  /\ sent < MaxRequests
  /\ \E m \in HostMessages :
       Receive([Empty EXCEPT !.dest = m.dest, !.source = "Usb",
                             !.command = m.command, !.answer = m.answer,
                             !.asked = m.answer, !.id = sent + 1])
  /\ sent' = sent + 1
  /\ UNCHANGED <<routerVars, pc, turn, reports, answers, frames>>

HostReads ==
  /\ FrameRead
  /\ answers' = IF txFrame.id \in Requests
                  THEN [answers EXCEPT ![txFrame.id] = @ + 1] ELSE answers
  /\ frames' = CASE txFrame.kind = "data" -> frames + 1
                 [] txFrame.kind = "final" -> 0
                 [] OTHER -> frames
  /\ UNCHANGED <<routerVars, pc, turn, sent, reports>>

\* A host enumerates the device again in milliseconds, never inside the few
\* instructions of UsbTransport::process.
Attach ==
  /\ pc \notin {"completion", "transmit"}
  /\ Plug
  /\ UNCHANGED <<routerVars, pc, turn, hostVars>>

Cable ==
  /\ Unplug \/ ReceiveFragment
  /\ UNCHANGED <<routerVars, pc, turn, hostVars>>

\* handleSensorInterrupt queues its notification from the EXTI handler.
SensorEdge ==
  /\ reports < MaxReports
  /\ reports' = reports + 1
  /\ queue' = QueueRequest(queue, Notification("Sensor", "ReportSensor"))
  /\ UNCHANGED <<gateVars, linkVars, pc, turn, sent, answers, frames>>

-----------------------------------------------------------------------------
(* The pass.                                                                *)

RunStatus == Notification("Launch", "RunStatus")

\* finishRun with data: the verdict is queued, then the transfer starts.
EndRun(q) ==
  /\ SetLaunchActive(FALSE)
  /\ queue' = QueueRequest(q, RunStatus)
  /\ StartTransfer

\* The safety pass may queue a fault report (one that does not fit is queued in a
\* later pass), and then may end the run.
SafetyPass ==
  /\ pc = "report"
  /\ \E report \in {"none", "fault"} :
       LET q == IF report = "fault"
                  THEN QueueRequest(queue, Notification("Safety", "ReportFault"))
                  ELSE queue
       IN  /\ report = "fault" => reports < MaxReports /\ HasCapacity(queue)
           /\ reports' = IF report = "fault" THEN reports + 1 ELSE reports
           /\ \/ queue' = q /\ UNCHANGED <<sensorBlock, launchActive, transferVars>>
              \/ launchActive /\ EndRun(q)
  /\ Goto("events")
  /\ UNCHANGED <<debug, transportVars, receiveVars, commFailure, sent, answers,
                 frames>>

TransportPass ==
  /\ \/ pc = "events" /\ ProcessConnectionEvents /\ Goto("completion")
     \/ pc = "completion" /\ ProcessTransmitCompletion /\ Goto("transmit")
     \/ pc = "transmit" /\ ProcessTransmit /\ Goto("result")
     \/ pc = "result" /\ HandleTransmitResult /\ Goto("capacity")
  /\ UNCHANGED <<routerVars, hostVars>>

CapacityCheck ==
  /\ pc = "capacity"
  /\ Goto(IF HasCapacity(queue) THEN "packet" ELSE "launch")
  /\ UNCHANGED <<routerVars, linkVars, hostVars>>

\* queueHostRequest drops every request while communication is unhealthy, and a
\* request to no service or to the USB controller itself.
Admitted(r) == ~commFailure /\ r.dest \notin {"None", "Usb"}

PacketPass ==
  /\ pc = "packet"
  /\ \/ /\ TakeRequest
        /\ queue' = IF Admitted(Head(rx)) THEN QueueRequest(queue, Head(rx)) ELSE queue
     \/ ~HasRequest /\ ReceiveNothing /\ UNCHANGED queue
  /\ Goto("launch")
  /\ UNCHANGED <<gateVars, hostVars>>

\* Without a host, the requests that involve USB are discarded, the run ends with
\* neither verdict nor data, and the system resets.
LoseHost ==
  /\ pc = "launch" /\ commFailure
  /\ commFailure' = FALSE
  /\ queue' = DiscardInvolving(queue, "Usb")
  /\ IF launchActive
       THEN SetLaunchActive(FALSE) /\ CancelTransfer
       ELSE UNCHANGED <<sensorBlock, launchActive, transferVars>>
  /\ Goto("reset")
  /\ UNCHANGED <<debug, transportVars, receiveVars, hostVars>>

\* The run may end by its timer, its samples or an acquisition failure.
LaunchPass ==
  /\ pc = "launch" /\ ~commFailure
  /\ \/ UNCHANGED <<queue, sensorBlock, launchActive, transferVars>>
     \/ launchActive /\ EndRun(queue)
  /\ pc' = "dispatch" /\ turn' = 0
  /\ UNCHANGED <<debug, transportVars, receiveVars, commFailure, hostVars>>

Current == queue.slots[turn]
Dispatching(service) ==
  /\ pc = "dispatch" /\ turn < Capacity
  /\ IsRouted(Current) /\ Current.dest = service
NextTurn == turn' = turn + 1 /\ UNCHANGED pc

SkipSlot ==
  /\ pc = "dispatch" /\ turn < Capacity
  /\ ~IsRouted(Current)
  /\ NextTurn
  /\ UNCHANGED <<routerVars, linkVars, hostVars>>

\* The coil, sensor and safety services answer at once; UnlockSensor opens the
\* notification gate.
ServeDevice ==
  /\ \E service \in {"Coil", "Sensor", "Safety"} :
       /\ Dispatching(service)
       /\ queue' = Complete(queue, turn, service)
  /\ sensorBlock' = (sensorBlock /\ Current.command # "UnlockSensor")
  /\ NextTurn
  /\ UNCHANGED <<launchActive, debug, linkVars, hostVars>>

\* StartRun is refused while a run or a transfer is active.  A run that cannot start
\* its acquisition is undone by finishRun without a verdict: the sensor gate closes
\* again, even if UnlockSensor had opened it, and there is no transfer to cancel.
ServeStart ==
  /\ Dispatching("Launch") /\ Current.command = "StartRun"
  /\ IF ~launchActive /\ transfer = "Idle" /\ connected
       THEN \E started \in BOOLEAN : SetLaunchActive(started)
       ELSE UNCHANGED <<sensorBlock, launchActive>>
  /\ queue' = Complete(queue, turn, "Launch")
  /\ NextTurn
  /\ UNCHANGED <<debug, linkVars, hostVars>>

\* finishRun queues the verdict before the request itself is completed.
ServeStop ==
  /\ Dispatching("Launch") /\ Current.command \in {"StopRun", "AbortRun"}
  /\ IF launchActive
       THEN /\ SetLaunchActive(FALSE)
            /\ queue' = Complete(QueueRequest(queue, RunStatus), turn, "Launch")
            /\ IF Current.command = "StopRun" THEN StartTransfer ELSE CancelTransfer
       ELSE /\ queue' = Complete(queue, turn, "Launch")
            /\ UNCHANGED <<sensorBlock, launchActive, transferVars>>
  /\ NextTurn
  /\ UNCHANGED <<debug, transportVars, receiveVars, commFailure, hostVars>>

ServeDebug ==
  /\ Dispatching("Launch") /\ Current.command \in {"DebugOn", "DebugOff"}
  /\ debug' = (Current.command = "DebugOn")
  /\ queue' = Complete(queue, turn, "Launch")
  /\ NextTurn
  /\ UNCHANGED <<sensorBlock, launchActive, linkVars, hostVars>>

\* SetSamplingRate, and every command that is not the host's to give, is answered
\* at once.
ServeOther ==
  /\ Dispatching("Launch")
  /\ Current.command \notin {"StartRun", "StopRun", "AbortRun", "DebugOn", "DebugOff"}
  /\ queue' = Complete(queue, turn, "Launch")
  /\ NextTurn
  /\ UNCHANGED <<gateVars, linkVars, hostVars>>

\* A response leaves when the transmit buffer is free; otherwise it keeps its slot.
SendResponse ==
  /\ Dispatching("Usb")
  /\ IF Current.state = "Outgoing" /\ CanQueueBytes
       THEN /\ QueueBytes(ResponseFrame(Current.id))
            /\ queue' = Complete(queue, turn, "Usb")
       ELSE UNCHANGED <<transportVars, queue>>
  /\ NextTurn
  /\ UNCHANGED <<gateVars, receiveVars, transferVars, commFailure, hostVars>>

EndDispatch ==
  /\ pc = "dispatch" /\ turn = Capacity
  /\ Goto("clear")
  /\ UNCHANGED <<routerVars, linkVars, hostVars>>

ClearPass ==
  /\ pc = "clear"
  /\ queue' = ClearCompleted(queue)
  /\ Goto("frame")
  /\ UNCHANGED <<gateVars, linkVars, hostVars>>

FramePass ==
  /\ pc = "frame"
  /\ ProcessTransfer
  /\ Goto("report")
  /\ UNCHANGED <<routerVars, hostVars>>

\* NVIC_SystemReset: the firmware and its USB peripheral start over.
SystemReset ==
  /\ pc = "reset"
  /\ queue' = EmptyQueue
  /\ sensorBlock' = TRUE /\ launchActive' = FALSE /\ debug' = FALSE
  /\ cdc' = "detached" /\ connected' = FALSE /\ events' = {}
  /\ txState' = "Empty" /\ txFrame' = NoFrame /\ txCompleted' = FALSE
  /\ txResult' = "None"
  /\ ClearReceived /\ CancelTransfer /\ commFailure' = FALSE
  /\ frames' = 0
  /\ pc' = "report" /\ turn' = 0
  /\ UNCHANGED <<sent, reports, answers>>

-----------------------------------------------------------------------------
Interrupt == HostSends \/ HostReads \/ Attach \/ Cable \/ SensorEdge

Foreground ==
  \/ SafetyPass \/ TransportPass \/ CapacityCheck \/ PacketPass
  \/ LoseHost \/ LaunchPass
  \/ SkipSlot \/ ServeDevice \/ ServeStart \/ ServeStop \/ ServeDebug
  \/ ServeOther \/ SendResponse \/ EndDispatch \/ ClearPass \/ FramePass \/ SystemReset

Next == Interrupt \/ Foreground

Spec == Init /\ [][Next]_vars

\* The main loop never blocks, and a host that is attached reads what it is sent.
FairSpec == Spec /\ WF_vars(Foreground) /\ WF_vars(HostReads) /\ WF_vars(Attach)

-----------------------------------------------------------------------------
(* Properties.                                                              *)

\* The slot counter that gates the host equals the slots in use, also between
\* the steps of a pass and under an interrupt that queues.
SlotsAreCounted ==
  queue.count = Cardinality({i \in Slots : queue.slots[i].state # "Idle"})

\* The class driver borrows the transmit buffer in place: while it does, the
\* buffer still holds the frame it was given, and no other is submitted.
BufferIsBorrowedOnce == cdc = "busy" => txState \in {"InFlight", "TimedOut"}

\* One answer per request, over resends, resets and the reuse of slots.
AtMostOneAnswer == \A i \in Requests : answers[i] <= 1

\* The frame on the wire is the next one the host expects: no launch chunk is
\* skipped, repeated or sent after the final frame.
FramesAreInOrder ==
  /\ txFrame.kind = "data" /\ ~txCompleted => txFrame.chunk = frames
  /\ txFrame.kind = "final" /\ ~txCompleted => frames = Chunks

\* No launch data is queued for transmission before the verdict of its run has
\* left (USBcontroller::_deferLaunchFrame).
VerdictBeforeData ==
  txFrame.kind \in {"data", "final"} =>
    \A i \in Slots : queue.slots[i] # RunStatus

\* Every request in a slot that asked for an answer is answered.
Waiting(i) == \E s \in Slots : queue.slots[s].id = i /\ queue.slots[s].asked
AnswerArrives == \A i \in Requests : Waiting(i) ~> answers[i] > 0

\* A transfer ends.
TransferEnds == transfer = "Sending" ~> transfer = "Idle"

-----------------------------------------------------------------------------
(* Strengthenings, from which the proofs derive the invariants above.       *)

\* A busy class driver owns the frame in flight, of a connection of which no
\* event is pending; a completion is that of a frame in flight.
DriverOwnsTheFrame ==
  /\ cdc = "busy" => /\ txState \in {"InFlight", "TimedOut"}
                     /\ events = {} /\ ~txCompleted
  /\ txCompleted => txState \in {"InFlight", "TimedOut"}
  /\ pc \in {"completion", "transmit"} /\ cdc = "idle" => events = {}

\* The pass hands a result of the transmitter on before it uses the buffer again,
\* and a communication failure leads to a reset.
Fault == txResult \in {"Failed", "TimedOut", "Disconnected"}
Doomed == Fault \/ commFailure \/ pc = "reset"
ResultIsHandled ==
  /\ Fault => /\ pc \in {"completion", "transmit", "result"}
              /\ pc # "result" => txState = "Empty"
  /\ commFailure => pc \in {"capacity", "packet", "launch"}
  /\ txResult = "Complete" => pc \in {"transmit", "result"} /\ txState = "Empty"
  /\ txState = "TimedOut" => Doomed
  /\ txState = "Empty" => txFrame = NoFrame

\* A run and a transfer exclude each other, and an idle transfer has no progress.
TransferExcludesRun ==
  /\ launchActive => transfer = "Idle"
  /\ transfer = "Idle" => chunk = 0 /\ frameQueued = "no" /\ ~defer
  /\ transfer = "Sending" /\ ~Doomed => connected

\* The host has received the chunks that the transfer has committed, and the one
\* in the buffer once it has read it.
FrameIsOnItsWay ==
  /\ txFrame.kind = "data" => txFrame.chunk < Chunks
  /\ frameQueued \in {"no", NextFrame.kind}
  /\ ~Doomed =>
       IF frameQueued = "no"
         THEN txFrame.kind \notin {"data", "final"} /\ frames = chunk
       ELSE IF txCompleted \/ txResult = "Complete"
         THEN frames = IF frameQueued = "data" THEN chunk + 1 ELSE 0
       ELSE /\ txState \in {"Ready", "InFlight"}
            /\ txFrame = NextFrame /\ frames = chunk

\* A request of the host is in at most one place: the receive ring, a slot in
\* which it is on its way, the transmit buffer, or answered.
OnItsWay(s, i) == IsRouted(queue.slots[s]) /\ queue.slots[s].id = i
RequestIsInOnePlace ==
  /\ \A j \in 1 .. Len(rx) :
       /\ rx[j].id \in 1 .. sent /\ rx[j].state = "Idle"
       /\ \A k \in 1 .. Len(rx) : k # j => rx[k].id # rx[j].id
       /\ \A s \in Slots : ~OnItsWay(s, rx[j].id)
       /\ txFrame.id # rx[j].id /\ answers[rx[j].id] = 0
  /\ \A i \in Requests : \A s \in Slots : OnItsWay(s, i) =>
       /\ \A t \in Slots : t # s => ~OnItsWay(t, i)
       /\ i <= sent /\ txFrame.id # i /\ answers[i] = 0
  /\ txFrame.id \in Requests => txFrame.id <= sent
                               /\ (~txCompleted => answers[txFrame.id] = 0)
  /\ \A i \in Requests : i > sent => answers[i] = 0
  /\ txFrame.id \in 0 .. MaxRequests

\* Only a request of the host waits for an answer, and no response does.
AnswersAreAsked ==
  \A s \in Slots : queue.slots[s].answer => /\ queue.slots[s].id # 0
                                            /\ queue.slots[s].state # "Outgoing"

\* Once the buffer is free and the first frame no longer deferred, the slots that
\* were dispatched hold no verdict.
VerdictIsDispatched ==
  transfer = "Sending" /\ ~defer /\ txState = "Empty" =>
    \A s \in Slots : \/ pc = "dispatch" /\ s < turn
                     \/ pc \in {"clear", "frame"}
                     => queue.slots[s] # RunStatus
=============================================================================

----------------------------- MODULE HostClient -----------------------------
(***************************************************************************)
(* A session of the host library (CompetitionBoard): the program's thread,  *)
(* which makes one call at a time, and the receiver thread, which takes     *)
(* packets off the port.  They share the pending request, the state of the  *)
(* launch and the reassembly of its data; only part of it under the lock.   *)
(***************************************************************************)
EXTENDS BoardService

CONSTANTS
  UserCalls, \* what the program calls, besides close()
  MaxStarts, \* bound: calls of startLaunch
  None       \* no value

ASSUME ClientAssumption ==
  /\ UserCalls \subseteq {"Start", "Stop", "Abort", "Drive", "Wait"}
  /\ MaxStarts \in Nat /\ 0 .. MaxStarts \subseteq RunIds
  /\ None \notin Commands \cup Verdicts \cup Packet

NoRun == -1

VARIABLES
  \* the program's thread
  pc, call,
  nextRun,     \* _next_run_id
  \* shared: the request
  pending,     \* command of the registered request, or None
  answered,    \* its event
  response,    \* the packet that answered it, or None
  \* shared: the launch
  active,      \* _launch_active
  activeRun,   \* _active_run_id, or NoRun
  status, statusEvent,
  data, dataError, dataEvent,
  background,  \* _background_error is set
  \* the receiver thread
  rxPc, frame, decoded, rxRun, rxChunk, payload,
  \* history, read by the properties and the bounds on faults
  late,        \* a request timed out, failed or was interrupted
  verdictOf,   \* the launch the status is about
  result       \* what the last stopLaunch returned: its data, or None

mainVars == <<pc, call, nextRun>>
requestVars == <<pending, answered, response>>
launchVars == <<active, activeRun, status, statusEvent, verdictOf>>
dataVars == <<data, dataError, dataEvent>>
assemblyVars == <<rxRun, rxChunk, payload>>
receiverVars == <<rxPc, frame, decoded, assemblyVars>>
historyVars == <<late, result>>
clientVars == <<mainVars, requestVars, launchVars, dataVars, background,
                receiverVars, historyVars>>
vars == <<boardVars, clientVars>>

Record == [run: RunIds \cup {NoRun}, gen: Nat, chunks: Seq(Nat \X Nat)]

MainType ==
  /\ pc \in {"idle", "request", "await", "failed", "started", "verdict",
             "data", "sensor", "closed"}
  /\ call \in UserCalls \cup {"CloseAbort", "CloseSleep", None}
  /\ nextRun \in RunIds
RequestType ==
  /\ pending \in Commands \cup {None} /\ answered \in BOOLEAN
  /\ response \in Packet \cup {None}
LaunchType ==
  /\ active \in BOOLEAN /\ activeRun \in RunIds \cup {NoRun}
  /\ status \in Verdicts \cup {None} /\ statusEvent \in BOOLEAN
  /\ verdictOf \in Nat
DataType ==
  /\ data \in Record \cup {None}
  /\ dataError \in BOOLEAN /\ dataEvent \in BOOLEAN
ReceiverType ==
  /\ rxPc \in {"read", "check", "extend", "publish", "stopped"}
  /\ frame \in Packet \cup {None} /\ decoded \in Record \cup {None}
  /\ rxRun \in RunIds \cup {NoRun} /\ rxChunk \in Nat
  /\ payload \in Seq(Nat \X Nat)

TypeOK ==
  /\ BoardType /\ MainType /\ RequestType /\ LaunchType /\ DataType /\ ReceiverType
  /\ background \in BOOLEAN /\ late \in BOOLEAN /\ result \in Record \cup {None}

Init ==
  /\ BoardInit
  /\ pc = "idle" /\ call = None /\ nextRun = 0
  /\ pending = None /\ answered = FALSE /\ response = None
  /\ active = FALSE /\ activeRun = NoRun
  /\ status = None /\ statusEvent = FALSE
  /\ data = None /\ dataError = FALSE /\ dataEvent = FALSE
  /\ background = FALSE
  /\ rxPc = "read" /\ frame = None /\ decoded = None
  /\ rxRun = NoRun /\ rxChunk = 0 /\ payload = <<>>
  /\ late = (board = "running") /\ verdictOf = 0 /\ result = None

-----------------------------------------------------------------------------
(* The program's thread: calls.                                             *)

Goto(p) == pc' = p /\ UNCHANGED <<call, nextRun>>

\* A BoardError that close() meets ends it; elsewhere it reaches the program.
AfterError == IF call \in {"CloseAbort", "CloseSleep"} THEN "closed" ELSE "idle"

Enter(name, p) ==
  /\ pc = "idle" /\ name \in UserCalls
  /\ call' = name /\ pc' = p

\* Mutant: the verdict of the launch before is not cleared.
BeginStartKeepsStatus ==
  /\ ~active /\ nextRun < MaxStarts
  /\ Enter("Start", "request")
  /\ activeRun' = nextRun /\ nextRun' = nextRun + 1
  /\ data' = None /\ dataError' = FALSE /\ dataEvent' = FALSE
  /\ rxRun' = NoRun /\ rxChunk' = 0 /\ payload' = <<>>
  /\ result' = None
  /\ UNCHANGED <<boardVars, requestVars, active, status, statusEvent, verdictOf,
                 background, rxPc, frame, decoded, late>>

\* startLaunch, under the lock: a new identifier, and a clean receiver.
BeginStart ==
  /\ ~active /\ nextRun < MaxStarts
  /\ Enter("Start", "request")
  /\ activeRun' = nextRun /\ nextRun' = nextRun + 1
  /\ status' = None /\ statusEvent' = FALSE
  /\ data' = None /\ dataError' = FALSE /\ dataEvent' = FALSE
  /\ rxRun' = NoRun /\ rxChunk' = 0 /\ payload' = <<>>
  /\ result' = None
  /\ UNCHANGED <<boardVars, requestVars, active, verdictOf, background,
                 rxPc, frame, decoded, late>>

\* stopLaunch asks the board only while it knows no verdict.
BeginStop ==
  /\ activeRun # NoRun
  /\ Enter("Stop", IF status = None THEN "request" ELSE "verdict")
  /\ result' = None
  /\ UNCHANGED <<boardVars, nextRun, requestVars, launchVars, dataVars,
                 background, receiverVars, late>>

BeginOther ==
  /\ \/ activeRun # NoRun /\ Enter("Abort", "request")
     \/ Enter("Drive", "request")
     \/ activeRun # NoRun /\ Enter("Wait", "sensor")
  /\ UNCHANGED <<boardVars, nextRun, requestVars, launchVars, dataVars,
                 background, receiverVars, historyVars>>

\* close() aborts the launch it believes active, then puts every bridge to sleep.
BeginClose ==
  /\ pc = "idle"
  /\ pc' = IF active /\ activeRun = NoRun THEN "closed" ELSE "request"
  /\ call' = IF active THEN "CloseAbort" ELSE "CloseSleep"
  /\ UNCHANGED <<boardVars, nextRun, requestVars, launchVars, dataVars,
                 background, receiverVars, historyVars>>

-----------------------------------------------------------------------------
(* The program's thread: _request.                                          *)

Command == CASE call = "CloseAbort" -> "Abort"
             [] call = "CloseSleep" -> "Sleep"
             [] OTHER -> call

\* Whatever ends a request, it is not left behind.
Forget == pending' = None /\ answered' = FALSE /\ response' = None

\* The request is registered under the lock and written after it.  An error of the
\* port is no BoardError: stopLaunch does not look for a verdict.
SendRequest ==
  /\ pc = "request"
  /\ IF linkUp /\ ~background
       THEN /\ pending' = Command /\ UNCHANGED <<answered, response>>
            /\ inbox' = Append(inbox, [command |-> Command,
                 run |-> IF call = "Start" THEN activeRun ELSE 0])
            /\ Goto("await")
            /\ UNCHANGED late
       ELSE /\ Goto(IF call = "Stop" /\ ~background THEN "idle" ELSE "failed")
            /\ late' = TRUE
            /\ UNCHANGED <<requestVars, inbox>>
  /\ UNCHANGED <<linkUp, board, boardRun, slots, next, driving, toHost, gen, lost,
                 launchVars, dataVars, background, receiverVars, result>>

AfterSuccess ==
  CASE call = "Start" -> "started"
    [] call \in {"Stop", "Abort", "CloseAbort"} -> "verdict"
    [] call = "CloseSleep" -> "closed"
    [] OTHER -> "idle"

\* Mutant: the status of the response is not looked at.
TakeAnyResponse ==
  /\ pc = "await" /\ answered
  /\ Forget
  /\ Goto(IF response = None THEN "failed" ELSE AfterSuccess)
  /\ UNCHANGED <<boardVars, launchVars, dataVars, background, receiverVars,
                 historyVars>>

\* The event is set with a response, or without one by a receiver that failed.
TakeResponse ==
  /\ pc = "await" /\ answered
  /\ Forget
  /\ Goto(IF response = None \/ response.status # "Success"
            THEN "failed" ELSE AfterSuccess)
  /\ UNCHANGED <<boardVars, launchVars, dataVars, background, receiverVars,
                 historyVars>>

\* A rejection, a time-out or a dead receiver.  stopLaunch goes on when the verdict
\* came meanwhile; startLaunch forgets its run.
HandleFailure ==
  /\ pc = "failed"
  /\ Goto(IF call = "Stop" /\ status # None THEN "verdict" ELSE AfterError)
  /\ activeRun' = IF call = "Start" THEN NoRun ELSE activeRun
  /\ UNCHANGED <<boardVars, requestVars, active, status, statusEvent, verdictOf,
                 dataVars, background, receiverVars, historyVars>>

\* The run may have ended, and its verdict been received, since the response.
Started ==
  /\ pc = "started"
  /\ active' = TRUE
  /\ Goto("idle")
  /\ UNCHANGED <<boardVars, requestVars, activeRun, status, statusEvent, verdictOf,
                 dataVars, background, receiverVars, historyVars>>

-----------------------------------------------------------------------------
(* The program's thread: the verdict and the data.                          *)

\* close() goes on with the bridges; it shares no history with a user's call.
Finish(returned) ==
  /\ activeRun' = NoRun /\ active' = FALSE
  /\ IF call = "CloseAbort"
       THEN pc' = "request" /\ call' = "CloseSleep" /\ UNCHANGED nextRun
       ELSE Goto("idle")
  /\ result' = returned
  /\ UNCHANGED <<status, statusEvent, verdictOf>>

Fail == Goto(AfterError) /\ UNCHANGED <<launchVars, result>>

\* The program waits for the data of a run it stopped, unless nothing follows.
WantsData == call = "Stop" /\ status # "HostAborted"

TakeVerdict ==
  /\ pc = "verdict" /\ statusEvent
  /\ \/ status = None /\ Fail
     \/ status # None /\ WantsData /\ Goto("data") /\ UNCHANGED <<launchVars, result>>
     \/ status # None /\ ~WantsData /\ Finish(None)
  /\ UNCHANGED <<boardVars, requestVars, dataVars, background, receiverVars,
                 late>>

\* Mutant: the identifier of the data is not compared.
AnyRunMatches == TRUE

\* The record is that of the launch this call is about.
RunMatches == data.run = activeRun

TakeData ==
  /\ pc = "data" /\ dataEvent
  /\ IF dataError \/ data = None \/ ~RunMatches THEN Fail ELSE Finish(data)
  /\ UNCHANGED <<boardVars, requestVars, dataVars, background, receiverVars,
                 late>>

\* The condition is evaluated again whenever the receiver notifies it.
EndSensorWait ==
  /\ Goto("idle")
  /\ UNCHANGED <<boardVars, requestVars, launchVars, dataVars, background,
                 receiverVars, historyVars>>
StopWaiting == pc = "sensor" /\ (background \/ status # None) /\ EndSensorWait
SensorNotified == pc = "sensor" /\ gen > 0 /\ EndSensorWait

-----------------------------------------------------------------------------
(* The program's thread: time-outs and Ctrl+C.                              *)

\* One request of a session fails of itself; another only where nothing will come.
MayFail == ~late \/ lost

Timeout ==
  /\ MayFail
  /\ \/ pc = "await" /\ ~late /\ ~answered /\ Goto("failed")
     \/ pc = "verdict" /\ ~statusEvent /\ Goto(AfterError)
     \/ pc = "data" /\ ~dataEvent /\ Goto(AfterError)
  /\ Forget /\ late' = TRUE
  /\ UNCHANGED <<boardVars, launchVars, dataVars, background, receiverVars,
                 result>>

Waiting == pc \notin {"idle", "closed"}

\* KeyboardInterrupt is no Exception: startLaunch keeps its run, and close() goes
\* straight to closing the port.
Interrupt ==
  /\ Waiting /\ (~late \/ pc = "sensor")
  /\ Goto(AfterError)
  /\ Forget /\ late' = TRUE
  /\ UNCHANGED <<boardVars, launchVars, dataVars, background, receiverVars,
                 result>>

-----------------------------------------------------------------------------
(* The receiver thread.                                                     *)

Reading == rxPc = "read" /\ pc # "closed"
Receiving(kinds) == Reading /\ toHost # <<>> /\ Head(toHost).kind \in kinds
Pop == toHost' = Tail(toHost) /\
       UNCHANGED <<linkUp, inbox, board, boardRun, slots, next, driving, gen, lost>>
ReceiverKeeps == UNCHANGED <<mainVars, background, historyVars>>

\* _handle_packet: a response is for the registered request with its service and
\* command, whichever request it answers.
Matches(packet) == pending = packet.command

ReceiveAnswer ==
  /\ Receiving({"answer"}) /\ Pop
  /\ IF Matches(Head(toHost))
       THEN response' = Head(toHost) /\ answered' = TRUE /\ pending' = None
       ELSE UNCHANGED requestVars
  /\ UNCHANGED <<launchVars, dataVars, receiverVars>> /\ ReceiverKeeps

ReceiveVerdict ==
  /\ Receiving({"verdict"}) /\ Pop
  /\ status' = Head(toHost).status /\ verdictOf' = Head(toHost).gen
  /\ active' = FALSE /\ statusEvent' = TRUE
  /\ UNCHANGED <<requestVars, activeRun, dataVars, receiverVars>>
  /\ ReceiverKeeps

\* Mutant: the first chunk does not empty the assembly.
ReceiveFrameKeepsPayload ==
  /\ Receiving({"data", "final"}) /\ Pop
  /\ frame' = Head(toHost) /\ rxPc' = "check"
  /\ IF Head(toHost).kind = "data" /\ Head(toHost).chunk = 0
       THEN rxRun' = Head(toHost).run /\ rxChunk' = 0 /\ UNCHANGED payload
       ELSE UNCHANGED assemblyVars
  /\ UNCHANGED <<requestVars, launchVars, dataVars, decoded>>
  /\ ReceiverKeeps

\* _handle_launch_frame takes no lock: startLaunch may reset the assembly between
\* any two of its steps.
ReceiveFrame ==
  /\ Receiving({"data", "final"}) /\ Pop
  /\ frame' = Head(toHost) /\ rxPc' = "check"
  /\ IF Head(toHost).kind = "data" /\ Head(toHost).chunk = 0
       THEN rxRun' = Head(toHost).run /\ rxChunk' = 0 /\ payload' = <<>>
       ELSE UNCHANGED assemblyVars
  /\ UNCHANGED <<requestVars, launchVars, dataVars, decoded>>
  /\ ReceiverKeeps

Expected(g) == [i \in 1 .. Chunks |-> <<g, i - 1>>]
SetDataError == dataError' = TRUE /\ dataEvent' = TRUE /\ UNCHANGED data

\* The size and CRC of the final frame are taken as ideal.
InSequence == rxRun = frame.run /\ rxChunk = frame.chunk
Complete == frame.kind = "final" /\ payload = Expected(frame.gen)

CheckFrame ==
  /\ rxPc = "check"
  /\ \/ /\ InSequence /\ frame.kind = "data"
        /\ rxPc' = "extend" /\ UNCHANGED <<frame, decoded, dataVars>>
     \/ /\ InSequence /\ Complete
        /\ rxPc' = "publish" /\ frame' = None /\ UNCHANGED dataVars
        /\ decoded' = [run |-> frame.run, gen |-> frame.gen, chunks |-> payload]
     \/ /\ ~(InSequence /\ (frame.kind = "data" \/ Complete))
        /\ rxPc' = "read" /\ frame' = None /\ UNCHANGED decoded
        /\ SetDataError
  /\ UNCHANGED <<boardVars, requestVars, launchVars, assemblyVars>>
  /\ ReceiverKeeps

\* A reset between the two assignments forgets the identifier first, so that the
\* next chunk is refused either way.
ExtendPayload ==
  /\ rxPc = "extend"
  /\ payload' = Append(payload, <<frame.gen, frame.chunk>>)
  /\ rxChunk' = rxChunk + 1
  /\ rxPc' = "read" /\ frame' = None
  /\ UNCHANGED <<boardVars, requestVars, launchVars, dataVars, decoded, rxRun>>
  /\ ReceiverKeeps

PublishData ==
  /\ rxPc = "publish"
  /\ data' = decoded /\ dataError' = FALSE /\ dataEvent' = TRUE
  /\ rxPc' = "read" /\ decoded' = None
  /\ UNCHANGED <<boardVars, requestVars, launchVars, frame, assemblyVars>>
  /\ ReceiverKeeps

\* Mutant: the pending request is not woken.
FailBackgroundSilently ==
  /\ Reading /\ ~linkUp
  /\ background' = TRUE /\ rxPc' = "stopped"
  /\ statusEvent' = TRUE /\ dataEvent' = TRUE
  /\ UNCHANGED <<boardVars, mainVars, requestVars, active, activeRun, status,
                 verdictOf, data, dataError, frame, decoded, assemblyVars,
                 historyVars>>

\* A read that raises ends the receiver, which wakes whoever waits.
FailBackground ==
  /\ Reading /\ ~linkUp
  /\ background' = TRUE /\ rxPc' = "stopped"
  /\ answered' = (answered \/ pending # None)
  /\ statusEvent' = TRUE /\ dataEvent' = TRUE
  /\ UNCHANGED <<boardVars, mainVars, pending, response, active, activeRun, status,
                 verdictOf, data, dataError, frame, decoded, assemblyVars,
                 historyVars>>

-----------------------------------------------------------------------------
(* The session.                                                             *)

\* Nobody reads the port any more: what the board still sends times out, and the
\* board resets.
Unread ==
  /\ pc = "closed" /\ linkUp
  /\ slots # <<>> \/ board = "sending"
  /\ linkUp' = FALSE
  /\ BoardResets
  /\ UNCHANGED clientVars

\* The session is over when the board has nothing left to do for it.
Over == pc = "closed" /\ inbox = <<>> /\ board # "running"
        /\ (linkUp => slots = <<>> /\ board = "idle")

BoardStep == Board /\ UNCHANGED clientVars
BoardEvent == LinkLoss /\ UNCHANGED clientVars

\* What the program's thread does without being told.
Proceed ==
  \/ SendRequest \/ TakeResponse \/ HandleFailure \/ Started
  \/ TakeVerdict \/ TakeData \/ StopWaiting

Receiver ==
  \/ ReceiveAnswer \/ ReceiveVerdict \/ ReceiveFrame
  \/ CheckFrame \/ ExtendPayload \/ PublishData \/ FailBackground

Next ==
  \/ BoardStep \/ BoardEvent \/ Unread
  \/ BeginStart \/ BeginStop \/ BeginOther \/ BeginClose
  \/ Proceed \/ SensorNotified \/ Timeout \/ Interrupt
  \/ Receiver

Spec == Init /\ [][Next]_vars

\* Both threads are scheduled, the board's main loop never blocks and its attempt
\* timer ends a run.  No time-out is assumed to strike.
FairSpec ==
  Spec /\ WF_vars(BoardStep) /\ WF_vars(Proceed) /\ WF_vars(Receiver)

-----------------------------------------------------------------------------
(* Properties.                                                              *)

\* However launches, aborts and new starts interleave with the receiver, it never
\* joins chunks of two launches: their order alone keeps them apart.
PayloadIsOfOneRun ==
  \A i \in DOMAIN payload : payload[i][1] = payload[1][1]

\* The data stopLaunch returns is that of the launch startLaunch began last, also
\* when requests of earlier launches failed and their frames are still coming.
ResultIsOfItsRun ==
  result # None => result.gen = gen /\ result.chunks = Expected(gen)

\* RUN_STATUS names no launch.  A session in which no request failed takes every
\* verdict for the launch it is about.
VerdictIsOfItsRun ==
  pc = "data" /\ call = "Stop" /\ ~late => verdictOf = gen

VerdictIsComing ==
  \/ \E i \in DOMAIN slots : slots[i].kind = "verdict"
  \/ \E i \in DOMAIN toHost : toHost[i].kind = "verdict"

\* The client refuses a new launch only while the board has one, its verdict is on
\* its way or already known, or it is lost.
ActiveIsExplained ==
  active /\ ~late =>
    board = "running" \/ VerdictIsComing \/ status # None \/ lost \/ ~linkUp

\* No call waits for something that will not come: every wake-up reaches its waiter,
\* also when the receiver dies.
CallsReturn == Waiting ~> ~Waiting \/ lost \/ (late /\ pc = "sensor")

-----------------------------------------------------------------------------
(* What a comment says, and the code does not do.                           *)

\* competition.py:2119: closing the port makes the firmware enter its safe reset
\* path, even when the abort was interrupted.
CloseIsSafe == Over /\ ~late => ~driving

-----------------------------------------------------------------------------
(* Strengthenings, from which the proofs derive the invariants above.       *)

Holds(q, kind) == \E i \in DOMAIN q : q[i].kind = kind
AtMostOne(q, kind) ==
  \A i, j \in DOMAIN q : q[i].kind = kind /\ q[j].kind = kind => i = j
OnItsWay(kind) == Holds(slots, kind) \/ Holds(toHost, kind)
OneOnItsWay(kind) ==
  /\ AtMostOne(slots, kind) /\ AtMostOne(toHost, kind)
  /\ ~(Holds(slots, kind) /\ Holds(toHost, kind))

\* The slots hold answers and verdicts, and every packet is what its kind says.
PacketsAreOfTheirKind ==
  /\ \A i \in DOMAIN slots : slots[i].kind \in {"answer", "verdict"}
  /\ \A q \in {slots, toHost} : \A i \in DOMAIN q :
       /\ q[i].kind = "verdict" => q[i].status \in Verdicts
       /\ q[i].kind = "final" => q[i].chunk = Chunks

\* A lost link leaves nothing under way, and does not come back.
LostLinkIsSilent ==
  ~linkUp => inbox = <<>> /\ slots = <<>> /\ toHost = <<>> /\ board = "idle"

\* Where the program's thread is in a call, and what the receiver has in hand.
Starting == call = "Start" /\ pc \in {"request", "await", "failed", "started"}
CallsAreServed ==
  /\ pc = "request" => call \in {"Start", "Stop", "Abort", "Drive", "CloseAbort",
                                 "CloseSleep"}
  /\ pc = "started" => call = "Start"
  /\ pc \in {"verdict", "data"} => call # "Start"
  /\ nextRun <= MaxStarts /\ activeRun \in {NoRun, nextRun - 1}
  /\ Starting => ~active /\ activeRun = nextRun - 1 /\ activeRun # NoRun
  /\ rxPc \in {"check", "extend"} => frame \in Packet
  /\ rxPc = "publish" => decoded \in Record
  /\ pc = "data" => status # None

\* The registered request is the one the program waits for.
RequestIsRegistered ==
  /\ pc # "await" => pending = None /\ ~answered /\ response = None
  /\ pc = "await" =>
       \/ pending = Command /\ response = None /\ (answered => ~linkUp)
       \/ /\ pending = None /\ answered /\ response \in Packet
          /\ response.kind = "answer" /\ response.command = Command

\* The frames of a launch come one after the other, from its first: what follows a
\* frame, in the pipe and from the board, continues it or starts over.
IsFrame(p) == p.kind \in {"data", "final"}
StartsOver(q, k, g) == IsFrame(q[k]) /\ q[k].chunk = 0 /\ q[k].gen = g
Continues(q, coming, i, g) ==
  /\ \A j \in DOMAIN q : j > i /\ IsFrame(q[j]) /\ q[j].chunk # 0 =>
       q[j].gen = g \/ \E k \in DOMAIN q : i < k /\ k < j /\ StartsOver(q, k, q[j].gen)
  /\ \A c \in coming : c = g \/ \E k \in DOMAIN q : i < k /\ StartsOver(q, k, c)
Coming == IF board = "sending" /\ next # 0 THEN {gen} ELSE {}
Follows(i, g) == Continues(toHost, Coming, i, g)
FramesAreInOrder ==
  /\ \A i \in DOMAIN toHost : IsFrame(toHost[i]) => Follows(i, toHost[i].gen)
  /\ rxPc \in {"check", "extend"} => Follows(0, frame.gen)
  /\ rxRun # NoRun /\ payload # <<>> =>
       /\ Follows(0, payload[1][1])
       /\ rxPc \in {"check", "extend"} => frame.gen = payload[1][1]
  /\ rxRun = NoRun /\ rxPc = "extend" => payload = <<>>

\* A launch has the identifier of one startLaunch: frames and records with the last
\* one are of the last launch, and no start is still to be served.
IsStart(i) == inbox[i].command = "Start"
NoStart == \A i \in DOMAIN inbox : ~IsStart(i)
Fresh == pc = "request" /\ call = "Start"
StartsAreOrdered ==
  /\ \A i \in DOMAIN inbox : IsStart(i) =>
       inbox[i].run < nextRun /\ (Fresh => inbox[i].run < nextRun - 1)
  /\ \A i, j \in DOMAIN inbox : i < j /\ IsStart(i) /\ IsStart(j) =>
       inbox[i].run < inbox[j].run
Belongs(run, g) ==
  /\ run \in 0 .. nextRun - 1 \/ ("session" \in Faults /\ run = EarlierRun)
  /\ run = nextRun - 1 => ~Fresh /\ NoStart /\ g = gen
RunsAreTheirs ==
  /\ board # "idle" => Belongs(boardRun, gen)
  /\ \A i \in DOMAIN toHost : IsFrame(toHost[i]) => Belongs(toHost[i].run, toHost[i].gen)
  /\ rxPc \in {"check", "extend"} => Belongs(frame.run, frame.gen)
  /\ rxPc = "publish" =>
       Belongs(decoded.run, decoded.gen) /\ decoded.chunks = Expected(decoded.gen)
  /\ data # None => Belongs(data.run, data.gen) /\ data.chunks = Expected(data.gen)
  /\ result # None => /\ result.gen = gen /\ result.chunks = Expected(gen)
                      /\ NoStart /\ ~Fresh

\* While no request failed, one is under way at most: in the inbox, or its answer.
UnderWay == {slots[i] : i \in DOMAIN slots} \cup {toHost[i] : i \in DOMAIN toHost}
RequestIsSingle ==
  /\ Len(inbox) <= 1 /\ OneOnItsWay("answer")
  /\ inbox # <<>> => ~OnItsWay("answer")
  /\ inbox # <<>> \/ OnItsWay("answer") => pending # None
  /\ \A i \in DOMAIN inbox : inbox[i].command = Command
  /\ \A p \in UnderWay : p.kind = "answer" => p.command = Command

\* An answer to startLaunch that is under way or received, and what it says.
StartAnswered(p) == p.kind = "answer" /\ p.command = "Start"
StartAccepted(p) == StartAnswered(p) /\ p.status = "Success"
StartRejected(p) == StartAnswered(p) /\ p.status # "Success"

\* While no request failed, the client knows the launch whose verdict is to come.
Going == board = "running" \/ OnItsWay("verdict")
VerdictIsExpected ==
  /\ OneOnItsWay("verdict") /\ (board = "running" => ~OnItsWay("verdict"))
  /\ \A p \in UnderWay : p.kind = "verdict" => p.gen = gen
  /\ Going => /\ status = None /\ NoStart
              /\ active \/ (call = "Start" /\ pc \in {"await", "started"})
  /\ status # None => verdictOf = gen /\ NoStart /\ ~Fresh
  /\ \A p \in UnderWay : StartRejected(p) => ~Going
  /\ pc = "await" /\ response # None => (StartRejected(response) => ~Going)

\* ... and an accepted start is one that runs, or has ended and been reported.
Explained == board = "running" \/ VerdictIsComing \/ status # None \/ lost \/ ~linkUp
AcceptanceIsExplained ==
  /\ active \/ pc = "started" => Explained
  /\ \A p \in UnderWay : StartAccepted(p) => Explained
  /\ pc = "await" /\ response # None => (StartAccepted(response) => Explained)

Punctual ==
  ~late => RequestIsSingle /\ VerdictIsExpected /\ AcceptanceIsExplained
=============================================================================

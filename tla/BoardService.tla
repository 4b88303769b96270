---------------------------- MODULE BoardService ----------------------------
(***************************************************************************)
(* The board as a host session meets it: one launch at a time, the answers  *)
(* and notifications that wait in the request slots, and the launch data    *)
(* that follows the verdict of its run.  It is what RequestRouter, UsbLink  *)
(* and LaunchRun model in detail, cut at the wire.                          *)
(***************************************************************************)
EXTENDS Integers, SequencesExt

CONSTANTS
  Chunks,      \* data frames of one launch record, before the final frame
  PipeLength,  \* bound: packets between the board and the receiver thread
  RunIds,      \* run identifiers: 0 .. 127
  EarlierRun,  \* the identifier of a launch an earlier session left running
  Debug,       \* the session runs in debug mode: no competition gate
  Faults       \* subset of {"verdict", "adc", "link", "session"}

ASSUME ServiceAssumption ==
  /\ Chunks \in Nat \ {0} /\ PipeLength \in Nat \ {0}
  /\ RunIds \subseteq Nat /\ 0 \in RunIds /\ EarlierRun \in RunIds
  /\ Debug \in BOOLEAN
  /\ Faults \subseteq {"verdict", "adc", "link", "session"}

VARIABLES
  linkUp,   \* the cable is in and the port answers
  inbox,    \* requests the board has not served
  board,    \* "idle", "running" a launch or "sending" its data
  boardRun, \* the identifier the host gave the launch
  slots,    \* answers and notifications that have not left
  next,     \* the next chunk of the transfer
  driving,  \* a bridge drives its coil
  toHost,   \* packets that have left, in order
  \* history: it stands for the contents of a record, and bounds the faults
  gen,      \* launches so far
  lost      \* a verdict, or the data it announces, will never come

boardVars == <<linkUp, inbox, board, boardRun, slots, next, driving, toHost,
               gen, lost>>

Commands == {"Start", "Stop", "Abort", "Drive", "Sleep"}
\* "Ended" is every verdict with data that the host did not ask for; "AcquisitionError"
\* that of a run whose ADC did not stop, without data.
Verdicts == {"Success", "Ended", "HostAborted", "AcquisitionError"}
Statuses == Verdicts \cup {"Busy", "Blocked"}
Packet ==
  [kind: {"answer", "verdict", "data", "final"}, command: Commands,
   status: Statuses, run: RunIds, chunk: 0 .. Chunks, gen: Nat]

BoardType ==
  /\ linkUp \in BOOLEAN /\ driving \in BOOLEAN /\ lost \in BOOLEAN
  /\ inbox \in Seq([command: Commands, run: RunIds])
  /\ board \in {"idle", "running", "sending"}
  /\ boardRun \in RunIds /\ gen \in Nat
  /\ slots \in Seq(Packet) /\ next \in 0 .. Chunks
  /\ toHost \in Seq(Packet) /\ Len(toHost) <= PipeLength

\* A session may find the launch of an earlier one still running: closing the
\* port does not stop it.
BoardInit ==
  /\ linkUp = TRUE /\ inbox = <<>> /\ slots = <<>> /\ toHost = <<>>
  /\ board \in IF "session" \in Faults THEN {"idle", "running"} ELSE {"idle"}
  /\ IF board = "running" THEN gen = 1 /\ boardRun = EarlierRun
                          ELSE gen = 0 /\ boardRun = 0
  /\ next = 0 /\ driving = FALSE /\ lost = FALSE

Answer(request, status) ==
  [kind |-> "answer", command |-> request.command, status |-> status,
   run |-> 0, chunk |-> 0, gen |-> 0]
Verdict(status) ==
  [kind |-> "verdict", command |-> "Start", status |-> status,
   run |-> 0, chunk |-> 0, gen |-> gen]
Frame ==
  [kind |-> IF next < Chunks THEN "data" ELSE "final", command |-> "Start",
   status |-> "Success", run |-> boardRun, chunk |-> next, gen |-> gen]

Serving(command) == inbox # <<>> /\ Head(inbox).command = command

-----------------------------------------------------------------------------
(* Requests.  The gate of the router is evaluated with the request.         *)

\* finishRun: every bridge is put to sleep, the verdict takes a slot (or finds
\* none) and the data follows unless the run was aborted or the ADC did not stop.
FinishRun(status, replies) ==
  /\ driving' = FALSE
  /\ board' = IF status \in {"HostAborted", "AcquisitionError"}
                THEN "idle" ELSE "sending"
  /\ next' = 0
  /\ \/ slots' = Append(slots \o replies, Verdict(status))
        /\ lost' = (lost \/ status = "AcquisitionError")
     \/ "verdict" \in Faults /\ slots' = slots \o replies /\ lost' = TRUE

\* A run that starts may be refused for its monitor, its timers or its ADC;
\* finishRun then undoes it, without a verdict.
ServeStart ==
  /\ Serving("Start")
  /\ inbox' = Tail(inbox)
  /\ \/ /\ board = "idle"
        /\ board' = "running" /\ boardRun' = Head(inbox).run /\ gen' = gen + 1
        /\ slots' = Append(slots, Answer(Head(inbox), "Success"))
        /\ UNCHANGED driving
     \/ /\ slots' = Append(slots, Answer(Head(inbox),
             IF board = "idle" THEN "AcquisitionError" ELSE "Busy"))
        /\ driving' = (driving /\ board # "idle")
        /\ UNCHANGED <<board, boardRun, gen>>
  /\ UNCHANGED <<linkUp, next, toHost, lost>>

ServeStop ==
  /\ Serving("Stop") \/ Serving("Abort")
  /\ inbox' = Tail(inbox)
  /\ IF board = "running"
       THEN FinishRun(IF Serving("Stop") THEN "Success" ELSE "HostAborted",
                      <<Answer(Head(inbox), "Success")>>)
       ELSE /\ slots' = Append(slots, Answer(Head(inbox), "Busy"))
            /\ UNCHANGED <<board, next, driving, lost>>
  /\ UNCHANGED <<linkUp, boardRun, toHost, gen>>

ServeCoil ==
  /\ Serving("Drive") \/ Serving("Sleep")
  /\ inbox' = Tail(inbox)
  /\ LET allowed == Debug \/ board = "running"
     IN  /\ driving' = IF allowed THEN Serving("Drive") ELSE driving
         /\ slots' = Append(slots,
              Answer(Head(inbox), IF allowed THEN "Success" ELSE "Blocked"))
  /\ UNCHANGED <<linkUp, board, boardRun, next, toHost, gen, lost>>

-----------------------------------------------------------------------------
(* What the board does by itself.                                           *)

\* The attempt timer, the last sample, a fault; the ADC may refuse to stop.
RunEnds ==
  /\ board = "running"
  /\ \/ FinishRun("Ended", <<>>)
     \/ "adc" \in Faults /\ FinishRun("AcquisitionError", <<>>)
  /\ UNCHANGED <<linkUp, inbox, boardRun, toHost, gen>>

HasRoom == linkUp /\ Len(toHost) < PipeLength

\* The slots are scanned in index order, which is no order of arrival.
EmitSlot ==
  /\ HasRoom
  /\ \E i \in DOMAIN slots :
       toHost' = Append(toHost, slots[i]) /\ slots' = RemoveAt(slots, i)
  /\ UNCHANGED <<linkUp, inbox, board, boardRun, next, driving, gen, lost>>

\* Mutant: the final frame does not end the transfer.
EmitFrameForever ==
  /\ HasRoom /\ board = "sending"
  /\ \A i \in DOMAIN slots : slots[i].kind # "verdict"
  /\ toHost' = Append(toHost, Frame)
  /\ next' = next + 1
  /\ UNCHANGED <<linkUp, inbox, board, boardRun, slots, driving, gen, lost>>

\* _deferLaunchFrame: the verdict leaves before the data.
EmitFrame ==
  /\ HasRoom /\ board = "sending"
  /\ \A i \in DOMAIN slots : slots[i].kind # "verdict"
  /\ toHost' = Append(toHost, Frame)
  /\ IF next < Chunks
       THEN next' = next + 1 /\ UNCHANGED board
       ELSE next' = 0 /\ board' = "idle"
  /\ UNCHANGED <<linkUp, inbox, boardRun, slots, driving, gen, lost>>

\* A lost host resets the processor, which starts again with every bridge asleep.
BoardResets ==
  /\ inbox' = <<>> /\ slots' = <<>> /\ toHost' = <<>>
  /\ board' = "idle" /\ next' = 0 /\ driving' = FALSE
  /\ UNCHANGED <<boardRun, gen, lost>>

LinkLoss ==
  /\ "link" \in Faults /\ linkUp
  /\ linkUp' = FALSE
  /\ BoardResets

Board ==
  \/ ServeStart \/ ServeStop \/ ServeCoil \/ RunEnds \/ EmitSlot \/ EmitFrame
=============================================================================

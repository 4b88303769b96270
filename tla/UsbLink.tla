------------------------------ MODULE UsbLink ------------------------------
(***************************************************************************)
(* The USB link: UsbTransport (one transmit buffer, the receive ring and   *)
(* the events its callbacks leave for the main loop) and the part of       *)
(* USBcontroller that moves launch data through it.  A whole request is    *)
(* one element of the ring; a fragment of one is a flag.  The CDC class    *)
(* driver below is external.                                               *)
(*                                                                         *)
(* A timeout is a choice of the environment ("stall", "fragment" in        *)
(* Faults): the host may leave a frame or a request unfinished for any     *)
(* length of time.                                                         *)
(***************************************************************************)
EXTENDS Integers, Sequences

CONSTANTS
  RxCapacity,  \* whole requests the receive ring holds
  Chunks,      \* data frames of one launch transfer
  LinkFaults   \* what may go wrong: subset of {"unplug", "stall", "fragment"}

ASSUME LinkAssumption ==
  /\ RxCapacity \in Nat \ {0}
  /\ Chunks \in Nat
  /\ LinkFaults \subseteq {"unplug", "stall", "fragment"}

VARIABLES
  cdc,          \* class driver: detached, idle, or busy with the transmit buffer
  connected,    \* UsbTransport::_connected
  events,       \* _connectedEvent, _disconnectedEvent
  txState,      \* _transmitState
  txFrame,      \* what the transmit buffer holds
  txCompleted,  \* _transmitCompleted
  txResult,     \* _transmitResult
  rx,           \* whole requests in the receive ring
  fragment,     \* an incomplete request follows them
  overflow,     \* UsbReceiveAccumulator::_overflow
  partialActive,\* USBcontroller::_partialPacketActive
  commFailure,  \* _communicationFailure; until it is taken, not _communicationHealthy
  transfer,     \* _launchTransferState
  defer,        \* _deferLaunchFrame
  frameQueued,  \* _launchFrameQueued and _queuedFrameIsFinal: no, data or final
  chunk         \* _launchChunkIndex

transportVars == <<cdc, connected, events, txState, txFrame, txCompleted, txResult>>
receiveVars == <<rx, fragment, overflow, partialActive>>
transferVars == <<transfer, defer, frameQueued, chunk>>
linkVars == <<transportVars, receiveVars, transferVars, commFailure>>

NoFrame == [kind |-> "none", id |-> 0, chunk |-> 0]
DataFrame(n) == [kind |-> "data", id |-> 0, chunk |-> n]
FinalFrame == [kind |-> "final", id |-> 0, chunk |-> Chunks]
ResponseFrame(i) == [kind |-> "response", id |-> i, chunk |-> 0]

LinkType ==
  /\ cdc \in {"detached", "idle", "busy"}
  /\ connected \in BOOLEAN /\ events \subseteq {"connected", "disconnected"}
  /\ txState \in {"Empty", "Ready", "InFlight", "TimedOut"}
  /\ txFrame \in [kind: {"none", "data", "final", "response"}, id: Nat,
                  chunk: 0 .. Chunks]
  /\ txCompleted \in BOOLEAN
  /\ txResult \in {"None", "Connected", "Complete", "Failed", "TimedOut",
                   "Disconnected"}
  /\ Len(rx) <= RxCapacity
  /\ fragment \in BOOLEAN /\ overflow \in BOOLEAN /\ partialActive \in BOOLEAN
  /\ commFailure \in BOOLEAN
  /\ transfer \in {"Idle", "Sending"} /\ defer \in BOOLEAN
  /\ frameQueued \in {"no", "data", "final"} /\ chunk \in 0 .. Chunks

LinkInit ==
  /\ cdc = "detached" /\ connected = FALSE /\ events = {}
  /\ txState = "Empty" /\ txFrame = NoFrame /\ txCompleted = FALSE
  /\ txResult = "None"
  /\ rx = <<>> /\ fragment = FALSE /\ overflow = FALSE /\ partialActive = FALSE
  /\ commFailure = FALSE
  /\ transfer = "Idle" /\ defer = FALSE /\ frameQueued = "no" /\ chunk = 0

-----------------------------------------------------------------------------
(* USB interrupt callbacks.                                                 *)

Plug ==
  /\ cdc = "detached"
  /\ cdc' = "idle"
  /\ events' = events \cup {"connected"}
  /\ UNCHANGED <<connected, txState, txFrame, txCompleted, txResult, receiveVars,
                 transferVars, commFailure>>

Unplug ==
  /\ "unplug" \in LinkFaults /\ cdc # "detached"
  /\ cdc' = "detached"
  /\ events' = events \cup {"disconnected"}
  /\ UNCHANGED <<connected, txState, txFrame, txCompleted, txResult, receiveVars,
                 transferVars, commFailure>>

\* The host has read the frame: the buffer is free again.
FrameRead ==
  /\ cdc = "busy"
  /\ cdc' = "idle"
  /\ txCompleted' = TRUE
  /\ UNCHANGED <<connected, events, txState, txFrame, txResult, receiveVars,
                 transferVars, commFailure>>

\* onReceive: a whole request, the start of one, or its rest.  What does not fit
\* is dropped and remembered as an overflow, which discards the ring at the next
\* pass.
Receive(r) ==
  /\ cdc # "detached"
  /\ connected' = TRUE
  /\ IF Len(rx) < RxCapacity
       THEN rx' = Append(rx, r) /\ fragment' = FALSE /\ UNCHANGED overflow
       ELSE overflow' = TRUE /\ UNCHANGED <<rx, fragment>>
  /\ UNCHANGED <<cdc, events, txState, txFrame, txCompleted, txResult,
                 partialActive, transferVars, commFailure>>

ReceiveFragment ==
  /\ "fragment" \in LinkFaults
  /\ cdc # "detached" /\ ~fragment
  /\ connected' = TRUE
  /\ IF Len(rx) < RxCapacity
       THEN fragment' = TRUE /\ UNCHANGED overflow
       ELSE overflow' = TRUE /\ UNCHANGED fragment
  /\ UNCHANGED <<cdc, events, txState, txFrame, txCompleted, txResult, rx,
                 partialActive, transferVars, commFailure>>

-----------------------------------------------------------------------------
(* UsbTransport::process.                                                   *)

ProcessConnectionEvents ==
  /\ events' = {}
  /\ connected' = ("connected" \in events \/ (connected /\ "disconnected" \notin events))
  /\ IF "disconnected" \in events
       THEN /\ txState' = "Empty" /\ txFrame' = NoFrame
            /\ txCompleted' = FALSE
            /\ txResult' = "Disconnected"
       ELSE /\ txResult' = IF "connected" \in events THEN "Connected" ELSE txResult
            /\ UNCHANGED <<txState, txFrame, txCompleted>>
  /\ UNCHANGED <<cdc, receiveVars, transferVars, commFailure>>

ProcessTransmitCompletion ==
  /\ txCompleted' = FALSE
  /\ IF txCompleted /\ txState \in {"InFlight", "TimedOut"}
       THEN /\ txState' = "Empty" /\ txFrame' = NoFrame
            /\ txResult' = IF txState = "InFlight" THEN "Complete" ELSE txResult
       ELSE UNCHANGED <<txState, txFrame, txResult>>
  /\ UNCHANGED <<cdc, connected, events, receiveVars, transferVars, commFailure>>

\* A frame in flight may time out; a ready one is handed to the class driver,
\* which refuses it unless a configured host is attached.  (The driver is never
\* busy here: BufferIsBorrowedOnce.)
ProcessTransmit ==
  /\ \/ /\ txState = "InFlight" /\ "stall" \in LinkFaults
        /\ txState' = "TimedOut" /\ txResult' = "TimedOut"
        /\ UNCHANGED <<cdc, txFrame>>
     \/ /\ txState = "Ready" /\ cdc = "idle"
        /\ txState' = "InFlight" /\ cdc' = "busy"
        /\ UNCHANGED <<txFrame, txResult>>
     \/ /\ txState = "Ready" /\ cdc = "detached"
        /\ txState' = "Empty" /\ txFrame' = NoFrame /\ txResult' = "Failed"
        /\ UNCHANGED cdc
     \/ /\ txState # "Ready"
        /\ UNCHANGED <<cdc, txState, txFrame, txResult>>
  /\ UNCHANGED <<connected, events, txCompleted, receiveVars, transferVars,
                 commFailure>>

\* Mutant: a frame may be queued over the one in flight.
CanQueueBytesAnytime == connected

CanQueueBytes == connected /\ txState = "Empty"

QueueBytes(frame) ==
  /\ CanQueueBytes
  /\ txState' = "Ready" /\ txFrame' = frame
  /\ UNCHANGED <<cdc, connected, events, txCompleted, txResult>>

-----------------------------------------------------------------------------
(* USBcontroller.                                                           *)

ClearReceived ==
  /\ rx' = <<>> /\ fragment' = FALSE /\ overflow' = FALSE /\ partialActive' = FALSE

\* Mutant: the progress is reset and the transfer stays active.
CancelProgress ==
  /\ defer' = FALSE /\ frameQueued' = "no" /\ chunk' = 0
  /\ UNCHANGED transfer

CancelTransfer ==
  /\ transfer' = "Idle" /\ defer' = FALSE /\ frameQueued' = "no" /\ chunk' = 0

\* Mutant: the first data frame does not wait for the verdict.
StartTransferAtOnce ==
  IF connected
    THEN transfer' = "Sending" /\ defer' = FALSE /\ frameQueued' = "no" /\ chunk' = 0
    ELSE CancelTransfer

\* startLaunchDataTransfer, and the cancellation when no host is connected.
StartTransfer ==
  IF connected
    THEN transfer' = "Sending" /\ defer' = TRUE /\ frameQueued' = "no" /\ chunk' = 0
    ELSE CancelTransfer

\* Mutant: a committed frame does not advance the chunk index.
CommitFrameInPlace ==
  IF frameQueued = "final" THEN CancelTransfer
  ELSE /\ frameQueued' = "no"
       /\ UNCHANGED <<transfer, defer, chunk>>

\* commitQueuedLaunchFrame.
CommitFrame ==
  IF frameQueued = "final" THEN CancelTransfer
  ELSE /\ chunk' = IF frameQueued = "data" THEN chunk + 1 ELSE chunk
       /\ frameQueued' = "no"
       /\ UNCHANGED <<transfer, defer>>

\* takeTransmitResult and handleTransmitResult.
HandleTransmitResult ==
  /\ txResult' = "None"
  /\ IF txResult \in {"Failed", "TimedOut", "Disconnected"}
       THEN ClearReceived /\ CancelTransfer /\ commFailure' = TRUE
       ELSE /\ UNCHANGED <<receiveVars, commFailure>>
            /\ IF txResult = "Complete" THEN CommitFrame ELSE UNCHANGED transferVars
  /\ UNCHANGED <<cdc, connected, events, txState, txFrame, txCompleted>>

\* takeNextPacket when it yields no request: an overflow discards everything, a
\* partial request starts its timer, and that timer is a communication failure.
ReceiveNothing ==
  /\ \/ overflow /\ ClearReceived /\ UNCHANGED commFailure
     \/ /\ ~overflow /\ rx = <<>>
        /\ \/ ~fragment /\ partialActive' = FALSE /\ UNCHANGED commFailure
           \/ fragment /\ partialActive' = TRUE /\ UNCHANGED commFailure
        /\ UNCHANGED <<rx, fragment, overflow>>
     \/ /\ ~overflow /\ rx = <<>> /\ fragment /\ partialActive
        /\ ClearReceived
        /\ commFailure' = TRUE
  /\ UNCHANGED <<transportVars, transferVars>>

HasRequest == ~overflow /\ rx # <<>>

TakeRequest ==
  /\ HasRequest
  /\ rx' = Tail(rx)
  /\ partialActive' = FALSE
  /\ UNCHANGED <<fragment, overflow, transportVars, transferVars, commFailure>>

NextFrame == IF chunk < Chunks THEN DataFrame(chunk) ELSE FinalFrame

\* processLaunchDataTransfer.
ProcessTransfer ==
  /\ IF defer
       THEN defer' = FALSE /\ UNCHANGED <<transportVars, transfer, frameQueued, chunk>>
       ELSE IF transfer = "Sending" /\ frameQueued = "no" /\ CanQueueBytes
         THEN /\ QueueBytes(NextFrame)
              /\ frameQueued' = NextFrame.kind
              /\ UNCHANGED <<transfer, defer, chunk>>
         ELSE UNCHANGED <<transportVars, transferVars>>
  /\ UNCHANGED <<receiveVars, commFailure>>
=============================================================================

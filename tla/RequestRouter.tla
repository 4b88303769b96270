--------------------------- MODULE RequestRouter ---------------------------
(***************************************************************************)
(* RequestManager: the fixed slots through which every request, response   *)
(* and notification passes, and the two gates at their entrance.  The      *)
(* slots are one record so that a handler that queues while it is being    *)
(* dispatched composes two operators.                                      *)
(*                                                                         *)
(* Time stamps and completed-request snapshots are left out: nothing       *)
(* routes on them.  Options are reduced to whether policy blocked the      *)
(* request.                                                                *)
(***************************************************************************)
EXTENDS Integers, FiniteSets

CONSTANTS
  Capacity,    \* RequestManager::Capacity, 5 in the firmware
  MaxRequests, \* bound: requests the host sends
  Commands     \* what a request may carry, "none" in an empty slot

ASSUME RouterAssumption ==
  Capacity \in Nat \ {0} /\ MaxRequests \in Nat \ {0} /\ "none" \in Commands

VARIABLES
  queue,        \* [slots, next (_nextInsert), count (_requestCount)]
  sensorBlock,  \* _sensorBlock
  launchActive, \* _launchActive
  debug         \* _debugMode

gateVars == <<sensorBlock, launchActive, debug>>

Services == {"None", "Coil", "Sensor", "Launch", "Usb", "Safety"}
Slots == 0 .. Capacity - 1

\* id and asked are history: which host request this is, and whether it asked
\* for an answer.  Notifications have id 0.
Request == [state: {"Idle", "Incoming", "Outgoing", "Done"}, dest: Services,
            source: Services, command: Commands, answer: BOOLEAN,
            blocked: BOOLEAN, id: 0 .. MaxRequests, asked: BOOLEAN]

Empty == [state |-> "Idle", dest |-> "None", source |-> "None", command |-> "none",
          answer |-> FALSE, blocked |-> FALSE, id |-> 0, asked |-> FALSE]

\* A message to the host that no request asked for.
Notification(source, command) ==
  [Empty EXCEPT !.state = "Outgoing", !.dest = "Usb", !.source = source,
                !.command = command]

RouterType ==
  /\ queue \in [slots: [Slots -> Request], next: Slots, count: Nat]
  /\ sensorBlock \in BOOLEAN /\ launchActive \in BOOLEAN /\ debug \in BOOLEAN

EmptyQueue == [slots |-> [i \in Slots |-> Empty], next |-> 0, count |-> 0]

RouterInit ==
  /\ queue = EmptyQueue
  /\ sensorBlock = TRUE /\ launchActive = FALSE /\ debug = FALSE

-----------------------------------------------------------------------------
Free(q) == {i \in Slots : q.slots[i].state = "Idle"}
HasCapacity(q) == q.count < Capacity

\* The first free slot from _nextInsert on, cyclically.
NextFree(q) ==
  CHOOSE i \in Free(q) : \A j \in Free(q) :
    (i - q.next) % Capacity <= (j - q.next) % Capacity

Accepted(r) == [r EXCEPT !.state = IF @ = "Idle" THEN "Incoming" ELSE @]

\* Mutant: the insertion index does not wrap.
NextIndexUnwrapped(i) == i + 1

NextIndex(i) == (i + 1) % Capacity

\* queueUnchecked.
Insert(q, r) ==
  IF HasCapacity(q) /\ Free(q) # {}
    THEN LET i == NextFree(q)
         IN  [slots |-> [q.slots EXCEPT ![i] = Accepted(r)],
              next |-> NextIndex(i),
              count |-> q.count + 1]
    ELSE q

BlocksSensorNotification(r) ==
  sensorBlock /\ r.source = "Sensor" /\ r.dest = "Usb"

BlocksHostRequest(r) ==
  /\ ~launchActive /\ ~debug
  /\ r.source = "Usb" /\ r.dest \in {"Coil", "Sensor"}

\* The response that policy gives for a blocked request, asked for or not.
Refusal(r) ==
  [r EXCEPT !.dest = "Usb", !.source = r.dest, !.answer = FALSE,
            !.blocked = TRUE, !.state = "Outgoing"]

\* queueRequest; a full table drops the request.
QueueRequest(q, r) ==
  IF BlocksSensorNotification(r) THEN q
  ELSE Insert(q, IF BlocksHostRequest(r) THEN Refusal(r) ELSE r)

\* Mutant: the answer bit is not cleared, and the response is a request again.
CompletedKeepsAnswer(r, by) ==
  IF r.answer /\ r.source # "None"
    THEN [r EXCEPT !.dest = r.source, !.source = by, !.state = "Outgoing"]
    ELSE [r EXCEPT !.state = "Done"]

\* Request::complete.
Completed(r, by) ==
  IF r.answer /\ r.source # "None"
    THEN [r EXCEPT !.dest = r.source, !.source = by, !.answer = FALSE,
                   !.state = "Outgoing"]
    ELSE [r EXCEPT !.state = "Done"]

Complete(q, i, by) == [q EXCEPT !.slots[i] = Completed(@, by)]

Done(q) == {i \in Slots : q.slots[i].state = "Done"}

\* Mutant: reclaimed slots stay counted.
ClearCompletedKeepsCount(q) ==
  [q EXCEPT !.slots = [i \in Slots |-> IF i \in Done(q) THEN Empty ELSE q.slots[i]]]

ClearCompleted(q) ==
  [q EXCEPT !.slots = [i \in Slots |-> IF i \in Done(q) THEN Empty ELSE q.slots[i]],
            !.count = @ - Cardinality(Done(q))]

Involving(q, service) ==
  {i \in Slots : /\ q.slots[i].state # "Idle"
                 /\ service \in {q.slots[i].source, q.slots[i].dest}}

\* discardRequestsInvolving.
DiscardInvolving(q, service) ==
  [q EXCEPT !.slots = [i \in Slots |-> IF i \in Involving(q, service)
                                         THEN Empty ELSE q.slots[i]],
            !.count = @ - Cardinality(Involving(q, service))]

\* Mutant: responses are not dispatched.
IsIncoming(r) == r.state = "Incoming"

\* Dispatch calls a handler only for a request on its way.
IsRouted(r) == r.state \in {"Incoming", "Outgoing"}

SetLaunchActive(active) ==
  /\ launchActive' = active
  /\ sensorBlock' = ~active
=============================================================================

-------------------------- MODULE HostClientProofs --------------------------
(***************************************************************************)
(* A session of the host library, for every number of starts, of chunks and *)
(* of packets in the pipe, every fault and every choice of calls.           *)
(***************************************************************************)
EXTENDS HostClient, SequenceTheorems, TLAPS

USE DEF vars, boardVars, clientVars, mainVars, requestVars, launchVars, dataVars,
        receiverVars, assemblyVars, historyVars

-----------------------------------------------------------------------------
(* Sequences of packets and requests.                                       *)

\* What a sequence holds once an element is appended.
LEMMA Appended ==
  ASSUME NEW S, NEW q \in Seq(S), NEW p \in S, NEW r, r = Append(q, p)
  PROVE  /\ r \in Seq(S) /\ Len(r) = Len(q) + 1 /\ Len(q) \in Nat
         /\ DOMAIN r = 1 .. Len(q) + 1 /\ DOMAIN q = 1 .. Len(q)
         /\ \A i \in 1 .. Len(q) : r[i] = q[i]
         /\ r[Len(q) + 1] = p
BY AppendProperties, LenProperties

\* What is left of a sequence once its head is taken.
LEMMA Taken ==
  ASSUME NEW S, NEW q \in Seq(S), q # <<>>
  PROVE  LET r == Tail(q) IN
         /\ r \in Seq(S) /\ Len(r) = Len(q) - 1 /\ Len(q) \in Nat \ {0}
         /\ DOMAIN r = 1 .. Len(q) - 1 /\ DOMAIN q = 1 .. Len(q)
         /\ Head(q) = q[1] /\ q[1] \in S
         /\ \A i \in 1 .. Len(q) - 1 : r[i] = q[i + 1]
BY HeadTailProperties, LenProperties, EmptySeq, ElementOfSeq

\* What is left of a sequence once an element in it is removed.
LEMMA Removed ==
  ASSUME NEW q \in Seq(Packet), NEW i \in 1 .. Len(q)
  PROVE  LET r == RemoveAt(q, i) IN
         /\ r \in Seq(Packet) /\ Len(r) = Len(q) - 1 /\ Len(q) \in Nat \ {0}
         /\ DOMAIN r = 1 .. Len(q) - 1 /\ DOMAIN q = 1 .. Len(q)
         /\ \A k \in 1 .. i - 1 : r[k] = q[k]
         /\ \A k \in i .. Len(q) - 1 : r[k] = q[k + 1]
<1>. DEFINE a == SubSeq(q, 1, i - 1)
            b == SubSeq(q, i + 1, Len(q))
            r == RemoveAt(q, i)
<1>1. Len(q) \in Nat /\ DOMAIN q = 1 .. Len(q)
  BY LenProperties
<1>7. \A k \in 1 .. Len(q) : q[k] \in Packet
  BY ElementOfSeq
<1>2. /\ a \in Seq(Packet) /\ Len(a) = i - 1
      /\ \A k \in 1 .. i - 1 : a[k] = q[k]
  <2>1. 1 \in Int /\ i - 1 \in Int /\ \A k \in 1 .. i - 1 : q[k] \in Packet
    BY <1>1, <1>7
  <2>2. /\ a \in Seq(Packet)
        /\ Len(a) = IF 1 <= i - 1 THEN i - 1 - 1 + 1 ELSE 0
        /\ \A k \in 1 .. i - 1 - 1 + 1 : a[k] = q[1 + k - 1]
    BY <2>1, SubSeqProperties
  <2>. QED
    BY <1>1, <2>2
<1>3. /\ b \in Seq(Packet) /\ Len(b) = Len(q) - i
      /\ \A k \in 1 .. Len(q) - i : b[k] = q[i + k]
  <2>1. i + 1 \in Int /\ Len(q) \in Int /\ \A k \in i + 1 .. Len(q) : q[k] \in Packet
    BY <1>1, <1>7
  <2>2. /\ b \in Seq(Packet)
        /\ Len(b) = IF i + 1 <= Len(q) THEN Len(q) - (i + 1) + 1 ELSE 0
        /\ \A k \in 1 .. Len(q) - (i + 1) + 1 : b[k] = q[i + 1 + k - 1]
    BY <2>1, SubSeqProperties
  <2>. HIDE DEF b
  <2>5. Len(b) = IF i + 1 <= Len(q) THEN Len(q) - (i + 1) + 1 ELSE 0
    BY <2>2
  <2>6. \A n \in Nat : i \in 1 .. n =>
          (IF i + 1 <= n THEN n - (i + 1) + 1 ELSE 0) = n - i
    OBVIOUS
  <2>3. Len(b) = Len(q) - i
    BY <1>1, <2>5, <2>6, Zenon
  <2>4. \A k \in 1 .. Len(q) - i : k \in 1 .. Len(q) - (i + 1) + 1 /\ i + 1 + k - 1 = i + k
    BY <1>1
  <2>. QED
    BY <2>2, <2>3, <2>4, Zenon
<1>. HIDE DEF a, b
<1>4. /\ a \o b \in Seq(Packet) /\ Len(a \o b) = Len(q) - 1
      /\ \A k \in 1 .. Len(q) - 1 : (a \o b)[k] = IF k < i THEN a[k] ELSE b[k - (i - 1)]
  <2>1. /\ a \o b \in Seq(Packet) /\ Len(a \o b) = Len(a) + Len(b)
        /\ \A k \in 1 .. Len(a) + Len(b) :
             (a \o b)[k] = IF k <= Len(a) THEN a[k] ELSE b[k - Len(a)]
    BY <1>2, <1>3, ConcatProperties
  <2>. QED
    BY <1>1, <1>2, <1>3, <2>1
<1>5. r = a \o b
  BY DEF RemoveAt, a, b
<1>. HIDE DEF r
<1>6. \A k \in 1 .. i - 1 : r[k] = q[k]
  <2>1. \A k \in 1 .. i - 1 : k \in 1 .. Len(q) - 1 /\ k < i
    BY <1>1
  <2>. QED
    BY <1>2, <1>4, <1>5, <2>1
<1>11. \A k \in i .. Len(q) - 1 : r[k] = q[k + 1]
  <2>1. \A k \in i .. Len(q) - 1 :
          /\ k \in 1 .. Len(q) - 1 /\ ~(k < i)
          /\ k - (i - 1) \in 1 .. Len(q) - i /\ i + (k - (i - 1)) = k + 1
    BY <1>1
  <2>. QED
    BY <1>3, <1>4, <1>5, <2>1
<1>8. r \in Seq(Packet) /\ Len(r) = Len(q) - 1
  BY <1>4, <1>5
<1>9. DOMAIN r = 1 .. Len(r)
  BY <1>8, LenProperties
<1>10. Len(q) \in Nat \ {0}
  BY <1>1
<1>. QED
  BY <1>1, <1>6, <1>8, <1>9, <1>10, <1>11 DEF r

\* What is in a sequence.
Contents(q) == {q[i] : i \in DOMAIN q}

\* The contents of a sequence that grows or shrinks.
LEMMA AppendedContents ==
  ASSUME NEW S, NEW q \in Seq(S), NEW p \in S
  PROVE  Contents(Append(q, p)) = Contents(q) \cup {p}
<1>. DEFINE r == Append(q, p)
<1>1. /\ Len(q) \in Nat /\ DOMAIN r = 1 .. Len(q) + 1 /\ DOMAIN q = 1 .. Len(q)
      /\ \A i \in 1 .. Len(q) : r[i] = q[i]
      /\ r[Len(q) + 1] = p
  BY Appended
<1>. HIDE DEF r
<1>2. \A i \in DOMAIN r : i \in DOMAIN q \/ i = Len(q) + 1
  BY <1>1
<1>3. DOMAIN q \subseteq DOMAIN r /\ Len(q) + 1 \in DOMAIN r
  BY <1>1
<1>4. Contents(r) = Contents(q) \cup {p}
  BY <1>1, <1>2, <1>3 DEF Contents
<1>. QED
  BY <1>4 DEF r

\* What a sequence held is its head and the rest.
LEMMA TakenContents ==
  ASSUME NEW S, NEW q \in Seq(S), q # <<>>
  PROVE  Contents(q) = Contents(Tail(q)) \cup {Head(q)}
<1>. DEFINE r == Tail(q)
<1>1. /\ Len(q) \in Nat \ {0} /\ DOMAIN r = 1 .. Len(q) - 1 /\ DOMAIN q = 1 .. Len(q)
      /\ Head(q) = q[1] /\ \A i \in 1 .. Len(q) - 1 : r[i] = q[i + 1]
  BY Taken
<1>. HIDE DEF r
<1>2. \A i \in DOMAIN q : i = 1 \/ (i - 1 \in DOMAIN r /\ r[i - 1] = q[i])
  BY <1>1
<1>3. \A i \in DOMAIN r : i + 1 \in DOMAIN q /\ r[i] = q[i + 1]
  BY <1>1
<1>6. \A n \in Nat \ {0} : 1 \in 1 .. n
  OBVIOUS
<1>5. 1 \in DOMAIN q
  BY <1>1, <1>6, Zenon
<1>4. Contents(q) = Contents(r) \cup {Head(q)}
  BY <1>1, <1>2, <1>3, <1>5 DEF Contents
<1>. QED
  BY <1>4 DEF r

\* What is left after a removal was there before, and so was what is removed.
LEMMA RemovedContents ==
  ASSUME NEW q \in Seq(Packet), NEW i \in 1 .. Len(q)
  PROVE  Contents(RemoveAt(q, i)) \subseteq Contents(q) /\ q[i] \in Contents(q)
<1>. DEFINE r == RemoveAt(q, i)
<1>1. /\ Len(q) \in Nat \ {0} /\ DOMAIN r = 1 .. Len(q) - 1 /\ DOMAIN q = 1 .. Len(q)
      /\ \A k \in 1 .. i - 1 : r[k] = q[k]
      /\ \A k \in i .. Len(q) - 1 : r[k] = q[k + 1]
  BY Removed
<1>. HIDE DEF r
<1>5. \A k \in 1 .. Len(q) - 1 : k \in 1 .. i - 1 \/ k \in i .. Len(q) - 1
  BY <1>1
<1>6. \A k \in 1 .. Len(q) - 1 : k \in 1 .. Len(q) /\ k + 1 \in 1 .. Len(q)
  BY <1>1
<1>2. \A k \in DOMAIN r : \/ k \in DOMAIN q /\ r[k] = q[k]
                          \/ k + 1 \in DOMAIN q /\ r[k] = q[k + 1]
  <2>1. \A k \in 1 .. Len(q) - 1 : \/ k \in 1 .. Len(q) /\ r[k] = q[k]
                                   \/ k + 1 \in 1 .. Len(q) /\ r[k] = q[k + 1]
    <3>. SUFFICES ASSUME NEW k \in 1 .. Len(q) - 1
                  PROVE  \/ k \in 1 .. Len(q) /\ r[k] = q[k]
                         \/ k + 1 \in 1 .. Len(q) /\ r[k] = q[k + 1]
      OBVIOUS
    <3>1. k \in 1 .. i - 1 \/ k \in i .. Len(q) - 1
      BY <1>5
    <3>2. k \in 1 .. Len(q) /\ k + 1 \in 1 .. Len(q)
      BY <1>6
    <3>3. r[k] = q[k] \/ r[k] = q[k + 1]
      BY <1>1, <3>1
    <3>. QED
      BY <3>2, <3>3
  <2>. QED
    BY <1>1, <2>1
<1>3. Contents(r) \subseteq Contents(q)
  BY <1>2 DEF Contents
<1>4. q[i] \in Contents(q)
  BY <1>1 DEF Contents
<1>. QED
  BY <1>3, <1>4 DEF r

\* The empty sequence holds nothing.
LEMMA NoContents == Contents(<<>>) = {}
<1>1. DOMAIN <<>> = 1 .. 0
  BY EmptySeq, LenProperties
<1>. QED
  BY <1>1 DEF Contents

\* Appending a packet adds its kind.
LEMMA AppendedKind ==
  ASSUME NEW q \in Seq(Packet), NEW p \in Packet, NEW kind
  PROVE  LET r == Append(q, p) IN
         /\ r \in Seq(Packet)
         /\ Holds(r, kind) <=> Holds(q, kind) \/ p.kind = kind
         /\ AtMostOne(q, kind) /\ (p.kind = kind => ~Holds(q, kind)) => AtMostOne(r, kind)
<1>. DEFINE r == Append(q, p)
<1>1. /\ r \in Seq(Packet) /\ Len(q) \in Nat
      /\ DOMAIN r = 1 .. Len(q) + 1 /\ DOMAIN q = 1 .. Len(q)
      /\ \A i \in 1 .. Len(q) : r[i] = q[i]
      /\ r[Len(q) + 1] = p
  BY Appended
<1>. HIDE DEF r
<1>2. \A i \in DOMAIN r : i \in DOMAIN q \/ i = Len(q) + 1
  BY <1>1
<1>3. DOMAIN q \subseteq DOMAIN r /\ Len(q) + 1 \in DOMAIN r
  BY <1>1
<1>. QED
  BY <1>1, <1>2, <1>3 DEF Holds, AtMostOne, r

\* Taking the head removes a packet of its kind.
LEMMA TakenKind ==
  ASSUME NEW q \in Seq(Packet), q # <<>>, NEW kind
  PROVE  LET r == Tail(q) IN
         /\ r \in Seq(Packet) /\ Head(q) \in Packet
         /\ Holds(q, kind) <=> Holds(r, kind) \/ Head(q).kind = kind
         /\ AtMostOne(q, kind) =>
              AtMostOne(r, kind) /\ (Head(q).kind = kind => ~Holds(r, kind))
<1>. DEFINE r == Tail(q)
<1>1. /\ r \in Seq(Packet) /\ Len(q) \in Nat \ {0}
      /\ DOMAIN r = 1 .. Len(q) - 1 /\ DOMAIN q = 1 .. Len(q)
      /\ Head(q) = q[1] /\ q[1] \in Packet
      /\ \A i \in 1 .. Len(q) - 1 : r[i] = q[i + 1]
  BY Taken
<1>. HIDE DEF r
<1>2. \A i \in DOMAIN q : i = 1 \/ (i - 1 \in DOMAIN r /\ r[i - 1] = q[i])
  BY <1>1
<1>3. \A i \in DOMAIN r : i + 1 \in DOMAIN q /\ i + 1 # 1 /\ r[i] = q[i + 1]
  BY <1>1
<1>4. \A i, j \in DOMAIN r : i + 1 = j + 1 => i = j
  BY <1>1
<1>5. 1 \in DOMAIN q
  BY <1>1
<1>6. Holds(q, kind) <=> Holds(r, kind) \/ Head(q).kind = kind
  <2>1. ASSUME Holds(q, kind) PROVE Holds(r, kind) \/ Head(q).kind = kind
    BY <1>1, <1>2, <2>1 DEF Holds
  <2>2. ASSUME Holds(r, kind) PROVE Holds(q, kind)
    BY <1>3, <2>2 DEF Holds
  <2>3. ASSUME Head(q).kind = kind PROVE Holds(q, kind)
    BY <1>1, <1>5, <2>3 DEF Holds
  <2>. QED
    BY <2>1, <2>2, <2>3
<1>7. ASSUME AtMostOne(q, kind) PROVE AtMostOne(r, kind)
  BY <1>3, <1>4, <1>7 DEF AtMostOne
<1>8. ASSUME AtMostOne(q, kind), Head(q).kind = kind PROVE ~Holds(r, kind)
  BY <1>1, <1>3, <1>5, <1>8 DEF AtMostOne, Holds
<1>. QED
  BY <1>1, <1>6, <1>7, <1>8 DEF r

\* Removing an element removes a packet of its kind.
LEMMA RemovedKind ==
  ASSUME NEW q \in Seq(Packet), NEW i \in 1 .. Len(q), NEW kind
  PROVE  LET r == RemoveAt(q, i) IN
         /\ r \in Seq(Packet) /\ q[i] \in Packet
         /\ Holds(q, kind) <=> Holds(r, kind) \/ q[i].kind = kind
         /\ AtMostOne(q, kind) =>
              AtMostOne(r, kind) /\ (q[i].kind = kind => ~Holds(r, kind))
         /\ \A k \in DOMAIN r : \E j \in DOMAIN q : r[k] = q[j]
<1>. DEFINE r == RemoveAt(q, i)
<1>1. i \in 1 .. Len(q)
  OBVIOUS
<1>2. /\ r \in Seq(Packet) /\ Len(q) \in Nat \ {0}
      /\ DOMAIN r = 1 .. Len(q) - 1 /\ DOMAIN q = 1 .. Len(q)
      /\ \A k \in 1 .. i - 1 : r[k] = q[k]
      /\ \A k \in i .. Len(q) - 1 : r[k] = q[k + 1]
  BY <1>1, Removed
<1>. HIDE DEF r
<1>3. q[i] \in Packet
  BY <1>1, ElementOfSeq
<1>. DEFINE f(k) == IF k < i THEN k ELSE k + 1
            g(j) == IF j < i THEN j ELSE j - 1
<1>4. \A k \in DOMAIN r : f(k) \in DOMAIN q /\ f(k) # i /\ r[k] = q[f(k)]
  BY <1>1, <1>2
<1>5. \A k, j \in DOMAIN r : f(k) = f(j) => k = j
  BY <1>1, <1>2
<1>6. \A j \in DOMAIN q : j = i \/ (g(j) \in DOMAIN r /\ r[g(j)] = q[j])
  <2>. SUFFICES ASSUME NEW j \in DOMAIN q, j # i
                PROVE  g(j) \in DOMAIN r /\ r[g(j)] = q[j]
    OBVIOUS
  <2>1. g(j) \in 1 .. Len(q) - 1 /\ f(g(j)) = j
    BY <1>1, <1>2
  <2>. QED
    BY <1>2, <2>1
<1>. HIDE DEF f, g
<1>7. Holds(q, kind) <=> Holds(r, kind) \/ q[i].kind = kind
  BY <1>4, <1>6 DEF Holds
<1>8. ASSUME AtMostOne(q, kind) PROVE AtMostOne(r, kind)
  BY <1>4, <1>5, <1>8 DEF AtMostOne
<1>9. ASSUME AtMostOne(q, kind), q[i].kind = kind PROVE ~Holds(r, kind)
  BY <1>4, <1>9 DEF AtMostOne, Holds
<1>. QED
  BY <1>2, <1>3, <1>4, <1>7, <1>8, <1>9 DEF r

-----------------------------------------------------------------------------
(* What the board does to its slots and to the pipe.                        *)

\* An answer is a packet, and says what it was made of.
LEMMA AnswerIsPacket ==
  ASSUME NEW request \in [command : Commands, run : RunIds], NEW st \in Statuses
  PROVE  LET a == Answer(request, st) IN
         /\ a \in Packet /\ a.kind = "answer"
         /\ a.command = request.command /\ a.status = st
BY ServiceAssumption DEF Answer, Packet

\* A verdict is a packet of the launch that ends.
LEMMA VerdictIsPacket ==
  ASSUME gen \in Nat, NEW st \in Verdicts
  PROVE  LET v == Verdict(st) IN
         v \in Packet /\ v.kind = "verdict" /\ v.status = st /\ v.gen = gen
BY ServiceAssumption DEF Verdict, Packet, Commands, Statuses

\* A frame is a packet of the launch whose data is sent.
LEMMA FrameIsPacket ==
  ASSUME gen \in Nat, next \in 0 .. Chunks, boardRun \in RunIds
  PROVE  /\ Frame \in Packet /\ IsFrame(Frame)
         /\ Frame.kind # "answer" /\ Frame.kind # "verdict"
         /\ Frame.run = boardRun /\ Frame.gen = gen /\ Frame.chunk = next
BY DEF Frame, Packet, Commands, Statuses, Verdicts, IsFrame

\* The board takes a request from its inbox, and answers it with a.
Takes(a) ==
  /\ inbox # <<>> /\ inbox' = Tail(inbox)
  /\ a \in Packet /\ a.kind = "answer" /\ a.command = Head(inbox).command
  /\ UNCHANGED <<linkUp, toHost>>

\* It answers, and goes on as before.
OnlyAnswers(a) ==
  /\ Takes(a) /\ slots' = Append(slots, a)
  /\ ~StartAccepted(a)
  /\ UNCHANGED <<board, boardRun, next, gen, lost>>

\* It starts the launch it was asked for.
StartsRun(a) ==
  /\ Takes(a) /\ slots' = Append(slots, a)
  /\ StartAccepted(a)
  /\ board = "idle" /\ board' = "running"
  /\ boardRun' = Head(inbox).run /\ gen' = gen + 1
  /\ UNCHANGED <<next, lost>>

\* The verdict of the launch that ends.
IsVerdict(v) == v.kind = "verdict" /\ v.status \in Verdicts /\ v.gen = gen

\* The launch ends: base are the slots that its verdict finds.
EndsRun(base) ==
  /\ board = "running" /\ board' \in {"idle", "sending"} /\ next' = 0
  /\ UNCHANGED <<boardRun, gen>>
  /\ \/ \E v \in Packet :
          /\ IsVerdict(v) /\ slots' = Append(base, v)
          /\ lost' \in BOOLEAN /\ (lost => lost')
     \/ slots' = base /\ lost' = TRUE

StopsRun(a) == Takes(a) /\ a.command # "Start" /\ EndsRun(Append(slots, a))
Serves(a) == OnlyAnswers(a) \/ StartsRun(a) \/ StopsRun(a)
EndsByItself ==
  EndsRun(slots) /\ UNCHANGED <<linkUp, inbox, toHost>>

\* finishRun ends the run.
LEMMA FinishEnds ==
  ASSUME BoardType, NEW st \in Verdicts, NEW replies, FinishRun(st, replies),
         board = "running", UNCHANGED <<boardRun, gen>>
  PROVE  EndsRun(slots \o replies) /\ driving' \in BOOLEAN
<1>1. /\ board' \in {"idle", "sending"} /\ next' = 0 /\ driving' = FALSE
      /\ \/ slots' = Append(slots \o replies, Verdict(st))
            /\ lost' = (lost \/ st = "AcquisitionError")
         \/ slots' = slots \o replies /\ lost' = TRUE
  BY DEF FinishRun
<1>2. LET v == Verdict(st) IN
      v \in Packet /\ v.kind = "verdict" /\ v.status = st /\ v.gen = gen
  BY VerdictIsPacket DEF BoardType
<1>. QED
  BY <1>1, <1>2 DEF EndsRun, IsVerdict, BoardType

\* Whatever the request, the board answers it and does one of three things.
LEMMA ServiceAnswers ==
  ASSUME BoardType, ServeStart \/ ServeStop \/ ServeCoil
  PROVE  (\E a \in Packet : Serves(a)) /\ driving' \in BOOLEAN
<1>1. inbox # <<>>
  BY DEF ServeStart, ServeStop, ServeCoil, Serving
<1>2. Head(inbox) \in [command : Commands, run : RunIds]
  BY <1>1, HeadTailProperties DEF BoardType
<1>. DEFINE a(st) == Answer(Head(inbox), st)
<1>3. \A st \in Statuses : /\ a(st) \in Packet /\ a(st).kind = "answer"
                           /\ a(st).command = Head(inbox).command /\ a(st).status = st
  BY <1>2, AnswerIsPacket
<1>4. {"Success", "AcquisitionError", "Busy", "Blocked", "Ended", "HostAborted"} \subseteq Statuses
  BY DEF Statuses, Verdicts
<1>. HIDE DEF a
<1>5. CASE ServeStart
  <2>1. CASE /\ board = "idle" /\ board' = "running" /\ boardRun' = Head(inbox).run
             /\ gen' = gen + 1 /\ slots' = Append(slots, a("Success"))
             /\ UNCHANGED driving
    <3>1. StartsRun(a("Success"))
      BY <1>1, <1>3, <1>4, <1>5, <2>1
         DEF ServeStart, Serving, StartsRun, Takes, StartAccepted, StartAnswered
    <3>. QED
      BY <1>3, <1>4, <2>1, <3>1 DEF Serves, BoardType
  <2>2. CASE /\ slots' = Append(slots, a(IF board = "idle" THEN "AcquisitionError" ELSE "Busy"))
             /\ driving' = (driving /\ board # "idle")
             /\ UNCHANGED <<board, boardRun, gen>>
    <3>. DEFINE st == IF board = "idle" THEN "AcquisitionError" ELSE "Busy"
    <3>1. st \in Statuses /\ st # "Success"
      BY <1>4
    <3>. HIDE DEF st
    <3>2. OnlyAnswers(a(st))
      BY <1>1, <1>3, <1>5, <2>2, <3>1
         DEF st, ServeStart, OnlyAnswers, Takes, StartAccepted
    <3>. QED
      BY <1>3, <2>2, <3>1, <3>2 DEF Serves, BoardType
  <2>. QED
    BY <1>5, <2>1, <2>2 DEF ServeStart, a
<1>6. CASE ServeStop
  <2>1. Head(inbox).command \in {"Stop", "Abort"}
    BY <1>6 DEF ServeStop, Serving
  <2>2. CASE board = "running"
    <3>. DEFINE st == IF Serving("Stop") THEN "Success" ELSE "HostAborted"
    <3>1. FinishRun(st, <<a("Success")>>) /\ UNCHANGED <<linkUp, boardRun, toHost, gen>>
      BY <1>6, <2>2 DEF ServeStop, a
    <3>2. st \in Verdicts
      BY DEF Verdicts
    <3>. HIDE DEF st
    <3>3. EndsRun(slots \o <<a("Success")>>) /\ driving' \in BOOLEAN
      BY <2>2, <3>1, <3>2, FinishEnds
    <3>4. slots \o <<a("Success")>> = Append(slots, a("Success"))
      BY <1>3, <1>4, AppendIsConcat DEF BoardType
    <3>5. StopsRun(a("Success"))
      BY <1>1, <1>3, <1>4, <1>6, <2>1, <3>1, <3>3, <3>4 DEF StopsRun, Takes, ServeStop
    <3>. QED
      BY <1>3, <1>4, <3>3, <3>5 DEF Serves
  <2>3. CASE board # "running"
    <3>1. OnlyAnswers(a("Busy"))
      BY <1>1, <1>3, <1>4, <1>6, <2>1, <2>3
         DEF ServeStop, OnlyAnswers, Takes, StartAccepted, StartAnswered, a
    <3>. QED
      BY <1>3, <1>4, <1>6, <2>3, <3>1 DEF Serves, ServeStop, BoardType
  <2>. QED
    BY <2>2, <2>3
<1>7. CASE ServeCoil
  <2>. DEFINE st == IF Debug \/ board = "running" THEN "Success" ELSE "Blocked"
  <2>1. st \in Statuses
    BY <1>4
  <2>2. Head(inbox).command \in {"Drive", "Sleep"} /\ slots' = Append(slots, a(st))
    BY <1>7 DEF ServeCoil, Serving, a
  <2>3. driving' \in BOOLEAN
    BY <1>7 DEF ServeCoil, Serving, BoardType
  <2>. HIDE DEF st
  <2>4. OnlyAnswers(a(st))
    BY <1>1, <1>3, <1>7, <2>1, <2>2
       DEF ServeCoil, OnlyAnswers, Takes, StartAccepted, StartAnswered
  <2>. QED
    BY <1>3, <2>1, <2>3, <2>4 DEF Serves
<1>. QED
  BY <1>5, <1>6, <1>7

\* A run that ends by itself.
LEMMA RunEndsByItself ==
  ASSUME BoardType, RunEnds
  PROVE  EndsByItself /\ driving' \in BOOLEAN
<1>1. PICK st \in {"Ended", "AcquisitionError"} : FinishRun(st, <<>>)
  BY DEF RunEnds
<1>2. board = "running" /\ UNCHANGED <<linkUp, inbox, boardRun, toHost, gen>>
  BY DEF RunEnds
<1>3. slots \o <<>> = slots
  BY ConcatEmptySeq DEF BoardType
<1>4. EndsRun(slots \o <<>>) /\ driving' \in BOOLEAN
  BY <1>1, <1>2, FinishEnds DEF Verdicts
<1>. QED
  BY <1>2, <1>3, <1>4 DEF EndsByItself

-----------------------------------------------------------------------------
(* Types, and where the threads and the registered request are.             *)

\* The effects of the end of a run on the types.
LEMMA EndsRunType ==
  ASSUME NEW base \in Seq(Packet), EndsRun(base), BoardType
  PROVE  /\ slots' \in Seq(Packet) /\ next' \in 0 .. Chunks /\ lost' \in BOOLEAN
         /\ board' \in {"idle", "sending"} /\ boardRun' = boardRun /\ gen' = gen
<1>1. \A v \in Packet : Append(base, v) \in Seq(Packet)
  BY AppendProperties
<1>2. /\ board' \in {"idle", "sending"} /\ boardRun' = boardRun /\ gen' = gen /\ next' = 0
      /\ \/ \E v \in Packet : slots' = Append(base, v) /\ lost' \in BOOLEAN
         \/ slots' = base /\ lost' = TRUE
  BY DEF EndsRun
<1>3. 0 \in 0 .. Chunks
  BY ServiceAssumption
<1>4. slots' \in Seq(Packet)
  BY <1>1, <1>2
<1>. QED
  BY <1>2, <1>3, <1>4

\* A request that is served leaves the board well typed.
LEMMA ServesType ==
  ASSUME BoardType, driving' \in BOOLEAN, NEW a \in Packet, Serves(a)
  PROVE  BoardType'
<1>1. Append(slots, a) \in Seq(Packet)
  BY AppendProperties DEF BoardType
<1>2. Takes(a)
  BY DEF Serves, OnlyAnswers, StartsRun, StopsRun
<1>3. inbox' \in Seq([command : Commands, run : RunIds])
  BY <1>2, HeadTailProperties DEF Takes, BoardType
<1>4. Head(inbox) \in [command : Commands, run : RunIds]
  BY <1>2, HeadTailProperties DEF Takes, BoardType
<1>5. CASE OnlyAnswers(a)
  BY <1>1, <1>2, <1>3, <1>5 DEF OnlyAnswers, Takes, BoardType
<1>6. CASE StartsRun(a)
  BY <1>1, <1>2, <1>3, <1>4, <1>6 DEF StartsRun, Takes, BoardType
<1>7. CASE StopsRun(a)
  <2>1. EndsRun(Append(slots, a))
    BY <1>7 DEF StopsRun
  <2>. QED
    BY <1>1, <1>2, <1>3, <2>1, EndsRunType DEF Takes, BoardType
<1>. QED
  BY <1>5, <1>6, <1>7 DEF Serves

\* Every step of the board keeps it well typed.
LEMMA BoardTypeStep ==
  ASSUME BoardType, Board \/ LinkLoss \/ Unread
  PROVE  BoardType'
<1>1. CASE ServeStart \/ ServeStop \/ ServeCoil
  BY <1>1, ServiceAnswers, ServesType
<1>2. CASE RunEnds
  <2>1. EndsByItself /\ driving' \in BOOLEAN
    BY <1>2, RunEndsByItself
  <2>. QED
    BY <2>1, EndsRunType DEF EndsByItself, BoardType
<1>3. CASE EmitSlot
  <2>1. PICK i \in DOMAIN slots :
          toHost' = Append(toHost, slots[i]) /\ slots' = RemoveAt(slots, i)
    BY <1>3 DEF EmitSlot
  <2>2. slots \in Seq(Packet) /\ toHost \in Seq(Packet)
    BY DEF BoardType
  <2>3. i \in 1 .. Len(slots)
    BY <2>2, LenProperties
  <2>4. slots' \in Seq(Packet)
    BY <2>1, <2>2, <2>3, Removed
  <2>5. slots[i] \in Packet
    BY <2>2, <2>3, ElementOfSeq
  <2>6. toHost' \in Seq(Packet) /\ Len(toHost') = Len(toHost) + 1 /\ Len(toHost) \in Nat
    BY <2>1, <2>2, <2>5, AppendProperties, LenProperties
  <2>. QED
    BY <1>3, <2>4, <2>6, ServiceAssumption DEF EmitSlot, HasRoom, BoardType
<1>4. CASE EmitFrame
  <2>1. Frame \in Packet /\ toHost \in Seq(Packet)
    BY FrameIsPacket DEF BoardType
  <2>2. toHost' \in Seq(Packet) /\ Len(toHost') = Len(toHost) + 1 /\ Len(toHost) \in Nat
    BY <1>4, <2>1, AppendProperties, LenProperties DEF EmitFrame
  <2>3. next' \in 0 .. Chunks /\ board' \in {"idle", "running", "sending"}
    BY <1>4, ServiceAssumption DEF EmitFrame, BoardType
  <2>. QED
    BY <1>4, <2>2, <2>3, ServiceAssumption DEF EmitFrame, HasRoom, BoardType
<1>5. CASE LinkLoss \/ Unread
  <2>1. <<>> \in Seq(Packet) /\ <<>> \in Seq([command : Commands, run : RunIds])
        /\ Len(<<>>) = 0
    BY EmptySeq
  <2>2. linkUp' = FALSE /\ BoardResets
    BY <1>5 DEF LinkLoss, Unread
  <2>3. /\ linkUp' = FALSE /\ inbox' = <<>> /\ slots' = <<>> /\ toHost' = <<>>
        /\ board' = "idle" /\ next' = 0 /\ driving' = FALSE
        /\ boardRun' = boardRun /\ gen' = gen /\ lost' = lost
    BY <2>2 DEF BoardResets
  <2>4. 0 \in 0 .. Chunks /\ 0 <= PipeLength
    BY ServiceAssumption
  <2>5. /\ toHost' \in Seq(Packet) /\ slots' \in Seq(Packet) /\ Len(toHost') <= PipeLength
        /\ inbox' \in Seq([command : Commands, run : RunIds])
    BY <2>1, <2>3, <2>4
  <2>. QED
    BY <2>3, <2>4, <2>5 DEF BoardType
<1>. QED
  BY <1>1, <1>2, <1>3, <1>4, <1>5 DEF Board

\* The end of a run adds its verdict, if anything.
LEMMA EndsRunContents ==
  ASSUME NEW base \in Seq(Packet), EndsRun(base)
  PROVE  \A p \in Contents(slots') : p \in Contents(base) \/ (p \in Packet /\ IsVerdict(p))
<1>1. \/ \E v \in Packet : IsVerdict(v) /\ slots' = Append(base, v)
      \/ slots' = base
  BY DEF EndsRun
<1>2. \A v \in Packet : Contents(Append(base, v)) = Contents(base) \cup {v}
  BY AppendedContents
<1>. QED
  BY <1>1, <1>2

\* What waits in a slot was there, or is an answer or a verdict of this step.
LEMMA SlotContents ==
  ASSUME BoardType, Board \/ LinkLoss \/ Unread
  PROVE  \A p \in Contents(slots') :
           \/ p \in Contents(slots)
           \/ p \in Packet /\ IsVerdict(p) /\ board = "running"
           \/ p \in Packet /\ Serves(p)
<1>0. slots \in Seq(Packet)
  BY DEF BoardType
<1>1. CASE ServeStart \/ ServeStop \/ ServeCoil
  <2>1. PICK a \in Packet : Serves(a)
    BY <1>1, ServiceAnswers
  <2>2. Append(slots, a) \in Seq(Packet) /\ Contents(Append(slots, a)) = Contents(slots) \cup {a}
    BY <1>0, AppendProperties, AppendedContents
  <2>3. CASE StopsRun(a)
    <3>1. EndsRun(Append(slots, a)) /\ board = "running"
      BY <2>3 DEF StopsRun, EndsRun
    <3>. QED
      BY <2>1, <2>2, <3>1, EndsRunContents
  <2>4. CASE slots' = Append(slots, a)
    BY <2>1, <2>2, <2>4
  <2>. QED
    BY <2>1, <2>3, <2>4 DEF Serves, OnlyAnswers, StartsRun
<1>2. CASE RunEnds
  <2>1. EndsRun(slots) /\ board = "running"
    BY <1>2, RunEndsByItself DEF EndsByItself, EndsRun
  <2>. QED
    BY <1>0, <2>1, EndsRunContents
<1>3. CASE EmitSlot
  <2>1. PICK i \in DOMAIN slots : slots' = RemoveAt(slots, i)
    BY <1>3 DEF EmitSlot
  <2>2. i \in 1 .. Len(slots)
    BY <1>0, LenProperties
  <2>. QED
    BY <1>0, <2>1, <2>2, RemovedContents
<1>4. CASE EmitFrame
  BY <1>4 DEF EmitFrame
<1>5. CASE LinkLoss \/ Unread
  <2>1. slots' = <<>>
    BY <1>5 DEF LinkLoss, Unread, BoardResets
  <2>. QED
    BY <2>1, NoContents
<1>. QED
  BY <1>1, <1>2, <1>3, <1>4, <1>5 DEF Board

\* What is in the pipe was there, was in a slot, or is the frame of this step.
LEMMA PipeContents ==
  ASSUME BoardType, Board \/ LinkLoss \/ Unread
  PROVE  \A p \in Contents(toHost') :
           p \in Contents(toHost) \/ p \in Contents(slots) \/ (EmitFrame /\ p = Frame)
<1>0. slots \in Seq(Packet) /\ toHost \in Seq(Packet)
  BY DEF BoardType
<1>1. CASE UNCHANGED toHost
  BY <1>1
<1>2. CASE EmitSlot
  <2>1. PICK i \in DOMAIN slots : toHost' = Append(toHost, slots[i])
    BY <1>2 DEF EmitSlot
  <2>2. i \in 1 .. Len(slots)
    BY <1>0, LenProperties
  <2>3. slots[i] \in Contents(slots) /\ slots[i] \in Packet
    BY <1>0, <2>2, RemovedContents, ElementOfSeq
  <2>4. Contents(toHost') = Contents(toHost) \cup {slots[i]}
    BY <1>0, <2>1, <2>3, AppendedContents
  <2>. QED
    BY <2>3, <2>4
<1>3. CASE EmitFrame
  <2>1. Frame \in Packet
    BY FrameIsPacket DEF BoardType
  <2>2. Contents(toHost') = Contents(toHost) \cup {Frame}
    BY <1>0, <1>3, <2>1, AppendedContents DEF EmitFrame
  <2>. QED
    BY <1>3, <2>2
<1>4. CASE LinkLoss \/ Unread
  <2>1. toHost' = <<>>
    BY <1>4 DEF LinkLoss, Unread, BoardResets
  <2>. QED
    BY <2>1, NoContents
<1>5. CASE ServeStart \/ ServeStop \/ ServeCoil \/ RunEnds
  <2>1. UNCHANGED toHost
    BY <1>5 DEF ServeStart, ServeStop, ServeCoil, RunEnds
  <2>. QED
    BY <1>1, <2>1
<1>. QED
  BY <1>2, <1>3, <1>4, <1>5 DEF Board

-----------------------------------------------------------------------------
(* The first invariants: types, and where the two threads are.              *)

\* A part of the state keeps its type when nothing changes it.
LEMMA TypesKept ==
  /\ BoardType /\ UNCHANGED boardVars => BoardType'
  /\ MainType /\ UNCHANGED mainVars => MainType'
  /\ RequestType /\ UNCHANGED requestVars => RequestType'
  /\ LaunchType /\ UNCHANGED launchVars => LaunchType'
  /\ DataType /\ UNCHANGED dataVars => DataType'
  /\ ReceiverType /\ UNCHANGED receiverVars => ReceiverType'
<1>1. BoardType /\ UNCHANGED boardVars => BoardType'
  BY DEF BoardType
<1>2. MainType /\ UNCHANGED mainVars => MainType'
  BY DEF MainType
<1>3. RequestType /\ UNCHANGED requestVars => RequestType'
  BY DEF RequestType
<1>4. LaunchType /\ UNCHANGED launchVars => LaunchType'
  BY DEF LaunchType
<1>5. DataType /\ UNCHANGED dataVars => DataType'
  BY DEF DataType
<1>6. ReceiverType /\ UNCHANGED receiverVars => ReceiverType'
  BY DEF ReceiverType
<1>. QED
  BY <1>1, <1>2, <1>3, <1>4, <1>5, <1>6

SessionInv ==
  /\ TypeOK /\ PacketsAreOfTheirKind /\ LostLinkIsSilent
  /\ CallsAreServed /\ RequestIsRegistered

\* The packets that wait or travel stay what they are.
LEMMA KindsKept ==
  ASSUME BoardType, PacketsAreOfTheirKind, Board \/ LinkLoss \/ Unread
  PROVE  PacketsAreOfTheirKind'
<1>. DEFINE Said(p) == /\ p.kind = "verdict" => p.status \in Verdicts
                       /\ p.kind = "final" => p.chunk = Chunks
<1>1. /\ \A p \in Contents(slots) : p.kind \in {"answer", "verdict"} /\ Said(p)
      /\ \A p \in Contents(toHost) : Said(p)
  BY DEF PacketsAreOfTheirKind, Contents
<1>2. \A p : Serves(p) => p.kind = "answer"
  BY DEF Serves, OnlyAnswers, StartsRun, StopsRun, Takes
<1>3. \A p : IsVerdict(p) => p.kind = "verdict" /\ p.status \in Verdicts
  BY DEF IsVerdict
<1>4. Said(Frame)
  <2>1. Frame.kind = (IF next < Chunks THEN "data" ELSE "final") /\ Frame.chunk = next
    BY DEF Frame
  <2>2. ~(next < Chunks) => next = Chunks
    BY ServiceAssumption DEF BoardType
  <2>. QED
    BY <2>1, <2>2
<1>5. \A p \in Contents(slots') : p.kind \in {"answer", "verdict"} /\ Said(p)
  BY <1>1, <1>2, <1>3, SlotContents
<1>. HIDE DEF Said
<1>6. \A p \in Contents(toHost') : Said(p)
  BY <1>1, <1>4, PipeContents
<1>7. /\ \A i \in DOMAIN slots' : slots'[i] \in Contents(slots')
      /\ \A i \in DOMAIN toHost' : toHost'[i] \in Contents(toHost')
  BY DEF Contents
<1>8. /\ \A i \in DOMAIN slots' : slots'[i].kind \in {"answer", "verdict"} /\ Said(slots'[i])
      /\ \A i \in DOMAIN toHost' : Said(toHost'[i])
  BY <1>5, <1>6, <1>7
<1>9. \A q \in {slots', toHost'} : \A i \in DOMAIN q : Said(q[i])
  <2>1. \A i \in DOMAIN slots' : Said(slots'[i])
    BY <1>8
  <2>2. \A i \in DOMAIN toHost' : Said(toHost'[i])
    BY <1>8
  <2>. QED
    BY <2>1, <2>2, Zenon
<1>10. \A q \in {slots', toHost'} : \A i \in DOMAIN q :
         /\ q[i].kind = "verdict" => q[i].status \in Verdicts
         /\ q[i].kind = "final" => q[i].chunk = Chunks
  BY <1>9 DEF Said
<1>. QED
  BY <1>8, <1>10 DEF PacketsAreOfTheirKind

\* A step of the board leaves the two threads where they were.
LEMMA BoardSession ==
  ASSUME SessionInv, BoardStep \/ BoardEvent \/ Unread
  PROVE  SessionInv'
<1>1. Board \/ LinkLoss \/ Unread
  BY DEF BoardStep, BoardEvent
<1>2. UNCHANGED clientVars
  BY DEF BoardStep, BoardEvent, Unread
<1>3. TypeOK'
  BY <1>1, <1>2, BoardTypeStep, TypesKept DEF SessionInv, TypeOK
<1>4. PacketsAreOfTheirKind'
  BY <1>1, KindsKept DEF SessionInv, TypeOK
<1>5. CallsAreServed'
  BY <1>2 DEF SessionInv, CallsAreServed, Starting
<1>6. linkUp' => linkUp
  BY <1>1 DEF Board, LinkLoss, Unread, ServeStart, ServeStop, ServeCoil, RunEnds,
     EmitSlot,
              EmitFrame
<1>7. RequestIsRegistered'
  BY <1>2, <1>6 DEF SessionInv, RequestIsRegistered, Command
<1>8. LostLinkIsSilent'
  <2>1. CASE LinkLoss \/ Unread
    BY <2>1 DEF LinkLoss, Unread, BoardResets, LostLinkIsSilent
  <2>2. CASE Board
    <3>1. linkUp' = linkUp
      BY <2>2 DEF Board, ServeStart, ServeStop, ServeCoil, RunEnds, EmitSlot, EmitFrame
    <3>2. linkUp
      <4>1. inbox # <<>> \/ board = "running" \/ linkUp
        BY <2>2 DEF Board, ServeStart, ServeStop, ServeCoil, Serving, RunEnds, EmitSlot,
                    EmitFrame, HasRoom
      <4>. QED
        BY <4>1 DEF SessionInv, LostLinkIsSilent
    <3>. QED
      BY <3>1, <3>2 DEF LostLinkIsSilent
  <2>. QED
    BY <1>1, <2>1, <2>2
<1>. QED
  BY <1>3, <1>4, <1>5, <1>7, <1>8 DEF SessionInv


\* A step of the program's thread, the receiver's data and the board left alone.
LEMMA CallSession ==
  ASSUME SessionInv, BeginStart \/ BeginStop \/ BeginOther \/ BeginClose
  PROVE  SessionInv'
<1>. USE DEF SessionInv
<1>1. UNCHANGED <<boardVars, requestVars>> /\ pc = "idle"
  BY DEF BeginStart, BeginStop, BeginOther, BeginClose, Enter
<1>2. PacketsAreOfTheirKind' /\ LostLinkIsSilent' /\ BoardType'
  BY <1>1, TypesKept DEF PacketsAreOfTheirKind, LostLinkIsSilent, TypeOK
<1>3. RequestIsRegistered'
  <2>1. pc' # "await"
    BY DEF BeginStart, BeginStop, BeginOther, BeginClose, Enter
  <2>. QED
    BY <1>1, <2>1 DEF RequestIsRegistered
<1>4. CASE BeginStart
  <2>1. nextRun \in RunIds /\ nextRun + 1 \in RunIds /\ nextRun + 1 <= MaxStarts
        /\ nextRun + 1 - 1 = nextRun /\ nextRun \in Nat
    BY <1>4, ServiceAssumption, ClientAssumption DEF TypeOK, MainType, BeginStart
  <2>2. TypeOK'
    <3>1. MainType' /\ LaunchType' /\ DataType' /\ ReceiverType'
      BY <1>4, <2>1, EmptySeq
         DEF TypeOK, MainType, LaunchType, DataType, ReceiverType, BeginStart, Enter
    <3>. QED
      BY <1>1, <1>2, <1>4, <3>1, TypesKept DEF TypeOK, BeginStart
  <2>4. nextRun # NoRun
    BY <2>1 DEF NoRun
  <2>3. CallsAreServed'
    BY <1>4, <2>1, <2>4 DEF CallsAreServed, BeginStart, Enter, Starting
  <2>. QED
    BY <1>2, <1>3, <2>2, <2>3
<1>5. CASE BeginStop \/ BeginOther \/ BeginClose
  <2>1. TypeOK'
    <3>1. MainType'
      BY <1>5 DEF TypeOK, MainType, BeginStop, BeginOther, BeginClose, Enter
    <3>2. UNCHANGED <<launchVars, dataVars, receiverVars, background, late>>
          /\ result' \in {result, None}
      BY <1>5 DEF BeginStop, BeginOther, BeginClose
    <3>. QED
      BY <1>1, <1>2, <3>1, <3>2, TypesKept DEF TypeOK
  <2>2. CallsAreServed'
    BY <1>5 DEF CallsAreServed, BeginStop, BeginOther, BeginClose, Enter, Starting
  <2>. QED
    BY <1>2, <1>3, <2>1, <2>2
<1>. QED
  BY <1>4, <1>5

\* The request and its answer.
LEMMA RequestSession ==
  ASSUME SessionInv, SendRequest
  PROVE  SessionInv'
<1>. USE DEF SessionInv
<1>1. pc = "request" /\ call \in {"Start", "Stop", "Abort", "Drive", "CloseAbort", "CloseSleep"}
  BY DEF SendRequest, CallsAreServed
<1>2. Command \in Commands
  BY <1>1 DEF Command, Commands
<1>3. CASE linkUp /\ ~background
  <2>. DEFINE r == [command |-> Command, run |-> IF call = "Start" THEN activeRun ELSE 0]
  <2>1. r \in [command : Commands, run : RunIds]
    <3>1. call = "Start" => activeRun # NoRun
      BY <1>1 DEF CallsAreServed, Starting
    <3>2. activeRun \in RunIds \/ call # "Start"
      BY <3>1 DEF TypeOK, LaunchType
    <3>. QED
      BY <1>2, <3>2, ServiceAssumption
  <2>. HIDE DEF r
  <2>2. /\ pending' = Command /\ UNCHANGED <<answered, response, late>>
        /\ inbox' = Append(inbox, r) /\ pc' = "await" /\ UNCHANGED <<call, nextRun>>
        /\ UNCHANGED <<linkUp, board, boardRun, slots, next, driving, toHost, gen, lost,
                 launchVars, dataVars, background, receiverVars, result>>
    BY <1>3 DEF SendRequest, Goto, r
  <2>3. inbox' \in Seq([command : Commands, run : RunIds])
    BY <2>1, <2>2, AppendProperties DEF TypeOK, BoardType
  <2>4. TypeOK'
    <3>1. BoardType' /\ RequestType' /\ MainType'
      BY <1>2, <2>2, <2>3 DEF TypeOK, BoardType, RequestType, MainType
    <3>. QED
      BY <2>2, <3>1, TypesKept DEF TypeOK
  <2>5. PacketsAreOfTheirKind' /\ LostLinkIsSilent'
    BY <1>3, <2>2 DEF PacketsAreOfTheirKind, LostLinkIsSilent
  <2>6. CallsAreServed'
    BY <1>1, <2>2 DEF CallsAreServed, Starting
  <2>7. RequestIsRegistered'
    BY <1>1, <2>2 DEF RequestIsRegistered, Command
  <2>. QED
    BY <2>4, <2>5, <2>6, <2>7
<1>4. CASE ~(linkUp /\ ~background)
  <2>1. /\ pc' \in {"idle", "failed"} /\ late' = TRUE /\ UNCHANGED <<call, nextRun>>
        /\ UNCHANGED <<boardVars, requestVars, launchVars, dataVars, background,
                       receiverVars, result>>
    BY <1>4 DEF SendRequest, Goto
  <2>2. TypeOK'
    <3>1. MainType'
      BY <2>1 DEF TypeOK, MainType
    <3>. QED
      BY <2>1, <3>1, TypesKept DEF TypeOK
  <2>3. PacketsAreOfTheirKind' /\ LostLinkIsSilent'
    BY <2>1 DEF PacketsAreOfTheirKind, LostLinkIsSilent
  <2>4. CallsAreServed'
    BY <1>1, <2>1 DEF CallsAreServed, Starting
  <2>5. RequestIsRegistered'
    BY <1>1, <2>1 DEF RequestIsRegistered
  <2>. QED
    BY <2>2, <2>3, <2>4, <2>5
<1>. QED
  BY <1>3, <1>4

\* The program's thread goes on, and no request is left behind.
LEMMA ProgramSession ==
  ASSUME SessionInv,
         \/ TakeResponse \/ HandleFailure \/ Started \/ TakeVerdict \/ TakeData
         \/ StopWaiting \/ SensorNotified \/ Timeout \/ Interrupt
  PROVE  SessionInv'
<1>. USE DEF SessionInv, Goto, Forget, AfterError, EndSensorWait, Fail, Finish
<1>1. UNCHANGED <<boardVars, receiverVars, dataVars, background, nextRun, status, statusEvent,
                  verdictOf>>
  BY DEF TakeResponse, HandleFailure, Started, TakeVerdict, TakeData, StopWaiting,
         SensorNotified, Timeout, Interrupt
<1>2. PacketsAreOfTheirKind' /\ LostLinkIsSilent' /\ BoardType'
  BY <1>1, TypesKept DEF PacketsAreOfTheirKind, LostLinkIsSilent, TypeOK
<1>3. RequestIsRegistered'
  <2>1. CASE TakeResponse \/ Timeout \/ Interrupt
    BY <2>1 DEF RequestIsRegistered, TakeResponse, AfterSuccess, Timeout, Interrupt
  <2>2. CASE HandleFailure \/ Started \/ TakeVerdict \/ TakeData \/ StopWaiting
             \/ SensorNotified
    <3>1. pc # "await" /\ pc' # "await" /\ UNCHANGED requestVars
      BY <2>2 DEF HandleFailure, Started, TakeVerdict, TakeData, StopWaiting,
         SensorNotified
    <3>. QED
      BY <3>1 DEF RequestIsRegistered
  <2>. QED
    BY <2>1, <2>2
<1>. HIDE DEF SessionInv
<1>4. TypeOK /\ CallsAreServed
  BY DEF SessionInv
<1>11. BoardType' /\ DataType' /\ ReceiverType' /\ background' \in BOOLEAN
  BY <1>1, <1>2, <1>4, TypesKept DEF TypeOK
<1>5. CASE TakeResponse
  <2>1. /\ pc = "await" /\ pc' \in {"failed", "started", "verdict", "closed", "idle"}
        /\ (pc' = "started" => call = "Start") /\ (pc' = "verdict" => call # "Start")
        /\ UNCHANGED <<call, nextRun, launchVars, historyVars>>
        /\ pending' = None /\ answered' = FALSE /\ response' = None
    BY <1>5 DEF TakeResponse, AfterSuccess
  <2>2. TypeOK'
    <3>1. MainType' /\ RequestType' /\ LaunchType' /\ UNCHANGED <<late, result>>
      BY <1>1, <1>4, <1>5
         DEF TypeOK, MainType, RequestType, LaunchType, TakeResponse, AfterSuccess
    <3>. QED
      BY <1>4, <1>11, <3>1 DEF TypeOK
  <2>3. CallsAreServed'
    BY <1>1, <1>4, <2>1 DEF CallsAreServed, Starting
  <2>. QED
    BY <1>2, <1>3, <2>2, <2>3 DEF SessionInv
<1>6. CASE HandleFailure
  <2>1. TypeOK'
    <3>1. MainType' /\ RequestType' /\ LaunchType' /\ UNCHANGED <<late, result>>
      BY <1>1, <1>4, <1>6
         DEF TypeOK, MainType, RequestType, LaunchType, HandleFailure
    <3>. QED
      BY <1>4, <1>11, <3>1 DEF TypeOK
  <2>2. CallsAreServed'
    BY <1>1, <1>4, <1>6 DEF CallsAreServed, Starting, HandleFailure
  <2>. QED
    BY <1>2, <1>3, <2>1, <2>2 DEF SessionInv
<1>7. CASE Started
  <2>1. TypeOK'
    <3>1. MainType' /\ RequestType' /\ LaunchType' /\ UNCHANGED <<late, result>>
      BY <1>1, <1>4, <1>7
         DEF TypeOK, MainType, RequestType, LaunchType, Started
    <3>. QED
      BY <1>4, <1>11, <3>1 DEF TypeOK
  <2>2. CallsAreServed'
    BY <1>1, <1>4, <1>7 DEF CallsAreServed, Starting, Started
  <2>. QED
    BY <1>2, <1>3, <2>1, <2>2 DEF SessionInv
<1>8. CASE TakeVerdict \/ TakeData
  <2>1. /\ pc \in {"verdict", "data"} /\ pc' \in {"idle", "closed", "data", "request"}
        /\ UNCHANGED <<requestVars, late>>
        /\ \/ UNCHANGED <<call, launchVars, result>> /\ pc' # "request"
              /\ (pc' = "data" => status # None)
           \/ /\ activeRun' = NoRun /\ active' = FALSE /\ pc' # "data"
              /\ call' = (IF pc' = "request" THEN "CloseSleep" ELSE call)
              /\ result' \in {None, data}
    <3>1. CASE TakeData
      BY <3>1 DEF TakeData
    <3>2. CASE TakeVerdict
      <4>. HIDE DEF Fail, Finish
      <4>0. /\ pc = "verdict" /\ UNCHANGED <<requestVars, late>>
            /\ \/ Fail
               \/ status # None /\ Goto("data") /\ UNCHANGED <<launchVars, result>>
               \/ Finish(None)
        BY <3>2 DEF TakeVerdict
      <4>1. CASE Fail
        BY <4>0, <4>1 DEF Fail
      <4>2. CASE status # None /\ Goto("data") /\ UNCHANGED <<launchVars, result>>
        BY <4>0, <4>2
      <4>3. CASE Finish(None)
        BY <4>0, <4>3 DEF Finish
      <4>. QED
        BY <4>0, <4>1, <4>2, <4>3
    <3>. QED
      BY <1>8, <3>1, <3>2
  <2>2. TypeOK'
    <3>1. MainType' /\ LaunchType' /\ result' \in Record \cup {None}
      BY <1>1, <1>4, <2>1 DEF TypeOK, MainType, LaunchType, DataType
    <3>. QED
      BY <1>4, <1>11, <2>1, <3>1, TypesKept DEF TypeOK
  <2>3. CallsAreServed'
    BY <1>1, <1>4, <2>1 DEF CallsAreServed, Starting
  <2>. QED
    BY <1>2, <1>3, <2>2, <2>3 DEF SessionInv
<1>9. CASE StopWaiting \/ SensorNotified
  <2>1. TypeOK'
    <3>1. MainType' /\ RequestType' /\ LaunchType' /\ UNCHANGED <<late, result>>
      BY <1>1, <1>4, <1>9
         DEF TypeOK, MainType, RequestType, LaunchType, StopWaiting, SensorNotified
    <3>. QED
      BY <1>4, <1>11, <3>1 DEF TypeOK
  <2>2. CallsAreServed'
    BY <1>1, <1>4, <1>9 DEF CallsAreServed, Starting, StopWaiting, SensorNotified
  <2>. QED
    BY <1>2, <1>3, <2>1, <2>2 DEF SessionInv
<1>10. CASE Timeout \/ Interrupt
  <2>1. /\ pc' \in {"idle", "closed", "failed"} /\ (pc' = "failed" => pc = "await")
        /\ UNCHANGED <<call, launchVars, result>> /\ late' = TRUE
        /\ pending' = None /\ answered' = FALSE /\ response' = None
    BY <1>10 DEF Timeout, Interrupt
  <2>2. TypeOK'
    <3>1. MainType' /\ RequestType'
      BY <1>1, <1>4, <2>1 DEF TypeOK, MainType, RequestType
    <3>. QED
      BY <1>4, <1>11, <2>1, <3>1, TypesKept DEF TypeOK
  <2>3. CallsAreServed'
    BY <1>1, <1>4, <2>1 DEF CallsAreServed, Starting
  <2>. QED
    BY <1>2, <1>3, <2>2, <2>3 DEF SessionInv
<1>. QED
  BY <1>5, <1>6, <1>7, <1>8, <1>9, <1>10

\* The receiver's thread.  An answer it hands over is that of the registered request.
LEMMA ReceiverSession ==
  ASSUME SessionInv, Receiver
  PROVE  SessionInv'
<1>. USE DEF ReceiverKeeps, SetDataError
<1>1. TypeOK /\ PacketsAreOfTheirKind /\ LostLinkIsSilent /\ CallsAreServed
      /\ RequestIsRegistered
  BY DEF SessionInv
<1>2. UNCHANGED mainVars /\ UNCHANGED historyVars /\ UNCHANGED activeRun
  BY DEF Receiver, ReceiveAnswer, ReceiveVerdict, ReceiveFrame, CheckFrame, ExtendPayload,
         PublishData, FailBackground
<1>3. MainType' /\ late' \in BOOLEAN /\ result' \in Record \cup {None}
  BY <1>1, <1>2, TypesKept DEF TypeOK
<1>4. CASE ReceiveAnswer \/ ReceiveVerdict \/ ReceiveFrame
  <2>. DEFINE p == Head(toHost)
  <2>1. /\ toHost # <<>> /\ toHost' = Tail(toHost) /\ toHost \in Seq(Packet)
        /\ UNCHANGED <<linkUp, inbox, board, boardRun, slots, next, driving, gen, lost>>
    BY <1>1, <1>4 DEF ReceiveAnswer, ReceiveVerdict, ReceiveFrame, Receiving, Pop, TypeOK,
                      BoardType
  <2>2. /\ Tail(toHost) \in Seq(Packet) /\ Len(Tail(toHost)) = Len(toHost) - 1
        /\ p \in Packet /\ Contents(toHost) = Contents(Tail(toHost)) \cup {p}
    BY <2>1, HeadTailProperties, TakenContents
  <2>3. BoardType'
    <3>1. Len(toHost') <= PipeLength
      BY <1>1, <2>1, <2>2, LenProperties, ServiceAssumption DEF TypeOK, BoardType
    <3>. QED
      BY <1>1, <2>1, <2>2, <3>1 DEF TypeOK, BoardType
  <2>4. linkUp
    BY <1>1, <2>1 DEF LostLinkIsSilent
  <2>5. LostLinkIsSilent'
    BY <2>1, <2>4 DEF LostLinkIsSilent
  <2>6. PacketsAreOfTheirKind'
    <3>1. Contents(toHost') \subseteq Contents(toHost) /\ slots' = slots
      BY <2>1, <2>2
    <3>. QED
      BY <1>1, <3>1 DEF PacketsAreOfTheirKind, Contents
  <2>7. p.kind = "verdict" => p.status \in Verdicts
    BY <1>1, <2>2 DEF PacketsAreOfTheirKind, Contents
  <2>. HIDE DEF p
  <2>8. CASE ReceiveAnswer
    <3>1. /\ UNCHANGED <<launchVars, dataVars, receiverVars, background>>
          /\ \/ /\ pending = p.command
                /\ response' = p /\ answered' = TRUE /\ pending' = None
             \/ UNCHANGED requestVars
      BY <2>8 DEF ReceiveAnswer, Matches, p
    <3>2. p.command # None /\ p.command \in Commands
      BY <2>2, ClientAssumption DEF Packet, p
    <3>3. RequestType'
      BY <1>1, <2>2, <3>1 DEF TypeOK, RequestType, p
    <3>4. RequestIsRegistered'
      <4>1. Command' = Command
        BY <1>2 DEF Command
      <4>2. CASE UNCHANGED requestVars
        BY <1>1, <1>2, <2>1, <4>1, <4>2 DEF RequestIsRegistered
      <4>3. CASE pending = p.command /\ response' = p /\ answered' = TRUE /\ pending' = None
        <5>1. pc = "await" /\ pending = Command
          BY <1>1, <3>2, <4>3 DEF RequestIsRegistered
        <5>2. p \in Packet
          BY <2>2 DEF p
        <5>3. p.kind = "answer"
          BY <2>8 DEF ReceiveAnswer, Receiving, p
        <5>. QED
          BY <1>2, <4>1, <4>3, <5>1, <5>2, <5>3 DEF RequestIsRegistered
      <4>. QED
        BY <3>1, <4>2, <4>3
    <3>5. CallsAreServed'
      BY <1>1, <1>2, <3>1 DEF CallsAreServed, Starting
    <3>6. TypeOK'
      BY <1>1, <1>3, <2>3, <3>1, <3>3, TypesKept DEF TypeOK
    <3>. QED
      BY <2>5, <2>6, <3>4, <3>5, <3>6 DEF SessionInv
  <2>9. CASE ReceiveVerdict
    <3>1. /\ UNCHANGED <<requestVars, dataVars, receiverVars, background, activeRun>>
          /\ status' = p.status /\ verdictOf' = p.gen /\ active' = FALSE
          /\ statusEvent' = TRUE /\ p.kind = "verdict"
      BY <2>9 DEF ReceiveVerdict, Receiving, p
    <3>2. p.status \in Verdicts /\ p.gen \in Nat
      BY <2>2, <2>7, <3>1 DEF Packet, p
    <3>3. p.status # None
      BY <3>2, ClientAssumption
    <3>4. LaunchType'
      BY <1>1, <3>1, <3>2 DEF TypeOK, LaunchType
    <3>5. CallsAreServed'
      BY <1>1, <1>2, <3>1, <3>3 DEF CallsAreServed, Starting
    <3>6. RequestIsRegistered'
      BY <1>1, <1>2, <2>1, <3>1 DEF RequestIsRegistered, Command
    <3>7. TypeOK'
      BY <1>1, <1>3, <2>3, <3>1, <3>4, TypesKept DEF TypeOK
    <3>. QED
      BY <2>5, <2>6, <3>5, <3>6, <3>7 DEF SessionInv
  <2>10. CASE ReceiveFrame
    <3>1. /\ UNCHANGED <<requestVars, launchVars, dataVars, decoded, background>>
          /\ frame' = p /\ rxPc' = "check"
          /\ \/ rxRun' = p.run /\ rxChunk' = 0 /\ payload' = <<>>
             \/ UNCHANGED assemblyVars
      BY <2>10 DEF ReceiveFrame, p
    <3>2. p \in Packet /\ p.run \in RunIds
      BY <2>2 DEF Packet, p
    <3>3. ReceiverType'
      <4>1. <<>> \in Seq(Nat \X Nat) /\ 0 \in Nat
        BY EmptySeq
      <4>2. CASE rxRun' = p.run /\ rxChunk' = 0 /\ payload' = <<>>
        BY <1>1, <3>1, <3>2, <4>1, <4>2 DEF TypeOK, ReceiverType
      <4>3. CASE UNCHANGED assemblyVars
        BY <1>1, <3>1, <3>2, <4>3 DEF TypeOK, ReceiverType
      <4>. QED
        BY <3>1, <4>2, <4>3
    <3>4. CallsAreServed'
      BY <1>1, <1>2, <3>1, <3>2 DEF CallsAreServed, Starting
    <3>5. RequestIsRegistered'
      BY <1>1, <1>2, <2>1, <3>1 DEF RequestIsRegistered, Command
    <3>6. TypeOK'
      BY <1>1, <1>3, <2>3, <3>1, <3>3, TypesKept DEF TypeOK
    <3>. QED
      BY <2>5, <2>6, <3>4, <3>5, <3>6 DEF SessionInv
  <2>. QED
    BY <1>4, <2>8, <2>9, <2>10
<1>5. ASSUME UNCHANGED boardVars
      PROVE  BoardType' /\ PacketsAreOfTheirKind' /\ LostLinkIsSilent'
  BY <1>1, <1>5, TypesKept DEF PacketsAreOfTheirKind, LostLinkIsSilent, TypeOK
<1>6. CASE CheckFrame
  <2>1. frame \in Packet
    BY <1>1, <1>6 DEF CallsAreServed, CheckFrame
  <2>2. frame.run \in RunIds /\ frame.gen \in Nat
    BY <2>1 DEF Packet
  <2>. DEFINE d == [run |-> frame.run, gen |-> frame.gen, chunks |-> payload]
  <2>3. d \in Record
    BY <1>1, <2>2 DEF TypeOK, ReceiverType, Record
  <2>. HIDE DEF d
  <2>4. /\ UNCHANGED <<boardVars, requestVars, launchVars, assemblyVars, background>>
        /\ \/ rxPc' = "extend" /\ UNCHANGED <<frame, decoded, dataVars>>
           \/ rxPc' = "publish" /\ frame' = None /\ decoded' = d /\ UNCHANGED dataVars
           \/ /\ rxPc' = "read" /\ frame' = None /\ UNCHANGED decoded
              /\ dataError' = TRUE /\ dataEvent' = TRUE /\ UNCHANGED data
    BY <1>6 DEF CheckFrame, d
  <2>5. ReceiverType' /\ DataType'
    BY <1>1, <2>3, <2>4 DEF TypeOK, ReceiverType, DataType
  <2>6. CallsAreServed'
    BY <1>1, <1>2, <2>1, <2>3, <2>4 DEF CallsAreServed, Starting
  <2>7. RequestIsRegistered'
    BY <1>1, <1>2, <2>4 DEF RequestIsRegistered, Command
  <2>8. TypeOK'
    BY <1>1, <1>3, <1>5, <2>4, <2>5, TypesKept DEF TypeOK
  <2>. QED
    BY <1>5, <2>4, <2>6, <2>7, <2>8 DEF SessionInv
<1>7. CASE ExtendPayload
  <2>1. frame \in Packet
    BY <1>1, <1>7 DEF CallsAreServed, ExtendPayload
  <2>. DEFINE e == <<frame.gen, frame.chunk>>
  <2>2. e \in Nat \X Nat
    BY <2>1, ServiceAssumption DEF Packet
  <2>. HIDE DEF e
  <2>3. payload' \in Seq(Nat \X Nat)
    BY <1>1, <1>7, <2>2, AppendProperties DEF TypeOK, ReceiverType, ExtendPayload, e
  <2>4. /\ UNCHANGED <<boardVars, requestVars, launchVars, dataVars, decoded, rxRun,
                       background>>
        /\ rxPc' = "read" /\ frame' = None /\ rxChunk' = rxChunk + 1
    BY <1>7 DEF ExtendPayload
  <2>5. ReceiverType'
    BY <1>1, <2>3, <2>4 DEF TypeOK, ReceiverType
  <2>6. CallsAreServed'
    BY <1>1, <1>2, <2>4 DEF CallsAreServed, Starting
  <2>7. RequestIsRegistered'
    BY <1>1, <1>2, <2>4 DEF RequestIsRegistered, Command
  <2>8. TypeOK'
    BY <1>1, <1>3, <1>5, <2>4, <2>5, TypesKept DEF TypeOK
  <2>. QED
    BY <1>5, <2>4, <2>6, <2>7, <2>8 DEF SessionInv
<1>8. CASE PublishData
  <2>1. /\ UNCHANGED <<boardVars, requestVars, launchVars, frame, assemblyVars, background>>
        /\ data' = decoded /\ dataError' = FALSE /\ dataEvent' = TRUE
        /\ rxPc' = "read" /\ decoded' = None
    BY <1>8 DEF PublishData
  <2>2. ReceiverType' /\ DataType'
    BY <1>1, <2>1 DEF TypeOK, ReceiverType, DataType
  <2>3. CallsAreServed'
    BY <1>1, <1>2, <2>1 DEF CallsAreServed, Starting
  <2>4. RequestIsRegistered'
    BY <1>1, <1>2, <2>1 DEF RequestIsRegistered, Command
  <2>5. TypeOK'
    BY <1>1, <1>3, <1>5, <2>1, <2>2, TypesKept DEF TypeOK
  <2>. QED
    BY <1>5, <2>1, <2>3, <2>4, <2>5 DEF SessionInv
<1>9. CASE FailBackground
  <2>1. /\ UNCHANGED <<boardVars, pending, response, active, activeRun, status, verdictOf,
                       data, dataError, frame, decoded, assemblyVars>>
        /\ background' = TRUE /\ rxPc' = "stopped" /\ ~linkUp
        /\ answered' = (answered \/ pending # None)
        /\ statusEvent' = TRUE /\ dataEvent' = TRUE
    BY <1>9 DEF FailBackground
  <2>2. ReceiverType' /\ DataType' /\ LaunchType' /\ RequestType'
    BY <1>1, <2>1 DEF TypeOK, ReceiverType, DataType, LaunchType, RequestType
  <2>3. CallsAreServed'
    BY <1>1, <1>2, <2>1 DEF CallsAreServed, Starting
  <2>4. RequestIsRegistered'
    BY <1>1, <1>2, <2>1 DEF RequestIsRegistered, Command
  <2>5. TypeOK'
    BY <1>1, <1>3, <1>5, <2>1, <2>2 DEF TypeOK
  <2>. QED
    BY <1>5, <2>1, <2>3, <2>4, <2>5 DEF SessionInv
<1>. QED
  BY <1>4, <1>6, <1>7, <1>8, <1>9 DEF Receiver

\* A session begins with nothing under way.
LEMMA SessionInit ==
  ASSUME Init
  PROVE  SessionInv
<1>1. <<>> \in Seq(Packet) /\ <<>> \in Seq([command : Commands, run : RunIds])
      /\ <<>> \in Seq(Nat \X Nat) /\ Len(<<>>) = 0 /\ DOMAIN <<>> = {}
  BY EmptySeq, LenProperties
<1>2. 0 \in 0 .. Chunks /\ 0 <= PipeLength /\ 0 \in RunIds
  BY ServiceAssumption
<1>3. BoardType
  <2>1. /\ board \in {"idle", "running"} /\ gen \in {0, 1} /\ boardRun \in {EarlierRun, 0}
        /\ linkUp = TRUE /\ inbox = <<>> /\ slots = <<>> /\ toHost = <<>>
        /\ next = 0 /\ driving = FALSE /\ lost = FALSE
    BY DEF Init, BoardInit
  <2>2. gen \in Nat /\ boardRun \in RunIds
    BY <2>1, ServiceAssumption
  <2>3. /\ inbox \in Seq([command : Commands, run : RunIds])
        /\ slots \in Seq(Packet) /\ toHost \in Seq(Packet) /\ Len(toHost) <= PipeLength
    BY <1>1, <1>2, <2>1
  <2>. QED
    BY <1>2, <2>1, <2>2, <2>3 DEF BoardType
<1>4. MainType /\ RequestType /\ LaunchType /\ DataType
  BY <1>2 DEF Init, MainType, RequestType, LaunchType, DataType
<1>5. ReceiverType /\ background \in BOOLEAN /\ late \in BOOLEAN
      /\ result \in Record \cup {None}
  BY <1>1 DEF Init, ReceiverType
<1>6. PacketsAreOfTheirKind /\ LostLinkIsSilent
  BY <1>1 DEF Init, BoardInit, PacketsAreOfTheirKind, LostLinkIsSilent
<1>7. CallsAreServed /\ RequestIsRegistered
  BY ClientAssumption DEF Init, CallsAreServed, Starting, RequestIsRegistered
<1>. QED
  BY <1>3, <1>4, <1>5, <1>6, <1>7 DEF SessionInv, TypeOK

\* Every step of a session keeps them.
LEMMA SessionStep ==
  ASSUME SessionInv, [Next]_vars
  PROVE  SessionInv'
<1>1. CASE UNCHANGED vars
  BY <1>1, TypesKept
     DEF SessionInv, TypeOK, PacketsAreOfTheirKind, LostLinkIsSilent, CallsAreServed, Starting,
         RequestIsRegistered, Command
<1>2. CASE Next
  BY <1>2, BoardSession, CallSession, RequestSession, ProgramSession, ReceiverSession
     DEF Next, Proceed
<1>. QED
  BY <1>1, <1>2

\* Every variable of the session has its type in every reachable state.
THEOREM HostClientTypeCorrect == Spec => []TypeOK
<1>1. SessionInv => TypeOK
  BY DEF SessionInv
<1>. QED
  BY <1>1, SessionInit, SessionStep, PTL DEF Spec

-----------------------------------------------------------------------------
(* Frames come in order: the receiver never joins chunks of two launches.   *)

\* Fewer frames to come follow what they followed.
LEMMA ContinuesLess ==
  ASSUME NEW q, NEW C, NEW D, D \subseteq C, NEW i, NEW g, Continues(q, C, i, g)
  PROVE  Continues(q, D, i, g)
BY DEF Continues

\* Nothing follows in an empty pipe when nothing is to come.
LEMMA ContinuesNothing ==
  ASSUME NEW i, NEW g
  PROVE  Continues(<<>>, {}, i, g)
<1>1. DOMAIN <<>> = {}
  BY LenProperties, EmptySeq
<1>. QED
  BY <1>1 DEF Continues

\* What the pipe holds once a packet has left the board.
LEMMA Piped ==
  ASSUME NEW q \in Seq(Packet), NEW p \in Packet
  PROVE  LET r == Append(q, p) IN
         /\ Len(q) \in Nat /\ DOMAIN q = 1 .. Len(q)
         /\ Len(q) + 1 \in DOMAIN r /\ r[Len(q) + 1] = p
         /\ \A j \in DOMAIN r : j = Len(q) + 1 \/ (j \in DOMAIN q /\ j < Len(q) + 1)
         /\ \A j \in DOMAIN q : j \in DOMAIN r /\ r[j] = q[j]
         /\ \A k \in DOMAIN q : \A g : StartsOver(q, k, g) => StartsOver(r, k, g)
<1>. DEFINE r == Append(q, p)
<1>1. /\ Len(q) \in Nat /\ DOMAIN q = 1 .. Len(q)
      /\ DOMAIN r = 1 .. Len(q) + 1
      /\ \A j \in 1 .. Len(q) : r[j] = q[j]
      /\ r[Len(q) + 1] = p
  BY Appended
<1>. HIDE DEF r
<1>2. \A j \in 1 .. Len(q) + 1 : j = Len(q) + 1 \/ (j \in 1 .. Len(q) /\ j < Len(q) + 1)
  BY <1>1
<1>3. \A j \in 1 .. Len(q) : j \in 1 .. Len(q) + 1
  BY <1>1
<1>4. Len(q) + 1 \in 1 .. Len(q) + 1
  BY <1>1
<1>5. \A k \in DOMAIN q : \A g : StartsOver(q, k, g) => StartsOver(r, k, g)
  BY <1>1 DEF StartsOver, IsFrame
<1>. QED
  BY <1>1, <1>2, <1>3, <1>4, <1>5 DEF r

\* A packet that is no frame changes nothing of what may follow.
LEMMA ContinuesPacket ==
  ASSUME NEW q \in Seq(Packet), NEW p \in Packet, NEW r, r = Append(q, p), ~IsFrame(p),
         NEW C, NEW i, NEW g, Continues(q, C, i, g)
  PROVE  Continues(r, C, i, g)
<1>. DEFINE n == Len(q) + 1
<1>1. /\ r[n] = p
      /\ \A j \in DOMAIN r : j = n \/ j \in DOMAIN q
      /\ \A j \in DOMAIN q : j \in DOMAIN r /\ r[j] = q[j]
      /\ \A k \in DOMAIN q : \A h : StartsOver(q, k, h) => StartsOver(r, k, h)
  BY Piped
<1>. HIDE DEF n
<1>2. ASSUME NEW j \in DOMAIN r, j > i, IsFrame(r[j]), r[j].chunk # 0
      PROVE  r[j].gen = g \/ \E k \in DOMAIN r : i < k /\ k < j /\ StartsOver(r, k, r[j].gen)
  <2>1. j \in DOMAIN q /\ r[j] = q[j]
    BY <1>1, <1>2
  <2>. QED
    BY <1>1, <1>2, <2>1 DEF Continues
<1>3. \A c \in C : c = g \/ \E k \in DOMAIN r : i < k /\ StartsOver(r, k, c)
  BY <1>1 DEF Continues
<1>. QED
  BY <1>2, <1>3 DEF Continues

\* A frame continues what came before it, or starts over.
LEMMA ContinuesFrame ==
  ASSUME NEW q \in Seq(Packet), NEW p \in Packet, NEW r, r = Append(q, p), IsFrame(p),
         NEW C, p.chunk # 0 => C = {p.gen},
         NEW i \in 0 .. Len(q), NEW g, Continues(q, C, i, g)
  PROVE  Continues(r, {p.gen}, i, g)
<1>. DEFINE n == Len(q) + 1
<1>1. /\ n \in DOMAIN r /\ r[n] = p
      /\ \A j \in DOMAIN r : j = n \/ (j \in DOMAIN q /\ j < n)
      /\ \A j \in DOMAIN q : j \in DOMAIN r /\ r[j] = q[j]
      /\ \A k \in DOMAIN q : \A h : StartsOver(q, k, h) => StartsOver(r, k, h)
      /\ Len(q) \in Nat /\ DOMAIN q = 1 .. Len(q)
  BY Piped
<1>2. i < n /\ \A k \in DOMAIN q : k < n
  BY <1>1
<1>. HIDE DEF n
<1>3. p.chunk = 0 => StartsOver(r, n, p.gen)
  BY <1>1 DEF StartsOver
<1>4. \/ p.gen = g
      \/ \E k \in DOMAIN r : i < k /\ k < n /\ StartsOver(r, k, p.gen)
      \/ p.chunk = 0
  <2>1. p.chunk # 0 => p.gen = g \/ \E k \in DOMAIN q : i < k /\ StartsOver(q, k, p.gen)
    BY DEF Continues
  <2>. QED
    BY <1>1, <1>2, <2>1
<1>5. ASSUME NEW j \in DOMAIN r, j > i, IsFrame(r[j]), r[j].chunk # 0
      PROVE  r[j].gen = g \/ \E k \in DOMAIN r : i < k /\ k < j /\ StartsOver(r, k, r[j].gen)
  <2>1. CASE j = n
    BY <1>1, <1>4, <1>5, <2>1
  <2>2. CASE j \in DOMAIN q
    BY <1>1, <1>5, <2>2 DEF Continues
  <2>. QED
    BY <1>1, <2>1, <2>2
<1>6. p.gen = g \/ \E k \in DOMAIN r : i < k /\ StartsOver(r, k, p.gen)
  BY <1>1, <1>2, <1>3, <1>4
<1>. QED
  BY <1>5, <1>6 DEF Continues

\* What follows a packet that is taken follows nothing in front of it any more.
LEMMA ContinuesPop ==
  ASSUME NEW q \in Seq(Packet), q # <<>>, NEW r, r = Tail(q),
         NEW C, NEW i \in Nat, NEW g, Continues(q, C, i + 1, g)
  PROVE  Continues(r, C, i, g)
<1>1. /\ Len(q) \in Nat \ {0} /\ DOMAIN q = 1 .. Len(q) /\ DOMAIN r = 1 .. Len(q) - 1
      /\ \A j \in 1 .. Len(q) - 1 : r[j] = q[j + 1]
  BY Taken
<1>2. \A j \in DOMAIN r : j \in Int /\ j + 1 \in DOMAIN q /\ r[j] = q[j + 1]
  BY <1>1
<1>3. ASSUME NEW k \in DOMAIN q, NEW h, i + 1 < k, StartsOver(q, k, h)
      PROVE  k - 1 \in DOMAIN r /\ i < k - 1 /\ StartsOver(r, k - 1, h)
  <2>1. k - 1 \in 1 .. Len(q) - 1 /\ i < k - 1 /\ k - 1 + 1 = k
    BY <1>1, <1>3
  <2>2. r[k - 1] = q[k]
    BY <1>1, <2>1
  <2>. QED
    BY <1>1, <1>3, <2>1, <2>2 DEF StartsOver
<1>4. ASSUME NEW j \in DOMAIN r, j > i, IsFrame(r[j]), r[j].chunk # 0
      PROVE  r[j].gen = g \/ \E k \in DOMAIN r : i < k /\ k < j /\ StartsOver(r, k, r[j].gen)
  <2>1. j + 1 \in DOMAIN q /\ r[j] = q[j + 1] /\ j + 1 > i + 1 /\ j \in Int
    BY <1>2, <1>4
  <2>2. \/ r[j].gen = g
        \/ \E k \in DOMAIN q : i + 1 < k /\ k < j + 1 /\ StartsOver(q, k, r[j].gen)
    BY <1>4, <2>1 DEF Continues
  <2>3. CASE \E k \in DOMAIN q : i + 1 < k /\ k < j + 1 /\ StartsOver(q, k, r[j].gen)
    <3>1. PICK k \in DOMAIN q : i + 1 < k /\ k < j + 1 /\ StartsOver(q, k, r[j].gen)
      BY <2>3
    <3>2. k - 1 \in DOMAIN r /\ i < k - 1 /\ StartsOver(r, k - 1, r[j].gen)
      BY <1>3, <3>1
    <3>3. k - 1 < j
      BY <1>1, <2>1, <3>1
    <3>. QED
      BY <3>2, <3>3
  <2>. QED
    BY <2>2, <2>3
<1>5. ASSUME NEW c \in C, c # g
      PROVE  \E k \in DOMAIN r : i < k /\ StartsOver(r, k, c)
  <2>1. PICK k \in DOMAIN q : i + 1 < k /\ StartsOver(q, k, c)
    BY <1>5 DEF Continues
  <2>2. k - 1 \in DOMAIN r /\ i < k - 1 /\ StartsOver(r, k - 1, c)
    BY <1>3, <2>1
  <2>. QED
    BY <2>2
<1>. QED
  BY <1>4, <1>5 DEF Continues

\* What follows the start of the pipe, once a packet that starts nothing is taken.
LEMMA ContinuesFront ==
  ASSUME NEW q \in Seq(Packet), NEW C, NEW g, Continues(q, C, 0, g),
         \A h : ~StartsOver(q, 1, h)
  PROVE  Continues(q, C, 1, g)
<1>1. DOMAIN q = 1 .. Len(q) /\ Len(q) \in Nat
  BY LenProperties
<1>2. \A k \in DOMAIN q : 0 < k /\ (k # 1 => 1 < k) /\ k \in Int
  BY <1>1
<1>3. \A k \in DOMAIN q : \A h : StartsOver(q, k, h) => 1 < k
  BY <1>2
<1>4. \A j \in DOMAIN q : j > 1 => j > 0
  BY <1>2
<1>. QED
  BY <1>3, <1>4 DEF Continues

FrameInv == FramesAreInOrder /\ PayloadIsOfOneRun

\* What the board does to its pipe and to its transfer.
LEMMA TransferSteps ==
  ASSUME SessionInv, Board \/ LinkLoss \/ Unread
  PROVE  \/ UNCHANGED toHost /\ Coming' \subseteq Coming
         \/ \E p \in Packet : /\ ~IsFrame(p) /\ toHost' = Append(toHost, p)
                              /\ Coming' = Coming
         \/ EmitFrame /\ Coming' \subseteq {gen} /\ (next # 0 => Coming = {gen})
         \/ toHost' = <<>> /\ Coming' = {}
<1>0. BoardType /\ PacketsAreOfTheirKind
  BY DEF SessionInv, TypeOK
<1>1. CASE ServeStart \/ ServeStop \/ ServeCoil
  <2>1. PICK a \in Packet : Serves(a)
    BY <1>0, <1>1, ServiceAnswers
  <2>2. UNCHANGED toHost
    BY <2>1 DEF Serves, OnlyAnswers, StartsRun, StopsRun, Takes
  <2>3. Coming' \subseteq Coming
    BY <2>1 DEF Serves, OnlyAnswers, StartsRun, StopsRun, EndsRun, Coming
  <2>. QED
    BY <2>2, <2>3
<1>2. CASE RunEnds
  <2>1. EndsRun(slots) /\ UNCHANGED toHost
    BY <1>0, <1>2, RunEndsByItself DEF EndsByItself
  <2>2. Coming' \subseteq Coming
    BY <2>1 DEF EndsRun, Coming
  <2>. QED
    BY <2>1, <2>2
<1>3. CASE EmitSlot
  <2>1. PICK i \in DOMAIN slots : toHost' = Append(toHost, slots[i])
    BY <1>3 DEF EmitSlot
  <2>2. slots[i] \in Packet
    BY <1>0, LenProperties, ElementOfSeq DEF BoardType
  <2>3. ~IsFrame(slots[i])
    BY <1>0 DEF PacketsAreOfTheirKind, IsFrame
  <2>4. Coming' = Coming
    BY <1>3 DEF EmitSlot, Coming
  <2>. QED
    BY <2>1, <2>2, <2>3, <2>4
<1>4. CASE EmitFrame
  BY <1>4 DEF EmitFrame, Coming
<1>5. CASE LinkLoss \/ Unread
  BY <1>5 DEF LinkLoss, Unread, BoardResets, Coming
<1>. QED
  BY <1>1, <1>2, <1>3, <1>4, <1>5 DEF Board

\* Whatever the board does, what followed still follows.
LEMMA StillFollows ==
  ASSUME SessionInv, Board \/ LinkLoss \/ Unread,
         NEW i \in 0 .. Len(toHost), NEW g, Follows(i, g)
  PROVE  Continues(toHost', Coming', i, g)
<1>0. toHost \in Seq(Packet) /\ BoardType /\ Continues(toHost, Coming, i, g)
  BY DEF SessionInv, TypeOK, BoardType, Follows
<1>1. CASE UNCHANGED toHost /\ Coming' \subseteq Coming
  BY <1>0, <1>1, ContinuesLess
<1>2. CASE \E p \in Packet : /\ ~IsFrame(p) /\ toHost' = Append(toHost, p)
                             /\ Coming' = Coming
  BY <1>0, <1>2, ContinuesPacket
<1>3. CASE EmitFrame /\ Coming' \subseteq {gen} /\ (next # 0 => Coming = {gen})
  <2>1. /\ Frame \in Packet /\ IsFrame(Frame) /\ Frame.gen = gen /\ Frame.chunk = next
    BY <1>0, FrameIsPacket DEF BoardType
  <2>2. toHost' = Append(toHost, Frame)
    BY <1>3 DEF EmitFrame
  <2>3. Continues(toHost', {gen}, i, g)
    BY <1>0, <1>3, <2>1, <2>2, ContinuesFrame
  <2>. QED
    BY <1>3, <2>3, ContinuesLess
<1>4. CASE toHost' = <<>> /\ Coming' = {}
  BY <1>4, ContinuesNothing
<1>. QED
  BY <1>1, <1>2, <1>3, <1>4, TransferSteps

\* The board sends the frames of a launch in order, after those of the one before.
LEMMA FramesBoard ==
  ASSUME SessionInv, FrameInv, BoardStep \/ BoardEvent \/ Unread
  PROVE  FrameInv'
<1>1. Board \/ LinkLoss \/ Unread
  BY DEF BoardStep, BoardEvent
<1>2. UNCHANGED <<rxPc, frame, rxRun, payload>>
  BY DEF BoardStep, BoardEvent, Unread
<1>3. /\ toHost \in Seq(Packet) /\ Len(toHost) \in Nat /\ DOMAIN toHost = 1 .. Len(toHost)
      /\ BoardType
  BY LenProperties DEF SessionInv, TypeOK, BoardType
<1>4. 0 \in 0 .. Len(toHost) /\ \A i \in DOMAIN toHost : i \in 0 .. Len(toHost)
  BY <1>3
<1>5. /\ \A i \in DOMAIN toHost : IsFrame(toHost[i]) => Follows(i, toHost[i].gen)
      /\ rxPc \in {"check", "extend"} => Follows(0, frame.gen)
      /\ rxRun # NoRun /\ payload # <<>> =>
           /\ Follows(0, payload[1][1])
           /\ rxPc \in {"check", "extend"} => frame.gen = payload[1][1]
      /\ rxRun = NoRun /\ rxPc = "extend" => payload = <<>>
      /\ PayloadIsOfOneRun
  BY DEF FrameInv, FramesAreInOrder
<1>6. \A g : Follows(0, g) => Continues(toHost', Coming', 0, g)
  BY <1>1, <1>4, StillFollows
<1>7. \A i \in DOMAIN toHost' :
        IsFrame(toHost'[i]) => Continues(toHost', Coming', i, toHost'[i].gen)
  <2>1. \A i \in DOMAIN toHost :
          IsFrame(toHost[i]) => Continues(toHost', Coming', i, toHost[i].gen)
    BY <1>1, <1>4, <1>5, StillFollows
  <2>2. CASE UNCHANGED toHost
    BY <2>1, <2>2
  <2>3. CASE \E p \in Packet : ~IsFrame(p) /\ toHost' = Append(toHost, p)
    <3>1. PICK p \in Packet : ~IsFrame(p) /\ toHost' = Append(toHost, p)
      BY <2>3
    <3>2. /\ \A j \in DOMAIN toHost' : j = Len(toHost) + 1 \/ j \in DOMAIN toHost
          /\ toHost'[Len(toHost) + 1] = p
          /\ \A j \in DOMAIN toHost : toHost'[j] = toHost[j]
      BY <1>3, <3>1, Piped
    <3>. QED
      BY <2>1, <3>1, <3>2
  <2>4. CASE EmitFrame /\ Coming' \subseteq {gen}
    <3>1. Frame \in Packet /\ Frame.gen = gen /\ toHost' = Append(toHost, Frame)
      BY <1>3, <2>4, FrameIsPacket DEF BoardType, EmitFrame
    <3>2. /\ \A j \in DOMAIN toHost' :
               j = Len(toHost) + 1 \/ (j \in DOMAIN toHost /\ j < Len(toHost) + 1)
          /\ toHost'[Len(toHost) + 1] = Frame
          /\ \A j \in DOMAIN toHost : toHost'[j] = toHost[j]
      BY <1>3, <3>1, Piped
    <3>3. \A j \in DOMAIN toHost' : ~(j > Len(toHost) + 1)
      BY <1>3, <3>2
    <3>4. Continues(toHost', Coming', Len(toHost) + 1, gen)
      BY <2>4, <3>3 DEF Continues
    <3>. QED
      BY <2>1, <3>1, <3>2, <3>4
  <2>5. CASE toHost' = <<>>
    <3>1. DOMAIN <<>> = {}
      BY LenProperties, EmptySeq
    <3>. QED
      BY <2>5, <3>1
  <2>. QED
    BY <1>1, <2>2, <2>3, <2>4, <2>5, TransferSteps
<1>8. FramesAreInOrder'
  BY <1>2, <1>5, <1>6, <1>7 DEF FramesAreInOrder, Follows
<1>9. PayloadIsOfOneRun'
  BY <1>2, <1>5 DEF PayloadIsOfOneRun
<1>. QED
  BY <1>8, <1>9 DEF FrameInv

\* A packet that is taken: what followed it follows the start of the pipe.
LEMMA PopFollows ==
  ASSUME SessionInv, toHost # <<>>, Pop
  PROVE  /\ Coming' = Coming /\ Head(toHost) = toHost[1] /\ 1 \in DOMAIN toHost
         /\ \A g : Follows(1, g) => Continues(toHost', Coming', 0, g)
         /\ \A i \in DOMAIN toHost' : i + 1 \in DOMAIN toHost /\ toHost'[i] = toHost[i + 1]
         /\ \A i \in DOMAIN toHost' : \A g :
              Follows(i + 1, g) => Continues(toHost', Coming', i, g)
<1>1. /\ toHost \in Seq(Packet) /\ toHost' = Tail(toHost)
      /\ UNCHANGED <<board, next, gen>>
  BY DEF SessionInv, TypeOK, BoardType, Pop
<1>2. Coming' = Coming
  BY <1>1 DEF Coming
<1>3. /\ Len(toHost) \in Nat \ {0} /\ DOMAIN toHost = 1 .. Len(toHost)
      /\ DOMAIN toHost' = 1 .. Len(toHost) - 1 /\ Head(toHost) = toHost[1]
      /\ \A j \in 1 .. Len(toHost) - 1 : toHost'[j] = toHost[j + 1]
  BY <1>1, Taken
<1>4. \A i \in Nat : \A g : Continues(toHost, Coming, i + 1, g) => Continues(toHost', Coming, i, g)
  BY <1>1, ContinuesPop
<1>5. 1 \in 1 .. Len(toHost) /\ 0 + 1 = 1 /\ 0 \in Nat
  BY <1>3
<1>6. \A i \in DOMAIN toHost' : i + 1 \in DOMAIN toHost /\ i \in Nat /\ toHost'[i] = toHost[i + 1]
  BY <1>3
<1>7. \A g : Follows(1, g) => Continues(toHost', Coming', 0, g)
  BY <1>2, <1>4, <1>5 DEF Follows
<1>8. \A i \in DOMAIN toHost' : \A g :
        Follows(i + 1, g) => Continues(toHost', Coming', i, g)
  BY <1>2, <1>4, <1>6 DEF Follows
<1>. QED
  BY <1>2, <1>3, <1>5, <1>6, <1>7, <1>8

\* The receiver takes them in that order, and joins a chunk only to those it continues.
LEMMA FramesReceiver ==
  ASSUME SessionInv, FrameInv, Receiver
  PROVE  FrameInv'
<1>1. /\ \A i \in DOMAIN toHost : IsFrame(toHost[i]) => Follows(i, toHost[i].gen)
      /\ rxPc \in {"check", "extend"} => Follows(0, frame.gen)
      /\ rxRun # NoRun /\ payload # <<>> =>
           /\ Follows(0, payload[1][1])
           /\ rxPc \in {"check", "extend"} => frame.gen = payload[1][1]
      /\ rxRun = NoRun /\ rxPc = "extend" => payload = <<>>
      /\ PayloadIsOfOneRun
  BY DEF FrameInv, FramesAreInOrder
<1>2. TypeOK /\ CallsAreServed /\ PacketsAreOfTheirKind
  BY DEF SessionInv
<1>3. CASE ReceiveAnswer \/ ReceiveVerdict \/ ReceiveFrame
  <2>1. toHost # <<>> /\ Pop /\ rxPc = "read"
    BY <1>3 DEF ReceiveAnswer, ReceiveVerdict, ReceiveFrame, Receiving, Reading
  <2>2. /\ Coming' = Coming /\ Head(toHost) = toHost[1] /\ 1 \in DOMAIN toHost
        /\ \A g : Follows(1, g) => Continues(toHost', Coming', 0, g)
        /\ \A i \in DOMAIN toHost' : i + 1 \in DOMAIN toHost /\ toHost'[i] = toHost[i + 1]
        /\ \A i \in DOMAIN toHost' : \A g :
             Follows(i + 1, g) => Continues(toHost', Coming', i, g)
    BY <2>1, PopFollows
  <2>3. \A i \in DOMAIN toHost' :
          IsFrame(toHost'[i]) => Continues(toHost', Coming', i, toHost'[i].gen)
    BY <1>1, <2>2
  <2>4. toHost \in Seq(Packet)
    BY <1>2 DEF TypeOK, BoardType
  <2>5. CASE ReceiveAnswer \/ ReceiveVerdict
    <3>1. ~IsFrame(toHost[1]) /\ UNCHANGED receiverVars
      BY <2>2, <2>5 DEF ReceiveAnswer, ReceiveVerdict, Receiving, IsFrame
    <3>2. \A h : ~StartsOver(toHost, 1, h)
      BY <3>1 DEF StartsOver
    <3>3. \A g : Follows(0, g) => Follows(1, g)
      BY <2>4, <3>2, ContinuesFront DEF Follows
    <3>4. \A g : Follows(0, g) => Continues(toHost', Coming', 0, g)
      BY <2>2, <3>3
    <3>5. FramesAreInOrder'
      BY <1>1, <2>3, <3>1, <3>4 DEF FramesAreInOrder, Follows
    <3>. QED
      BY <1>1, <3>1, <3>5 DEF FrameInv, PayloadIsOfOneRun
  <2>6. CASE ReceiveFrame
    <3>. DEFINE p == toHost[1]
    <3>1. IsFrame(p) /\ frame' = p /\ rxPc' = "check" /\ p \in Packet
      BY <2>2, <2>4, <2>6, LenProperties, ElementOfSeq
         DEF ReceiveFrame, Receiving, IsFrame
    <3>2. Continues(toHost', Coming', 0, p.gen)
      BY <1>1, <2>2, <3>1
    <3>3. CASE rxRun' = p.run /\ payload' = <<>>
      <4>1. FramesAreInOrder'
        BY <2>3, <3>1, <3>2, <3>3 DEF FramesAreInOrder, Follows
      <4>2. DOMAIN <<>> = {}
        BY LenProperties, EmptySeq
      <4>. QED
        BY <3>3, <4>1, <4>2 DEF FrameInv, PayloadIsOfOneRun
    <3>4. CASE UNCHANGED assemblyVars /\ p.chunk # 0
      <4>1. ASSUME rxRun # NoRun, payload # <<>>
            PROVE  payload[1][1] = p.gen
        <5>1. Continues(toHost, Coming, 0, payload[1][1])
          BY <1>1, <4>1 DEF Follows
        <5>2. DOMAIN toHost = 1 .. Len(toHost) /\ Len(toHost) \in Nat
          BY <2>4, LenProperties
        <5>3. 1 > 0 /\ \A k \in DOMAIN toHost : ~(0 < k /\ k < 1)
          BY <5>2
        <5>. QED
          BY <2>2, <3>1, <3>4, <5>1, <5>3 DEF Continues
      <4>2. FramesAreInOrder'
        BY <2>3, <3>1, <3>2, <3>4, <4>1 DEF FramesAreInOrder, Follows
      <4>. QED
        BY <1>1, <3>4, <4>2 DEF FrameInv, PayloadIsOfOneRun
    <3>5. p.chunk = 0 => p.kind = "data"
      <4>1. p.kind = "final" => p.chunk = Chunks
        BY <1>2, <2>2 DEF PacketsAreOfTheirKind
      <4>. QED
        BY <3>1, <4>1, ServiceAssumption DEF IsFrame
    <3>. QED
      BY <2>2, <2>6, <3>3, <3>4, <3>5 DEF ReceiveFrame
  <2>. QED
    BY <1>3, <2>5, <2>6
<1>4. CASE CheckFrame \/ PublishData \/ FailBackground
  <2>1. /\ UNCHANGED <<boardVars, rxRun, payload>>
        /\ rxPc' \in {"check", "extend"} => rxPc = "check" /\ UNCHANGED frame
        /\ rxPc' = "extend" => rxRun = frame.run
    BY <1>4 DEF CheckFrame, PublishData, FailBackground, InSequence
  <2>2. rxPc' = "extend" => rxRun # NoRun
    <3>1. rxPc = "check" => frame \in Packet
      BY <1>2 DEF CallsAreServed
    <3>2. rxPc = "check" => frame.run \in Nat
      BY <3>1, ServiceAssumption DEF Packet
    <3>. QED
      BY <2>1, <3>2 DEF NoRun
  <2>3. Coming' = Coming
    BY <2>1 DEF Coming
  <2>4. FramesAreInOrder'
    BY <1>1, <2>1, <2>2, <2>3 DEF FramesAreInOrder, Follows
  <2>. QED
    BY <1>1, <2>1, <2>4 DEF FrameInv, PayloadIsOfOneRun
<1>5. CASE ExtendPayload
  <2>. DEFINE e == <<frame.gen, frame.chunk>>
  <2>1. /\ payload' = Append(payload, e) /\ rxPc' = "read" /\ rxPc = "extend"
        /\ UNCHANGED <<boardVars, rxRun>>
    BY <1>5 DEF ExtendPayload
  <2>2. frame \in Packet /\ payload \in Seq(Nat \X Nat)
    BY <1>2, <2>1 DEF CallsAreServed, TypeOK, ReceiverType
  <2>3. e \in Nat \X Nat /\ e[1] = frame.gen
    BY <2>2, ServiceAssumption DEF Packet
  <2>. HIDE DEF e
  <2>4. /\ Len(payload) \in Nat /\ DOMAIN payload = 1 .. Len(payload)
        /\ DOMAIN payload' = 1 .. Len(payload) + 1
        /\ \A i \in 1 .. Len(payload) : payload'[i] = payload[i]
        /\ payload'[Len(payload) + 1] = e
    BY <2>1, <2>2, <2>3, Appended
  <2>5. /\ \A i \in DOMAIN payload' : i \in DOMAIN payload \/ i = Len(payload) + 1
        /\ payload # <<>> => 1 \in DOMAIN payload
        /\ payload = <<>> => Len(payload) + 1 = 1
    BY <2>2, <2>4, EmptySeq
  <2>6. payload # <<>> => payload[1][1] = frame.gen
    BY <1>1, <2>1
  <2>7. payload'[1][1] = frame.gen
    BY <2>3, <2>4, <2>5, <2>6
  <2>8. PayloadIsOfOneRun'
    BY <1>1, <2>3, <2>4, <2>5, <2>6, <2>7 DEF PayloadIsOfOneRun
  <2>9. Coming' = Coming
    BY <2>1 DEF Coming
  <2>10. FramesAreInOrder'
    BY <1>1, <2>1, <2>7, <2>9 DEF FramesAreInOrder, Follows
  <2>. QED
    BY <2>8, <2>10 DEF FrameInv
<1>. QED
  BY <1>3, <1>4, <1>5 DEF Receiver

\* The program's thread touches no frame, or empties the assembly.
LEMMA FramesStep ==
  ASSUME SessionInv, FrameInv, [Next]_vars
  PROVE  FrameInv'
<1>1. CASE BoardStep \/ BoardEvent \/ Unread
  BY <1>1, FramesBoard
<1>2. CASE Receiver
  BY <1>2, FramesReceiver
<1>3. CASE BeginStart
  <2>1. /\ UNCHANGED <<toHost, board, next, gen, rxPc, frame>>
        /\ rxRun' = NoRun /\ payload' = <<>>
    BY <1>3 DEF BeginStart
  <2>2. Coming' = Coming /\ DOMAIN <<>> = {}
    BY <2>1, LenProperties, EmptySeq DEF Coming
  <2>. QED
    BY <2>1, <2>2 DEF FrameInv, FramesAreInOrder, PayloadIsOfOneRun, Follows
<1>4. ASSUME UNCHANGED <<toHost, board, next, gen, receiverVars>>
      PROVE  FrameInv'
  <2>1. Coming' = Coming
    BY <1>4 DEF Coming
  <2>. QED
    BY <1>4, <2>1 DEF FrameInv, FramesAreInOrder, PayloadIsOfOneRun, Follows
<1>5. CASE \/ BeginStop \/ BeginOther \/ BeginClose \/ Proceed \/ SensorNotified
           \/ Timeout \/ Interrupt
  BY <1>4, <1>5
     DEF BeginStop, BeginOther, BeginClose, Proceed, SendRequest, TakeResponse, HandleFailure,
         Started, TakeVerdict, TakeData, StopWaiting, SensorNotified, EndSensorWait,
         Timeout, Interrupt
<1>6. CASE UNCHANGED vars
  BY <1>4, <1>6
<1>. QED
  BY <1>1, <1>2, <1>3, <1>5, <1>6 DEF Next

\* However launches, aborts and starts interleave with the receiver, it never joins
\* chunks of two launches.
THEOREM PayloadTheorem == Spec => []PayloadIsOfOneRun
<1>1. ASSUME Init PROVE FrameInv
  <2>1. DOMAIN <<>> = {}
    BY LenProperties, EmptySeq
  <2>. QED
    BY <1>1, <2>1 DEF Init, BoardInit, FrameInv, FramesAreInOrder, PayloadIsOfOneRun
<1>2. FrameInv => PayloadIsOfOneRun
  BY DEF FrameInv
<1>. QED
  BY <1>1, <1>2, SessionInit, SessionStep, FramesStep, PTL DEF Spec

-----------------------------------------------------------------------------
(* Records and frames belong to the launch whose identifier they carry.     *)

RunInv == StartsAreOrdered /\ RunsAreTheirs

\* The last identifier is used: no request to start it is waiting or about to be sent.
Settled == ~Fresh /\ NoStart

\* What belongs to a launch still does while no launch begins.
LEMMA RunsKept ==
  ASSUME RunsAreTheirs, UNCHANGED <<nextRun, gen>>, Settled => Settled',
         UNCHANGED <<rxPc, frame, decoded, data>>, result' \in {result, None},
         board' # "idle" => board # "idle" /\ UNCHANGED boardRun,
         \A p \in Contents(toHost') :
           \/ p \in Contents(toHost) \/ ~IsFrame(p)
           \/ board # "idle" /\ p.run = boardRun /\ p.gen = gen
  PROVE  RunsAreTheirs'
<1>1. ASSUME NEW run, NEW g, Belongs(run, g)
      PROVE  /\ run \in 0 .. nextRun' - 1 \/ ("session" \in Faults /\ run = EarlierRun)
             /\ run = nextRun' - 1 => ~Fresh' /\ NoStart' /\ g = gen'
  BY <1>1 DEF Belongs, Settled
<1>2. /\ board # "idle" => Belongs(boardRun, gen)
      /\ \A i \in DOMAIN toHost : IsFrame(toHost[i]) => Belongs(toHost[i].run, toHost[i].gen)
      /\ rxPc \in {"check", "extend"} => Belongs(frame.run, frame.gen)
      /\ rxPc = "publish" =>
           Belongs(decoded.run, decoded.gen) /\ decoded.chunks = Expected(decoded.gen)
      /\ data # None => Belongs(data.run, data.gen) /\ data.chunks = Expected(data.gen)
      /\ result # None => result.gen = gen /\ result.chunks = Expected(gen) /\ Settled
  BY DEF RunsAreTheirs, Settled
<1>3. \A p \in Contents(toHost') : IsFrame(p) => Belongs(p.run, p.gen)
  BY <1>2 DEF Contents
<1>4. \A i \in DOMAIN toHost' :
        IsFrame(toHost'[i]) => Belongs(toHost'[i].run, toHost'[i].gen)
  BY <1>3 DEF Contents
<1>5. board' # "idle" => Belongs(boardRun', gen')
  BY <1>2
<1>. HIDE DEF Belongs
<1>6. result' # None => result'.gen = gen' /\ result'.chunks = Expected(gen') /\ Settled'
  BY <1>2
<1>. QED
  BY <1>1, <1>2, <1>4, <1>5, <1>6 DEF RunsAreTheirs, Belongs, Settled, Expected

\* Once a request is taken, the starts behind it are still in order.
LEMMA StartsTaken ==
  ASSUME BoardType, StartsAreOrdered, inbox # <<>>, inbox' = Tail(inbox),
         UNCHANGED mainVars
  PROVE  /\ StartsAreOrdered' /\ (Settled => Settled')
         /\ Head(inbox) \in [command : Commands, run : RunIds]
         /\ Head(inbox).command = "Start" =>
              /\ ~NoStart /\ Head(inbox).run < nextRun
              /\ Fresh => Head(inbox).run < nextRun - 1
              /\ \A i \in DOMAIN inbox' : inbox'[i].command = "Start" =>
                   Head(inbox).run < inbox'[i].run /\ inbox'[i].run < nextRun
<1>1. inbox \in Seq([command : Commands, run : RunIds])
  BY DEF BoardType
<1>2. /\ Len(inbox) \in Nat \ {0} /\ DOMAIN inbox = 1 .. Len(inbox)
      /\ DOMAIN inbox' = 1 .. Len(inbox) - 1
      /\ Head(inbox) = inbox[1] /\ inbox[1] \in [command : Commands, run : RunIds]
      /\ \A i \in 1 .. Len(inbox) - 1 : inbox'[i] = inbox[i + 1]
  BY <1>1, Taken
<1>3. /\ \A i \in DOMAIN inbox' : /\ i + 1 \in DOMAIN inbox /\ inbox'[i] = inbox[i + 1]
                                  /\ 1 < i + 1
      /\ 1 \in DOMAIN inbox
      /\ \A i, j \in DOMAIN inbox' : i < j => i + 1 < j + 1
  BY <1>2
<1>4. /\ \A i \in DOMAIN inbox : inbox[i].command = "Start" =>
           inbox[i].run < nextRun /\ (Fresh => inbox[i].run < nextRun - 1)
      /\ \A i, j \in DOMAIN inbox :
           i < j /\ inbox[i].command = "Start" /\ inbox[j].command = "Start" =>
             inbox[i].run < inbox[j].run
  BY DEF StartsAreOrdered, IsStart
<1>5. Fresh' = Fresh
  BY DEF Fresh
<1>6. \A i \in DOMAIN inbox' : inbox'[i].command = "Start" =>
        inbox'[i].run < nextRun' /\ (Fresh' => inbox'[i].run < nextRun' - 1)
  BY <1>3, <1>4, <1>5
<1>7. \A i, j \in DOMAIN inbox' :
           i < j /\ inbox'[i].command = "Start" /\ inbox'[j].command = "Start" =>
             inbox'[i].run < inbox'[j].run
  BY <1>3, <1>4
<1>8. StartsAreOrdered'
  BY <1>6, <1>7 DEF StartsAreOrdered, IsStart
<1>9. NoStart => NoStart'
  BY <1>3 DEF NoStart, IsStart
<1>10. ASSUME Head(inbox).command = "Start"
       PROVE  /\ ~NoStart /\ Head(inbox).run < nextRun
              /\ Fresh => Head(inbox).run < nextRun - 1
              /\ \A i \in DOMAIN inbox' : inbox'[i].command = "Start" =>
                   Head(inbox).run < inbox'[i].run /\ inbox'[i].run < nextRun
  <2>1. ~NoStart
    BY <1>2, <1>3, <1>10 DEF NoStart, IsStart
  <2>2. Head(inbox).run < nextRun /\ (Fresh => Head(inbox).run < nextRun - 1)
    BY <1>2, <1>3, <1>4, <1>10
  <2>3. \A i \in DOMAIN inbox' : inbox'[i].command = "Start" =>
          Head(inbox).run < inbox'[i].run /\ inbox'[i].run < nextRun
    BY <1>2, <1>3, <1>4, <1>10
  <2>. QED
    BY <2>1, <2>2, <2>3
<1>. QED
  BY <1>2, <1>5, <1>8, <1>9, <1>10 DEF Settled

\* A start that is served is later than every record, and earlier than the other starts.
LEMMA RunsStart ==
  ASSUME SessionInv, RunInv, NEW a \in Packet, StartsRun(a), UNCHANGED clientVars
  PROVE  RunInv'
<1>1. /\ inbox # <<>> /\ inbox' = Tail(inbox) /\ UNCHANGED toHost
      /\ Head(inbox).command = "Start" /\ BoardType
      /\ boardRun' = Head(inbox).run /\ gen' = gen + 1
  BY DEF StartsRun, Takes, StartAccepted, StartAnswered, SessionInv, TypeOK
<1>2. /\ StartsAreOrdered' /\ ~NoStart
      /\ Head(inbox) \in [command : Commands, run : RunIds]
      /\ Head(inbox).run < nextRun /\ (Fresh => Head(inbox).run < nextRun - 1)
      /\ \A i \in DOMAIN inbox' : inbox'[i].command = "Start" =>
           Head(inbox).run < inbox'[i].run /\ inbox'[i].run < nextRun
  BY <1>1, StartsTaken DEF RunInv
<1>3. nextRun \in Nat /\ UNCHANGED nextRun /\ Fresh' = Fresh
  BY ServiceAssumption DEF SessionInv, TypeOK, MainType, Fresh
<1>4. ASSUME NEW run, NEW g, Belongs(run, g)
      PROVE  /\ run \in 0 .. nextRun' - 1 \/ ("session" \in Faults /\ run = EarlierRun)
             /\ run # nextRun' - 1
  BY <1>2, <1>3, <1>4 DEF Belongs
<1>5. Head(inbox).run \in Nat /\ Head(inbox).run \in 0 .. nextRun' - 1
  <2>1. Head(inbox).run \in RunIds
    BY <1>2
  <2>2. Head(inbox).run \in Nat
    BY <2>1, ServiceAssumption
  <2>3. Head(inbox).run < nextRun'
    BY <1>2, <1>3
  <2>. QED
    BY <1>3, <2>2, <2>3
<1>6. ASSUME Head(inbox).run = nextRun' - 1
      PROVE  ~Fresh' /\ NoStart'
  <2>1. ~Fresh'
    BY <1>2, <1>3, <1>6
  <2>2. ASSUME NEW i \in DOMAIN inbox' PROVE inbox'[i].command # "Start"
    <3>1. inbox' \in Seq([command : Commands, run : RunIds])
      BY <1>1, HeadTailProperties DEF BoardType
    <3>2. inbox'[i] \in [command : Commands, run : RunIds]
      BY <3>1, LenProperties, ElementOfSeq
    <3>3. inbox'[i].run \in Nat
      BY <3>2, ServiceAssumption
    <3>. QED
      BY <1>2, <1>3, <1>6, <3>3
  <2>. QED
    BY <2>1, <2>2 DEF NoStart, IsStart
<1>7. result = None
  BY <1>2 DEF RunInv, RunsAreTheirs
<1>8. RunsAreTheirs'
  <2>1. /\ \A i \in DOMAIN toHost : IsFrame(toHost[i]) => Belongs(toHost[i].run, toHost[i].gen)
        /\ rxPc \in {"check", "extend"} => Belongs(frame.run, frame.gen)
        /\ rxPc = "publish" =>
             Belongs(decoded.run, decoded.gen) /\ decoded.chunks = Expected(decoded.gen)
        /\ data # None => Belongs(data.run, data.gen) /\ data.chunks = Expected(data.gen)
    BY DEF RunInv, RunsAreTheirs
  <2>. QED
    BY <1>1, <1>4, <1>5, <1>6, <1>7, <2>1 DEF RunsAreTheirs, Belongs, Expected
<1>. QED
  BY <1>2, <1>8 DEF RunInv

\* The frames the board sends are of the launch whose identifier they carry.
LEMMA RunsBoard ==
  ASSUME SessionInv, RunInv, BoardStep \/ BoardEvent \/ Unread
  PROVE  RunInv'
<1>1. Board \/ LinkLoss \/ Unread
  BY DEF BoardStep, BoardEvent
<1>2. UNCHANGED clientVars
  BY DEF BoardStep, BoardEvent, Unread
<1>3. BoardType /\ StartsAreOrdered /\ RunsAreTheirs /\ PacketsAreOfTheirKind
  BY DEF SessionInv, TypeOK, RunInv
<1>4. \A p \in Contents(slots) : ~IsFrame(p)
  BY <1>3 DEF PacketsAreOfTheirKind, IsFrame, Contents
<1>5. \A p \in Contents(toHost') :
        \/ p \in Contents(toHost) \/ ~IsFrame(p)
        \/ board # "idle" /\ p.run = boardRun /\ p.gen = gen
  <2>1. EmitFrame => board # "idle" /\ Frame.run = boardRun /\ Frame.gen = gen
    BY DEF EmitFrame, Frame
  <2>. QED
    BY <1>1, <1>3, <1>4, <2>1, PipeContents
<1>6. CASE ServeStart \/ ServeStop \/ ServeCoil
  <2>1. PICK a \in Packet : Serves(a)
    BY <1>3, <1>6, ServiceAnswers
  <2>2. CASE StartsRun(a)
    BY <1>2, <2>2, RunsStart
  <2>3. CASE OnlyAnswers(a) \/ StopsRun(a)
    <3>1. Takes(a) /\ UNCHANGED <<gen, boardRun>> /\ (board' # "idle" => board # "idle")
      BY <2>3 DEF OnlyAnswers, StopsRun, EndsRun
    <3>2. StartsAreOrdered' /\ (Settled => Settled')
      BY <1>2, <1>3, <3>1, StartsTaken DEF Takes
    <3>. QED
      BY <1>2, <1>3, <1>5, <3>1, <3>2, RunsKept DEF RunInv
  <2>. QED
    BY <2>1, <2>2, <2>3 DEF Serves
<1>7. CASE RunEnds \/ EmitSlot \/ EmitFrame
  <2>1. UNCHANGED <<inbox, gen, boardRun>> /\ (board' # "idle" => board # "idle")
    BY <1>7 DEF RunEnds, EmitSlot, EmitFrame
  <2>2. Fresh' = Fresh /\ NoStart' = NoStart /\ Settled' = Settled /\ StartsAreOrdered'
    BY <1>2, <1>3, <2>1 DEF Fresh, NoStart, IsStart, Settled, StartsAreOrdered
  <2>. QED
    BY <1>2, <1>3, <1>5, <2>1, <2>2, RunsKept DEF RunInv
<1>8. CASE LinkLoss \/ Unread
  <2>1. inbox' = <<>> /\ UNCHANGED <<gen, boardRun>> /\ board' = "idle" /\ DOMAIN <<>> = {}
    BY <1>8, LenProperties, EmptySeq DEF LinkLoss, Unread, BoardResets
  <2>2. NoStart' /\ Fresh' = Fresh /\ StartsAreOrdered'
    BY <1>2, <2>1 DEF Fresh, NoStart, StartsAreOrdered
  <2>3. Settled => Settled'
    BY <2>2 DEF Settled
  <2>. QED
    BY <1>2, <1>3, <1>5, <2>1, <2>2, <2>3, RunsKept DEF RunInv
<1>. QED
  BY <1>1, <1>6, <1>7, <1>8 DEF Board

\* A new identifier is one that nothing has: the session's own are smaller, and that
\* of an earlier launch is not in its range.
LEMMA RunsBegin ==
  ASSUME SessionInv, RunInv, BeginStart,
         "session" \notin Faults \/ EarlierRun \notin 0 .. MaxStarts - 1
  PROVE  RunInv'
<1>1. /\ nextRun \in Nat /\ nextRun' = nextRun + 1 /\ nextRun < MaxStarts /\ pc = "idle"
      /\ MaxStarts \in Nat
  BY ServiceAssumption, ClientAssumption DEF SessionInv, TypeOK, MainType, BeginStart,
     Enter
<1>2. /\ UNCHANGED <<boardVars, rxPc, frame, decoded>> /\ result' = None /\ data' = None
      /\ pc' = "request" /\ call' = "Start"
  BY DEF BeginStart, Enter
<1>3. Fresh' /\ ~Fresh /\ NoStart' = NoStart
  BY <1>1, <1>2 DEF Fresh, NoStart, IsStart
<1>4. StartsAreOrdered'
  <2>1. inbox \in Seq([command : Commands, run : RunIds])
    BY DEF SessionInv, TypeOK, BoardType
  <2>2. \A i \in DOMAIN inbox : inbox[i].run \in Nat
    <3>1. \A i \in DOMAIN inbox : inbox[i] \in [command : Commands, run : RunIds]
      BY <2>1, LenProperties, ElementOfSeq
    <3>. QED
      BY <3>1, ServiceAssumption
  <2>3. \A i \in DOMAIN inbox : IsStart(i) => inbox[i].run < nextRun
    BY DEF RunInv, StartsAreOrdered
  <2>4. \A i \in DOMAIN inbox : IsStart(i) =>
          inbox[i].run < nextRun' /\ inbox[i].run < nextRun' - 1
    BY <1>1, <2>2, <2>3
  <2>. QED
    BY <1>2, <2>4 DEF RunInv, StartsAreOrdered, IsStart
<1>5. ASSUME NEW run, NEW g, Belongs(run, g)
      PROVE  /\ run \in 0 .. nextRun' - 1 \/ ("session" \in Faults /\ run = EarlierRun)
             /\ run # nextRun' - 1
  <2>1. CASE run \in 0 .. nextRun - 1
    BY <1>1, <2>1
  <2>2. CASE "session" \in Faults /\ run = EarlierRun
    BY <1>1, <2>2
  <2>. QED
    BY <1>5, <2>1, <2>2 DEF Belongs
<1>6. RunsAreTheirs'
  <2>1. /\ board # "idle" => Belongs(boardRun, gen)
        /\ \A i \in DOMAIN toHost : IsFrame(toHost[i]) => Belongs(toHost[i].run, toHost[i].gen)
        /\ rxPc \in {"check", "extend"} => Belongs(frame.run, frame.gen)
        /\ rxPc = "publish" =>
             Belongs(decoded.run, decoded.gen) /\ decoded.chunks = Expected(decoded.gen)
    BY DEF RunInv, RunsAreTheirs
  <2>. QED
    BY <1>2, <1>5, <2>1 DEF RunsAreTheirs, Belongs, Expected
<1>. QED
  BY <1>4, <1>6 DEF RunInv

\* The request to start is written: its identifier is the last, and still unused.
LEMMA RunsSend ==
  ASSUME SessionInv, RunInv, SendRequest
  PROVE  RunInv'
<1>1. /\ UNCHANGED <<nextRun, gen, toHost, board, boardRun, receiverVars, data, result>>
      /\ pc = "request" /\ pc' # "request"
  BY DEF SendRequest, Goto
<1>2. nextRun \in Nat /\ inbox \in Seq([command : Commands, run : RunIds])
  BY ServiceAssumption DEF SessionInv, TypeOK, MainType, BoardType
<1>3. ~Fresh'
  BY <1>1 DEF Fresh
<1>4. StartsAreOrdered /\ RunsAreTheirs /\ CallsAreServed
  BY DEF RunInv, SessionInv
<1>5. StartsAreOrdered' /\ (Settled => Settled')
  <2>1. CASE UNCHANGED inbox
    BY <1>1, <1>3, <1>4, <2>1 DEF StartsAreOrdered, Settled, NoStart, IsStart
  <2>2. CASE linkUp /\ ~background
    <3>. DEFINE r == [command |-> Command, run |-> IF call = "Start" THEN activeRun ELSE 0]
    <3>1. inbox' = Append(inbox, r)
      BY <2>2 DEF SendRequest
    <3>2. call = "Start" => activeRun = nextRun - 1 /\ activeRun # NoRun /\ Fresh
      BY <1>1, <1>4 DEF CallsAreServed, Starting, Fresh
    <3>3. r.command = "Start" <=> call = "Start"
      BY DEF Command
    <3>4. r.command = "Start" => r.run = nextRun - 1 /\ Fresh
      BY <3>2, <3>3
    <3>5. r \in [command : Commands, run : RunIds]
      <4>1. call = "Start" => activeRun \in RunIds
        BY <3>2 DEF SessionInv, TypeOK, LaunchType
      <4>2. Command \in Commands
        BY <1>1, <1>4 DEF CallsAreServed, Command, Commands
      <4>. QED
        BY <4>1, <4>2, ServiceAssumption
    <3>. HIDE DEF r
    <3>6. /\ Len(inbox) \in Nat /\ DOMAIN inbox = 1 .. Len(inbox)
          /\ DOMAIN inbox' = 1 .. Len(inbox) + 1
          /\ \A i \in 1 .. Len(inbox) : inbox'[i] = inbox[i]
          /\ inbox'[Len(inbox) + 1] = r
      BY <1>2, <3>1, <3>5, Appended
    <3>7. /\ \A i \in DOMAIN inbox' :
               i \in DOMAIN inbox \/ (i = Len(inbox) + 1 /\ i \notin DOMAIN inbox)
          /\ \A i \in DOMAIN inbox' : ~(Len(inbox) + 1 < i)
      BY <3>6
    <3>8. \A i \in DOMAIN inbox : inbox[i].command = "Start" =>
            inbox[i].run < nextRun /\ (Fresh => inbox[i].run < nextRun - 1)
      BY <1>4 DEF StartsAreOrdered, IsStart
    <3>9. \A i \in DOMAIN inbox' : inbox'[i].command = "Start" => inbox'[i].run < nextRun
      BY <1>2, <3>4, <3>6, <3>7, <3>8
    <3>10. \A i, j \in DOMAIN inbox' :
             i < j /\ inbox'[i].command = "Start" /\ inbox'[j].command = "Start" =>
               inbox'[i].run < inbox'[j].run
      <4>1. \A i, j \in DOMAIN inbox :
              i < j /\ inbox[i].command = "Start" /\ inbox[j].command = "Start" =>
                inbox[i].run < inbox[j].run
        BY <1>4 DEF StartsAreOrdered, IsStart
      <4>. QED
        BY <3>4, <3>6, <3>7, <3>8, <4>1
    <3>11. StartsAreOrdered'
      BY <1>1, <1>3, <3>9, <3>10 DEF StartsAreOrdered, IsStart
    <3>12. Settled => Settled'
      <4>1. Settled => r.command # "Start"
        BY <3>4 DEF Settled
      <4>. QED
        BY <1>3, <3>6, <3>7, <4>1 DEF Settled, NoStart, IsStart
    <3>. QED
      BY <3>11, <3>12
  <2>. QED
    BY <2>1, <2>2 DEF SendRequest
<1>. QED
  BY <1>1, <1>4, <1>5, RunsKept DEF RunInv

\* The rest of the program's thread sends nothing.  What stopLaunch returns is of the
\* last launch: the identifier of its record says so.
LEMMA RunsProgram ==
  ASSUME SessionInv, RunInv,
         \/ BeginStop \/ BeginOther \/ BeginClose
         \/ TakeResponse \/ HandleFailure \/ Started \/ TakeVerdict \/ TakeData
         \/ StopWaiting \/ SensorNotified \/ Timeout \/ Interrupt
  PROVE  RunInv'
<1>1. UNCHANGED <<boardVars, receiverVars, data, nextRun>>
  BY DEF BeginStop, BeginOther, BeginClose, Enter, TakeResponse, HandleFailure, Started,
         TakeVerdict, Fail, Finish, TakeData, StopWaiting, SensorNotified, EndSensorWait,
         Timeout, Interrupt, Goto
<1>2. ~Fresh'
  <2>1. CASE BeginStop \/ BeginOther \/ BeginClose
    BY <2>1 DEF BeginStop, BeginOther, BeginClose, Enter, Fresh
  <2>2. CASE TakeVerdict \/ TakeData
    BY <2>2 DEF TakeVerdict, TakeData, Fail, Finish, Goto, AfterError, Fresh
  <2>3. CASE TakeResponse \/ HandleFailure \/ Started \/ StopWaiting \/ SensorNotified
             \/ Timeout \/ Interrupt
    BY <2>3 DEF TakeResponse, AfterSuccess, HandleFailure, Started, StopWaiting,
                SensorNotified, EndSensorWait, Timeout, Interrupt, Goto, AfterError, Fresh
  <2>. QED
    BY <2>1, <2>2, <2>3
<1>3. StartsAreOrdered' /\ (Settled => Settled')
  BY <1>1, <1>2 DEF RunInv, StartsAreOrdered, Settled, NoStart, IsStart
<1>4. CASE result' \in {result, None}
  BY <1>1, <1>3, <1>4, RunsKept DEF RunInv
<1>5. CASE TakeData /\ ~Fail
  <2>1. result' = data /\ data # None /\ data.run = activeRun
    BY <1>5 DEF TakeData, Finish, RunMatches
  <2>2. Belongs(data.run, data.gen) /\ data.chunks = Expected(data.gen)
    BY <2>1 DEF RunInv, RunsAreTheirs
  <2>3. activeRun \in {NoRun, nextRun - 1}
    BY DEF SessionInv, CallsAreServed
  <2>4. data.run \in Nat
    BY <2>2, ServiceAssumption DEF SessionInv, TypeOK, MainType, Belongs
  <2>5. data.run = nextRun - 1
    BY <2>1, <2>3, <2>4 DEF NoRun
  <2>6. Settled /\ data.gen = gen
    BY <2>2, <2>5 DEF Belongs, Settled
  <2>7. RunsAreTheirs'
    <3>1. /\ board # "idle" => Belongs(boardRun, gen)
          /\ \A i \in DOMAIN toHost :
               IsFrame(toHost[i]) => Belongs(toHost[i].run, toHost[i].gen)
          /\ rxPc \in {"check", "extend"} => Belongs(frame.run, frame.gen)
          /\ rxPc = "publish" =>
               Belongs(decoded.run, decoded.gen) /\ decoded.chunks = Expected(decoded.gen)
      BY DEF RunInv, RunsAreTheirs
    <3>2. ASSUME NEW run, NEW g, Belongs(run, g)
          PROVE  /\ run \in 0 .. nextRun' - 1 \/ ("session" \in Faults /\ run = EarlierRun)
                 /\ run = nextRun' - 1 => ~Fresh' /\ NoStart' /\ g = gen'
      BY <1>1, <1>3, <3>2 DEF Belongs, Settled
    <3>. QED
      BY <1>1, <1>3, <2>1, <2>2, <2>6, <3>1, <3>2
         DEF RunsAreTheirs, Belongs, Settled, Expected
  <2>. QED
    BY <1>3, <2>7 DEF RunInv
<1>6. result' \in {result, None} \/ (TakeData /\ ~Fail)
  BY DEF BeginStop, BeginOther, BeginClose, TakeResponse, HandleFailure, Started,
         TakeVerdict, Fail, Finish, TakeData, StopWaiting, SensorNotified, EndSensorWait,
         Timeout, Interrupt
<1>. QED
  BY <1>4, <1>5, <1>6

\* What the receiver has in hand comes from the pipe, and keeps its identifier.
LEMMA RunsReceiver ==
  ASSUME SessionInv, RunInv, Receiver
  PROVE  RunInv'
<1>1. UNCHANGED <<mainVars, historyVars, inbox, gen, board, boardRun>>
  BY DEF Receiver, ReceiveAnswer, ReceiveVerdict, ReceiveFrame, CheckFrame, ExtendPayload,
         PublishData, FailBackground, ReceiverKeeps, Pop
<1>2. Fresh' = Fresh /\ NoStart' = NoStart /\ StartsAreOrdered'
  BY <1>1 DEF RunInv, Fresh, NoStart, IsStart, StartsAreOrdered
<1>3. \A run, g : Belongs(run, g) =>
        /\ run \in 0 .. nextRun' - 1 \/ ("session" \in Faults /\ run = EarlierRun)
        /\ run = nextRun' - 1 => ~Fresh' /\ NoStart' /\ g = gen'
  BY <1>1, <1>2 DEF Belongs
<1>4. /\ board # "idle" => Belongs(boardRun, gen)
      /\ \A i \in DOMAIN toHost : IsFrame(toHost[i]) => Belongs(toHost[i].run, toHost[i].gen)
      /\ rxPc \in {"check", "extend"} => Belongs(frame.run, frame.gen)
      /\ rxPc = "publish" =>
           Belongs(decoded.run, decoded.gen) /\ decoded.chunks = Expected(decoded.gen)
      /\ data # None => Belongs(data.run, data.gen) /\ data.chunks = Expected(data.gen)
      /\ result # None => /\ result.gen = gen /\ result.chunks = Expected(gen)
                          /\ NoStart /\ ~Fresh
  BY DEF RunInv, RunsAreTheirs
<1>5. \A i \in DOMAIN toHost' :
        IsFrame(toHost'[i]) => Belongs(toHost'[i].run, toHost'[i].gen)
  <2>1. CASE ReceiveAnswer \/ ReceiveVerdict \/ ReceiveFrame
    <3>1. toHost # <<>> /\ Pop
      BY <2>1 DEF ReceiveAnswer, ReceiveVerdict, ReceiveFrame, Receiving
    <3>2. \A i \in DOMAIN toHost' : i + 1 \in DOMAIN toHost /\ toHost'[i] = toHost[i + 1]
      BY <3>1, PopFollows
    <3>. QED
      BY <1>4, <3>2
  <2>2. CASE CheckFrame \/ ExtendPayload \/ PublishData \/ FailBackground
    <3>1. UNCHANGED toHost
      BY <2>2 DEF CheckFrame, ExtendPayload, PublishData, FailBackground
    <3>. QED
      BY <1>4, <3>1
  <2>. QED
    BY <2>1, <2>2 DEF Receiver
<1>6. rxPc' \in {"check", "extend"} => Belongs(frame'.run, frame'.gen)
  <2>1. CASE ReceiveFrame
    <3>1. toHost # <<>> /\ Pop /\ frame' = Head(toHost) /\ IsFrame(Head(toHost))
      BY <2>1 DEF ReceiveFrame, Receiving, IsFrame
    <3>2. Head(toHost) = toHost[1] /\ 1 \in DOMAIN toHost
      BY <3>1, PopFollows
    <3>. QED
      BY <1>4, <3>1, <3>2
  <2>2. CASE rxPc' \in {"check", "extend"} => rxPc = "check" /\ UNCHANGED frame
    BY <1>4, <2>2
  <2>3. CASE ReceiveAnswer \/ ReceiveVerdict
    BY <1>4, <2>3 DEF ReceiveAnswer, ReceiveVerdict
  <2>. QED
    BY <2>1, <2>2, <2>3
       DEF Receiver, CheckFrame, ExtendPayload, PublishData, FailBackground
<1>7. rxPc' = "publish" =>
        Belongs(decoded'.run, decoded'.gen) /\ decoded'.chunks = Expected(decoded'.gen)
  <2>1. CASE CheckFrame
    <3>1. rxPc' = "publish" =>
            /\ decoded' = [run |-> frame.run, gen |-> frame.gen, chunks |-> payload]
            /\ payload = Expected(frame.gen) /\ rxPc = "check"
      BY <2>1 DEF CheckFrame, Complete
    <3>. QED
      BY <1>4, <3>1
  <2>2. CASE UNCHANGED receiverVars
    BY <1>4, <2>2
  <2>. QED
    BY <2>1, <2>2
       DEF Receiver, ReceiveAnswer, ReceiveVerdict, ReceiveFrame, ExtendPayload, PublishData,
           FailBackground
<1>8. data' # None => Belongs(data'.run, data'.gen) /\ data'.chunks = Expected(data'.gen)
  <2>1. UNCHANGED data \/ (rxPc = "publish" /\ data' = decoded)
    BY DEF Receiver, ReceiveAnswer, ReceiveVerdict, ReceiveFrame, CheckFrame,
       SetDataError,
           ExtendPayload, PublishData, FailBackground
  <2>. QED
    BY <1>4, <2>1
<1>. HIDE DEF Belongs
<1>9. RunsAreTheirs'
  BY <1>1, <1>2, <1>3, <1>4, <1>5, <1>6, <1>7, <1>8
     DEF RunsAreTheirs, Belongs, Expected
<1>. QED
  BY <1>2, <1>9 DEF RunInv

\* A session may begin while a launch of an earlier one runs.
LEMMA RunsInit ==
  ASSUME Init, "session" \notin Faults \/ EarlierRun \notin 0 .. MaxStarts - 1
  PROVE  RunInv
<1>1. DOMAIN <<>> = {}
  BY LenProperties, EmptySeq
<1>2. /\ inbox = <<>> /\ toHost = <<>> /\ nextRun = 0 /\ rxPc = "read"
      /\ data = None /\ result = None
      /\ board # "idle" => "session" \in Faults /\ boardRun = EarlierRun
  BY DEF Init, BoardInit
<1>3. EarlierRun # nextRun - 1
  BY <1>2, ServiceAssumption
<1>4. StartsAreOrdered
  BY <1>1, <1>2 DEF StartsAreOrdered
<1>5. RunsAreTheirs
  BY <1>1, <1>2, <1>3 DEF RunsAreTheirs, Belongs
<1>. QED
  BY <1>4, <1>5 DEF RunInv

\* Every step of a session keeps records and frames with their launch.
LEMMA RunsStep ==
  ASSUME SessionInv, RunInv, [Next]_vars,
         "session" \notin Faults \/ EarlierRun \notin 0 .. MaxStarts - 1
  PROVE  RunInv'
<1>1. CASE UNCHANGED vars
  BY <1>1 DEF RunInv, StartsAreOrdered, RunsAreTheirs, Belongs, Fresh, NoStart,
     IsStart, Expected
<1>. QED
  BY <1>1, RunsBoard, RunsBegin, RunsSend, RunsProgram, RunsReceiver DEF Next, Proceed

\* The data stopLaunch returns is that of the launch startLaunch began last, provided
\* that a launch an earlier session left running has none of this session's identifiers.
THEOREM ResultTheorem ==
  ASSUME "session" \notin Faults \/ EarlierRun \notin 0 .. MaxStarts - 1
  PROVE  Spec => []ResultIsOfItsRun
<1>1. RunInv => ResultIsOfItsRun
  BY DEF RunInv, RunsAreTheirs, ResultIsOfItsRun
<1>2. Init => SessionInv /\ RunInv
  BY SessionInit, RunsInit
<1>3. SessionInv /\ RunInv /\ [Next]_vars => (SessionInv /\ RunInv)'
  BY SessionStep, RunsStep
<1>. QED
  BY <1>1, <1>2, <1>3, PTL DEF Spec

-----------------------------------------------------------------------------
(* While no request failed: one request at most, and one verdict, under way. *)

\* What is under way is in a slot or in the pipe.
LEMMA WayOf ==
  ASSUME NEW kind
  PROVE  /\ OnItsWay(kind) <=> \E p \in UnderWay : p.kind = kind
         /\ UnderWay = Contents(slots) \cup Contents(toHost)
BY DEF OnItsWay, Holds, UnderWay, Contents

\* A packet that takes a slot is on its way.
LEMMA WayAdded ==
  ASSUME BoardType, NEW p \in Packet, slots' = Append(slots, p), UNCHANGED toHost, NEW kind
  PROVE  /\ OnItsWay(kind)' <=> OnItsWay(kind) \/ p.kind = kind
         /\ OneOnItsWay(kind) /\ (p.kind = kind => ~OnItsWay(kind)) => OneOnItsWay(kind)'
         /\ UnderWay' = UnderWay \cup {p}
<1>1. slots \in Seq(Packet)
  BY DEF BoardType
<1>2. /\ Holds(slots', kind) <=> Holds(slots, kind) \/ p.kind = kind
      /\ AtMostOne(slots, kind) /\ (p.kind = kind => ~Holds(slots, kind))
           => AtMostOne(slots', kind)
  BY <1>1, AppendedKind
<1>3. Contents(slots') = Contents(slots) \cup {p}
  BY <1>1, AppendedContents
<1>. QED
  BY <1>2, <1>3 DEF OnItsWay, OneOnItsWay, UnderWay, Contents

\* A packet that goes from a slot to the pipe stays on its way.
LEMMA WayMoved ==
  ASSUME BoardType, EmitSlot, NEW kind
  PROVE  /\ OnItsWay(kind)' <=> OnItsWay(kind)
         /\ OneOnItsWay(kind) => OneOnItsWay(kind)'
         /\ UnderWay' \subseteq UnderWay
<1>1. slots \in Seq(Packet) /\ toHost \in Seq(Packet)
  BY DEF BoardType
<1>2. PICK i \in DOMAIN slots :
        toHost' = Append(toHost, slots[i]) /\ slots' = RemoveAt(slots, i)
  BY DEF EmitSlot
<1>3. i \in 1 .. Len(slots)
  BY <1>1, LenProperties
<1>4. /\ slots[i] \in Packet
      /\ Holds(slots, kind) <=> Holds(slots', kind) \/ slots[i].kind = kind
      /\ AtMostOne(slots, kind) =>
           AtMostOne(slots', kind) /\ (slots[i].kind = kind => ~Holds(slots', kind))
  BY <1>1, <1>2, <1>3, RemovedKind
<1>5. /\ Holds(toHost', kind) <=> Holds(toHost, kind) \/ slots[i].kind = kind
      /\ AtMostOne(toHost, kind) /\ (slots[i].kind = kind => ~Holds(toHost, kind))
           => AtMostOne(toHost', kind)
  BY <1>1, <1>2, <1>4, AppendedKind
<1>6. /\ Contents(slots') \subseteq Contents(slots) /\ slots[i] \in Contents(slots)
      /\ Contents(toHost') = Contents(toHost) \cup {slots[i]}
  BY <1>1, <1>2, <1>3, <1>4, RemovedContents, AppendedContents
<1>7. UnderWay' \subseteq UnderWay
  BY <1>6 DEF UnderWay, Contents
<1>8. OnItsWay(kind)' <=> OnItsWay(kind)
  BY <1>4, <1>5 DEF OnItsWay
<1>9. OneOnItsWay(kind) => OneOnItsWay(kind)'
  BY <1>4, <1>5 DEF OneOnItsWay
<1>. QED
  BY <1>7, <1>8, <1>9

\* A packet of another kind that enters the pipe.
LEMMA WayOfFrame ==
  ASSUME BoardType, EmitFrame, NEW kind \in {"answer", "verdict"}
  PROVE  /\ OnItsWay(kind)' <=> OnItsWay(kind)
         /\ OneOnItsWay(kind) => OneOnItsWay(kind)'
         /\ UnderWay' = UnderWay \cup {Frame} /\ Frame.kind \notin {"answer", "verdict"}
<1>1. toHost \in Seq(Packet) /\ Frame \in Packet /\ Frame.kind # "answer"
      /\ Frame.kind # "verdict" /\ toHost' = Append(toHost, Frame) /\ UNCHANGED slots
  BY FrameIsPacket DEF BoardType, EmitFrame
<1>2. /\ Holds(toHost', kind) <=> Holds(toHost, kind) \/ Frame.kind = kind
      /\ AtMostOne(toHost, kind) /\ (Frame.kind = kind => ~Holds(toHost, kind))
           => AtMostOne(toHost', kind)
  BY <1>1, AppendedKind
<1>3. Contents(toHost') = Contents(toHost) \cup {Frame}
  BY <1>1, AppendedContents
<1>. QED
  BY <1>1, <1>2, <1>3 DEF OnItsWay, OneOnItsWay, UnderWay, Contents

\* A packet that the receiver takes was the only one of its kind.
LEMMA WayTaken ==
  ASSUME BoardType, toHost # <<>>, toHost' = Tail(toHost), UNCHANGED slots, NEW kind
  PROVE  /\ OnItsWay(kind) <=> OnItsWay(kind)' \/ Head(toHost).kind = kind
         /\ OneOnItsWay(kind) =>
              OneOnItsWay(kind)' /\ (Head(toHost).kind = kind => ~OnItsWay(kind)')
         /\ UnderWay' \subseteq UnderWay /\ Head(toHost) \in UnderWay
         /\ Head(toHost) \in Packet
<1>1. toHost \in Seq(Packet)
  BY DEF BoardType
<1>2. /\ Head(toHost) \in Packet
      /\ Holds(toHost, kind) <=> Holds(toHost', kind) \/ Head(toHost).kind = kind
      /\ AtMostOne(toHost, kind) =>
           AtMostOne(toHost', kind) /\ (Head(toHost).kind = kind => ~Holds(toHost', kind))
  BY <1>1, TakenKind
<1>3. Contents(toHost) = Contents(toHost') \cup {Head(toHost)}
  BY <1>1, TakenContents
<1>4. UnderWay' \subseteq UnderWay /\ Head(toHost) \in UnderWay
  BY <1>3 DEF UnderWay, Contents
<1>5. OnItsWay(kind) <=> OnItsWay(kind)' \/ Head(toHost).kind = kind
  BY <1>2 DEF OnItsWay
<1>6. OneOnItsWay(kind) =>
        OneOnItsWay(kind)' /\ (Head(toHost).kind = kind => ~OnItsWay(kind)')
  BY <1>2 DEF OnItsWay, OneOnItsWay
<1>. QED
  BY <1>2, <1>4, <1>5, <1>6

\* Nothing is under way when the slots and the pipe are empty.
LEMMA WayEmpty ==
  /\ slots = <<>> /\ toHost = <<>> =>
       UnderWay = {} /\ \A kind : ~OnItsWay(kind) /\ OneOnItsWay(kind)
  /\ slots' = <<>> /\ toHost' = <<>> =>
       UnderWay' = {} /\ \A kind : ~OnItsWay(kind)' /\ OneOnItsWay(kind)'
<1>1. DOMAIN <<>> = {}
  BY LenProperties, EmptySeq
<1>. QED
  BY <1>1 DEF UnderWay, OnItsWay, OneOnItsWay, Holds, AtMostOne

InTime == RequestIsSingle /\ VerdictIsExpected /\ AcceptanceIsExplained

\* The command on the wire tells a start from every other call.
LEMMA StartIsCalled == Command = "Start" <=> call = "Start"
BY DEF Command

\* A step that moves packets, and changes nothing else that matters.
LEMMA WayKept ==
  ASSUME InTime,
         UNCHANGED <<mainVars, pending, response, launchVars, inbox, gen, lost, linkUp>>,
         board' = "running" <=> board = "running",
         OnItsWay("answer")' <=> OnItsWay("answer"),
         OnItsWay("verdict")' <=> OnItsWay("verdict"),
         OneOnItsWay("answer") => OneOnItsWay("answer")',
         OneOnItsWay("verdict") => OneOnItsWay("verdict")',
         \A p \in UnderWay' : p \in UnderWay \/ p.kind \notin {"answer", "verdict"}
  PROVE  InTime'
<1>1. /\ Going' <=> Going
      /\ NoStart' <=> NoStart
      /\ Command' = Command
      /\ Fresh' = Fresh
  BY DEF Going, NoStart, IsStart, Command, Fresh
<1>2. Explained' <=> Explained
  <2>1. /\ VerdictIsComing <=> OnItsWay("verdict")
        /\ VerdictIsComing' <=> OnItsWay("verdict")'
    BY DEF VerdictIsComing, OnItsWay, Holds
  <2>. QED
    BY <2>1 DEF Explained
<1>3. RequestIsSingle'
  BY <1>1 DEF InTime, RequestIsSingle
<1>4. VerdictIsExpected'
  BY <1>1 DEF InTime, VerdictIsExpected, StartRejected, StartAnswered
<1>5. AcceptanceIsExplained'
  BY <1>2 DEF InTime, AcceptanceIsExplained, StartAccepted, StartAnswered
<1>. QED
  BY <1>3, <1>4, <1>5 DEF InTime

\* A request is served while the program's thread waits for its answer, and no other
\* answer is under way.
LEMMA ServedOne ==
  ASSUME SessionInv, InTime, NEW a \in Packet, Takes(a)
  PROVE  /\ pc = "await" /\ pending = Command /\ pending # None /\ response = None
         /\ inbox' = <<>> /\ ~OnItsWay("answer") /\ a.command = Command
         /\ a.command = "Start" => ~Going /\ status = None /\ call = "Start"
<1>1. inbox # <<>> /\ inbox' = Tail(inbox) /\ a.command = Head(inbox).command
  BY DEF Takes
<1>2. inbox \in Seq([command : Commands, run : RunIds])
  BY DEF SessionInv, TypeOK, BoardType
<1>3. /\ Len(inbox) \in Nat \ {0} /\ DOMAIN inbox = 1 .. Len(inbox)
      /\ Head(inbox) = inbox[1] /\ Tail(inbox) \in Seq([command : Commands, run : RunIds])
      /\ Len(Tail(inbox)) = Len(inbox) - 1
  BY <1>1, <1>2, Taken
<1>4. Len(inbox) = 1 /\ 1 \in DOMAIN inbox
  BY <1>3 DEF InTime, RequestIsSingle
<1>5. Tail(inbox) = <<>>
  <2>1. Len(Tail(inbox)) = 0
    BY <1>3, <1>4
  <2>. QED
    BY <1>3, <2>1, EmptySeq, Zenon
<1>6. /\ pending # None /\ ~OnItsWay("answer") /\ inbox[1].command = Command
      /\ ~NoStart \/ inbox[1].command # "Start"
  BY <1>1, <1>4 DEF InTime, RequestIsSingle, NoStart, IsStart
<1>7. pc = "await" /\ pending = Command /\ response = None
  BY <1>6 DEF SessionInv, RequestIsRegistered
<1>8. a.command = "Start" => ~Going /\ status = None
  BY <1>1, <1>3, <1>6 DEF InTime, VerdictIsExpected
<1>. QED
  BY <1>1, <1>3, <1>5, <1>6, <1>7, <1>8, StartIsCalled

\* The answer to a request that changes nothing on the board.
LEMMA OnlyAnswersInTime ==
  ASSUME SessionInv, InTime, UNCHANGED clientVars, NEW a \in Packet, OnlyAnswers(a)
  PROVE  InTime'
<1>1. /\ Takes(a) /\ slots' = Append(slots, a) /\ ~StartAccepted(a)
      /\ UNCHANGED <<board, gen, lost, linkUp, toHost>> /\ a.kind = "answer"
  BY DEF OnlyAnswers, Takes
<1>2. /\ pc = "await" /\ pending = Command /\ pending # None /\ response = None
      /\ inbox' = <<>> /\ ~OnItsWay("answer") /\ a.command = Command
      /\ a.command = "Start" => ~Going
  BY <1>1, ServedOne
<1>3. BoardType
  BY DEF SessionInv, TypeOK
<1>4. /\ OnItsWay("answer")' /\ (OnItsWay("verdict")' <=> OnItsWay("verdict"))
      /\ OneOnItsWay("answer") => OneOnItsWay("answer")'
      /\ OneOnItsWay("verdict") => OneOnItsWay("verdict")'
      /\ UnderWay' = UnderWay \cup {a}
  BY <1>1, <1>2, <1>3, WayAdded
<1>5. Len(<<>>) = 0 /\ DOMAIN <<>> = {}
  BY LenProperties, EmptySeq
<1>6. /\ Going' <=> Going
      /\ NoStart' /\ Command' = Command /\ Fresh' = Fresh
  BY <1>1, <1>2, <1>4, <1>5 DEF Going, NoStart, Command, Fresh
<1>7. Explained' <=> Explained
  <2>1. /\ VerdictIsComing <=> OnItsWay("verdict")
        /\ VerdictIsComing' <=> OnItsWay("verdict")'
    BY DEF VerdictIsComing, OnItsWay, Holds
  <2>. QED
    BY <1>1, <1>4, <2>1 DEF Explained
<1>8. RequestIsSingle'
  BY <1>2, <1>4, <1>5, <1>6 DEF InTime, RequestIsSingle
<1>9. VerdictIsExpected'
  BY <1>1, <1>2, <1>4, <1>6 DEF InTime, VerdictIsExpected, StartRejected, StartAnswered
<1>10. AcceptanceIsExplained'
  BY <1>1, <1>2, <1>4, <1>7 DEF InTime, AcceptanceIsExplained, StartAccepted,
     StartAnswered
<1>. QED
  BY <1>8, <1>9, <1>10 DEF InTime

\* A launch starts: none ran, no verdict was under way and none was known.
LEMMA StartsRunInTime ==
  ASSUME SessionInv, InTime, UNCHANGED clientVars, NEW a \in Packet, StartsRun(a)
  PROVE  InTime'
<1>1. /\ Takes(a) /\ slots' = Append(slots, a) /\ StartAccepted(a) /\ board' = "running"
      /\ a.kind = "answer" /\ a.command = "Start" /\ UNCHANGED toHost
  BY DEF StartsRun, Takes, StartAccepted, StartAnswered
<1>2. /\ pc = "await" /\ pending = Command /\ pending # None /\ response = None
      /\ inbox' = <<>> /\ ~OnItsWay("answer") /\ a.command = Command
      /\ ~Going /\ status = None /\ call = "Start"
  BY <1>1, ServedOne
<1>3. BoardType /\ ~OnItsWay("verdict")
  BY <1>2 DEF SessionInv, TypeOK, Going
<1>4. /\ OnItsWay("answer")' /\ ~OnItsWay("verdict")'
      /\ OneOnItsWay("answer") => OneOnItsWay("answer")'
      /\ OneOnItsWay("verdict") => OneOnItsWay("verdict")'
      /\ UnderWay' = UnderWay \cup {a}
  BY <1>1, <1>2, <1>3, WayAdded
<1>5. Len(<<>>) = 0 /\ DOMAIN <<>> = {}
  BY LenProperties, EmptySeq
<1>6. NoStart' /\ Command' = Command /\ Explained'
  BY <1>1, <1>2, <1>5 DEF NoStart, Command, Explained
<1>7. \A p \in UnderWay' : p = a \/ p.kind \notin {"answer", "verdict"}
  BY <1>2, <1>3, <1>4, WayOf
<1>8. RequestIsSingle'
  BY <1>2, <1>4, <1>5, <1>6, <1>7 DEF InTime, RequestIsSingle
<1>9. VerdictIsExpected'
  BY <1>1, <1>2, <1>4, <1>6, <1>7
     DEF InTime, VerdictIsExpected, StartRejected, StartAccepted, StartAnswered
<1>10. AcceptanceIsExplained'
  BY <1>6 DEF AcceptanceIsExplained
<1>. QED
  BY <1>8, <1>9, <1>10 DEF InTime

\* What the end of a launch leaves under way: its verdict, or a loss.
LEMMA VerdictLeaves ==
  ASSUME BoardType, NEW base \in Seq(Packet), EndsRun(base), UNCHANGED toHost,
         ~Holds(base, "verdict"), ~Holds(toHost, "verdict")
  PROVE  /\ OnItsWay("verdict")' \/ lost'
         /\ OneOnItsWay("verdict")'
         /\ Holds(slots', "answer") <=> Holds(base, "answer")
         /\ AtMostOne(base, "answer") => AtMostOne(slots', "answer")
         /\ lost => lost'
<1>1. AtMostOne(base, "verdict") /\ AtMostOne(toHost, "verdict")
  BY DEF AtMostOne, Holds
<1>2. CASE \E v \in Packet : IsVerdict(v) /\ slots' = Append(base, v)
                             /\ lost' \in BOOLEAN /\ (lost => lost')
  <2>1. PICK v \in Packet : IsVerdict(v) /\ slots' = Append(base, v)
                            /\ lost' \in BOOLEAN /\ (lost => lost')
    BY <1>2
  <2>2. v.kind = "verdict"
    BY <2>1 DEF IsVerdict
  <2>3. Holds(slots', "verdict") /\ AtMostOne(slots', "verdict")
    BY <1>1, <2>1, <2>2, AppendedKind
  <2>4. /\ Holds(slots', "answer") <=> Holds(base, "answer")
        /\ AtMostOne(base, "answer") => AtMostOne(slots', "answer")
    BY <2>1, <2>2, AppendedKind
  <2>. QED
    BY <1>1, <2>1, <2>3, <2>4 DEF OnItsWay, OneOnItsWay
<1>3. CASE slots' = base /\ lost' = TRUE
  BY <1>1, <1>3 DEF OneOnItsWay
<1>. QED
  BY <1>2, <1>3 DEF EndsRun

\* The launch that ends was expected, and no answer to a start is still under way that
\* says otherwise.
LEMMA EndInTime ==
  ASSUME SessionInv, InTime, UNCHANGED clientVars, UNCHANGED <<toHost, linkUp>>,
         NEW base \in Seq(Packet), EndsRun(base), NoStart',
         \A p \in Contents(base) :
           p \in UnderWay \/ (p.kind = "answer" /\ p.command # "Start")
  PROVE  VerdictIsExpected' /\ AcceptanceIsExplained'
<1>1. board = "running" /\ board' # "running" /\ UNCHANGED gen
  BY DEF EndsRun
<1>2. Going /\ ~OnItsWay("verdict") /\ BoardType
  BY <1>1 DEF InTime, VerdictIsExpected, Going, SessionInv, TypeOK
<1>3. \A p \in UnderWay : p.kind # "verdict"
  BY <1>2, WayOf
<1>4. ~Holds(base, "verdict") /\ ~Holds(toHost, "verdict")
  BY <1>2, <1>3 DEF Holds, Contents, OnItsWay
<1>5. (OnItsWay("verdict")' \/ lost') /\ OneOnItsWay("verdict")' /\ (lost => lost')
  BY <1>2, <1>4, VerdictLeaves
<1>6. \A p \in UnderWay' :
        \/ p \in UnderWay \/ (p.kind = "answer" /\ p.command # "Start")
        \/ p.kind = "verdict" /\ p.gen = gen
  BY EndsRunContents DEF UnderWay, Contents, IsVerdict
<1>7. /\ status = None
      /\ active \/ (call = "Start" /\ pc \in {"await", "started"})
      /\ \A p \in UnderWay : ~StartRejected(p)
      /\ pc = "await" /\ response # None => ~StartRejected(response)
  BY <1>2 DEF InTime, VerdictIsExpected
<1>8. \A p \in UnderWay' : ~StartRejected(p) /\ (p.kind = "verdict" => p.gen = gen)
  BY <1>3, <1>6, <1>7 DEF StartRejected, StartAnswered
<1>9. VerdictIsExpected'
  BY <1>1, <1>5, <1>7, <1>8 DEF VerdictIsExpected, StartRejected, StartAnswered
<1>10. Explained'
  BY <1>5 DEF Explained, VerdictIsComing, OnItsWay, Holds
<1>. QED
  BY <1>9, <1>10 DEF AcceptanceIsExplained

\* A launch that the host stops: the answer and the verdict leave together.
LEMMA StopsRunInTime ==
  ASSUME SessionInv, InTime, UNCHANGED clientVars, NEW a \in Packet, StopsRun(a)
  PROVE  InTime'
<1>. DEFINE base == Append(slots, a)
<1>1. /\ Takes(a) /\ a.command # "Start" /\ EndsRun(base) /\ a.kind = "answer"
      /\ UNCHANGED <<toHost, linkUp>> /\ board = "running"
  BY DEF StopsRun, Takes, EndsRun
<1>2. /\ pc = "await" /\ pending = Command /\ pending # None
      /\ inbox' = <<>> /\ ~OnItsWay("answer") /\ a.command = Command
  BY <1>1, ServedOne
<1>3. BoardType /\ slots \in Seq(Packet) /\ ~OnItsWay("verdict")
  BY <1>1 DEF SessionInv, TypeOK, BoardType, InTime, VerdictIsExpected
<1>4. base \in Seq(Packet) /\ Contents(base) = Contents(slots) \cup {a}
  BY <1>3, AppendProperties, AppendedContents
<1>5. AtMostOne(base, "answer") /\ ~Holds(base, "verdict")
  <2>1. /\ ~Holds(slots, "answer") /\ AtMostOne(slots, "answer")
        /\ ~Holds(slots, "verdict")
    BY <1>2, <1>3 DEF OnItsWay, Holds, AtMostOne
  <2>. QED
    BY <1>1, <1>3, <2>1, AppendedKind
<1>6. \A p \in Contents(base) :
        p \in UnderWay \/ (p.kind = "answer" /\ p.command # "Start")
  BY <1>1, <1>4 DEF UnderWay, Contents
<1>7. Len(<<>>) = 0 /\ DOMAIN <<>> = {}
  BY LenProperties, EmptySeq
<1>8. NoStart' /\ Command' = Command
  BY <1>2, <1>7 DEF NoStart, Command
<1>. HIDE DEF base
<1>9. VerdictIsExpected' /\ AcceptanceIsExplained'
  BY <1>1, <1>4, <1>6, <1>8, EndInTime
<1>10. AtMostOne(slots', "answer") /\ ~Holds(toHost, "answer")
       /\ AtMostOne(toHost, "answer")
  <2>1. ~Holds(toHost, "verdict") /\ ~Holds(toHost, "answer")
    BY <1>2, <1>3 DEF OnItsWay
  <2>. QED
    BY <1>1, <1>3, <1>4, <1>5, <2>1, VerdictLeaves DEF AtMostOne, Holds
<1>11. OneOnItsWay("answer")'
  BY <1>1, <1>10 DEF OneOnItsWay
<1>12. \A p \in UnderWay' : p.kind = "answer" => p = a
  <2>1. \A p \in Contents(slots') : p = a \/ p \in UnderWay \/ p.kind = "verdict"
    BY <1>1, <1>4, EndsRunContents DEF IsVerdict, UnderWay, Contents
  <2>2. \A p \in UnderWay' : p \in Contents(slots') \/ p \in UnderWay
    BY <1>1 DEF UnderWay, Contents
  <2>3. \A p \in UnderWay : p.kind # "answer"
    BY <1>2, WayOf
  <2>. QED
    BY <2>1, <2>2, <2>3
<1>13. RequestIsSingle'
  BY <1>2, <1>7, <1>8, <1>11, <1>12 DEF RequestIsSingle
<1>. QED
  BY <1>9, <1>13 DEF InTime

\* A launch that ends by itself.
LEMMA EndsByItselfInTime ==
  ASSUME SessionInv, InTime, UNCHANGED clientVars, EndsByItself
  PROVE  InTime'
<1>1. EndsRun(slots) /\ UNCHANGED <<linkUp, inbox, toHost>> /\ board = "running"
  BY DEF EndsByItself, EndsRun
<1>2. /\ BoardType /\ slots \in Seq(Packet) /\ ~OnItsWay("verdict") /\ Going /\ NoStart
  BY <1>1 DEF SessionInv, TypeOK, BoardType, InTime, VerdictIsExpected, Going
<1>3. NoStart' /\ Command' = Command
  BY <1>1, <1>2 DEF NoStart, IsStart, Command
<1>4. \A p \in Contents(slots) : p \in UnderWay
  BY DEF Contents, UnderWay
<1>5. VerdictIsExpected' /\ AcceptanceIsExplained'
  BY <1>1, <1>2, <1>3, <1>4, EndInTime
<1>6. /\ Holds(slots', "answer") <=> Holds(slots, "answer")
      /\ AtMostOne(slots, "answer") => AtMostOne(slots', "answer")
  BY <1>1, <1>2, VerdictLeaves DEF OnItsWay
<1>7. /\ OnItsWay("answer")' <=> OnItsWay("answer")
      /\ OneOnItsWay("answer") => OneOnItsWay("answer")'
  BY <1>1, <1>6 DEF OnItsWay, OneOnItsWay
<1>8. \A p \in UnderWay' : p \in UnderWay \/ p.kind = "verdict"
  <2>1. \A p \in Contents(slots') : p \in UnderWay \/ p.kind = "verdict"
    BY <1>1, <1>2, <1>4, EndsRunContents DEF IsVerdict
  <2>. QED
    BY <1>1, <2>1 DEF UnderWay, Contents
<1>9. RequestIsSingle'
  BY <1>1, <1>3, <1>7, <1>8 DEF InTime, RequestIsSingle
<1>. QED
  BY <1>5, <1>9 DEF InTime

\* Every step of the board, and the loss of its host.
LEMMA BoardInTime ==
  ASSUME SessionInv, InTime, BoardStep \/ BoardEvent \/ Unread
  PROVE  InTime'
<1>0. UNCHANGED clientVars /\ BoardType
  BY DEF BoardStep, BoardEvent, Unread, SessionInv, TypeOK
<1>1. CASE ServeStart \/ ServeStop \/ ServeCoil
  <2>1. PICK a \in Packet : Serves(a)
    BY <1>0, <1>1, ServiceAnswers
  <2>. QED
    BY <1>0, <2>1, OnlyAnswersInTime, StartsRunInTime, StopsRunInTime DEF Serves
<1>2. CASE RunEnds
  BY <1>0, <1>2, RunEndsByItself, EndsByItselfInTime
<1>3. CASE EmitSlot
  <2>1. UNCHANGED <<inbox, gen, lost, linkUp, board>>
    BY <1>3 DEF EmitSlot
  <2>2. /\ OnItsWay("answer")' <=> OnItsWay("answer")
        /\ OneOnItsWay("answer") => OneOnItsWay("answer")'
        /\ UnderWay' \subseteq UnderWay
    BY <1>0, <1>3, WayMoved
  <2>3. /\ OnItsWay("verdict")' <=> OnItsWay("verdict")
        /\ OneOnItsWay("verdict") => OneOnItsWay("verdict")'
    BY <1>0, <1>3, WayMoved
  <2>. QED
    BY <1>0, <2>1, <2>2, <2>3, WayKept
<1>4. CASE EmitFrame
  <2>1. UNCHANGED <<inbox, gen, lost, linkUp>> /\ board = "sending" /\ board' # "running"
    BY <1>4 DEF EmitFrame
  <2>2. /\ OnItsWay("answer")' <=> OnItsWay("answer")
        /\ OneOnItsWay("answer") => OneOnItsWay("answer")'
        /\ UnderWay' = UnderWay \cup {Frame} /\ Frame.kind \notin {"answer", "verdict"}
    BY <1>0, <1>4, WayOfFrame
  <2>3. /\ OnItsWay("verdict")' <=> OnItsWay("verdict")
        /\ OneOnItsWay("verdict") => OneOnItsWay("verdict")'
    BY <1>0, <1>4, WayOfFrame
  <2>. QED
    BY <1>0, <2>1, <2>2, <2>3, WayKept
<1>5. CASE LinkLoss \/ Unread
  <2>1. /\ linkUp' = FALSE /\ inbox' = <<>> /\ slots' = <<>> /\ toHost' = <<>>
        /\ board' = "idle" /\ UNCHANGED gen
    BY <1>5 DEF LinkLoss, Unread, BoardResets
  <2>2. UnderWay' = {} /\ ~OnItsWay("answer")' /\ OneOnItsWay("answer")'
        /\ ~OnItsWay("verdict")' /\ OneOnItsWay("verdict")'
    BY <2>1, WayEmpty
  <2>3. Len(<<>>) = 0 /\ DOMAIN <<>> = {}
    BY LenProperties, EmptySeq
  <2>4. RequestIsSingle'
    BY <2>1, <2>2, <2>3 DEF RequestIsSingle
  <2>5. ~Going' /\ NoStart' /\ Explained' /\ Fresh' = Fresh
    BY <1>0, <2>1, <2>2, <2>3 DEF Going, NoStart, Explained, Fresh
  <2>6. VerdictIsExpected'
    BY <1>0, <2>1, <2>2, <2>5 DEF InTime, VerdictIsExpected
  <2>. QED
    BY <2>4, <2>5, <2>6 DEF InTime, AcceptanceIsExplained
<1>. QED
  BY <1>1, <1>2, <1>3, <1>4, <1>5 DEF BoardStep, BoardEvent, Board

\* Where no request is under way, a step of a call keeps the launch and its verdict in
\* line with the board.
LEMMA CallKept ==
  ASSUME InTime, UNCHANGED boardVars, inbox = <<>>, ~OnItsWay("answer"), pc' # "await",
         Going => /\ status' = None
                  /\ active' \/ (call' = "Start" /\ pc' = "started"),
         status' # None => UNCHANGED <<status, verdictOf>> /\ ~Fresh',
         active' \/ pc' = "started" => Explained'
  PROVE  InTime'
<1>1. /\ UnderWay' = UnderWay /\ (Going' <=> Going) /\ (NoStart' <=> NoStart)
      /\ OnItsWay("answer")' <=> OnItsWay("answer")
      /\ OnItsWay("verdict")' <=> OnItsWay("verdict")
      /\ OneOnItsWay("answer")' <=> OneOnItsWay("answer")
      /\ OneOnItsWay("verdict")' <=> OneOnItsWay("verdict")
  BY DEF UnderWay, Going, NoStart, IsStart, OnItsWay, OneOnItsWay
<1>2. DOMAIN <<>> = {}
  BY LenProperties, EmptySeq
<1>3. \A p \in UnderWay : p.kind # "answer"
  BY WayOf
<1>4. RequestIsSingle'
  BY <1>1, <1>2, <1>3 DEF InTime, RequestIsSingle
<1>5. VerdictIsExpected'
  BY <1>1, <1>3 DEF InTime, VerdictIsExpected, StartRejected, StartAnswered
<1>6. AcceptanceIsExplained'
  BY <1>1, <1>3 DEF AcceptanceIsExplained, StartAccepted, StartAnswered
<1>. QED
  BY <1>4, <1>5, <1>6 DEF InTime

\* No request is under way outside the wait for an answer.
LEMMA NothingAsked ==
  ASSUME SessionInv, InTime, pending = None
  PROVE  inbox = <<>> /\ ~OnItsWay("answer")
BY DEF InTime, RequestIsSingle

\* A call begins.
LEMMA BeginInTime ==
  ASSUME SessionInv, InTime, BeginStart \/ BeginStop \/ BeginOther \/ BeginClose
  PROVE  InTime'
<1>1. /\ pc = "idle" /\ pc' # "await" /\ pc' # "started" /\ UNCHANGED <<boardVars, active>>
  BY DEF BeginStart, BeginStop, BeginOther, BeginClose, Enter
<1>2. inbox = <<>> /\ ~OnItsWay("answer")
  BY <1>1, NothingAsked DEF SessionInv, RequestIsRegistered
<1>3. Going => status = None /\ active
  BY <1>1 DEF InTime, VerdictIsExpected
<1>4. active => Explained
  BY DEF InTime, AcceptanceIsExplained
<1>5. CASE BeginStart
  <2>1. ~active /\ status' = None
    BY <1>5 DEF BeginStart
  <2>. QED
    BY <1>1, <1>2, <1>3, <2>1, CallKept
<1>6. CASE BeginStop \/ BeginOther \/ BeginClose
  <2>1. UNCHANGED launchVars /\ call' # "Start"
    BY <1>6 DEF BeginStop, BeginOther, BeginClose, Enter
  <2>2. ~Fresh' /\ (Explained' <=> Explained)
    BY <1>1, <2>1 DEF Fresh, Explained, VerdictIsComing
  <2>. QED
    BY <1>1, <1>2, <1>3, <1>4, <2>1, <2>2, CallKept
<1>. QED
  BY <1>5, <1>6

\* The request that is sent is the only one.
LEMMA SendInTime ==
  ASSUME SessionInv, InTime, SendRequest, ~late'
  PROVE  InTime'
<1>1. /\ pc = "request" /\ pending' = Command /\ pc' = "await"
      /\ UNCHANGED <<call, answered, response, launchVars>>
      /\ UNCHANGED <<linkUp, board, slots, toHost, gen, lost>>
  BY DEF SendRequest, Goto
<1>2. PICK q \in [command : {Command}, run : RunIds \cup {NoRun}] :
        inbox' = Append(inbox, q)
  <2>1. activeRun \in RunIds \cup {NoRun} /\ 0 \in RunIds
    BY ServiceAssumption DEF SessionInv, TypeOK, LaunchType
  <2>. QED
    BY <2>1 DEF SendRequest
<1>3. inbox = <<>> /\ ~OnItsWay("answer") /\ response = None
  BY <1>1, NothingAsked DEF SessionInv, RequestIsRegistered
<1>4. Len(inbox') = 1 /\ DOMAIN inbox' = {1} /\ inbox'[1].command = Command
  <2>1. inbox' = <<q>>
    BY <1>2, <1>3
  <2>. QED
    BY <2>1
<1>5. Command # None
  <2>1. Command \in Commands
    BY <1>1 DEF SessionInv, CallsAreServed, Command, Commands
  <2>. QED
    BY <2>1, ClientAssumption
<1>6. /\ UnderWay' = UnderWay /\ (Going' <=> Going) /\ Command' = Command
      /\ OnItsWay("answer")' <=> OnItsWay("answer")
      /\ OnItsWay("verdict")' <=> OnItsWay("verdict")
      /\ OneOnItsWay("answer")' <=> OneOnItsWay("answer")
      /\ OneOnItsWay("verdict")' <=> OneOnItsWay("verdict")
      /\ ~Fresh' /\ (Explained' <=> Explained)
  BY <1>1 DEF UnderWay, Going, OnItsWay, OneOnItsWay, Command, Fresh, Explained,
              VerdictIsComing
<1>7. \A p \in UnderWay : p.kind # "answer"
  BY <1>3, WayOf
<1>8. Going \/ status # None => NoStart'
  <2>1. NoStart' <=> call # "Start"
    BY <1>4, StartIsCalled DEF NoStart, IsStart
  <2>2. call = "Start" => ~active
    BY <1>1 DEF SessionInv, CallsAreServed, Starting
  <2>3. Going => active
    BY <1>1 DEF InTime, VerdictIsExpected
  <2>4. status # None => call # "Start"
    BY <1>1 DEF InTime, VerdictIsExpected, Fresh
  <2>. QED
    BY <2>1, <2>2, <2>3, <2>4
<1>9. RequestIsSingle'
  BY <1>1, <1>3, <1>4, <1>5, <1>6, <1>7 DEF InTime, RequestIsSingle
<1>10. VerdictIsExpected'
  BY <1>1, <1>3, <1>6, <1>7, <1>8 DEF InTime, VerdictIsExpected, StartRejected,
     StartAnswered
<1>11. AcceptanceIsExplained'
  BY <1>1, <1>3, <1>6, <1>7 DEF InTime, AcceptanceIsExplained, StartAccepted,
     StartAnswered
<1>. QED
  BY <1>9, <1>10, <1>11 DEF InTime

\* The answer is taken as success only if the launch it accepts can be explained.
LEMMA TakeInTime ==
  ASSUME SessionInv, InTime, TakeResponse
  PROVE  InTime'
<1>1. /\ pc = "await" /\ answered /\ UNCHANGED <<boardVars, launchVars, call>>
      /\ pc' = IF response = None \/ response.status # "Success"
                 THEN "failed" ELSE AfterSuccess
  BY DEF TakeResponse, Goto
<1>2. AfterSuccess \in {"started", "verdict", "closed", "idle"}
      /\ (AfterSuccess = "started" <=> call = "Start")
  BY DEF AfterSuccess
<1>3. ~Fresh' /\ pc' # "await" /\ (Explained' <=> Explained)
  BY <1>1, <1>2 DEF Fresh, Explained, VerdictIsComing
<1>4. /\ Going => status = None /\ (active \/ call = "Start")
      /\ response # None => (StartRejected(response) => ~Going)
      /\ active => Explained
      /\ response # None => (StartAccepted(response) => Explained)
  BY <1>1 DEF InTime, VerdictIsExpected, AcceptanceIsExplained
<1>5. CASE response = None
  <2>1. ~linkUp
    BY <1>1, <1>5, ClientAssumption DEF SessionInv, RequestIsRegistered
  <2>2. inbox = <<>> /\ slots = <<>> /\ toHost = <<>> /\ board = "idle"
    BY <2>1 DEF SessionInv, LostLinkIsSilent
  <2>3. ~OnItsWay("answer") /\ ~OnItsWay("verdict")
    BY <2>2, WayEmpty
  <2>4. ~Going /\ Explained
    BY <2>1, <2>2, <2>3 DEF Going, Explained
  <2>. QED
    BY <1>1, <1>3, <2>2, <2>3, <2>4, CallKept
<1>6. CASE response # None
  <2>1. pending = None /\ response.kind = "answer" /\ response.command = Command
    BY <1>1, <1>6 DEF SessionInv, RequestIsRegistered
  <2>2. inbox = <<>> /\ ~OnItsWay("answer")
    BY <2>1, NothingAsked
  <2>3. call = "Start" => StartAnswered(response)
    BY <2>1, StartIsCalled DEF StartAnswered
  <2>4. Going => active \/ (call = "Start" /\ pc' = "started")
    BY <1>1, <1>2, <1>4, <1>6, <2>3 DEF StartRejected
  <2>5. pc' = "started" => Explained
    BY <1>1, <1>2, <1>4, <1>6, <2>3 DEF StartAccepted
  <2>. QED
    BY <1>1, <1>3, <1>4, <2>2, <2>4, <2>5, CallKept
<1>. QED
  BY <1>5, <1>6

\* What the program's thread does once its request has been answered or has failed.
LEMMA ProceedInTime ==
  ASSUME SessionInv, InTime,
         \/ HandleFailure \/ Started \/ TakeVerdict \/ TakeData \/ StopWaiting
         \/ SensorNotified
  PROVE  InTime'
<1>1. /\ pc \in {"failed", "started", "verdict", "data", "sensor"}
      /\ UNCHANGED <<boardVars, status, verdictOf>>
  BY DEF HandleFailure, Started, TakeVerdict, TakeData, StopWaiting, SensorNotified,
         EndSensorWait, Fail, Finish
<1>2. inbox = <<>> /\ ~OnItsWay("answer")
  BY <1>1, NothingAsked DEF SessionInv, RequestIsRegistered
<1>3. Going => status = None /\ (active \/ pc = "started")
  BY <1>1 DEF InTime, VerdictIsExpected
<1>4. active \/ pc = "started" => Explained
  BY DEF InTime, AcceptanceIsExplained
<1>5. Explained' <=> Explained
  BY <1>1 DEF Explained, VerdictIsComing
<1>6. /\ pc' \notin {"await", "started"} /\ ~Fresh'
  BY DEF HandleFailure, Started, TakeVerdict, TakeData, StopWaiting, SensorNotified,
         EndSensorWait, Fail, Finish, Goto, AfterError, Fresh
<1>7. CASE Started
  BY <1>1, <1>2, <1>3, <1>4, <1>5, <1>6, <1>7, CallKept DEF Started
<1>8. CASE UNCHANGED active /\ pc # "started"
  BY <1>1, <1>2, <1>3, <1>4, <1>5, <1>6, <1>8, CallKept
<1>9. CASE active' = FALSE /\ status # None
  BY <1>1, <1>2, <1>3, <1>5, <1>6, <1>9, CallKept
<1>10. HandleFailure \/ StopWaiting \/ SensorNotified => UNCHANGED active /\ pc # "started"
  BY DEF HandleFailure, StopWaiting, SensorNotified, EndSensorWait
<1>11. TakeVerdict => \/ UNCHANGED active /\ pc # "started"
                      \/ active' = FALSE /\ status # None
  BY DEF TakeVerdict, Fail, Finish
<1>12. TakeData => \/ UNCHANGED active /\ pc # "started"
                   \/ active' = FALSE /\ status # None
  <2>1. pc = "data" => status # None
    BY DEF SessionInv, CallsAreServed
  <2>. QED
    BY <2>1 DEF TakeData, Fail, Finish
<1>. QED
  BY <1>7, <1>8, <1>9, <1>10, <1>11, <1>12

\* The answer that the receiver takes is that of the registered request.
LEMMA AnswerInTime ==
  ASSUME SessionInv, InTime, ReceiveAnswer
  PROVE  InTime'
<1>. DEFINE p == Head(toHost)
<1>1. /\ toHost # <<>> /\ toHost' = Tail(toHost) /\ p.kind = "answer"
      /\ UNCHANGED <<mainVars, launchVars, inbox, slots, board, gen, lost, linkUp>>
      /\ Matches(p) => response' = p /\ pending' = None
  BY DEF ReceiveAnswer, Receiving, Pop, ReceiverKeeps
<1>2. BoardType
  BY DEF SessionInv, TypeOK
<1>3. /\ OnItsWay("answer") /\ OneOnItsWay("answer")' /\ ~OnItsWay("answer")'
      /\ UnderWay' \subseteq UnderWay /\ p \in UnderWay
  BY <1>1, <1>2, WayTaken DEF InTime, RequestIsSingle
<1>4. /\ OnItsWay("verdict")' <=> OnItsWay("verdict")
      /\ OneOnItsWay("verdict") => OneOnItsWay("verdict")'
  BY <1>1, <1>2, WayTaken
<1>. HIDE DEF p
<1>5. inbox = <<>> /\ pending # None /\ p.command = Command
  BY <1>1, <1>3 DEF InTime, RequestIsSingle
<1>6. pc = "await" /\ pending = Command
  BY <1>5 DEF SessionInv, RequestIsRegistered
<1>7. response' = p /\ pending' = None
  BY <1>1, <1>5, <1>6 DEF Matches
<1>8. (Going' <=> Going) /\ (NoStart' <=> NoStart) /\ (Fresh' <=> Fresh)
      /\ Command' = Command
  BY <1>1, <1>4 DEF Going, NoStart, IsStart, Fresh, Command
<1>9. Explained' <=> Explained
  <2>1. /\ VerdictIsComing <=> OnItsWay("verdict")
        /\ VerdictIsComing' <=> OnItsWay("verdict")'
    BY DEF VerdictIsComing, OnItsWay, Holds
  <2>. QED
    BY <1>1, <1>4, <2>1 DEF Explained
<1>10. RequestIsSingle'
  BY <1>1, <1>3, <1>5, <1>8 DEF InTime, RequestIsSingle
<1>11. VerdictIsExpected'
  BY <1>1, <1>3, <1>4, <1>7, <1>8 DEF InTime, VerdictIsExpected, StartRejected,
     StartAnswered
<1>12. AcceptanceIsExplained'
  BY <1>1, <1>3, <1>7, <1>9 DEF InTime, AcceptanceIsExplained, StartAccepted,
     StartAnswered
<1>. QED
  BY <1>10, <1>11, <1>12 DEF InTime

\* The verdict that the receiver takes is that of the launch the program knows.
LEMMA VerdictInTime ==
  ASSUME SessionInv, InTime, ReceiveVerdict
  PROVE  InTime'
<1>. DEFINE p == Head(toHost)
<1>1. /\ toHost # <<>> /\ toHost' = Tail(toHost) /\ p.kind = "verdict"
      /\ UNCHANGED <<mainVars, requestVars, inbox, slots, board, gen, lost, linkUp>>
      /\ status' = p.status /\ verdictOf' = p.gen /\ active' = FALSE
  BY DEF ReceiveVerdict, Receiving, Pop, ReceiverKeeps
<1>2. BoardType /\ toHost \in Seq(Packet)
  BY DEF SessionInv, TypeOK, BoardType
<1>3. /\ OnItsWay("verdict") /\ OneOnItsWay("verdict")' /\ ~OnItsWay("verdict")'
      /\ UnderWay' \subseteq UnderWay /\ p \in UnderWay
  BY <1>1, <1>2, WayTaken DEF InTime, VerdictIsExpected
<1>4. /\ OnItsWay("answer")' <=> OnItsWay("answer")
      /\ OneOnItsWay("answer") => OneOnItsWay("answer")'
  BY <1>1, <1>2, WayTaken
<1>5. p.status \in Verdicts
  <2>1. p = toHost[1] /\ 1 \in DOMAIN toHost
    BY <1>1, PopFollows DEF Pop
  <2>. QED
    BY <1>1, <2>1 DEF SessionInv, PacketsAreOfTheirKind
<1>. HIDE DEF p
<1>6. status' # None
  BY <1>1, <1>5, ClientAssumption
<1>7. Going /\ board # "running" /\ p.gen = gen
  BY <1>1, <1>3 DEF InTime, VerdictIsExpected, Going
<1>8. NoStart /\ (active \/ (call = "Start" /\ pc \in {"await", "started"}))
  BY <1>7 DEF InTime, VerdictIsExpected
<1>9. ~Fresh
  BY <1>8 DEF Fresh, SessionInv, CallsAreServed, Starting
<1>10. ~Going' /\ NoStart' /\ ~Fresh' /\ Command' = Command /\ Explained'
  BY <1>1, <1>3, <1>6, <1>7, <1>8, <1>9
     DEF Going, NoStart, IsStart, Fresh, Command, Explained
<1>11. RequestIsSingle'
  BY <1>1, <1>3, <1>4, <1>10 DEF InTime, RequestIsSingle
<1>12. VerdictIsExpected'
  BY <1>1, <1>3, <1>7, <1>10 DEF InTime, VerdictIsExpected
<1>13. AcceptanceIsExplained'
  BY <1>10 DEF AcceptanceIsExplained
<1>. QED
  BY <1>11, <1>12, <1>13 DEF InTime

\* The rest of the receiver takes no part in it.
LEMMA ReceiverInTime ==
  ASSUME SessionInv, InTime, Receiver
  PROVE  InTime'
<1>1. CASE ReceiveFrame
  <2>1. /\ toHost # <<>> /\ toHost' = Tail(toHost)
        /\ Head(toHost).kind \notin {"answer", "verdict"}
        /\ UNCHANGED <<mainVars, requestVars, launchVars, inbox, slots, board, gen, lost, linkUp>>
    BY <1>1 DEF ReceiveFrame, Receiving, Pop, ReceiverKeeps
  <2>2. BoardType
    BY DEF SessionInv, TypeOK
  <2>3. /\ OnItsWay("answer")' <=> OnItsWay("answer")
        /\ OneOnItsWay("answer") => OneOnItsWay("answer")'
        /\ UnderWay' \subseteq UnderWay
    BY <2>1, <2>2, WayTaken
  <2>4. /\ OnItsWay("verdict")' <=> OnItsWay("verdict")
        /\ OneOnItsWay("verdict") => OneOnItsWay("verdict")'
    BY <2>1, <2>2, WayTaken
  <2>. QED
    BY <2>1, <2>3, <2>4, WayKept
<1>2. CASE CheckFrame \/ ExtendPayload \/ PublishData \/ FailBackground
  <2>1. /\ UNCHANGED <<boardVars, mainVars, pending, response>>
        /\ UNCHANGED <<active, activeRun, status, verdictOf>>
    BY <1>2 DEF CheckFrame, ExtendPayload, PublishData, FailBackground, ReceiverKeeps
  <2>2. /\ UnderWay' = UnderWay /\ (Going' <=> Going) /\ (NoStart' <=> NoStart)
        /\ OnItsWay("answer")' <=> OnItsWay("answer")
        /\ OnItsWay("verdict")' <=> OnItsWay("verdict")
        /\ OneOnItsWay("answer")' <=> OneOnItsWay("answer")
        /\ OneOnItsWay("verdict")' <=> OneOnItsWay("verdict")
        /\ Command' = Command /\ (Fresh' <=> Fresh) /\ (Explained' <=> Explained)
    BY <2>1 DEF UnderWay, Going, NoStart, IsStart, OnItsWay, OneOnItsWay, Command, Fresh,
                Explained, VerdictIsComing
  <2>. QED
    BY <2>1, <2>2
       DEF InTime, RequestIsSingle, VerdictIsExpected, AcceptanceIsExplained, StartRejected,
           StartAccepted, StartAnswered
<1>. QED
  BY <1>1, <1>2, AnswerInTime, VerdictInTime DEF Receiver

\* A session that begins while a launch of an earlier one runs counts as late.
LEMMA PunctualInit ==
  ASSUME Init
  PROVE  Punctual
<1>. SUFFICES ASSUME ~late
              PROVE  InTime
  BY DEF Punctual, InTime
<1>1. /\ board # "running" /\ inbox = <<>> /\ slots = <<>> /\ toHost = <<>>
      /\ pc = "idle" /\ active = FALSE /\ status = None
  BY DEF Init, BoardInit
<1>2. UnderWay = {} /\ ~OnItsWay("answer") /\ OneOnItsWay("answer")
      /\ ~OnItsWay("verdict") /\ OneOnItsWay("verdict")
  BY <1>1, WayEmpty
<1>3. Len(<<>>) = 0 /\ DOMAIN <<>> = {}
  BY LenProperties, EmptySeq
<1>4. RequestIsSingle
  BY <1>1, <1>2, <1>3 DEF RequestIsSingle
<1>5. VerdictIsExpected
  BY <1>1, <1>2 DEF VerdictIsExpected, Going
<1>6. AcceptanceIsExplained
  BY <1>1, <1>2 DEF AcceptanceIsExplained
<1>. QED
  BY <1>4, <1>5, <1>6 DEF InTime

\* A request that fails ends what is claimed; every other step keeps it.
LEMMA PunctualStep ==
  ASSUME SessionInv, Punctual, [Next]_vars
  PROVE  Punctual'
<1>. SUFFICES ASSUME ~late'
              PROVE  InTime'
  BY DEF Punctual, InTime
<1>1. ~late
  BY DEF Next, BoardStep, BoardEvent, Unread, BeginStart, BeginStop, BeginOther,
     BeginClose,
         Proceed, SendRequest, TakeResponse, HandleFailure, Started, TakeVerdict, TakeData,
         StopWaiting, SensorNotified, EndSensorWait, Timeout, Interrupt, Receiver,
         ReceiveAnswer, ReceiveVerdict, ReceiveFrame, CheckFrame, ExtendPayload, PublishData,
         FailBackground, ReceiverKeeps
<1>2. InTime
  BY <1>1 DEF Punctual, InTime
<1>3. ~Timeout /\ ~Interrupt
  BY DEF Timeout, Interrupt
<1>4. CASE UNCHANGED vars
  <2>1. /\ UnderWay' = UnderWay /\ (Going' <=> Going) /\ (NoStart' <=> NoStart)
        /\ OnItsWay("answer")' <=> OnItsWay("answer")
        /\ OnItsWay("verdict")' <=> OnItsWay("verdict")
        /\ OneOnItsWay("answer")' <=> OneOnItsWay("answer")
        /\ OneOnItsWay("verdict")' <=> OneOnItsWay("verdict")
    BY <1>4 DEF UnderWay, Going, NoStart, IsStart, OnItsWay, OneOnItsWay
  <2>. QED
    BY <1>2, <1>4, <2>1, WayKept
<1>. QED
  BY <1>2, <1>3, <1>4, BoardInTime, BeginInTime, SendInTime, TakeInTime, ProceedInTime,
     ReceiverInTime DEF Next, Proceed

\* RUN_STATUS names no launch.  In a session in which no request failed, the verdict
\* stopLaunch acts on is that of the launch it is about.
THEOREM VerdictOfRunTheorem == Spec => []VerdictIsOfItsRun
<1>1. SessionInv /\ Punctual => VerdictIsOfItsRun
  BY DEF SessionInv, CallsAreServed, Punctual, VerdictIsExpected, VerdictIsOfItsRun
<1>2. Init => SessionInv /\ Punctual
  BY SessionInit, PunctualInit
<1>3. SessionInv /\ Punctual /\ [Next]_vars => (SessionInv /\ Punctual)'
  BY SessionStep, PunctualStep
<1>. QED
  BY <1>1, <1>2, <1>3, PTL DEF Spec

\* The client refuses a new launch only while the board has one, its verdict is on its
\* way or already known, or it is lost.
THEOREM ActiveTheorem == Spec => []ActiveIsExplained
<1>1. Punctual => ActiveIsExplained
  BY DEF Punctual, AcceptanceIsExplained, Explained, ActiveIsExplained
<1>2. Init => SessionInv /\ Punctual
  BY SessionInit, PunctualInit
<1>3. SessionInv /\ Punctual /\ [Next]_vars => (SessionInv /\ Punctual)'
  BY SessionStep, PunctualStep
<1>. QED
  BY <1>1, <1>2, <1>3, PTL DEF Spec
=============================================================================

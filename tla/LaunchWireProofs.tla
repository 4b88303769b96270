-------------------------- MODULE LaunchWireProofs --------------------------
(***************************************************************************)
(* The wire stream of a launch: the segments SegmentWriter cuts join into   *)
(* the stream, and the host decodes the stream to the record it is of, for  *)
(* every record, every number of sensors and every payload size.            *)
(***************************************************************************)
EXTENDS LaunchRecord, SequenceTheorems, WellFoundedInduction, TLAPS

-----------------------------------------------------------------------------
(* Induction.                                                               *)

\* Induction on the naturals, for a set in place of a predicate.
LEMMA Induction ==
  ASSUME NEW S, 0 \in S, \A n \in Nat : n \in S => n + 1 \in S
  PROVE  Nat \subseteq S
<1> DEFINE R == OpToRel(<, Nat)
           T == Nat \ S
<1>1. SUFFICES ASSUME T # {} PROVE FALSE
  OBVIOUS
<1>2. PICK x \in T : \A y \in T : ~ (<<y, x>> \in R)
  <2> HIDE DEF R
  <2> QED
    BY <1>1, WFMin, NatLessThanWellFounded DEF R
<1>3. \A y \in T : ~(y < x)
  BY <1>2 DEF OpToRel
<1>4. x # 0
  OBVIOUS
<1>5. x - 1 \in Nat /\ (x - 1) + 1 = x
  BY <1>4
<1>6. x - 1 \in T
  BY <1>5
<1>7. QED
  BY <1>3, <1>6

\* Induction up to n.
LEMMA BoundedInduction ==
  ASSUME NEW n \in Nat, NEW S, 0 \in S, \A k \in 1 .. n : k - 1 \in S => k \in S
  PROVE  0 .. n \subseteq S
<1> DEFINE U == {k \in Nat : k <= n => k \in S}
<1>1. 0 \in U
  OBVIOUS
<1>2. ASSUME NEW k \in Nat, k \in U
      PROVE  k + 1 \in U
  <2>1. SUFFICES ASSUME k + 1 <= n
                 PROVE  k + 1 \in S
    OBVIOUS
  <2>2. k + 1 \in 1 .. n /\ (k + 1) - 1 = k /\ k <= n
    BY <2>1
  <2>3. QED
    BY <1>2, <2>2
<1>3. Nat \subseteq U
  <2> HIDE DEF U
  <2>1. QED
    BY <1>1, <1>2, Induction
<1>4. QED
  BY <1>3

\* A function defined by its value at 0 and at k from the one at k - 1 exists.
LEMMA Recursion ==
  ASSUME NEW T, NEW a \in T, NEW n \in Nat, NEW g \in [1 .. n -> [T -> T]]
  PROVE  \E f \in [0 .. n -> T] :
           \A k \in 0 .. n : f[k] = IF k = 0 THEN a ELSE g[k][f[k - 1]]
<1> DEFINE Holds(f, m) ==
             \A k \in 0 .. m : f[k] = IF k = 0 THEN a ELSE g[k][f[k - 1]]
           S == {m \in Nat : m <= n => \E f \in [0 .. m -> T] : Holds(f, m)}
<1>1. 0 \in S
  <2> DEFINE f == [k \in 0 .. 0 |-> a]
  <2>1. f \in [0 .. 0 -> T] /\ Holds(f, 0)
    OBVIOUS
  <2> HIDE DEF f
  <2>2. QED
    BY <2>1
<1>2. ASSUME NEW m \in Nat, m \in S
      PROVE  m + 1 \in S
  <2> SUFFICES ASSUME m + 1 <= n
               PROVE  \E f \in [0 .. m + 1 -> T] : Holds(f, m + 1)
    OBVIOUS
  <2>1. PICK h \in [0 .. m -> T] : Holds(h, m)
    BY <1>2
  <2> DEFINE f == [k \in 0 .. m + 1 |-> IF k = m + 1 THEN g[m + 1][h[m]] ELSE h[k]]
  <2>2. g[m + 1][h[m]] \in T
    OBVIOUS
  <2>3. f \in [0 .. m + 1 -> T]
    BY <2>2
  <2>4. Holds(f, m + 1)
    <3>1. \A k \in 0 .. m : f[k] = h[k]
      OBVIOUS
    <3>2. f[m + 1] = g[m + 1][f[m]]
      BY <3>1
    <3>3. ASSUME NEW k \in 0 .. m
          PROVE  f[k] = IF k = 0 THEN a ELSE g[k][f[k - 1]]
      <4>1. h[k] = IF k = 0 THEN a ELSE g[k][h[k - 1]]
        BY <2>1
      <4>2. k # 0 => k - 1 \in 0 .. m
        OBVIOUS
      <4> HIDE DEF f
      <4>3. QED
        BY <3>1, <4>1, <4>2
    <3> HIDE DEF f
    <3>4. \A k \in 0 .. m + 1 : k = m + 1 \/ k \in 0 .. m
      OBVIOUS
    <3>5. (m + 1) - 1 = m /\ m + 1 # 0
      OBVIOUS
    <3>6. QED
      BY <3>2, <3>3, <3>4, <3>5
  <2> HIDE DEF f
  <2>5. QED
    BY <2>3, <2>4
<1>3. Nat \subseteq S
  <2> HIDE DEF S
  <2>1. QED
    BY <1>1, <1>2, Induction
<1>4. QED
  BY <1>3

-----------------------------------------------------------------------------
(* Arrays of arrays.                                                        *)

\* A product grows with its factor.
LEMMA ProductMonotonic ==
  ASSUME NEW n \in Nat, NEW i \in Int, NEW j \in Int, i <= j
  PROVE  i * n <= j * n
<1>1. (j - i) * n \in Nat
  OBVIOUS
<1>2. QED
  BY <1>1

\* The quotient and the remainder of a place in an array of arrays of n.
LEMMA Place ==
  ASSUME NEW n \in Nat \ {0}, NEW i \in Int, NEW j \in 0 .. n - 1
  PROVE  (i * n + j) \div n = i /\ (i * n + j) % n = j
<1> DEFINE a == i * n + j
           q == a \div n
           r == a % n
<1>1. a \in Int /\ q \in Int /\ r \in 0 .. n - 1 /\ a = n * q + r
  OBVIOUS
<1>2. ~ (q < i)
  BY <1>1, ProductMonotonic
<1>3. ~ (i < q)
  BY <1>1, ProductMonotonic
<1>4. QED
  BY <1>1, <1>2, <1>3

\* Every place of an array of count arrays of n is one of one of them.
LEMMA PlaceOf ==
  ASSUME NEW n \in Nat \ {0}, NEW count \in Nat, NEW k \in 1 .. count * n
  PROVE  /\ (k - 1) \div n + 1 \in 1 .. count
         /\ ((k - 1) % n) + 1 \in 1 .. n
         /\ k = ((k - 1) \div n) * n + ((k - 1) % n) + 1
<1> DEFINE q == (k - 1) \div n
           r == (k - 1) % n
<1>1. q \in Int /\ r \in 0 .. n - 1 /\ k - 1 = n * q + r
  OBVIOUS
<1>2. ~ (q < 0)
  BY <1>1, ProductMonotonic
<1>3. ~ (q >= count)
  BY <1>1, ProductMonotonic
<1>4. QED
  BY <1>1, <1>2, <1>3
\* Place k of array i of count arrays of n.
LEMMA PlaceIn ==
  ASSUME NEW n \in Nat \ {0}, NEW count \in Nat, NEW i \in 1 .. count, NEW k \in 1 .. n
  PROVE  /\ (i - 1) * n + k \in 1 .. count * n
         /\ (((i - 1) * n + k) - 1) \div n = i - 1
         /\ (((i - 1) * n + k) - 1) % n = k - 1
<1>1. i - 1 \in Nat /\ k - 1 \in 0 .. n - 1 /\ (i - 1) * n \in Int /\ i * n \in Int
  OBVIOUS
<1>2. 0 * n <= (i - 1) * n /\ i * n <= count * n
  BY <1>1, ProductMonotonic
<1>3. i * n = (i - 1) * n + n
  OBVIOUS
<1>4. (i - 1) * n + k \in 1 .. count * n
  BY <1>1, <1>2, <1>3
<1>5. ((i - 1) * n + k) - 1 = (i - 1) * n + (k - 1)
  BY <1>1
<1>6. ((i - 1) * n + (k - 1)) \div n = i - 1 /\ ((i - 1) * n + (k - 1)) % n = k - 1
  <2>1. i - 1 \in Int
    BY <1>1
  <2>2. QED
    BY <1>1, <2>1, Place
<1>7. QED
  BY <1>4, <1>5, <1>6

-----------------------------------------------------------------------------
(* The pieces of a stream.  A byte is a value and its place in it.          *)

Byte(V) == V \X Nat

\* A function on 1 .. n is a sequence.
LEMMA IsSequence ==
  ASSUME NEW S, NEW n \in Nat, NEW f \in [1 .. n -> S]
  PROVE  f \in Seq(S) /\ Len(f) = n
OBVIOUS

\* The length of two sequences joined.
LEMMA Joined ==
  ASSUME NEW S, NEW a \in Seq(S), NEW b \in Seq(S)
  PROVE  a \o b \in Seq(S) /\ Len(a \o b) = Len(a) + Len(b)
BY ConcatProperties

\* A small count is a byte.
LEMMA SmallIs ==
  ASSUME NEW V, NEW value \in V
  PROVE  /\ Small(value) \in Seq(Byte(V)) /\ Len(Small(value)) = 1
         /\ Small(value)[1] = <<value, 1>>
BY DEF Small, Byte

\* A word is WordBytes bytes.
LEMMA WordIs ==
  ASSUME NEW V, NEW value \in V
  PROVE  /\ Word(value) \in Seq(Byte(V)) /\ Len(Word(value)) = WordBytes
         /\ \A k \in 1 .. WordBytes : Word(value)[k] = <<value, k>>
BY RecordAssumption DEF Word, Byte

\* The bytes of an array of words.
LEMMA WordsAre ==
  ASSUME NEW V, NEW values \in Seq(V)
  PROVE  /\ Words(values) \in Seq(Byte(V)) /\ Len(Words(values)) = Len(values) * WordBytes
         /\ \A i \in 1 .. Len(values), k \in 1 .. WordBytes :
              Words(values)[(i - 1) * WordBytes + k] = <<values[i], k>>
<1> DEFINE n == Len(values) * WordBytes
<1>1. n \in Nat /\ WordBytes \in Nat \ {0} /\ Len(values) \in Nat
  BY RecordAssumption, LenProperties
<1>2. ASSUME NEW k \in 1 .. n
      PROVE  <<values[(k - 1) \div WordBytes + 1], ((k - 1) % WordBytes) + 1>> \in Byte(V)
  <2>1. /\ (k - 1) \div WordBytes + 1 \in 1 .. Len(values)
        /\ ((k - 1) % WordBytes) + 1 \in 1 .. WordBytes
    BY <1>1, PlaceOf
  <2>2. values[(k - 1) \div WordBytes + 1] \in V
    BY <2>1, ElementOfSeq
  <2>3. QED
    BY <2>1, <2>2 DEF Byte
<1>3. Words(values) = [k \in 1 .. n |-> <<values[(k - 1) \div WordBytes + 1],
                                          ((k - 1) % WordBytes) + 1>>]
  BY DEF Words
<1>4. Words(values) \in [1 .. n -> Byte(V)]
  BY <1>2, <1>3
<1>5. Words(values) \in Seq(Byte(V)) /\ Len(Words(values)) = n
  <2> HIDE DEF n
  <2> QED
    BY <1>1, <1>4, IsSequence
<1>6. ASSUME NEW i \in 1 .. Len(values), NEW k \in 1 .. WordBytes
      PROVE  Words(values)[(i - 1) * WordBytes + k] = <<values[i], k>>
  <2>1. /\ (i - 1) * WordBytes + k \in 1 .. n
        /\ (((i - 1) * WordBytes + k) - 1) \div WordBytes = i - 1
        /\ (((i - 1) * WordBytes + k) - 1) % WordBytes = k - 1
    BY ONLY <1>1, PlaceIn
  <2>2. (i - 1) + 1 = i /\ (k - 1) + 1 = k
    BY <1>1
  <2>3. QED
    BY <1>3, <2>1, <2>2
<1>7. QED
  BY <1>5, <1>6

\* The bytes of the scans.
LEMMA ScansAre ==
  ASSUME NEW V, NEW samples \in Seq([1 .. Channels -> V])
  PROVE  /\ Scans(samples) \in Seq(Byte(V)) /\ Len(Scans(samples)) = Len(samples) * Channels
         /\ \A i \in 1 .. Len(samples), c \in 1 .. Channels :
              Scans(samples)[(i - 1) * Channels + c] = <<samples[i][c], 1>>
<1> DEFINE n == Len(samples) * Channels
<1>1. n \in Nat /\ Channels \in Nat \ {0} /\ Len(samples) \in Nat
  BY SegmentsAssumption, LenProperties
<1>2. ASSUME NEW k \in 1 .. n
      PROVE  <<samples[(k - 1) \div Channels + 1][((k - 1) % Channels) + 1], 1>> \in Byte(V)
  <2>1. /\ (k - 1) \div Channels + 1 \in 1 .. Len(samples)
        /\ ((k - 1) % Channels) + 1 \in 1 .. Channels
    BY <1>1, PlaceOf
  <2>2. samples[(k - 1) \div Channels + 1] \in [1 .. Channels -> V]
    BY <2>1, ElementOfSeq
  <2>3. QED
    BY <2>1, <2>2 DEF Byte
<1>3. Scans(samples) = [k \in 1 .. n |->
                          <<samples[(k - 1) \div Channels + 1][((k - 1) % Channels) + 1], 1>>]
  BY DEF Scans
<1>4. Scans(samples) \in [1 .. n -> Byte(V)]
  BY <1>2, <1>3
<1>5. Scans(samples) \in Seq(Byte(V)) /\ Len(Scans(samples)) = n
  <2> HIDE DEF n
  <2> QED
    BY <1>1, <1>4, IsSequence
<1>6. ASSUME NEW i \in 1 .. Len(samples), NEW c \in 1 .. Channels
      PROVE  Scans(samples)[(i - 1) * Channels + c] = <<samples[i][c], 1>>
  <2>1. /\ (i - 1) * Channels + c \in 1 .. n
        /\ (((i - 1) * Channels + c) - 1) \div Channels = i - 1
        /\ (((i - 1) * Channels + c) - 1) % Channels = c - 1
    BY ONLY <1>1, PlaceIn, ZenonT(60)
  <2>2. (i - 1) + 1 = i /\ (c - 1) + 1 = c
    BY <1>1
  <2> DEFINE place == (i - 1) * Channels + c
  <2>3. \A k \in 1 .. n :
          Scans(samples)[k] =
            <<samples[(k - 1) \div Channels + 1][((k - 1) % Channels) + 1], 1>>
    BY <1>3
  <2>4. Scans(samples)[place] =
          <<samples[(place - 1) \div Channels + 1][((place - 1) % Channels) + 1], 1>>
    BY <2>1, <2>3, Zenon
  <2>5. QED
    BY <2>1, <2>2, <2>4, Zenon
<1>7. QED
  BY <1>5, <1>6

-----------------------------------------------------------------------------
(* Segments.                                                                *)

\* What one frame takes of a stream from an offset on.
Segment(stream, from) ==
  SubSeq(stream, from + 1,
         IF from + PayloadSize < Len(stream) THEN from + PayloadSize ELSE Len(stream))

\* A writer that started at an offset has gone through a stream.
Written(writer, stream, from) ==
  /\ writer.streamPosition = Len(stream)
  /\ writer.output = Segment(stream, from)

\* The bytes of a segment.
LEMMA SegmentIs ==
  ASSUME NEW B, NEW stream \in Seq(B), NEW from \in Nat
  PROVE  /\ Segment(stream, from) \in Seq(B)
         /\ Len(Segment(stream, from)) =
              IF from >= Len(stream) THEN 0
              ELSE IF from + PayloadSize < Len(stream) THEN PayloadSize
              ELSE Len(stream) - from
         /\ \A i \in 1 .. Len(Segment(stream, from)) :
              Segment(stream, from)[i] = stream[from + i]
<1> DEFINE last == IF from + PayloadSize < Len(stream) THEN from + PayloadSize
                                                         ELSE Len(stream)
<1>1. PayloadSize \in Nat \ {0} /\ Len(stream) \in Nat
  BY RecordAssumption
<1>2. last \in Nat /\ last <= Len(stream)
  BY <1>1
<1>3. \A i \in from + 1 .. last : stream[i] \in B
  BY <1>1, <1>2
<1>4. /\ SubSeq(stream, from + 1, last) \in Seq(B)
      /\ Len(SubSeq(stream, from + 1, last)) =
           IF from + 1 <= last THEN last - (from + 1) + 1 ELSE 0
      /\ \A i \in 1 .. last - (from + 1) + 1 :
           SubSeq(stream, from + 1, last)[i] = stream[(from + 1) + i - 1]
  <2> HIDE DEF last
  <2> QED
    BY <1>2, <1>3, SubSeqProperties
<1>5. Segment(stream, from) = SubSeq(stream, from + 1, last)
  BY DEF Segment
<1>6. Len(Segment(stream, from)) = IF from + 1 <= last THEN last - from ELSE 0
  BY <1>2, <1>4, <1>5
<1>7. \A i \in 1 .. Len(Segment(stream, from)) :
        Segment(stream, from)[i] = stream[from + i]
  <2> SUFFICES ASSUME NEW i \in 1 .. Len(Segment(stream, from))
               PROVE  Segment(stream, from)[i] = stream[from + i]
    OBVIOUS
  <2> HIDE DEF last
  <2>0. i \in 1 .. (IF from + 1 <= last THEN last - from ELSE 0)
    BY ONLY <1>6
  <2>1. i \in 1 .. last - (from + 1) + 1 /\ (from + 1) + i - 1 = from + i
    BY <1>2, <2>0
  <2>2. QED
    BY <1>4, <1>5, <2>1
<1>8. QED
  BY <1>1, <1>4, <1>5, <1>6, <1>7

\* append writes what the segment takes of its bytes, over the end of the segment and
\* with the offset inside them.
LEMMA AppendStep ==
  ASSUME NEW B, NEW stream \in Seq(B), NEW bytes \in Seq(B), NEW from \in Nat,
         NEW writer, Written(writer, stream, from)
  PROVE  Written(append(writer, bytes, from), stream \o bytes, from)
<1> DEFINE L == Len(stream)
           D == Len(bytes)
           old == Segment(stream, from)
           new == Segment(stream \o bytes, from)
           source == IF from > L THEN from - L ELSE 0
           remaining == PayloadSize - Len(old)
           copied == IF D - source < remaining THEN D - source ELSE remaining
           piece == SubSeq(bytes, source + 1, source + copied)
           full == remaining = 0 \/ from >= L + D
<1>1. /\ append(writer, bytes, from).streamPosition = L + D
      /\ append(writer, bytes, from).output = IF full THEN old ELSE old \o piece
  <2>1. writer.streamPosition = L /\ writer.output = old
    BY DEF Written
  <2> HIDE DEF L, old
  <2>2. append(writer, bytes, from).streamPosition = L + D
    <3> HIDE DEF D
    <3>1. append(writer, bytes, from).streamPosition = writer.streamPosition + Len(bytes)
      BY DEF append
    <3>2. QED
      BY <2>1, <3>1 DEF D
  <2>3. Copied(bytes, source, remaining) = piece
    <3> HIDE DEF source, remaining
    <3>1. QED
      BY Zenon DEF Copied
  <2>4. append(writer, bytes, from).output =
          IF full THEN old ELSE old \o Copied(bytes, source, remaining)
    <3> HIDE DEF piece
    <3>1. QED
      BY <2>1, Zenon DEF append
  <2> HIDE DEF full, piece
  <2>5. QED
    BY <2>2, <2>3, <2>4
<1>2. PayloadSize \in Nat \ {0} /\ L \in Nat /\ D \in Nat
  BY RecordAssumption
<1>3. /\ stream \o bytes \in Seq(B) /\ Len(stream \o bytes) = L + D
      /\ \A i \in 1 .. L + D : (stream \o bytes)[i] = IF i <= L THEN stream[i] ELSE bytes[i - L]
  BY ConcatProperties
<1>4. /\ old \in Seq(B)
      /\ Len(old) = IF from >= L THEN 0
                    ELSE IF from + PayloadSize < L THEN PayloadSize ELSE L - from
      /\ \A i \in 1 .. Len(old) : old[i] = stream[from + i]
  BY SegmentIs
<1>5. /\ new \in Seq(B)
      /\ Len(new) = IF from >= L + D THEN 0
                    ELSE IF from + PayloadSize < L + D THEN PayloadSize ELSE L + D - from
      /\ \A i \in 1 .. Len(new) : new[i] = (stream \o bytes)[from + i]
  <2> DEFINE joined == stream \o bytes
  <2>1. joined \in Seq(B) /\ Len(joined) = L + D
    BY <1>3
  <2> HIDE DEF joined
  <2>2. /\ Segment(joined, from) \in Seq(B)
        /\ Len(Segment(joined, from)) =
             IF from >= Len(joined) THEN 0
             ELSE IF from + PayloadSize < Len(joined) THEN PayloadSize
             ELSE Len(joined) - from
        /\ \A i \in 1 .. Len(Segment(joined, from)) :
             Segment(joined, from)[i] = joined[from + i]
    BY <2>1, SegmentIs
  <2>3. new = Segment(joined, from)
    BY DEF joined
  <2> HIDE DEF new
  <2>4. QED
    BY <2>1, <2>2, <2>3 DEF joined
<1> HIDE DEF old, new
<1>6. CASE full
  <2>1. Len(new) = Len(old)
    BY <1>2, <1>4, <1>5, <1>6
  <2>2. ASSUME NEW i \in 1 .. Len(old)
        PROVE  old[i] = new[i]
    <3>1. from + i \in 1 .. L + D /\ from + i <= L
      BY <1>2, <1>4
    <3>2. QED
      BY <1>3, <1>4, <1>5, <2>1, <3>1
  <2>3. old = new
    BY <1>4, <1>5, <2>1, <2>2, SeqEqual
  <2>4. QED
    BY <1>1, <1>3, <1>6, <2>3 DEF Written, new
<1>7. CASE ~full
  <2>1. /\ source \in Nat /\ copied \in Nat /\ source + copied <= D
        /\ Len(old) + copied = Len(new)
        /\ copied # 0 => from + Len(old) = L + source
    <3>1. /\ L \in Nat /\ D \in Nat /\ PayloadSize \in Nat \ {0}
          /\ Len(old) = IF from >= L THEN 0
                     ELSE IF from + PayloadSize < L THEN PayloadSize ELSE L - from
          /\ Len(new) = IF from >= L + D THEN 0
                     ELSE IF from + PayloadSize < L + D THEN PayloadSize ELSE L + D - from
          /\ PayloadSize - Len(old) # 0 /\ from < L + D
      BY <1>2, <1>4, <1>5, <1>7
    <3> HIDE DEF L, D
    <3>2. CASE from < L
      <4>1. source = 0 /\ Len(old) = L - from
        BY <3>1, <3>2
      <4>2. copied = IF D < PayloadSize - (L - from) THEN D ELSE PayloadSize - (L - from)
        BY <3>1, <4>1
      <4> HIDE DEF source, copied
      <4>3. QED
        BY <3>1, <3>2, <4>1, <4>2
    <3>3. CASE from >= L
      <4>1. source = from - L /\ Len(old) = 0
        BY <3>1, <3>3
      <4>2. copied = IF D - (from - L) < PayloadSize THEN D - (from - L) ELSE PayloadSize
        BY <3>1, <4>1
      <4> HIDE DEF source, copied
      <4>3. QED
        BY <3>1, <3>3, <4>1, <4>2
    <3>4. QED
      BY <3>1, <3>2, <3>3
  <2> HIDE DEF source, copied
  <2>2. /\ piece \in Seq(B) /\ Len(piece) = copied
        /\ \A i \in 1 .. copied : piece[i] = bytes[source + i]
    <3>1. \A i \in source + 1 .. source + copied : bytes[i] \in B
      BY <1>2, <2>1
    <3>2. source + 1 \in Int /\ source + copied \in Int
      BY <2>1
    <3>3. /\ piece \in Seq(B)
          /\ Len(piece) = IF source + 1 <= source + copied
                            THEN (source + copied) - (source + 1) + 1 ELSE 0
          /\ \A i \in 1 .. (source + copied) - (source + 1) + 1 :
               piece[i] = bytes[(source + 1) + i - 1]
      BY <3>1, <3>2, SubSeqProperties
    <3>4. (source + copied) - (source + 1) + 1 = copied
      BY <2>1
    <3>5. \A i \in 1 .. copied : (source + 1) + i - 1 = source + i
      BY <2>1
    <3>6. Len(piece) = copied
      BY <2>1, <3>3, <3>4
    <3> HIDE DEF piece
    <3>7. QED
      BY <3>3, <3>4, <3>5, <3>6
  <2> HIDE DEF piece
  <2>3. /\ old \o piece \in Seq(B) /\ Len(old \o piece) = Len(new)
        /\ \A i \in 1 .. Len(new) :
             (old \o piece)[i] = IF i <= Len(old) THEN old[i] ELSE piece[i - Len(old)]
    <3>1. /\ old \o piece \in Seq(B) /\ Len(old \o piece) = Len(old) + Len(piece)
          /\ \A i \in 1 .. Len(old) + Len(piece) :
               (old \o piece)[i] = IF i <= Len(old) THEN old[i] ELSE piece[i - Len(old)]
      BY <1>4, <2>2, ConcatProperties
    <3>2. QED
      BY <2>1, <2>2, <3>1
  <2>4. ASSUME NEW i \in 1 .. Len(new)
        PROVE  (old \o piece)[i] = new[i]
    <3>1. new[i] = (stream \o bytes)[from + i] /\ from + i \in 1 .. L + D
      BY <1>2, <1>5
    <3>2. CASE i <= Len(old)
      <4>1. i \in 1 .. Len(old) /\ from + i <= L
        BY <1>2, <1>4, <3>2
      <4>2. QED
        BY <1>3, <1>4, <2>3, <3>1, <3>2, <4>1
    <3>3. CASE ~ (i <= Len(old))
      <4>1. /\ i - Len(old) \in 1 .. copied /\ ~ (from + i <= L)
            /\ source + (i - Len(old)) = (from + i) - L
        <5>1. Len(old) \in Nat /\ Len(new) \in Nat /\ L \in Nat /\ i \in Nat
          BY <1>2, <1>4, <1>5, LenProperties
        <5>2. copied # 0 /\ from + Len(old) = L + source
          BY <5>1, <2>1, <3>3
        <5>3. Len(old) < i /\ i <= Len(old) + copied
          BY <5>1, <2>1, <3>3
        <5> HIDE DEF L
        <5>4. QED
          BY <5>1, <5>2, <5>3, <2>1
      <4>2. (old \o piece)[i] = bytes[source + (i - Len(old))]
        BY <2>2, <2>3, <3>3, <4>1, <1>4
      <4>3. (stream \o bytes)[from + i] = bytes[(from + i) - L]
        BY <1>3, <3>1, <4>1
      <4>4. QED
        BY <3>1, <4>1, <4>2, <4>3
    <3>4. QED
      BY <3>2, <3>3
  <2>5. old \o piece = new
    BY <1>5, <2>3, <2>4, SeqEqual
  <2>6. QED
    BY <1>1, <1>3, <1>7, <2>5 DEF Written, new, piece, copied, source
<1>8. QED
  BY <1>6, <1>7

\* A stream cut at an offset continues with the segment from there.
LEMMA SegmentsJoin ==
  ASSUME NEW B, NEW stream \in Seq(B), NEW from \in 0 .. Len(stream)
  PROVE  /\ from + Len(Segment(stream, from)) \in 0 .. Len(stream)
         /\ SubSeq(stream, 1, from) \o Segment(stream, from) =
              SubSeq(stream, 1, from + Len(Segment(stream, from)))
<1> DEFINE last == IF from + PayloadSize < Len(stream) THEN from + PayloadSize
                                                       ELSE Len(stream)
<1>1. PayloadSize \in Nat \ {0} /\ Len(stream) \in Nat /\ from \in Nat
  BY RecordAssumption
<1>2. Len(Segment(stream, from)) =
        IF from >= Len(stream) THEN 0
        ELSE IF from + PayloadSize < Len(stream) THEN PayloadSize
        ELSE Len(stream) - from
  BY <1>1, SegmentIs
<1>3. from + Len(Segment(stream, from)) = last
  BY <1>1, <1>2
<1>4. /\ 1 \in 1 .. Len(stream) + 1 /\ from \in 1 - 1 .. Len(stream)
      /\ last \in from .. Len(stream)
  BY <1>1
<1>5. SubSeq(stream, 1, from) \o SubSeq(stream, from + 1, last) = SubSeq(stream, 1, last)
  <2> HIDE DEF last
  <2>1. QED
    BY <1>4, ConcatAdjacentSubSeq
<1>6. Segment(stream, from) = SubSeq(stream, from + 1, last)
  BY DEF Segment
<1>7. last \in 0 .. Len(stream)
  BY <1>1
<1> HIDE DEF last
<1>8. QED
  BY <1>3, <1>5, <1>6, <1>7

-----------------------------------------------------------------------------
(* The stream of a record.                                                  *)

\* A record the wire can carry, with its values in V.
Wired(record, V) ==
  /\ Nat \subseteq V
  /\ \A s \in 1 .. SensorCount, e \in Edges :
       record.events[s][e] \in Seq(V) /\ Len(record.events[s][e]) <= Capacity
  /\ record.samples \in Seq([1 .. Channels -> V]) /\ Len(record.samples) <= MaxScans
  /\ record.launchStart \in V /\ record.launchEnd \in V

Rising(record, s) == record.events[s].Rising
Falling(record, s) == record.events[s].Falling

\* A stream with one more sensor, and with what follows the sensors.
WithSensor(stream, record, s) ==
  (((stream \o Small(Len(Rising(record, s)))) \o Small(Len(Falling(record, s))))
     \o Words(Rising(record, s))) \o Words(Falling(record, s))
WithTail(stream, record) ==
  (((stream \o Word(Len(record.samples))) \o Scans(record.samples))
     \o Word(record.launchStart)) \o Word(record.launchEnd)

SensorStreams(record) ==
  LET stream[s \in 0 .. SensorCount] ==
        IF s = 0 THEN <<>> ELSE WithSensor(stream[s - 1], record, s)
  IN stream
Stream(record) == WithTail(SensorStreams(record)[SensorCount], record)

\* The parts of a sensor are sequences of values.
LEMMA SensorParts ==
  ASSUME NEW V, NEW record, Wired(record, V), NEW s \in 1 .. SensorCount
  PROVE  /\ Rising(record, s) \in Seq(V) /\ Falling(record, s) \in Seq(V)
         /\ Len(Rising(record, s)) \in V /\ Len(Falling(record, s)) \in V
         /\ Len(Rising(record, s)) \in 0 .. Capacity
         /\ Len(Falling(record, s)) \in 0 .. Capacity
<1>1. "Rising" \in Edges /\ "Falling" \in Edges
  BY DEF Edges
<1>2. /\ record.events[s]["Rising"] \in Seq(V) /\ Len(record.events[s]["Rising"]) <= Capacity
      /\ record.events[s]["Falling"] \in Seq(V)
      /\ Len(record.events[s]["Falling"]) <= Capacity
  BY <1>1 DEF Wired
<1>3. QED
  BY <1>2, LenProperties DEF Wired, Rising, Falling

\* A sensor makes a stream longer by two counts and its words.
LEMMA WithSensorIs ==
  ASSUME NEW V, NEW record, Wired(record, V), NEW s \in 1 .. SensorCount,
         NEW stream \in Seq(Byte(V))
  PROVE  /\ WithSensor(stream, record, s) \in Seq(Byte(V))
         /\ Len(WithSensor(stream, record, s)) =
              Len(stream) + 2 + WordBytes * Len(Rising(record, s))
                              + WordBytes * Len(Falling(record, s))
<1> DEFINE r == Rising(record, s)
           f == Falling(record, s)
           s1 == stream \o Small(Len(r))
           s2 == s1 \o Small(Len(f))
           s3 == s2 \o Words(r)
           s4 == s3 \o Words(f)
<1>1. /\ r \in Seq(V) /\ f \in Seq(V) /\ Len(r) \in V /\ Len(f) \in V
      /\ Len(r) \in Nat /\ Len(f) \in Nat
  BY SensorParts
<1> HIDE DEF r, f
<1>p. /\ Small(Len(r)) \in Seq(Byte(V)) /\ Len(Small(Len(r))) = 1
      /\ Small(Len(f)) \in Seq(Byte(V)) /\ Len(Small(Len(f))) = 1
      /\ Words(r) \in Seq(Byte(V)) /\ Len(Words(r)) = Len(r) * WordBytes
      /\ Words(f) \in Seq(Byte(V)) /\ Len(Words(f)) = Len(f) * WordBytes
  BY <1>1, SmallIs, WordsAre
<1>2. s1 \in Seq(Byte(V)) /\ Len(s1) = Len(stream) + 1
  <2>1. s1 \in Seq(Byte(V)) /\ Len(s1) = Len(stream) + Len(Small(Len(r)))
    BY <1>p, Joined, Zenon
  <2>2. QED
    BY <1>p, <2>1
<1> HIDE DEF s1
<1>3. s2 \in Seq(Byte(V)) /\ Len(s2) = Len(s1) + 1
  <2>1. s2 \in Seq(Byte(V)) /\ Len(s2) = Len(s1) + Len(Small(Len(f)))
    BY <1>p, <1>2, Joined, Zenon
  <2>2. QED
    BY <1>p, <2>1
<1> HIDE DEF s2
<1>4. s3 \in Seq(Byte(V)) /\ Len(s3) = Len(s2) + Len(Words(r))
  BY <1>p, <1>3, Joined
<1> HIDE DEF s3
<1>5. s4 \in Seq(Byte(V)) /\ Len(s4) = Len(s3) + Len(Words(f))
  BY <1>p, <1>4, Joined
<1>6. WithSensor(stream, record, s) = s4
  BY DEF WithSensor, r, f, s1, s2, s3
<1> HIDE DEF s4
<1>7. Len(stream) \in Nat /\ WordBytes \in Nat
  BY RecordAssumption, LenProperties
<1>8. Len(s4) = Len(stream) + 2 + WordBytes * Len(r) + WordBytes * Len(f)
  BY <1>1, <1>p, <1>2, <1>3, <1>4, <1>5, <1>7
<1>9. QED
  BY <1>5, <1>6, <1>8 DEF r, f

\* The streams of the first sensors.
LEMMA SensorStreamsAre ==
  ASSUME NEW V, NEW record, Wired(record, V)
  PROVE  /\ SensorStreams(record) \in [0 .. SensorCount -> Seq(Byte(V))]
         /\ SensorStreams(record)[0] = <<>>
         /\ \A s \in 1 .. SensorCount :
              SensorStreams(record)[s] = WithSensor(SensorStreams(record)[s - 1], record, s)
<1> DEFINE T == Seq(Byte(V))
           g == [s \in 1 .. SensorCount |-> [stream \in T |-> WithSensor(stream, record, s)]]
<1>1. SensorCount \in Nat /\ <<>> \in T
  BY CaptureAssumption
<1>2. \A s \in 1 .. SensorCount, stream \in T : WithSensor(stream, record, s) \in T
  BY WithSensorIs
<1>3. g \in [1 .. SensorCount -> [T -> T]]
  BY <1>2
<1>4. PICK f \in [0 .. SensorCount -> T] :
        \A s \in 0 .. SensorCount : f[s] = IF s = 0 THEN <<>> ELSE g[s][f[s - 1]]
  <2> HIDE DEF g, T
  <2>1. QED
    BY <1>1, <1>3, Recursion
<1>5. ASSUME NEW s \in 0 .. SensorCount
      PROVE  f[s] = IF s = 0 THEN <<>> ELSE WithSensor(f[s - 1], record, s)
  <2>1. CASE s = 0
    BY <1>4, <2>1
  <2>2. CASE s # 0
    <3>1. s \in 1 .. SensorCount /\ s - 1 \in 0 .. SensorCount
      BY <1>1, <2>2
    <3>2. f[s - 1] \in T
      BY <3>1
    <3> HIDE DEF T
    <3>3. QED
      BY <1>4, <2>2, <3>1, <3>2
  <2>3. QED
    BY <2>1, <2>2
<1>6. f = [s \in 0 .. SensorCount |->
             IF s = 0 THEN <<>> ELSE WithSensor(f[s - 1], record, s)]
  BY <1>5
<1>7. SensorStreams(record) =
        [s \in 0 .. SensorCount |->
           IF s = 0 THEN <<>> ELSE WithSensor(SensorStreams(record)[s - 1], record, s)]
  BY <1>6, Zenon DEF SensorStreams
<1>8. \A s \in 0 .. SensorCount :
        SensorStreams(record)[s] =
          IF s = 0 THEN <<>> ELSE WithSensor(SensorStreams(record)[s - 1], record, s)
  BY <1>7, Zenon
<1>9. \A s \in 0 .. SensorCount : SensorStreams(record)[s] = f[s]
  <2>1. SensorStreams(record)[0] = f[0]
    BY <1>1, <1>5, <1>8
  <2>2. \A s \in 1 .. SensorCount : SensorStreams(record)[s - 1] = f[s - 1]
                                      => SensorStreams(record)[s] = f[s]
    BY <1>1, <1>5, <1>8
  <2> DEFINE S == {s \in 0 .. SensorCount : SensorStreams(record)[s] = f[s]}
  <2>3. 0 \in S /\ \A s \in 1 .. SensorCount : s - 1 \in S => s \in S
    BY <1>1, <2>1, <2>2
  <2>4. 0 .. SensorCount \subseteq S
    <3> HIDE DEF S
    <3>1. QED
      BY <1>1, <2>3, BoundedInduction
  <2>5. QED
    BY <2>4
<1>10. SensorStreams(record) \in [0 .. SensorCount -> T]
  <2>1. SensorStreams(record) = [s \in 0 .. SensorCount |-> SensorStreams(record)[s]]
    BY <1>7
  <2>2. \A s \in 0 .. SensorCount : SensorStreams(record)[s] \in T
    BY <1>9
  <2>3. QED
    BY <2>1, <2>2
<1>11. SensorStreams(record)[0] = <<>>
  BY <1>1, <1>8
<1>12. \A s \in 1 .. SensorCount :
         SensorStreams(record)[s] = WithSensor(SensorStreams(record)[s - 1], record, s)
  BY <1>1, <1>8
<1>13. QED
  BY <1>10, <1>11, <1>12, ZenonT(60)

\* The sizes SensorSizes adds up are those of the streams.
LEMMA SensorSizesAre ==
  ASSUME NEW V, NEW record, Wired(record, V)
  PROVE  \A s \in 0 .. SensorCount : SensorSizes(record)[s] = Len(SensorStreams(record)[s])
<1> DEFINE Step(size, s) == size + 2 + WordBytes * Len(record.events[s].Rising)
                                     + WordBytes * Len(record.events[s].Falling)
           f == [s \in 0 .. SensorCount |-> Len(SensorStreams(record)[s])]
<1>1. SensorCount \in Nat
  BY CaptureAssumption
<1>2. /\ SensorStreams(record) \in [0 .. SensorCount -> Seq(Byte(V))]
      /\ SensorStreams(record)[0] = <<>>
      /\ \A s \in 1 .. SensorCount :
           SensorStreams(record)[s] = WithSensor(SensorStreams(record)[s - 1], record, s)
  BY SensorStreamsAre
<1>3. ASSUME NEW s \in 0 .. SensorCount
      PROVE  f[s] = IF s = 0 THEN 0 ELSE Step(f[s - 1], s)
  <2>1. CASE s = 0
    BY <1>2, <2>1
  <2>2. CASE s # 0
    <3>1. s \in 1 .. SensorCount /\ s - 1 \in 0 .. SensorCount
      BY <1>1, <2>2
    <3>2. SensorStreams(record)[s - 1] \in Seq(Byte(V))
      BY <1>2, <3>1
    <3>3. Len(WithSensor(SensorStreams(record)[s - 1], record, s))
            = Step(Len(SensorStreams(record)[s - 1]), s)
      BY <3>1, <3>2, WithSensorIs DEF Rising, Falling
    <3>4. f[s] = Len(SensorStreams(record)[s])
          /\ f[s - 1] = Len(SensorStreams(record)[s - 1])
      BY <3>1
    <3> HIDE DEF Step, f
    <3>5. QED
      BY <1>2, <2>2, <3>1, <3>3, <3>4
  <2>3. QED
    BY <2>1, <2>2
<1>4. f = [s \in 0 .. SensorCount |-> IF s = 0 THEN 0 ELSE Step(f[s - 1], s)]
  <2> HIDE DEF Step
  <2>1. QED
    BY <1>3
<1>5. SensorSizes(record) =
        [s \in 0 .. SensorCount |->
           IF s = 0 THEN 0 ELSE Step(SensorSizes(record)[s - 1], s)]
  BY <1>4, Zenon DEF SensorSizes
<1> HIDE DEF Step
<1>6. \A s \in 0 .. SensorCount :
        SensorSizes(record)[s] = IF s = 0 THEN 0 ELSE Step(SensorSizes(record)[s - 1], s)
  BY <1>5, Zenon
<1> DEFINE S == {s \in 0 .. SensorCount : SensorSizes(record)[s] = f[s]}
<1>7. 0 \in S
  <2> HIDE DEF f
  <2>1. QED
    BY <1>1, <1>3, <1>6
<1>8. ASSUME NEW s \in 1 .. SensorCount, s - 1 \in S
      PROVE  s \in S
  <2>1. s \in 0 .. SensorCount /\ s # 0
    BY <1>1
  <2>2. SensorSizes(record)[s - 1] = f[s - 1]
    BY <1>8
  <2> HIDE DEF f
  <2>3. QED
    BY <1>3, <1>6, <2>1, <2>2
<1>9. 0 .. SensorCount \subseteq S
  <2> HIDE DEF S
  <2>1. QED
    BY <1>1, <1>7, <1>8, BoundedInduction
<1>10. QED
  BY <1>9

\* The stream of a record is a sequence of bytes.
LEMMA StreamIs ==
  ASSUME NEW V, NEW record, Wired(record, V)
  PROVE  /\ Stream(record) \in Seq(Byte(V))
         /\ Len(Stream(record)) =
              Len(SensorStreams(record)[SensorCount])
                + WordBytes + Channels * Len(record.samples) + 2 * WordBytes
<1> DEFINE s0 == SensorStreams(record)[SensorCount]
           s1 == s0 \o Word(Len(record.samples))
           s2 == s1 \o Scans(record.samples)
           s3 == s2 \o Word(record.launchStart)
           s4 == s3 \o Word(record.launchEnd)
<1>1. /\ Word(Len(record.samples)) \in Seq(Byte(V))
      /\ Len(Word(Len(record.samples))) = WordBytes
  <2>1. Len(record.samples) \in V
    BY LenProperties DEF Wired
  <2>2. QED
    BY <2>1, WordIs
<1>2. /\ Word(record.launchStart) \in Seq(Byte(V)) /\ Len(Word(record.launchStart)) = WordBytes
      /\ Word(record.launchEnd) \in Seq(Byte(V)) /\ Len(Word(record.launchEnd)) = WordBytes
  BY WordIs DEF Wired
<1>3. /\ Scans(record.samples) \in Seq(Byte(V))
      /\ Len(Scans(record.samples)) = Len(record.samples) * Channels
  BY ScansAre DEF Wired
<1>4. s0 \in Seq(Byte(V))
  BY SensorStreamsAre, CaptureAssumption
<1> HIDE DEF s0
<1>5. s1 \in Seq(Byte(V)) /\ Len(s1) = Len(s0) + WordBytes
  BY <1>1, <1>4, Joined
<1> HIDE DEF s1
<1>6. s2 \in Seq(Byte(V)) /\ Len(s2) = Len(s1) + Len(Scans(record.samples))
  BY <1>3, <1>5, Joined
<1> HIDE DEF s2
<1>7. s3 \in Seq(Byte(V)) /\ Len(s3) = Len(s2) + WordBytes
  BY <1>2, <1>6, Joined
<1> HIDE DEF s3
<1>8. s4 \in Seq(Byte(V)) /\ Len(s4) = Len(s3) + WordBytes
  BY <1>2, <1>7, Joined
<1>9. Stream(record) = s4
  BY DEF Stream, WithTail, s0, s1, s2, s3
<1> HIDE DEF s4
<1>10. Len(s0) \in Nat /\ WordBytes \in Nat /\ Channels \in Nat /\ Len(record.samples) \in Nat
  BY <1>4, RecordAssumption, SegmentsAssumption, LenProperties DEF Wired
<1> DEFINE p == Channels * Len(record.samples)
<1>11. p \in Nat /\ Len(Scans(record.samples)) = p
  BY <1>3, <1>10
<1>12. Len(s4) = Len(s0) + WordBytes + p + 2 * WordBytes
  <2> HIDE DEF p
  <2>1. Len(s4) = ((Len(s0) + WordBytes) + p) + WordBytes + WordBytes
    BY <1>5, <1>6, <1>7, <1>8, <1>11
  <2>2. QED
    BY <2>1, <1>10, <1>11
<1>13. QED
  BY <1>8, <1>9, <1>12 DEF s0

\* serializedSize is the length of what serialize writes.
LEMMA SizeIs ==
  ASSUME NEW V, NEW record, Wired(record, V)
  PROVE  serializedSize(record) = Len(Stream(record))
<1>1. SensorSizes(record)[SensorCount] = Len(SensorStreams(record)[SensorCount])
  <2>1. \A s \in 0 .. SensorCount :
          SensorSizes(record)[s] = Len(SensorStreams(record)[s])
    BY SensorSizesAre, Zenon
  <2>2. SensorCount \in 0 .. SensorCount
    BY CaptureAssumption
  <2>3. QED
    BY <2>1, <2>2, Zenon
<1>2. serializedSize(record) =
        SensorSizes(record)[SensorCount]
          + WordBytes + Channels * Len(record.samples) + 2 * WordBytes
  BY DEF serializedSize
<1>3. Len(Stream(record)) =
        Len(SensorStreams(record)[SensorCount])
          + WordBytes + Channels * Len(record.samples) + 2 * WordBytes
  BY StreamIs, ZenonT(60)
<1>4. QED
  BY <1>1, <1>2, <1>3, Zenon

-----------------------------------------------------------------------------
(* The board writes segments of the stream.                                 *)

\* append only counts and writes.
LEMMA AppendIs ==
  ASSUME NEW writer, NEW bytes, NEW from
  PROVE  append(writer, bytes, from) =
           [streamPosition |-> append(writer, bytes, from).streamPosition,
            output |-> append(writer, bytes, from).output]
BY DEF append

\* What the loop of serialize writes for a sensor.
PutSensor(writer, record, s, from) ==
  append(append(append(append(writer, Small(Len(record.events[s].Rising)), from),
                       Small(Len(record.events[s].Falling)), from),
                Words(record.events[s].Rising), from),
         Words(record.events[s].Falling), from)

\* A sensor keeps the writer at the segment.
LEMMA PutSensorStep ==
  ASSUME NEW V, NEW record, Wired(record, V), NEW s \in 1 .. SensorCount,
         NEW stream \in Seq(Byte(V)), NEW from \in Nat,
         NEW writer, Written(writer, stream, from)
  PROVE  Written(PutSensor(writer, record, s, from), WithSensor(stream, record, s), from)
<1> DEFINE r == record.events[s].Rising
           f == record.events[s].Falling
           s1 == stream \o Small(Len(r))
           s2 == s1 \o Small(Len(f))
           s3 == s2 \o Words(r)
           w1 == append(writer, Small(Len(r)), from)
           w2 == append(w1, Small(Len(f)), from)
           w3 == append(w2, Words(r), from)
<1>1. /\ r \in Seq(V) /\ f \in Seq(V) /\ Len(r) \in V /\ Len(f) \in V
  BY SensorParts DEF Rising, Falling
<1> HIDE DEF r, f
<1>2. /\ Small(Len(r)) \in Seq(Byte(V)) /\ Small(Len(f)) \in Seq(Byte(V))
      /\ Words(r) \in Seq(Byte(V)) /\ Words(f) \in Seq(Byte(V))
  BY <1>1, SmallIs, WordsAre
<1>3. s1 \in Seq(Byte(V)) /\ Written(w1, s1, from)
  BY <1>2, AppendStep, Joined
<1> HIDE DEF s1, w1
<1>4. s2 \in Seq(Byte(V)) /\ Written(w2, s2, from)
  BY <1>2, <1>3, AppendStep, Joined
<1> HIDE DEF s2, w2
<1>5. s3 \in Seq(Byte(V)) /\ Written(w3, s3, from)
  BY <1>2, <1>4, AppendStep, Joined
<1> HIDE DEF s3, w3
<1>6. Written(append(w3, Words(f), from), s3 \o Words(f), from)
  BY <1>2, <1>5, AppendStep
<1>7. PutSensor(writer, record, s, from) = append(w3, Words(f), from)
  BY DEF PutSensor, w1, w2, w3, r, f
<1>8. WithSensor(stream, record, s) = s3 \o Words(f)
  BY DEF WithSensor, Rising, Falling, s1, s2, s3, r, f
<1>9. QED
  BY <1>6, <1>7, <1>8

\* After each sensor the writer has gone through the stream so far.
LEMMA WritersAre ==
  ASSUME NEW V, NEW record, Wired(record, V), NEW from \in Nat
  PROVE  \A s \in 0 .. SensorCount :
           Written(SensorWriters(record, from)[s], SensorStreams(record)[s], from)
<1> DEFINE Zero == [streamPosition |-> 0, output |-> <<>>]
           f == [s \in 0 .. SensorCount |->
                   [streamPosition |-> Len(SensorStreams(record)[s]),
                    output |-> Segment(SensorStreams(record)[s], from)]]
<1>1. SensorCount \in Nat
  BY CaptureAssumption
<1>2. /\ SensorStreams(record) \in [0 .. SensorCount -> Seq(Byte(V))]
      /\ SensorStreams(record)[0] = <<>>
      /\ \A s \in 1 .. SensorCount :
           SensorStreams(record)[s] = WithSensor(SensorStreams(record)[s - 1], record, s)
  BY SensorStreamsAre
<1>3. \A s \in 0 .. SensorCount : Written(f[s], SensorStreams(record)[s], from)
  BY DEF Written
<1>4. f[0] = Zero
  <2>1. Segment(<<>>, from) = <<>>
    <3> DEFINE e == <<>>
    <3>1. e \in Seq(Byte(V)) /\ Len(e) = 0
      OBVIOUS
    <3> HIDE DEF e
    <3> DEFINE B == Byte(V)
    <3> HIDE DEF B
    <3>a. e \in Seq(B)
      BY <3>1 DEF B
    <3>b. /\ Segment(e, from) \in Seq(B)
          /\ Len(Segment(e, from)) =
               IF from >= Len(e) THEN 0
               ELSE IF from + PayloadSize < Len(e) THEN PayloadSize ELSE Len(e) - from
      BY <3>a, SegmentIs
    <3>2. Segment(e, from) \in Seq(Byte(V)) /\ Len(Segment(e, from)) = 0
      BY <3>1, <3>b DEF B
    <3>3. Segment(e, from) = <<>>
      BY <3>2, EmptySeq
    <3>4. QED
      BY <3>3 DEF e
  <2>2. QED
    BY <1>1, <1>2, <2>1
<1>5. ASSUME NEW s \in 1 .. SensorCount
      PROVE  f[s] = PutSensor(f[s - 1], record, s, from)
  <2>1. s - 1 \in 0 .. SensorCount /\ s \in 0 .. SensorCount
    BY <1>1
  <2>2. SensorStreams(record)[s - 1] \in Seq(Byte(V))
    BY <1>2, <2>1
  <2> DEFINE put == PutSensor(f[s - 1], record, s, from)
  <2>3. Written(put, SensorStreams(record)[s], from)
    <3> HIDE DEF f
    <3>1. QED
      BY <1>2, <1>3, <2>1, <2>2, PutSensorStep
  <2>4. put = [streamPosition |-> put.streamPosition, output |-> put.output]
    <3> DEFINE w == append(append(append(f[s - 1], Small(Len(record.events[s].Rising)), from),
                                  Small(Len(record.events[s].Falling)), from),
                           Words(record.events[s].Rising), from)
               bytes == Words(record.events[s].Falling)
    <3>1. put = append(w, bytes, from)
      BY DEF PutSensor
    <3> HIDE DEF w, bytes, put
    <3>2. QED
      BY <3>1, AppendIs
  <2>5. f[s] = [streamPosition |-> Len(SensorStreams(record)[s]),
                output |-> Segment(SensorStreams(record)[s], from)]
    BY <2>1
  <2> HIDE DEF put, f
  <2>6. f[s] = put
    BY <2>3, <2>4, <2>5 DEF Written
  <2>7. QED
    BY <2>6 DEF put
<1>6. f = [s \in 0 .. SensorCount |->
             IF s = 0 THEN Zero ELSE PutSensor(f[s - 1], record, s, from)]
  <2>1. \A s \in 0 .. SensorCount :
          f[s] = IF s = 0 THEN Zero ELSE PutSensor(f[s - 1], record, s, from)
    <3> HIDE DEF f
    <3>1. \A s \in 0 .. SensorCount : s = 0 \/ s \in 1 .. SensorCount
      BY <1>1
    <3>2. \A s \in 1 .. SensorCount : s # 0
      BY <1>1
    <3>3. QED
      BY <1>4, <1>5, <3>1, <3>2
  <2>2. QED
    BY <2>1
<1>7. SensorWriters(record, from) =
        [s \in 0 .. SensorCount |->
           IF s = 0 THEN Zero ELSE PutSensor(SensorWriters(record, from)[s - 1], record, s, from)]
  BY <1>6, Zenon DEF SensorWriters, PutSensor
<1>8. \A s \in 0 .. SensorCount :
        SensorWriters(record, from)[s] =
          IF s = 0 THEN Zero ELSE PutSensor(SensorWriters(record, from)[s - 1], record, s, from)
  BY <1>7, Zenon
<1> DEFINE S == {s \in 0 .. SensorCount : SensorWriters(record, from)[s] = f[s]}
<1>9. 0 \in S
  <2> HIDE DEF f
  <2>1. QED
    BY <1>1, <1>4, <1>8
<1>10. ASSUME NEW s \in 1 .. SensorCount, s - 1 \in S
       PROVE  s \in S
  <2>1. s \in 0 .. SensorCount /\ s # 0
    BY <1>1
  <2>2. SensorWriters(record, from)[s - 1] = f[s - 1]
    BY <1>10
  <2> HIDE DEF f
  <2>3. QED
    BY <1>5, <1>8, <2>1, <2>2
<1>11. 0 .. SensorCount \subseteq S
  <2> HIDE DEF S
  <2>1. QED
    BY <1>1, <1>9, <1>10, BoundedInduction
<1>12. \A s \in 0 .. SensorCount : SensorWriters(record, from)[s] = f[s]
  BY <1>11
<1> HIDE DEF f
<1>13. QED
  BY <1>3, <1>12

\* serialize returns the segment of the stream at its offset.
LEMMA SerializeIs ==
  ASSUME NEW V, NEW record, Wired(record, V), NEW from \in Nat
  PROVE  serialize(record, from) = Segment(Stream(record), from)
<1> DEFINE s0 == SensorStreams(record)[SensorCount]
           s1 == s0 \o Word(Len(record.samples))
           s2 == s1 \o Scans(record.samples)
           s3 == s2 \o Word(record.launchStart)
           w0 == SensorWriters(record, from)[SensorCount]
           w1 == append(w0, Word(Len(record.samples)), from)
           w2 == append(w1, Scans(record.samples), from)
           w3 == append(w2, Word(record.launchStart), from)
           w4 == append(w3, Word(record.launchEnd), from)
<1>1. Len(record.samples) \in V
  BY LenProperties DEF Wired
<1>2. /\ Word(Len(record.samples)) \in Seq(Byte(V)) /\ Scans(record.samples) \in Seq(Byte(V))
      /\ Word(record.launchStart) \in Seq(Byte(V)) /\ Word(record.launchEnd) \in Seq(Byte(V))
  BY <1>1, WordIs, ScansAre DEF Wired
<1>3. s0 \in Seq(Byte(V)) /\ Written(w0, s0, from)
  BY SensorStreamsAre, WritersAre, CaptureAssumption
<1> HIDE DEF s0, w0
<1>4. s1 \in Seq(Byte(V)) /\ Written(w1, s1, from)
  BY <1>2, <1>3, AppendStep, Joined
<1> HIDE DEF s1, w1
<1>5. s2 \in Seq(Byte(V)) /\ Written(w2, s2, from)
  BY <1>2, <1>4, AppendStep, Joined
<1> HIDE DEF s2, w2
<1>6. s3 \in Seq(Byte(V)) /\ Written(w3, s3, from)
  BY <1>2, <1>5, AppendStep, Joined
<1> HIDE DEF s3, w3
<1>7. Written(w4, s3 \o Word(record.launchEnd), from)
  BY <1>2, <1>6, AppendStep
<1>8. Stream(record) = s3 \o Word(record.launchEnd)
  BY DEF Stream, WithTail, s0, s1, s2, s3
<1>9. serialize(record, from) = w4.output
  BY DEF serialize, w0, w1, w2, w3
<1>10. QED
  BY <1>7, <1>8, <1>9 DEF Written

-----------------------------------------------------------------------------
(* What a stream holds at a place.                                          *)

Holds(stream, at, bytes) ==
  /\ at + Len(bytes) <= Len(stream)
  /\ \A j \in 1 .. Len(bytes) : stream[at + j] = bytes[j]

\* Two sequences joined hold the first at 0 and the second after it.
LEMMA JoinedHolds ==
  ASSUME NEW B, NEW a \in Seq(B), NEW b \in Seq(B)
  PROVE  Holds(a \o b, 0, a) /\ Holds(a \o b, Len(a), b)
<1>1. /\ Len(a) \in Nat /\ Len(b) \in Nat /\ Len(a \o b) = Len(a) + Len(b)
      /\ \A i \in 1 .. Len(a) + Len(b) : (a \o b)[i] = IF i <= Len(a) THEN a[i] ELSE b[i - Len(a)]
  BY ConcatProperties, LenProperties
<1>2. Holds(a \o b, 0, a)
  BY <1>1 DEF Holds
<1>3. ASSUME NEW j \in 1 .. Len(b)
      PROVE  (a \o b)[Len(a) + j] = b[j]
  <2>1. Len(a) + j \in 1 .. Len(a) + Len(b) /\ ~(Len(a) + j <= Len(a)) /\ (Len(a) + j) - Len(a) = j
    BY <1>1
  <2>2. QED
    BY <1>1, <2>1
<1>4. Holds(a \o b, Len(a), b)
  BY <1>1, <1>3 DEF Holds
<1>5. QED
  BY <1>2, <1>4

\* What a beginning holds the whole holds.
LEMMA HoldsInBeginning ==
  ASSUME NEW B, NEW stream \in Seq(B), NEW a \in Seq(B), NEW b \in Seq(B), NEW at \in Nat,
         Holds(stream, 0, a), Holds(a, at, b)
  PROVE  Holds(stream, at, b)
<1>1. Len(a) \in Nat /\ Len(b) \in Nat /\ Len(stream) \in Nat
  BY LenProperties
<1>2. /\ Len(a) <= Len(stream) /\ at + Len(b) <= Len(a)
      /\ \A j \in 1 .. Len(a) : stream[0 + j] = a[j]
      /\ \A j \in 1 .. Len(b) : a[at + j] = b[j]
  BY <1>1 DEF Holds
<1>3. ASSUME NEW j \in 1 .. Len(b)
      PROVE  stream[at + j] = b[j]
  <2>1. at + j \in 1 .. Len(a) /\ 0 + (at + j) = at + j
    BY <1>1, <1>2
  <2>2. QED
    BY <1>2, <2>1
<1>4. at + Len(b) <= Len(stream)
  BY <1>1, <1>2
<1>5. QED
  BY <1>3, <1>4 DEF Holds

\* Where the parts of a sensor are.
LEMMA SensorPlaces ==
  ASSUME NEW V, NEW record, Wired(record, V), NEW s \in 1 .. SensorCount,
         NEW stream \in Seq(Byte(V)), NEW whole \in Seq(Byte(V)),
         Holds(whole, 0, WithSensor(stream, record, s))
  PROVE  /\ Holds(whole, 0, stream)
         /\ Holds(whole, Len(stream), Small(Len(Rising(record, s))))
         /\ Holds(whole, Len(stream) + 1, Small(Len(Falling(record, s))))
         /\ Holds(whole, Len(stream) + 2, Words(Rising(record, s)))
         /\ Holds(whole, Len(stream) + 2 + Len(Rising(record, s)) * WordBytes,
                  Words(Falling(record, s)))
<1> DEFINE B == Byte(V)
           r == Rising(record, s)
           f == Falling(record, s)
           s1 == stream \o Small(Len(r))
           s2 == s1 \o Small(Len(f))
           s3 == s2 \o Words(r)
           s4 == s3 \o Words(f)
<1>1. /\ r \in Seq(V) /\ f \in Seq(V) /\ Len(r) \in V /\ Len(f) \in V
      /\ Len(r) \in Nat /\ Len(f) \in Nat
  BY SensorParts
<1>2. WithSensor(stream, record, s) = s4
  BY DEF WithSensor
<1> HIDE DEF r, f, s4
<1>3. /\ Small(Len(r)) \in Seq(B) /\ Len(Small(Len(r))) = 1
      /\ Small(Len(f)) \in Seq(B) /\ Len(Small(Len(f))) = 1
      /\ Words(r) \in Seq(B) /\ Len(Words(r)) = Len(r) * WordBytes
      /\ Words(f) \in Seq(B)
  BY <1>1, SmallIs, WordsAre
<1> DEFINE b1 == Small(Len(r))
           b2 == Small(Len(f))
           b3 == Words(r)
           b4 == Words(f)
<1> HIDE DEF B, b1, b2, b3, b4
<1>4. stream \in Seq(B) /\ whole \in Seq(B)
  BY DEF B
<1>5. b1 \in Seq(B) /\ b2 \in Seq(B) /\ b3 \in Seq(B) /\ b4 \in Seq(B)
  BY <1>3 DEF b1, b2, b3, b4
<1>6. s1 = stream \o b1 /\ s2 = s1 \o b2 /\ s3 = s2 \o b3 /\ s4 = s3 \o b4
  BY DEF b1, b2, b3, b4, s4
<1> HIDE DEF s1, s2, s3
<1>7. /\ s1 \in Seq(B) /\ Len(s1) = Len(stream) + Len(b1)
      /\ Holds(s1, 0, stream) /\ Holds(s1, Len(stream), b1)
  BY <1>4, <1>5, <1>6, Joined, JoinedHolds
<1>8. /\ s2 \in Seq(B) /\ Len(s2) = Len(s1) + Len(b2)
      /\ Holds(s2, 0, s1) /\ Holds(s2, Len(s1), b2)
  BY <1>7, <1>5, <1>6, Joined, JoinedHolds
<1>9. /\ s3 \in Seq(B) /\ Len(s3) = Len(s2) + Len(b3)
      /\ Holds(s3, 0, s2) /\ Holds(s3, Len(s2), b3)
  BY <1>8, <1>5, <1>6, Joined, JoinedHolds
<1>10. /\ s4 \in Seq(B)
       /\ Holds(s4, 0, s3) /\ Holds(s4, Len(s3), b4)
  BY <1>9, <1>5, <1>6, Joined, JoinedHolds
<1>11. Len(stream) \in Nat /\ Len(s1) \in Nat /\ Len(s2) \in Nat /\ Len(s3) \in Nat /\ 0 \in Nat
  BY <1>4, <1>7, <1>8, <1>9, LenProperties
<1>12. Holds(whole, 0, s4)
  BY <1>2
<1>13. Holds(whole, 0, s3) /\ Holds(whole, Len(s3), b4)
  BY <1>4, <1>5, <1>9, <1>10, <1>11, <1>12, HoldsInBeginning
<1>14. Holds(whole, 0, s2) /\ Holds(whole, Len(s2), b3)
  BY <1>4, <1>5, <1>8, <1>9, <1>11, <1>13, HoldsInBeginning
<1>15. Holds(whole, 0, s1) /\ Holds(whole, Len(s1), b2)
  BY <1>4, <1>5, <1>7, <1>8, <1>11, <1>14, HoldsInBeginning
<1>16. Holds(whole, 0, stream) /\ Holds(whole, Len(stream), b1)
  BY <1>4, <1>5, <1>7, <1>11, <1>15, HoldsInBeginning
<1>17. Len(b1) = 1 /\ Len(b2) = 1 /\ Len(b3) = Len(r) * WordBytes
  BY <1>3 DEF b1, b2, b3
<1>18. Len(r) * WordBytes \in Nat
  BY <1>1, RecordAssumption
<1>19. /\ Len(s1) = Len(stream) + 1 /\ Len(s2) = Len(stream) + 2
       /\ Len(s3) = Len(stream) + 2 + Len(r) * WordBytes
  <2> DEFINE p == Len(r) * WordBytes
  <2>1. p \in Nat /\ Len(b3) = p
    BY <1>17, <1>18
  <2> HIDE DEF p
  <2>2. /\ Len(s1) = Len(stream) + 1 /\ Len(s2) = Len(stream) + 2
        /\ Len(s3) = Len(stream) + 2 + p
    <3>1. Len(b1) = 1 /\ Len(b2) = 1
      BY <1>17
    <3>2. /\ Len(s1) = Len(stream) + Len(b1) /\ Len(s2) = Len(s1) + Len(b2)
          /\ Len(s3) = Len(s2) + Len(b3)
      BY <1>7, <1>8, <1>9
    <3>3. QED
      BY <1>11, <2>1, <3>1, <3>2
  <2>3. QED
    BY <2>2 DEF p
<1>20. QED
  BY <1>13, <1>14, <1>15, <1>16, <1>19 DEF b1, b2, b3, b4, r, f

\* Where the parts after the sensors are.
LEMMA TailPlaces ==
  ASSUME NEW V, NEW record, Wired(record, V),
         NEW first, first = Len(SensorStreams(record)[SensorCount]) + WordBytes,
         NEW tail, tail = first + Len(record.samples) * Channels
  PROVE  /\ Holds(Stream(record), 0, SensorStreams(record)[SensorCount])
         /\ Holds(Stream(record), Len(SensorStreams(record)[SensorCount]),
                  Word(Len(record.samples)))
         /\ Holds(Stream(record), first, Scans(record.samples))
         /\ Holds(Stream(record), tail, Word(record.launchStart))
         /\ Holds(Stream(record), tail + WordBytes, Word(record.launchEnd))
         /\ Len(SensorStreams(record)[SensorCount]) \in Nat /\ first \in Nat /\ tail \in Nat
         /\ Len(Stream(record)) = tail + 2 * WordBytes
<1> DEFINE B == Byte(V)
           s0 == SensorStreams(record)[SensorCount]
           b1 == Word(Len(record.samples))
           b2 == Scans(record.samples)
           b3 == Word(record.launchStart)
           b4 == Word(record.launchEnd)
           s1 == s0 \o b1
           s2 == s1 \o b2
           s3 == s2 \o b3
           s4 == s3 \o b4
           p == Len(record.samples) * Channels
<1>1. b1 \in Seq(B) /\ Len(b1) = WordBytes
  <2>1. Len(record.samples) \in V
    BY LenProperties DEF Wired
  <2>2. QED
    BY <2>1, WordIs
<1>2. b3 \in Seq(B) /\ Len(b3) = WordBytes /\ b4 \in Seq(B) /\ Len(b4) = WordBytes
  BY WordIs DEF Wired
<1>3. b2 \in Seq(B) /\ Len(b2) = p
  BY ScansAre DEF Wired
<1>4. s0 \in Seq(B)
  BY SensorStreamsAre, CaptureAssumption
<1>5. s4 = Stream(record)
  BY DEF Stream, WithTail
<1>6. p \in Nat /\ WordBytes \in Nat
  BY RecordAssumption, SegmentsAssumption, LenProperties DEF Wired
<1>7. first = Len(s0) + WordBytes /\ tail = first + p
  OBVIOUS
<1> HIDE DEF B, b1, b2, b3, b4, s0, s1, s2, s3, s4, p
<1>8. /\ s1 \in Seq(B) /\ Len(s1) = Len(s0) + Len(b1)
      /\ Holds(s1, 0, s0) /\ Holds(s1, Len(s0), b1)
  BY <1>1, <1>4, Joined, JoinedHolds DEF s1
<1>9. /\ s2 \in Seq(B) /\ Len(s2) = Len(s1) + Len(b2)
      /\ Holds(s2, 0, s1) /\ Holds(s2, Len(s1), b2)
  BY <1>3, <1>8, Joined, JoinedHolds DEF s2
<1>10. /\ s3 \in Seq(B) /\ Len(s3) = Len(s2) + Len(b3)
       /\ Holds(s3, 0, s2) /\ Holds(s3, Len(s2), b3)
  BY <1>2, <1>9, Joined, JoinedHolds DEF s3
<1>11. /\ s4 \in Seq(B) /\ Len(s4) = Len(s3) + Len(b4)
       /\ Holds(s4, 0, s3) /\ Holds(s4, Len(s3), b4)
  BY <1>2, <1>10, Joined, JoinedHolds DEF s4
<1>12. Len(s0) \in Nat /\ Len(s1) \in Nat /\ Len(s2) \in Nat /\ Len(s3) \in Nat /\ 0 \in Nat
  BY <1>4, <1>8, <1>9, <1>10, LenProperties
<1>13. /\ first \in Nat /\ tail \in Nat /\ Len(s1) = first /\ Len(s2) = tail
       /\ Len(s3) = tail + WordBytes /\ Len(s4) = tail + 2 * WordBytes
  <2>1. Len(s1) = Len(s0) + WordBytes /\ Len(s2) = Len(s1) + p
    BY <1>1, <1>3, <1>8, <1>9
  <2>2. Len(s3) = Len(s2) + WordBytes /\ Len(s4) = Len(s3) + WordBytes
    BY <1>2, <1>10, <1>11
  <2>3. Len(s1) = first /\ first \in Nat
    BY <1>7, <1>12, <2>1
  <2>4. Len(s2) = tail /\ tail \in Nat
    BY <1>7, <1>12, <2>1, <2>3
  <2>5. Len(s3) = tail + WordBytes /\ Len(s4) = (tail + WordBytes) + WordBytes
    BY <2>2, <2>4
  <2>6. (tail + WordBytes) + WordBytes = tail + 2 * WordBytes
    BY <1>6, <2>4
  <2>7. QED
    BY <2>3, <2>4, <2>5, <2>6
<1>14. Holds(s4, 0, s2) /\ Holds(s4, Len(s2), b3)
  BY <1>2, <1>9, <1>10, <1>11, <1>12, HoldsInBeginning
<1>15. Holds(s4, 0, s1) /\ Holds(s4, Len(s1), b2)
  BY <1>3, <1>8, <1>9, <1>11, <1>12, <1>14, HoldsInBeginning
<1>16. Holds(s4, 0, s0) /\ Holds(s4, Len(s0), b1)
  BY <1>1, <1>4, <1>8, <1>11, <1>12, <1>15, HoldsInBeginning
<1>17. QED
  BY <1>5, <1>11, <1>12, <1>13, <1>14, <1>15, <1>16 DEF b1, b2, b3, b4, s0

\* The stream begins with the stream of its first sensors.
LEMMA StreamBegins ==
  ASSUME NEW V, NEW record, Wired(record, V), NEW s \in 0 .. SensorCount
  PROVE  Holds(Stream(record), 0, SensorStreams(record)[s])
<1> DEFINE S == {k \in 0 .. SensorCount :
                   Holds(Stream(record), 0, SensorStreams(record)[SensorCount - k])}
<1>1. SensorCount \in Nat
  BY CaptureAssumption
<1>2. 0 \in S
  <2>1. SensorCount - 0 = SensorCount /\ 0 \in 0 .. SensorCount
    BY <1>1
  <2>2. Holds(Stream(record), 0, SensorStreams(record)[SensorCount])
    BY TailPlaces
  <2>3. QED
    BY <2>1, <2>2
<1>3. ASSUME NEW k \in 1 .. SensorCount, k - 1 \in S
      PROVE  k \in S
  <2> DEFINE t == SensorCount - (k - 1)
  <2>1. t \in 1 .. SensorCount /\ t - 1 = SensorCount - k /\ t - 1 \in 0 .. SensorCount
    BY <1>1
  <2>2. Holds(Stream(record), 0, SensorStreams(record)[t])
    BY <1>3
  <2> HIDE DEF t
  <2>3. /\ SensorStreams(record)[t] = WithSensor(SensorStreams(record)[t - 1], record, t)
        /\ SensorStreams(record)[t - 1] \in Seq(Byte(V))
    BY <2>1, SensorStreamsAre
  <2>4. Holds(Stream(record), 0, WithSensor(SensorStreams(record)[t - 1], record, t))
    BY <2>2, <2>3
  <2>5. Holds(Stream(record), 0, SensorStreams(record)[t - 1])
    BY <2>1, <2>3, <2>4, StreamIs, SensorPlaces
  <2>6. k \in 0 .. SensorCount
    BY <1>1
  <2>7. QED
    BY <2>1, <2>5, <2>6
<1>4. 0 .. SensorCount \subseteq S
  <2> HIDE DEF S
  <2>1. QED
    BY <1>1, <1>2, <1>3, BoundedInduction
<1>5. SensorCount - s \in 0 .. SensorCount /\ SensorCount - (SensorCount - s) = s
  BY <1>1
<1>6. SensorCount - s \in S
  BY <1>4, <1>5
<1>7. QED
  BY <1>5, <1>6

-----------------------------------------------------------------------------
(* The host reads the stream.                                               *)

\* A byte, a word and an array of words are read back.
LEMMA SmallIsRead ==
  ASSUME NEW V, NEW value \in V, NEW stream, NEW at \in Nat, Holds(stream, at, Small(value))
  PROVE  SmallAt(stream, at) = value
<1>1. Len(Small(value)) = 1 /\ Small(value)[1] = <<value, 1>>
  BY SmallIs
<1>2. stream[at + 1] = <<value, 1>>
  BY <1>1 DEF Holds
<1>3. QED
  BY <1>2 DEF SmallAt

\* A word whose bytes a stream holds is read back.
LEMMA WordIsRead ==
  ASSUME NEW value, NEW stream, NEW at,
         \A k \in 1 .. WordBytes : stream[at + k] = <<value, k>>
  PROVE  WordAt(stream, at) = value
<1>1. 1 \in 1 .. WordBytes
  BY RecordAssumption
<1>2. stream[at + 1][1] = value
  BY <1>1
<1>3. QED
  BY <1>2 DEF WordAt

\* So is a word that is a part of a stream.
LEMMA WordHeldIsRead ==
  ASSUME NEW V, NEW value \in V, NEW stream, NEW at, Holds(stream, at, Word(value))
  PROVE  WordAt(stream, at) = value
<1>1. \A k \in 1 .. WordBytes : stream[at + k] = <<value, k>>
  BY WordIs DEF Holds
<1>2. QED
  BY <1>1, WordIsRead

\* So are the words of an array.
LEMMA WordsAreRead ==
  ASSUME NEW V, NEW values \in Seq(V), NEW stream, NEW at \in Nat,
         Holds(stream, at, Words(values))
  PROVE  WordsAt(stream, at, Len(values)) = values
<1>1. Len(values) \in Nat /\ WordBytes \in Nat \ {0}
  BY LenProperties, RecordAssumption
<1>2. ASSUME NEW i \in 1 .. Len(values)
      PROVE  WordAt(stream, at + (i - 1) * WordBytes) = values[i]
  <2>1. ASSUME NEW k \in 1 .. WordBytes
        PROVE  stream[(at + (i - 1) * WordBytes) + k] = <<values[i], k>>
    <3> DEFINE p == (i - 1) * WordBytes
    <3>1. p \in Nat /\ p + k \in 1 .. Len(values) * WordBytes
      BY <1>1, PlaceIn
    <3>2. Len(Words(values)) = Len(values) * WordBytes /\ Words(values)[p + k] = <<values[i], k>>
      BY WordsAre
    <3>3. stream[at + (p + k)] = <<values[i], k>>
      BY <3>1, <3>2 DEF Holds
    <3>4. at + (p + k) = (at + p) + k
      <4> HIDE DEF p
      <4>1. QED
        BY <3>1, <1>1
    <3>5. QED
      BY <3>3, <3>4
  <2>2. QED
    BY <2>1, WordIsRead
<1>3. WordsAt(stream, at, Len(values)) = [i \in 1 .. Len(values) |-> values[i]]
  BY <1>2 DEF WordsAt
<1>4. values = [i \in 1 .. Len(values) |-> values[i]]
  BY SeqDef
<1>5. QED
  BY <1>3, <1>4

\* A list made longer by its next element.
LEMMA ListGrows ==
  ASSUME NEW E, NEW n \in Nat, NEW h \in [1 .. n -> E], NEW s \in 1 .. n
  PROVE  Append([t \in 1 .. s - 1 |-> h[t]], h[s]) = [t \in 1 .. s |-> h[t]]
<1> DEFINE old == [t \in 1 .. s - 1 |-> h[t]]
           new == [t \in 1 .. s |-> h[t]]
<1>1. s - 1 \in Nat /\ s \in Nat /\ (s - 1) + 1 = s
  OBVIOUS
<1>2. old \in [1 .. s - 1 -> E] /\ new \in [1 .. s -> E] /\ h[s] \in E
  OBVIOUS
<1>3. /\ \A t \in 1 .. s - 1 : old[t] = new[t]
      /\ new[s] = h[s]
  OBVIOUS
<1>4. \A t \in 1 .. s : t = s \/ t \in 1 .. s - 1
  OBVIOUS
<1> HIDE DEF old, new
<1>5. old \in Seq(E) /\ Len(old) = s - 1 /\ new \in Seq(E) /\ Len(new) = s
  BY <1>1, <1>2, IsSequence
<1>6. /\ Append(old, h[s]) \in Seq(E) /\ Len(Append(old, h[s])) = (s - 1) + 1
      /\ \A t \in 1 .. s - 1 : Append(old, h[s])[t] = old[t]
      /\ Append(old, h[s])[(s - 1) + 1] = h[s]
  BY <1>2, <1>5, AppendProperties
<1>7. \A t \in 1 .. s : Append(old, h[s])[t] = new[t]
  BY <1>1, <1>3, <1>4, <1>6
<1>8. Append(old, h[s]) = new
  BY <1>1, <1>5, <1>6, <1>7, SeqEqual
<1>9. QED
  BY <1>8 DEF old, new

\* The lists of a sensor as the host keeps them.
SensorLists(record) ==
  [s \in 1 .. SensorCount |->
     [Rising |-> Rising(record, s), Falling |-> Falling(record, s)]]

\* At the end of the first sensors the host reads the next one.
LEMMA SensorIsRead ==
  ASSUME NEW V, NEW record, Wired(record, V), NEW s \in 1 .. SensorCount, NEW read
  PROVE  TakeSensor([at |-> Len(SensorStreams(record)[s - 1]), events |-> read], Stream(record))
           = [at |-> Len(SensorStreams(record)[s]),
              events |-> Append(read, SensorLists(record)[s])]
<1> DEFINE whole == Stream(record)
           at == Len(SensorStreams(record)[s - 1])
           r == Rising(record, s)
           f == Falling(record, s)
           reader == [at |-> at, events |-> read]
           end == Len(SensorStreams(record)[s])
<1>1. /\ r \in Seq(V) /\ f \in Seq(V) /\ Len(r) \in V /\ Len(f) \in V
      /\ Len(r) \in 0 .. Capacity /\ Len(f) \in 0 .. Capacity
  BY SensorParts
<1>2. s - 1 \in 0 .. SensorCount /\ s \in 0 .. SensorCount
  BY CaptureAssumption
<1>3. /\ SensorStreams(record)[s - 1] \in Seq(Byte(V)) /\ SensorStreams(record)[s] \in Seq(Byte(V))
      /\ SensorStreams(record)[s] = WithSensor(SensorStreams(record)[s - 1], record, s)
      /\ whole \in Seq(Byte(V))
  BY <1>2, SensorStreamsAre, StreamIs
<1>4. at \in Nat /\ end \in Nat /\ Len(whole) \in Nat
  BY <1>3, LenProperties
<1>5. Holds(whole, 0, WithSensor(SensorStreams(record)[s - 1], record, s))
  BY <1>2, <1>3, StreamBegins
<1>6. end <= Len(whole)
  <2>1. Holds(whole, 0, SensorStreams(record)[s])
    BY <1>2, StreamBegins
  <2>2. QED
    BY <1>4, <2>1 DEF Holds
<1>7. end = at + 2 + WordBytes * Len(r) + WordBytes * Len(f)
  BY <1>3, WithSensorIs
<1>8. /\ Holds(whole, at, Small(Len(r)))
      /\ Holds(whole, at + 1, Small(Len(f)))
      /\ Holds(whole, at + 2, Words(r))
      /\ Holds(whole, at + 2 + Len(r) * WordBytes, Words(f))
  BY <1>3, <1>5, SensorPlaces
<1> HIDE DEF whole, at, r, f, end
<1> DEFINE p == Len(r) * WordBytes
           q == Len(f) * WordBytes
<1>9. p \in Nat /\ q \in Nat /\ end = at + 2 + p + q /\ (Len(r) + Len(f)) * WordBytes = p + q
  <2>1. WordBytes \in Nat /\ Len(r) \in Nat /\ Len(f) \in Nat
    BY <1>1, RecordAssumption
  <2>2. p = WordBytes * Len(r) /\ q = WordBytes * Len(f) /\ p \in Nat /\ q \in Nat
    BY <2>1
  <2>3. (Len(r) + Len(f)) * WordBytes = p + q
    BY <2>1
  <2>4. QED
    BY <1>7, <2>2, <2>3
<1>10. SmallAt(whole, at) = Len(r) /\ SmallAt(whole, at + 1) = Len(f)
  BY <1>1, <1>4, <1>8, SmallIsRead
<1>11. WordsAt(whole, at + 2, Len(r)) = r
  BY <1>1, <1>4, <1>8, WordsAreRead
<1>12. WordsAt(whole, at + 2 + p, Len(f)) = f
  <2>1. at + 2 + p \in Nat
    BY <1>4, <1>9
  <2>2. Holds(whole, at + 2 + p, Words(f))
    BY <1>8
  <2> HIDE DEF p
  <2>3. QED
    BY <1>1, <2>1, <2>2, WordsAreRead
<1>13. /\ CanTake(whole, at, 2)
       /\ ~(Len(r) > Capacity) /\ ~(Len(f) > Capacity)
       /\ at + 2 + (Len(r) + Len(f)) * WordBytes = end
       /\ ~(end > Len(whole))
  <2> HIDE DEF p, q
  <2>1. at + 2 <= end
    BY <1>4, <1>9
  <2>2. CanTake(whole, at, 2)
    BY <2>1, <1>4, <1>6 DEF CanTake
  <2>3. ~(Len(r) > Capacity) /\ ~(Len(f) > Capacity)
    BY <1>1, CaptureAssumption
  <2>4. at + 2 + (Len(r) + Len(f)) * WordBytes = end
    BY <1>4, <1>9
  <2>5. QED
    BY <1>4, <1>6, <2>2, <2>3, <2>4
<1>14. reader.at = at /\ reader.events = read
  OBVIOUS
<1> HIDE DEF reader
<1>15. TakeSensor(reader, whole) =
         [at |-> end, events |-> Append(read, [Rising |-> r, Falling |-> f])]
  BY <1>10, <1>11, <1>12, <1>13, <1>14 DEF TakeSensor
<1>16. SensorLists(record)[s] = [Rising |-> r, Falling |-> f]
  BY DEF SensorLists, r, f
<1>17. QED
  BY <1>15, <1>16 DEF reader, whole, at, end

\* After the first sensors the host is at the end of their stream and has their lists.
LEMMA ReadersAre ==
  ASSUME NEW V, NEW record, Wired(record, V)
  PROVE  \A s \in 0 .. SensorCount :
           SensorReaders(Stream(record))[s] =
             [at |-> Len(SensorStreams(record)[s]),
              events |-> [t \in 1 .. s |-> SensorLists(record)[t]]]
<1> DEFINE Zero == [at |-> 0, events |-> <<>>]
           whole == Stream(record)
           f == [s \in 0 .. SensorCount |->
                   [at |-> Len(SensorStreams(record)[s]),
                    events |-> [t \in 1 .. s |-> SensorLists(record)[t]]]]
<1>1. SensorCount \in Nat
  BY CaptureAssumption
<1>2. f[0] = Zero
  <2>1. SensorStreams(record)[0] = <<>>
    BY SensorStreamsAre
  <2>2. Len(SensorStreams(record)[0]) = 0
    BY <2>1
  <2>3. [t \in 1 .. 0 |-> SensorLists(record)[t]] = <<>>
    OBVIOUS
  <2>4. QED
    BY <1>1, <2>2, <2>3
<1>3. ASSUME NEW s \in 1 .. SensorCount
      PROVE  f[s] = TakeSensor(f[s - 1], whole)
  <2>1. s - 1 \in 0 .. SensorCount /\ s \in 0 .. SensorCount
    BY <1>1
  <2> DEFINE read == [t \in 1 .. s - 1 |-> SensorLists(record)[t]]
             h == SensorLists(record)
             E == {h[t] : t \in 1 .. SensorCount}
  <2>2. Append(read, SensorLists(record)[s]) = [t \in 1 .. s |-> SensorLists(record)[t]]
    <3>1. h \in [1 .. SensorCount -> E]
      BY DEF SensorLists
    <3> HIDE DEF E, h
    <3>2. Append([t \in 1 .. s - 1 |-> h[t]], h[s]) = [t \in 1 .. s |-> h[t]]
      <4>1. \A n \in Nat : \A g \in [1 .. n -> E] : \A k \in 1 .. n :
              Append([t \in 1 .. k - 1 |-> g[t]], g[k]) = [t \in 1 .. k |-> g[t]]
        BY ListGrows
      <4>2. \A k \in 1 .. SensorCount :
              Append([t \in 1 .. k - 1 |-> h[t]], h[k]) = [t \in 1 .. k |-> h[t]]
        BY <1>1, <3>1, <4>1, Zenon
      <4>3. QED
        BY <4>2, Zenon
    <3>3. QED
      BY <3>2 DEF h
  <2>3. f[s - 1] = [at |-> Len(SensorStreams(record)[s - 1]), events |-> read]
    BY <2>1
  <2>4. f[s] = [at |-> Len(SensorStreams(record)[s]),
                events |-> [t \in 1 .. s |-> SensorLists(record)[t]]]
    BY <2>1
  <2> HIDE DEF f, read, h, E
  <2>5. TakeSensor([at |-> Len(SensorStreams(record)[s - 1]), events |-> read], whole)
          = [at |-> Len(SensorStreams(record)[s]),
             events |-> Append(read, SensorLists(record)[s])]
    BY SensorIsRead
  <2> HIDE DEF whole
  <2>6. QED
    BY <2>2, <2>3, <2>4, <2>5
<1> HIDE DEF whole
<1>4. f = [s \in 0 .. SensorCount |-> IF s = 0 THEN Zero ELSE TakeSensor(f[s - 1], whole)]
  <2>1. \A s \in 0 .. SensorCount :
          f[s] = IF s = 0 THEN Zero ELSE TakeSensor(f[s - 1], whole)
    <3> HIDE DEF f
    <3>1. \A s \in 0 .. SensorCount : s = 0 \/ s \in 1 .. SensorCount
      BY <1>1
    <3>2. \A s \in 1 .. SensorCount : s # 0
      BY <1>1
    <3>3. QED
      BY <1>2, <1>3, <3>1, <3>2
  <2>2. QED
    BY <2>1
<1>5. SensorReaders(whole) =
        [s \in 0 .. SensorCount |->
           IF s = 0 THEN Zero ELSE TakeSensor(SensorReaders(whole)[s - 1], whole)]
  BY <1>4, Zenon DEF SensorReaders
<1>6. \A s \in 0 .. SensorCount :
        SensorReaders(whole)[s] =
          IF s = 0 THEN Zero ELSE TakeSensor(SensorReaders(whole)[s - 1], whole)
  BY <1>5, Zenon
<1> DEFINE S == {s \in 0 .. SensorCount : SensorReaders(whole)[s] = f[s]}
<1>7. 0 \in S
  <2> HIDE DEF f
  <2>1. QED
    BY <1>1, <1>2, <1>6
<1>8. ASSUME NEW s \in 1 .. SensorCount, s - 1 \in S
      PROVE  s \in S
  <2>1. s \in 0 .. SensorCount /\ s # 0
    BY <1>1
  <2>2. SensorReaders(whole)[s - 1] = f[s - 1]
    BY <1>8
  <2> HIDE DEF f
  <2>3. QED
    BY <1>3, <1>6, <2>1, <2>2
<1>9. 0 .. SensorCount \subseteq S
  <2> HIDE DEF S
  <2>1. QED
    BY <1>1, <1>7, <1>8, BoundedInduction
<1>10. QED
  BY <1>9 DEF whole

\* The scans are read back.
LEMMA ScansAreRead ==
  ASSUME NEW V, NEW samples \in Seq([1 .. Channels -> V]), NEW stream, NEW first \in Nat,
         Holds(stream, first, Scans(samples))
  PROVE  [k \in 1 .. Len(samples) |->
            [c \in 1 .. Channels |->
               SmallAt(stream, first + (k - 1) * Channels + c - 1)]] = samples
<1>1. Channels \in Nat \ {0} /\ Len(samples) \in Nat
  BY SegmentsAssumption, LenProperties
<1>2. ASSUME NEW k \in 1 .. Len(samples), NEW c \in 1 .. Channels
      PROVE  SmallAt(stream, first + (k - 1) * Channels + c - 1) = samples[k][c]
  <2> DEFINE p == (k - 1) * Channels
  <2>1. p \in Nat /\ p + c \in 1 .. Len(samples) * Channels
    <3>1. k - 1 \in Nat /\ Channels \in Nat
      BY <1>1
    <3>2. p \in Nat
      BY <3>1
    <3>3. p + c \in 1 .. Len(samples) * Channels
      BY ONLY <1>1, PlaceIn
    <3>4. QED
      BY <3>2, <3>3
  <2>2. Len(Scans(samples)) = Len(samples) * Channels /\ Scans(samples)[p + c] = <<samples[k][c], 1>>
    BY ScansAre
  <2>3. stream[first + (p + c)] = <<samples[k][c], 1>>
    BY <2>1, <2>2 DEF Holds
  <2>4. first + (p + c) = (first + p + c - 1) + 1
    <3> HIDE DEF p
    <3>1. QED
      BY <2>1, <1>1
  <2>5. SmallAt(stream, first + p + c - 1) = samples[k][c]
    <3> HIDE DEF p
    <3>1. QED
      BY <2>3, <2>4 DEF SmallAt
  <2>6. QED
    BY <2>5
<1>3. ASSUME NEW k \in 1 .. Len(samples)
      PROVE  [c \in 1 .. Channels |->
                SmallAt(stream, first + (k - 1) * Channels + c - 1)] = samples[k]
  <2>1. samples[k] \in [1 .. Channels -> V]
    BY ElementOfSeq
  <2>2. QED
    BY <1>2, <2>1
<1>4. samples = [k \in 1 .. Len(samples) |-> samples[k]]
  BY LenProperties
<1>5. QED
  BY <1>3, <1>4

\* The host decodes the stream of a record to the record: no list, count, sample or
\* time stamp is lost, moved or taken for another, whatever its length.
THEOREM RoundTrip ==
  ASSUME NEW V, NEW record, Wired(record, V)
  PROVE  _decode_launch_data(Stream(record)) =
           Record(SensorLists(record), record.samples, record.launchStart, record.launchEnd)
<1> DEFINE whole == Stream(record)
           at == Len(SensorStreams(record)[SensorCount])
           n == Len(record.samples)
           first == at + WordBytes
           tail == first + n * Channels
<1>1. SensorReaders(whole)[SensorCount] = [at |-> at, events |-> SensorLists(record)]
  <2>1. SensorReaders(whole)[SensorCount] =
          [at |-> at, events |-> [t \in 1 .. SensorCount |-> SensorLists(record)[t]]]
    BY ReadersAre, CaptureAssumption
  <2>2. [t \in 1 .. SensorCount |-> SensorLists(record)[t]] = SensorLists(record)
    BY DEF SensorLists
  <2>3. QED
    BY <2>1, <2>2
<1>2. n \in Nat /\ n \in V /\ n <= MaxScans
  BY LenProperties DEF Wired
<1>3. record.launchStart \in V /\ record.launchEnd \in V
      /\ record.samples \in Seq([1 .. Channels -> V])
  BY DEF Wired
<1>4. /\ Holds(whole, at, Word(n))
      /\ Holds(whole, first, Scans(record.samples))
      /\ Holds(whole, tail, Word(record.launchStart))
      /\ Holds(whole, tail + WordBytes, Word(record.launchEnd))
      /\ at \in Nat /\ first \in Nat /\ tail \in Nat
      /\ Len(whole) = tail + 2 * WordBytes
  <2> HIDE DEF first, tail
  <2>1. first = at + WordBytes /\ tail = first + n * Channels
    BY DEF first, tail
  <2>2. QED
    BY <2>1, TailPlaces
<1>5. CanTake(whole, at, WordBytes) /\ WordAt(whole, at) = n
  <2>1. Len(Word(n)) = WordBytes
    BY <1>2, WordIs
  <2>2. CanTake(whole, at, WordBytes)
    <3> HIDE DEF first, tail, at, whole, n
    <3>1. QED
      BY <1>4, <2>1 DEF CanTake, Holds
  <2>3. WordAt(whole, at) = n
    BY <1>2, <1>4, WordHeldIsRead
  <2>4. QED
    BY <2>2, <2>3
<1>6. WordAt(whole, tail) = record.launchStart
      /\ WordAt(whole, tail + WordBytes) = record.launchEnd
  <2> HIDE DEF tail, whole
  <2>1. QED
    BY <1>3, <1>4, WordHeldIsRead
<1>7. [k \in 1 .. n |->
         [c \in 1 .. Channels |-> SmallAt(whole, first + (k - 1) * Channels + c - 1)]]
       = record.samples
  <2> DEFINE samples == record.samples
  <2>1. \A from \in Nat : Holds(whole, from, Scans(samples)) =>
          [k \in 1 .. Len(samples) |->
             [c \in 1 .. Channels |->
                SmallAt(whole, from + (k - 1) * Channels + c - 1)]] = samples
    <3> HIDE DEF samples, whole
    <3>1. samples \in Seq([1 .. Channels -> V])
      BY <1>3 DEF samples
    <3>2. QED
      BY <3>1, ScansAreRead
  <2> HIDE DEF first, whole
  <2>2. QED
    BY <1>4, <2>1, ZenonT(60)
<1>8. ~(n > MaxScans) /\ CanTake(whole, tail, 2 * WordBytes)
      /\ tail + 2 * WordBytes = Len(whole)
  <2> HIDE DEF first, tail, at, whole, n
  <2>1. MaxScans \in Nat /\ WordBytes \in Nat
    BY RecordAssumption
  <2>2. QED
    BY <1>2, <1>4, <2>1 DEF CanTake
<1> DEFINE sensors == SensorReaders(whole)[SensorCount]
<1>9. sensors.at = at /\ sensors.events = SensorLists(record)
  BY <1>1
<1> HIDE DEF sensors, whole, at, n
<1>10. (IF CanTake(whole, sensors.at, WordBytes) THEN WordAt(whole, sensors.at)
        ELSE MaxScans + 1) = n
  BY <1>5, <1>9
<1>11. _decode_launch_data(whole) =
         Record(SensorLists(record),
                [k \in 1 .. n |->
                   [c \in 1 .. Channels |-> SmallAt(whole, first + (k - 1) * Channels + c - 1)]],
                WordAt(whole, tail), WordAt(whole, tail + WordBytes))
  BY <1>8, <1>9, <1>10, Zenon DEF _decode_launch_data, sensors
<1>12. QED
  BY <1>6, <1>7, <1>11 DEF whole

\* The segments of a transfer join to its stream: one taken at an offset continues
\* what was sent before it, is no longer than a frame holds, and before the end of
\* the stream is never empty.
THEOREM SegmentsTheorem ==
  ASSUME NEW V, NEW record, Wired(record, V), NEW from \in 0 .. serializedSize(record)
  PROVE  /\ Len(serialize(record, from)) <= PayloadSize
         /\ from < serializedSize(record) => Len(serialize(record, from)) > 0
         /\ SubSeq(Stream(record), 1, from) \o serialize(record, from) =
              SubSeq(Stream(record), 1, from + Len(serialize(record, from)))
<1> DEFINE stream == Stream(record)
           segment == Segment(stream, from)
<1>1. /\ serializedSize(record) = Len(stream) /\ Len(stream) \in Nat
      /\ stream \in Seq(Byte(V)) /\ PayloadSize \in Nat \ {0}
  BY SizeIs, StreamIs, LenProperties, RecordAssumption
<1>2. from \in Nat /\ from \in 0 .. Len(stream)
  BY <1>1
<1>3. serialize(record, from) = segment
  BY <1>2, SerializeIs
<1> HIDE DEF stream
<1>4. Len(segment) = IF from >= Len(stream) THEN 0
                     ELSE IF from + PayloadSize < Len(stream) THEN PayloadSize
                     ELSE Len(stream) - from
  BY <1>1, <1>2, SegmentIs
<1>5. SubSeq(stream, 1, from) \o segment = SubSeq(stream, 1, from + Len(segment))
  BY <1>1, <1>2, SegmentsJoin
<1> HIDE DEF segment
<1>6. Len(segment) <= PayloadSize /\ (from < Len(stream) => Len(segment) > 0)
  BY <1>1, <1>2, <1>4
<1>7. QED
  BY <1>1, <1>3, <1>5, <1>6 DEF stream
=============================================================================

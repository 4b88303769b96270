----------------------------- MODULE LaunchWire -----------------------------
(***************************************************************************)
(* The wire stream of a launch record: LaunchData::serialize on the board,  *)
(* _decode_launch_data on the host.  A byte is a pair of a value and the    *)
(* place of the byte in it, so that a word cut or joined in the wrong place *)
(* is not a value.  Power samples and request snapshots, counted arrays     *)
(* like the current samples, and the velocity, one more word, are left out. *)
(***************************************************************************)
EXTENDS Integers, Sequences

CONSTANTS
  SensorCount,
  Capacity,  \* SensorEvents::Capacity
  Channels,  \* BridgeCount
  MaxScans,  \* scans the current buffer holds
  WordBytes, \* bytes of a time stamp or of a long count
  PayloadSize \* LaunchFramePayloadSize

Record(events, samples, start, end) ==
  [events |-> events, samples |-> samples, launchStart |-> start, launchEnd |-> end]
BadRecord == Record(<<>>, <<>>, -1, -1)

Small(value) == <<<<value, 1>>>>
Word(value) == [k \in 1 .. WordBytes |-> <<value, k>>]

\* The memory of an array of words, and of the scans with their channels.
Words(values) ==
  [k \in 1 .. Len(values) * WordBytes |->
     <<values[(k - 1) \div WordBytes + 1], ((k - 1) % WordBytes) + 1>>]
Scans(samples) ==
  [k \in 1 .. Len(samples) * Channels |->
     <<samples[(k - 1) \div Channels + 1][((k - 1) % Channels) + 1], 1>>]

-----------------------------------------------------------------------------
(* The board.                                                               *)

\* The sizes of the first sensors.
SensorSizes(record) ==
  LET size[s \in 0 .. SensorCount] ==
        IF s = 0 THEN 0
        ELSE size[s - 1] + 2 + WordBytes * Len(record.events[s].Rising)
                             + WordBytes * Len(record.events[s].Falling)
  IN size

serializedSize(record) ==
  SensorSizes(record)[SensorCount]
    + WordBytes + Channels * Len(record.samples) + 2 * WordBytes

\* SegmentWriter: append copies what lies between offset and offset + PayloadSize.
Copied(data, sourceOffset, remaining) ==
  LET available == Len(data) - sourceOffset
      copyLength == IF available < remaining THEN available ELSE remaining
  IN SubSeq(data, sourceOffset + 1, sourceOffset + copyLength)

append(writer, data, offset) ==
  LET segmentStart == writer.streamPosition
      streamPosition == segmentStart + Len(data)
      sourceOffset == IF offset > segmentStart THEN offset - segmentStart ELSE 0
      remaining == PayloadSize - Len(writer.output)
  IN [streamPosition |-> streamPosition,
      output |-> IF remaining = 0 \/ offset >= streamPosition
                   THEN writer.output
                   ELSE writer.output \o Copied(data, sourceOffset, remaining)]

\* What the loop over the sensors has written after each of them.
SensorWriters(record, offset) ==
  LET writer[s \in 0 .. SensorCount] ==
        IF s = 0 THEN [streamPosition |-> 0, output |-> <<>>]
        ELSE LET events == record.events[s]
                 counts == append(append(writer[s - 1], Small(Len(events.Rising)), offset),
                                  Small(Len(events.Falling)), offset)
             IN append(append(counts, Words(events.Rising), offset),
                       Words(events.Falling), offset)
  IN writer

serialize(record, offset) ==
  LET sensors == SensorWriters(record, offset)[SensorCount]
      samples == append(append(sensors, Word(Len(record.samples)), offset),
                        Scans(record.samples), offset)
  IN append(append(samples, Word(record.launchStart), offset),
            Word(record.launchEnd), offset).output

-----------------------------------------------------------------------------
(* The host.  A reader is the place reached in the payload and what has been *)
(* read there; at = -1 once the payload was truncated or invalid.            *)

CanTake(payload, at, size) == at >= 0 /\ at + size <= Len(payload)
SmallAt(payload, at) == payload[at + 1][1]
WordAt(payload, at) ==
  IF \A k \in 1 .. WordBytes : payload[at + k] = <<payload[at + 1][1], k>>
    THEN payload[at + 1][1] ELSE -1
WordsAt(payload, at, count) ==
  [i \in 1 .. count |-> WordAt(payload, at + (i - 1) * WordBytes)]

Failed == [at |-> -1, events |-> <<>>]

TakeSensor(reader, payload) ==
  IF ~CanTake(payload, reader.at, 2) THEN Failed
  ELSE LET rising == SmallAt(payload, reader.at)
           falling == SmallAt(payload, reader.at + 1)
           end == reader.at + 2 + (rising + falling) * WordBytes
       IN IF rising > Capacity \/ falling > Capacity \/ end > Len(payload)
            THEN Failed
            ELSE [at |-> end,
                  events |-> Append(reader.events,
                    [Rising |-> WordsAt(payload, reader.at + 2, rising),
                     Falling |-> WordsAt(payload, reader.at + 2 + rising * WordBytes,
                                         falling)])]

SensorReaders(payload) ==
  LET reader[s \in 0 .. SensorCount] ==
        IF s = 0 THEN [at |-> 0, events |-> <<>>]
        ELSE TakeSensor(reader[s - 1], payload)
  IN reader

_decode_launch_data(payload) ==
  LET sensors == SensorReaders(payload)[SensorCount]
      count == IF CanTake(payload, sensors.at, WordBytes)
                 THEN WordAt(payload, sensors.at) ELSE MaxScans + 1
      first == sensors.at + WordBytes
      tail == first + count * Channels
  IN IF count > MaxScans \/ ~CanTake(payload, tail, 2 * WordBytes)
          \/ tail + 2 * WordBytes # Len(payload)
       THEN BadRecord
       ELSE Record(sensors.events,
                   [k \in 1 .. count |->
                      [c \in 1 .. Channels |->
                         SmallAt(payload, first + (k - 1) * Channels + c - 1)]],
                   WordAt(payload, tail), WordAt(payload, tail + WordBytes))
=============================================================================

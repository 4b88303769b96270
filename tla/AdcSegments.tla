---------------------------- MODULE AdcSegments ----------------------------
(***************************************************************************)
(* AdcSampler: one sequence of conversions whose values the DMA writes to   *)
(* the current buffer, in segments no longer than its counter allows; the   *)
(* interrupt that ends one segment starts the next.  The ADC and the DMA    *)
(* channel are external: a value converted while no segment is open is      *)
(* lost.                                                                    *)
(***************************************************************************)
EXTENDS Integers, Sequences

CONSTANTS
  Channels,               \* BridgeCount: conversions of one scan
  MaximumDmaSegmentLength,
  ValueCount,             \* values the buffer holds: a run at the highest rate
  Unwritten               \* content of the buffer before the first run

ASSUME SegmentsAssumption ==
  /\ Channels \in Nat \ {0, 1} /\ MaximumDmaSegmentLength \in Nat \ {0}
  /\ MaximumDmaSegmentLength % Channels = 0
  /\ ValueCount \in Nat \ {0} /\ ValueCount % Channels = 0

VARIABLES
  adcOwned,            \* _activeDmaOwner is this sampler
  sequenceValueCount,  \* _valueCount
  completedValueCount, activeSegmentLength, sequenceEvent,
  dma,                 \* HAL_DMA_GetState
  counter,             \* values the open segment still takes
  transferComplete,    \* its interrupt is pending
  currentData,         \* the buffer
  triggering,          \* the sampling timer runs
  converting,          \* next conversion of the scan; 0: no scan in progress
  \* history
  scan,                \* scans begun in this run
  run                  \* runs begun

adcVars == <<adcOwned, sequenceValueCount, completedValueCount, activeSegmentLength, sequenceEvent, dma,
             counter, transferComplete, currentData, triggering, converting, scan, run>>

\* A value is known by its run, its scan and the bridge it was measured at.
Value(bridge) == [run |-> run, scan |-> scan, bridge |-> bridge]

\* The channels are converted in the order H1, H2, H4, H3.
ScanOrder(position) ==
  CASE position = Channels     -> Channels - 1
    [] position = Channels - 1 -> Channels
    [] OTHER                   -> position

AdcType ==
  /\ adcOwned \in BOOLEAN
  /\ sequenceValueCount \in 0 .. ValueCount
  /\ completedValueCount \in 0 .. sequenceValueCount
  /\ activeSegmentLength \in 0 .. MaximumDmaSegmentLength
  /\ sequenceEvent \in {"None", "Complete", "Error"}
  /\ dma \in {"READY", "BUSY"} /\ counter \in 0 .. MaximumDmaSegmentLength
  /\ transferComplete \in BOOLEAN
  /\ triggering \in BOOLEAN /\ converting \in 0 .. Channels
  /\ DOMAIN currentData = 0 .. ValueCount - 1

AdcInit ==
  /\ adcOwned = FALSE /\ sequenceValueCount = 0 /\ completedValueCount = 0 /\ activeSegmentLength = 0
  /\ sequenceEvent = "None"
  /\ dma = "READY" /\ counter = 0 /\ transferComplete = FALSE
  /\ currentData = [i \in 0 .. ValueCount - 1 |-> Unwritten]
  /\ triggering = FALSE /\ converting = 0 /\ scan = 0 /\ run = 0

\* Mutant: the rest of the run in one segment, whatever the counter holds.
SegmentLengthUnbounded(remaining) == remaining

\* Mutant: the longest segment is not a number of whole scans.
SegmentLengthUneven(remaining) ==
  IF remaining < MaximumDmaSegmentLength + 1
    THEN remaining ELSE MaximumDmaSegmentLength + 1

SegmentLength(remaining) ==
  IF remaining < MaximumDmaSegmentLength THEN remaining ELSE MaximumDmaSegmentLength

OpenSegment(length) ==
  /\ dma' = "BUSY" /\ counter' = length /\ transferComplete' = FALSE
  /\ activeSegmentLength' = length

-----------------------------------------------------------------------------
(* The conversions.                                                         *)

\* When its period is over the timer triggers a scan; the one before is over, its period being far longer
\* than four conversions and than the latency of the DMA interrupt.
Trigger(due) ==
  /\ converting = 0 /\ ~transferComplete
  /\ IF triggering /\ due THEN converting' = 1 /\ scan' = scan + 1
                   ELSE UNCHANGED <<converting, scan>>
  /\ UNCHANGED <<adcOwned, sequenceValueCount, completedValueCount, activeSegmentLength, sequenceEvent,
                 dma, counter, transferComplete, currentData, triggering, run>>

\* One conversion ends; the open segment takes its value.
Convert ==
  /\ converting > 0
  /\ converting' = (converting + 1) % (Channels + 1)
  /\ IF dma = "BUSY" /\ counter > 0
       THEN /\ currentData' = [currentData EXCEPT
                 ![completedValueCount + activeSegmentLength - counter] =
                   Value(ScanOrder(converting))]
            /\ counter' = counter - 1
            /\ transferComplete' = (counter = 1)
       ELSE UNCHANGED <<currentData, counter, transferComplete>>
  /\ UNCHANGED <<adcOwned, sequenceValueCount, completedValueCount, activeSegmentLength, sequenceEvent,
                 dma, triggering, scan, run>>

\* The DMA interrupt and onSequenceCompleteFromIsr.
onSequenceCompleteFromIsr ==
  /\ transferComplete
  /\ completedValueCount' = completedValueCount + activeSegmentLength
  /\ IF completedValueCount' < sequenceValueCount
       THEN /\ OpenSegment(SegmentLength(sequenceValueCount - completedValueCount'))
            /\ UNCHANGED sequenceEvent
       ELSE /\ dma' = "READY" /\ transferComplete' = FALSE
            /\ sequenceEvent' = "Complete"
            /\ UNCHANGED <<counter, activeSegmentLength>>
  /\ UNCHANGED <<adcOwned, sequenceValueCount, currentData, triggering, converting, scan, run>>

\* A transfer error closes the segment where it stands.  It is the only cause of the
\* callback: the interrupt of the ADC, which reports an overrun, is never enabled.
onSequenceErrorFromIsr ==
  /\ dma = "BUSY" /\ ~transferComplete
  /\ dma' = "READY"
  /\ sequenceEvent' = "Error"
  /\ UNCHANGED <<adcOwned, sequenceValueCount, completedValueCount, activeSegmentLength, counter,
                 transferComplete, currentData, triggering, converting, scan, run>>

-----------------------------------------------------------------------------
(* What LaunchManager calls.                                                *)

\* startDma, and the sampling timer after it.
startDma(values) ==
  /\ ~adcOwned /\ dma = "READY"
  /\ adcOwned' = TRUE
  /\ sequenceEvent' = "None"
  /\ sequenceValueCount' = values /\ completedValueCount' = 0
  /\ OpenSegment(SegmentLength(values))
  /\ triggering' = TRUE
  /\ scan' = 0 /\ run' = run + 1
  /\ UNCHANGED <<currentData, converting>>

stopTimers ==
  /\ triggering' = FALSE
  /\ UNCHANGED <<adcOwned, sequenceValueCount, completedValueCount, activeSegmentLength, sequenceEvent,
                 dma, counter, transferComplete, currentData, converting, scan, run>>

transferredValueCount ==
  IF adcOwned /\ completedValueCount < sequenceValueCount /\ dma = "BUSY"
    THEN completedValueCount + activeSegmentLength - counter
    ELSE completedValueCount

\* stop: the conversion under way is abandoned and the segment closed.
stopDma ==
  /\ adcOwned' = FALSE
  /\ sequenceEvent' = "None"
  /\ dma' = "READY" /\ transferComplete' = FALSE
  /\ converting' = 0
  /\ UNCHANGED <<sequenceValueCount, completedValueCount, activeSegmentLength, counter,
                 currentData, triggering, scan, run>>

\* normalizeBridgeCurrentSamples: the last two channels of each of the first scans
\* change places.
normalizeBridgeCurrentSamples(scans) ==
  [i \in DOMAIN currentData |->
     IF i < scans * Channels
       THEN currentData[(i \div Channels) * Channels + ScanOrder((i % Channels) + 1) - 1]
       ELSE currentData[i]]
=============================================================================

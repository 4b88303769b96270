---------------------------- MODULE LaunchRecord ----------------------------
(***************************************************************************)
(* What a launch records, from the interrupts that produce it to the host   *)
(* that decodes it: SensorCapture and AdcSegments run under the interrupts, *)
(* the steps of LaunchManager::startRun and finishRun that touch the record *)
(* run between them, and the published record leaves in segments of its     *)
(* wire stream.  Why a run ends, what else its end does and how frames      *)
(* travel is in LaunchRun and HostLink.                                     *)
(*                                                                         *)
(* A tick is both the unit of TIM2 and the shortest sampling period.         *)
(***************************************************************************)
EXTENDS SensorCapture, AdcSegments

CONSTANTS
  MaxScans, WordBytes, PayloadSize, \* of LaunchWire
  RunTicks,   \* LaunchRunDurationMilliseconds
  Periods,    \* sampling periods in ticks: the rates SET_SAMPLING_RATE accepts
  AdcFaults,  \* the DMA may report an error
  MaxTime,    \* bound: ticks of a behaviour
  MaxRuns     \* bound: runs of a behaviour

ASSUME RecordAssumption ==
  /\ RunTicks \in Nat /\ RunTicks + 1 < TimerPeriod
  /\ ValueCount = RunTicks * Channels /\ MaxScans = RunTicks
  /\ Periods \subseteq 1 .. RunTicks /\ 1 \in Periods
  /\ WordBytes \in Nat \ {0} /\ PayloadSize \in Nat \ {0}
  /\ AdcFaults \in BOOLEAN /\ MaxTime \in Nat /\ MaxRuns \in Nat

INSTANCE LaunchWire

VARIABLES
  pc,        \* step of startRun or finishRun, or what the record is used for
  samplingPeriod, \* of _samplingFrequencyHz
  started,   \* the tick the run, then its timers, started at
  valueCount,\* currentValueCount of finishRun
  data,      \* the published LaunchData
  offset,    \* _launchDataOffset
  payload,   \* the host: _launch_rx_payload
  decoded,   \* the host: _launch_data, or NoRecord
  \* history
  scansDone, \* scans complete when the sampling timer was stopped
  failed     \* the DMA reported an error in this run

hostVars == <<payload, decoded>>
recordVars == <<pc, samplingPeriod, started, valueCount, data, offset, hostVars,
                scansDone, failed>>
vars == <<captureVars, adcVars, recordVars>>

NoRecord == Record(<<>>, <<>>, 0, -1)

TypeOK ==
  /\ CaptureType /\ AdcType
  /\ pc \in {"idle", "starting", "running", "endCapture", "count", "stop", "publish",
             "sending"}
  /\ samplingPeriod \in Periods
  /\ started \in Nat /\ valueCount \in 0 .. ValueCount
  /\ offset \in Nat /\ failed \in BOOLEAN /\ scansDone \in 0 .. RunTicks + 1

Init ==
  /\ CaptureInit /\ AdcInit
  /\ pc = "idle" /\ samplingPeriod = 1 /\ started = 0 /\ valueCount = 0
  /\ data = NoRecord /\ offset = 0
  /\ payload = <<>> /\ decoded = NoRecord
  /\ scansDone = 0 /\ failed = FALSE

-----------------------------------------------------------------------------
(* LaunchManager.                                                           *)

\* What is left of the last record is not read again: the host forgets its result
\* before it writes START.
StartRun ==
  /\ pc = "idle" /\ run < MaxRuns
  /\ beginLaunchCapture
  /\ pc' = "starting" /\ started' = now
  /\ data' = NoRecord /\ offset' = 0 /\ payload' = <<>> /\ decoded' = NoRecord
  /\ valueCount' = 0 /\ scansDone' = 0 /\ failed' = FALSE
  /\ UNCHANGED <<adcVars, samplingPeriod>>

\* SET_SAMPLING_RATE: rejected while a run is active, not while its data leaves.
\* Bound: no rate is set that no run uses.
SetSamplingRate ==
  /\ pc \in {"idle", "sending"} /\ run < MaxRuns
  /\ \E period \in Periods \ {samplingPeriod} : samplingPeriod' = period
  /\ UNCHANGED <<captureVars, adcVars, pc, started, valueCount, data, offset, hostVars,
                 scansDone, failed>>

\* launchStart, startDma for a run at the current rate, and startTimers.
StartSampling ==
  /\ pc = "starting"
  /\ startDma((RunTicks \div samplingPeriod) * Channels)
  /\ started' = now
  /\ data' = Record(NoEdges, <<>>, timestamp(now), 0)
  /\ pc' = "running"
  /\ UNCHANGED <<captureVars, samplingPeriod, valueCount, offset, hostVars, scansDone,
                 failed>>

\* The host, the attempt timer or the last value ends the run.
FinishRun ==
  /\ pc = "running"
  /\ stopTimers
  /\ scansDone' = IF converting = 0 THEN scan ELSE scan - 1
  /\ pc' = "endCapture"
  /\ UNCHANGED <<captureVars, samplingPeriod, started, valueCount, data, offset,
                 hostVars, failed>>

EndCapture ==
  /\ pc = "endCapture"
  /\ endLaunchCapture
  /\ pc' = "count"
  /\ UNCHANGED <<adcVars, samplingPeriod, started, valueCount, data, offset, hostVars,
                 scansDone, failed>>

CountValues ==
  /\ pc = "count"
  /\ valueCount' = transferredValueCount
  /\ pc' = "stop"
  /\ UNCHANGED <<captureVars, adcVars, samplingPeriod, started, data, offset, hostVars,
                 scansDone, failed>>

StopAdc ==
  /\ pc = "stop"
  /\ stopDma
  /\ data' = [data EXCEPT !.launchEnd = timestamp(now)]
  /\ pc' = "publish"
  /\ UNCHANGED <<captureVars, samplingPeriod, started, valueCount, offset, hostVars,
                 scansDone, failed>>

\* normalizeBridgeCurrentSamples and copyLaunchEvents; the transfer begins, unless
\* the run was aborted.
Publish ==
  /\ pc = "publish"
  /\ LET scans == valueCount \div Channels
         values == normalizeBridgeCurrentSamples(scans)
         record ==
           [data EXCEPT
             !.events = events,
             !.samples = [k \in 1 .. scans |->
                            [c \in 1 .. Channels |-> values[(k - 1) * Channels + c - 1]]]]
     IN /\ currentData' = values
        /\ \/ data' = record /\ pc' = "sending"
           \/ data' = NoRecord /\ pc' = "idle"
  /\ offset' = 0
  /\ UNCHANGED <<captureVars, hostVars, adcOwned, sequenceValueCount, completedValueCount,
                 activeSegmentLength, sequenceEvent, dma, counter, transferComplete,
                 triggering, converting, scan, run, samplingPeriod, started, valueCount,
                 scansDone, failed>>

-----------------------------------------------------------------------------
(* The transfer.                                                            *)

SendData ==
  /\ pc = "sending" /\ offset < serializedSize(data)
  /\ LET segment == serialize(data, offset)
     IN /\ payload' = payload \o segment
        /\ offset' = offset + Len(segment)
  /\ UNCHANGED <<captureVars, adcVars, pc, samplingPeriod, started, valueCount, data,
                 decoded, scansDone, failed>>

\* The final frame carries the length; the host decodes what it received.
SendFinal ==
  /\ pc = "sending" /\ offset >= serializedSize(data)
  /\ decoded' = IF Len(payload) = serializedSize(data)
                  THEN _decode_launch_data(payload) ELSE BadRecord
  /\ pc' = "idle"
  /\ UNCHANGED <<captureVars, adcVars, samplingPeriod, started, valueCount, data, offset,
                 payload, scansDone, failed>>

-----------------------------------------------------------------------------
(* The interrupts.                                                          *)

\* Bound: no edge after the last record.
SensorEdge(line) ==
  /\ run < MaxRuns \/ pc \notin {"idle", "sending"}
  /\ handleSensorInterrupt(line)
  /\ UNCHANGED <<adcVars, recordVars>>

AdcConverts ==
  Convert /\ UNCHANGED <<captureVars, recordVars>>
SegmentEnds ==
  onSequenceCompleteFromIsr /\ UNCHANGED <<captureVars, recordVars>>
AdcFails ==
  /\ AdcFaults
  /\ onSequenceErrorFromIsr
  /\ failed' = TRUE
  /\ UNCHANGED <<captureVars, pc, samplingPeriod, started, valueCount, data, offset,
                 hostVars, scansDone>>

\* Time passes.  A start takes less than a tick or one, and the attempt timer ends a
\* run long before TIM2 wraps.
Tick ==
  /\ now < MaxTime
  /\ pc = "starting" => now = started
  /\ pc \notin {"idle", "starting", "sending"} => now < started + RunTicks
  /\ now' = now + 1
  /\ Trigger((now' - started) % samplingPeriod = 0)
  /\ UNCHANGED <<lastTimestamp, timestampValid, events, launchCapture, genuine, kept,
                 recordVars>>

Next ==
  \/ SetSamplingRate \/ StartRun \/ StartSampling
  \/ FinishRun \/ EndCapture \/ CountValues \/ StopAdc \/ Publish
  \/ SendData \/ SendFinal
  \/ \E line \in Lines : SensorEdge(line)
  \/ AdcConverts \/ SegmentEnds \/ AdcFails
  \/ Tick

Spec == Init /\ [][Next]_vars

-----------------------------------------------------------------------------
(* Properties.                                                              *)

HasRecord == pc = "idle" /\ decoded # NoRecord

\* The edges the host decodes are those of this run, in order, without chatter and
\* without a gap: neither an edge before the run, nor the age of what the debounce
\* remembers modulo the period of the timer, nor a word cut by a frame changes them.
EdgesReachTheHost ==
  HasRecord =>
    /\ decoded # BadRecord
    /\ \A s \in 1 .. SensorCount, e \in Edges :
         decoded.events[s][e] =
           [i \in 1 .. Len(kept[s][e]) |-> timestamp(kept[s][e][i])]

\* The samples the host decodes are the first scans of this run, each whole and in
\* the order of the bridges, and none that was complete when the timers stopped is
\* missing, over the ends of segments, a scan cut by the end of the run, and values
\* an earlier run left in the buffer.
SamplesReachTheHost ==
  HasRecord =>
    /\ decoded # BadRecord
    /\ \A k \in 1 .. Len(decoded.samples), c \in 1 .. Channels :
         decoded.samples[k][c] = [run |-> run, scan |-> k, bridge |-> c]
    /\ ~failed => Len(decoded.samples) >= scansDone
=============================================================================

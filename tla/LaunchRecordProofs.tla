------------------------- MODULE LaunchRecordProofs -------------------------
(***************************************************************************)
(* What a launch records reaches the host, for every number of sensors,     *)
(* bridges and runs, every capacity, segment, frame and word size and every *)
(* sampling period.                                                         *)
(***************************************************************************)
EXTENDS LaunchWireProofs

-----------------------------------------------------------------------------
(* The inductive invariant.                                                 *)

\* The control points at which the ADC belongs to the run.
SamplingPoints == {"running", "endCapture", "count", "stop"}
Sampling == pc \in SamplingPoints
CapturePoints == {"starting", "running", "endCapture"}
RunPoints == SamplingPoints \cup {"publish"}

\* Time since the run started.
TimeInv ==
  /\ now \in Nat /\ started \in Nat /\ started <= now
  /\ samplingPeriod \in Periods
  /\ pc \in {"idle", "starting", "publish", "sending"} \cup SamplingPoints
  /\ pc = "starting" => now <= started + 1
  /\ pc \in RunPoints => now <= started + RunTicks

\* Scans whose conversions are over, and the values of all conversions so far.
WholeScans == IF converting = 0 THEN scan ELSE scan - 1
Conversions == IF converting = 0 THEN scan * Channels
                                 ELSE (scan - 1) * Channels + converting - 1
\* Where the open segment takes its next value.
Position == completedValueCount + activeSegmentLength - counter

AdcTypes ==
  /\ adcOwned \in BOOLEAN /\ triggering \in BOOLEAN /\ transferComplete \in BOOLEAN
  /\ sequenceEvent \in {"None", "Complete", "Error"} /\ dma \in {"READY", "BUSY"}
  /\ sequenceValueCount \in 0 .. ValueCount
  /\ completedValueCount \in 0 .. sequenceValueCount
  /\ activeSegmentLength \in 0 .. MaximumDmaSegmentLength
  /\ counter \in 0 .. MaximumDmaSegmentLength
  /\ converting \in 0 .. Channels /\ scan \in Nat /\ run \in Nat
  /\ failed \in BOOLEAN

\* Segments are whole scans.
WholeSegments ==
  /\ sequenceValueCount % Channels = 0
  /\ completedValueCount % Channels = 0
  /\ activeSegmentLength % Channels = 0

\* Outside a run the ADC and the DMA rest; the timer triggers while it runs.
AdcRests ==
  /\ adcOwned = Sampling
  /\ triggering = (pc = "running")
  /\ ~Sampling => dma = "READY" /\ converting = 0

\* The scans of a run are no more than its periods.
ScanInv ==
  /\ converting > 0 => scan >= 1
  /\ Sampling => /\ scan * samplingPeriod <= now - started
                 /\ sequenceValueCount = (RunTicks \div samplingPeriod) * Channels

\* An open segment takes every value converted.
SegmentInv ==
  /\ dma = "BUSY" => /\ activeSegmentLength >= 1 /\ counter <= activeSegmentLength
                     /\ completedValueCount + activeSegmentLength <= sequenceValueCount
                     /\ Position = Conversions
                     /\ transferComplete = (counter = 0)
  /\ dma = "READY" => ~transferComplete
  /\ transferComplete => converting = 0
  /\ Sampling /\ dma = "READY" /\ ~failed => completedValueCount = sequenceValueCount

AdcInv == AdcTypes /\ WholeSegments /\ AdcRests /\ ScanInv /\ SegmentInv

\* What was complete when the timers stopped, and what was counted afterwards.
CountInv ==
  /\ valueCount \in 0 .. ValueCount /\ scansDone \in 0 .. RunTicks
  /\ pc \in {"endCapture", "count"} => scansDone <= WholeScans
  /\ pc \in {"stop", "publish"} /\ ~failed => scansDone * Channels <= valueCount
  /\ pc = "stop" /\ dma = "BUSY" => valueCount <= Position

\* The first values of the buffer are the conversions of this run, in order.
Holding(buffer, number, count) ==
  \A k \in Nat \ {0}, c \in 1 .. Channels :
    (k - 1) * Channels + c - 1 < count =>
      buffer[(k - 1) * Channels + c - 1] =
        [run |-> number, scan |-> k, bridge |-> ScanOrder(c)]
Taken == IF dma = "BUSY" THEN Position ELSE completedValueCount

BufferInv ==
  /\ DOMAIN currentData = 0 .. ValueCount - 1
  /\ pc \in {"running", "endCapture", "count"} =>
       Holding(currentData, run, Taken)
  /\ pc \in {"stop", "publish"} => Holding(currentData, run, valueCount)

\* The lists of edges, and what the debounce remembers of this run.
Stamps(list) == [i \in 1 .. Len(list) |-> timestamp(list[i])]

ListsInv ==
  /\ events \in [1 .. SensorCount -> [Edges -> Seq(Nat)]]
  /\ kept \in [1 .. SensorCount -> [Edges -> Seq(Nat)]]
  /\ \A s \in 1 .. SensorCount, e \in Edges :
       events[s][e] = Stamps(kept[s][e]) /\ Len(kept[s][e]) <= Capacity

CaptureInv ==
  /\ lastTimestamp \in [Lines -> Timestamp] /\ timestampValid \in [Lines -> BOOLEAN]
  /\ genuine \in [Lines -> Nat \cup {Never}]
  /\ launchCapture = (pc \in CapturePoints)
  /\ launchCapture =>
       \A line \in Lines :
         /\ timestampValid[line] = (genuine[line] # Never)
         /\ genuine[line] # Never =>
              /\ genuine[line] <= now
              /\ now - genuine[line] < TimerPeriod
              /\ started - 1 <= genuine[line]
              /\ pc = "starting" => started <= genuine[line]
              /\ lastTimestamp[line] = timestamp(genuine[line])

\* The record, from the start of a run to its transfer.
Samples == [run : Nat, scan : Nat, bridge : 1 .. Channels]

OpenRecord ==
  /\ data = Record(NoEdges, <<>>, data.launchStart, data.launchEnd)
  /\ data.launchStart \in Nat /\ data.launchEnd \in Nat

Published(record) ==
  /\ record.launchStart \in Nat /\ record.launchEnd \in Nat
  /\ \A s \in 1 .. SensorCount, e \in Edges : record.events[s][e] = Stamps(kept[s][e])
  /\ record.samples \in Seq([1 .. Channels -> Samples])
  /\ Len(record.samples) <= RunTicks
  /\ \A k \in 1 .. Len(record.samples), c \in 1 .. Channels :
       record.samples[k][c] = [run |-> run, scan |-> k, bridge |-> c]
  /\ ~failed => Len(record.samples) >= scansDone

RecordInv ==
  /\ offset \in Nat
  /\ pc \in RunPoints => OpenRecord
  /\ pc = "sending" => /\ Published(data)
                       /\ offset <= Len(Stream(data))
                       /\ payload = SubSeq(Stream(data), 1, offset)
  /\ pc \notin {"idle", "sending"} => payload = <<>>
  /\ pc # "idle" => decoded = NoRecord
  /\ decoded # NoRecord => Published(decoded)

IInv == TimeInv /\ AdcInv /\ CountInv /\ BufferInv /\ ListsInv /\ CaptureInv /\ RecordInv

-----------------------------------------------------------------------------
(* Time.                                                                    *)

\* A run ends before its last period does.
LEMMA TimeStep ==
  ASSUME TimeInv, [Next]_vars
  PROVE  TimeInv'
<1> USE RecordAssumption DEF TimeInv, SamplingPoints, RunPoints
<1>0. RunTicks \in Nat /\ Periods \subseteq 1 .. RunTicks
  OBVIOUS
<1>1. CASE SetSamplingRate
  BY <1>1 DEF SetSamplingRate, captureVars
<1>2. CASE StartRun
  BY <1>2 DEF StartRun, beginLaunchCapture
<1>3. CASE StartSampling
  BY <1>3 DEF StartSampling, captureVars
<1>4. CASE FinishRun
  BY <1>4 DEF FinishRun, captureVars
<1>5. CASE EndCapture
  BY <1>5 DEF EndCapture, endLaunchCapture
<1>6. CASE CountValues
  BY <1>6 DEF CountValues, captureVars
<1>7. CASE StopAdc
  BY <1>7 DEF StopAdc, captureVars
<1>8. CASE Publish
  BY <1>8 DEF Publish, captureVars
<1>9. CASE SendData
  BY <1>9 DEF SendData, captureVars
<1>10. CASE SendFinal
  BY <1>10 DEF SendFinal, captureVars
<1>11. CASE \E line \in Lines : SensorEdge(line)
  BY <1>11 DEF SensorEdge, handleSensorInterrupt, recordVars
<1>12. CASE AdcConverts
  BY <1>12 DEF AdcConverts, captureVars, recordVars
<1>13. CASE SegmentEnds
  BY <1>13 DEF SegmentEnds, captureVars, recordVars
<1>14. CASE AdcFails
  BY <1>14 DEF AdcFails, captureVars
<1>15. CASE Tick
  BY <1>15 DEF Tick, recordVars
<1>16. CASE UNCHANGED vars
  BY <1>16 DEF vars, captureVars, recordVars
<1>17. QED
  BY <1>1, <1>2, <1>3, <1>4, <1>5, <1>6, <1>7, <1>8, <1>9, <1>10, <1>11, <1>12, <1>13,
     <1>14, <1>15, <1>16 DEF Next

\* Every state keeps to the time of its run.
LEMMA TimeAlways == Spec => []TimeInv
<1>1. Init => TimeInv
  BY RecordAssumption DEF Init, CaptureInit, TimeInv, SamplingPoints, RunPoints
<1>2. QED
  BY <1>1, TimeStep, PTL DEF Spec

-----------------------------------------------------------------------------
(* Whole scans.                                                             *)

\* A count of whole scans is a multiple of the channels, and conversely.
LEMMA Whole ==
  ASSUME NEW a \in Int
  PROVE  /\ (a * Channels) % Channels = 0 /\ (a * Channels) \div Channels = a
         /\ a % Channels = 0 => \E m \in Int : a = m * Channels
<1>1. Channels \in Nat \ {0}
  BY SegmentsAssumption
<1>2. (a * Channels + 0) \div Channels = a /\ (a * Channels + 0) % Channels = 0
  BY <1>1, Place
<1>3. a * Channels \in Int /\ a * Channels + 0 = a * Channels
  BY <1>1
<1>4. a % Channels = 0 => a = (a \div Channels) * Channels
  BY <1>1
<1>5. a \div Channels \in Int
  BY <1>1
<1>6. QED
  BY <1>2, <1>3, <1>4, <1>5

\* Sums and differences of whole scans are whole scans.
LEMMA WholeSum ==
  ASSUME NEW a \in Int, NEW b \in Int, a % Channels = 0, b % Channels = 0
  PROVE  (a + b) % Channels = 0 /\ (a - b) % Channels = 0
<1>1. PICK m \in Int : a = m * Channels
  BY Whole
<1>2. PICK n \in Int : b = n * Channels
  BY Whole
<1>3. Channels \in Nat
  BY SegmentsAssumption
<1>4. a + b = (m + n) * Channels /\ a - b = (m - n) * Channels
  BY <1>1, <1>2, <1>3
<1>5. m + n \in Int /\ m - n \in Int
  OBVIOUS
<1>6. QED
  BY <1>4, <1>5, Whole

\* A whole scan ends at its last channel.
LEMMA ScanEnds ==
  ASSUME NEW i \in Int, NEW j \in Int, NEW r \in 1 .. Channels,
         i * Channels = (j - 1) * Channels + r
  PROVE  r = Channels /\ i = j
<1>1. Channels \in Nat \ {0} /\ j - 1 \in Int
  BY SegmentsAssumption
<1> DEFINE p == i * Channels
           q == (j - 1) * Channels
<1>2. p \in Int /\ q \in Int /\ j * Channels = q + Channels
  BY <1>1
<1>3. ~(i <= j - 1)
  <2>1. SUFFICES ASSUME i <= j - 1 PROVE FALSE
    OBVIOUS
  <2>2. p <= q
    BY <1>1, <2>1, ProductMonotonic
  <2> HIDE DEF p, q
  <2>3. p = q + r
    BY DEF p, q
  <2>4. QED
    BY <1>1, <1>2, <2>2, <2>3
<1>4. ~(j < i)
  <2>1. SUFFICES ASSUME j < i PROVE FALSE
    OBVIOUS
  <2>2. j + 1 <= i
    BY <2>1
  <2>3. (j + 1) * Channels <= p
    BY <1>1, <2>2, ProductMonotonic
  <2>4. (j + 1) * Channels = q + Channels + Channels
    BY <1>1
  <2>5. p = q + r
    OBVIOUS
  <2> HIDE DEF p, q
  <2>6. QED
    BY <1>1, <1>2, <2>3, <2>4, <2>5
<1>5. i = j
  BY <1>3, <1>4, <1>1
<1>6. p = q + r /\ p = q + Channels
  BY <1>2, <1>5
<1> HIDE DEF p, q
<1>7. QED
  BY <1>1, <1>2, <1>5, <1>6

\* A segment is whole scans and takes what is left or the most the counter holds.
LEMMA SegmentLengthIs ==
  ASSUME NEW rest \in Nat \ {0}, rest % Channels = 0
  PROVE  /\ SegmentLength(rest) \in 1 .. MaximumDmaSegmentLength
         /\ SegmentLength(rest) <= rest
         /\ SegmentLength(rest) % Channels = 0
<1>1. MaximumDmaSegmentLength \in Nat \ {0} /\ MaximumDmaSegmentLength % Channels = 0
  BY SegmentsAssumption
<1>2. CASE rest < MaximumDmaSegmentLength
  BY <1>1, <1>2 DEF SegmentLength
<1>3. CASE ~(rest < MaximumDmaSegmentLength)
  BY <1>1, <1>3 DEF SegmentLength
<1>4. QED
  BY <1>2, <1>3

-----------------------------------------------------------------------------
(* The ADC.                                                                 *)

\* The periods of a run.
LEMMA RunPeriods ==
  ASSUME NEW period \in Periods
  PROVE  /\ RunTicks \div period \in 1 .. RunTicks
         /\ \A n \in Nat : n * period <= RunTicks => n <= RunTicks \div period
<1> DEFINE d == RunTicks \div period
<1>1. RunTicks \in Nat /\ period \in 1 .. RunTicks
  BY RecordAssumption
<1>2. d \in Int /\ d * period <= RunTicks /\ RunTicks < d * period + period
  BY <1>1
<1>3. (d + 1) * period = d * period + period
  BY <1>1, <1>2
<1>4. ASSUME NEW n \in Int, n * period <= RunTicks
      PROVE  n <= d
  <2>1. SUFFICES ASSUME d + 1 <= n PROVE FALSE
    BY <1>2
  <2>2. (d + 1) * period <= n * period
    BY <1>1, <1>2, <2>1, ProductMonotonic
  <2> DEFINE p == d * period
             q == n * period
  <2>3. p \in Int /\ q \in Int
    BY <1>1, <1>2
  <2>4. p + period <= q /\ q <= RunTicks /\ RunTicks < p + period
    BY <1>2, <1>3, <1>4, <2>2
  <2> HIDE DEF p, q
  <2>5. QED
    BY <1>1, <2>3, <2>4
<1>5. 1 <= d
  BY <1>1, <1>4
<1>6. d <= RunTicks
  <2>1. SUFFICES ASSUME RunTicks + 1 <= d PROVE FALSE
    BY <1>1, <1>2
  <2>2. d * 1 <= d * period
    <3>1. 1 * d <= period * d
      BY <1>1, <1>2, <1>5, ProductMonotonic
    <3>2. QED
      BY <3>1, <1>1, <1>2
  <2>3. QED
    BY <1>1, <1>2, <2>1, <2>2
<1>7. QED
  BY <1>2, <1>4, <1>5, <1>6

\* A scan is triggered at the end of a period no scan was triggered at.
LEMMA NextPeriod ==
  ASSUME NEW period \in Periods, NEW n \in Nat, NEW passed \in Nat,
         n * period <= passed, (passed + 1) % period = 0
  PROVE  (n + 1) * period <= passed + 1
<1> DEFINE k == (passed + 1) \div period
<1>1. period \in Nat \ {0}
  BY RecordAssumption
<1>2. k \in Int /\ k * period = passed + 1
  BY <1>1
<1>3. ~(k <= n)
  <2>1. SUFFICES ASSUME k <= n PROVE FALSE
    OBVIOUS
  <2>2. k * period <= n * period
    BY <1>1, <1>2, <2>1, ProductMonotonic
  <2> DEFINE q == n * period
  <2>3. q \in Int /\ passed + 1 <= q /\ q <= passed
    BY <1>1, <1>2, <2>2
  <2> HIDE DEF q
  <2>4. QED
    BY <2>3
<1>4. n + 1 <= k
  BY <1>2, <1>3
<1>5. (n + 1) * period <= k * period
  BY <1>1, <1>2, <1>4, ProductMonotonic
<1>6. QED
  BY <1>2, <1>5

\* The scans of a run are counted by the values it is started for.
LEMMA ScansAreFew ==
  ASSUME TimeInv, AdcInv, Sampling
  PROVE  scan <= RunTicks \div samplingPeriod /\ scan <= RunTicks
<1>1. scan \in Nat /\ scan * samplingPeriod <= now - started /\ now - started <= RunTicks
      /\ now - started \in Int /\ samplingPeriod \in Periods /\ samplingPeriod \in Nat
      /\ RunTicks \in Nat
  BY RecordAssumption DEF TimeInv, AdcInv, AdcTypes, ScanInv, Sampling, RunPoints
<1>2. scan * samplingPeriod <= RunTicks
  <2> DEFINE p == scan * samplingPeriod
  <2>1. p \in Int /\ p <= now - started
    BY <1>1
  <2> HIDE DEF p
  <2>2. p <= RunTicks
    BY <1>1, <2>1
  <2>3. QED
    BY <2>2 DEF p
<1>3. RunTicks \div samplingPeriod \in 1 .. RunTicks
      /\ scan <= RunTicks \div samplingPeriod
  BY <1>1, <1>2, RunPeriods
<1>4. QED
  BY <1>1, <1>3

\* A step that leaves the conversions alone.
LEMMA AdcRestStep ==
  ASSUME AdcInv, TimeInv,
         UNCHANGED <<adcOwned, sequenceValueCount, completedValueCount, activeSegmentLength,
                     sequenceEvent, dma, counter, transferComplete, converting, scan, run>>,
         Sampling' = Sampling, triggering' = (pc' = "running"),
         Sampling => UNCHANGED <<samplingPeriod, started, now>>,
         failed' = failed \/ (failed' \in BOOLEAN /\ ~Sampling)
  PROVE  AdcInv'
<1>1. AdcTypes'
  BY DEF AdcInv, AdcTypes
<1>2. WholeSegments'
  BY DEF AdcInv, WholeSegments
<1>3. AdcRests'
  BY DEF AdcInv, AdcRests
<1>4. ScanInv'
  BY DEF AdcInv, ScanInv
<1>5. SegmentInv'
  BY DEF AdcInv, SegmentInv, Position, Conversions
<1>6. QED
  BY <1>1, <1>2, <1>3, <1>4, <1>5 DEF AdcInv

\* The run takes the ADC.
LEMMA StartSamplingAdc ==
  ASSUME TimeInv, AdcInv, StartSampling
  PROVE  AdcInv'
<1> DEFINE values == (RunTicks \div samplingPeriod) * Channels
<1>1. /\ pc = "starting" /\ pc' = "running" /\ ~Sampling /\ Sampling'
      /\ dma = "READY" /\ converting = 0 /\ converting' = 0
  BY DEF StartSampling, startDma, AdcInv, AdcRests, Sampling, SamplingPoints
<1>2. /\ adcOwned' = TRUE /\ sequenceEvent' = "None" /\ sequenceValueCount' = values
      /\ completedValueCount' = 0 /\ dma' = "BUSY" /\ counter' = SegmentLength(values)
      /\ transferComplete' = FALSE /\ activeSegmentLength' = SegmentLength(values)
      /\ triggering' = TRUE /\ scan' = 0 /\ run' = run + 1
      /\ UNCHANGED <<samplingPeriod, failed, now>> /\ started' = now
  BY DEF StartSampling, startDma, OpenSegment, captureVars
<1>3. values \in 1 .. ValueCount /\ values % Channels = 0
  <2> DEFINE d == RunTicks \div samplingPeriod
  <2>1. d \in 1 .. RunTicks /\ RunTicks \in Nat
    BY RunPeriods, RecordAssumption DEF TimeInv
  <2> HIDE DEF d
  <2>2. Channels \in Nat /\ Channels >= 2 /\ ValueCount = RunTicks * Channels
    BY RecordAssumption, SegmentsAssumption
  <2>3. 1 * Channels <= d * Channels /\ d * Channels <= RunTicks * Channels
    BY <2>1, <2>2, ProductMonotonic
  <2>4. (d * Channels) % Channels = 0 /\ d * Channels \in Int
    BY <2>1, <2>2, Whole
  <2>5. d * Channels \in 1 .. ValueCount
    <3> DEFINE p == d * Channels
    <3>1. p \in Int /\ Channels <= p /\ p <= ValueCount
      BY <2>2, <2>3, <2>4
    <3> HIDE DEF p
    <3>2. ValueCount \in Nat
      BY SegmentsAssumption
    <3>3. p \in 1 .. ValueCount
      BY <2>2, <3>1, <3>2
    <3>4. QED
      BY <3>3 DEF p
  <2>6. QED
    BY <2>4, <2>5 DEF d
<1> HIDE DEF values
<1> DEFINE len == SegmentLength(values)
<1>4. len \in 1 .. MaximumDmaSegmentLength /\ len <= values /\ len % Channels = 0
  <2>1. values \in Nat \ {0}
    BY <1>3
  <2>2. QED
    BY <1>3, <2>1, SegmentLengthIs
<1> HIDE DEF len
<1>5. Channels \in Nat \ {0} /\ ValueCount \in Nat /\ MaximumDmaSegmentLength \in Nat
  BY SegmentsAssumption
<1>6. AdcTypes'
  <2>1. counter' = len /\ activeSegmentLength' = len
    BY <1>2 DEF len
  <2>2. len \in 0 .. MaximumDmaSegmentLength /\ values \in 0 .. ValueCount /\ 0 \in 0 .. values
    BY <1>3, <1>4, <1>5
  <2>3. run' \in Nat /\ converting' \in 0 .. Channels /\ failed' \in BOOLEAN
    BY <1>1, <1>2 DEF AdcInv, AdcTypes
  <2>4. QED
    BY <1>2, <2>1, <2>2, <2>3 DEF AdcTypes
<1>7. WholeSegments'
  BY <1>2, <1>3, <1>4, <1>5 DEF WholeSegments, len
<1>8. AdcRests'
  BY <1>1, <1>2 DEF AdcRests
<1>9. ScanInv'
  <2>1. samplingPeriod \in Nat /\ now \in Nat /\ 0 * samplingPeriod = 0
    BY RecordAssumption DEF TimeInv
  <2>2. QED
    BY <1>1, <1>2, <2>1 DEF ScanInv, values
<1>10. SegmentInv'
  <2>1. Position' = 0
    BY <1>2, <1>4 DEF Position, len
  <2>2. Conversions' = 0
    BY <1>1, <1>2, <1>5 DEF Conversions
  <2>3. counter' = len /\ activeSegmentLength' = len
    BY <1>2 DEF len
  <2>4. QED
    <3>1. len >= 1 /\ len <= len /\ 0 + len <= values /\ (counter' = 0) = FALSE
      BY <1>3, <1>4, <2>3
    <3>2. QED
      BY <1>1, <1>2, <2>1, <2>2, <2>3, <3>1 DEF SegmentInv
<1>11. QED
  BY <1>6, <1>7, <1>8, <1>9, <1>10 DEF AdcInv

\* A conversion in a run goes to the open segment.
LEMMA ConvertAdc ==
  ASSUME TimeInv, AdcInv, AdcConverts
  PROVE  AdcInv'
<1> DEFINE before == (scan - 1) * Channels
<1>1. /\ converting > 0 /\ converting' = (converting + 1) % (Channels + 1)
      /\ UNCHANGED <<adcOwned, sequenceValueCount, completedValueCount, activeSegmentLength,
                     sequenceEvent, dma, triggering, scan, run, now, started, pc,
                     samplingPeriod, failed>>
  BY DEF AdcConverts, Convert, captureVars, recordVars
<1>2. /\ converting \in 1 .. Channels /\ scan \in Nat /\ scan >= 1
      /\ Channels \in Nat \ {0} /\ scan - 1 \in Nat
      /\ completedValueCount \in Nat /\ activeSegmentLength \in Nat /\ counter \in Nat
      /\ transferComplete \in BOOLEAN
  BY <1>1, SegmentsAssumption DEF AdcInv, AdcTypes, ScanInv
<1>3. Sampling /\ Sampling'
  BY <1>1, <1>2 DEF AdcInv, AdcRests, Sampling
<1>4. ~transferComplete
  BY <1>2 DEF AdcInv, SegmentInv
<1>5. converting' = IF converting = Channels THEN 0 ELSE converting + 1
  <2>1. CASE converting = Channels
    BY <1>1, <1>2, <2>1
  <2>2. CASE converting # Channels
    <3>1. converting + 1 \in 0 .. Channels
      BY <1>2, <2>2
    <3>2. (converting + 1) % (Channels + 1) = converting + 1
      BY <1>2, <3>1
    <3>3. QED
      BY <1>1, <2>2, <3>2
  <2>3. QED
    BY <2>1, <2>2
<1>6. before \in Nat /\ scan * Channels = before + Channels
  BY <1>2
<1> HIDE DEF before
<1>7. Conversions = before + converting - 1 /\ Conversions' = before + converting
  <2>1. Conversions = before + converting - 1
    BY <1>2 DEF Conversions, before
  <2>2. CASE converting = Channels
    BY <1>1, <1>2, <1>5, <1>6, <2>2 DEF Conversions
  <2>3. CASE converting # Channels
    <3>1. converting' # 0 /\ scan' = scan /\ converting' = converting + 1
      BY <1>1, <1>2, <1>5, <2>3
    <3>2. Conversions' = before + (converting + 1) - 1
      BY <3>1 DEF Conversions, before
    <3>3. QED
      BY <1>2, <1>6, <2>1, <3>2
  <2>4. QED
    BY <2>1, <2>2, <2>3
<1>8. dma = "BUSY" => counter > 0
  <2>1. dma = "BUSY" => transferComplete = (counter = 0)
    BY DEF AdcInv, SegmentInv
  <2>2. dma = "BUSY" => counter # 0
    BY <1>4, <2>1
  <2>3. QED
    BY <1>2, <2>2
<1>9. /\ dma = "BUSY" => counter' = counter - 1 /\ transferComplete' = (counter = 1)
      /\ dma # "BUSY" => UNCHANGED <<counter, transferComplete>>
  BY <1>8 DEF AdcConverts, Convert
<1>10. AdcTypes'
  <2>1. converting' \in 0 .. Channels
    BY <1>2, <1>5
  <2>2. counter' \in 0 .. MaximumDmaSegmentLength /\ transferComplete' \in BOOLEAN
    <3>1. counter \in 0 .. MaximumDmaSegmentLength /\ MaximumDmaSegmentLength \in Nat
      BY SegmentsAssumption DEF AdcInv, AdcTypes
    <3>2. CASE dma = "BUSY"
      BY <1>8, <1>9, <3>1, <3>2
    <3>3. CASE dma # "BUSY"
      BY <1>2, <1>9, <3>1, <3>3
    <3>4. QED
      BY <3>2, <3>3
  <2>3. QED
    BY <1>1, <2>1, <2>2 DEF AdcInv, AdcTypes
<1>11. WholeSegments'
  BY <1>1 DEF AdcInv, WholeSegments
<1>12. AdcRests'
  BY <1>1, <1>3 DEF AdcInv, AdcRests, Sampling
<1>13. ScanInv'
  BY <1>1, <1>2, <1>3 DEF AdcInv, ScanInv
<1>14. SegmentInv'
  <2>1. CASE dma = "BUSY"
    <3>1. /\ activeSegmentLength >= 1 /\ counter <= activeSegmentLength
          /\ completedValueCount + activeSegmentLength <= sequenceValueCount
          /\ Position = Conversions
      BY <2>1 DEF AdcInv, SegmentInv
    <3>2. counter' = counter - 1 /\ transferComplete' = (counter = 1) /\ counter > 0
      BY <1>8, <1>9, <2>1
    <3>3. Position' = Position + 1
      BY <1>1, <1>2, <3>2 DEF Position
    <3>4. Position' = Conversions'
      BY <1>2, <1>6, <1>7, <3>1, <3>3
    <3>5. ASSUME transferComplete'
          PROVE  converting' = 0
      <4>1. counter = 1
        BY <3>2, <3>5
      <4>2. completedValueCount + activeSegmentLength = before + converting
        BY <1>1, <1>2, <1>7, <3>2, <3>4, <4>1 DEF Position
      <4>3. (completedValueCount + activeSegmentLength) % Channels = 0
        <5>1. completedValueCount \in Int /\ activeSegmentLength \in Int
              /\ completedValueCount % Channels = 0 /\ activeSegmentLength % Channels = 0
          BY <1>2 DEF AdcInv, WholeSegments
        <5>2. QED
          BY <5>1, WholeSum
      <4>4. PICK i \in Int : completedValueCount + activeSegmentLength = i * Channels
        <5>1. completedValueCount + activeSegmentLength \in Int
          BY <1>2
        <5>2. QED
          BY <4>3, <5>1, Whole
      <4>5. i * Channels = (scan - 1) * Channels + converting
        BY <4>2, <4>4 DEF before
      <4>6. converting = Channels
        BY <1>2, <4>5, ScanEnds
      <4>7. QED
        BY <1>5, <4>6
    <3>6. transferComplete' = (counter' = 0) /\ counter' <= activeSegmentLength'
      BY <1>1, <1>2, <3>1, <3>2
    <3>7. QED
      BY <1>1, <2>1, <3>1, <3>4, <3>5, <3>6 DEF SegmentInv
  <2>2. CASE dma # "BUSY"
    <3>1. dma = "READY" /\ UNCHANGED <<counter, transferComplete, dma>>
      BY <1>1, <1>9, <2>2 DEF AdcInv, AdcTypes
    <3>2. QED
      BY <1>1, <1>3, <1>4, <3>1 DEF AdcInv, SegmentInv
  <2>3. QED
    BY <2>1, <2>2
<1>15. QED
  BY <1>10, <1>11, <1>12, <1>13, <1>14 DEF AdcInv

\* The interrupt opens the next segment where the last one ended.
LEMMA SegmentEndsAdc ==
  ASSUME TimeInv, AdcInv, SegmentEnds
  PROVE  AdcInv'
<1> DEFINE done == completedValueCount + activeSegmentLength
<1>1. /\ transferComplete /\ completedValueCount' = done
      /\ UNCHANGED <<adcOwned, sequenceValueCount, triggering, converting, scan, run, now,
                     started, pc, samplingPeriod, failed>>
  BY DEF SegmentEnds, onSequenceCompleteFromIsr, captureVars, recordVars
<1>2. /\ completedValueCount \in Nat /\ activeSegmentLength \in Nat /\ counter \in Nat
      /\ sequenceValueCount \in Nat /\ ValueCount \in Nat /\ sequenceValueCount <= ValueCount
      /\ MaximumDmaSegmentLength \in Nat /\ counter <= MaximumDmaSegmentLength
      /\ activeSegmentLength <= MaximumDmaSegmentLength
  BY SegmentsAssumption DEF AdcInv, AdcTypes
<1>3. dma = "BUSY" /\ converting = 0 /\ counter = 0
  <2>1. dma = "BUSY" /\ converting = 0
    BY <1>1 DEF AdcInv, AdcTypes, SegmentInv
  <2>2. transferComplete = (counter = 0)
    BY <2>1 DEF AdcInv, SegmentInv
  <2>3. QED
    BY <1>1, <2>1, <2>2
<1>4. done <= sequenceValueCount /\ Position = Conversions /\ done = Position
  BY <1>2, <1>3 DEF AdcInv, SegmentInv, Position
<1>5. Sampling /\ Sampling'
  BY <1>1, <1>3 DEF AdcInv, AdcRests, Sampling
<1>6. done \in Nat /\ done % Channels = 0
  <2>1. completedValueCount \in Int /\ activeSegmentLength \in Int
        /\ completedValueCount % Channels = 0 /\ activeSegmentLength % Channels = 0
    BY <1>2 DEF AdcInv, WholeSegments
  <2>2. QED
    BY <1>2, <2>1, WholeSum
<1>7. Conversions' = Conversions
  BY <1>1 DEF Conversions
<1> HIDE DEF done
<1>8. AdcRests' /\ ScanInv'
  BY <1>1, <1>3, <1>5 DEF AdcInv, AdcRests, ScanInv, Sampling
<1>9. CASE done < sequenceValueCount
  <2> DEFINE rest == sequenceValueCount - done
             len == SegmentLength(rest)
  <2>1. /\ dma' = "BUSY" /\ counter' = len /\ transferComplete' = FALSE
        /\ activeSegmentLength' = len /\ sequenceEvent' = sequenceEvent
    BY <1>1, <1>9 DEF SegmentEnds, onSequenceCompleteFromIsr, OpenSegment
  <2>2. rest \in Nat \ {0} /\ rest % Channels = 0
    <3>1. sequenceValueCount % Channels = 0
      BY DEF AdcInv, WholeSegments
    <3>2. sequenceValueCount \in Int /\ done \in Int
      BY <1>2, <1>6
    <3>3. rest % Channels = 0
      BY <1>6, <3>1, <3>2, WholeSum
    <3>4. QED
      BY <1>2, <1>6, <1>9, <3>3
  <2> HIDE DEF rest
  <2>3. len \in 1 .. MaximumDmaSegmentLength /\ len <= rest /\ len % Channels = 0
    BY <2>2, SegmentLengthIs
  <2> HIDE DEF len
  <2>4. AdcTypes'
    <3>1. /\ completedValueCount' \in 0 .. sequenceValueCount
          /\ activeSegmentLength' \in 0 .. MaximumDmaSegmentLength
          /\ counter' \in 0 .. MaximumDmaSegmentLength
      BY <1>1, <1>2, <1>6, <1>9, <2>1, <2>3
    <3>2. QED
      BY <1>1, <2>1, <3>1 DEF AdcInv, AdcTypes
  <2>5. WholeSegments'
    BY <1>1, <1>6, <2>1, <2>3 DEF AdcInv, WholeSegments
  <2>6. SegmentInv'
    <3>1. Position' = done
      BY <1>1, <1>2, <1>6, <2>1, <2>3 DEF Position
    <3>2. Position' = Conversions'
      BY <1>4, <1>7, <3>1
    <3>3. /\ activeSegmentLength' >= 1 /\ counter' <= activeSegmentLength'
          /\ completedValueCount' + activeSegmentLength' <= sequenceValueCount'
          /\ (counter' = 0) = FALSE
      BY <1>1, <1>2, <1>6, <2>1, <2>3 DEF rest
    <3>4. QED
      BY <2>1, <3>2, <3>3 DEF SegmentInv
  <2>7. QED
    BY <1>8, <2>4, <2>5, <2>6 DEF AdcInv
<1>10. CASE ~(done < sequenceValueCount)
  <2>1. /\ dma' = "READY" /\ transferComplete' = FALSE /\ sequenceEvent' = "Complete"
        /\ UNCHANGED <<counter, activeSegmentLength>>
    BY <1>1, <1>10 DEF SegmentEnds, onSequenceCompleteFromIsr
  <2>2. done = sequenceValueCount
    BY <1>2, <1>4, <1>6, <1>10
  <2>3. AdcTypes'
    <3>1. completedValueCount' \in 0 .. sequenceValueCount
      BY <1>1, <1>2, <2>2
    <3>2. QED
      BY <1>1, <2>1, <3>1 DEF AdcInv, AdcTypes
  <2>4. WholeSegments'
    BY <1>1, <1>6, <2>1 DEF AdcInv, WholeSegments
  <2>5. SegmentInv'
    BY <1>1, <2>1, <2>2 DEF SegmentInv
  <2>6. QED
    BY <1>8, <2>3, <2>4, <2>5 DEF AdcInv
<1>11. QED
  BY <1>9, <1>10

\* A transfer error closes the segment and is recorded.
LEMMA AdcFailsAdc ==
  ASSUME TimeInv, AdcInv, AdcFails
  PROVE  AdcInv'
<1>1. /\ dma = "BUSY" /\ ~transferComplete /\ dma' = "READY" /\ sequenceEvent' = "Error"
      /\ failed' = TRUE
      /\ UNCHANGED <<adcOwned, sequenceValueCount, completedValueCount, activeSegmentLength,
                     counter, transferComplete, triggering, converting, scan, run, now, pc,
                     samplingPeriod, started>>
  BY DEF AdcFails, onSequenceErrorFromIsr, captureVars
<1>2. Sampling /\ Sampling'
  BY <1>1 DEF AdcInv, AdcRests, Sampling
<1>3. AdcTypes'
  BY <1>1 DEF AdcInv, AdcTypes
<1>4. WholeSegments'
  BY <1>1 DEF AdcInv, WholeSegments
<1>5. AdcRests' /\ ScanInv'
  BY <1>1, <1>2 DEF AdcInv, AdcRests, ScanInv, Sampling
<1>6. SegmentInv'
  BY <1>1 DEF SegmentInv
<1>7. QED
  BY <1>3, <1>4, <1>5, <1>6 DEF AdcInv

\* The timer triggers a scan when its period is over.
LEMMA TickAdc ==
  ASSUME TimeInv, AdcInv, Tick
  PROVE  AdcInv'
<1>1. /\ now' = now + 1 /\ converting = 0 /\ ~transferComplete
      /\ UNCHANGED <<adcOwned, sequenceValueCount, completedValueCount, activeSegmentLength,
                     sequenceEvent, dma, counter, transferComplete, triggering, run, started,
                     pc, samplingPeriod, failed>>
  BY DEF Tick, Trigger, recordVars
<1>2. /\ now \in Nat /\ started \in Nat /\ started <= now /\ samplingPeriod \in Periods
      /\ samplingPeriod \in Nat \ {0} /\ scan \in Nat /\ Channels \in Nat \ {0}
  BY RecordAssumption, SegmentsAssumption DEF TimeInv, AdcInv, AdcTypes
<1>3. Sampling' = Sampling
  BY <1>1 DEF Sampling
<1>4. CASE triggering /\ (now' - started) % samplingPeriod = 0
  <2>1. converting' = 1 /\ scan' = scan + 1
    BY <1>4 DEF Tick, Trigger
  <2>2. Sampling
    BY <1>4 DEF AdcInv, AdcRests, Sampling, SamplingPoints
  <2>3. scan' * samplingPeriod <= now' - started
    <3> DEFINE passed == now - started
    <3>1. passed \in Nat /\ now' - started = passed + 1
      BY <1>1, <1>2
    <3>2. scan * samplingPeriod <= passed
      BY <2>2 DEF AdcInv, ScanInv
    <3>3. (passed + 1) % samplingPeriod = 0
      BY <1>4, <3>1
    <3> HIDE DEF passed
    <3>4. (scan + 1) * samplingPeriod <= passed + 1
      BY <1>2, <3>1, <3>2, <3>3, NextPeriod
    <3>5. QED
      BY <2>1, <3>1, <3>4
  <2>4. Conversions' = Conversions
    <3>1. Conversions = scan * Channels
      BY <1>1 DEF Conversions
    <3>2. Conversions' = (scan' - 1) * Channels + converting' - 1
      BY <1>1, <2>1 DEF Conversions
    <3>3. scan' - 1 = scan /\ scan * Channels \in Int
      BY <1>2, <2>1
    <3>4. QED
      BY <2>1, <3>1, <3>2, <3>3
  <2>5. AdcTypes'
    BY <1>1, <1>2, <2>1 DEF AdcInv, AdcTypes
  <2>6. WholeSegments' /\ AdcRests'
    BY <1>1, <1>3, <2>2 DEF AdcInv, WholeSegments, AdcRests
  <2>7. ScanInv'
    <3>1. sequenceValueCount' = (RunTicks \div samplingPeriod') * Channels
      BY <1>1, <2>2 DEF AdcInv, ScanInv
    <3>2. scan' >= 1 /\ scan' * samplingPeriod' <= now' - started'
      BY <1>1, <1>2, <2>1, <2>3
    <3>3. QED
      BY <3>1, <3>2 DEF ScanInv
  <2>8. SegmentInv'
    <3>1. Position' = Position
      BY <1>1 DEF Position
    <3>2. QED
      BY <1>1, <1>3, <2>4, <3>1 DEF AdcInv, SegmentInv
  <2>9. QED
    BY <2>5, <2>6, <2>7, <2>8 DEF AdcInv
<1>5. CASE ~(triggering /\ (now' - started) % samplingPeriod = 0)
  <2>1. UNCHANGED <<converting, scan>>
    BY <1>5 DEF Tick, Trigger
  <2>2. AdcTypes' /\ WholeSegments' /\ AdcRests'
    BY <1>1, <1>3, <2>1 DEF AdcInv, AdcTypes, WholeSegments, AdcRests
  <2>3. ScanInv'
    <3> DEFINE p == scan * samplingPeriod
    <3>1. p \in Nat /\ p' = p
      BY <1>1, <1>2, <2>1
    <3>2. Sampling => p <= now - started
      BY DEF AdcInv, ScanInv
    <3>3. Sampling => sequenceValueCount' = (RunTicks \div samplingPeriod') * Channels
      BY <1>1 DEF AdcInv, ScanInv
    <3>4. Sampling => p <= now' - started'
      <4> HIDE DEF p
      <4>1. QED
        BY <1>1, <1>2, <3>1, <3>2
    <3>5. converting' > 0 => scan' >= 1
      BY <1>1, <2>1
    <3>6. p = scan' * samplingPeriod'
      BY <1>1, <2>1
    <3> HIDE DEF p
    <3>7. QED
      BY <1>3, <3>3, <3>4, <3>5, <3>6 DEF ScanInv
  <2>4. SegmentInv'
    BY <1>1, <1>3, <2>1 DEF AdcInv, SegmentInv, Position, Conversions
  <2>5. QED
    BY <2>2, <2>3, <2>4 DEF AdcInv
<1>6. QED
  BY <1>4, <1>5

\* The run gives the ADC back.
LEMMA StopAdcAdc ==
  ASSUME TimeInv, AdcInv, StopAdc
  PROVE  AdcInv'
<1>1. /\ pc' = "publish" /\ pc = "stop"
      /\ adcOwned' = FALSE /\ sequenceEvent' = "None" /\ dma' = "READY"
      /\ transferComplete' = FALSE /\ converting' = 0
      /\ UNCHANGED <<sequenceValueCount, completedValueCount, activeSegmentLength, counter,
                     triggering, scan, run, failed>>
  BY DEF StopAdc, stopDma
<1>2. ~Sampling'
  BY <1>1 DEF Sampling, SamplingPoints
<1>3. AdcTypes'
  <2>1. converting' \in 0 .. Channels
    BY <1>1, SegmentsAssumption
  <2>2. QED
    BY <1>1, <2>1 DEF AdcInv, AdcTypes
<1>4. WholeSegments' /\ AdcRests' /\ ScanInv'
  <2>1. WholeSegments'
    BY <1>1 DEF AdcInv, WholeSegments
  <2>2. AdcRests'
    <3>1. triggering = FALSE
      BY <1>1 DEF AdcInv, AdcRests
    <3>2. triggering' = FALSE /\ (pc' = "running") = FALSE
      BY <1>1, <3>1
    <3>3. (pc' \in SamplingPoints) = FALSE
      BY <1>1 DEF SamplingPoints
    <3>4. QED
      BY <1>1, <3>2, <3>3, Zenon DEF AdcRests, Sampling
  <2>3. ScanInv'
    BY <1>1, <1>2 DEF ScanInv
  <2>4. QED
    BY <2>1, <2>2, <2>3
<1>5. SegmentInv'
  BY <1>1, <1>2 DEF SegmentInv
<1>6. QED
  BY <1>3, <1>4, <1>5 DEF AdcInv

\* Outside segments, errors and stops every value converted is taken, in whole scans.
LEMMA AdcStep ==
  ASSUME TimeInv, AdcInv, [Next]_vars
  PROVE  AdcInv'
<1> USE DEF Sampling, SamplingPoints, adcVars
<1>1. CASE SetSamplingRate
  <2>1. pc \in {"idle", "sending"} /\ pc' = pc /\ UNCHANGED <<adcVars, failed, now>>
    BY <1>1 DEF SetSamplingRate, captureVars
  <2>2. ~Sampling /\ ~Sampling' /\ triggering' = (pc' = "running")
    BY <2>1 DEF AdcInv, AdcRests
  <2>3. QED
    BY <2>1, <2>2, AdcRestStep
<1>2. CASE StartRun
  <2>1. pc = "idle" /\ pc' = "starting" /\ UNCHANGED adcVars /\ failed' = FALSE
    BY <1>2 DEF StartRun
  <2>2. ~Sampling /\ ~Sampling' /\ triggering' = (pc' = "running")
    BY <2>1 DEF AdcInv, AdcRests
  <2>3. failed' \in BOOLEAN
    BY <2>1
  <2>4. QED
    BY <2>1, <2>2, <2>3, AdcRestStep
<1>3. CASE StartSampling
  BY <1>3, StartSamplingAdc
<1>4. CASE FinishRun
  <2>1. /\ pc = "running" /\ pc' = "endCapture" /\ triggering' = FALSE
        /\ UNCHANGED <<adcOwned, sequenceValueCount, completedValueCount, activeSegmentLength,
                       sequenceEvent, dma, counter, transferComplete, converting, scan, run,
                       failed, samplingPeriod, started, now>>
    BY <1>4 DEF FinishRun, stopTimers, captureVars
  <2>2. Sampling /\ Sampling' /\ triggering' = (pc' = "running")
    BY <2>1
  <2>3. QED
    BY <2>1, <2>2, AdcRestStep
<1>5. CASE EndCapture
  <2>1. /\ pc = "endCapture" /\ pc' = "count"
        /\ UNCHANGED <<adcVars, failed, samplingPeriod, started, now>>
    BY <1>5 DEF EndCapture, endLaunchCapture
  <2>2. QED
    BY <2>1, AdcRestStep DEF AdcInv, AdcRests
<1>6. CASE CountValues
  <2>1. /\ pc = "count" /\ pc' = "stop"
        /\ UNCHANGED <<adcVars, failed, samplingPeriod, started, now>>
    BY <1>6 DEF CountValues, captureVars
  <2>2. QED
    BY <2>1, AdcRestStep DEF AdcInv, AdcRests
<1>7. CASE StopAdc
  BY <1>7, StopAdcAdc
<1>8. CASE Publish
  <2>1. /\ pc = "publish" /\ pc' \in {"sending", "idle"}
        /\ UNCHANGED <<adcOwned, sequenceValueCount, completedValueCount, activeSegmentLength,
                       sequenceEvent, dma, counter, transferComplete, triggering, converting,
                       scan, run, failed>>
    BY <1>8 DEF Publish
  <2>2. QED
    BY <2>1, AdcRestStep DEF AdcInv, AdcRests
<1>9. CASE SendData
  <2>1. pc = "sending" /\ pc' = pc /\ UNCHANGED <<adcVars, failed>>
    BY <1>9 DEF SendData
  <2>2. QED
    BY <2>1, AdcRestStep DEF AdcInv, AdcRests
<1>10. CASE SendFinal
  <2>1. pc = "sending" /\ pc' = "idle" /\ UNCHANGED <<adcVars, failed>>
    BY <1>10 DEF SendFinal
  <2>2. QED
    BY <2>1, AdcRestStep DEF AdcInv, AdcRests
<1>11. CASE \E line \in Lines : SensorEdge(line)
  <2>1. UNCHANGED <<adcVars, failed, pc, samplingPeriod, started, now>>
    BY <1>11 DEF SensorEdge, handleSensorInterrupt, recordVars
  <2>2. QED
    BY <2>1, AdcRestStep DEF AdcInv, AdcRests
<1>12. CASE AdcConverts
  BY <1>12, ConvertAdc
<1>13. CASE SegmentEnds
  BY <1>13, SegmentEndsAdc
<1>14. CASE AdcFails
  BY <1>14, AdcFailsAdc
<1>15. CASE Tick
  BY <1>15, TickAdc
<1>16. CASE UNCHANGED vars
  <2>1. UNCHANGED <<adcVars, failed, pc, samplingPeriod, started, now>>
    BY <1>16 DEF vars, captureVars, recordVars
  <2>2. QED
    BY <2>1, AdcRestStep DEF AdcInv, AdcRests
<1>17. QED
  BY <1>1, <1>2, <1>3, <1>4, <1>5, <1>6, <1>7, <1>8, <1>9, <1>10, <1>11, <1>12, <1>13,
     <1>14, <1>15, <1>16 DEF Next

\* AdcInv holds throughout.
LEMMA AdcAlways == Spec => []AdcInv
<1>1. Init => AdcInv
  <2>1. /\ 0 % Channels = 0 /\ 0 \in 0 .. Channels
        /\ 0 \in 0 .. ValueCount /\ 0 \in 0 .. MaximumDmaSegmentLength
    <3>1. 0 * Channels = 0
      BY SegmentsAssumption
    <3>2. (0 * Channels) % Channels = 0
      BY Whole
    <3>3. QED
      BY <3>1, <3>2, SegmentsAssumption
  <2> SUFFICES ASSUME Init PROVE AdcInv
    OBVIOUS
  <2>3. AdcTypes
    <3>1. /\ adcOwned = FALSE /\ triggering = FALSE /\ transferComplete = FALSE
          /\ failed = FALSE /\ sequenceEvent = "None" /\ dma = "READY"
          /\ sequenceValueCount = 0 /\ completedValueCount = 0 /\ activeSegmentLength = 0
          /\ counter = 0 /\ converting = 0 /\ scan = 0 /\ run = 0
      BY DEF Init, AdcInit
    <3>2. 0 \in 0 .. 0 /\ 0 \in Nat
      OBVIOUS
    <3>3. QED
      BY <2>1, <3>1, <3>2 DEF AdcTypes
  <2>4. WholeSegments
    BY <2>1 DEF Init, AdcInit, WholeSegments
  <2>5. ~Sampling /\ pc = "idle" /\ Sampling = FALSE
    BY DEF Init, Sampling, SamplingPoints
  <2>6. AdcRests
    BY <2>5 DEF Init, AdcInit, AdcRests
  <2>7. ScanInv /\ SegmentInv
    BY <2>5 DEF Init, AdcInit, ScanInv, SegmentInv
  <2>8. QED
    BY <2>3, <2>4, <2>6, <2>7 DEF AdcInv
<1>2. QED
  BY <1>1, AdcStep, TimeAlways, PTL DEF Spec

-----------------------------------------------------------------------------
(* What is counted.                                                         *)

\* Types of what the ADC has done, and the values of the scans that are over.
LEMMA Conversion ==
  ASSUME AdcInv
  PROVE  /\ WholeScans \in Nat /\ WholeScans <= scan
         /\ Conversions \in Nat /\ WholeScans * Channels <= Conversions
         /\ Position \in Int
         /\ dma = "BUSY" => /\ Position \in 0 .. sequenceValueCount
                            /\ completedValueCount < sequenceValueCount
                            /\ counter > 0 => Position < sequenceValueCount
<1>1. /\ converting \in 0 .. Channels /\ scan \in Nat /\ Channels \in Nat \ {0}
      /\ converting > 0 => scan >= 1
      /\ completedValueCount \in Nat /\ activeSegmentLength \in Nat /\ counter \in Nat
      /\ sequenceValueCount \in Nat
  BY SegmentsAssumption DEF AdcInv, AdcTypes, ScanInv
<1>2. WholeScans \in Nat /\ WholeScans <= scan
  BY <1>1 DEF WholeScans
<1>3. Conversions \in Nat /\ WholeScans * Channels <= Conversions
  <2>1. CASE converting = 0
    BY <1>1, <2>1 DEF WholeScans, Conversions
  <2>2. CASE converting # 0
    <3> DEFINE p == (scan - 1) * Channels
    <3>1. p \in Nat
      BY <1>1, <2>2
    <3>2. WholeScans * Channels = p /\ Conversions = p + converting - 1
      BY <2>2 DEF WholeScans, Conversions
    <3> HIDE DEF p
    <3>3. QED
      BY <1>1, <2>2, <3>1, <3>2
  <2>3. QED
    BY <2>1, <2>2
<1>4. Position \in Int
  BY <1>1 DEF Position
<1>5. ASSUME dma = "BUSY"
      PROVE  /\ Position \in 0 .. sequenceValueCount
             /\ completedValueCount < sequenceValueCount
             /\ counter > 0 => Position < sequenceValueCount
  <2>1. /\ activeSegmentLength >= 1 /\ counter <= activeSegmentLength
        /\ completedValueCount + activeSegmentLength <= sequenceValueCount
    BY <1>5 DEF AdcInv, SegmentInv
  <2>2. QED
    BY <1>1, <2>1 DEF Position
<1>6. QED
  BY <1>2, <1>3, <1>4, <1>5

\* What is counted in a run is what was taken.
LEMMA TransferredIsTaken ==
  ASSUME AdcInv, Sampling
  PROVE  transferredValueCount = Taken /\ Taken \in 0 .. sequenceValueCount
<1>1. adcOwned = TRUE
  BY DEF AdcInv, AdcRests
<1>2. completedValueCount \in 0 .. sequenceValueCount
  BY DEF AdcInv, AdcTypes
<1>3. CASE dma = "BUSY"
  BY <1>1, <1>3, Conversion DEF transferredValueCount, Taken, Position
<1>4. CASE dma # "BUSY"
  BY <1>2, <1>4 DEF transferredValueCount, Taken
<1>5. QED
  BY <1>3, <1>4

\* A step that counts nothing, whatever it converts.
LEMMA CountRestStep ==
  ASSUME AdcInv, AdcInv', CountInv, UNCHANGED <<valueCount, scansDone>>,
         pc' \in {"endCapture", "count"} =>
           pc \in {"endCapture", "count"} /\ WholeScans <= WholeScans',
         pc' \in {"stop", "publish"} => pc \in {"stop", "publish"} /\ (failed => failed'),
         pc' = "stop" /\ dma' = "BUSY" => pc = "stop" /\ dma = "BUSY" /\ Position <= Position'
  PROVE  CountInv'
<1>1. /\ valueCount \in Nat /\ scansDone \in Nat /\ WholeScans \in Nat /\ Position \in Int
  BY Conversion, SegmentsAssumption, RecordAssumption DEF CountInv
<1>2. WholeScans' \in Nat /\ Position' \in Int
  <2>1. /\ converting' \in 0 .. Channels /\ scan' \in Nat /\ Channels \in Nat
        /\ converting' > 0 => scan' >= 1
        /\ completedValueCount' \in Nat /\ activeSegmentLength' \in Nat /\ counter' \in Nat
    BY SegmentsAssumption DEF AdcInv, AdcTypes, ScanInv
  <2>2. WholeScans' \in Nat
    <3>1. WholeScans' = IF converting' = 0 THEN scan' ELSE scan' - 1
      BY DEF WholeScans
    <3>2. CASE converting' = 0
      BY <2>1, <3>1, <3>2
    <3>3. CASE converting' # 0
      <4>1. converting' > 0
        BY <2>1, <3>3
      <4>2. scan' - 1 \in Nat
        <5>1. scan' >= 1 /\ scan' \in Nat
          BY <2>1, <4>1
        <5>2. \A n \in Nat : n >= 1 => n - 1 \in Nat
          OBVIOUS
        <5>3. QED
          BY <5>1, <5>2
      <4>3. QED
        BY <3>1, <3>3, <4>2
    <3>4. QED
      BY <3>2, <3>3
  <2>3. Position' \in Int
    BY <2>1 DEF Position
  <2>4. QED
    BY <2>2, <2>3
<1>3. QED
  BY <1>1, <1>2 DEF CountInv

\* The scans that were complete when the timers stopped are counted, and no value is
\* counted that is not there.
LEMMA CountStep ==
  ASSUME TimeInv, AdcInv, AdcInv', CountInv, [Next]_vars
  PROVE  CountInv'
<1>0. /\ WholeScans \in Nat /\ WholeScans <= scan /\ Position \in Int /\ scan \in Nat
      /\ Channels \in Nat \ {0} /\ ValueCount \in Nat /\ RunTicks \in Nat
      /\ valueCount \in Nat /\ scansDone \in Nat
  BY Conversion, SegmentsAssumption, RecordAssumption DEF CountInv, AdcInv, AdcTypes
<1>1. CASE SetSamplingRate
  <2>1. /\ UNCHANGED <<pc, valueCount, scansDone, failed>> /\ UNCHANGED adcVars
        /\ pc \in {"idle", "sending"}
    BY <1>1 DEF SetSamplingRate
  <2>2. QED
    BY <2>1, CountRestStep
<1>2. CASE StartRun
  BY <1>0, <1>2 DEF StartRun, CountInv
<1>3. CASE StartSampling
  <2>1. UNCHANGED <<valueCount, scansDone>> /\ pc' = "running"
    BY <1>3 DEF StartSampling
  <2>2. QED
    BY <2>1, CountRestStep
<1>4. CASE FinishRun
  <2>1. /\ scansDone' = WholeScans /\ valueCount' = valueCount /\ pc' = "endCapture"
        /\ pc = "running" /\ UNCHANGED <<converting, scan>>
    BY <1>4 DEF FinishRun, stopTimers, WholeScans
  <2>2. WholeScans' = WholeScans
    BY <2>1 DEF WholeScans
  <2>3. scan <= RunTicks
    BY <2>1, ScansAreFew DEF Sampling, SamplingPoints
  <2>4. QED
    BY <1>0, <2>1, <2>2, <2>3 DEF CountInv
<1>5. CASE EndCapture
  <2>1. UNCHANGED <<valueCount, scansDone, adcVars>> /\ pc = "endCapture" /\ pc' = "count"
    BY <1>5 DEF EndCapture
  <2>2. WholeScans' = WholeScans
    BY <2>1 DEF WholeScans, adcVars
  <2>3. QED
    BY <1>0, <2>1, <2>2, CountRestStep
<1>6. CASE CountValues
  <2>1. /\ pc = "count" /\ pc' = "stop" /\ valueCount' = transferredValueCount
        /\ UNCHANGED <<scansDone, failed, adcVars>>
    BY <1>6 DEF CountValues
  <2>2. Sampling
    BY <2>1 DEF Sampling, SamplingPoints
  <2>3. valueCount' = Taken /\ Taken \in 0 .. sequenceValueCount
    BY <2>1, <2>2, TransferredIsTaken
  <2>4. valueCount' \in 0 .. ValueCount
    BY <1>0, <2>3 DEF AdcInv, AdcTypes
  <2>5. scansDone <= WholeScans
    BY <2>1 DEF CountInv
  <2>6. scansDone * Channels <= WholeScans * Channels
    BY <1>0, <2>5, ProductMonotonic
  <2>7. ~failed => scansDone * Channels <= valueCount'
    <3> DEFINE p == scansDone * Channels
    <3>1. p \in Int
      BY <1>0
    <3>2. CASE dma = "BUSY"
      <4>1. Taken = Conversions
        BY <3>2 DEF Taken, AdcInv, SegmentInv
      <4>2. WholeScans * Channels <= Conversions /\ Conversions \in Nat
        BY Conversion
      <4>3. WholeScans * Channels \in Int
        BY <1>0
      <4>4. p <= Conversions
        <5> DEFINE q == WholeScans * Channels
        <5> HIDE DEF p, q
        <5>1. QED
          BY <2>6, <3>1, <4>2, <4>3 DEF p, q
      <4>5. QED
        BY <2>3, <4>1, <4>4
    <3>3. CASE dma # "BUSY"
      <4> SUFFICES ASSUME ~failed
                   PROVE  p <= valueCount'
        OBVIOUS
      <4> DEFINE d == RunTicks \div samplingPeriod
      <4>1. Taken = sequenceValueCount /\ sequenceValueCount = d * Channels
        BY <2>2, <3>3 DEF Taken, AdcInv, AdcTypes, SegmentInv, ScanInv
      <4>2. scan <= d /\ d \in Int
        <5>1. d \in 1 .. RunTicks
          BY RunPeriods DEF TimeInv
        <5>2. QED
          BY <2>2, <5>1, <1>0, ScansAreFew
      <4> HIDE DEF d
      <4>3. scansDone <= d
        BY <1>0, <2>5, <4>2
      <4>4. scansDone * Channels <= d * Channels
        BY <1>0, <4>2, <4>3, ProductMonotonic
      <4>5. QED
        BY <2>3, <4>1, <4>4
    <3>4. QED
      BY <3>2, <3>3
  <2>8. dma' = "BUSY" => valueCount' <= Position'
    <3>1. Position' = Position /\ dma' = dma
      BY <2>1 DEF Position, adcVars
    <3>2. QED
      BY <1>0, <2>3, <3>1 DEF Taken
  <2>9. QED
    BY <2>1, <2>4, <2>7, <2>8 DEF CountInv
<1>7. CASE StopAdc
  <2>1. UNCHANGED <<valueCount, scansDone, failed>> /\ pc = "stop" /\ pc' = "publish"
    BY <1>7 DEF StopAdc
  <2>2. QED
    BY <2>1, CountRestStep
<1>8. CASE Publish
  <2>1. UNCHANGED <<valueCount, scansDone, failed>> /\ pc' \in {"sending", "idle"}
    BY <1>8 DEF Publish
  <2>2. QED
    BY <2>1, CountRestStep
<1>9. CASE SendData
  <2>1. UNCHANGED <<valueCount, scansDone, failed, pc>> /\ pc = "sending"
    BY <1>9 DEF SendData
  <2>2. QED
    BY <2>1, CountRestStep
<1>10. CASE SendFinal
  <2>1. UNCHANGED <<valueCount, scansDone, failed>> /\ pc' = "idle"
    BY <1>10 DEF SendFinal
  <2>2. QED
    BY <2>1, CountRestStep
<1>11. CASE \E line \in Lines : SensorEdge(line)
  <2>1. UNCHANGED <<valueCount, scansDone, failed, pc, adcVars>>
    BY <1>11 DEF SensorEdge, recordVars
  <2>2. WholeScans' = WholeScans /\ Position' = Position /\ dma' = dma
    BY <2>1 DEF WholeScans, Position, adcVars
  <2>3. QED
    BY <1>0, <2>1, <2>2, CountRestStep
<1>12. CASE AdcConverts
  <2>1. /\ UNCHANGED <<valueCount, scansDone, failed, pc, scan, dma, completedValueCount,
                       activeSegmentLength>>
        /\ converting > 0
        /\ counter' = IF dma = "BUSY" /\ counter > 0 THEN counter - 1 ELSE counter
    BY <1>12 DEF AdcConverts, Convert, recordVars
  <2>2. WholeScans <= WholeScans'
    BY <1>0, <2>1 DEF WholeScans, AdcInv, AdcTypes, ScanInv
  <2>3. Position <= Position'
    BY <1>0, <2>1 DEF Position, AdcInv, AdcTypes
  <2>4. QED
    BY <2>1, <2>2, <2>3, CountRestStep
<1>13. CASE SegmentEnds
  <2>1. /\ UNCHANGED <<valueCount, scansDone, failed, pc, scan, converting>>
        /\ transferComplete
    BY <1>13 DEF SegmentEnds, onSequenceCompleteFromIsr, recordVars
  <2>2. WholeScans' = WholeScans
    BY <2>1 DEF WholeScans
  <2>3. dma = "BUSY"
    BY <2>1 DEF AdcInv, AdcTypes, SegmentInv
  <2>4. dma' = "BUSY" => Position' = Position
    <3>1. Position' = Conversions' \/ dma' # "BUSY"
      BY DEF AdcInv, SegmentInv
    <3>2. Conversions' = Conversions /\ Position = Conversions
      BY <2>1, <2>3 DEF Conversions, AdcInv, SegmentInv
    <3>3. QED
      BY <3>1, <3>2
  <2>5. QED
    BY <1>0, <2>1, <2>2, <2>3, <2>4, CountRestStep
<1>14. CASE AdcFails
  <2>1. /\ UNCHANGED <<valueCount, scansDone, pc, scan, converting>>
        /\ dma' = "READY" /\ failed' = TRUE
    BY <1>14 DEF AdcFails, onSequenceErrorFromIsr
  <2>2. WholeScans' = WholeScans
    BY <2>1 DEF WholeScans
  <2>3. QED
    BY <1>0, <2>1, <2>2, CountRestStep
<1>15. CASE Tick
  <2>1. /\ UNCHANGED <<valueCount, scansDone, failed, pc, dma, completedValueCount,
                       activeSegmentLength, counter>>
    BY <1>15 DEF Tick, Trigger, recordVars
  <2>2. pc # "running" => UNCHANGED <<converting, scan>>
    BY <1>15 DEF Tick, Trigger, AdcInv, AdcRests
  <2>3. pc # "running" => WholeScans' = WholeScans
    BY <2>2 DEF WholeScans
  <2>4. Position' = Position
    BY <2>1 DEF Position
  <2>5. QED
    BY <1>0, <2>1, <2>3, <2>4, CountRestStep
<1>16. CASE UNCHANGED vars
  <2>1. UNCHANGED <<valueCount, scansDone, failed, pc, adcVars>>
    BY <1>16 DEF vars, recordVars
  <2>2. WholeScans' = WholeScans /\ Position' = Position /\ dma' = dma
    BY <2>1 DEF WholeScans, Position, adcVars
  <2>3. QED
    BY <1>0, <2>1, <2>2, CountRestStep
<1>17. QED
  BY <1>1, <1>2, <1>3, <1>4, <1>5, <1>6, <1>7, <1>8, <1>9, <1>10, <1>11, <1>12, <1>13,
     <1>14, <1>15, <1>16 DEF Next

\* What is counted covers what was complete, always.
LEMMA CountAlways == Spec => []CountInv
<1>1. Init => CountInv
  BY SegmentsAssumption, RecordAssumption DEF Init, CountInv
<1>2. QED
  BY <1>1, CountStep, TimeAlways, AdcAlways, PTL DEF Spec

-----------------------------------------------------------------------------
(* The buffer.                                                              *)

\* The place of a value is its own.
LEMMA ValuePlace ==
  ASSUME NEW k \in Nat \ {0}, NEW c \in 1 .. Channels
  PROVE  /\ (k - 1) * Channels + c - 1 \in Nat
         /\ ((k - 1) * Channels + c - 1) \div Channels = k - 1
         /\ ((k - 1) * Channels + c - 1) % Channels = c - 1
<1>1. Channels \in Nat \ {0} /\ k - 1 \in Int /\ k - 1 \in Nat /\ c - 1 \in 0 .. Channels - 1
  BY SegmentsAssumption
<1>2. /\ ((k - 1) * Channels + (c - 1)) \div Channels = k - 1
      /\ ((k - 1) * Channels + (c - 1)) % Channels = c - 1
  BY <1>1, Place
<1> DEFINE p == (k - 1) * Channels
<1>3. p \in Nat
  BY <1>1
<1> HIDE DEF p
<1>4. p + (c - 1) = p + c - 1 /\ p + c - 1 \in Nat
  BY <1>1, <1>3
<1>5. QED
  BY <1>2, <1>4 DEF p

\* What holds a run's values holds its first ones.
LEMMA HoldingFewer ==
  ASSUME NEW buffer, NEW number, NEW n \in Int, NEW m \in Int, m <= n,
         Holding(buffer, number, n)
  PROVE  Holding(buffer, number, m)
<1> SUFFICES ASSUME NEW k \in Nat \ {0}, NEW c \in 1 .. Channels,
                    (k - 1) * Channels + c - 1 < m
             PROVE  buffer[(k - 1) * Channels + c - 1] =
                      [run |-> number, scan |-> k, bridge |-> ScanOrder(c)]
  BY DEF Holding
<1> DEFINE i == (k - 1) * Channels + c - 1
<1>1. i \in Nat
  BY ValuePlace
<1>2. i < n
  <2>1. i < m
    OBVIOUS
  <2> HIDE DEF i
  <2>2. QED
    BY <1>1, <2>1
<1>3. QED
  BY <1>2 DEF Holding

\* A write after them leaves them.
LEMMA HoldingOthers ==
  ASSUME NEW buffer, NEW number, NEW n \in Int, NEW at \in Int, NEW value,
         n <= at, n <= ValueCount, DOMAIN buffer = 0 .. ValueCount - 1,
         Holding(buffer, number, n)
  PROVE  Holding([buffer EXCEPT ![at] = value], number, n)
<1> DEFINE new == [buffer EXCEPT ![at] = value]
<1> SUFFICES ASSUME NEW k \in Nat \ {0}, NEW c \in 1 .. Channels,
                    (k - 1) * Channels + c - 1 < n
             PROVE  new[(k - 1) * Channels + c - 1] =
                      [run |-> number, scan |-> k, bridge |-> ScanOrder(c)]
  BY DEF Holding
<1> DEFINE i == (k - 1) * Channels + c - 1
<1>1. i \in Nat
  BY ValuePlace
<1>2. buffer[i] = [run |-> number, scan |-> k, bridge |-> ScanOrder(c)]
  BY DEF Holding
<1>3. i < n
  OBVIOUS
<1> HIDE DEF i
<1>4. i \in 0 .. ValueCount - 1 /\ i # at
  BY <1>1, <1>3, SegmentsAssumption
<1>5. new[i] = buffer[i]
  BY <1>4
<1> HIDE DEF new
<1>6. QED
  BY <1>2, <1>5 DEF i

\* The next conversion is written after those before it.
LEMMA HoldingNext ==
  ASSUME NEW buffer, NEW number, NEW at \in 0 .. ValueCount - 1, NEW s \in Nat \ {0},
         NEW r \in 1 .. Channels, at = (s - 1) * Channels + r - 1,
         DOMAIN buffer = 0 .. ValueCount - 1, Holding(buffer, number, at)
  PROVE  Holding([buffer EXCEPT ![at] = [run |-> number, scan |-> s, bridge |-> ScanOrder(r)]],
                 number, at + 1)
<1> DEFINE value == [run |-> number, scan |-> s, bridge |-> ScanOrder(r)]
           new == [buffer EXCEPT ![at] = value]
<1>1. ValueCount \in Nat
  BY SegmentsAssumption
<1>2. Holding(new, number, at)
  <2>1. at \in Int /\ at <= at /\ at <= ValueCount
    BY <1>1
  <2> HIDE DEF value
  <2>2. QED
    BY <2>1, HoldingOthers
<1> SUFFICES ASSUME NEW k \in Nat \ {0}, NEW c \in 1 .. Channels,
                    (k - 1) * Channels + c - 1 < at + 1
             PROVE  new[(k - 1) * Channels + c - 1] =
                      [run |-> number, scan |-> k, bridge |-> ScanOrder(c)]
  BY DEF Holding
<1>3. new[at] = value
  OBVIOUS
<1> HIDE DEF new
<1> DEFINE i == (k - 1) * Channels + c - 1
<1>4. i \in Nat /\ i \div Channels = k - 1 /\ i % Channels = c - 1
  BY ValuePlace
<1>5. at \div Channels = s - 1 /\ at % Channels = r - 1
  BY ValuePlace
<1>6. i < at + 1
  OBVIOUS
<1>7. CASE i = at
  <2>1. k - 1 = s - 1 /\ c - 1 = r - 1
    BY <1>4, <1>5, <1>7
  <2>2. k = s /\ c = r
    BY <2>1, SegmentsAssumption
  <2>3. QED
    BY <1>3, <1>7, <2>2
<1>8. CASE i # at
  <2>1. i < at
    <3> HIDE DEF i
    <3>1. QED
      BY <1>4, <1>6, <1>8
  <2>2. QED
    BY <1>2, <2>1 DEF Holding
<1>9. QED
  BY <1>7, <1>8

\* A step that leaves the buffer alone.
LEMMA BufferRestStep ==
  ASSUME BufferInv, UNCHANGED <<currentData, run>>,
         pc' \in {"running", "endCapture", "count"} =>
           /\ pc \in {"running", "endCapture", "count"}
           /\ Taken' \in Int /\ Taken \in Int /\ Taken' <= Taken,
         pc' \in {"stop", "publish"} => pc \in {"stop", "publish"} /\ valueCount' = valueCount
  PROVE  BufferInv'
<1>1. ASSUME pc' \in {"running", "endCapture", "count"}
      PROVE  Holding(currentData, run, Taken')
  <2>1. Holding(currentData, run, Taken) /\ Taken' \in Int /\ Taken \in Int /\ Taken' <= Taken
    BY <1>1 DEF BufferInv
  <2>2. \A n \in Int, m \in Int : m <= n /\ Holding(currentData, run, n)
                                    => Holding(currentData, run, m)
    BY HoldingFewer
  <2>3. QED
    BY <2>1, <2>2
<1>2. ASSUME pc' \in {"stop", "publish"}
      PROVE  Holding(currentData, run, valueCount')
  BY <1>2 DEF BufferInv
<1>3. QED
  BY <1>1, <1>2 DEF BufferInv

\* What is taken stays where the segment has its next value.
LEMMA TakenIsInt ==
  ASSUME AdcInv
  PROVE  Taken \in Int
BY Conversion DEF Taken, AdcInv, AdcTypes

\* The values of a run are written one after the other and stay until the next.
LEMMA BufferStep ==
  ASSUME TimeInv, AdcInv, AdcInv', CountInv, BufferInv, [Next]_vars
  PROVE  BufferInv'
<1>0. Taken \in Int
  BY TakenIsInt
<1> USE DEF Sampling, SamplingPoints
<1>1. CASE SetSamplingRate
  <2>1. UNCHANGED <<pc, valueCount, adcVars>> /\ pc \in {"idle", "sending"}
    BY <1>1 DEF SetSamplingRate
  <2>2. QED
    BY <2>1, BufferRestStep DEF adcVars
<1>2. CASE StartRun
  <2>1. UNCHANGED adcVars /\ pc' = "starting"
    BY <1>2 DEF StartRun
  <2>2. QED
    BY <2>1, BufferRestStep DEF adcVars
<1>3. CASE StartSampling
  <2>1. /\ currentData' = currentData /\ pc' = "running" /\ dma' = "BUSY"
        /\ completedValueCount' = 0 /\ counter' = activeSegmentLength'
    BY <1>3 DEF StartSampling, startDma, OpenSegment
  <2>2. Taken' = 0
    <3>1. activeSegmentLength' \in Int
      BY DEF AdcInv, AdcTypes
    <3>2. \A a \in Int : 0 + a - a = 0
      OBVIOUS
    <3>3. QED
      BY <2>1, <3>1, <3>2 DEF Taken, Position
  <2>3. Holding(currentData', run', 0)
    <3>1. \A k \in Nat \ {0}, c \in 1 .. Channels : (k - 1) * Channels + c - 1 \in Nat
      BY ValuePlace
    <3>2. \A k \in Nat \ {0}, c \in 1 .. Channels : ~((k - 1) * Channels + c - 1 < 0)
      <4>1. \A n \in Nat : ~(n < 0)
        OBVIOUS
      <4>2. QED
        BY <3>1, <4>1
    <3>3. QED
      BY <3>2 DEF Holding
  <2>4. QED
    BY <2>1, <2>2, <2>3 DEF BufferInv
<1>4. CASE FinishRun
  <2>1. /\ pc = "running" /\ pc' = "endCapture"
        /\ UNCHANGED <<currentData, run, dma, completedValueCount, activeSegmentLength, counter>>
    BY <1>4 DEF FinishRun, stopTimers
  <2>2. Taken' = Taken
    BY <2>1 DEF Taken, Position
  <2>3. QED
    BY <1>0, <2>1, <2>2, BufferRestStep
<1>5. CASE EndCapture
  <2>1. pc = "endCapture" /\ pc' = "count" /\ UNCHANGED adcVars
    BY <1>5 DEF EndCapture
  <2>2. Taken' = Taken
    BY <2>1 DEF Taken, Position, adcVars
  <2>3. QED
    BY <1>0, <2>1, <2>2, BufferRestStep DEF adcVars
<1>6. CASE CountValues
  <2>1. /\ pc = "count" /\ pc' = "stop" /\ valueCount' = transferredValueCount
        /\ UNCHANGED adcVars
    BY <1>6 DEF CountValues
  <2>2. valueCount' = Taken
    BY <2>1, TransferredIsTaken
  <2>3. QED
    BY <2>1, <2>2 DEF BufferInv, adcVars
<1>7. CASE StopAdc
  <2>1. /\ pc = "stop" /\ pc' = "publish"
        /\ UNCHANGED <<currentData, run, valueCount>>
    BY <1>7 DEF StopAdc, stopDma
  <2>2. QED
    BY <2>1, BufferRestStep
<1>8. CASE Publish
  <2>1. /\ pc' \in {"sending", "idle"}
        /\ DOMAIN currentData' = DOMAIN currentData
    BY <1>8 DEF Publish, normalizeBridgeCurrentSamples
  <2>2. QED
    BY <2>1 DEF BufferInv
<1>9. CASE SendData
  <2>1. UNCHANGED <<pc, valueCount, adcVars>> /\ pc = "sending"
    BY <1>9 DEF SendData
  <2>2. QED
    BY <2>1, BufferRestStep DEF adcVars
<1>10. CASE SendFinal
  <2>1. UNCHANGED adcVars /\ pc' = "idle"
    BY <1>10 DEF SendFinal
  <2>2. QED
    BY <2>1, BufferRestStep DEF adcVars
<1>11. CASE \E line \in Lines : SensorEdge(line)
  <2>1. UNCHANGED <<pc, valueCount, adcVars>>
    BY <1>11 DEF SensorEdge, recordVars
  <2>2. Taken' = Taken
    BY <2>1 DEF Taken, Position, adcVars
  <2>3. QED
    BY <1>0, <2>1, <2>2, BufferRestStep DEF adcVars
<1>12. CASE AdcConverts
  <2>1. /\ UNCHANGED <<pc, valueCount, dma, completedValueCount, activeSegmentLength, run, scan>>
        /\ converting > 0
    BY <1>12 DEF AdcConverts, Convert, recordVars
  <2>2. CASE dma = "BUSY" /\ counter > 0
    <3>1. /\ currentData' = [currentData EXCEPT ![Position] =
                  [run |-> run, scan |-> scan, bridge |-> ScanOrder(converting)]]
          /\ counter' = counter - 1
      BY <1>12, <2>2 DEF AdcConverts, Convert, Value, Position
    <3>2. Position \in 0 .. ValueCount - 1
      BY <2>2, Conversion, SegmentsAssumption DEF AdcInv, AdcTypes
    <3>3. scan \in Nat \ {0} /\ converting \in 1 .. Channels
      BY <2>1, SegmentsAssumption DEF AdcInv, AdcTypes, ScanInv
    <3>4. Position = (scan - 1) * Channels + converting - 1
      BY <2>2, <3>3 DEF AdcInv, SegmentInv, Conversions
    <3>5. Taken = Position /\ Taken' = Position + 1
      BY <2>1, <2>2, <3>1 DEF Taken, Position, AdcInv, AdcTypes
    <3>6. DOMAIN currentData = 0 .. ValueCount - 1
      BY DEF BufferInv
    <3>7. DOMAIN currentData' = 0 .. ValueCount - 1
      BY <3>1, <3>6
    <3>8. ASSUME pc' \in {"running", "endCapture", "count"}
          PROVE  Holding(currentData', run', Taken')
      <4>1. Holding(currentData, run, Position)
        BY <2>1, <3>5, <3>8 DEF BufferInv
      <4> DEFINE at == Position
      <4> HIDE DEF at
      <4>2. /\ Holding(currentData, run, at) /\ at \in 0 .. ValueCount - 1
            /\ at = (scan - 1) * Channels + converting - 1
        BY <3>2, <3>4, <4>1 DEF at
      <4>3. Holding([currentData EXCEPT ![at] =
                       [run |-> run, scan |-> scan, bridge |-> ScanOrder(converting)]],
                    run, at + 1)
        BY <3>3, <3>6, <4>2, HoldingNext
      <4>4. QED
        BY <2>1, <3>1, <3>5, <4>3 DEF at
    <3>9. ASSUME pc' \in {"stop", "publish"}
          PROVE  Holding(currentData', run', valueCount')
      <4>1. pc = "stop"
        BY <2>1, <3>9 DEF AdcInv, AdcRests
      <4>2. valueCount <= Position /\ valueCount \in Int /\ valueCount <= ValueCount
        BY <2>2, <4>1, SegmentsAssumption DEF CountInv
      <4>3. Holding(currentData, run, valueCount)
        BY <4>1 DEF BufferInv
      <4>4. Position \in Int
        BY <3>2, SegmentsAssumption
      <4> DEFINE at == Position
                 value == [run |-> run, scan |-> scan, bridge |-> ScanOrder(converting)]
      <4> HIDE DEF at, value
      <4>5. Holding([currentData EXCEPT ![at] = value], run, valueCount)
        BY <3>6, <4>2, <4>3, <4>4, HoldingOthers DEF at
      <4>6. QED
        BY <2>1, <3>1, <4>5 DEF at, value
    <3>10. QED
      BY <3>7, <3>8, <3>9 DEF BufferInv
  <2>3. CASE ~(dma = "BUSY" /\ counter > 0)
    <3>1. UNCHANGED <<currentData, counter>>
      BY <1>12, <2>3 DEF AdcConverts, Convert
    <3>2. Taken' = Taken
      BY <2>1, <3>1 DEF Taken, Position
    <3>3. QED
      BY <1>0, <2>1, <3>1, <3>2, BufferRestStep
  <2>4. QED
    BY <2>2, <2>3
<1>13. CASE SegmentEnds
  <2>1. /\ UNCHANGED <<valueCount, pc, run, currentData>> /\ transferComplete
        /\ completedValueCount' = completedValueCount + activeSegmentLength
        /\ dma' = "BUSY" => counter' = activeSegmentLength'
    <3>1. /\ UNCHANGED <<valueCount, pc, run, currentData>> /\ transferComplete
          /\ completedValueCount' = completedValueCount + activeSegmentLength
      BY <1>13 DEF SegmentEnds, onSequenceCompleteFromIsr, recordVars
    <3>2. dma' = "BUSY" => counter' = activeSegmentLength'
      BY <1>13 DEF SegmentEnds, onSequenceCompleteFromIsr, OpenSegment
    <3>3. QED
      BY <3>1, <3>2
  <2>2. dma = "BUSY" /\ counter = 0
    <3>1. dma = "BUSY"
      BY <2>1 DEF AdcInv, AdcTypes, SegmentInv
    <3>2. transferComplete = (counter = 0)
      BY <3>1 DEF AdcInv, SegmentInv
    <3>3. QED
      BY <2>1, <3>1, <3>2
  <2>3. Taken = completedValueCount + activeSegmentLength
    BY <2>2 DEF Taken, Position, AdcInv, AdcTypes
  <2>4. Taken' = completedValueCount'
    <3>1. completedValueCount' \in Int /\ activeSegmentLength' \in Int
      BY DEF AdcInv, AdcTypes
    <3>2. \A a \in Int, b \in Int : a + b - b = a
      OBVIOUS
    <3>3. QED
      BY <2>1, <3>1, <3>2 DEF Taken, Position
  <2>5. Taken' = Taken
    BY <2>1, <2>3, <2>4
  <2>6. QED
    BY <1>0, <2>1, <2>5, BufferRestStep
<1>14. CASE AdcFails
  <2>1. /\ UNCHANGED <<valueCount, pc, run, currentData, completedValueCount,
                       activeSegmentLength, counter>>
        /\ dma = "BUSY" /\ dma' = "READY"
    BY <1>14 DEF AdcFails, onSequenceErrorFromIsr
  <2>2. Taken' = completedValueCount /\ completedValueCount \in Nat
    BY <2>1 DEF Taken, AdcInv, AdcTypes
  <2>3. completedValueCount <= Taken
    BY <2>1, <2>2 DEF Taken, Position, AdcInv, AdcTypes, SegmentInv
  <2>4. QED
    BY <1>0, <2>1, <2>2, <2>3, BufferRestStep
<1>15. CASE Tick
  <2>1. UNCHANGED <<valueCount, pc, run, currentData, completedValueCount,
                    activeSegmentLength, counter, dma>>
    BY <1>15 DEF Tick, Trigger, recordVars
  <2>2. Taken' = Taken
    BY <2>1 DEF Taken, Position
  <2>3. QED
    BY <1>0, <2>1, <2>2, BufferRestStep
<1>16. CASE UNCHANGED vars
  <2>1. UNCHANGED <<pc, valueCount, adcVars>>
    BY <1>16 DEF vars, recordVars
  <2>2. Taken' = Taken
    BY <2>1 DEF Taken, Position, adcVars
  <2>3. QED
    BY <1>0, <2>1, <2>2, BufferRestStep DEF adcVars
<1>17. QED
  BY <1>1, <1>2, <1>3, <1>4, <1>5, <1>6, <1>7, <1>8, <1>9, <1>10, <1>11, <1>12, <1>13,
     <1>14, <1>15, <1>16 DEF Next

\* The buffer holds the conversions of the run, always.
LEMMA BufferAlways == Spec => []BufferInv
<1>1. Init => BufferInv
  BY DEF Init, AdcInit, BufferInv
<1>2. QED
  BY <1>1, BufferStep, TimeAlways, AdcAlways, CountAlways, PTL DEF Spec

-----------------------------------------------------------------------------
(* The debounce.                                                            *)

\* The difference of two time stamps modulo the period of the timer is the time
\* between them when that is less than the period.
LEMMA ElapsedIs ==
  ASSUME NEW since \in Nat, NEW time \in Nat, since <= time, time - since < TimerPeriod
  PROVE  Elapsed(timestamp(since), timestamp(time)) = time - since
<1> DEFINE T == TimerPeriod
           n == time \div T
           g == since \div T
           a == time % T
           b == since % T
<1>1. T \in Nat \ {0}
  BY CaptureAssumption
<1>2. /\ n \in Int /\ g \in Int /\ a \in 0 .. T - 1 /\ b \in 0 .. T - 1
      /\ time = n * T + a /\ since = g * T + b
  BY <1>1
<1>3. time - since \in 0 .. T - 1 /\ g - n \in Int
  BY <1>1, <1>2
<1> HIDE DEF n, g, a, b
<1>4. a - b = (g - n) * T + (time - since)
  <2> DEFINE p == n * T
             q == g * T
  <2>1. p \in Int /\ q \in Int /\ (g - n) * T = q - p
    BY <1>1, <1>2
  <2>2. time = p + a /\ since = q + b
    BY <1>2
  <2> HIDE DEF p, q
  <2>3. a - b = (q - p) + (time - since)
    BY <1>1, <1>2, <2>1, <2>2
  <2>4. QED
    BY <2>1, <2>3
<1>5. ((g - n) * T + (time - since)) % T = time - since
  BY <1>1, <1>3, Place
<1>6. Elapsed(timestamp(since), timestamp(time)) = (a - b) % T
  BY DEF Elapsed, timestamp, a, b
<1>7. QED
  BY <1>4, <1>5, <1>6

\* A time stamp.
LEMMA TimestampIs ==
  ASSUME NEW time \in Nat
  PROVE  timestamp(time) \in Timestamp /\ timestamp(time) \in Nat
BY CaptureAssumption DEF timestamp, Timestamp

\* In a capture the debounce accepts the edges that should be kept.
LEMMA AcceptIsGenuine ==
  ASSUME TimeInv, CaptureInv, launchCapture, NEW line \in Lines
  PROVE  accept(line) <=> IsGenuine(line)
<1>1. timestampValid[line] = (genuine[line] # Never)
  BY DEF CaptureInv
<1>2. CASE genuine[line] = Never
  BY <1>1, <1>2 DEF accept, IsGenuine
<1>3. CASE genuine[line] # Never
  <2>1. /\ genuine[line] \in Nat /\ now \in Nat /\ genuine[line] <= now
        /\ now - genuine[line] < TimerPeriod
        /\ lastTimestamp[line] = timestamp(genuine[line])
    BY <1>3 DEF CaptureInv, TimeInv
  <2>2. Elapsed(timestamp(genuine[line]), timestamp(now)) = now - genuine[line]
    BY <2>1, ElapsedIs
  <2>3. Elapsed(lastTimestamp[line], timestamp(now)) = now - genuine[line]
    BY <2>1, <2>2
  <2>4. accept(line) <=> ~(now - genuine[line] < intervalTicks)
    BY <1>1, <1>3, <2>3 DEF accept
  <2>5. IsGenuine(line) <=> now - genuine[line] >= intervalTicks
    BY <1>3 DEF IsGenuine
  <2>6. QED
    BY <2>1, <2>4, <2>5, CaptureAssumption
<1>4. QED
  BY <1>2, <1>3

\* A step that takes no edge.
LEMMA CaptureRestStep ==
  ASSUME TimeInv, CaptureInv, UNCHANGED <<lastTimestamp, timestampValid, genuine>>,
         now' \in Nat, now <= now', started' \in Nat,
         launchCapture' = (pc' \in CapturePoints),
         launchCapture' => launchCapture,
         launchCapture' =>
           \A time \in Nat :
             /\ time <= now /\ started - 1 <= time /\ (pc = "starting" => started <= time)
             => /\ now' - time < TimerPeriod
                /\ started' - 1 <= time
                /\ pc' = "starting" => started' <= time
  PROVE  CaptureInv'
<1>1. ASSUME launchCapture', NEW line \in Lines
      PROVE  /\ timestampValid[line] = (genuine[line] # Never)
             /\ genuine[line] # Never =>
                  /\ genuine[line] <= now'
                  /\ now' - genuine[line] < TimerPeriod
                  /\ started' - 1 <= genuine[line]
                  /\ pc' = "starting" => started' <= genuine[line]
                  /\ lastTimestamp[line] = timestamp(genuine[line])
  <2>1. timestampValid[line] = (genuine[line] # Never)
    BY <1>1 DEF CaptureInv
  <2>2. ASSUME genuine[line] # Never
        PROVE  /\ genuine[line] <= now'
               /\ now' - genuine[line] < TimerPeriod
               /\ started' - 1 <= genuine[line]
               /\ pc' = "starting" => started' <= genuine[line]
               /\ lastTimestamp[line] = timestamp(genuine[line])
    <3>1. /\ genuine[line] \in Nat /\ genuine[line] <= now /\ started - 1 <= genuine[line]
          /\ pc = "starting" => started <= genuine[line]
          /\ lastTimestamp[line] = timestamp(genuine[line])
      BY <1>1, <2>2 DEF CaptureInv
    <3>2. genuine[line] <= now'
      BY <3>1 DEF TimeInv
    <3>3. QED
      BY <1>1, <3>1, <3>2
  <2>3. QED
    BY <2>1, <2>2
<1>2. QED
  BY <1>1 DEF CaptureInv

\* The debounce of a run knows its edges and no others.
LEMMA CaptureStep ==
  ASSUME TimeInv, TimeInv', CaptureInv, [Next]_vars
  PROVE  CaptureInv'
<1>0. /\ now \in Nat /\ started \in Nat /\ started <= now /\ now' \in Nat /\ started' \in Nat
      /\ TimerPeriod \in Nat /\ RunTicks \in Nat /\ RunTicks + 1 < TimerPeriod
  BY CaptureAssumption, RecordAssumption DEF TimeInv
<1> USE DEF CapturePoints
<1>1. ASSUME UNCHANGED <<lastTimestamp, timestampValid, genuine, launchCapture, now, started>>,
             pc' = pc \/ (pc = "running" /\ pc' = "endCapture")
               \/ (pc \notin CapturePoints /\ pc' \notin CapturePoints)
      PROVE  CaptureInv'
  <2>1. launchCapture' = (pc' \in CapturePoints)
    BY <1>1 DEF CaptureInv
  <2>2. \A line \in Lines : launchCapture =>
          /\ timestampValid[line] = (genuine[line] # Never)
          /\ genuine[line] # Never =>
               /\ genuine[line] <= now
               /\ now - genuine[line] < TimerPeriod
               /\ started - 1 <= genuine[line]
               /\ pc = "starting" => started <= genuine[line]
               /\ lastTimestamp[line] = timestamp(genuine[line])
    BY DEF CaptureInv
  <2>3. launchCapture /\ pc' = "starting" => pc = "starting"
    BY <1>1 DEF CaptureInv
  <2>4. QED
    BY <1>1, <2>1, <2>2, <2>3 DEF CaptureInv
<1>2. CASE StartRun
  <2>1. /\ lastTimestamp' = [l \in Lines |-> 0] /\ timestampValid' = [l \in Lines |-> FALSE]
        /\ genuine' = [l \in Lines |-> Never] /\ launchCapture' = TRUE /\ pc' = "starting"
    BY <1>2 DEF StartRun, beginLaunchCapture
  <2>2. 0 \in Timestamp
    BY CaptureAssumption DEF Timestamp
  <2>3. /\ lastTimestamp' \in [Lines -> Timestamp] /\ timestampValid' \in [Lines -> BOOLEAN]
        /\ genuine' \in [Lines -> Nat \cup {Never}]
    BY <2>1, <2>2
  <2>4. \A line \in Lines : timestampValid'[line] = FALSE /\ genuine'[line] = Never
    BY <2>1
  <2>5. QED
    BY <2>1, <2>3, <2>4 DEF CaptureInv
<1>3. CASE StartSampling
  <2>1. /\ UNCHANGED <<lastTimestamp, timestampValid, genuine, launchCapture, now>>
        /\ started' = now /\ pc = "starting" /\ pc' = "running"
    BY <1>3 DEF StartSampling, captureVars
  <2>2. now <= started + 1
    BY <2>1 DEF TimeInv
  <2>3. ASSUME NEW time \in Nat, time <= now, pc = "starting" => started <= time
        PROVE  now' - time < TimerPeriod /\ started' - 1 <= time
    BY <1>0, <2>1, <2>2, <2>3
  <2>4. (pc \in CapturePoints) = TRUE /\ (pc' \in CapturePoints) = TRUE
    BY <2>1
  <2>5. launchCapture = TRUE /\ launchCapture' = TRUE
    BY <2>1, <2>4, Zenon DEF CaptureInv
  <2>6. launchCapture' = (pc' \in CapturePoints)
    BY <2>4, <2>5, Zenon
  <2>7. \A time \in Nat :
          /\ time <= now /\ started - 1 <= time /\ (pc = "starting" => started <= time)
          => /\ now' - time < TimerPeriod
             /\ started' - 1 <= time
             /\ pc' = "starting" => started' <= time
    BY <2>1, <2>3
  <2> HIDE DEF CapturePoints
  <2>8. QED
    BY <1>0, <2>1, <2>5, <2>6, <2>7, CaptureRestStep
<1>4. CASE \E line \in Lines : SensorEdge(line)
  <2> SUFFICES ASSUME NEW line \in Lines, SensorEdge(line)
               PROVE  CaptureInv'
    BY <1>4
  <2>1. UNCHANGED <<launchCapture, now, started, pc>>
    BY DEF SensorEdge, handleSensorInterrupt, recordVars
  <2>2. /\ lastTimestamp' = IF accept(line)
                              THEN [lastTimestamp EXCEPT ![line] = timestamp(now)]
                              ELSE lastTimestamp
        /\ timestampValid' = IF accept(line) THEN [timestampValid EXCEPT ![line] = TRUE]
                                             ELSE timestampValid
        /\ genuine' = IF IsGenuine(line) THEN [genuine EXCEPT ![line] = now] ELSE genuine
    BY DEF SensorEdge, handleSensorInterrupt
  <2>3. timestamp(now) \in Timestamp /\ now # Never
    BY <1>0, TimestampIs DEF Never
  <2>4. /\ lastTimestamp' \in [Lines -> Timestamp] /\ timestampValid' \in [Lines -> BOOLEAN]
        /\ genuine' \in [Lines -> Nat \cup {Never}]
    BY <1>0, <2>2, <2>3 DEF CaptureInv
  <2>5. ASSUME launchCapture, NEW l \in Lines
        PROVE  /\ timestampValid'[l] = (genuine'[l] # Never)
               /\ genuine'[l] # Never =>
                    /\ genuine'[l] <= now
                    /\ now - genuine'[l] < TimerPeriod
                    /\ started - 1 <= genuine'[l]
                    /\ pc = "starting" => started <= genuine'[l]
                    /\ lastTimestamp'[l] = timestamp(genuine'[l])
    <3>1. accept(line) <=> IsGenuine(line)
      BY <2>5, AcceptIsGenuine
    <3>2. /\ timestampValid[l] = (genuine[l] # Never)
          /\ genuine[l] # Never =>
               /\ genuine[l] <= now
               /\ now - genuine[l] < TimerPeriod
               /\ started - 1 <= genuine[l]
               /\ pc = "starting" => started <= genuine[l]
               /\ lastTimestamp[l] = timestamp(genuine[l])
      BY <2>5 DEF CaptureInv
    <3>3. CASE IsGenuine(line) /\ l = line
      <4>1. genuine'[l] = now /\ timestampValid'[l] = TRUE /\ lastTimestamp'[l] = timestamp(now)
        BY <2>2, <3>1, <3>3 DEF CaptureInv
      <4>2. now <= now /\ now - now < TimerPeriod /\ started - 1 <= now /\ started <= now
        BY <1>0
      <4>3. QED
        BY <2>3, <4>1, <4>2
    <3>4. CASE ~(IsGenuine(line) /\ l = line)
      <4>1. /\ genuine'[l] = genuine[l] /\ timestampValid'[l] = timestampValid[l]
            /\ lastTimestamp'[l] = lastTimestamp[l]
        BY <2>2, <3>1, <3>4 DEF CaptureInv
      <4>2. QED
        BY <3>2, <4>1
    <3>5. QED
      BY <3>3, <3>4
  <2>6. QED
    BY <2>1, <2>4, <2>5 DEF CaptureInv
<1>5. CASE Tick
  <2>1. /\ UNCHANGED <<lastTimestamp, timestampValid, genuine, launchCapture, started, pc>>
        /\ now' = now + 1
        /\ pc = "starting" => now = started
        /\ pc \notin {"idle", "starting", "sending"} => now < started + RunTicks
    BY <1>5 DEF Tick, recordVars
  <2>2. launchCapture' = (pc' \in CapturePoints)
    BY <2>1 DEF CaptureInv
  <2>3. ASSUME launchCapture, NEW time \in Nat, time <= now, started - 1 <= time,
               pc = "starting" => started <= time
        PROVE  now' - time < TimerPeriod
    <3>1. CASE pc = "starting"
      BY <1>0, <2>1, <2>3, <3>1
    <3>2. CASE pc # "starting"
      <4>1. now < started + RunTicks
        BY <2>1, <2>3, <3>2 DEF CaptureInv
      <4>2. QED
        BY <1>0, <2>1, <2>3, <4>1
    <3>3. QED
      BY <3>1, <3>2
  <2>4. QED
    BY <1>0, <2>1, <2>2, <2>3, CaptureRestStep
<1>6. CASE EndCapture
  <2>1. /\ UNCHANGED <<lastTimestamp, timestampValid, genuine>>
        /\ launchCapture' = FALSE /\ pc' = "count"
    BY <1>6 DEF EndCapture, endLaunchCapture
  <2>2. (pc' \in CapturePoints) = FALSE
    BY <2>1
  <2>3. launchCapture' = (pc' \in CapturePoints) /\ ~launchCapture'
    BY <2>1, <2>2, Zenon
  <2> HIDE DEF CapturePoints
  <2>4. QED
    BY <2>1, <2>3 DEF CaptureInv
<1>7. CASE SetSamplingRate
  BY <1>1, <1>7 DEF SetSamplingRate, captureVars
<1>8. CASE FinishRun
  BY <1>1, <1>8 DEF FinishRun, captureVars
<1>9. CASE CountValues
  BY <1>1, <1>9 DEF CountValues, captureVars
<1>10. CASE StopAdc
  BY <1>1, <1>10 DEF StopAdc, captureVars
<1>11. CASE Publish
  BY <1>1, <1>11 DEF Publish, captureVars
<1>12. CASE SendData
  BY <1>1, <1>12 DEF SendData, captureVars
<1>13. CASE SendFinal
  BY <1>1, <1>13 DEF SendFinal, captureVars
<1>14. CASE AdcConverts
  BY <1>1, <1>14 DEF AdcConverts, captureVars, recordVars
<1>15. CASE SegmentEnds
  BY <1>1, <1>15 DEF SegmentEnds, captureVars, recordVars
<1>16. CASE AdcFails
  BY <1>1, <1>16 DEF AdcFails, captureVars
<1>17. CASE UNCHANGED vars
  BY <1>1, <1>17 DEF vars, captureVars, recordVars
<1>18. QED
  BY <1>2, <1>3, <1>4, <1>5, <1>6, <1>7, <1>8, <1>9, <1>10, <1>11, <1>12, <1>13,
     <1>14, <1>15, <1>16, <1>17 DEF Next

\* The debounce knows the edges of the run, always.
LEMMA CaptureAlways == Spec => []CaptureInv
<1>1. ASSUME Init
      PROVE  CaptureInv
  <2>1. /\ lastTimestamp = [l \in Lines |-> 0] /\ timestampValid = [l \in Lines |-> FALSE]
        /\ launchCapture = FALSE /\ genuine = [l \in Lines |-> Never] /\ pc = "idle"
    BY <1>1 DEF Init, CaptureInit
  <2>2. 0 \in Timestamp
    BY CaptureAssumption DEF Timestamp
  <2>3. /\ lastTimestamp \in [Lines -> Timestamp] /\ timestampValid \in [Lines -> BOOLEAN]
        /\ genuine \in [Lines -> Nat \cup {Never}]
    BY <2>1, <2>2
  <2>4. (pc \in CapturePoints) = FALSE
    BY <2>1 DEF CapturePoints
  <2>5. launchCapture = (pc \in CapturePoints) /\ ~launchCapture
    BY <2>1, <2>4, Zenon
  <2>6. QED
    BY <2>3, <2>5 DEF CaptureInv
<1>2. TimeInv /\ CaptureInv /\ [Next]_vars => CaptureInv'
  BY TimeStep, CaptureStep
<1>3. QED
  BY <1>1, <1>2, TimeAlways, PTL DEF Spec

-----------------------------------------------------------------------------
(* The lists of edges.                                                      *)

\* The stamps of a list of times.
LEMMA StampsAre ==
  /\ Stamps(<<>>) = <<>>
  /\ \A list \in Seq(Nat) :
       /\ Stamps(list) \in Seq(Timestamp) /\ Stamps(list) \in Seq(Nat)
       /\ Len(Stamps(list)) = Len(list)
       /\ \A time \in Nat : Stamps(Append(list, time)) = Append(Stamps(list), timestamp(time))
<1>1. Stamps(<<>>) = <<>>
  BY DEF Stamps
<1>2. ASSUME NEW list \in Seq(Nat)
      PROVE  /\ Stamps(list) \in Seq(Timestamp) /\ Stamps(list) \in Seq(Nat)
             /\ Len(Stamps(list)) = Len(list)
  <2>1. Len(list) \in Nat /\ \A i \in 1 .. Len(list) : list[i] \in Nat
    OBVIOUS
  <2>2. \A i \in 1 .. Len(list) : timestamp(list[i]) \in Timestamp /\ timestamp(list[i]) \in Nat
    BY <2>1, TimestampIs
  <2>3. QED
    BY <2>1, <2>2 DEF Stamps
<1>3. ASSUME NEW list \in Seq(Nat), NEW time \in Nat
      PROVE  Stamps(Append(list, time)) = Append(Stamps(list), timestamp(time))
  <2>1. /\ Stamps(list) \in Seq(Nat) /\ Len(Stamps(list)) = Len(list) /\ Len(list) \in Nat
        /\ timestamp(time) \in Nat
    BY <1>2, TimestampIs
  <2>2. /\ Append(Stamps(list), timestamp(time)) \in Seq(Nat)
        /\ Append(list, time) \in Seq(Nat) /\ Len(Append(list, time)) = Len(list) + 1
        /\ Len(Append(Stamps(list), timestamp(time))) = Len(list) + 1
    BY <2>1
  <2>3. /\ Stamps(Append(list, time)) \in Seq(Nat)
        /\ Len(Stamps(Append(list, time))) = Len(list) + 1
    BY <1>2, <2>2
  <2>4. ASSUME NEW i \in 1 .. Len(list) + 1
        PROVE  Stamps(Append(list, time))[i] = Append(Stamps(list), timestamp(time))[i]
    <3>1. Stamps(Append(list, time))[i] = timestamp(Append(list, time)[i])
      BY <2>2 DEF Stamps
    <3>2. CASE i = Len(list) + 1
      BY <2>1, <3>1, <3>2
    <3>3. CASE i # Len(list) + 1
      <4>1. i \in 1 .. Len(list)
        BY <2>1, <3>3
      <4>2. Append(list, time)[i] = list[i]
        BY <4>1
      <4>3. Append(Stamps(list), timestamp(time))[i] = Stamps(list)[i]
        BY <2>1, <4>1
      <4>4. Stamps(list)[i] = timestamp(list[i])
        BY <4>1 DEF Stamps
      <4>5. QED
        BY <3>1, <4>2, <4>3, <4>4
    <3>4. QED
      BY <3>2, <3>3
  <2>5. QED
    BY <2>2, <2>3, <2>4, SeqEqual
<1>4. QED
  BY <1>1, <1>2, <1>3

\* An accepted edge enters both lists of its polarity, while there is room.
LEMMA KeepStep ==
  ASSUME ListsInv, NEW line \in Lines, NEW time \in Nat,
         events' = Keep(events, line, timestamp(time)), kept' = Keep(kept, line, time)
  PROVE  ListsInv'
<1>1. PICK s \in 1 .. SensorCount, e \in Edges : line[1] = s /\ line[2] = e
  BY DEF Lines
<1>2. /\ events[s][e] = Stamps(kept[s][e]) /\ kept[s][e] \in Seq(Nat)
      /\ Len(kept[s][e]) <= Capacity /\ Len(kept[s][e]) \in Nat
      /\ Len(events[s][e]) = Len(kept[s][e]) /\ events[s][e] \in Seq(Nat)
  BY StampsAre DEF ListsInv
<1>3. timestamp(time) \in Nat
  BY TimestampIs
<1>4. CASE ~(Len(kept[s][e]) < Capacity)
  <2>1. events' = events /\ kept' = kept
    BY <1>1, <1>2, <1>4 DEF Keep
  <2>2. QED
    BY <2>1 DEF ListsInv
<1>5. CASE Len(kept[s][e]) < Capacity
  <2>1. /\ events' = [events EXCEPT ![s][e] = Append(@, timestamp(time))]
        /\ kept' = [kept EXCEPT ![s][e] = Append(@, time)]
    BY <1>1, <1>2, <1>5 DEF Keep
  <2>2. /\ Append(events[s][e], timestamp(time)) \in Seq(Nat)
        /\ Append(kept[s][e], time) \in Seq(Nat)
        /\ Len(Append(kept[s][e], time)) = Len(kept[s][e]) + 1
    BY <1>2, <1>3
  <2>3. Append(events[s][e], timestamp(time)) = Stamps(Append(kept[s][e], time))
    BY <1>2, StampsAre
  <2>4. /\ events' \in [1 .. SensorCount -> [Edges -> Seq(Nat)]]
        /\ kept' \in [1 .. SensorCount -> [Edges -> Seq(Nat)]]
    <3> DEFINE A == [events[s] EXCEPT ![e] = Append(@, timestamp(time))]
               B == [kept[s] EXCEPT ![e] = Append(@, time)]
    <3>1. A \in [Edges -> Seq(Nat)] /\ B \in [Edges -> Seq(Nat)]
      BY <2>2 DEF ListsInv
    <3>2. events' = [events EXCEPT ![s] = A] /\ kept' = [kept EXCEPT ![s] = B]
      BY <2>1
    <3> HIDE DEF A, B
    <3>3. QED
      BY <3>1, <3>2 DEF ListsInv
  <2>5. Len(Append(kept[s][e], time)) <= Capacity
    BY <1>2, <1>5, <2>2, CaptureAssumption
  <2>6. ASSUME NEW t \in 1 .. SensorCount, NEW f \in Edges
        PROVE  events'[t][f] = Stamps(kept'[t][f]) /\ Len(kept'[t][f]) <= Capacity
    <3>1. CASE t = s /\ f = e
      <4>1. events'[t][f] = Append(events[s][e], timestamp(time))
        BY <2>1, <3>1 DEF ListsInv
      <4>2. kept'[t][f] = Append(kept[s][e], time)
        BY <2>1, <3>1 DEF ListsInv
      <4>3. QED
        BY <2>3, <2>5, <4>1, <4>2
    <3>2. CASE ~(t = s /\ f = e)
      <4>1. events'[t][f] = events[t][f] /\ kept'[t][f] = kept[t][f]
        BY <2>1, <3>2 DEF ListsInv
      <4>2. QED
        BY <4>1 DEF ListsInv
    <3>3. QED
      BY <3>1, <3>2
  <2>7. QED
    BY <2>4, <2>6 DEF ListsInv
<1>6. QED
  BY <1>4, <1>5

\* Empty lists hold what they should.
LEMMA EmptyLists ==
  /\ NoEdges \in [1 .. SensorCount -> [Edges -> Seq(Nat)]]
  /\ \A s \in 1 .. SensorCount, e \in Edges :
       NoEdges[s][e] = Stamps(NoEdges[s][e]) /\ Len(NoEdges[s][e]) <= Capacity
<1>1. Len(<<>>) = 0 /\ <<>> \in Seq(Nat) /\ 0 <= Capacity
  BY CaptureAssumption
<1>2. \A s \in 1 .. SensorCount, e \in Edges : NoEdges[s][e] = <<>>
  BY DEF NoEdges
<1>3. NoEdges \in [1 .. SensorCount -> [Edges -> Seq(Nat)]]
  BY <1>1 DEF NoEdges
<1>4. QED
  BY <1>1, <1>2, <1>3, StampsAre

\* The sensors keep the edges that should be kept.
LEMMA ListsStep ==
  ASSUME TimeInv, CaptureInv, ListsInv, [Next]_vars
  PROVE  ListsInv'
<1>1. ASSUME UNCHANGED <<events, kept>>
      PROVE  ListsInv'
  BY <1>1 DEF ListsInv
<1>2. CASE StartRun
  <2>1. events' = NoEdges /\ kept' = NoEdges
    BY <1>2 DEF StartRun, beginLaunchCapture
  <2>2. QED
    BY <2>1, EmptyLists DEF ListsInv
<1>3. CASE \E line \in Lines : SensorEdge(line)
  <2> SUFFICES ASSUME NEW line \in Lines, SensorEdge(line)
               PROVE  ListsInv'
    BY <1>3
  <2>1. CASE ~launchCapture
    BY <1>1, <2>1 DEF SensorEdge, handleSensorInterrupt
  <2>2. CASE launchCapture /\ ~IsGenuine(line)
    <3>1. ~accept(line)
      BY <2>2, AcceptIsGenuine
    <3>2. QED
      BY <1>1, <2>2, <3>1 DEF SensorEdge, handleSensorInterrupt
  <2>3. CASE launchCapture /\ IsGenuine(line)
    <3>1. accept(line)
      BY <2>3, AcceptIsGenuine
    <3>2. events' = Keep(events, line, timestamp(now)) /\ kept' = Keep(kept, line, now)
      BY <2>3, <3>1 DEF SensorEdge, handleSensorInterrupt
    <3>3. now \in Nat
      BY DEF TimeInv
    <3>4. QED
      BY <3>2, <3>3, KeepStep
  <2>4. QED
    BY <2>1, <2>2, <2>3
<1>4. CASE SetSamplingRate
  BY <1>1, <1>4 DEF SetSamplingRate, captureVars
<1>5. CASE StartSampling
  BY <1>1, <1>5 DEF StartSampling, captureVars
<1>6. CASE FinishRun
  BY <1>1, <1>6 DEF FinishRun, captureVars
<1>7. CASE EndCapture
  BY <1>1, <1>7 DEF EndCapture, endLaunchCapture
<1>8. CASE CountValues
  BY <1>1, <1>8 DEF CountValues, captureVars
<1>9. CASE StopAdc
  BY <1>1, <1>9 DEF StopAdc, captureVars
<1>10. CASE Publish
  BY <1>1, <1>10 DEF Publish, captureVars
<1>11. CASE SendData
  BY <1>1, <1>11 DEF SendData, captureVars
<1>12. CASE SendFinal
  BY <1>1, <1>12 DEF SendFinal, captureVars
<1>13. CASE AdcConverts
  BY <1>1, <1>13 DEF AdcConverts, captureVars
<1>14. CASE SegmentEnds
  BY <1>1, <1>14 DEF SegmentEnds, captureVars
<1>15. CASE AdcFails
  BY <1>1, <1>15 DEF AdcFails, captureVars
<1>16. CASE Tick
  BY <1>1, <1>16 DEF Tick
<1>17. CASE UNCHANGED vars
  BY <1>1, <1>17 DEF vars, captureVars
<1>18. QED
  BY <1>2, <1>3, <1>4, <1>5, <1>6, <1>7, <1>8, <1>9, <1>10, <1>11, <1>12, <1>13,
     <1>14, <1>15, <1>16, <1>17 DEF Next

\* The lists of edges hold what they should, always.
LEMMA ListsAlways == Spec => []ListsInv
<1>1. ASSUME Init
      PROVE  ListsInv
  <2>1. events = NoEdges /\ kept = NoEdges
    BY <1>1 DEF Init, CaptureInit
  <2>2. QED
    BY <2>1, EmptyLists DEF ListsInv
<1>2. TimeInv /\ CaptureInv /\ ListsInv /\ [Next]_vars => ListsInv'
  BY ListsStep
<1>3. QED
  BY <1>1, <1>2, TimeAlways, CaptureAlways, PTL DEF Spec

-----------------------------------------------------------------------------
(* The record.                                                              *)

\* The last two bridges change places twice.
LEMMA ScanOrderIs ==
  ASSUME NEW c \in 1 .. Channels
  PROVE  ScanOrder(c) \in 1 .. Channels /\ ScanOrder(ScanOrder(c)) = c
<1>1. Channels \in Nat /\ Channels >= 2
  BY SegmentsAssumption
<1>2. CASE c = Channels
  BY <1>1, <1>2 DEF ScanOrder
<1>3. CASE c = Channels - 1
  BY <1>1, <1>3 DEF ScanOrder
<1>4. CASE c # Channels /\ c # Channels - 1
  BY <1>1, <1>4 DEF ScanOrder
<1>5. QED
  BY <1>2, <1>3, <1>4

\* A value of the first scans lies among the values counted.
LEMMA ValueCounted ==
  ASSUME NEW count \in Nat, NEW scans \in Nat, scans * Channels <= count,
         NEW k \in 1 .. scans, NEW c \in 1 .. Channels
  PROVE  /\ (k - 1) * Channels + c - 1 < scans * Channels
         /\ (k - 1) * Channels + c - 1 < count
<1>1. Channels \in Nat \ {0} /\ k \in Int
  BY SegmentsAssumption
<1>2. k * Channels <= scans * Channels
  BY <1>1, ProductMonotonic
<1>3. (k - 1) * Channels + Channels = k * Channels
  BY <1>1
<1> DEFINE p == (k - 1) * Channels
           q == k * Channels
           r == scans * Channels
<1>4. p \in Int /\ q \in Int /\ r \in Int /\ p + Channels = q /\ q <= r /\ r <= count
  BY <1>1, <1>2, <1>3
<1> HIDE DEF p, q, r
<1>5. p + c - 1 < r /\ p + c - 1 < count
  BY <1>1, <1>4
<1>6. QED
  BY <1>5 DEF p, r

\* After normalization the values of a scan are in the order of the bridges.
LEMMA NormalizedIs ==
  ASSUME NEW number, NEW count \in 0 .. ValueCount, NEW scans \in Nat,
         scans * Channels <= count, DOMAIN currentData = 0 .. ValueCount - 1,
         Holding(currentData, number, count),
         NEW k \in 1 .. scans, NEW c \in 1 .. Channels
  PROVE  normalizeBridgeCurrentSamples(scans)[(k - 1) * Channels + c - 1] =
           [run |-> number, scan |-> k, bridge |-> c]
<1> DEFINE i == (k - 1) * Channels + c - 1
           d == ScanOrder(c)
<1>1. /\ Channels \in Nat \ {0} /\ count \in Nat /\ ValueCount \in Nat /\ count <= ValueCount
      /\ k \in Nat \ {0}
  BY SegmentsAssumption
<1>2. d \in 1 .. Channels /\ ScanOrder(d) = c
  BY ScanOrderIs
<1>3. /\ i \in Nat /\ i < scans * Channels /\ i < count
      /\ i \div Channels = k - 1 /\ i % Channels = c - 1
  BY <1>1, ValuePlace, ValueCounted
<1>4. (k - 1) * Channels + d - 1 < count
  <2> HIDE DEF d
  <2>1. QED
    BY <1>1, <1>2, ValueCounted
<1>5. currentData[(k - 1) * Channels + d - 1] = [run |-> number, scan |-> k, bridge |-> c]
  <2> HIDE DEF d
  <2>1. QED
    BY <1>1, <1>2, <1>4 DEF Holding
<1>6. i \in DOMAIN currentData
  <2> HIDE DEF i
  <2>1. QED
    BY <1>1, <1>3
<1>7. (i % Channels) + 1 = c
  <2> HIDE DEF i
  <2>1. QED
    BY <1>1, <1>3
<1>8. normalizeBridgeCurrentSamples(scans)[i] =
        currentData[(i \div Channels) * Channels + ScanOrder((i % Channels) + 1) - 1]
  <2> HIDE DEF i
  <2>1. QED
    BY <1>3, <1>6 DEF normalizeBridgeCurrentSamples
<1>9. currentData[(i \div Channels) * Channels + ScanOrder((i % Channels) + 1) - 1] =
        currentData[(k - 1) * Channels + d - 1]
  BY <1>3, <1>7
<1>10. QED
  BY <1>5, <1>8, <1>9

\* The scans counted fit the record, and none complete is missing.
LEMMA ScansCounted ==
  ASSUME NEW count \in 0 .. ValueCount
  PROVE  /\ count \div Channels \in Nat /\ count \div Channels <= RunTicks
         /\ (count \div Channels) * Channels <= count
         /\ \A done \in Nat : done * Channels <= count => count \div Channels >= done
<1> DEFINE s == count \div Channels
           r == count % Channels
<1>1. /\ Channels \in Nat \ {0} /\ RunTicks \in Nat /\ ValueCount = RunTicks * Channels
      /\ count \in Nat /\ ValueCount \in Nat /\ count <= ValueCount
  BY SegmentsAssumption, RecordAssumption
<1>2. s \in Int /\ r \in 0 .. Channels - 1 /\ count = Channels * s + r
  BY <1>1
<1>3. s * Channels \in Int /\ Channels * s = s * Channels
  BY <1>1, <1>2
<1>4. s * Channels <= count /\ count < s * Channels + Channels
  BY <1>1, <1>2, <1>3
<1>5. (s + 1) * Channels = s * Channels + Channels
  BY <1>1, <1>2
<1> HIDE DEF s, r
<1>6. ASSUME NEW done \in Nat, done * Channels <= count
      PROVE  s >= done
  <2>1. SUFFICES ASSUME s + 1 <= done
                 PROVE  FALSE
    BY <1>2
  <2>2. (s + 1) * Channels <= done * Channels
    BY <1>1, <1>2, <2>1, ProductMonotonic
  <2>3. s * Channels + Channels <= done * Channels /\ done * Channels \in Int
    BY <1>1, <1>5, <2>2
  <2>4. QED
    BY <1>1, <1>3, <1>4, <1>6, <2>3
<1>7. s \in Nat
  <2>1. 0 * Channels <= count
    BY <1>1
  <2>2. s >= 0
    BY <1>6, <2>1
  <2>3. QED
    BY <1>2, <2>2
<1>8. s <= RunTicks
  <2>1. SUFFICES ASSUME RunTicks + 1 <= s
                 PROVE  FALSE
    BY <1>1, <1>2
  <2>2. (RunTicks + 1) * Channels <= s * Channels
    BY <1>1, <1>2, <2>1, ProductMonotonic
  <2>3. (RunTicks + 1) * Channels = ValueCount + Channels
    BY <1>1
  <2>4. QED
    BY <1>1, <1>3, <1>4, <2>2, <2>3
<1>9. QED
  BY <1>4, <1>6, <1>7, <1>8 DEF s

\* A published record is made of values of the wire.
LEMMA PublishedIsWired ==
  ASSUME ListsInv, NEW record, Published(record)
  PROVE  Wired(record, Nat \cup Samples)
<1> DEFINE V == Nat \cup Samples
<1>1. ASSUME NEW s \in 1 .. SensorCount, NEW e \in Edges
      PROVE  record.events[s][e] \in Seq(V) /\ Len(record.events[s][e]) <= Capacity
  <2>1. record.events[s][e] = Stamps(kept[s][e])
    BY DEF Published
  <2>2. kept[s][e] \in Seq(Nat) /\ Len(kept[s][e]) <= Capacity
    BY DEF ListsInv
  <2>3. Stamps(kept[s][e]) \in Seq(Nat) /\ Len(Stamps(kept[s][e])) = Len(kept[s][e])
    BY <2>2, StampsAre
  <2>4. Stamps(kept[s][e]) \in Seq(V)
    BY <2>3
  <2>5. QED
    BY <2>1, <2>2, <2>3, <2>4
<1>2. record.samples \in Seq([1 .. Channels -> V])
  <2>1. record.samples \in Seq([1 .. Channels -> Samples])
    BY DEF Published
  <2>2. [1 .. Channels -> Samples] \subseteq [1 .. Channels -> V]
    OBVIOUS
  <2> HIDE DEF V
  <2>3. QED
    BY <2>1, <2>2
<1>3. Len(record.samples) <= MaxScans
  BY RecordAssumption DEF Published
<1>4. record.launchStart \in V /\ record.launchEnd \in V
  BY DEF Published
<1>5. QED
  BY <1>1, <1>2, <1>3, <1>4 DEF Wired

\* A step that leaves the record and its transfer alone.
LEMMA RecordRestStep ==
  ASSUME RecordInv, UNCHANGED <<data, offset, payload, decoded>>,
         \/ pc' = pc /\ (pc \in {"idle", "sending"} =>
                           UNCHANGED <<kept, run, scansDone, failed>>)
         \/ pc \in RunPoints /\ pc' \in RunPoints
  PROVE  RecordInv'
<1>1. OpenRecord' = OpenRecord
  BY DEF OpenRecord
<1>2. CASE pc' = pc /\ pc \in {"idle", "sending"}
  <2>1. UNCHANGED <<kept, run, scansDone, failed>>
    BY <1>2 DEF RunPoints, SamplingPoints
  <2>2. /\ Published(data)' = Published(data)
        /\ Published(decoded)' = Published(decoded)
        /\ Stream(data)' = Stream(data)
    BY <2>1 DEF Published
  <2>3. QED
    BY <1>2, <2>2 DEF RecordInv, RunPoints, SamplingPoints
<1>3. CASE pc \notin {"idle", "sending"} /\ pc' = pc
  BY <1>1, <1>3 DEF RecordInv
<1>4. CASE pc \in RunPoints /\ pc' \in RunPoints
  BY <1>1, <1>4 DEF RecordInv, RunPoints, SamplingPoints
<1>5. QED
  BY <1>2, <1>3, <1>4

\* The record begins with the sampling.
LEMMA StartSamplingRecord ==
  ASSUME TimeInv, RecordInv, StartSampling
  PROVE  RecordInv'
<1>1. /\ pc = "starting" /\ pc' = "running" /\ UNCHANGED <<offset, payload, decoded>>
      /\ data' = Record(NoEdges, <<>>, timestamp(now), 0)
  BY DEF StartSampling, hostVars
<1>2. timestamp(now) \in Nat
  BY TimestampIs DEF TimeInv
<1>3. /\ data'.launchStart = timestamp(now) /\ data'.launchEnd = 0
  BY <1>1 DEF Record
<1>4. OpenRecord'
  BY <1>1, <1>2, <1>3 DEF OpenRecord
<1>5. QED
  BY <1>1, <1>4 DEF RecordInv

\* The record ends with the sampling.
LEMMA StopAdcRecord ==
  ASSUME TimeInv, RecordInv, StopAdc
  PROVE  RecordInv'
<1>1. /\ pc = "stop" /\ pc' = "publish" /\ UNCHANGED <<offset, payload, decoded>>
      /\ data' = [data EXCEPT !.launchEnd = timestamp(now)]
  BY DEF StopAdc, hostVars
<1>2. timestamp(now) \in Nat
  BY TimestampIs DEF TimeInv
<1>3. OpenRecord
  BY <1>1 DEF RecordInv, RunPoints, SamplingPoints
<1>4. data = [events |-> NoEdges, samples |-> <<>>, launchStart |-> data.launchStart,
              launchEnd |-> data.launchEnd]
  BY <1>3 DEF OpenRecord, Record
<1>5. data' = [events |-> NoEdges, samples |-> <<>>, launchStart |-> data.launchStart,
               launchEnd |-> timestamp(now)]
  BY <1>1, <1>4
<1>6. OpenRecord'
  BY <1>2, <1>3, <1>5 DEF OpenRecord, Record
<1>7. QED
  BY <1>1, <1>6 DEF RecordInv

\* The record of the run is what its buffer and its lists hold.
LEMMA RecordIsPublished ==
  ASSUME AdcInv, CountInv, BufferInv, ListsInv, RecordInv, pc = "publish",
         NEW samples,
         samples = [k \in 1 .. valueCount \div Channels |->
                      [c \in 1 .. Channels |->
                         normalizeBridgeCurrentSamples(valueCount \div Channels)
                           [(k - 1) * Channels + c - 1]]]
  PROVE  Published([data EXCEPT !.events = events, !.samples = samples])
<1> DEFINE scans == valueCount \div Channels
           record == [data EXCEPT !.events = events, !.samples = samples]
<1>1. /\ valueCount \in 0 .. ValueCount /\ scansDone \in Nat
      /\ ~failed => scansDone * Channels <= valueCount
  BY DEF CountInv
<1>2. /\ scans \in Nat /\ scans <= RunTicks /\ scans * Channels <= valueCount
      /\ ~failed => scans >= scansDone
  BY <1>1, ScansCounted
<1> HIDE DEF scans
<1>3. /\ data = Record(NoEdges, <<>>, data.launchStart, data.launchEnd)
      /\ data.launchStart \in Nat /\ data.launchEnd \in Nat
  BY DEF RecordInv, OpenRecord, RunPoints
<1>4. record = [events |-> events, samples |-> samples, launchStart |-> data.launchStart,
                launchEnd |-> data.launchEnd]
  <2>1. data = [events |-> NoEdges, samples |-> <<>>, launchStart |-> data.launchStart,
                launchEnd |-> data.launchEnd]
    BY <1>3 DEF Record
  <2> DEFINE a == data.launchStart
             b == data.launchEnd
  <2>2. data = [events |-> NoEdges, samples |-> <<>>, launchStart |-> a, launchEnd |-> b]
    BY <2>1
  <2> HIDE DEF a, b
  <2> DEFINE r == [data EXCEPT !.events = events]
  <2>3. r = [events |-> events, samples |-> <<>>, launchStart |-> a, launchEnd |-> b]
    BY <2>2
  <2>4. [data EXCEPT !.events = events, !.samples = samples] = [r EXCEPT !.samples = samples]
    OBVIOUS
  <2> HIDE DEF r
  <2>5. [r EXCEPT !.samples = samples] =
          [events |-> events, samples |-> samples, launchStart |-> a, launchEnd |-> b]
    BY ONLY <2>3
  <2>6. QED
    BY <2>4, <2>5 DEF a, b
<1>5. ASSUME NEW k \in 1 .. scans, NEW c \in 1 .. Channels
      PROVE  normalizeBridgeCurrentSamples(scans)[(k - 1) * Channels + c - 1] =
               [run |-> run, scan |-> k, bridge |-> c]
  <2>1. DOMAIN currentData = 0 .. ValueCount - 1 /\ Holding(currentData, run, valueCount)
    BY DEF BufferInv
  <2>2. QED
    BY <1>1, <1>2, <2>1, NormalizedIs
<1>6. samples = [k \in 1 .. scans |-> [c \in 1 .. Channels |->
                   [run |-> run, scan |-> k, bridge |-> c]]]
  BY <1>5 DEF scans
<1>7. run \in Nat
  BY DEF AdcInv, AdcTypes
<1>8. ASSUME NEW k \in 1 .. scans
      PROVE  [c \in 1 .. Channels |-> [run |-> run, scan |-> k, bridge |-> c]]
               \in [1 .. Channels -> Samples]
  BY <1>2, <1>7 DEF Samples
<1>9. samples \in [1 .. scans -> [1 .. Channels -> Samples]]
  <2> DEFINE row(k) == [c \in 1 .. Channels |-> [run |-> run, scan |-> k, bridge |-> c]]
  <2>1. samples = [k \in 1 .. scans |-> row(k)]
    BY <1>6
  <2>2. \A k \in 1 .. scans : row(k) \in [1 .. Channels -> Samples]
    BY <1>8
  <2> HIDE DEF row
  <2>3. QED
    BY ONLY <2>1, <2>2
<1>10. samples \in Seq([1 .. Channels -> Samples]) /\ Len(samples) = scans
  <2> DEFINE S == [1 .. Channels -> Samples]
  <2>1. samples \in [1 .. scans -> S]
    BY <1>9
  <2> HIDE DEF S
  <2>2. samples \in Seq(S) /\ Len(samples) = scans
    BY ONLY <1>2, <2>1, IsSequence
  <2>3. QED
    BY <2>2 DEF S
<1>11. ASSUME NEW k \in 1 .. Len(samples), NEW c \in 1 .. Channels
       PROVE  samples[k][c] = [run |-> run, scan |-> k, bridge |-> c]
  <2>1. k \in 1 .. scans
    BY <1>10
  <2>2. samples[k] = [d \in 1 .. Channels |-> [run |-> run, scan |-> k, bridge |-> d]]
    BY <1>6, <2>1
  <2>3. QED
    BY <2>2
<1>12. \A s \in 1 .. SensorCount, e \in Edges : events[s][e] = Stamps(kept[s][e])
  BY DEF ListsInv
<1>13. /\ record.events = events /\ record.samples = samples
       /\ record.launchStart = data.launchStart /\ record.launchEnd = data.launchEnd
  BY <1>4
<1> HIDE DEF record
<1>14. Published(record)
  BY ONLY <1>2, <1>3, <1>10, <1>11, <1>12, <1>13 DEF Published
<1>15. QED
  BY <1>14 DEF record

\* The transfer begins with a record that is published.
LEMMA PublishRecord ==
  ASSUME AdcInv, CountInv, BufferInv, ListsInv, RecordInv, Publish
  PROVE  RecordInv'
<1> DEFINE samples == [k \in 1 .. valueCount \div Channels |->
                         [c \in 1 .. Channels |->
                            normalizeBridgeCurrentSamples(valueCount \div Channels)
                              [(k - 1) * Channels + c - 1]]]
           record == [data EXCEPT !.events = events, !.samples = samples]
<1>1. /\ pc = "publish" /\ UNCHANGED <<payload, decoded, kept, run, scansDone, failed>>
      /\ offset' = 0
      /\ \/ data' = record /\ pc' = "sending"
         \/ data' = NoRecord /\ pc' = "idle"
  BY DEF Publish, captureVars, hostVars
<1>2. payload = <<>> /\ decoded = NoRecord
  BY <1>1 DEF RecordInv
<1>3. CASE data' = NoRecord /\ pc' = "idle"
  BY <1>1, <1>2, <1>3 DEF RecordInv, RunPoints, SamplingPoints
<1>4. CASE data' = record /\ pc' = "sending"
  <2>1. Published(record)
    <3> HIDE DEF samples
    <3>1. samples = [k \in 1 .. valueCount \div Channels |->
                       [c \in 1 .. Channels |->
                          normalizeBridgeCurrentSamples(valueCount \div Channels)
                            [(k - 1) * Channels + c - 1]]]
      BY DEF samples
    <3>2. QED
      BY <1>1, <3>1, RecordIsPublished
  <2> HIDE DEF record
  <2>2. Published(data)'
    BY <1>1, <1>4, <2>1 DEF Published
  <2>3. Wired(record, Nat \cup Samples)
    BY <2>1, PublishedIsWired
  <2>4. Len(Stream(record)) \in Nat
    BY <2>3, StreamIs, LenProperties
  <2>5. SubSeq(Stream(record), 1, 0) = <<>>
    BY SubSeqEmpty
  <2>6. /\ offset' <= Len(Stream(data'))
        /\ payload' = SubSeq(Stream(data'), 1, offset')
    BY <1>1, <1>2, <1>4, <2>4, <2>5
  <2>7. QED
    BY <1>1, <1>2, <1>4, <2>2, <2>6 DEF RecordInv, RunPoints, SamplingPoints
<1>5. QED
  BY <1>1, <1>3, <1>4

\* The host has the beginning of the stream.
LEMMA SendDataRecord ==
  ASSUME ListsInv, RecordInv, SendData
  PROVE  RecordInv'
<1> DEFINE stream == Stream(data)
           segment == Segment(stream, offset)
<1>1. /\ pc = "sending" /\ UNCHANGED <<pc, data, decoded, kept, run, scansDone, failed>>
      /\ payload' = payload \o serialize(data, offset)
      /\ offset' = offset + Len(serialize(data, offset))
  BY DEF SendData, captureVars, adcVars
<1>2. /\ Published(data) /\ offset \in Nat /\ offset <= Len(stream)
      /\ payload = SubSeq(stream, 1, offset)
  BY <1>1 DEF RecordInv
<1>3. Wired(data, Nat \cup Samples)
  BY <1>2, PublishedIsWired
<1>4. serialize(data, offset) = segment
  BY <1>2, <1>3, SerializeIs
<1>5. stream \in Seq(Byte(Nat \cup Samples)) /\ Len(stream) \in Nat
  BY <1>3, StreamIs, LenProperties
<1>6. /\ offset + Len(segment) \in 0 .. Len(stream)
      /\ SubSeq(stream, 1, offset) \o segment = SubSeq(stream, 1, offset + Len(segment))
  <2>1. offset \in 0 .. Len(stream)
    BY <1>2, <1>5
  <2> HIDE DEF stream
  <2>2. QED
    BY <1>5, <2>1, SegmentsJoin
<1>7. /\ offset' \in Nat /\ offset' <= Len(stream)
      /\ payload' = SubSeq(stream, 1, offset')
  BY <1>1, <1>2, <1>4, <1>5, <1>6
<1>8. Published(data)' = Published(data) /\ Published(decoded)' = Published(decoded)
      /\ Stream(data)' = stream
  BY <1>1 DEF Published
<1>9. QED
  BY <1>1, <1>2, <1>7, <1>8 DEF RecordInv, RunPoints, SamplingPoints

\* What the host decodes is what was published.
LEMMA SendFinalRecord ==
  ASSUME ListsInv, RecordInv, SendFinal
  PROVE  RecordInv'
<1> DEFINE stream == Stream(data)
<1>1. /\ pc = "sending" /\ pc' = "idle" /\ offset >= serializedSize(data)
      /\ UNCHANGED <<data, offset, payload, kept, run, scansDone, failed>>
      /\ decoded' = IF Len(payload) = serializedSize(data)
                      THEN _decode_launch_data(payload) ELSE BadRecord
  BY DEF SendFinal, captureVars, adcVars
<1>2. /\ Published(data) /\ offset \in Nat /\ offset <= Len(stream)
      /\ payload = SubSeq(stream, 1, offset)
  BY <1>1 DEF RecordInv
<1>3. Wired(data, Nat \cup Samples)
  BY <1>2, PublishedIsWired
<1>4. serializedSize(data) = Len(stream) /\ stream \in Seq(Byte(Nat \cup Samples))
      /\ Len(stream) \in Nat
  BY <1>3, SizeIs, StreamIs, LenProperties
<1>5. offset = Len(stream)
  BY <1>1, <1>2, <1>4
<1>6. payload = stream
  BY <1>2, <1>4, <1>5, SubSeqFull
<1>7. decoded' = _decode_launch_data(stream)
  BY <1>1, <1>4, <1>6
<1>8. _decode_launch_data(stream) =
        Record(SensorLists(data), data.samples, data.launchStart, data.launchEnd)
  BY <1>3, RoundTrip
<1>9. /\ decoded'.events = SensorLists(data) /\ decoded'.samples = data.samples
      /\ decoded'.launchStart = data.launchStart /\ decoded'.launchEnd = data.launchEnd
  BY <1>7, <1>8 DEF Record
<1>10. \A s \in 1 .. SensorCount, e \in Edges : SensorLists(data)[s][e] = data.events[s][e]
  BY DEF SensorLists, Rising, Falling, Edges
<1>11. Published(decoded)'
  <2>1. \A s \in 1 .. SensorCount, e \in Edges : decoded'.events[s][e] = Stamps(kept'[s][e])
    BY <1>1, <1>2, <1>9, <1>10 DEF Published
  <2>2. /\ decoded'.launchStart \in Nat /\ decoded'.launchEnd \in Nat
        /\ decoded'.samples \in Seq([1 .. Channels -> Samples])
        /\ Len(decoded'.samples) <= RunTicks
        /\ ~failed' => Len(decoded'.samples) >= scansDone'
    BY <1>1, <1>2, <1>9 DEF Published
  <2>3. \A k \in 1 .. Len(decoded'.samples), c \in 1 .. Channels :
          decoded'.samples[k][c] = [run |-> run', scan |-> k, bridge |-> c]
    BY <1>1, <1>2, <1>9 DEF Published
  <2>4. QED
    BY ONLY <2>1, <2>2, <2>3 DEF Published
<1>12. QED
  BY <1>1, <1>2, <1>11 DEF RecordInv, RunPoints, SamplingPoints

\* The record is that of the run, from its start to the host.
LEMMA RecordStep ==
  ASSUME TimeInv, AdcInv, CountInv, BufferInv, ListsInv, CaptureInv, RecordInv, [Next]_vars
  PROVE  RecordInv'
<1> USE DEF RunPoints, SamplingPoints
<1>1. ASSUME UNCHANGED <<pc, data, offset, payload, decoded, kept, run, scansDone, failed>>
      PROVE  RecordInv'
  BY <1>1, RecordRestStep
<1>2. ASSUME UNCHANGED <<data, offset, payload, decoded>>, pc \in RunPoints, pc' \in RunPoints
      PROVE  RecordInv'
  BY <1>2, RecordRestStep
<1>3. CASE StartRun
  BY <1>3 DEF StartRun, RecordInv
<1>4. CASE StartSampling
  BY <1>4, StartSamplingRecord
<1>5. CASE StopAdc
  BY <1>5, StopAdcRecord
<1>6. CASE Publish
  BY <1>6, PublishRecord
<1>7. CASE SendData
  BY <1>7, SendDataRecord
<1>8. CASE SendFinal
  BY <1>8, SendFinalRecord
<1>9. CASE \E line \in Lines : SensorEdge(line)
  <2> SUFFICES ASSUME NEW line \in Lines, SensorEdge(line)
               PROVE  RecordInv'
    BY <1>9
  <2>1. UNCHANGED <<data, offset, payload, decoded, pc, run, scansDone, failed>>
    BY DEF SensorEdge, adcVars, recordVars, hostVars
  <2>2. pc \in {"idle", "sending"} => ~launchCapture
    BY DEF CaptureInv, CapturePoints
  <2>3. ~launchCapture => kept' = kept
    BY DEF SensorEdge, handleSensorInterrupt
  <2>4. QED
    BY <2>1, <2>2, <2>3, RecordRestStep
<1>10. CASE AdcFails
  <2>1. dma = "BUSY" /\ UNCHANGED <<data, offset, payload, decoded, pc>>
    BY <1>10 DEF AdcFails, onSequenceErrorFromIsr, hostVars
  <2>2. pc \notin {"idle", "sending"}
    BY <2>1 DEF AdcInv, AdcRests, Sampling
  <2>3. QED
    BY <2>1, <2>2, RecordRestStep
<1>11. CASE FinishRun
  BY <1>2, <1>11 DEF FinishRun, hostVars
<1>12. CASE EndCapture
  BY <1>2, <1>12 DEF EndCapture, hostVars
<1>13. CASE CountValues
  BY <1>2, <1>13 DEF CountValues, hostVars
<1>14. CASE SetSamplingRate
  BY <1>1, <1>14 DEF SetSamplingRate, captureVars, adcVars, hostVars
<1>15. CASE AdcConverts
  BY <1>1, <1>15 DEF AdcConverts, Convert, captureVars, recordVars, hostVars
<1>16. CASE SegmentEnds
  BY <1>1, <1>16 DEF SegmentEnds, onSequenceCompleteFromIsr, captureVars, recordVars, hostVars
<1>17. CASE Tick
  BY <1>1, <1>17 DEF Tick, Trigger, recordVars, hostVars
<1>18. CASE UNCHANGED vars
  BY <1>1, <1>18 DEF vars, captureVars, adcVars, recordVars, hostVars
<1>19. QED
  BY <1>3, <1>4, <1>5, <1>6, <1>7, <1>8, <1>9, <1>10, <1>11, <1>12, <1>13,
     <1>14, <1>15, <1>16, <1>17, <1>18 DEF Next

\* The inductive invariant of a record holds in every state.
LEMMA RecordAlways == Spec => []IInv
<1>1. Init => RecordInv
  BY DEF Init, RecordInv, RunPoints, SamplingPoints
<1>2. TimeInv /\ AdcInv /\ CountInv /\ BufferInv /\ ListsInv /\ CaptureInv /\ RecordInv
        /\ [Next]_vars => RecordInv'
  BY RecordStep
<1>3. Spec => []RecordInv
  BY <1>1, <1>2, TimeAlways, AdcAlways, CountAlways, BufferAlways, ListsAlways,
     CaptureAlways, PTL DEF Spec
<1>4. TimeInv /\ AdcInv /\ CountInv /\ BufferInv /\ ListsInv /\ CaptureInv /\ RecordInv => IInv
  BY DEF IInv
<1>5. QED
  BY <1>3, <1>4, TimeAlways, AdcAlways, CountAlways, BufferAlways, ListsAlways,
     CaptureAlways, PTL

-----------------------------------------------------------------------------
(* What the host can rely on.                                               *)

\* The sensors, the sampler and the steps of a run keep to their ranges: no list
\* grows beyond its capacity, no segment beyond the counter of the DMA, no write
\* leaves the buffer, and no more scans are complete than the run has periods.
THEOREM RecordTypeTheorem == Spec => []TypeOK
<1>1. ASSUME IInv
      PROVE  TypeOK
  <2>1. TimeInv /\ AdcInv /\ CountInv /\ BufferInv /\ ListsInv /\ CaptureInv /\ RecordInv
    BY <1>1 DEF IInv
  <2>2. CaptureType
    <3>1. now \in Nat
      BY <2>1 DEF TimeInv
    <3>2. /\ lastTimestamp \in [Lines -> Timestamp] /\ timestampValid \in [Lines -> BOOLEAN]
          /\ genuine \in [Lines -> Nat \cup {Never}]
          /\ launchCapture = (pc \in CapturePoints)
      BY <2>1 DEF CaptureInv
    <3>3. launchCapture \in BOOLEAN
      <4> DEFINE capturing == pc \in CapturePoints
      <4>1. capturing \in BOOLEAN
        OBVIOUS
      <4>2. launchCapture = capturing
        BY <3>2, Zenon
      <4> HIDE DEF capturing
      <4>3. QED
        BY <4>1, <4>2
    <3>4. ASSUME NEW s \in 1 .. SensorCount, NEW e \in Edges
          PROVE  events[s][e] \in Seq(Timestamp) /\ Len(events[s][e]) <= Capacity
      <4>1. /\ events[s][e] = Stamps(kept[s][e]) /\ kept[s][e] \in Seq(Nat)
            /\ Len(kept[s][e]) <= Capacity
        BY <2>1 DEF ListsInv
      <4>2. QED
        BY <4>1, StampsAre
    <3>5. QED
      BY <3>1, <3>2, <3>3, <3>4 DEF CaptureType
  <2>3. AdcType
    BY <2>1 DEF AdcType, AdcInv, AdcTypes, BufferInv
  <2>4. scansDone \in 0 .. RunTicks + 1 /\ valueCount \in 0 .. ValueCount
    BY <2>1, RecordAssumption DEF CountInv
  <2>5. started \in Nat /\ samplingPeriod \in Periods /\ offset \in Nat /\ failed \in BOOLEAN
    BY <2>1 DEF TimeInv, RecordInv, AdcInv, AdcTypes
  <2>6. pc \in {"idle", "starting", "running", "endCapture", "count", "stop", "publish",
                "sending"}
    BY <2>1 DEF TimeInv, SamplingPoints
  <2>7. QED
    BY <2>2, <2>3, <2>4, <2>5, <2>6 DEF TypeOK
<1>2. QED
  BY <1>1, RecordAlways, PTL

\* The edges the host decodes are those the sensors should have kept in this run
\* and no others, in order, with the stamps of their times: over the debounce, the
\* wrap of the timer, the limit of the lists, the wire stream and its segments.
THEOREM EdgesTheorem == Spec => []EdgesReachTheHost
<1>1. ASSUME IInv
      PROVE  EdgesReachTheHost
  <2> SUFFICES ASSUME HasRecord
               PROVE  /\ decoded # BadRecord
                      /\ \A s \in 1 .. SensorCount, e \in Edges :
                           decoded.events[s][e] =
                             [i \in 1 .. Len(kept[s][e]) |-> timestamp(kept[s][e][i])]
    BY DEF EdgesReachTheHost
  <2>1. Published(decoded)
    BY <1>1 DEF IInv, RecordInv, HasRecord
  <2>2. decoded # BadRecord
    BY <2>1 DEF Published, BadRecord, Record
  <2>3. QED
    BY <2>1, <2>2 DEF Published, Stamps
<1>2. QED
  BY <1>1, RecordAlways, PTL

\* The samples the host decodes are the first scans of this run, each whole, in order
\* and under the bridge it was measured at, and none that was complete when the
\* timers stopped is missing unless the DMA failed: over the ends of segments, a scan
\* cut by the end of the run, the values of earlier runs and the wire stream.
THEOREM SamplesTheorem == Spec => []SamplesReachTheHost
<1>1. ASSUME IInv
      PROVE  SamplesReachTheHost
  <2> SUFFICES ASSUME HasRecord
               PROVE  /\ decoded # BadRecord
                      /\ \A k \in 1 .. Len(decoded.samples), c \in 1 .. Channels :
                           decoded.samples[k][c] = [run |-> run, scan |-> k, bridge |-> c]
                      /\ ~failed => Len(decoded.samples) >= scansDone
    BY DEF SamplesReachTheHost
  <2>1. Published(decoded)
    BY <1>1 DEF IInv, RecordInv, HasRecord
  <2>2. decoded # BadRecord
    BY <2>1 DEF Published, BadRecord, Record
  <2>3. QED
    BY <2>1, <2>2 DEF Published
<1>2. QED
  BY <1>1, RecordAlways, PTL
=============================================================================

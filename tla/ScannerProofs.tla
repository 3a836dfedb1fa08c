---------------------------- MODULE ScannerProofs ----------------------------
(***************************************************************************)
(* What SdrDevice guarantees to any caller, for any bands, any number of   *)
(* recorders and any lists of recordings.  The scanner uses its device as  *)
(* SdrDevice requires, for any schedules and any behaviour of the          *)
(* detectors, so that the guarantees hold in it; and what the worker adds. *)
(***************************************************************************)
EXTENDS Scanner, FiniteFacts

-----------------------------------------------------------------------------
(* The device, in the hands of any caller *)

\* How far setFrequencyRange is.
TuningInv ==
  /\ call \in {"unroute", "tune", "route"} => target \in Frequency
  /\ call \in {"tune", "route"} => selector = 0
  /\ call = "route" => tuned = target \/ ~tuneOk

\* How far updateRecordings' loop is: every recording before next is served.
Handled(f) ==
  f \in Recorded \/ (Cardinality(DOMAIN recorders) = RecordersCount /\ f \in ignored)

LoopInv ==
  /\ call # "apply" => next = 1
  /\ call = "apply" =>
       /\ Recorded \subseteq Wanted(recordings)
       /\ \A i \in 1..Len(recordings) :
            i < next => Handled(recordings[i].recordingFrequency)

DeviceInv ==
  /\ DeviceTypeOK
  /\ TuningInv
  /\ RoutedOnlyWhenTuned
  /\ DistinctRecorders
  /\ WithinLimit
  /\ IgnoredIsCurrent
  /\ LoopInv

-----------------------------------------------------------------------------
(* Lemmas *)

\* The recorders are finitely many, as are those any call leaves.
LEMMA RecordersFinite ==
  ASSUME NEW S \in SUBSET RecorderIds
  PROVE  IsFiniteSet(S) /\ Cardinality(S) \in Nat
BY DeviceAssumption, FS_Subset, FS_CardinalityType

\* A processor whose band has a given centre exists when a band has that
\* centre, and the map of the constructor finds one (sdr_device.cpp:47).
LEMMA ProcessorOfBand ==
  ASSUME NEW c \in Range(Ranges)
  PROVE  ProcessorIndex(c) \in 1..Len(Ranges) /\ Ranges[ProcessorIndex(c)] = c
<1> DEFINE D == {Len(Ranges) - i : i \in {j \in 1..Len(Ranges) : Ranges[j] = c}}
<1>1. Len(Ranges) \in Nat /\ DOMAIN Ranges = 1..Len(Ranges)
  BY DeviceAssumption
<1>2. PICK j \in 1..Len(Ranges) : Ranges[j] = c
  BY <1>1 DEF Range
<1>3. D \subseteq Nat /\ D # {}
  BY <1>1, <1>2
<1>4. PICK d \in D : \A e \in D : d <= e
  BY <1>3, LeastNat
<1>5. PICK i \in 1..Len(Ranges) : Ranges[i] = c /\ d = Len(Ranges) - i
  BY <1>4
<1>6. ASSUME NEW k \in i + 1..Len(Ranges), Ranges[k] = c
      PROVE  FALSE
  <2>1. k \in 1..Len(Ranges)
    BY <1>1, <1>6
  <2>2. Len(Ranges) - k \in D
    BY <2>1, <1>6
  <2>3. Len(Ranges) - k \in Nat /\ d \in Nat /\ Len(Ranges) - k < d
    BY <1>1, <1>5, <1>6, <2>1
  <2>4. d <= Len(Ranges) - k
    BY <1>4, <2>2
  <2> QED
    BY <2>3, <2>4
<1> QED
  BY <1>5, <1>6 DEF ProcessorIndex

-----------------------------------------------------------------------------
(* The inductive invariant *)

\* A device nobody called yet.
LEMMA DeviceInitInv == DeviceInit => DeviceInv
<1> SUFFICES ASSUME DeviceInit PROVE DeviceInv
  OBVIOUS
<1>1. DOMAIN recorders = {} /\ Cardinality({}) = 0
  BY FS_EmptySet DEF DeviceInit
<1>2. Len(Ranges) \in Nat /\ RecordersCount \in Nat
  BY DeviceAssumption
<1> QED
  BY <1>1, <1>2 DEF DeviceInit, DeviceInv, DeviceTypeOK, TuningInv, RoutedOnlyWhenTuned,
     DistinctRecorders, WithinLimit, IgnoredIsCurrent, LoopInv, Handled, Recorded

\* The steps of setFrequencyRange leave the recorders alone.
RecordingPart ==
  /\ DistinctRecorders
  /\ WithinLimit
  /\ IgnoredIsCurrent

LEMMA RecordingPartUnchanged ==
  ASSUME RecordingPart, UNCHANGED <<recorders, ignored>>
  PROVE  RecordingPart'
BY DEF RecordingPart, DistinctRecorders, WithinLimit, IgnoredIsCurrent, Recorded

\* setFrequencyRange, called and in progress: the selector is at the null sink
\* from before the tuner moves until its new band's processor is found.
LEMMA TuningStep ==
  ASSUME DeviceInv,
         (\E c \in Frequency : SetFrequencyRange(c)) \/ Unroute \/ Tune \/ Route
  PROVE  DeviceInv'
<1> USE DEF DeviceInv, DeviceTypeOK, TuningInv, RoutedOnlyWhenTuned, LoopInv
<1>1. UNCHANGED <<recordings, next, flushed, recorders, ignored>>
  BY DEF SetFrequencyRange, Unroute, Tune, SetCenterFrequency, Route
<1>2. RecordingPart'
  BY <1>1, RecordingPartUnchanged DEF RecordingPart
<1>3. call # "apply" /\ call' # "apply" /\ LoopInv'
  BY <1>1 DEF SetFrequencyRange, Unroute, Tune, SetCenterFrequency, Route
<1>4. CASE \E c \in Frequency : SetFrequencyRange(c)
  BY <1>1, <1>2, <1>3, <1>4 DEF SetFrequencyRange, RecordingPart
<1>5. CASE Unroute
  <2>1. 0 \in 0..Len(Ranges)
    BY DeviceAssumption
  <2> QED
    BY <1>1, <1>2, <1>3, <1>5, <2>1 DEF Unroute, RecordingPart
<1>6. CASE Tune
  BY <1>1, <1>2, <1>3, <1>6 DEF Tune, SetCenterFrequency, RecordingPart
<1>7. CASE Route
  <2>1. CASE target \in Range(Ranges)
    <3>1. selector' \in 1..Len(Ranges) /\ Ranges[selector'] = target
      BY <1>7, <2>1, ProcessorOfBand DEF Route
    <3>2. selector' \in 0..Len(Ranges)
      BY <3>1, DeviceAssumption
    <3> QED
      BY <1>1, <1>2, <1>3, <1>7, <3>1, <3>2 DEF Route, RecordingPart
  <2>2. CASE target \notin Range(Ranges)
    BY <1>1, <1>2, <1>3, <1>7, <2>2 DEF Route, RecordingPart
  <2> QED
    BY <2>1, <2>2
<1> QED
  BY <1>4, <1>5, <1>6, <1>7

\* updateRecordings' first line: a call begins with every listed recording to do.
LEMMA UpdateRecordingsStep ==
  ASSUME DeviceInv, NEW list \in Seq(Recording), UpdateRecordings(list)
  PROVE  DeviceInv'
<1>1. RecordingPart'
  BY RecordingPartUnchanged DEF DeviceInv, RecordingPart, UpdateRecordings
<1>2. next' = 1 /\ next' \in 1..Len(list) + 1
  BY DEF DeviceInv, LoopInv, UpdateRecordings
<1> QED
  BY <1>1, <1>2 DEF DeviceInv, DeviceTypeOK, TuningInv, RoutedOnlyWhenTuned, LoopInv,
     UpdateRecordings, RecordingPart

\* Erasing can only make room, and when it does the refused are forgotten.
LEMMA EraseStep ==
  ASSUME DeviceInv, Erase
  PROVE  DeviceInv'
<1> DEFINE active == {id \in DOMAIN recorders :
                        recorders[id].recordingFrequency \in Wanted(recordings)}
<1>1. recorders' = [id \in active |-> recorders[id]]
  BY DEF Erase, Restrict
<1>2. DOMAIN recorders' = active /\ \A id \in active : recorders'[id] = recorders[id]
  BY <1>1
<1>3. /\ active \subseteq DOMAIN recorders
      /\ DOMAIN recorders \in SUBSET RecorderIds
      /\ active \in SUBSET RecorderIds
  BY DEF DeviceInv, DeviceTypeOK
<1>4. /\ Cardinality(active) \in Nat /\ Cardinality(DOMAIN recorders) \in Nat
      /\ Cardinality(active) <= Cardinality(DOMAIN recorders)
  BY <1>3, RecordersFinite, FS_Subset
<1>5. RecordersCount \in Nat
  BY DeviceAssumption
<1>6. WithinLimit'
  BY <1>2, <1>4, <1>5 DEF WithinLimit, DeviceInv
<1>7. DistinctRecorders'
  BY <1>2 DEF DistinctRecorders, DeviceInv
<1>8. Recorded' \subseteq Recorded /\ Recorded' \subseteq Wanted(recordings)
  BY <1>2 DEF Recorded
<1>9. ignored' = IF Cardinality(active) < RecordersCount THEN {} ELSE ignored
  BY <1>2 DEF Erase, HasRoom
<1>10. IgnoredIsCurrent'
  BY <1>2, <1>4, <1>5, <1>6, <1>8, <1>9 DEF IgnoredIsCurrent, WithinLimit, DeviceInv
<1>11. DeviceTypeOK'
  <2>1. \A id \in DOMAIN recorders' : recorders'[id] \in Recorder
    BY <1>2 DEF DeviceInv, DeviceTypeOK
  <2> QED
    BY <1>2, <1>3, <1>9, <2>1 DEF DeviceInv, DeviceTypeOK, Erase
<1>12. LoopInv'
  BY <1>8 DEF DeviceInv, DeviceTypeOK, LoopInv, Erase
<1> QED
  BY <1>6, <1>7, <1>10, <1>11, <1>12
     DEF DeviceInv, TuningInv, RoutedOnlyWhenTuned, Erase

\* One turn of the loop: the recording at next is flushed, started or refused,
\* and those before it stay served.
LEMMA ApplyStep ==
  ASSUME DeviceInv, Apply
  PROVE  DeviceInv'
<1>1. /\ RecordersCount \in Nat
      /\ DOMAIN recorders \in SUBSET RecorderIds
      /\ IsFiniteSet(DOMAIN recorders)
      /\ Cardinality(DOMAIN recorders) \in Nat
  BY DeviceAssumption, RecordersFinite DEF DeviceInv, DeviceTypeOK
<1>2. /\ Len(recordings) \in Nat
      /\ next \in 1..Len(recordings)
      /\ next' \in 1..Len(recordings) + 1
      /\ recordings \in Seq(Recording)
  BY DEF DeviceInv, DeviceTypeOK, Apply
<1> PICK r \in Recording : r = recordings[next]
  BY <1>2
<1> DEFINE f == r.recordingFrequency
<1>f. f \in Frequency /\ f \in Wanted(recordings)
  BY <1>2 DEF Recording, Wanted
<1>3. \A i \in 1..Len(recordings) : i < next' => i < next \/ i = next
  BY <1>2 DEF Apply
\* It is enough that what was served stays so, and r is served.
<1>4. ASSUME RecordingPart', Handled(f)',
             \A g \in Wanted(recordings) : Handled(g) => Handled(g)',
             Recorded' \subseteq Recorded \cup {f},
             DOMAIN recorders' \subseteq RecorderIds,
             \A id \in DOMAIN recorders' : recorders'[id] \in Recorder,
             ignored' \subseteq Frequency, flushed' \subseteq RecorderIds
      PROVE  DeviceInv'
  <2>1. DeviceTypeOK'
    BY <1>2, <1>4 DEF DeviceInv, DeviceTypeOK, Apply
  <2>2. Recorded' \subseteq Wanted(recordings)
    BY <1>f, <1>4 DEF DeviceInv, LoopInv, Apply
  <2>3. \A i \in 1..Len(recordings) :
          i < next' => Handled(recordings[i].recordingFrequency)'
    <3> SUFFICES ASSUME NEW i \in 1..Len(recordings), i < next'
                 PROVE  Handled(recordings[i].recordingFrequency)'
      OBVIOUS
    <3>1. recordings[i].recordingFrequency \in Wanted(recordings)
      BY DEF Wanted
    <3>2. CASE i < next
      <4>1. Handled(recordings[i].recordingFrequency)
        BY <3>2 DEF DeviceInv, LoopInv, Apply
      <4>2. recordings' = recordings
        BY DEF Apply
      <4> QED
        BY <1>4, <3>1, <4>1, <4>2
    <3>3. CASE i = next
      BY <1>4, <3>3 DEF Apply, Handled
    <3> QED
      BY <1>3, <3>2, <3>3
  <2>4. LoopInv'
    BY <2>2, <2>3 DEF LoopInv, Apply
  <2> QED
    BY <1>4, <2>1, <2>4 DEF DeviceInv, RecordingPart, TuningInv, RoutedOnlyWhenTuned, Apply
<1>5. CASE Flush(r)
  <2>1. UNCHANGED <<recorders, ignored>>
    BY <1>5 DEF Flush
  <2>2. RecordingPart'
    BY <2>1, RecordingPartUnchanged DEF DeviceInv, RecordingPart
  <2>3. f \in Recorded
    BY <1>5 DEF Flush, FindRecorder, Recorded
  <2>4. FindRecorder(r) \subseteq RecorderIds
    BY <1>1 DEF FindRecorder
  <2>5. Recorded' = Recorded /\ \A g : Handled(g)' <=> Handled(g)
    BY <2>1 DEF Recorded, Handled
  <2>6. flushed' \subseteq RecorderIds
    BY <1>5, <2>4 DEF Flush, DeviceInv, DeviceTypeOK
  <2> HIDE DEF f
  <2> QED
    BY <1>4, <2>1, <2>2, <2>3, <2>5, <2>6 DEF Handled, DeviceInv, DeviceTypeOK
<1>6. CASE Ignore(r)
  <2>1. UNCHANGED <<recorders, flushed>> /\ ignored' = ignored \cup {f}
    BY <1>6 DEF Ignore
  <2>2. Cardinality(DOMAIN recorders) = RecordersCount
    BY <1>1, <1>6 DEF Ignore, HasRoom, DeviceInv, WithinLimit
  <2>3. f \notin Recorded /\ Recorded' = Recorded
    BY <1>6, <2>1 DEF Ignore, FindRecorder, Recorded
  <2>4. RecordingPart'
    BY <2>1, <2>2, <2>3
       DEF RecordingPart, DistinctRecorders, WithinLimit, IgnoredIsCurrent, DeviceInv
  <2>5. Handled(f)' /\ \A g : Handled(g) => Handled(g)'
    BY <2>1, <2>2, <2>3 DEF Handled
  <2> QED
    BY <1>f, <1>4, <2>1, <2>3, <2>4, <2>5 DEF DeviceInv, DeviceTypeOK
<1>7. CASE Start(r)
  <2> DEFINE id == CHOOSE k \in RecorderIds : k \notin DOMAIN recorders
  <2>1. id \in RecorderIds /\ id \notin DOMAIN recorders
    <3>1. DOMAIN recorders # RecorderIds
      BY <1>1, <1>7, DeviceAssumption, FS_CardinalityType DEF Start, HasRoom
    <3> QED
      BY <1>1, <3>1
  <2>2. recorders' = [k \in DOMAIN recorders \cup {id} |->
                        IF k = id THEN RecorderOf(r) ELSE recorders[k]]
    BY <1>7 DEF Start
  <2>3. /\ DOMAIN recorders' = DOMAIN recorders \cup {id}
        /\ recorders'[id] = RecorderOf(r)
        /\ \A k \in DOMAIN recorders : recorders'[k] = recorders[k]
    BY <2>1, <2>2
  <2>4. RecorderOf(r) \in Recorder /\ RecorderOf(r).recordingFrequency = f
    BY <1>2 DEF RecorderOf, Recording, Recorder
  <2>5. Cardinality(DOMAIN recorders') = Cardinality(DOMAIN recorders) + 1
    BY <1>1, <2>1, <2>3, FS_AddElement
  <2>6. Cardinality(DOMAIN recorders) < RecordersCount
    BY <1>7 DEF Start, HasRoom
  <2>7. ignored = {} /\ ignored' = {} /\ flushed' = flushed
    BY <1>1, <1>7, <2>6 DEF Start, DeviceInv, IgnoredIsCurrent
  <2>8. Recorded' = Recorded \cup {f}
    BY <2>3, <2>4, ZenonT(30) DEF Recorded
  <2>9. f \notin Recorded
    BY <1>7 DEF Start, FindRecorder, Recorded
  <2>10. DistinctRecorders'
    <3> SUFFICES ASSUME NEW a \in DOMAIN recorders', NEW b \in DOMAIN recorders',
                        recorders'[a].recordingFrequency = recorders'[b].recordingFrequency
                 PROVE  a = b
      BY DEF DistinctRecorders
    <3>1. \A k \in DOMAIN recorders : recorders'[k].recordingFrequency # f
      BY <2>3, <2>9 DEF Recorded
    <3> QED
      BY <2>3, <2>4, <3>1 DEF DeviceInv, DistinctRecorders
  <2>11. RecordingPart'
    BY <1>1, <2>5, <2>6, <2>7, <2>10 DEF RecordingPart, WithinLimit, IgnoredIsCurrent
  <2>12. Handled(f)' /\ \A g : Handled(g) => Handled(g)'
    BY <2>7, <2>8 DEF Handled
  <2>13. \A k \in DOMAIN recorders' : recorders'[k] \in Recorder
    BY <2>3, <2>4 DEF DeviceInv, DeviceTypeOK
  <2>14. DOMAIN recorders' \subseteq RecorderIds
    BY <1>1, <2>1, <2>3
  <2> QED
    BY <1>4, <2>7, <2>8, <2>11, <2>12, <2>13, <2>14 DEF DeviceInv, DeviceTypeOK
<1> QED
  BY <1>5, <1>6, <1>7 DEF Apply

\* The call returns.
LEMMA ReturnStep ==
  ASSUME DeviceInv, Return
  PROVE  DeviceInv'
<1>1. RecordingPart'
  BY RecordingPartUnchanged DEF DeviceInv, RecordingPart, Return
<1>2. /\ recordings' = <<>> /\ next' = 1
      /\ recordings' \in Seq(Recording) /\ next' \in 1..Len(recordings') + 1
  BY DEF Return
<1> QED
  BY <1>1, <1>2 DEF DeviceInv, DeviceTypeOK, TuningInv, RoutedOnlyWhenTuned, LoopInv,
     Return, RecordingPart

\* Every step of the device, and every call, keeps the invariant.
LEMMA DeviceNextInv ==
  ASSUME DeviceInv, [DeviceNext]_deviceVars
  PROVE  DeviceInv'
<1>1. CASE UNCHANGED deviceVars
  BY <1>1 DEF deviceVars, DeviceInv, DeviceTypeOK, TuningInv, RoutedOnlyWhenTuned,
     DistinctRecorders, WithinLimit, IgnoredIsCurrent, LoopInv, Handled, Recorded
<1>2. CASE DeviceNext
  BY <1>2, TuningStep, UpdateRecordingsStep, EraseStep, ApplyStep, ReturnStep
     DEF DeviceNext, DeviceStep
<1> QED
  BY <1>1, <1>2

\* The invariant says what the properties do.
LEMMA DeviceInvServes == DeviceInv => EveryTransmissionServed
<1> SUFFICES ASSUME DeviceInv, call = "apply", next > Len(recordings)
             PROVE  /\ Recorded \subseteq Wanted(recordings)
                    /\ \A f \in Wanted(recordings) \ Recorded :
                         Cardinality(DOMAIN recorders) = RecordersCount /\ f \in ignored
  BY DEF EveryTransmissionServed
<1>1. \A i \in 1..Len(recordings) : i < next
  BY DEF DeviceInv, DeviceTypeOK
<1>2. \A f \in Wanted(recordings) : Handled(f)
  BY <1>1 DEF DeviceInv, LoopInv, Wanted
<1> QED
  BY <1>2 DEF DeviceInv, LoopInv, Handled

-----------------------------------------------------------------------------
\* Whoever calls the device, one call at a time: the selector is set to a
\* processor only while the tuner is on its band (or has failed to get there), no
\* frequency has two recorders, the limit holds, and no listed transmission is left
\* aside.
THEOREM DeviceSafety ==
  DeviceSpec => [](/\ DeviceTypeOK /\ RoutedOnlyWhenTuned /\ DistinctRecorders
                   /\ WithinLimit /\ IgnoredIsCurrent /\ EveryTransmissionServed)
<1>1. DeviceInv => /\ DeviceTypeOK /\ RoutedOnlyWhenTuned /\ DistinctRecorders
                   /\ WithinLimit /\ IgnoredIsCurrent /\ EveryTransmissionServed
  BY DeviceInvServes DEF DeviceInv
<1> QED
  BY <1>1, DeviceInitInv, DeviceNextInv, PTL DEF DeviceSpec

-----------------------------------------------------------------------------
(* The scanner *)

\* Where the worker is in worker() and runScheduler() fixes what it holds.
ControlInv ==
  /\ N = 0 => pc \notin {"entered", "wait"}
  /\ pc = "start" => call = "idle" /\ recordings = <<>>
  /\ N >= 1 /\ pc \notin {"start", "done"} => cur \in 1..N
  /\ pc = "schedApply" => sched # NoSchedule

TypeInv == TypeOK /\ ControlInv

\* In which band the worker is, and how far the radio is in following it.
OnBand ==
  /\ selector = ProcessorIndex(Ranges[cur])
  /\ tuned = Ranges[cur] \/ ~tuneOk

FollowsBand ==
  /\ call \in {"idle", "unroute", "tune", "route"}
  /\ call # "idle" => target = Ranges[cur]
  /\ call = "idle" => OnBand

ListensInv ==
  N >= 1 =>
    /\ pc \in {"entered", "schedDone"} => FollowsBand
    /\ pc \in {"loop", "poll", "wait"} => OnBand /\ call \in {"idle", "erase", "apply"}

\* Whose recordings are where.
Heard(list) == \A k \in 1..Len(list) : list[k].source = "scanner"

SourceInv ==
  /\ slot # NoValue => Heard(slot)
  /\ ~Scheduling =>
       Heard(recordings) /\ \A id \in DOMAIN recorders : recorders[id].source = "scanner"
  /\ pc = "schedRestore" =>
       /\ call \in {"idle", "erase", "apply"}
       /\ call # "erase" => DOMAIN recorders = {}
  /\ pc \in {"schedRestore", "schedDone"} => recordings = <<>>
  /\ pc = "schedDone" =>
       DOMAIN recorders = {} /\ call \in {"idle", "unroute", "tune", "route"}

ScannerInv == TypeInv /\ DeviceInv /\ ListensInv /\ SourceInv

-----------------------------------------------------------------------------
(* Lemmas *)

\* There are finitely many bands, each with a centre.
LEMMA BandsType == N \in Nat /\ \A i \in 1..N : Ranges[i] \in Frequency
BY DeviceAssumption DEF N

\* The next band is a band.
LEMMA NextBand ==
  ASSUME NEW i \in 1..N
  PROVE  (i % N) + 1 \in 1..N
<1>1. N \in Nat \ {0} /\ i \in Nat
  BY BandsType
<1>2. i % N \in 0..N - 1
  BY <1>1
<1> QED
  BY <1>1, <1>2

\* A schedule names a centre and a list of recordings; detectors notify lists.
LEMMA InputTypes ==
  /\ \A s \in Schedules : s.range \in Frequency /\ s.recordings \in Seq(Recording)
  /\ \A i \in 1..N : Detections[i] \subseteq Seq(Recording)
  /\ <<>> \in Seq(Recording) /\ NoValue \notin Seq(Recording)
BY ScannerAssumption DEF ScheduledRecording

\* The steps that leave the device alone.
DeviceIdle ==
  \/ Start0 \/ StartTimer \/ LoopContinue \/ Finish \/ PollNothing \/ PollFound
  \/ SchedSame \/ SchedNext \/ (N = 0 /\ SchedRestore) \/ SchedDone \/ Stopper \/ Environment

\* Every step of the scanner is, to the device, one of its own steps, one call
\* made while no other is in progress, or nothing.
LEMMA DeviceStepOrCall ==
  ASSUME TypeInv, [Next]_vars
  PROVE  [DeviceNext]_deviceVars
<1>1. ASSUME DeviceIdle PROVE UNCHANGED deviceVars
  BY <1>1 DEF DeviceIdle, Start0, StartTimer, LoopContinue, Finish, PollNothing, PollFound,
     SchedSame, SchedNext, SchedRestore, SchedDone, Stopper, StopFlag, StopNotify, Join,
     Environment, SourceSamples, RadioFallsSilent, TransmissionWork, RangeTimePasses,
     ScheduleChanges
<1>2. CASE Start1
  BY <1>2, BandsType DEF Start1, EnterRange, DeviceNext
<1>3. CASE LoopLeave
  <2>1. cur \in 1..N
    BY <1>3, BandsType DEF LoopLeave, MoveOn, TypeInv, ControlInv
  <2> QED
    BY <1>3, <2>1, NextBand, BandsType DEF LoopLeave, EnterRange, DeviceNext
<1>4. CASE Wait
  BY <1>4 DEF Wait, WaitFor, TypeInv, TypeOK, DeviceNext
<1>5. CASE SchedTune
  BY <1>5, InputTypes DEF SchedTune, Serve, TypeInv, TypeOK, DeviceNext
<1>6. CASE SchedApply
  BY <1>6, InputTypes DEF SchedApply, TypeInv, TypeOK, ControlInv, DeviceNext
<1>7. CASE SchedExit
  BY <1>7, InputTypes DEF SchedExit, DeviceNext
<1>8. CASE SchedRestore /\ N # 0
  BY <1>8, BandsType DEF SchedRestore, TypeInv, ControlInv, DeviceNext
<1>9. CASE DeviceCall
  BY <1>9 DEF DeviceCall, DeviceNext
<1>10. CASE UNCHANGED vars
  BY <1>10 DEF vars
<1> QED
  BY <1>1, <1>2, <1>3, <1>4, <1>5, <1>6, <1>7, <1>8, <1>9, <1>10
     DEF Next, Worker, RunScheduler, DeviceIdle

\* Types and control survive every step.
LEMMA TypeStep ==
  ASSUME TypeInv, DeviceInv, [Next]_vars
  PROVE  TypeInv'
<1>1. DeviceTypeOK'
  BY DeviceStepOrCall, DeviceNextInv DEF DeviceInv
<1> USE DEF TypeInv, TypeOK, ControlInv, WorkerPC
<1>2. CASE Start0
  BY <1>1, <1>2 DEF Start0, deviceVars, othersVars
<1>3. CASE Start1
  BY <1>1, <1>3, BandsType DEF Start1, EnterRange, SetFrequencyRange, othersVars
<1>4. CASE StartTimer
  BY <1>1, <1>4, ZenonT(30) DEF StartTimer, deviceVars, othersVars
<1>5. CASE LoopContinue
  BY <1>1, <1>5 DEF LoopContinue, deviceVars, othersVars
<1>6. CASE LoopLeave
  <2>1. N >= 2 /\ cur \in 1..N
    BY <1>6, BandsType DEF LoopLeave, MoveOn
  <2> QED
    BY <1>1, <1>6, <2>1, NextBand, BandsType
       DEF LoopLeave, EnterRange, SetFrequencyRange, othersVars
<1>7. CASE Finish
  BY <1>1, <1>7 DEF Finish, deviceVars, othersVars
<1>8. CASE Wait
  BY <1>1, <1>8 DEF Wait, WaitFor, UpdateRecordings, othersVars
<1>9. CASE PollNothing
  BY <1>1, <1>9 DEF PollNothing, AfterScheduler, deviceVars, othersVars
<1>10. CASE PollFound
  BY <1>1, <1>10 DEF PollFound, deviceVars, othersVars
<1>11. CASE SchedTune
  BY <1>1, <1>11, InputTypes DEF SchedTune, Serve, SetFrequencyRange, othersVars
<1>12. CASE SchedSame
  BY <1>1, <1>12 DEF SchedSame, Serve, deviceVars, othersVars
<1>13. CASE SchedApply
  BY <1>1, <1>13 DEF SchedApply, UpdateRecordings, othersVars
<1>14. CASE SchedNext
  BY <1>1, <1>14 DEF SchedNext, deviceVars, othersVars
<1>15. CASE SchedExit
  BY <1>1, <1>15 DEF SchedExit, UpdateRecordings, othersVars
<1>16. CASE SchedRestore
  BY <1>1, <1>16 DEF SchedRestore, SetFrequencyRange, deviceVars, othersVars
<1>17. CASE SchedDone
  BY <1>1, <1>17 DEF SchedDone, AfterScheduler, deviceVars, othersVars
<1>18. CASE DeviceCall
  <2>1. pc # "start"
    BY <1>18 DEF DeviceCall, DeviceStep, Unroute, Tune, SetCenterFrequency, Route, Erase, Apply, Return
  <2> QED
    BY <1>1, <1>18, <2>1 DEF DeviceCall, workerVars, othersVars
<1>19. CASE Stopper
  <2>1. CASE StopFlag
    <3>1. isRunning' \in BOOLEAN /\ stopper' = "notify"
      BY <2>1 DEF StopFlag
    <3>2. UNCHANGED <<slot, streaming, inflight, schedule, pc, cur, expired, isRecording,
                      lastRange, sched, refreshEnabled, call, recordings>>
      BY <2>1 DEF StopFlag, deviceVars, workerVars
    <3> QED
      BY <1>1, <3>1, <3>2
  <2>2. CASE StopNotify
    <3>1. slot' \in Seq(Recording)
      BY <2>2, InputTypes DEF StopNotify, Notify
    <3> QED
      BY <1>1, <2>2, <3>1 DEF StopNotify, deviceVars, workerVars
  <2>3. CASE Join
    BY <1>1, <2>3 DEF Join, deviceVars, workerVars
  <2> QED
    BY <1>19, <2>1, <2>2, <2>3 DEF Stopper
<1>20. CASE Environment
  <2>1. ASSUME NEW i \in 1..N, SourceSamples(i)
        PROVE  TypeInv'
    <3>1. inflight' \in [1..N -> 0..MaxInFlight]
      BY <2>1, ScannerAssumption DEF SourceSamples
    <3> QED
      BY <1>1, <2>1, <3>1 DEF SourceSamples, deviceVars, workerVars
  <2>2. ASSUME NEW i \in 1..N, TransmissionWork(i)
        PROVE  TypeInv'
    <3>1. inflight' \in [1..N -> 0..MaxInFlight]
      BY <2>2, ScannerAssumption DEF TransmissionWork
    <3>2. slot' \in Seq(Recording)
      BY <2>2, InputTypes DEF TransmissionWork, Notify
    <3> QED
      BY <1>1, <2>2, <3>1, <3>2 DEF TransmissionWork, deviceVars, workerVars
  <2>3. CASE RangeTimePasses
    BY <1>1, <2>3 DEF RangeTimePasses, deviceVars, othersVars
  <2>4. CASE ScheduleChanges
    BY <1>1, <2>4 DEF ScheduleChanges, deviceVars, workerVars
  <2>5. CASE RadioFallsSilent
    <3>1. streaming' \in BOOLEAN
      BY <2>5 DEF RadioFallsSilent
    <3>2. UNCHANGED <<slot, isRunning, stopper, inflight, schedule, pc, cur, expired, isRecording,
                      lastRange, sched, refreshEnabled, call, recordings>>
      BY <2>5 DEF RadioFallsSilent, deviceVars, workerVars
    <3> QED
      BY <1>1, <3>1, <3>2
  <2> QED
    BY <1>20, <2>1, <2>2, <2>3, <2>4, <2>5 DEF Environment
<1>21. CASE UNCHANGED vars
  BY <1>1, <1>21 DEF vars, deviceVars, workerVars, othersVars
<1> QED
  BY <1>2, <1>3, <1>4, <1>5, <1>6, <1>7, <1>8, <1>9, <1>10, <1>11, <1>12, <1>13, <1>14,
     <1>15, <1>16, <1>17, <1>18, <1>19, <1>20, <1>21 DEF Next, Worker, RunScheduler

\* What Route leaves: the radio on the band that was asked for, if it is one.
LEMMA RouteOnBand ==
  ASSUME TypeInv, DeviceInv, N >= 1, cur \in 1..N, Route, target = Ranges[cur], UNCHANGED cur
  PROVE  OnBand'
<1>1. target \in Range(Ranges)
  BY DeviceAssumption DEF Range, N
<1>2. tuned = target \/ ~tuneOk
  BY DEF DeviceInv, TuningInv, Route
<1> QED
  BY <1>1, <1>2 DEF Route, OnBand

\* A device call in progress brings the radio to the worker's band, or, once
\* the radio is there, only touches the recorders.
LEMMA ListensDeviceStep ==
  ASSUME TypeInv, DeviceInv, ListensInv, DeviceCall
  PROVE  ListensInv'
<1> SUFFICES ASSUME N >= 1 PROVE ListensInv'
  BY DEF ListensInv
<1>1. UNCHANGED <<pc, cur>>
  BY DEF DeviceCall, workerVars
<1>2. pc \notin {"start", "done"} => cur \in 1..N
  BY DEF TypeInv, ControlInv
<1>3. CASE pc \in {"entered", "schedDone"}
  <2>1. FollowsBand
    BY <1>3 DEF ListensInv
  <2>2. CASE Unroute \/ Tune
    BY <1>1, <1>3, <2>1, <2>2 DEF Unroute, Tune, SetCenterFrequency, FollowsBand, ListensInv
  <2>3. CASE Route
    <3>1. OnBand'
      BY <1>1, <1>2, <1>3, <2>1, <2>3, RouteOnBand DEF FollowsBand, Route
    <3> QED
      BY <1>1, <1>3, <2>3, <3>1 DEF Route, FollowsBand, ListensInv
  <2>4. CASE Erase \/ Apply \/ Return
    BY <2>1, <2>4 DEF FollowsBand, Erase, Apply, Return
  <2> QED
    BY <2>2, <2>3, <2>4 DEF DeviceCall, DeviceStep
<1>4. CASE pc \in {"loop", "poll", "wait"}
  <2>1. OnBand /\ call \in {"idle", "erase", "apply"}
    BY <1>4 DEF ListensInv
  <2>2. Erase \/ Apply \/ Return
    BY <2>1 DEF DeviceCall, DeviceStep, Unroute, Tune, SetCenterFrequency, Route
  <2>3. UNCHANGED <<selector, tuned, tuneOk>> /\ call' \in {"idle", "erase", "apply"}
    BY <2>2 DEF Erase, Apply, Return
  <2>4. OnBand'
    BY <1>1, <2>1, <2>3 DEF OnBand
  <2> QED
    BY <1>1, <1>4, <2>3, <2>4 DEF ListensInv
<1>5. CASE pc \notin {"entered", "schedDone", "loop", "poll", "wait"}
  BY <1>1, <1>5 DEF ListensInv
<1> QED
  BY <1>3, <1>4, <1>5

\* The radio follows the worker from band to band and back from a schedule.
LEMMA ListensStep ==
  ASSUME TypeInv, DeviceInv, ListensInv, [Next]_vars
  PROVE  ListensInv'
<1> SUFFICES ASSUME N >= 1 PROVE ListensInv'
  BY DEF ListensInv
<1>1. CASE Start0
  BY <1>1 DEF Start0
<1> USE DEF ListensInv, FollowsBand, OnBand
<1>2. CASE Start1 \/ LoopLeave
  BY <1>2 DEF Start1, LoopLeave, EnterRange, SetFrequencyRange
<1>3. CASE StartTimer
  BY <1>3 DEF StartTimer, deviceVars
<1>4. CASE LoopContinue
  BY <1>4 DEF LoopContinue, deviceVars
<1>5. CASE Finish
  BY <1>5 DEF Finish
<1>6. CASE Wait
  BY <1>6 DEF Wait, UpdateRecordings
<1>7. CASE PollNothing
  BY <1>7 DEF PollNothing, AfterScheduler, deviceVars
<1>8. CASE PollFound \/ SchedTune \/ SchedSame \/ SchedApply \/ SchedNext \/ SchedExit
  BY <1>8 DEF PollFound, SchedTune, SchedSame, SchedApply, SchedNext, SchedExit
<1>9. CASE SchedRestore
  BY <1>9 DEF SchedRestore, SetFrequencyRange
<1>10. CASE SchedDone
  BY <1>10 DEF SchedDone, AfterScheduler, deviceVars
<1>11. CASE DeviceCall
  BY <1>11, ListensDeviceStep
<1>12. CASE Stopper
  BY <1>12 DEF Stopper, StopFlag, StopNotify, Join, deviceVars, workerVars
<1>13. CASE Environment
  BY <1>13 DEF Environment, SourceSamples, RadioFallsSilent, TransmissionWork, RangeTimePasses,
     ScheduleChanges, deviceVars, workerVars
<1>14. CASE UNCHANGED vars
  BY <1>14 DEF vars, deviceVars, workerVars
<1> QED
  BY <1>1, <1>2, <1>3, <1>4, <1>5, <1>6, <1>7, <1>8, <1>9, <1>10, <1>11, <1>12, <1>13,
     <1>14 DEF Next, Worker, RunScheduler

\* A call in progress only starts recorders of the list it was given.
LEMMA SourceDeviceStep ==
  ASSUME TypeInv, DeviceInv, SourceInv, DeviceCall
  PROVE  SourceInv'
<1>1. UNCHANGED <<pc, slot>>
  BY DEF DeviceCall, workerVars
<1>2. CASE Unroute \/ Tune \/ Route
  <2>1. UNCHANGED <<recordings, recorders>>
    BY <1>2 DEF Unroute, Tune, SetCenterFrequency, Route
  <2>2. pc # "schedRestore"
    BY <1>2 DEF SourceInv, Unroute, Tune, SetCenterFrequency, Route
  <2> QED
    BY <1>1, <1>2, <2>1, <2>2 DEF SourceInv, Scheduling, Heard, Unroute, Tune, SetCenterFrequency, Route
<1>3. CASE Erase
  <2>1. /\ DOMAIN recorders' \subseteq DOMAIN recorders
        /\ \A id \in DOMAIN recorders' : recorders'[id] = recorders[id]
    BY <1>3 DEF Erase, Restrict
  <2>2. recordings = <<>> => DOMAIN recorders' = {}
    BY <1>3 DEF Erase, Restrict, Wanted
  <2>3. pc # "schedDone" /\ recordings' = recordings /\ call' = "apply"
    BY <1>3 DEF SourceInv, Erase
  <2> QED
    BY <1>1, <2>1, <2>2, <2>3 DEF SourceInv, Scheduling, Heard
<1>4. CASE Apply
  <2>1. recordings # <<>> /\ recordings' = recordings /\ next \in 1..Len(recordings)
    BY <1>4 DEF DeviceInv, DeviceTypeOK, Apply
  <2>2. pc \notin {"schedRestore", "schedDone"}
    BY <1>4, <2>1 DEF SourceInv
  <2>3. ASSUME ~Scheduling, NEW id \in DOMAIN recorders'
        PROVE  recorders'[id].source = "scanner"
    <3>1. \/ recorders' = recorders
          \/ Start(recordings[next])
      BY <1>4 DEF Apply, Flush, Ignore
    <3>2. CASE recorders' = recorders
      BY <2>3, <3>2 DEF SourceInv
    <3>3. CASE Start(recordings[next])
      <4>1. \/ id \in DOMAIN recorders /\ recorders'[id] = recorders[id]
            \/ recorders'[id] = RecorderOf(recordings[next])
        BY <2>3, <3>3 DEF Start
      <4>2. recordings[next].source = "scanner"
        BY <2>1, <2>3 DEF SourceInv, Heard
      <4> QED
        BY <2>3, <4>1, <4>2 DEF RecorderOf, SourceInv
    <3> QED
      BY <3>1, <3>2, <3>3
  <2> QED
    BY <1>1, <2>1, <2>2, <2>3 DEF SourceInv, Scheduling, Heard
<1>5. CASE Return
  <2>1. recordings' = <<>> /\ recorders' = recorders /\ Heard(recordings')
    BY <1>5 DEF Return, Heard
  <2>2. pc # "schedDone"
    BY <1>5 DEF SourceInv, Return
  <2> QED
    BY <1>1, <1>5, <2>1, <2>2 DEF SourceInv, Scheduling, Heard, Return
<1> QED
  BY <1>2, <1>3, <1>4, <1>5 DEF DeviceCall, DeviceStep

\* A schedule's recorders are gone before the worker turns to a band again.
LEMMA SourceStep ==
  ASSUME TypeInv, DeviceInv, SourceInv, [Next]_vars
  PROVE  SourceInv'
<1>h. Heard(<<>>)
  BY DEF Heard
<1> USE DEF SourceInv, Scheduling
<1>1. CASE Start0
  BY <1>1 DEF Start0, deviceVars, Heard
<1>2. CASE Start1 \/ LoopLeave
  BY <1>2 DEF Start1, LoopLeave, EnterRange, SetFrequencyRange, Heard
<1>3. CASE StartTimer \/ LoopContinue \/ Finish
  BY <1>3 DEF StartTimer, LoopContinue, Finish, deviceVars, Heard
<1>4. CASE Wait
  BY <1>4 DEF Wait, WaitFor, UpdateRecordings, Heard
<1>5. CASE PollNothing
  BY <1>5 DEF PollNothing, AfterScheduler, deviceVars, Heard
<1>6. CASE PollFound \/ SchedTune \/ SchedSame \/ SchedApply \/ SchedNext
  BY <1>6 DEF PollFound, SchedTune, SchedSame, SchedApply, SchedNext, deviceVars, Heard,
     SetFrequencyRange, UpdateRecordings
<1>7. CASE SchedExit
  BY <1>7 DEF SchedExit, UpdateRecordings, Heard
<1>8. CASE SchedRestore
  BY <1>8 DEF SchedRestore, SetFrequencyRange, deviceVars, Heard
<1>9. CASE SchedDone
  BY <1>9, <1>h DEF SchedDone, AfterScheduler, deviceVars, Heard
<1>10. CASE DeviceCall
  BY <1>10, SourceDeviceStep
<1>11. CASE Stopper
  BY <1>11, <1>h DEF Stopper, StopFlag, StopNotify, Notify, Join, deviceVars, workerVars, Heard
<1>12. CASE Environment
  <2>1. ASSUME NEW i \in 1..N, TransmissionWork(i)
        PROVE  Heard(slot')
    BY <2>1, ScannerAssumption DEF TransmissionWork, Notify, Heard
  <2>2. UNCHANGED <<pc, call, recordings, recorders>>
    BY <1>12 DEF Environment, SourceSamples, RadioFallsSilent, TransmissionWork, RangeTimePasses,
       ScheduleChanges, deviceVars, workerVars
  <2>3. slot' = slot \/ Heard(slot')
    BY <1>12, <2>1 DEF Environment, SourceSamples, RadioFallsSilent, RangeTimePasses, ScheduleChanges
  <2> QED
    BY <2>2, <2>3 DEF Heard
<1>13. CASE UNCHANGED vars
  BY <1>13 DEF vars, deviceVars, workerVars, Heard
<1> QED
  BY <1>1, <1>2, <1>3, <1>4, <1>5, <1>6, <1>7, <1>8, <1>9, <1>10, <1>11, <1>12, <1>13
     DEF Next, Worker, RunScheduler

-----------------------------------------------------------------------------
(* Theorems *)

LEMMA InitInv == Init => ScannerInv
<1> SUFFICES ASSUME Init PROVE ScannerInv
  OBVIOUS
<1>1. DeviceInv
  BY DeviceInitInv DEF Init
<1>2. TypeInv
  <2>1. 0 \in 0..N /\ inflight \in [1..N -> 0..MaxInFlight]
    BY BandsType, ScannerAssumption DEF Init
  <2> QED
    BY <1>1, <2>1 DEF Init, DeviceInv, TypeInv, TypeOK, ControlInv, WorkerPC,
       NotificationInit, DeviceInit
<1>3. ListensInv
  BY DEF Init, ListensInv
<1>4. SourceInv
  BY DEF Init, DeviceInit, NotificationInit, SourceInv, Scheduling, Heard
<1> QED
  BY <1>1, <1>2, <1>3, <1>4 DEF ScannerInv

\* The invariant of the scanner with its device, mailbox and threads.
THEOREM ScannerInvariant == Spec => []ScannerInv
<1>1. ASSUME ScannerInv, [Next]_vars
      PROVE  ScannerInv'
  BY <1>1, TypeStep, ListensStep, SourceStep, DeviceStepOrCall, DeviceNextInv
     DEF ScannerInv
<1> QED
  BY <1>1, InitInv, PTL DEF Spec

\* The state of the scanner keeps its type.
THEOREM TypeCorrect == Spec => []TypeOK
<1>1. ScannerInv => TypeOK
  BY DEF ScannerInv, TypeInv
<1> QED
  BY <1>1, ScannerInvariant, PTL

\* The scanner is a caller SdrDevice allows: it never makes a call while one is
\* in progress and nobody else touches the device.
THEOREM ScannerImplementsDevice == Spec => DeviceSpec
<1>1. Init => DeviceInit
  BY DEF Init
<1>2. ASSUME ScannerInv, [Next]_vars
      PROVE  [DeviceNext]_deviceVars
  BY <1>2, DeviceStepOrCall DEF ScannerInv
<1> QED
  BY <1>1, <1>2, ScannerInvariant, PTL DEF Spec, DeviceSpec

\* The selector is set to a processor only while the tuner is on its band, or has
\* failed to get there.
THEOREM ScannerRoutesOnlyWhenTuned == Spec => []RoutedOnlyWhenTuned
BY ScannerImplementsDevice, DeviceSafety, PTL

\* Whatever lists the bands and the schedules ask for, updateRecordings leaves
\* no transmission aside for nothing.
THEOREM ScannerServesTransmissions == Spec => []EveryTransmissionServed
BY ScannerImplementsDevice, DeviceSafety, PTL

\* No frequency is ever recorded twice at a time.
THEOREM ScannerRecordsOnce == Spec => []DistinctRecorders
BY ScannerImplementsDevice, DeviceSafety, PTL

\* recordersCount() is never exceeded.
THEOREM ScannerWithinLimit == Spec => []WithinLimit
BY ScannerImplementsDevice, DeviceSafety, PTL

\* No frequency is noted as refused once there is a recorder for it.
THEOREM ScannerIgnoresOnlyWhenFull == Spec => []IgnoredIsCurrent
BY ScannerImplementsDevice, DeviceSafety, PTL

\* Whenever the worker waits, the radio is on the band it believes it scans.
THEOREM ScannerListens == Spec => []ListensWhereTuned
<1>1. ScannerInv => ListensWhereTuned
  <2> SUFFICES ASSUME ScannerInv, pc = "wait"
               PROVE  OnBand
    BY DEF ListensWhereTuned, OnBand
  <2>1. N >= 1
    BY BandsType DEF ScannerInv, TypeInv, ControlInv
  <2> QED
    BY <2>1 DEF ScannerInv, ListensInv
<1> QED
  BY <1>1, ScannerInvariant, PTL

\* No recorder of a schedule outlives runScheduler.
THEOREM ScannerOwnsRecorders == Spec => []ScanRecordersOnly
<1>1. ScannerInv => ScanRecordersOnly
  BY DEF ScannerInv, SourceInv, ScanRecordersOnly
<1> QED
  BY <1>1, ScannerInvariant, PTL

=============================================================================

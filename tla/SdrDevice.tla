------------------------------ MODULE SdrDevice ------------------------------
(***************************************************************************)
(* One SDR receiver (radio/sdr_device.cpp): the tuner of the radio, the    *)
(* selector that routes its samples to the processor of one scanned band,  *)
(* and the recorders that cut single transmissions out of the whole band.  *)
(*                                                                         *)
(* Its two operations, setFrequencyRange and updateRecordings, are called  *)
(* by one thread, the scanner's, and run while the flow graph streams      *)
(* samples on others: what those threads can see in the middle of a call   *)
(* (selector and tuned) changes in steps of its own.  call says where the  *)
(* call in progress is.                                                    *)
(***************************************************************************)
EXTENDS Integers, Sequences, FiniteSets, Functions

CONSTANTS
  Frequency,      \* the frequencies that occur, centres of bands included
  Ranges,         \* the scanned bands, each by its centre frequency
  RecordersCount, \* config.recordersCount(): how many recorders may run
  RecorderIds,    \* identities of the recorder objects
  NoFrequency     \* the tuner before it was first set

ASSUME DeviceAssumption ==
  /\ Ranges \in Seq(Frequency)
  /\ RecordersCount \in Nat
  /\ IsFiniteSet(RecorderIds)
  /\ Cardinality(RecorderIds) > RecordersCount
  /\ NoFrequency \notin Frequency

\* Who asks for a recording: the scanner that heard it, or a schedule.
Sources == {"scanner", "schedule"}

(***************************************************************************)
(* deviceFrequency is the centre the requester believes the radio is tuned *)
(* to; a recorder shifts the band by recordingFrequency - deviceFrequency. *)
(***************************************************************************)
Recording == [source : Sources, deviceFrequency : Frequency,
              recordingFrequency : Frequency, flush : BOOLEAN]
Recorder == [source : Sources, deviceFrequency : Frequency, recordingFrequency : Frequency]

RecorderOf(r) == [source             |-> r.source,
                  deviceFrequency    |-> r.deviceFrequency,
                  recordingFrequency |-> r.recordingFrequency]

VARIABLES
  call,       \* the step of the call in progress, "idle" between calls
  target,     \* setFrequencyRange's argument, by its centre
  recordings, \* updateRecordings' argument
  next,       \* the index of its loop over the recordings
  flushed,    \* the recorders it flushed so far
  selector,   \* the selector's output: 0 is the null sink, i the i-th processor
  tuned,      \* the radio's centre frequency
  tuneOk,     \* did the last setCenterFrequency succeed
  recorders,  \* the running recorders, by identity
  ignored     \* ignoredTransmissions: frequencies refused for want of a recorder

callVars == <<call, target, recordings, next, flushed>>
deviceVars == <<call, target, recordings, next, flushed,
                selector, tuned, tuneOk, recorders, ignored>>

DeviceTypeOK ==
  /\ call \in {"idle", "unroute", "tune", "route", "erase", "apply"}
  /\ target \in Frequency \cup {NoFrequency}
  /\ recordings \in Seq(Recording)
  /\ next \in 1..Len(recordings) + 1
  /\ flushed \subseteq RecorderIds
  /\ selector \in 0..Len(Ranges)
  /\ tuned \in Frequency \cup {NoFrequency}
  /\ tuneOk \in BOOLEAN
  /\ DOMAIN recorders \subseteq RecorderIds
  /\ \A id \in DOMAIN recorders : recorders[id] \in Recorder
  /\ ignored \subseteq Frequency

DeviceInit ==
  /\ call = "idle"
  /\ target = NoFrequency
  /\ recordings = <<>>
  /\ next = 1
  /\ flushed = {}
  /\ selector = 0
  /\ tuned = NoFrequency
  /\ tuneOk = TRUE
  /\ recorders = <<>>
  /\ ignored = {}

-----------------------------------------------------------------------------
(* setFrequencyRange *)

\* Fault: the constructor's index starts one too high.
ProcessorIndexShifted(c) == CHOOSE i \in 2..Len(Ranges) + 1 : Ranges[i - 1] = c

\* The map of the constructor: of two bands with one centre the later wins.
ProcessorIndex(c) ==
  CHOOSE i \in 1..Len(Ranges) :
    Ranges[i] = c /\ \A j \in i + 1..Len(Ranges) : Ranges[j] # c

SetFrequencyRange(c) ==
  /\ call = "idle"
  /\ call' = "unroute"
  /\ target' = c
  /\ UNCHANGED <<recordings, next, flushed, selector, tuned, tuneOk, recorders, ignored>>

\* Fault: the selector stays on the old band's processor during the retune.
UnrouteSkipped ==
  /\ call = "unroute"
  /\ call' = "tune"
  /\ UNCHANGED <<target, recordings, next, flushed, selector, tuned, tuneOk, recorders, ignored>>

Unroute ==
  /\ call = "unroute"
  /\ selector' = 0
  /\ call' = "tune"
  /\ UNCHANGED <<target, recordings, next, flushed, tuned, tuneOk, recorders, ignored>>

\* The radio may refuse all ten attempts.
SetCenterFrequency(c) ==
  \/ tuned' = c /\ tuneOk' = TRUE
  \/ UNCHANGED tuned /\ tuneOk' = FALSE

\* A failure is logged, and the call goes on.
Tune ==
  /\ call = "tune"
  /\ SetCenterFrequency(target)
  /\ call' = "route"
  /\ UNCHANGED <<target, recordings, next, flushed, selector, recorders, ignored>>

Route ==
  /\ call = "route"
  /\ selector' = IF target \in Range(Ranges) THEN ProcessorIndex(target) ELSE selector
  /\ call' = "idle"
  /\ target' = NoFrequency
  /\ UNCHANGED <<recordings, next, flushed, tuned, tuneOk, recorders, ignored>>

-----------------------------------------------------------------------------
(* updateRecordings *)

Wanted(list) == {list[i].recordingFrequency : i \in 1..Len(list)}

Recorded == {recorders[id].recordingFrequency : id \in DOMAIN recorders}

\* Fault: a recorder is looked up by the whole recording.
FindRecorderExact(r) == {id \in DOMAIN recorders : recorders[id] = RecorderOf(r)}

FindRecorder(r) ==
  {id \in DOMAIN recorders : recorders[id].recordingFrequency = r.recordingFrequency}

\* Faults: the limit is off by one, either way.
HasRoomOverLimit(rs) == Cardinality(DOMAIN rs) <= RecordersCount
HasRoomUnderLimit(rs) == Cardinality(DOMAIN rs) + 1 < RecordersCount

HasRoom(rs) == Cardinality(DOMAIN rs) < RecordersCount

UpdateRecordings(list) ==
  /\ call = "idle"
  /\ call' = "erase"
  /\ recordings' = list
  /\ UNCHANGED <<target, next, flushed, selector, tuned, tuneOk, recorders, ignored>>

\* Fault: the refused frequencies are never forgotten.
EraseKeepingIgnored ==
  /\ call = "erase"
  /\ LET active == {id \in DOMAIN recorders :
                      recorders[id].recordingFrequency \in Wanted(recordings)}
     IN recorders' = Restrict(recorders, active)
  /\ call' = "apply"
  /\ UNCHANGED <<target, recordings, next, flushed, selector, tuned, tuneOk, ignored>>

Erase ==
  /\ call = "erase"
  /\ LET active == {id \in DOMAIN recorders :
                      recorders[id].recordingFrequency \in Wanted(recordings)}
     IN recorders' = Restrict(recorders, active)
  /\ ignored' = IF HasRoom(recorders') THEN {} ELSE ignored
  /\ call' = "apply"
  /\ UNCHANGED <<target, recordings, next, flushed, selector, tuned, tuneOk>>

Flush(r) ==
  /\ FindRecorder(r) # {}
  /\ flushed' = IF r.flush THEN flushed \cup FindRecorder(r) ELSE flushed
  /\ UNCHANGED <<recorders, ignored>>

Start(r) ==
  /\ FindRecorder(r) = {}
  /\ HasRoom(recorders)
  /\ LET id == CHOOSE id \in RecorderIds : id \notin DOMAIN recorders
     IN recorders' = [k \in DOMAIN recorders \cup {id} |->
                        IF k = id THEN RecorderOf(r) ELSE recorders[k]]
  /\ UNCHANGED <<flushed, ignored>>

Ignore(r) ==
  /\ FindRecorder(r) = {}
  /\ ~HasRoom(recorders)
  /\ ignored' = ignored \cup {r.recordingFrequency}
  /\ UNCHANGED <<flushed, recorders>>

Apply ==
  /\ call = "apply"
  /\ next <= Len(recordings)
  /\ \/ Flush(recordings[next])
     \/ Start(recordings[next])
     \/ Ignore(recordings[next])
  /\ next' = next + 1
  /\ UNCHANGED <<call, target, recordings, selector, tuned, tuneOk>>

Return ==
  /\ call = "apply"
  /\ next > Len(recordings)
  /\ call' = "idle"
  /\ recordings' = <<>>
  /\ next' = 1
  /\ flushed' = {}
  /\ UNCHANGED <<target, selector, tuned, tuneOk, recorders, ignored>>

-----------------------------------------------------------------------------
DeviceStep == Unroute \/ Tune \/ Route \/ Erase \/ Apply \/ Return

\* The device in the hands of any caller that makes one call at a time.
DeviceNext ==
  \/ DeviceStep
  \/ \E c \in Frequency : SetFrequencyRange(c)
  \/ \E list \in Seq(Recording) : UpdateRecordings(list)

DeviceSpec == DeviceInit /\ [][DeviceNext]_deviceVars

-----------------------------------------------------------------------------
(* Properties *)

\* updateRecordings never starts a second recorder for a frequency, however
\* the lists of two bands and of a schedule repeat and mix frequencies.
DistinctRecorders ==
  \A a, b \in DOMAIN recorders :
    recorders[a].recordingFrequency = recorders[b].recordingFrequency => a = b

\* No sequence of updateRecordings calls runs more than recordersCount recorders.
WithinLimit == Cardinality(DOMAIN recorders) <= RecordersCount

\* ignoredTransmissions is current: a frequency stays in it only while all
\* recorders are busy, and is never one that is being recorded after all.
IgnoredIsCurrent ==
  ignored # {} =>
    /\ Cardinality(DOMAIN recorders) = RecordersCount
    /\ ignored \cap Recorded = {}

\* updateRecordings leaves no listed transmission aside: when its loop is done
\* each is recorded, or it is refused, noted, and all recorders are busy with
\* other listed ones; and nothing but listed transmissions is recorded.
EveryTransmissionServed ==
  call = "apply" /\ next > Len(recordings) =>
    /\ Recorded \subseteq Wanted(recordings)
    /\ \A f \in Wanted(recordings) \ Recorded :
         Cardinality(DOMAIN recorders) = RecordersCount /\ f \in ignored

\* The selector is set to the processor of a band only while the tuner is on that
\* band, or has failed to get there: in the middle of setFrequencyRange too it is set
\* to none while the tuner moves.  What the driver has buffered then is not modelled.
RoutedOnlyWhenTuned ==
  selector # 0 => Ranges[selector] = tuned \/ ~tuneOk

=============================================================================

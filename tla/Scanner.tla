------------------------------- MODULE Scanner -------------------------------
(***************************************************************************)
(* The scanner of one radio (scanner.cpp) with all that touches its device *)
(* and its mailbox: the worker thread that hops over the bands, breaks off *)
(* for scheduled recordings and hands what the detectors heard to the      *)
(* recorders; the flow graph's threads, which carry samples and notify;    *)
(* the destructor, run by another thread; and the passing of time.         *)
(*                                                                         *)
(* The worker takes a step only between calls of the device, whose steps   *)
(* are its own; all other actors interleave with both.                     *)
(***************************************************************************)
EXTENDS SdrDevice, Notification

CONSTANTS
  Detections,  \* Detections[i]: the lists the i-th band's detector can notify
  Schedules,   \* what the scheduler can ask for: a centre and its recordings
  NoSchedule,  \* getRecordings() with no transmission due
  MaxInFlight  \* bound: frames of a band between the selector and its detector

N == Len(Ranges)

ScheduledRecording == [range : Frequency, recordings : Seq(Recording)]

ASSUME ScannerAssumption ==
  /\ Detections \in [1..N -> SUBSET Seq(Recording)]
  /\ \A i \in 1..N : \A list \in Detections[i] : \A k \in 1..Len(list) :
       list[k].source = "scanner" /\ list[k].deviceFrequency = Ranges[i]
  /\ Schedules \subseteq ScheduledRecording
  /\ \A s \in Schedules : \A k \in 1..Len(s.recordings) :
       /\ s.recordings[k].source = "schedule"
       /\ s.recordings[k].deviceFrequency = s.range
  /\ NoSchedule \notin Schedules
  /\ NoValue \notin Seq(Recording)
  /\ MaxInFlight \in Nat \ {0}

VARIABLES
  pc,             \* where the worker is, see WorkerPC
  cur,            \* the index of the band being scanned, 0 without bands
  expired,        \* has RANGE_SCANNING_TIME passed since the band was entered
  isRecording,    \* was the last notification not empty
  lastRange,      \* runScheduler's lastRange, by its centre
  sched,          \* runScheduler's recordings
  schedule,       \* what getRecordings(now) returns at this moment
  refreshEnabled, \* the scheduler's m_isRefreshEnabled
  isRunning,      \* m_isRunning
  stopper,        \* the thread that runs the destructor
  streaming,      \* does the radio still deliver samples
  inflight        \* frames on their way to each detector

workerVars == <<pc, cur, expired, isRecording, lastRange, sched, refreshEnabled>>
othersVars == <<schedule, isRunning, stopper, streaming, inflight>>
vars == <<deviceVars, slot, workerVars, othersVars>>

WorkerPC == {"start", "entered", "loop", "poll", "wait",
             "sched", "schedApply", "schedNext", "schedRestore", "schedDone", "done"}

TypeOK ==
  /\ DeviceTypeOK
  /\ slot \in Seq(Recording) \cup {NoValue}
  /\ pc \in WorkerPC
  /\ cur \in 0..N
  /\ expired \in BOOLEAN
  /\ isRecording \in BOOLEAN
  /\ lastRange \in Frequency \cup {NoFrequency}
  /\ sched \in Schedules \cup {NoSchedule}
  /\ schedule \in Schedules \cup {NoSchedule}
  /\ refreshEnabled \in BOOLEAN
  /\ isRunning \in BOOLEAN
  /\ stopper \in {"up", "notify", "join", "joined"}
  /\ streaming \in BOOLEAN
  /\ inflight \in [1..N -> 0..MaxInFlight]

Init ==
  /\ DeviceInit
  /\ NotificationInit
  /\ pc = "start"
  /\ cur = 0
  /\ expired = FALSE
  /\ isRecording = FALSE
  /\ lastRange = NoFrequency
  /\ sched = NoSchedule
  /\ schedule \in Schedules \cup {NoSchedule}
  /\ refreshEnabled = TRUE
  /\ isRunning = TRUE
  /\ stopper = "up"
  /\ streaming = TRUE
  /\ inflight = [i \in 1..N |-> 0]

-----------------------------------------------------------------------------
(* worker() *)

\* Tune to the i-th band; its clock starts once the device has answered.
EnterRange(i) ==
  /\ SetFrequencyRange(Ranges[i])
  /\ cur' = i
  /\ pc' = "entered"
  /\ UNCHANGED <<slot, expired, isRecording, lastRange, sched, refreshEnabled, othersVars>>

\* One band is tuned to before m_isRunning is read, several bands after it.
Start0 ==
  /\ pc = "start"
  /\ N = 0
  /\ call = "idle"
  /\ pc' = "loop"
  /\ UNCHANGED <<deviceVars, slot, cur, expired, isRecording, lastRange, sched,
                 refreshEnabled, othersVars>>

Start1 ==
  /\ pc = "start"
  /\ N >= 1
  /\ N = 1 \/ isRunning
  /\ EnterRange(1)

StartTimer ==
  /\ pc = "entered"
  /\ call = "idle"
  /\ expired' = FALSE
  /\ isRecording' = TRUE
  /\ pc' = "loop"
  /\ UNCHANGED <<deviceVars, slot, cur, lastRange, sched, refreshEnabled, othersVars>>

MoveOn == N >= 2 /\ expired /\ ~isRecording

\* Fault: the scheduler is asked only while the band is quiet.
LoopContinueUnasked ==
  /\ pc = "loop"
  /\ call = "idle"
  /\ isRunning
  /\ ~MoveOn
  /\ pc' = IF isRecording THEN "wait" ELSE "poll"
  /\ UNCHANGED <<deviceVars, slot, cur, expired, isRecording, lastRange, sched,
                 refreshEnabled, othersVars>>

LoopContinue ==
  /\ pc = "loop"
  /\ call = "idle"
  /\ isRunning
  /\ ~MoveOn
  /\ pc' = "poll"
  /\ UNCHANGED <<deviceVars, slot, cur, expired, isRecording, lastRange, sched,
                 refreshEnabled, othersVars>>

LoopLeave ==
  /\ pc = "loop"
  /\ isRunning
  /\ MoveOn
  /\ EnterRange((cur % N) + 1)

Finish ==
  /\ pc = "loop" \/ (pc = "start" /\ N >= 2)
  /\ call = "idle"
  /\ ~isRunning
  /\ pc' = "done"
  /\ UNCHANGED <<deviceVars, slot, cur, expired, isRecording, lastRange, sched,
                 refreshEnabled, othersVars>>

\* Fault: an empty notification does not end the recording.
WaitStillRecording ==
  /\ pc = "wait"
  /\ \E list \in {slot} \ {NoValue} : WaitFor(list) /\ UpdateRecordings(list)
  /\ pc' = "loop"
  /\ UNCHANGED <<cur, expired, isRecording, lastRange, sched, refreshEnabled, othersVars>>

\* m_device.updateRecordings(m_notification.wait()); without bands nobody waits.
Wait ==
  /\ pc = "wait"
  /\ \E list \in {slot} \ {NoValue} :
       /\ WaitFor(list)
       /\ isRecording' = (list # <<>>)
       /\ UpdateRecordings(list)
  /\ pc' = "loop"
  /\ UNCHANGED <<cur, expired, lastRange, sched, refreshEnabled, othersVars>>

\* Fault: the worker waits for a detector even when there is none.
AlwaysWait == "wait"

AfterScheduler == IF N = 0 THEN "loop" ELSE "wait"

-----------------------------------------------------------------------------
(* runScheduler() *)

PollNothing ==
  /\ pc = "poll"
  /\ call = "idle"
  /\ schedule = NoSchedule
  /\ pc' = AfterScheduler
  /\ UNCHANGED <<deviceVars, slot, cur, expired, isRecording, lastRange, sched,
                 refreshEnabled, othersVars>>

PollFound ==
  /\ pc = "poll"
  /\ call = "idle"
  /\ schedule # NoSchedule
  /\ sched' = schedule
  /\ lastRange' = NoFrequency
  /\ refreshEnabled' = FALSE
  /\ pc' = "sched"
  /\ UNCHANGED <<deviceVars, slot, cur, expired, isRecording, othersVars>>

Serve == isRunning /\ sched # NoSchedule

SchedTune ==
  /\ pc = "sched"
  /\ Serve
  /\ sched.range # lastRange
  /\ SetFrequencyRange(sched.range)
  /\ lastRange' = sched.range
  /\ pc' = "schedApply"
  /\ UNCHANGED <<slot, cur, expired, isRecording, sched, refreshEnabled, othersVars>>

SchedSame ==
  /\ pc = "sched"
  /\ call = "idle"
  /\ Serve
  /\ sched.range = lastRange
  /\ pc' = "schedApply"
  /\ UNCHANGED <<deviceVars, slot, cur, expired, isRecording, lastRange, sched,
                 refreshEnabled, othersVars>>

SchedApply ==
  /\ pc = "schedApply"
  /\ UpdateRecordings(sched.recordings)
  /\ pc' = "schedNext"
  /\ UNCHANGED <<slot, cur, expired, isRecording, lastRange, sched, refreshEnabled,
                 othersVars>>

SchedNext ==
  /\ pc = "schedNext"
  /\ call = "idle"
  /\ sched' = schedule
  /\ pc' = "sched"
  /\ UNCHANGED <<deviceVars, slot, cur, expired, isRecording, lastRange,
                 refreshEnabled, othersVars>>

\* Fault: the schedule's recorders are left running.
SchedExitKeepingRecorders ==
  /\ pc = "sched"
  /\ call = "idle"
  /\ ~Serve
  /\ pc' = "schedRestore"
  /\ UNCHANGED <<deviceVars, slot, cur, expired, isRecording, lastRange, sched,
                 refreshEnabled, othersVars>>

SchedExit ==
  /\ pc = "sched"
  /\ ~Serve
  /\ UpdateRecordings(<<>>)
  /\ pc' = "schedRestore"
  /\ UNCHANGED <<slot, cur, expired, isRecording, lastRange, sched, refreshEnabled,
                 othersVars>>

\* Fault: the radio is left where the schedule had it.
SchedRestoreSkipped ==
  /\ pc = "schedRestore"
  /\ call = "idle"
  /\ pc' = "schedDone"
  /\ UNCHANGED <<deviceVars, slot, cur, expired, isRecording, lastRange, sched,
                 refreshEnabled, othersVars>>

\* The band that was being scanned is tuned to again.
SchedRestore ==
  /\ pc = "schedRestore"
  /\ IF N = 0 THEN call = "idle" /\ UNCHANGED deviceVars
              ELSE SetFrequencyRange(Ranges[cur])
  /\ pc' = "schedDone"
  /\ UNCHANGED <<slot, cur, expired, isRecording, lastRange, sched, refreshEnabled,
                 othersVars>>

SchedDone ==
  /\ pc = "schedDone"
  /\ call = "idle"
  /\ sched' = NoSchedule
  /\ lastRange' = NoFrequency
  /\ refreshEnabled' = TRUE
  /\ pc' = AfterScheduler
  /\ UNCHANGED <<deviceVars, slot, cur, expired, isRecording, othersVars>>

RunScheduler ==
  PollNothing \/ PollFound \/ SchedTune \/ SchedSame \/ SchedApply \/ SchedNext
    \/ SchedExit \/ SchedRestore \/ SchedDone

DeviceCall == DeviceStep /\ UNCHANGED <<slot, workerVars, othersVars>>

Worker ==
  Start0 \/ Start1 \/ StartTimer \/ LoopContinue \/ LoopLeave \/ Finish \/ Wait
    \/ RunScheduler \/ DeviceCall

-----------------------------------------------------------------------------
(* ~Scanner() *)

StopFlag ==
  /\ stopper = "up"
  /\ isRunning' = FALSE
  /\ stopper' = "notify"
  /\ UNCHANGED <<deviceVars, slot, workerVars, schedule, streaming, inflight>>

\* Fault: the destructor does not wake the worker.
StopSilently ==
  /\ stopper = "notify"
  /\ stopper' = "join"
  /\ UNCHANGED <<deviceVars, slot, workerVars, schedule, isRunning, streaming, inflight>>

StopNotify ==
  /\ stopper = "notify"
  /\ Notify(<<>>)
  /\ stopper' = "join"
  /\ UNCHANGED <<deviceVars, workerVars, schedule, isRunning, streaming, inflight>>

Join ==
  /\ stopper = "join"
  /\ pc = "done"
  /\ stopper' = "joined"
  /\ UNCHANGED <<deviceVars, slot, workerVars, schedule, isRunning, streaming, inflight>>

Stopper == StopFlag \/ StopNotify \/ Join

-----------------------------------------------------------------------------
(* the flow graph, the scheduler and the clock *)

\* Samples pass the selector to the processor it is set to, at once: those buffered on
\* the way, which setFrequencyRange sleeps for, are left out.
SourceSamples(i) ==
  /\ streaming
  /\ selector = i
  /\ inflight[i] < MaxInFlight
  /\ inflight' = [inflight EXCEPT ![i] = @ + 1]
  /\ UNCHANGED <<deviceVars, slot, workerVars, schedule, isRunning, stopper, streaming>>

\* readStream times out for ever; an error it reports ends the process instead.
RadioFallsSilent ==
  /\ streaming
  /\ streaming' = FALSE
  /\ UNCHANGED <<deviceVars, slot, workerVars, schedule, isRunning, stopper, inflight>>

\* Transmission::process notifies once a frame, whatever the worker does now.
TransmissionWork(i) ==
  /\ inflight[i] > 0
  /\ inflight' = [inflight EXCEPT ![i] = @ - 1]
  /\ \E list \in Detections[i] : Notify(list)
  /\ UNCHANGED <<deviceVars, workerVars, schedule, isRunning, stopper, streaming>>

RangeTimePasses ==
  /\ ~expired
  /\ expired' = TRUE
  /\ UNCHANGED <<deviceVars, slot, pc, cur, isRecording, lastRange, sched,
                 refreshEnabled, othersVars>>

ScheduleChanges ==
  /\ schedule' \in (Schedules \cup {NoSchedule}) \ {schedule}
  /\ UNCHANGED <<deviceVars, slot, workerVars, isRunning, stopper, streaming, inflight>>

Environment ==
  \/ \E i \in 1..N : SourceSamples(i) \/ TransmissionWork(i)
  \/ RadioFallsSilent
  \/ RangeTimePasses
  \/ ScheduleChanges

Next == Worker \/ Stopper \/ Environment

Spec == Init /\ [][Next]_vars

(***************************************************************************)
(* Fairness.  The worker and the destructor are threads: they go on when   *)
(* they can (nothing says that anyone ever stops the scanner).  A radio    *)
(* that has not fallen silent keeps delivering samples; every frame        *)
(* reaches its detector; the clock goes on.                                *)
(***************************************************************************)
ThreadFairness == WF_vars(Worker) /\ WF_vars(StopNotify) /\ WF_vars(Join)

StreamFairness ==
  /\ \A i \in 1..N : WF_vars(SourceSamples(i)) /\ WF_vars(TransmissionWork(i))
  /\ WF_vars(RangeTimePasses)

FairSpec == Spec /\ ThreadFairness /\ StreamFairness

-----------------------------------------------------------------------------
(* Properties *)

\* Whenever the worker waits for a detector, after any number of band changes
\* and scheduled recordings, the radio is on the band it believes it scans.
ListensWhereTuned ==
  pc = "wait" /\ call = "idle" =>
    /\ selector = ProcessorIndex(Ranges[cur])
    /\ tuned = Ranges[cur] \/ ~tuneOk

Scheduling == pc \in {"sched", "schedApply", "schedNext", "schedRestore", "schedDone"}

\* No recorder of a schedule outlives runScheduler, in whatever way it ends:
\* outside of it all recorders were started by the scanner's detectors.
ScanRecordersOnly ==
  ~Scheduling /\ call = "idle" =>
    \A id \in DOMAIN recorders : recorders[id].source = "scanner"

\* The destructor returns wherever it meets the worker: its empty notification
\* frees a worker that waits for a radio that has fallen silent.
StopEnds == (stopper # "up") ~> (stopper = "joined")

Quiet(v) == v = NoValue \/ v = <<>>

\* While nothing is heard and nothing is scheduled the scanner visits every band
\* over and over: no band keeps it for ever, and neither does a radio that does
\* not accept a centre.
QuietBandsAreVisited ==
  <>[](Quiet(slot) /\ schedule = NoSchedule /\ isRunning /\ streaming) =>
    \A i \in 1..N : []<>(pc = "wait" /\ cur = i)

Served(s) ==
  /\ pc = "schedNext" /\ call = "idle"
  /\ tuned = s.range \/ ~tuneOk
  /\ \A f \in Wanted(s.recordings) :
       f \in Recorded \/ Cardinality(DOMAIN recorders) = RecordersCount

\* Scheduled transmissions get the radio and their recorders, even when the
\* bands are never quiet, unless they end or the scanner is stopped before; with
\* bands, also unless the radio falls silent, for then the worker waits for ever.
ScheduleIsServed ==
  \A s \in Schedules :
    (schedule = s) ~> (Served(s) \/ schedule # s \/ ~isRunning \/ (N > 0 /\ ~streaming))

OnAir(id) == recorders[id].deviceFrequency = tuned \/ ~tuneOk

\* What README.md:7 promises of transmissions on one band: each is recorded.
\* A recorder can only record its transmission when the centre it shifts from
\* is the one the radio is tuned to.
ScheduledRecordersOnAir ==
  pc = "schedNext" /\ call = "idle" => \A id \in DOMAIN recorders : OnAir(id)

=============================================================================

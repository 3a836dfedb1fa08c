# A TLA+ model of rtl-sdr-scanner-cpp

The program listens with one or more SDR receivers, hops over bands of
frequencies, finds transmissions in them, records them, follows a schedule of
transmissions, and talks to a hub over MQTT. This directory has TLA+ modules
for its core, TLC configurations that check them on small instances, and TLAPS
proofs of the main safety properties for every value of the constants. Paths
below are under `src/sources/` unless they say otherwise.

## Inventory

| component | state it keeps | operations | hard part |
|---|---|---|---|
| `scanner.cpp` (Scanner, one per device) | the band being scanned, its clock, `isRecording`, `m_isRunning` | `worker`, `runScheduler`, the destructor | one thread that waits for detectors, serves a schedule, and is stopped by another |
| `radio/sdr_device.cpp` (SdrDevice) | the selector's output, the tuned centre, `m_recorders`, `ignoredTransmissions` | `setFrequencyRange`, `updateRecordings` | retuning while samples stream; a bounded set of recorders keyed by frequency |
| `notification.h` | one slot | `notify`, `wait` | notifications are overwritten |
| `radio/blocks/transmission.cpp`, `radio/signal.cpp`, `radio/averager.cpp` | the last spectra, `m_signals` with their times | `process` once per spectrum | averages against raw peaks, margins, times, lists that nobody took |
| `radio/scheduler.cpp` | the list of scheduled transmissions, time of the last query, the refresh switch | its thread, `callback`, `getRecordings`, `setRefreshEnabled` | the list is shortened by polling and replaced by answers |
| `network/mqtt.cpp` | message queue, topics, callbacks, the connection | its thread, `publish`, `set*MessageCallback`, the destructor | other threads use it while the connection comes and goes |
| `network/remote_controller.cpp` | none | one method per topic | |
| `radio/recorder.cpp`, `radio/blocks/buffer.h` | a flow graph with a fixed shift; samples not yet sent | constructor, `flush`, destructor | two threads on the buffer |
| `application.cpp`, `main.cpp` | `m_reload`, the temporary configuration, the scanners | configuration queries, the reload loop | callbacks of the MQTT thread against construction and destruction |
| `config.cpp`, `file_config.cpp`, `config_migrator.cpp`, `utils/file_utils.cpp` | the configuration file | read, migrate, save | a crash while saving |
| `radio/sdr_device_reader.cpp` | the devices of the configuration | `updateDevices`, `clearDevices` | drivers that throw half way; what was found out once is saved and comes back |
| `utils/radio_utils.cpp`, `utils/utils.cpp`, `radio/help_structures.h` | none | splitting of bands, rounding, tuning steps, centres | integer boundaries and overflow |
| `radio/blocks/noise_learner.cpp` | learned noise and whether it is ready | `work` | learning ends by the clock, on a band that is visited now and then |
| `radio/blocks/spectrogram.cpp` | a sum of spectra, their number, the time of the last row | `work` | sums over several visits of a band |
| `radio/blocks/psd.cpp`, `decimator.h` | none | `work` | floating point |
| `radio/sdr_processor.cpp`, `radio/connector.h`, logging, serializers | wiring and output only | | |

How they interact:

* A device's source streams to a selector. `setFrequencyRange` sets the selector
  to the null sink, retunes, and sets it to the processor of the band; frames
  that have passed the selector still reach their detector afterwards.
* Each band's detector posts the list of its signals to the device's
  `Notification` after each spectrum. The scanner's thread takes it and calls
  `updateRecordings`, which starts, flushes and ends recorders.
* Before each wait the thread asks the scheduler. While something is due it
  stays in `runScheduler`, with the radio on the schedule's centre.
* In each processor the spectra pass the noise learner on their way to the
  detector, and go to the spectrogram as well. GNU Radio has a thread for each of
  these blocks, and one for each recorder's buffer, which the scanner's thread flushes.
* Recorders, spectrograms and schedulers publish through `Mqtt`; configuration
  queries and schedules come back as callbacks on its thread.
* An `Application` reads its configuration, updates the devices in it with the radios
  `SoapySDR` finds, and makes a scanner of each enabled one that can be opened. What
  the hub sends as the next configuration is what it was told of this one, edited.

What makes each component correct, in short: the selector is set to a
processor only while the tuner is on its band; after any schedule the worker is back on its band with only its
own recorders; one recorder a frequency and no more than allowed, and every
listed transmission served or refused for a reason; a busy band starves neither
the schedule nor, once quiet, the other bands; destructors return; messages go
out once and in order and the queue is bounded; topics survive reconnects; the
schedule loses nothing that is due; all that is strong is listed, and recorders
end when their signal does; a user's settings survive whatever radios do, and each
configured frequency lies in a band whose processor has a bin near it; averages and rows are
those of the spectra they should be of; a recorder sends each sample once, in order
and with its time. `PROJECT.json` lists the hazards with their lines.

## Modules

| module | models | state and code |
|---|---|---|
| `SdrDevice` | `SdrDevice` | `call` is the step of the call in progress: `setFrequencyRange` is `Unroute`, `Tune`, `Route`, because stream threads see the selector and the tuner in between; `updateRecordings` is `Erase`, then `Apply` (`Flush`, `Start` or `Ignore`) for each recording, then `Return`. `SetCenterFrequency` may fail. |
| `Notification` | `Notification<T>` | `slot`; `Notify` overwrites, `WaitFor` blocks and empties |
| `Scanner` | `Scanner` with its device, its mailbox, frames in flight, a schedule that changes at any time, the destructor | `pc` follows `worker` and `runScheduler`; `Start0`/`Start1` are the cases of no, one, several bands |
| `OutQueue` | what `publish` promises | accepted and published sequences |
| `Mqtt` | `Mqtt` | one action per loop head, lock section and library call of the thread; `crashed` is an exception that nobody catches |
| `Scheduler` | `Scheduler`, and `runScheduler` as its client | times count from now, so `Tick` brings all of them closer; `Answer` is `callback` |
| `Detection` | `Transmission`, `Signal`, `Averager`, and the scanner's thread as far as recorders follow the list | `Process` to `NotifyTransmissions` are the parts of `process()`; ages of signals instead of times |
| `Application` | `main.cpp`, `application.cpp`, `file_utils.cpp` | `main` is where `main()` is; `thread` is the Mqtt thread in a callback: `Open`, `Write` (set only), `Raise`, `Store`. The Mqtt thread is there from `Construct` to `Join`. `Killed` and `Started` are the outside |
| `Arithmetic` | `/` and `%` of C++ | |
| `RadioUtils` | `utils/radio_utils.cpp`, `utils/utils.cpp`, `FrequencyRange`, and which processor looks at which bins (`sdr_device.cpp:40-48`, `sdr_processor.cpp:35-41`) | operators without state; a sum over the largest `Frequency` wraps around. A band is named by its range's index and its own, `Bands` has all names of a device. `BinsInRange` are the frequencies of the bins `isIndexInRange` lets through, `HeardBy` what is within a step of one. `Representable` says that `splitRange` does not overflow |
| `Startup` | the constructor of `Application` as far as its scanners, `sdr_device_reader.cpp`, `file_config.cpp`, `ConfigMigrator::sort` | `at` is the result `updateDevices` looks at, `devices` is `m_fileConfig.devices`; each result is `UpdateDevice`, `UpdateDeviceFails` (the driver throws half way), `CreateDevice` or, when something throws before a device is touched, `ResultSkipped`; `unlisted` has the gains a driver did not list. `EnumerateThrows` and `ConstructUndefined` end the process: nothing catches what `enumerate()` throws before `main()`, and an overflow of `splitRange` is undefined. `Reload` is the hub's next configuration, saved (`Saved`) or only tried |
| `NoiseLearner` | `NoiseLearner` and the `Averager` behind it | `WorkLearning` and `WorkReady` are the branches of `work`, one spectrum at a time |
| `Spectrogram` | `Spectrogram` | `Sum` and `Send` are `work` without and with a row |
| `SampleStream` | what a recorder promises the hub | received and sent samples with their times |
| `Recorder` | the buffer of a recorder, `flush` and the destructor | `Push` is `work` on GNU Radio's thread; `FlushBegin` and one `FlushSend` a sample are `popSingleSample`, which holds the mutex |
| `Streams` | the blocks at the ends of the flow graphs together | interleaves the three |
| `MCScanner`, `MCScheduler`, `MCDetection`, `MCStartup`, `MCStreams` | instances for TLC | |
| `ScannerProofs`, `MqttProofs`, `SchedulerProofs`, `ApplicationProofs`, `StartupProofs`, `DetectionProofs`, `StreamsProofs` | theorems | the first has those about `SdrDevice` too, `StartupProofs` those about `RadioUtils`, `StreamsProofs` those about the three blocks |
| `FiniteFacts` | nothing | lemmas about division, sequences, least elements, induction and sums that the proofs share |

`Scanner` extends `SdrDevice` and `Notification` and composes their actions.
`SdrDevice!DeviceSpec` is at the same time the abstract specification that
`Scanner` implements: a device in the hands of any caller that makes one call at
a time. `OutQueue` is the abstract specification that `Mqtt` implements, and
`SampleStream` the one that `Recorder` implements.

Definitions whose comment says *Fault* are plausible bugs of the definition that
follows them. No specification uses them; they replace that definition when the
sensitivity of a property is tested (`mutants` in `PROJECT.json`).

## Runs

| run | question | bounds |
|---|---|---|
| `scanner_two_bands` | Are recorders, selector and tuner consistent in every interleaving? | two bands, lists of up to three transmissions for two recorders, one frequency common to two bands and the schedule, one frame in flight per band |
| `scanner_live` | Does the scanner get to each band and each schedule, and does the destructor return even when the radio has fallen silent? | two bands, one recorder, one schedule |
| `scanner_no_band` | Are overlapping schedules served on a device without bands? | three schedules with two centres |
| `mqtt` | Queue, topics, outages, destructor | two topics, two messages, queue limit 2, three accepted messages, one message in the inbox |
| `scheduler` | Is what is due recorded, does serving end, do queries go on? | answers of up to four entries, three time units, two queries under way |
| `detection` | Is all that is strong listed, and do recorders end? | four bins of which three are usable, averages of two spectra, five kinds of spectra |
| `application` | Does what the hub asked for last come to run, through reloads, failing saves, kills and starts, and does a signal end the process? | three configurations of which one is bad, two starts |
| `startup` | Do settings survive what drivers answer, are devices what they are said to be, do scanners hear their bands? | two radios with one gain, five enumerations, four setups and two defaults in units of 100 kHz with a `SIGNAL_DETECTION_MAX_STEP` of four units, `MaxReloads` = 1 |
| `streams` | Are averages, spectrogram rows and a recorder's samples those they should be? | averages of three spectra (`GroupingY`), learning for two time units, two bins, up to three spectra before the one a row is sent with (`MaxPending`), four samples in blocks of up to two (`MaxReceived`), two time units (`MaxTime`) |
| `scanner_scheduled_on_air` (violated) | Does each recorder of a schedule shift from the centre tuned? | one band, three schedules |
| `startup_deaf` (violated) | Is each configured frequency heard on one of the bands? | one setup, with two bands that share a centre, a single frequency, and a range above 1.07 GHz |
| `detection_break` (violated) | Does `TRANSMISSION_MAX_TIME` break a transmission? | one spectrum per average |

Why the bounds are enough. Recorders are told apart by frequency only, so that one
frequency that fits, one that is refused and one that two lists share meet every
branch of `updateRecordings`. Two bands are the least for which `worker` hops, and
hopping depends on the current one only. A queue of two with three accepted
messages fills, refuses, drains and fills again. The schedules have nested,
consecutive and too wide entries, one at the very edge of the band and one over
it. Four bins let a signal's best bin, its strong bin and a neighbour's margin
differ; of five kinds of spectra one is a burst, which outlives itself in the
average. Two good configurations let a file, a temporary configuration and a running
one differ; two starts are one with a history and one after it. In `startup` the radios
come in either order, one of them twice in the three ways that matter (over the network
and here, twice over the network, with a result without a serial in between), and one
reload brings everything an enumeration left in the devices back to
the next; the setups have a rate that divides its range, one that does not and leaves a
rest of one unit, ranges that overlap or are not sorted, two bands with one centre, a range that is a
single frequency, and a last band that reaches over the largest frequency. Steps are
coarse there, so that edges of bands lie between bins and a narrow band may have none.
In `streams` a fourth spectrum pushes the first out of the average; spectra have means
of odd sums, means below -128, and bins without any power; and after a flush new samples
lie over old ones. The three blocks of `Streams` share no variable and each property is
about one of them, so that `MCStreams` lets one move at a time; the theorem about the
recorder is about all of `Streams`.

Deadlock is checked except for `Mqtt`, `Detection`, `Application`, `Startup` and
`Streams`. The first three model a process that really stops: after its destructor, by a
signal or a kill, or when it dies of an exception or of undefined behaviour. A start ends
with its scanners, and one process does not reload for ever in `Startup`; a recorder
that is destroyed does nothing more, nor does a block of `Streams` at its bound.
Elsewhere a clock or a schedule can always go on, and what matters, that no
thread waits for ever, is stated by the liveness properties.

Fairness, always weak unless said otherwise: threads run (`Worker`, `Thread`,
`Client`, `Detector`, `Take`, `Main`, `Callback`, the rest of a destructor once begun); the radio
delivers samples until it falls silent for good (`RadioFallsSilent`: `readStream` times
out, `sdr_source.cpp:34`; an error it reports ends the process), which it may do at any
time: `StopEnds` holds all the same, `QuietBandsAreVisited` and, with bands,
`ScheduleIsServed` are about radios that have not; clocks go on, strongly fair in `Detection`
where time passes between two spectra only. For `Mqtt`, strong fairness of a
successful `Connect`: an outage ends for an attempt. Nobody is assumed to stop
anything, the scheduling service never has to answer, and detectors may report
anything.

### What the violated runs show

* `scanner_scheduled_on_air`: `updateRecordings` identifies a recorder by
  `recordingFrequency`. When the first of two overlapping scheduled
  transmissions ends, the centre moves to the second one's, and its running
  recorder keeps the shift from the old centre: it records another frequency.
  `src/README.md:7` promises both recordings.
* `detection_break`: a signal that reached `TRANSMISSION_MAX_TIME` is missing
  from a single list, and the next spectrum finds it again. If that one list is
  overwritten before the scanner's thread took it, the recorder goes on
  (`config.h:16`, "break transmission if longer that").
* `startup_deaf`: there are three ways to be deaf on a configured frequency. Processors
  are looked up by the centre of their band (`sdr_device.cpp:47`), and of two bands with
  one centre the later gets the samples of both: what only the earlier has in its range
  is never detected. `center()` overflows above 1.07 GHz (`help_structures.h:33`), where
  the radio is tuned to a negative frequency. And a processor looks at the bins whose own
  frequency is in its band (`sdr_processor.cpp:39-41`), so that a band narrower than a
  step, as a range whose start is its stop, may have none. `src/README.md:3` promises all
  of what is configured ("scan and record multiple interesting frequencies bandwidth"),
  `src/README.md:11` all that `SoapySDR` supports. `ConfiguredIsHeard`, which `startup`
  checks and `StartupProofs` proves, says that a band outside of these three is heard to
  its edges, as long as `splitRange` does not overflow near the largest `Frequency`
  (`Representable`): what the bands are then is undefined, and nothing is claimed of them.

## Theorems

Proved by TLAPS for all values of the constants that satisfy the modules' named
assumptions.

* `ScannerProofs!DeviceSafety`: types, `RoutedOnlyWhenTuned`, `DistinctRecorders`,
  `WithinLimit`, `IgnoredIsCurrent`, `EveryTransmissionServed` for a device in the
  hands of any caller. The inductive invariant adds, to these, what holds in the
  middle of a call: while a call retunes the selector is off, once the tuner has
  answered it is the target's (or failed); while a list is worked off, what was
  passed is recorded or refused with all recorders busy, what is recorded is in
  the list. `DeviceAssumption` asks for more recorder identities than recorders.
* `ScannerProofs!ScannerInvariant`: types, that the radio is on the band `cur` in
  each place of `worker` outside of a schedule or will be when the call in
  progress returns, and that outside of `runScheduler` recorders and lists are
  the scanner's. From it: `TypeCorrect`, `ScannerListens`, `ScannerOwnsRecorders`.
  `ScannerImplementsDevice` shows that each step of the scanner is a device step
  or a stutter, and brings the device's theorems over
  (`ScannerRoutesOnlyWhenTuned`, `ScannerServesTransmissions`, `ScannerRecordsOnce`,
  `ScannerWithinLimit`, `ScannerIgnoresOnlyWhenFull`).
* `MqttProofs!MqttInvariant`: the accepted messages are the published ones
  followed by the queue (without its front between `publish` and `pop`), the
  front exists whenever it is read, and the topics a session must have are among
  `topics` and `waitingTopics` when it has not been given them. From it
  `QueueSafe`, `QueueStaysBounded`, `TopicsSafe`, `TypeCorrect`, and the refinement
  `QueueImplementsChannel`.
* `SchedulerProofs!SchedulerInvariant`: what is left of an answer is sorted, lacks
  only what has ended, and holds nothing that was not given; a query sent while
  refreshing is off is one the thread had decided on before. From it `ListKept`,
  `RefreshHeld`, `RecordingsComplete`, `TypeCorrect`. It rests on
  `SchedulerAssumption`: the service sorts its answers by begin. The code does not
  check that.
* `ApplicationProofs!ApplicationInvariant`: between two callbacks the next constructor
  would read what was asked for; an Application that is not about to be replaced was
  constructed with it; in a callback, `m_reload` is up before `m_tmpJson` is written,
  and the Mqtt thread is gone before the next constructor reads it. The last two are
  what makes raising the flag first harmless. From it `ReloadLosesNothing`,
  `FileStaysWhole`, `TypeCorrect`.
* `StartupProofs!RangesHeard`: whatever the rate and the ranges, if `splitRange` does not
  overflow (`Representable`, a hypothesis), each frequency of a range is in one of its
  bands; and each frequency of a band is within `SIGNAL_DETECTION_MAX_STEP` of a bin that
  its processor looks at, if the band is alone with its centre, the sum of its ends does
  not overflow and it is no narrower than a step. It goes from division to `roundDown`,
  from there to a split rate that is positive and not above the sample rate, to the bands,
  which leave no gap, and to the bins: the loop of `getFft` ends, as doubling passes any
  number (`DoubledGrows`, `FftIsFine`), bins are no more than a step apart (`BinSteps`) and
  reach both edges of the band although its centre is rounded (`CenterBetween`), so that
  the least bin above a frequency, or the one before it, is in the band (`BinNear`).
* `StartupProofs!TunedFrequencyIsNearest`: `getTunedFrequency`, of frequencies and of the
  shifts of `transmission.cpp:160`, which are negative in half of each band.
* `StartupProofs!IInv`: types; one entry a serial; for a configuration that was saved
  the connected devices are those opened since it was read, none before the
  enumeration, which is why `clearDevices` is needed; a device whose radio was opened
  has the driver of a result that was kept. From it `RadiosOnce`, `ConnectedNow`,
  `AttachedFirst`, `TypeCorrect`, and with `RangesHeard` `ConfiguredHeard`.
  `StartupAssumption` asks for types only, so that setups that overflow are among those
  the hub may send.
* `StartupProofs!SettingsKeptThroughout` (`SettingsSurvive`) has an invariant of its own,
  `SettingsInv`: until the enumeration the devices are those read; after it each of them
  is in its place with its serial, its switch and its setup, and each gain read for it is
  still there with its value, or is one that the device's driver did not list when it was
  asked (`GainsKept`), wherever a driver fails and however often a radio is found.
* `DetectionProofs!IInv`: types; while signals are added, what is left to do is strong on
  average, and a signal without an index is strong now, so that the update that follows
  gives it one (`Heard`); what the loop has passed is contained (`PassedAreContained`),
  and outside of it nothing is left to do. Three facts about any sizes carry it: windows
  are symmetric (`WindowSymmetric`), they have a peak (`PeakIsFirst`), and what is about a bin within
  `GroupSize \div 2` is within the margin (`Halves`), so that a signal put at its best
  index still contains the bin that was strong, and that index is the key of no other
  signal, though it may be next to one. From it `SignalsIndexed`, `StrongListed`,
  `NewSignalsNew`, `TypeCorrect`; and `LoopNeverStops`, that neither `sort()` nor
  `mostFrequentValue()` leaves the loop of `addSignals` without a next step, on which
  `SilenceEndsRecorders` rests. Averages of more than one spectrum are sums, of which
  only that they are numbers is needed.
* `StreamsProofs!RecorderImplementsStream`: the first `m_count` entries of the buffer are
  the last samples received, and the hub has what was received before them, and of them
  what the flush under way has sent (`BufferHoldsRest`, `SentSoFar`). With it each step is
  one of `SampleStream` or a stutter.
* `StreamsProofs!AveragesOverNoise`: for any spectra and length of the average. The
  invariant `LearnerInv` says what `buffers` are: from the end, what each spectrum of the
  window counts for, and zeros while the window is not full, in each bin that is not
  broken; and that all spectra were learned from until the noise is ready, which is why
  `loudest` may change under them. `push` then slides the sum by one (`SlidingSum`).
* `StreamsProofs!RowsOfMeans`: for any spectra, rows and decimation. The invariant
  `SpectrogramInv` says what the container is: for each bin of the row the sum of its cells
  in the spectra since the last row, or no number if one of them is empty (`SumOver`).
  A spectrum more adds its own cells (`SumOverNext`). `SpectrogramAssumption` asks
  that a spectrum has all the bins a row is made of, which the integer division in the
  constructor ensures.

Sums are the community modules' folds, which choose a function that satisfies a recursion.
The provers cannot instantiate a theorem of induction with a predicate; `FiniteFacts`
states induction for sets instead (`Induction`, `SubsetInduction`: a set of numbers, or of
subsets, that is closed is everything), proves with it that such a function exists and
does not depend on the order of the elements (`SumsExist`, `SumsElement`), that one
which iterates a step exists (`IterationExists`, for the doubling in `getFft`), and from there
what a sum is of one term more, of shifted terms, of one row more (`SumNext`, `SumShift`,
`SumNextRow`).

Each inductive invariant was checked by TLC as an invariant of the component's run before
it was proved. Only model-checked: the liveness properties (`QuietBandsAreVisited`,
`ScheduleIsServed`, `StopEnds`, `EverythingGoesOut`, `Recovers`, `ServingEnds`,
`AsksForEver`, `SilenceEndsRecorders`, `Settles`, `SignalEnds`): leads-to under
fairness needs `ENABLED`, which is out of the prover's reach. Every invariant and
refinement that a passing run checks is a theorem.

## Not modelled

Samples that the driver has buffered when the selector is switched: frames in flight in
`Scanner` are behind the selector, and the millisecond `setFrequencyRange` sleeps
(`sdr_device.cpp:81`) before it sets the selector again is for those before it.
`RoutedOnlyWhenTuned` is about the selector and the tuner, not about what a detector gets.

`Detection` has a recorder for each bin; the code finds recorders by the frequency the bin
is tuned to (`transmission.cpp:160-163`, `sdr_device.cpp:92`). A best index may lie next to
another signal, and two signals with one tuned frequency share a recorder there. No
property is about a recorder that two signals share.

Signal processing (FFT, PSD, decimation, resampling, AGC) is floating point
without control. Sums of powers are integers in the models; -inf, -FLT_MAX and the
conversion to `int8_t`, which control what follows, are not. The wiring of GNU Radio
blocks, opening and closing radios, logging, the command line and JSON layouts keep no
state that a property is about; migration of the configuration does nothing yet.
`remote_controller.cpp` only names topics. Limits and options of gains are what a driver
says and nothing depends on them. `popAllSamples`, `clear`, `Averager::reset`, and the
helpers only the tests use are not called by the program.

Which data races the order of members allows at construction (`scanner.h:28`,
`mqtt.h:39`, `scheduler.h:38`) is not modelled, the components start constructed; nor is
the race on the vector of callbacks (`mqtt.cpp:77`). nlohmann's exceptions are no
`std::runtime_error`, so that a configuration query may not be answered at all
(`application.cpp:44`): answers change no state there. `dumpSource` reads the first of no
ranges on a device without bands (`sdr_device.cpp:51`), a debugging aid.
`stop_recording_level` is assumed not to be above `start_recording_level`.

## Plan

Done: all components that keep state, with proofs of every safety property and
refinement the runs check. Next, in this order:

1. What the liveness properties rest on, as far as it is safety: measures that steps of
   a thread bring down and no other step brings up (the queue of `Mqtt` once it is
   connected, the schedules of `runScheduler`, the results left in `Startup`).
2. A composition of `Scanner` with `Scheduler` in place of its free schedule, to
   show that the schedules `Scanner` assumes are those `getRecordings` gives; and of
   `Application` with the callbacks the scanners leave behind in `Mqtt`.

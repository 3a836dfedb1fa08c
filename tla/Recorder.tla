------------------------------ MODULE Recorder ------------------------------
(***************************************************************************)
(* A recorder between its flow graph and the hub (radio/recorder.cpp,      *)
(* radio/blocks/buffer.h): GNU Radio's thread pushes blocks of samples     *)
(* into the buffer, the scanner's thread flushes it, one message a sample, *)
(* and destroys it.  A sample is one vector of RECORDER_FLUSH_INTERVAL.    *)
(***************************************************************************)
EXTENDS Integers, Sequences

CONSTANTS
  Samples,
  Blocks,      \* what the flow graph may hand to work() at once
  MaxReceived, \* bound: samples in all
  MaxTime      \* bound: how far the clock goes

ASSUME RecorderAssumption ==
  /\ Blocks \subseteq Seq(Samples)
  /\ MaxTime \in Nat

VARIABLES
  data,        \* m_data by sample; it only grows, what was popped stays in it
  samplesTime, \* m_samplesTime
  count,       \* m_count
  popping,     \* the sample popSingleSample is at, 0 when m_mutex is free
  clock,       \* getTime()
  destroyed,
  received,    \* history: the samples work() was called with, with their times
  sent         \* history: what m_send was called with

recorderVars == <<data, samplesTime, count, popping, clock, destroyed, received, sent>>

Stamped == [sample : Samples, time : 0..MaxTime]

RecorderTypeOK ==
  /\ data \in Seq(Samples)
  /\ samplesTime \in Seq(0..MaxTime)
  /\ count \in Nat /\ count <= Len(data) /\ count <= Len(samplesTime)
  /\ popping \in 0..count
  /\ clock \in 0..MaxTime
  /\ destroyed \in BOOLEAN
  /\ received \in Seq(Stamped)
  /\ sent \in Seq(Stamped)

RecorderInit ==
  /\ data = <<>>
  /\ samplesTime = <<>>
  /\ count = 0
  /\ popping = 0
  /\ clock = 0
  /\ destroyed = FALSE
  /\ received = <<>>
  /\ sent = <<>>

-----------------------------------------------------------------------------
\* Fault: a block is written over the samples that wait.
CopyToFront(list, block) ==
  [k \in 1..(IF Len(list) < count + Len(block) THEN count + Len(block) ELSE Len(list)) |->
     IF k <= Len(block) THEN block[k] ELSE IF k <= Len(list) THEN list[k] ELSE block[1]]

\* resize and memcpy: what lies behind the block stays.
Copy(list, block) ==
  [k \in 1..(IF Len(list) < count + Len(block) THEN count + Len(block) ELSE Len(list)) |->
     IF count < k /\ k <= count + Len(block) THEN block[k - count] ELSE list[k]]

\* The clock is read for each sample.
Stamps(n) ==
  {times \in [1..n -> clock..MaxTime] : \A i, j \in 1..n : i < j => times[i] <= times[j]}

Push ==
  /\ ~destroyed /\ popping = 0
  /\ \E block \in Blocks : \E times \in Stamps(Len(block)) :
       /\ Len(received) + Len(block) <= MaxReceived
       /\ data' = Copy(data, block)
       /\ samplesTime' = Copy(samplesTime, times)
       /\ count' = count + Len(block)
       /\ clock' = IF block = <<>> THEN clock ELSE times[Len(block)]
       /\ received' = received \o [i \in 1..Len(block) |-> [sample |-> block[i], time |-> times[i]]]
  /\ UNCHANGED <<popping, destroyed, sent>>

\* flush() takes the mutex; with nothing to pop it lets go of it at once.
FlushBegin ==
  /\ ~destroyed /\ popping = 0
  /\ count # 0
  /\ popping' = 1
  /\ UNCHANGED <<data, samplesTime, count, clock, destroyed, received, sent>>

\* After the last sample m_count is reset and the mutex released.
FlushSend ==
  /\ popping # 0
  /\ sent' = Append(sent, [sample |-> data[popping], time |-> samplesTime[popping]])
  /\ popping' = IF popping < count THEN popping + 1 ELSE 0
  /\ count' = IF popping < count THEN count ELSE 0
  /\ UNCHANGED <<data, samplesTime, clock, destroyed, received>>

\* The thread that flushes destroys: what waits in the buffer is not sent.
Destroy ==
  /\ ~destroyed /\ popping = 0
  /\ destroyed' = TRUE
  /\ UNCHANGED <<data, samplesTime, count, popping, clock, received, sent>>

TimePasses ==
  /\ clock < MaxTime
  /\ clock' = clock + 1
  /\ UNCHANGED <<data, samplesTime, count, popping, destroyed, received, sent>>

RecorderNext == Push \/ FlushBegin \/ FlushSend \/ Destroy \/ TimePasses

-----------------------------------------------------------------------------
\* To the hub a recorder is a stream of samples, however pushes and flushes alternate
\* and whatever lies about in the buffer.
Stream == INSTANCE SampleStream WITH Stamped <- Stamped, received <- received, sent <- sent,
                                     closed <- destroyed
ActsAsSampleStream == Stream!Spec

=============================================================================

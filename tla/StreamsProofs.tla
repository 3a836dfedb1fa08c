--------------------------- MODULE StreamsProofs ---------------------------
(***************************************************************************)
(* For any samples, in blocks of any size, a recorder implements the       *)
(* stream it promises: the buffer holds what was received and is not sent. *)
(* For any spectra the averages of a band are over its noise: the buffers  *)
(* hold what the last spectra count for.  For any spectra and row size the *)
(* rows of the spectrogram are means: the container holds the sums of what *)
(* came since the last row.                                                *)
(***************************************************************************)
EXTENDS Streams, SequenceTheorems, FiniteFacts

-----------------------------------------------------------------------------
(* The recorder *)

\* What the hub has is what was received, less the buffer, plus what the flush under way
\* has sent of it.
SentSoFar == Len(sent) = Len(received) - count + (IF popping = 0 THEN 0 ELSE popping - 1)

BufferHoldsRest ==
  \A j \in 1..count :
    received[Len(received) - count + j] = [sample |-> data[j], time |-> samplesTime[j]]

RecorderInv == RecorderTypeOK /\ SentSoFar /\ BufferHoldsRest

\* A function on 1..n is a sequence of length n.
LEMMA FunctionIsSequence ==
  ASSUME NEW S, NEW n \in Nat, NEW f \in [1..n -> S]
  PROVE  f \in Seq(S) /\ Len(f) = n
  OBVIOUS

\* What a concatenation is made of.
LEMMA Concatenation ==
  ASSUME NEW S, NEW s \in Seq(S), NEW t \in Seq(S)
  PROVE  /\ s \o t \in Seq(S) /\ Len(s \o t) = Len(s) + Len(t)
         /\ \A i \in 1..Len(s) : (s \o t)[i] = s[i]
         /\ \A i \in 1..Len(t) : (s \o t)[Len(s) + i] = t[i]
  OBVIOUS

\* Copying a block behind what waits keeps what waits.
LEMMA CopyKeeps ==
  ASSUME NEW S, NEW list \in Seq(S), NEW block \in Seq(S), count \in Nat, count <= Len(list)
  PROVE  /\ Copy(list, block) \in Seq(S)
         /\ count + Len(block) <= Len(Copy(list, block))
         /\ \A k \in 1..count : Copy(list, block)[k] = list[k]
         /\ \A k \in 1..Len(block) : Copy(list, block)[count + k] = block[k]
<1> DEFINE n == IF Len(list) < count + Len(block) THEN count + Len(block) ELSE Len(list)
<1>1. n \in Nat /\ count + Len(block) <= n /\ Len(list) <= n
      /\ (n # Len(list) => n = count + Len(block))
  OBVIOUS
<1>2. Copy(list, block) =
        [k \in 1..n |-> IF count < k /\ k <= count + Len(block) THEN block[k - count] ELSE list[k]]
  BY DEF Copy
<1> HIDE DEF n
<1>3. ASSUME NEW k \in 1..n
      PROVE  (IF count < k /\ k <= count + Len(block) THEN block[k - count] ELSE list[k]) \in S
  <2>1. CASE count < k /\ k <= count + Len(block)
    <3>1. k - count \in 1..Len(block)
      BY <1>1, <2>1
    <3> QED
      BY <2>1, <3>1
  <2>2. CASE ~(count < k /\ k <= count + Len(block))
    <3>1. k \in 1..Len(list)
      BY <1>1, <2>2
    <3> QED
      BY <2>2, <3>1
  <2> QED
    BY <2>1, <2>2
<1>4. Copy(list, block) \in [1..n -> S]
  BY <1>2, <1>3
<1>5. Copy(list, block) \in Seq(S) /\ Len(Copy(list, block)) = n
  BY <1>1, <1>4
<1>6. \A k \in 1..count : Copy(list, block)[k] = list[k]
  BY <1>1, <1>2
<1>7. ASSUME NEW k \in 1..Len(block) PROVE Copy(list, block)[count + k] = block[k]
  <2>1. count + k \in 1..n /\ count < count + k /\ count + k <= count + Len(block)
        /\ (count + k) - count = k
    BY <1>1
  <2> QED
    BY <1>2, <2>1
<1> QED
  BY <1>1, <1>5, <1>6, <1>7

-----------------------------------------------------------------------------
(* Steps *)

LEMMA RecorderInitInv == RecorderInit => RecorderInv /\ Stream!Init
<1> SUFFICES ASSUME RecorderInit PROVE RecorderInv /\ Stream!Init
  OBVIOUS
<1>1. data = <<>> /\ samplesTime = <<>> /\ received = <<>> /\ sent = <<>>
      /\ count = 0 /\ popping = 0 /\ clock = 0
  BY DEF RecorderInit
<1>2. destroyed = FALSE
  BY DEF RecorderInit
<1>3. destroyed \in BOOLEAN
  BY <1>2
<1>4. RecorderTypeOK
  BY <1>1, <1>3, RecorderAssumption DEF RecorderTypeOK
<1>5. SentSoFar /\ BufferHoldsRest
  BY <1>1 DEF SentSoFar, BufferHoldsRest
<1> QED
  BY <1>1, <1>2, <1>4, <1>5 DEF RecorderInv, Stream!Init

\* push() under the lock
LEMMA PushStep ==
  ASSUME RecorderInv, Push
  PROVE  RecorderInv' /\ Stream!Receive
<1> USE DEF RecorderInv, RecorderTypeOK
<1>1. PICK block \in Blocks :
        \E times \in Stamps(Len(block)) :
          /\ data' = Copy(data, block)
          /\ samplesTime' = Copy(samplesTime, times)
          /\ count' = count + Len(block)
          /\ clock' = IF block = <<>> THEN clock ELSE times[Len(block)]
          /\ received' = received \o [i \in 1..Len(block) |-> [sample |-> block[i], time |-> times[i]]]
  BY DEF Push
<1>2. PICK times \in Stamps(Len(block)) :
          /\ data' = Copy(data, block)
          /\ samplesTime' = Copy(samplesTime, times)
          /\ count' = count + Len(block)
          /\ clock' = IF block = <<>> THEN clock ELSE times[Len(block)]
          /\ received' = received \o [i \in 1..Len(block) |-> [sample |-> block[i], time |-> times[i]]]
  BY <1>1
<1>3. ~destroyed /\ popping = 0 /\ popping' = 0 /\ destroyed' = destroyed /\ sent' = sent
  BY DEF Push
<1> DEFINE n == Len(block)
           news == [i \in 1..n |-> [sample |-> block[i], time |-> times[i]]]
<1>4. block \in Seq(Samples) /\ n \in Nat
  BY RecorderAssumption
<1>5. times \in [1..n -> 0..MaxTime]
  <2>1. times \in [1..n -> clock..MaxTime]
    BY DEF Stamps
  <2>2. clock..MaxTime \subseteq 0..MaxTime
    BY RecorderAssumption
  <2> QED
    BY <2>1, <2>2
<1>6. times \in Seq(0..MaxTime) /\ Len(times) = n
  <2> HIDE DEF n
  <2> QED
    BY <1>4, <1>5, FunctionIsSequence
<1>7. news \in Seq(Stamped) /\ Len(news) = n
  <2>1. \A i \in 1..n : block[i] \in Samples /\ times[i] \in 0..MaxTime
    BY <1>4, <1>5
  <2>2. news \in [1..n -> Stamped]
    BY <2>1 DEF Stamped
  <2> HIDE DEF news, n
  <2> QED
    BY <1>4, <2>2, FunctionIsSequence
<1>8. /\ data' \in Seq(Samples) /\ count + n <= Len(data')
      /\ \A k \in 1..count : data'[k] = data[k]
      /\ \A k \in 1..n : data'[count + k] = block[k]
  BY <1>2, <1>4, CopyKeeps, SMTT(30)
<1>9. /\ samplesTime' \in Seq(0..MaxTime) /\ count + n <= Len(samplesTime')
      /\ \A k \in 1..count : samplesTime'[k] = samplesTime[k]
      /\ \A k \in 1..n : samplesTime'[count + k] = times[k]
  <2>1. samplesTime \in Seq(0..MaxTime) /\ count <= Len(samplesTime) /\ count \in Nat
    OBVIOUS
  <2>2. samplesTime' = Copy(samplesTime, times)
    BY <1>2
  <2> HIDE DEF n, RecorderInv
  <2> QED
    BY <1>6, <2>1, <2>2, CopyKeeps
<1>10. /\ received' = received \o news /\ received' \in Seq(Stamped)
       /\ Len(received') = Len(received) + n
       /\ \A i \in 1..Len(received) : received'[i] = received[i]
       /\ \A i \in 1..n : received'[Len(received) + i] = news[i]
  <2>1. received' = received \o news /\ received \in Seq(Stamped)
    BY <1>2
  <2> HIDE DEF news, n, RecorderInv, RecorderTypeOK
  <2>3. ASSUME NEW s \in Seq(Stamped), NEW u \in Seq(Stamped)
        PROVE  /\ s \o u \in Seq(Stamped) /\ Len(s \o u) = Len(s) + Len(u)
               /\ \A i \in 1..Len(s) : (s \o u)[i] = s[i]
               /\ \A i \in 1..Len(u) : (s \o u)[Len(s) + i] = u[i]
    BY Concatenation
  <2>2. /\ received \o news \in Seq(Stamped) /\ Len(received \o news) = Len(received) + Len(news)
        /\ \A i \in 1..Len(received) : (received \o news)[i] = received[i]
        /\ \A i \in 1..Len(news) : (received \o news)[Len(received) + i] = news[i]
    BY <1>7, <2>1, <2>3, Zenon
  <2> QED
    BY <1>7, <2>1, <2>2
<1>11. clock' \in 0..MaxTime
  <2>1. CASE block = <<>>
    BY <1>2, <2>1
  <2>2. CASE block # <<>>
    <3>1. n \in 1..n
      BY <1>4, <2>2
    <3> QED
      BY <1>2, <1>5, <2>2, <3>1
  <2> QED
    BY <2>1, <2>2
<1>12. count' = count + n
  BY <1>2
<1>13. RecorderTypeOK'
  BY <1>3, <1>4, <1>8, <1>9, <1>10, <1>11, <1>12, SMTT(30)
<1>14. SentSoFar'
  <2>1. /\ Len(received') = Len(received) + n /\ count' = count + n
        /\ sent' = sent /\ popping = 0 /\ popping' = 0
    BY <1>3, <1>10, <1>12
  <2>2. count \in Nat /\ Len(received) \in Nat /\ Len(sent) = Len(received) - count
    BY <2>1 DEF SentSoFar
  <2> HIDE DEF n, RecorderInv
  <2> QED
    BY <1>4, <2>1, <2>2 DEF SentSoFar
<1>15. BufferHoldsRest'
  <2> SUFFICES ASSUME NEW j \in 1..(count + n)
               PROVE  received'[Len(received) - count + j]
                        = [sample |-> data'[j], time |-> samplesTime'[j]]
    <3>1. count' = count + n /\ Len(received') - count' = Len(received) - count
      <4>1. Len(received') = Len(received) + n /\ Len(received) \in Nat /\ count \in Nat
        BY <1>10
      <4> HIDE DEF n, RecorderInv
      <4> QED
        BY <1>4, <1>12, <4>1
    <3> HIDE DEF n, RecorderInv
    <3> QED
      BY <3>1 DEF BufferHoldsRest
  <2> HIDE DEF n, news
  <2>0. Len(received) - count \in Nat
    BY <1>3 DEF SentSoFar
  <2>1. CASE j <= count
    <3>1. j \in 1..count /\ Len(received) - count + j \in 1..Len(received)
      BY <1>4, <2>0, <2>1
    <3> QED
      BY <1>8, <1>9, <1>10, <3>1 DEF BufferHoldsRest
  <2>2. CASE count < j
    <3>1. PICK k \in 1..n : j = count + k
      <4>1. j - count \in 1..n /\ j = count + (j - count)
        BY <1>4, <2>2
      <4> QED
        BY <4>1
    <3>2. Len(received) - count + j = Len(received) + k
      BY <3>1
    <3>3. news[k] = [sample |-> block[k], time |-> times[k]]
      BY <3>1 DEF news, n
    <3> QED
      BY <1>8, <1>9, <1>10, <3>1, <3>2, <3>3, ZenonT(30)
  <2> QED
    BY <1>4, <2>1, <2>2
<1>16. Stream!Receive
  BY <1>3, <1>10 DEF Stream!Receive
<1> QED
  BY <1>13, <1>14, <1>15, <1>16

\* popSingleSample's callback
LEMMA SendStep ==
  ASSUME RecorderInv, ~destroyed, FlushSend
  PROVE  RecorderInv' /\ Stream!Send
<1> USE DEF RecorderInv, RecorderTypeOK
<1> DEFINE item == [sample |-> data[popping], time |-> samplesTime[popping]]
<1>1. /\ popping \in 1..count
      /\ sent' = Append(sent, item)
      /\ popping' = IF popping < count THEN popping + 1 ELSE 0
      /\ count' = IF popping < count THEN count ELSE 0
      /\ UNCHANGED <<data, samplesTime, clock, destroyed, received>>
  BY DEF FlushSend
<1>2. Len(sent) = Len(received) - count + (popping - 1)
  BY <1>1 DEF SentSoFar
<1>3. received[Len(received) - count + popping] = item
  BY <1>1 DEF BufferHoldsRest
<1>4. Len(sent) + 1 = Len(received) - count + popping /\ Len(sent) < Len(received)
  BY <1>1, <1>2
<1>5. item = received[Len(sent) + 1]
  BY <1>3, <1>4
<1>6. item \in Stamped
  BY <1>4, <1>5
<1> HIDE DEF item
<1>7. sent' \in Seq(Stamped) /\ Len(sent') = Len(sent) + 1
  BY <1>1, <1>6
<1>8. RecorderTypeOK'
  BY <1>1, <1>7
<1>9. SentSoFar'
  <2>1. Len(sent) \in Nat /\ Len(received) \in Nat /\ count \in Nat /\ received' = received
    BY <1>1
  <2>2. CASE popping < count
    <3>1. popping' = popping + 1 /\ count' = count
      BY <1>1, <2>2
    <3> QED
      <4>1. popping \in Nat /\ popping # 0 /\ Len(sent') = Len(sent) + 1
        BY <1>1, <1>7, <2>1
      <4> HIDE DEF RecorderInv, RecorderTypeOK
      <4> QED
        BY <1>2, <2>1, <3>1, <4>1 DEF SentSoFar
  <2>3. CASE ~(popping < count)
    <3>1. popping' = 0 /\ count' = 0 /\ popping = count
      BY <1>1, <2>1, <2>3
    <3> QED
      BY <1>2, <1>7, <2>1, <3>1 DEF SentSoFar
  <2> QED
    BY <2>2, <2>3
<1>10. BufferHoldsRest'
  <2>1. CASE popping < count
    BY <1>1, <2>1 DEF BufferHoldsRest
  <2>2. CASE ~(popping < count)
    <3>1. count' = 0
      BY <1>1, <2>2
    <3> QED
      BY <3>1 DEF BufferHoldsRest
  <2> QED
    BY <2>1, <2>2
<1>11. Stream!Send
  BY <1>1, <1>4, <1>5 DEF Stream!Send
<1> QED
  BY <1>8, <1>9, <1>10, <1>11

\* Nothing is flushed after the recorder's end.
FlushedAlive == destroyed => popping = 0

LEMMA RecorderStep ==
  ASSUME RecorderInv, FlushedAlive, [RecorderNext]_recorderVars
  PROVE  /\ RecorderInv' /\ FlushedAlive'
         /\ [Stream!Receive \/ Stream!Send \/ Stream!Close]_<<received, sent, destroyed>>
<1>1. CASE Push
  <2>1. FlushedAlive'
    BY <1>1 DEF Push, FlushedAlive
  <2> QED
    BY <1>1, <2>1, PushStep
<1>2. CASE FlushBegin
  <2>1. /\ ~destroyed /\ popping = 0 /\ count # 0 /\ popping' = 1
        /\ UNCHANGED <<data, samplesTime, count, clock, destroyed, received, sent>>
    BY <1>2 DEF FlushBegin
  <2>2. RecorderTypeOK'
    BY <2>1 DEF RecorderInv, RecorderTypeOK
  <2>3. SentSoFar' /\ BufferHoldsRest'
    BY <2>1, SMTT(30) DEF RecorderInv, RecorderTypeOK, SentSoFar, BufferHoldsRest
  <2>4. FlushedAlive'
    BY <2>1 DEF FlushedAlive
  <2> QED
    BY <2>1, <2>2, <2>3, <2>4 DEF RecorderInv
<1>3. CASE FlushSend
  <2>1. ~destroyed /\ destroyed' = destroyed
    BY <1>3 DEF FlushSend, FlushedAlive
  <2>2. FlushedAlive'
    BY <2>1 DEF FlushedAlive
  <2> QED
    BY <1>3, <2>1, <2>2, SendStep
<1>4. CASE Destroy
  <2>1. /\ popping = 0 /\ destroyed' = TRUE
        /\ UNCHANGED <<data, samplesTime, count, popping, clock, received, sent>>
    BY <1>4 DEF Destroy
  <2>2. RecorderTypeOK'
    <3>1. destroyed' \in BOOLEAN
      BY <2>1, Zenon
    <3> QED
      BY <2>1, <3>1 DEF RecorderInv, RecorderTypeOK
  <2>3. SentSoFar' /\ BufferHoldsRest' /\ FlushedAlive'
    BY <2>1 DEF RecorderInv, SentSoFar, BufferHoldsRest, FlushedAlive
  <2>4. Stream!Close
    BY <2>1 DEF Stream!Close
  <2> QED
    BY <2>2, <2>3, <2>4 DEF RecorderInv
<1>5. CASE TimePasses
  <2>1. /\ clock < MaxTime /\ clock' = clock + 1
        /\ UNCHANGED <<data, samplesTime, count, popping, destroyed, received, sent>>
    BY <1>5 DEF TimePasses
  <2>2. RecorderTypeOK'
    BY <2>1, RecorderAssumption DEF RecorderInv, RecorderTypeOK
  <2>3. SentSoFar' /\ BufferHoldsRest' /\ FlushedAlive'
    BY <2>1 DEF RecorderInv, SentSoFar, BufferHoldsRest, FlushedAlive
  <2> QED
    BY <2>1, <2>2, <2>3 DEF RecorderInv
<1>6. CASE UNCHANGED recorderVars
  BY <1>6 DEF recorderVars, RecorderInv, RecorderTypeOK, SentSoFar, BufferHoldsRest, FlushedAlive
<1> QED
  BY <1>1, <1>2, <1>3, <1>4, <1>5, <1>6 DEF RecorderNext

-----------------------------------------------------------------------------
(* The noise learner and its averager *)

\* What a spectrum counts for in a bin, with the loudest of each bin given.
WorthOver(seen, loud, j) == IF seen.learned THEN NoData ELSE seen.data[j] - loud[j]

LearnerTypeOK ==
  /\ isReady \in BOOLEAN
  /\ loudest \in [Bin -> Int \cup {Lowest}]
  /\ threshold = loudest
  /\ buffers \in Seq([Bin -> Int \cup {Broken}]) /\ Len(buffers) = GroupingY
  /\ window \in Seq([data : Frames, learned : BOOLEAN])
  /\ frames = Len(window) /\ frames <= GroupingY
  /\ spoilt \subseteq Bin

\* Until the noise is learned all spectra are learned from, and no bin is broken.
LearnedSoFar ==
  ~isReady => spoilt = {} /\ \A n \in 1..frames : window[n].learned

\* The buffers are the spectra of the window, at their end.
BuffersHoldWindow ==
  \A j \in Bin \ spoilt :
    /\ \A n \in 1..GroupingY - frames : buffers[n][j] = 0
    /\ \A n \in 1..frames :
         /\ Worth(window[n], j) \in Int
         /\ buffers[GroupingY - frames + n][j] = Worth(window[n], j)

LearnerInv == LearnerTypeOK /\ LearnedSoFar /\ BuffersHoldWindow /\ AverageIsOverNoise

\* u has the last N numbers of w and v after them: if w is full, its first is left out.
Slides(N, m, n, w, u, head, v) ==
  /\ N \in Nat \ {0} /\ m \in 0..N /\ v \in Int
  /\ \A i \in 1..m : w[i] \in Int
  /\ n = (IF m < N THEN m + 1 ELSE N)
  /\ u[n] = v
  /\ m < N => \A i \in 1..m : u[i] = w[i]
  /\ m = N => \A i \in 1..N - 1 : u[i] = w[i + 1]
  /\ head = (IF m < N THEN 0 ELSE w[1])

\* A sum over the last N numbers: what is pushed out is subtracted.
LEMMA SlidingSum ==
  ASSUME NEW N, NEW m, NEW n, NEW w, NEW u, NEW head, NEW v, Slides(N, m, n, w, u, head, v)
  PROVE  /\ SumFunctionOnSet(w, 1..m) \in Int
         /\ SumFunctionOnSet(u, 1..n) = SumFunctionOnSet(w, 1..m) - head + v
<1> USE DEF Slides
<1>1. SumFunctionOnSet(w, 1..m) \in Int
  <2>1. IsFiniteSet(1..m)
    BY FS_Interval
  <2> QED
    BY <2>1, SumType
<1>2. CASE m < N
  <2>1. n = m + 1 /\ head = 0 /\ \A i \in 1..m + 1 : u[i] \in Int
    BY <1>2
  <2>2. SumFunctionOnSet(u, 1..m + 1) = SumFunctionOnSet(u, 1..m) + u[m + 1]
    BY <2>1, SumNext
  <2>3. SumFunctionOnSet(w, 1..m) = SumFunctionOnSet(u, 1..m)
    <3>1. IsFiniteSet(1..m)
      BY FS_Interval
    <3>2. \A i \in 1..m : w[i] = u[i] /\ w[i] \in Int
      BY <1>2
    <3> QED
      BY <3>1, <3>2, SumEqual
  <2>4. SumFunctionOnSet(u, 1..n) = SumFunctionOnSet(w, 1..m) + v
    BY <2>1, <2>2, <2>3
  <2> QED
    BY <1>1, <2>1, <2>4
<1>3. CASE m = N
  <2>0. n = N /\ head = w[1]
    BY <1>3
  <2>1. PICK k \in Nat : N = k + 1
    <3>1. N - 1 \in Nat /\ N = (N - 1) + 1
      OBVIOUS
    <3> QED
      BY <3>1
  <2>2. /\ \A i \in 1..k + 1 : w[i] \in Int
        /\ \A i \in 1..k : u[i] = w[i + 1]
        /\ w[1] \in Int /\ u[k + 1] = v
    BY <1>3, <2>0, <2>1
  <2>3. SumFunctionOnSet(w, 1..k + 1) = w[1] + SumFunctionOnSet(u, 1..k)
    BY <2>2, SumShift
  <2>4. \A i \in 1..k + 1 : u[i] \in Int
    BY <2>1, <2>2
  <2>5. SumFunctionOnSet(u, 1..k + 1) = SumFunctionOnSet(u, 1..k) + u[k + 1]
    BY <2>4, SumNext
  <2>6. SumFunctionOnSet(u, 1..k) \in Int
    <3>1. IsFiniteSet(1..k)
      BY FS_Interval
    <3>2. \A i \in 1..k : u[i] \in Int
      BY <2>4
    <3> QED
      BY <3>1, <3>2, SumType
  <2> DEFINE rest == SumFunctionOnSet(u, 1..k)
  <2>7. SumFunctionOnSet(w, 1..m) = w[1] + rest /\ SumFunctionOnSet(u, 1..n) = rest + v
    BY <1>3, <2>0, <2>1, <2>2, <2>3, <2>5
  <2>8. rest + v = (w[1] + rest) - w[1] + v
    <3> HIDE DEF rest
    <3> QED
      BY <2>2, <2>6 DEF rest
  <2> QED
    BY <1>1, <2>0, <2>7, <2>8
<1> QED
  BY <1>1, <1>2, <1>3

\* What becomes of a spectrum in the window.
AsSeen(frame) == [data |-> frame, learned |-> ~isReady]

\* The averager gets what the spectrum counts for, or what breaks the bins that it spoils,
\* and the spectra before count for what they did.
PushesWorth(frame, pushed) ==
  /\ frame \in Frames /\ pushed \in [Bin -> Int \cup {Broken}]
  /\ AveragerPush(pushed) /\ Seen(frame)
  /\ spoilt \subseteq spoilt' /\ spoilt' \subseteq Bin
  /\ \A j \in spoilt' \ spoilt : pushed[j] = Broken
  /\ \A j \in Bin \ spoilt' :
       /\ pushed[j] \in Int /\ pushed[j] = WorthOver(AsSeen(frame), loudest', j)
       /\ \A n \in 1..frames : WorthOver(window[n], loudest', j) = Worth(window[n], j)

\* Averager::push keeps the sums of the bins that are whole, and those that are broken
\* stay so.
LEMMA AverageStep ==
  ASSUME LearnerInv, NEW frame, NEW pushed, PushesWorth(frame, pushed)
  PROVE  /\ buffers' \in Seq([Bin -> Int \cup {Broken}]) /\ Len(buffers') = GroupingY
         /\ window' \in Seq([data : Frames, learned : BOOLEAN])
         /\ frames' = Len(window') /\ frames' <= GroupingY
         /\ \A n \in 1..frames' :
              window'[n] = AsSeen(frame) \/ \E m \in 1..frames : window'[n] = window[m]
         /\ BuffersHoldWindow' /\ AverageIsOverNoise'
<1> DEFINE seen == AsSeen(frame)
<1> SUFFICES ASSUME frame \in Frames, pushed \in [Bin -> Int \cup {Broken}],
                    AveragerPush(pushed), Seen(frame),
                    spoilt \subseteq spoilt', spoilt' \subseteq Bin,
                    \A j \in spoilt' \ spoilt : pushed[j] = Broken,
                    \A j \in Bin \ spoilt' :
                      /\ pushed[j] \in Int /\ pushed[j] = WorthOver(seen, loudest', j)
                      /\ \A n \in 1..frames : WorthOver(window[n], loudest', j) = Worth(window[n], j)
             PROVE  /\ buffers' \in Seq([Bin -> Int \cup {Broken}]) /\ Len(buffers') = GroupingY
                    /\ window' \in Seq([data : Frames, learned : BOOLEAN])
                    /\ frames' = Len(window') /\ frames' <= GroupingY
                    /\ \A n \in 1..frames' :
                         window'[n] = seen \/ \E m \in 1..frames : window'[n] = window[m]
                    /\ BuffersHoldWindow' /\ AverageIsOverNoise'
  BY DEF PushesWorth
<1> DEFINE N == GroupingY
           Row == [Bin -> Int \cup {Broken}]
           Entry == [data : Frames, learned : BOOLEAN]
<1>1. /\ N \in Nat \ {0} /\ frames \in 0..N /\ frames = Len(window)
      /\ buffers \in Seq(Row) /\ Len(buffers) = N /\ window \in Seq(Entry)
      /\ spoilt \subseteq Bin
  BY NoiseLearnerAssumption DEF LearnerInv, LearnerTypeOK
<1>2. seen \in Entry
  BY DEF LearnerInv, LearnerTypeOK, AsSeen
<1>3. /\ frames' = IF frames < N THEN frames + 1 ELSE N
      /\ sum' = [j \in Bin |-> Plus(Minus(sum[j], Head(buffers)[j]), pushed[j])]
      /\ buffers' = Append(Tail(buffers), pushed)
      /\ window' = Append(IF Len(window) < N THEN window ELSE Tail(window), seen)
  BY DEF AveragerPush, Seen, AsSeen
<1> HIDE DEF Row, Entry, N, seen
<1>4. /\ buffers' \in Seq(Row) /\ Len(buffers') = N /\ buffers'[N] = pushed
      /\ \A k \in 1..N - 1 : buffers'[k] = buffers[k + 1]
      /\ Head(buffers) = buffers[1]
  <2>1. buffers # <<>> /\ pushed \in Row
    BY <1>1 DEF Row
  <2>2. /\ Tail(buffers) \in Seq(Row) /\ Len(Tail(buffers)) = N - 1
        /\ \A k \in 1..N - 1 : Tail(buffers)[k] = buffers[k + 1]
        /\ Head(buffers) = buffers[1]
    BY <1>1, <2>1
  <2> QED
    BY <1>1, <1>3, <2>1, <2>2
<1>5. /\ window' \in Seq(Entry) /\ Len(window') = frames' /\ window'[frames'] = seen
      /\ frames < N => \A k \in 1..frames : window'[k] = window[k]
      /\ frames = N => \A k \in 1..N - 1 : window'[k] = window[k + 1]
  <2>1. CASE frames < N
    <3>1. window' = Append(window, seen) /\ frames' = Len(window) + 1
      BY <1>1, <1>3, <2>1
    <3>2. frames # N
      BY <1>1, <2>1
    <3> QED
      BY <1>1, <1>2, <3>1, <3>2, AppendType
  <2>2. CASE frames = N
    <3>1. window' = Append(Tail(window), seen) /\ Len(window) # 0 /\ frames' = N
      BY <1>1, <1>3, <2>2
    <3> HIDE DEF Entry
    <3>0. /\ window \in Seq(Entry) /\ Len(window) \in Nat /\ Len(window) # 0
          /\ Len(window) = N
      BY <1>1, <2>2, <3>1
    <3>2. /\ Tail(window) \in Seq(Entry) /\ Len(Tail(window)) = N - 1
          /\ \A k \in 1..N - 1 : Tail(window)[k] = window[k + 1]
      BY <3>0, TailType
    <3>3. (N - 1) + 1 = N /\ ~(frames < N)
      BY <1>1, <2>2
    <3> HIDE DEF Entry
    <3>4. /\ window' \in Seq(Entry) /\ Len(window') = N /\ window'[N] = seen
          /\ \A k \in 1..N - 1 : window'[k] = Tail(window)[k]
      BY <1>2, <3>1, <3>2, <3>3, AppendType
    <3> QED
      BY <3>1, <3>2, <3>3, <3>4
  <2> QED
    BY <1>1, <2>1, <2>2
<1>6. frames' \in 1..N /\ frames' <= N
  BY <1>1, <1>3
<1>7. ASSUME NEW n \in 1..frames'
      PROVE  window'[n] = seen \/ \E m \in 1..frames : window'[n] = window[m]
  <2>1. CASE n = frames'
    BY <1>5, <2>1
  <2>2. CASE n # frames' /\ frames < N
    <3>1. n \in 1..frames
      BY <1>1, <1>3, <2>2
    <3> QED
      BY <1>5, <2>2, <3>1
  <2>3. CASE n # frames' /\ frames = N
    <3>1. n \in 1..N - 1 /\ n + 1 \in 1..frames
      BY <1>1, <1>3, <2>3
    <3> QED
      BY <1>5, <2>3, <3>1
  <2> QED
    BY <1>1, <2>1, <2>2, <2>3
<1> DEFINE W(k, j) == Worth(window[k], j)
           U(k, j) == WorthOver(window'[k], loudest', j)
<1>8. ASSUME NEW j \in Bin \ spoilt'
      PROVE  /\ \A k \in 1..frames : W(k, j) \in Int
             /\ U(frames', j) = pushed[j] /\ pushed[j] \in Int
             /\ frames < N => \A k \in 1..frames : U(k, j) = W(k, j)
             /\ frames = N => \A k \in 1..N - 1 : U(k, j) = W(k + 1, j)
  <2>1. j \in Bin \ spoilt
    OBVIOUS
  <2>2. \A k \in 1..frames : W(k, j) \in Int
    BY <2>1 DEF LearnerInv, BuffersHoldWindow
  <2>3. U(frames', j) = pushed[j] /\ pushed[j] \in Int
    BY <1>5
  <2>4. \A k \in 1..frames : WorthOver(window[k], loudest', j) = W(k, j)
    OBVIOUS
  <2>5. frames < N => \A k \in 1..frames : U(k, j) = W(k, j)
    BY <1>5, <2>4
  <2>6. frames = N => \A k \in 1..N - 1 : U(k, j) = W(k + 1, j)
    <3>1. frames = N => \A k \in 1..N - 1 : k + 1 \in 1..frames
      BY <1>1
    <3> QED
      BY <1>5, <2>4, <3>1
  <2> QED
    BY <2>2, <2>3, <2>5, <2>6
<1>9. \A n, j : U(n, j) = Worth(window[n], j)'
  BY DEF Worth, WorthOver
<1> HIDE DEF W, U
<1>10. ASSUME NEW j \in Bin \ spoilt'
       PROVE  /\ \A k \in 1..frames' : U(k, j) \in Int /\ buffers'[N - frames' + k][j] = U(k, j)
              /\ \A k \in 1..N - frames' : buffers'[k][j] = 0
              /\ buffers[1][j] = IF frames < N THEN 0 ELSE W(1, j)
  <2>1. j \in Bin \ spoilt
    OBVIOUS
  <2>2. /\ \A k \in 1..N - frames : buffers[k][j] = 0
        /\ \A k \in 1..frames : buffers[N - frames + k][j] = W(k, j)
    BY <2>1 DEF LearnerInv, BuffersHoldWindow, N, W
  <2>3. CASE frames < N
    <3>1. /\ frames' = frames + 1 /\ N - frames' \in Nat
          /\ frames \in Nat /\ N \in Nat /\ frames < N
      BY <1>1, <1>3, <2>3
    <3>2. ASSUME NEW k \in 1..N - frames' PROVE buffers'[k][j] = 0
      <4>1. k \in 1..N - 1 /\ k + 1 \in 1..N - frames
        BY <1>1, <3>1
      <4> QED
        BY <1>4, <2>2, <4>1
    <3>3. ASSUME NEW k \in 1..frames'
          PROVE  U(k, j) \in Int /\ buffers'[N - frames' + k][j] = U(k, j)
      <4>1. CASE k = frames'
        <5>1. N - frames' + k = N
          BY <1>1, <3>1, <4>1
        <5> QED
          BY <1>4, <1>8, <4>1, <5>1
      <4>2. CASE k # frames'
        <5>1. /\ k \in 1..frames /\ N - frames' + k \in 1..N - 1
              /\ (N - frames' + k) + 1 = N - frames + k
          <6>1. k \in Nat /\ k # 0 /\ k <= frames + 1 /\ k # frames + 1
            BY <3>1, <4>2
          <6> QED
            BY <3>1, <6>1
        <5>2. buffers'[N - frames' + k][j] = W(k, j)
          BY <1>4, <2>2, <5>1
        <5> QED
          BY <1>8, <2>3, <5>1, <5>2
      <4> QED
        BY <4>1, <4>2
    <3>4. buffers[1][j] = 0
      <4>1. 1 \in 1..N - frames
        BY <1>1, <2>3
      <4> QED
        BY <2>2, <4>1
    <3> QED
      BY <2>3, <3>2, <3>3, <3>4
  <2>4. CASE frames = N
    <3>1. frames' = N /\ N - frames' = 0 /\ N - frames = 0
      BY <1>1, <1>3, <2>4
    <3>2. \A k \in 1..N - frames' : buffers'[k][j] = 0
      BY <3>1
    <3>3. ASSUME NEW k \in 1..frames'
          PROVE  U(k, j) \in Int /\ buffers'[N - frames' + k][j] = U(k, j)
      <4>0. N - frames' + k = k /\ k \in 1..N
        BY <1>1, <3>1
      <4>1. CASE k = frames'
        BY <1>4, <1>8, <3>1, <4>0, <4>1
      <4>2. CASE k # frames'
        <5>1. k \in 1..N - 1 /\ k + 1 \in 1..frames /\ N - frames + (k + 1) = k + 1
          BY <1>1, <2>4, <3>1, <4>2
        <5>2. buffers'[k][j] = W(k + 1, j)
          BY <1>4, <2>2, <5>1
        <5> QED
          BY <1>8, <2>4, <4>0, <5>1, <5>2
      <4> QED
        BY <4>1, <4>2
    <3>4. buffers[1][j] = W(1, j)
      <4>1. 1 \in 1..frames /\ N - frames + 1 = 1
        BY <1>1, <2>4
      <4> QED
        BY <2>2, <4>1
    <3> QED
      BY <1>1, <2>4, <3>2, <3>3, <3>4
  <2> QED
    BY <1>1, <2>3, <2>4
<1>11. BuffersHoldWindow'
  BY <1>9, <1>10 DEF BuffersHoldWindow, N
<1>12. ASSUME NEW j \in spoilt' PROVE sum'[j] = Broken
  <2>1. CASE j \in spoilt
    <3>1. sum[j] = Broken
      BY <1>1, <2>1 DEF LearnerInv, AverageIsOverNoise
    <3> QED
      BY <1>3, <3>1 DEF Plus, Minus
  <2>2. CASE j \notin spoilt
    <3>1. pushed[j] = Broken
      BY <2>2
    <3> QED
      BY <1>3, <3>1 DEF Plus
  <2> QED
    BY <2>1, <2>2
<1>13. ASSUME NEW j \in Bin \ spoilt'
       PROVE  sum'[j] = SumFunction([n \in 1..frames' |-> U(n, j)])
  <2> DEFINE w == [n \in 1..frames |-> W(n, j)]
             u == [n \in 1..frames' |-> U(n, j)]
             head == buffers[1][j]
  <2>1. sum[j] = SumFunctionOnSet(w, 1..frames)
    <3>1. sum[j] = SumFunction(w)
      BY DEF LearnerInv, AverageIsOverNoise, W
    <3>2. DOMAIN w = 1..frames
      OBVIOUS
    <3> HIDE DEF w
    <3> QED
      BY <3>1, <3>2 DEF SumFunction
  <2>2. /\ \A k \in 1..frames : w[k] \in Int
        /\ u[frames'] = pushed[j] /\ pushed[j] \in Int
        /\ frames < N => \A k \in 1..frames : u[k] = w[k]
        /\ frames = N => \A k \in 1..N - 1 : u[k] = w[k + 1]
        /\ head = IF frames < N THEN 0 ELSE w[1]
    <3>1. \A k \in 1..frames : w[k] \in Int
      BY <1>8
    <3>2. u[frames'] = pushed[j] /\ pushed[j] \in Int
      BY <1>6, <1>8
    <3>3. frames < N => \A k \in 1..frames : u[k] = w[k]
      BY <1>1, <1>3, <1>8
    <3>4. ASSUME frames = N, NEW k \in 1..N - 1 PROVE u[k] = w[k + 1]
      <4>1. k \in 1..frames' /\ k + 1 \in 1..frames
        BY <1>1, <1>3, <3>4
      <4> QED
        BY <1>8, <3>4, <4>1
    <3>5. head = IF frames < N THEN 0 ELSE w[1]
      <4>1. ~(frames < N) => 1 \in 1..frames
        BY <1>1
      <4> QED
        BY <1>10, <4>1
    <3> QED
      BY <3>1, <3>2, <3>3, <3>4, <3>5
  <2>3. DOMAIN u = 1..frames'
    OBVIOUS
  <2>4. head \in Int
    <3>1. 1 \in 1..frames \/ frames < N
      BY <1>1
    <3> HIDE DEF w, u, head
    <3> QED
      BY <1>1, <2>2, <3>1
  <2>5. sum'[j] = Plus(Minus(sum[j], head), pushed[j])
    BY <1>3, <1>4
  <2> HIDE DEF w, u, head
  <2>6. /\ SumFunctionOnSet(w, 1..frames) \in Int
        /\ SumFunctionOnSet(u, 1..frames') = SumFunctionOnSet(w, 1..frames) - head + pushed[j]
    <3>1. N \in Nat \ {0} /\ frames \in 0..N /\ frames' = IF frames < N THEN frames + 1 ELSE N
      BY <1>1, <1>3
    <3>2. Slides(N, frames, frames', w, u, head, pushed[j])
      BY <2>2, <3>1 DEF Slides
    <3> QED
      BY <3>2, SlidingSum
  <2>7. sum'[j] = sum[j] - head + pushed[j]
    <3>1. Broken \notin Int
      BY NoiseLearnerAssumption
    <3>2. sum[j] \in Int /\ sum[j] - head \in Int
      BY <2>1, <2>4, <2>6
    <3> QED
      BY <2>2, <2>4, <2>5, <3>1, <3>2 DEF Plus, Minus
  <2>8. SumFunction(u) = SumFunctionOnSet(u, 1..frames')
    BY <2>3 DEF SumFunction
  <2> QED
    BY <2>1, <2>6, <2>7, <2>8 DEF u
<1>14. AverageIsOverNoise'
  <2>1. \A j \in Bin \ spoilt' :
          sum'[j] = SumFunction([n \in 1..frames' |-> Worth(window[n], j)'])
    BY <1>9, <1>13
  <2> QED
    BY <1>5, <1>12, <2>1 DEF AverageIsOverNoise
<1> QED
  BY <1>4, <1>5, <1>6, <1>7, <1>11, <1>14 DEF N, Row, Entry, seen

LEMMA LearnerInitInv == LearnerInit => LearnerInv
<1> SUFFICES ASSUME LearnerInit PROVE LearnerInv
  OBVIOUS
<1> DEFINE zeros == [j \in Bin |-> 0]
<1>1. /\ isReady = FALSE /\ threshold = [j \in Bin |-> Lowest] /\ loudest = threshold
      /\ buffers = [n \in 1..GroupingY |-> zeros] /\ sum = zeros
      /\ frames = 0 /\ window = <<>> /\ spoilt = {} /\ GroupingY \in Nat
  BY NoiseLearnerAssumption DEF LearnerInit
<1>2. LearnerTypeOK
  <2>1. zeros \in [Bin -> Int \cup {Broken}]
    OBVIOUS
  <2>2. buffers \in Seq([Bin -> Int \cup {Broken}]) /\ Len(buffers) = GroupingY
    <3> HIDE DEF zeros
    <3> QED
      BY <1>1, <2>1
  <2>3. window \in Seq([data : Frames, learned : BOOLEAN]) /\ frames = Len(window)
    BY <1>1
  <2>4. loudest \in [Bin -> Int \cup {Lowest}] /\ threshold = loudest
    BY <1>1
  <2>5. isReady \in BOOLEAN
    BY <1>1, Zenon
  <2>6. frames <= GroupingY /\ spoilt \subseteq Bin
    BY <1>1
  <2> QED
    BY <2>2, <2>3, <2>4, <2>5, <2>6 DEF LearnerTypeOK
<1>3. LearnedSoFar
  BY <1>1 DEF LearnedSoFar
<1>4. BuffersHoldWindow
  BY <1>1 DEF BuffersHoldWindow
<1>5. AverageIsOverNoise
  <2>1. ASSUME NEW j \in Bin
        PROVE  sum[j] = SumFunction([n \in 1..frames |-> Worth(window[n], j)])
    <3> DEFINE f == [n \in 1..frames |-> Worth(window[n], j)]
    <3>1. DOMAIN f = {}
      BY <1>1
    <3> HIDE DEF f
    <3>2. SumFunction(f) = 0
      BY <3>1, SumEmpty DEF SumFunction
    <3> QED
      BY <1>1, <3>2 DEF f
  <2> QED
    BY <1>1, <2>1 DEF AverageIsOverNoise
<1> QED
  BY <1>2, <1>3, <1>4, <1>5 DEF LearnerInv

LEMMA LouderType ==
  ASSUME NEW a \in Int \cup {Lowest}, NEW b \in Int \cup {Silence}
  PROVE  Louder(a, b) \in Int \cup {Lowest}
BY DEF Louder

\* While the noise is learned the averager gets NoData, whatever the loudest become.
LEMMA LearningStep ==
  ASSUME LearnerInv, NEW frame \in Frames, WorkLearning(frame)
  PROVE  LearnerInv'
<1> DEFINE quiet == [j \in Bin |-> NoData]
           seen == AsSeen(frame)
<1>1. /\ ~isReady /\ isReady' \in BOOLEAN /\ spoilt' = spoilt
      /\ threshold' = Learn(frame) /\ loudest' = [j \in Bin |-> Louder(loudest[j], frame[j])]
      /\ AveragerPush(quiet) /\ Seen(frame)
  BY DEF WorkLearning
<1>2. loudest' \in [Bin -> Int \cup {Lowest}] /\ threshold' = loudest'
  <2>1. frame \in [Bin -> Int \cup {Silence}]
    BY NoiseLearnerAssumption
  <2>2. loudest \in [Bin -> Int \cup {Lowest}] /\ threshold = loudest
    BY DEF LearnerInv, LearnerTypeOK
  <2>3. \A j \in Bin : Louder(loudest[j], frame[j]) \in Int \cup {Lowest}
    BY <2>1, <2>2, LouderType
  <2> QED
    BY <1>1, <2>2, <2>3 DEF Learn
<1>3. spoilt = {} /\ \A n \in 1..frames : window[n].learned
  BY <1>1 DEF LearnerInv, LearnedSoFar
<1>4. quiet \in [Bin -> Int \cup {Broken}] /\ \A j \in Bin : quiet[j] = NoData
  BY NoiseLearnerAssumption
<1>5. seen.learned = TRUE
  BY <1>1 DEF AsSeen
<1>6. \A j \in Bin :
        /\ quiet[j] \in Int /\ quiet[j] = WorthOver(seen, loudest', j)
        /\ \A n \in 1..frames : WorthOver(window[n], loudest', j) = Worth(window[n], j)
  BY <1>3, <1>4, <1>5, NoiseLearnerAssumption DEF WorthOver, Worth
<1> HIDE DEF quiet
<1>7. /\ buffers' \in Seq([Bin -> Int \cup {Broken}]) /\ Len(buffers') = GroupingY
      /\ window' \in Seq([data : Frames, learned : BOOLEAN])
      /\ frames' = Len(window') /\ frames' <= GroupingY
      /\ \A n \in 1..frames' : window'[n] = seen \/ \E m \in 1..frames : window'[n] = window[m]
      /\ BuffersHoldWindow' /\ AverageIsOverNoise'
  <2>1. /\ spoilt \subseteq spoilt' /\ spoilt' \subseteq Bin /\ spoilt' \ spoilt = {}
    BY <1>1, <1>3
  <2>2. PushesWorth(frame, quiet)
    BY <1>1, <1>4, <1>6, <2>1 DEF PushesWorth
  <2> QED
    BY <2>2, AverageStep
<1>8. LearnerTypeOK'
  BY <1>1, <1>2, <1>3, <1>7 DEF LearnerTypeOK
<1>9. LearnedSoFar'
  BY <1>1, <1>3, <1>5, <1>7 DEF LearnedSoFar
<1> QED
  BY <1>7, <1>8, <1>9 DEF LearnerInv

\* Then it gets what is over the loudest, which stay.
LEMMA ReadyStep ==
  ASSUME LearnerInv, NEW frame \in Frames, WorkReady(frame)
  PROVE  LearnerInv'
<1> DEFINE over == OverNoise(frame)
           seen == AsSeen(frame)
<1>1. /\ isReady /\ UNCHANGED <<isReady, threshold, loudest>>
      /\ spoilt' = spoilt \cup {j \in Bin : frame[j] = Silence \/ loudest[j] = Lowest}
      /\ AveragerPush(over) /\ Seen(frame)
  BY DEF WorkReady
<1>2. /\ frame \in [Bin -> Int \cup {Silence}] /\ loudest \in [Bin -> Int \cup {Lowest}]
      /\ threshold = loudest /\ isReady \in BOOLEAN /\ spoilt \subseteq Bin
  BY NoiseLearnerAssumption DEF LearnerInv, LearnerTypeOK
<1>3. over \in [Bin -> Int \cup {Broken}]
  BY <1>2 DEF OverNoise
<1>4. \A j \in spoilt' \ spoilt : over[j] = Broken
  BY <1>1, <1>2 DEF OverNoise
<1>5. ASSUME NEW j \in Bin \ spoilt'
      PROVE  /\ over[j] \in Int /\ over[j] = WorthOver(seen, loudest', j)
             /\ \A n \in 1..frames : WorthOver(window[n], loudest', j) = Worth(window[n], j)
  <2>1. frame[j] \in Int /\ loudest[j] \in Int /\ over[j] = frame[j] - loudest[j]
    BY <1>1, <1>2, NoiseLearnerAssumption DEF OverNoise
  <2>2. seen.learned = FALSE /\ seen.data = frame /\ loudest' = loudest
    BY <1>1 DEF AsSeen
  <2> QED
    BY <2>1, <2>2 DEF WorthOver, Worth
<1> HIDE DEF over
<1>6. /\ buffers' \in Seq([Bin -> Int \cup {Broken}]) /\ Len(buffers') = GroupingY
      /\ window' \in Seq([data : Frames, learned : BOOLEAN])
      /\ frames' = Len(window') /\ frames' <= GroupingY
      /\ BuffersHoldWindow' /\ AverageIsOverNoise'
  <2>1. /\ spoilt \subseteq spoilt' /\ spoilt' \subseteq Bin
    BY <1>1, <1>2
  <2>2. PushesWorth(frame, over)
    BY <1>1, <1>3, <1>4, <1>5, <2>1 DEF PushesWorth
  <2> QED
    BY <2>2, AverageStep
<1>7. LearnerTypeOK' /\ LearnedSoFar'
  BY <1>1, <1>2, <1>6 DEF LearnerTypeOK, LearnedSoFar
<1> QED
  BY <1>6, <1>7 DEF LearnerInv

LEMMA LearnerStep ==
  ASSUME LearnerInv, [LearnerNext]_learnerVars
  PROVE  LearnerInv'
<1>1. CASE \E frame \in Frames : WorkLearning(frame) \/ WorkReady(frame)
  BY <1>1, LearningStep, ReadyStep
<1>2. CASE LearnerTick \/ UNCHANGED learnerVars
  <2>1. UNCHANGED <<isReady, threshold, buffers, sum, frames, loudest, window, spoilt>>
    BY <1>2 DEF LearnerTick, learnerVars
  <2> QED
    BY <2>1 DEF LearnerInv, LearnerTypeOK, LearnedSoFar, BuffersHoldWindow, AverageIsOverNoise,
                Worth
<1> QED
  BY <1>1, <1>2 DEF LearnerNext

-----------------------------------------------------------------------------
(* The spectrogram *)

CellsOf(spectra, k) == (1..Len(spectra)) \X Inputs(k)

\* The sum of a row's bin over some spectra.
SumOver(spectra, k) ==
  IF \E c \in CellsOf(spectra, k) : spectra[c[1]][c[2]] = Zero THEN NoNumber
  ELSE SumFunction([c \in CellsOf(spectra, k) |-> spectra[c[1]][c[2]]])

\* The container has the sums of the spectra since the last row.
SpectrogramInv ==
  /\ pending \in Seq(Powers)
  /\ counter = Len(pending)
  /\ \A k \in Output : total[k] = SumOver(pending, k)
  /\ RowsAreMeans

\* The bins of a row are made up of those of a spectrum.
LEMMA InputsType ==
  ASSUME NEW k \in Output
  PROVE  /\ Inputs(k) \subseteq 1..OutputSize * DecimatorFactor
         /\ IsFiniteSet(Inputs(k))
<1> DEFINE low == (k - 1) * DecimatorFactor
           high == k * DecimatorFactor
           all == OutputSize * DecimatorFactor
<1>1. k \in 1..OutputSize /\ OutputSize \in Nat /\ DecimatorFactor \in Nat \ {0}
  BY SpectrogramAssumption DEF Output
<1>2. low \in Nat /\ high \in Nat /\ all \in Nat
  <2>1. k - 1 \in Nat /\ k \in Nat /\ DecimatorFactor \in Nat
    BY <1>1
  <2> QED
    BY <1>1, <2>1, Product
<1>3. high <= all
  <2>1. CASE k = OutputSize
    BY <1>2, <2>1
  <2>2. CASE k < OutputSize
    <3>1. /\ k \in Int /\ OutputSize \in Int /\ DecimatorFactor \in Nat \ {0}
          /\ k < OutputSize
      BY <1>1, <2>2
    <3> QED
      BY <1>2, <3>1, ProductMonotone
  <2> QED
    BY <1>1, <2>1, <2>2
<1>4. Inputs(k) = low + 1..high
  BY DEF Inputs
<1> HIDE DEF low, high, all
<1>5. Inputs(k) \subseteq 1..all
  BY <1>2, <1>3, <1>4
<1>6. IsFiniteSet(Inputs(k))
  <2>1. low + 1 \in Int /\ high \in Int
    BY <1>2
  <2> QED
    BY <1>4, <2>1, FS_Interval
<1> QED
  BY <1>5, <1>6 DEF all

LEMMA CellType ==
  ASSUME NEW spectra \in Seq(Powers), NEW k \in Output, NEW i \in 1..Len(spectra),
         NEW j \in Inputs(k)
  PROVE  spectra[i][j] \in Int \cup {Zero}
<1>1. spectra[i] \in Powers
  BY ElementType
<1>2. j \in 1..OutputSize * DecimatorFactor
  BY InputsType
<1> QED
  BY <1>1, <1>2, SpectrogramAssumption

LEMMA CellsFinite ==
  ASSUME NEW spectra \in Seq(Powers), NEW k \in Output
  PROVE  IsFiniteSet(CellsOf(spectra, k))
<1>1. IsFiniteSet(1..Len(spectra))
  BY FS_Interval
<1>2. IsFiniteSet(Inputs(k))
  BY InputsType
<1> QED
  BY <1>1, <1>2, FS_Product DEF CellsOf

\* The sum of cells none of which is empty is a number.
LEMMA SumOverType ==
  ASSUME NEW spectra \in Seq(Powers), NEW k \in Output,
         ~\E c \in CellsOf(spectra, k) : spectra[c[1]][c[2]] = Zero
  PROVE  SumFunction([c \in CellsOf(spectra, k) |-> spectra[c[1]][c[2]]]) \in Int
<1> DEFINE A == CellsOf(spectra, k)
           f == [c \in A |-> spectra[c[1]][c[2]]]
<1>1. \A c \in A : f[c] \in Int
  <2>1. ASSUME NEW c \in A PROVE f[c] \in Int
    <3>1. c[1] \in 1..Len(spectra) /\ c[2] \in Inputs(k)
      BY DEF CellsOf
    <3>2. spectra[c[1]][c[2]] \in Int \cup {Zero}
      BY <3>1, CellType
    <3> QED
      BY <3>2
  <2> QED
    BY <2>1
<1>2. DOMAIN f = A /\ IsFiniteSet(A)
  BY CellsFinite
<1> HIDE DEF f, A
<1>3. SumFunctionOnSet(f, A) \in Int
  BY <1>1, <1>2, SumType
<1> QED
  BY <1>2, <1>3 DEF SumFunction, f, A

\* A spectrum more adds what it has in the bins.
LEMMA SumOverNext ==
  ASSUME NEW spectra \in Seq(Powers), NEW spectrum \in Powers, NEW k \in Output
  PROVE  SumOver(Append(spectra, spectrum), k) =
           IF SumOver(spectra, k) = NoNumber \/ Grouped(spectrum, k) = NoNumber THEN NoNumber
           ELSE SumOver(spectra, k) + Grouped(spectrum, k)
<1> DEFINE more == Append(spectra, spectrum)
           n == Len(spectra)
           T == Inputs(k)
           A == (1..n) \X T
           B == (1..n + 1) \X T
           f == [c \in A |-> spectra[c[1]][c[2]]]
           g == [c \in B |-> more[c[1]][c[2]]]
<1>1. /\ more \in Seq(Powers) /\ Len(more) = n + 1 /\ more[n + 1] = spectrum
      /\ \A i \in 1..n : more[i] = spectra[i]
      /\ n \in Nat
  BY AppendType
<1>2. SumOver(spectra, k) = IF \E c \in A : spectra[c[1]][c[2]] = Zero THEN NoNumber
                                                                      ELSE SumFunction(f)
  BY DEF SumOver, CellsOf
<1>3. SumOver(more, k) = IF \E c \in B : more[c[1]][c[2]] = Zero THEN NoNumber
                                                               ELSE SumFunction(g)
  BY <1>1 DEF SumOver, CellsOf
<1>4. Grouped(spectrum, k) = IF \E j \in T : spectrum[j] = Zero THEN NoNumber
                                                              ELSE SumFunctionOnSet(spectrum, T)
  BY DEF Grouped
<1>5. \A i \in 1..n + 1, j \in T : more[i][j] \in Int \cup {Zero}
  BY <1>1, CellType
<1>6. IsFiniteSet(T) /\ IsFiniteSet(A)
  <2>1. IsFiniteSet(T)
    BY InputsType
  <2>2. IsFiniteSet(1..n)
    BY <1>1, FS_Interval
  <2> QED
    BY <2>1, <2>2, FS_Product
<1>7. /\ DOMAIN f = A /\ DOMAIN g = B
      /\ \A i \in 1..n, j \in T : f[<<i, j>>] = more[i][j]
      /\ \A i \in 1..n + 1, j \in T : g[<<i, j>>] = more[i][j]
  BY <1>1
<1> HIDE DEF more, n, T, f, g
<1>8. CASE \E j \in T : spectrum[j] = Zero
  <2>1. PICK j \in T : spectrum[j] = Zero
    BY <1>8
  <2>2. <<n + 1, j>> \in B /\ more[<<n + 1, j>>[1]][<<n + 1, j>>[2]] = Zero
    BY <1>1, <2>1
  <2>3. SumOver(more, k) = NoNumber
    BY <1>3, <2>2
  <2> QED
    BY <1>4, <1>8, <2>3 DEF more
<1>9. CASE \E c \in A : spectra[c[1]][c[2]] = Zero
  <2>1. PICK c \in A : spectra[c[1]][c[2]] = Zero
    BY <1>9
  <2>2. c \in B /\ more[c[1]][c[2]] = Zero
    BY <1>1, <2>1
  <2>3. SumOver(more, k) = NoNumber
    BY <1>3, <2>2
  <2> QED
    BY <1>2, <1>9, <2>3 DEF more
<1>10. CASE /\ ~\E j \in T : spectrum[j] = Zero
            /\ ~\E c \in A : spectra[c[1]][c[2]] = Zero
  <2>1. \A i \in 1..n, j \in T : more[i][j] \in Int
    <3>1. ASSUME NEW i \in 1..n, NEW j \in T PROVE more[i][j] \in Int
      <4>1. <<i, j>> \in A /\ spectra[<<i, j>>[1]][<<i, j>>[2]] # Zero
        BY <1>10
      <4> QED
        BY <1>1, <1>5, <4>1
    <3> QED
      BY <3>1
  <2>2. \A j \in T : more[n + 1][j] \in Int
    BY <1>1, <1>5, <1>10
  <2>3. \A i \in 1..n + 1, j \in T : more[i][j] \in Int
    BY <1>1, <2>1, <2>2
  <2>4. \A c \in B : g[c] \in Int /\ more[c[1]][c[2]] # Zero
    <3>1. ASSUME NEW c \in B PROVE g[c] \in Int /\ more[c[1]][c[2]] # Zero
      <4>1. c = <<c[1], c[2]>> /\ c[1] \in 1..n + 1 /\ c[2] \in T
        OBVIOUS
      <4> QED
        BY <1>7, <2>3, <4>1, SpectrogramAssumption
    <3> QED
      BY <3>1
  <2>5. \A c \in A : f[c] = g[c] /\ f[c] \in Int
    <3>1. ASSUME NEW c \in A PROVE f[c] = g[c] /\ f[c] \in Int
      <4>1. c = <<c[1], c[2]>> /\ c[1] \in 1..n /\ c[1] \in 1..n + 1 /\ c[2] \in T
        BY <1>1
      <4> QED
        BY <1>7, <2>1, <4>1
    <3> QED
      BY <3>1
  <2>6. SumFunctionOnSet(g, B) = SumFunctionOnSet(g, A) + SumFunctionOnSet(spectrum, T)
    <3>1. \A j \in T : spectrum[j] = g[<<n + 1, j>>]
      BY <1>1, <1>7
    <3>2. \A c \in B : g[c] \in Int
      BY <2>4
    <3>3. n \in Nat /\ IsFiniteSet(T)
      BY <1>1, <1>6
    <3>4. LastRow(n, T, g, spectrum)
      BY <3>1, <3>2, <3>3 DEF LastRow
    <3> QED
      BY <3>4, SumNextRow, SMTT(30)
  <2>7. SumFunctionOnSet(f, A) = SumFunctionOnSet(g, A)
    BY <1>6, <2>5, SumEqual
  <2>8. SumFunctionOnSet(f, A) \in Int /\ SumFunctionOnSet(spectrum, T) \in Int
    <3>1. \A j \in T : spectrum[j] \in Int
      BY <1>1, <2>2
    <3>2. \A c \in A : f[c] \in Int
      BY <2>5
    <3> QED
      BY <1>6, <3>1, <3>2, SumType
  <2>9. SumOver(spectra, k) = SumFunctionOnSet(f, A)
    BY <1>2, <1>7, <1>10 DEF SumFunction
  <2>10. SumOver(more, k) = SumFunctionOnSet(g, B)
    BY <1>3, <1>7, <2>4 DEF SumFunction
  <2>11. Grouped(spectrum, k) = SumFunctionOnSet(spectrum, T)
    BY <1>4, <1>10
  <2> QED
    BY <2>6, <2>7, <2>8, <2>9, <2>10, <2>11, SpectrogramAssumption DEF more
<1> QED
  BY <1>8, <1>9, <1>10

\* process() adds a spectrum to the sums of the container.
LEMMA ProcessAdds ==
  ASSUME SpectrogramInv, NEW spectrum \in Powers
  PROVE  \A k \in Output : Process(spectrum)[k] = SumOver(Append(pending, spectrum), k)
BY SumOverNext DEF SpectrogramInv, Process

LEMMA SumOverNothing ==
  ASSUME NEW k \in Output
  PROVE  SumOver(<<>>, k) = 0
<1> DEFINE f == [c \in CellsOf(<<>>, k) |-> <<>>[c[1]][c[2]]]
<1>1. CellsOf(<<>>, k) = {}
  BY DEF CellsOf
<1>2. SumOver(<<>>, k) = SumFunction(f) /\ DOMAIN f = {}
  BY <1>1 DEF SumOver
<1> HIDE DEF f
<1> QED
  BY <1>2, SumEmpty DEF SumFunction

LEMMA SpectrogramInitInv == SpectrogramInit => SpectrogramInv
<1> SUFFICES ASSUME SpectrogramInit PROVE SpectrogramInv
  OBVIOUS
<1>1. pending = <<>> /\ counter = 0 /\ row = <<>> /\ \A k \in Output : total[k] = 0
  BY DEF SpectrogramInit
<1>2. RowsAreMeans
  BY <1>1 DEF RowsAreMeans
<1>3. \A k \in Output : total[k] = SumOver(pending, k)
  BY <1>1, SumOverNothing
<1> QED
  BY <1>1, <1>2, <1>3 DEF SpectrogramInv

\* The row that is sent is made of the sums of the spectra it is of.
LEMMA SendStepMeans ==
  ASSUME SpectrogramInv, NEW spectrum \in Powers, Send(spectrum)
  PROVE  RowsAreMeans'
<1> DEFINE n == Len(pending) + 1
           byte(q) == IF -128 <= q /\ q <= 127 THEN q ELSE Undefined
<1>1. /\ of' = Append(pending, spectrum) /\ Len(of') = n
      /\ row' = Converted(Process(spectrum), n)
  BY AppendType DEF Send, SpectrogramInv
<1>2. ASSUME NEW k \in Output
      PROVE  IF (\E c \in Cells(k)' : of'[c[1]][c[2]] = Zero)
               THEN row'[k] = Undefined
               ELSE row'[k] = byte(Quotient(SumFunction([c \in Cells(k)' |-> of'[c[1]][c[2]]]),
                                            n * DecimatorFactor))
  <2> DEFINE s == Process(spectrum)[k]
             cells == CellsOf(of', k)
             sumOf == SumFunction([c \in cells |-> of'[c[1]][c[2]]])
  <2>1. Cells(k)' = cells
    BY DEF Cells, CellsOf, Inputs
  <2>2. s = IF \E c \in cells : of'[c[1]][c[2]] = Zero THEN NoNumber ELSE sumOf
    BY <1>1, ProcessAdds DEF SumOver
  <2>3. row'[k] = IF s = NoNumber THEN Undefined ELSE byte(Quotient(s, n * DecimatorFactor))
    BY <1>1 DEF Converted
  <2>4. ~(\E c \in cells : of'[c[1]][c[2]] = Zero) => sumOf # NoNumber
    <3>1. of' \in Seq(Powers)
      BY <1>1, AppendType DEF SpectrogramInv
    <3> QED
      BY <3>1, SumOverType, SpectrogramAssumption
  <2> QED
    BY <2>1, <2>2, <2>3, <2>4
<1> QED
  BY <1>1, <1>2 DEF RowsAreMeans

LEMMA SpectrogramStep ==
  ASSUME SpectrogramInv, [SpectrogramNext]_spectrogramVars
  PROVE  SpectrogramInv'
<1>1. ASSUME NEW spectrum \in Powers, Sum(spectrum)
      PROVE  SpectrogramInv'
  <2>1. /\ total' = Process(spectrum) /\ counter' = counter + 1
        /\ pending' = Append(pending, spectrum) /\ UNCHANGED <<row, of>>
    BY <1>1 DEF Sum
  <2>2. pending' \in Seq(Powers) /\ counter' = Len(pending')
    BY <2>1, AppendType DEF SpectrogramInv
  <2>3. \A k \in Output : total'[k] = SumOver(pending', k)
    BY <2>1, ProcessAdds
  <2>4. RowsAreMeans'
    BY <2>1 DEF SpectrogramInv, RowsAreMeans, Cells
  <2> QED
    BY <2>2, <2>3, <2>4 DEF SpectrogramInv
<1>2. ASSUME NEW spectrum \in Powers, Send(spectrum)
      PROVE  SpectrogramInv'
  <2>1. /\ pending' = <<>> /\ counter' = 0 /\ \A k \in Output : total'[k] = 0
    BY <1>2 DEF Send, Reset
  <2>2. \A k \in Output : total'[k] = SumOver(pending', k)
    BY <2>1, SumOverNothing
  <2>3. RowsAreMeans'
    BY <1>2, SendStepMeans
  <2>4. pending' \in Seq(Powers) /\ counter' = Len(pending')
    BY <2>1
  <2> QED
    BY <2>2, <2>3, <2>4 DEF SpectrogramInv
<1>3. CASE SpectrogramTick \/ UNCHANGED spectrogramVars
  <2>1. UNCHANGED <<total, counter, pending, row, of>>
    BY <1>3 DEF SpectrogramTick, spectrogramVars
  <2> QED
    BY <2>1 DEF SpectrogramInv, RowsAreMeans, Cells, SumOver, CellsOf
<1> QED
  BY <1>1, <1>2, <1>3 DEF SpectrogramNext

-----------------------------------------------------------------------------
(* Theorems *)

\* push() and popSingleSample(): the hub gets a prefix of what the radio received, in
\* order, each sample once and with its own time, for blocks of any size.
THEOREM RecorderImplementsStream == Spec => ActsAsSampleStream
<1>1. Init => RecorderInv /\ FlushedAlive /\ Stream!Init
  <2>1. RecorderInit => FlushedAlive
    BY DEF RecorderInit, FlushedAlive
  <2> QED
    BY <2>1, RecorderInitInv DEF Init
<1>2. [Next]_vars => [RecorderNext]_recorderVars
  BY DEF Next, vars, recorderVars
<1>3. RecorderInv /\ FlushedAlive /\ [Next]_vars
        => /\ RecorderInv' /\ FlushedAlive'
           /\ [Stream!Receive \/ Stream!Send \/ Stream!Close]_<<received, sent, destroyed>>
  BY <1>2, RecorderStep
<1> QED
  BY <1>1, <1>3, PTL DEF Spec, ActsAsSampleStream, Stream!Spec

\* NoiseLearner::work() and Averager::push(): after any number of spectra the sum of a
\* bin is what the last of them had over all that was learned from.
THEOREM AveragesOverNoise == Spec => []AverageIsOverNoise
<1>1. Init => LearnerInv
  BY LearnerInitInv DEF Init
<1>2. LearnerInv /\ [Next]_vars => LearnerInv'
  <2>1. [Next]_vars => [LearnerNext]_learnerVars
    BY DEF Next, vars
  <2> QED
    BY <2>1, LearnerStep
<1>3. LearnerInv => AverageIsOverNoise
  BY DEF LearnerInv
<1> QED
  BY <1>1, <1>2, <1>3, PTL DEF Spec

\* Spectrogram::process() and send(): a row is the mean of the spectra since the one
\* before, for spectra and rows of any size and any number of spectra to a row.
THEOREM RowsOfMeans == Spec => []RowsAreMeans
<1>1. Init => SpectrogramInv
  BY SpectrogramInitInv DEF Init
<1>2. SpectrogramInv /\ [Next]_vars => SpectrogramInv'
  <2>1. [Next]_vars => [SpectrogramNext]_spectrogramVars
    BY DEF Next, vars
  <2> QED
    BY <2>1, SpectrogramStep
<1>3. SpectrogramInv => RowsAreMeans
  BY DEF SpectrogramInv
<1> QED
  BY <1>1, <1>2, <1>3, PTL DEF Spec

=============================================================================

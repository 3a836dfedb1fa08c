---------------------------- MODULE NoiseLearner ----------------------------
(***************************************************************************)
(* What the detector of a band gets to see of its spectra: the noise       *)
(* learner (radio/blocks/noise_learner.cpp) subtracts the loudest it has   *)
(* seen in the first NOISE_LEARNING_TIME, and the averager                 *)
(* (radio/averager.cpp) averages what is left over the last spectra.       *)
(*                                                                         *)
(* A band has a processor of its own, and that a learner of its own: its   *)
(* map has one key.  A spectrum is a function from bins to power, where    *)
(* the power of nothing at all is minus infinity.                          *)
(***************************************************************************)
EXTENDS Integers, Sequences, Functions

CONSTANTS
  Bin,
  Frames,       \* the spectra that occur
  Silence,      \* -inf, the logarithm of zero
  Lowest,       \* -FLT_MAX
  Broken,       \* a sum that -inf or FLT_MAX went into
  NoData,       \* the power setNoData sets
  LearningTime, \* NOISE_LEARNING_TIME
  GroupingY     \* m_groupSize

ASSUME NoiseLearnerAssumption ==
  /\ Frames \subseteq [Bin -> Int \cup {Silence}]
  /\ Silence \notin Int /\ Lowest \notin Int /\ Broken \notin Int
  /\ NoData \in Int
  /\ LearningTime \in Nat
  /\ GroupingY \in Nat \ {0}

VARIABLES
  started,   \* is there a Noise
  age,       \* the time since m_startLearningTime
  isReady,   \* m_isReady
  threshold, \* m_threshold
  buffers,   \* m_buffers, the last at the end
  sum,       \* m_sum
  frames,    \* m_frames
  loudest,   \* history: the loudest of each bin while the noise was learned
  window,    \* history: the last spectra, and whether they were learned from
  spoilt     \* history: the bins that were silent after the learning, or throughout it

learnerVars == <<started, age, isReady, threshold, buffers, sum, frames, loudest, window,
                spoilt>>

LearnerInit ==
  /\ started = FALSE
  /\ age = 0
  /\ isReady = FALSE
  /\ threshold = [j \in Bin |-> Lowest]
  /\ buffers = [n \in 1..GroupingY |-> [j \in Bin |-> 0]]
  /\ sum = [j \in Bin |-> 0]
  /\ frames = 0
  /\ loudest = [j \in Bin |-> Lowest]
  /\ window = <<>>
  /\ spoilt = {}

-----------------------------------------------------------------------------
\* std::max, where nothing is less than -FLT_MAX but -inf
Louder(a, b) ==
  IF b = Silence \/ b = Lowest THEN a ELSE IF a = Lowest \/ a < b THEN b ELSE a

\* Fault: the last spectrum is learned.
LearnLast(data) == [j \in Bin |-> IF data[j] = Silence THEN threshold[j] ELSE data[j]]

Learn(data) == [j \in Bin |-> Louder(threshold[j], data[j])]

\* What goes to the detector when there is no more to learn.
OverNoise(data) ==
  [j \in Bin |-> IF data[j] = Silence \/ threshold[j] = Lowest THEN Broken
                                                               ELSE data[j] - threshold[j]]

\* A sum does not recover from what is no number, not even when it is subtracted.
Plus(a, b) == IF a = Broken \/ b = Broken THEN Broken ELSE a + b
Minus(a, b) == IF a = Broken \/ b = Broken THEN Broken ELSE a - b

\* Averager::push
AveragerPush(row) ==
  /\ frames' = IF frames < GroupingY THEN frames + 1 ELSE GroupingY
  /\ sum' = [j \in Bin |-> Plus(Minus(sum[j], Head(buffers)[j]), row[j])]
  /\ buffers' = Append(Tail(buffers), row)

Seen(data) ==
  LET last == IF Len(window) < GroupingY THEN window ELSE Tail(window)
  IN window' = Append(last, [data |-> data, learned |-> ~isReady])

\* The spectrum that ends the learning is learned from too.
WorkLearning(data) ==
  /\ ~isReady
  /\ started' = TRUE
  /\ threshold' = Learn(data)
  /\ isReady' = (LearningTime <= age)
  /\ AveragerPush([j \in Bin |-> NoData])
  /\ loudest' = [j \in Bin |-> Louder(loudest[j], data[j])]
  /\ Seen(data)
  /\ UNCHANGED <<age, spoilt>>

WorkReady(data) ==
  /\ isReady
  /\ AveragerPush(OverNoise(data))
  /\ Seen(data)
  /\ spoilt' = spoilt \cup {j \in Bin : data[j] = Silence \/ loudest[j] = Lowest}
  /\ UNCHANGED <<started, age, isReady, threshold, loudest>>

\* Time passes with the radio on another band, too.
LearnerTick ==
  /\ started /\ age < LearningTime
  /\ age' = age + 1
  /\ UNCHANGED <<started, isReady, threshold, buffers, sum, frames, loudest, window, spoilt>>

LearnerNext == (\E data \in Frames : WorkLearning(data) \/ WorkReady(data)) \/ LearnerTick

-----------------------------------------------------------------------------
\* What a spectrum of the window ought to count for in a bin.
Worth(seen, j) == IF seen.learned THEN NoData ELSE seen.data[j] - loudest[j]

\* The sum of a bin is what the last spectra had over all that was learned from, after
\* any number of steps, until one has no power in the bin, or if none had while the
\* noise was learned: from then on it is broken for good, as reset() is never called.
AverageIsOverNoise ==
  /\ frames = Len(window)
  /\ \A j \in Bin :
       sum[j] = IF j \in spoilt
                  THEN Broken
                  ELSE SumFunction([n \in 1..frames |-> Worth(window[n], j)])

=============================================================================

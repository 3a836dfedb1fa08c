--------------------------- MODULE StartupProofs ---------------------------
(***************************************************************************)
(* Any radios, found in any order and failing at any point, any settings:  *)
(* the devices keep one entry a radio, connected as they were found, and   *)
(* their scanners hear what is configured.                                 *)
(***************************************************************************)
EXTENDS Startup, FiniteFacts

-----------------------------------------------------------------------------
(* The bands of a setup *)

\* roundDown keeps at least a multiple of the factor.
LEMMA RoundDownBounds ==
  ASSUME NEW value \in Nat, NEW factor \in Nat \ {0}, factor <= value
  PROVE  RoundDown(value, factor) \in 1..value
<1>1. PICK q : q = value \div factor
  OBVIOUS
<1>2. q \in Nat /\ q * factor \in Nat /\ q * factor <= value /\ value < q * factor + factor
  BY <1>1, Division
<1>3. q # 0
  BY <1>2
<1>4. factor <= q * factor
  BY <1>2, <1>3, Product
<1>5. RoundDown(value, factor) = q * factor
  BY <1>1 DEF RoundDown, Quotient
<1> QED
  BY <1>2, <1>4, <1>5

\* getRangeSplitSampleRate never asks for more than the radio samples.
LEMMA SplitRateBounds ==
  ASSUME NEW rate \in Nat \ {0}
  PROVE  RangeSplitSampleRate(rate) \in 1..rate
<1>1. /\ Megahertz \in Nat \ {0}
      /\ Megahertz \div 2 \in Nat \ {0} /\ Megahertz \div 2 <= Megahertz
      /\ Megahertz \div 10 \in Nat \ {0}
  BY RadioAssumption
<1>2. CASE 10 * Megahertz <= rate
  <2>1. RangeSplitSampleRate(rate) = RoundDown(rate, Megahertz)
    BY <1>1, <1>2 DEF RangeSplitSampleRate
  <2> QED
    BY <1>1, <1>2, <2>1, RoundDownBounds
<1>3. CASE Megahertz <= rate /\ rate < 10 * Megahertz
  <2>1. RangeSplitSampleRate(rate) = RoundDown(rate, Megahertz \div 2)
    BY <1>1, <1>3 DEF RangeSplitSampleRate
  <2> QED
    BY <1>1, <1>3, <2>1, RoundDownBounds
<1>4. CASE Megahertz \div 10 <= rate /\ rate < Megahertz
  <2>1. RangeSplitSampleRate(rate) = RoundDown(rate, Megahertz \div 10)
    BY <1>1, <1>4 DEF RangeSplitSampleRate
  <2> QED
    BY <1>1, <1>4, <2>1, RoundDownBounds
<1>5. CASE rate < Megahertz \div 10
  <2>1. RangeSplitSampleRate(rate) = rate
    BY <1>1, <1>5 DEF RangeSplitSampleRate
  <2> QED
    BY <2>1
<1> QED
  BY <1>1, <1>2, <1>3, <1>4, <1>5

-----------------------------------------------------------------------------
(* bands *)

\* A band of a range that is cut is as wide as the split rate, if none overflows.
LEMMA SplitBand ==
  ASSUME NEW range \in FrequencyRange, NEW rate \in Nat \ {0}, ~(Bandwidth(range) <= rate),
         range.start + SplitCount(range, rate) * rate <= MaxFrequency,
         NEW m \in Nat, m + 1 \in 1..SplitCount(range, rate)
  PROVE  /\ m * rate \in Nat
         /\ Split(range, rate, m + 1).start = range.start + m * rate
         /\ Split(range, rate, m + 1).stop = range.start + m * rate + rate
<1>1. PICK n : n = SplitCount(range, rate)
  OBVIOUS
<1>2. range.start \in Nat /\ range.stop \in Nat /\ Bandwidth(range) \in Nat
  BY RadioAssumption DEF FrequencyRange, Bandwidth
<1>3. n \in Nat /\ m + 1 <= n
  <2>1. PICK w \in Nat : w = Bandwidth(range) + rate - 1
    BY <1>2
  <2>2. n = w \div rate
    BY <1>1, <2>1 DEF SplitCount
  <2> QED
    BY <1>1, <2>1, <2>2, Division
<1>4. m * rate \in Nat /\ (m + 1) * rate = m * rate + rate /\ (m + 1) - 1 = m
  BY Product
<1>5. (m + 1) * rate <= n * rate
  BY <1>3, ProductMonotone
<1>6. Wrap(range.start + (m + 1) * rate) = range.start + (m + 1) * rate
  <2>1. n * rate \in Int /\ range.start + n * rate <= MaxFrequency
    BY <1>1, <1>3, ProductMonotone
  <2> QED
    BY <1>2, <1>4, <1>5, <2>1, RadioAssumption DEF Wrap
<1> QED
  BY <1>2, <1>4, <1>6 DEF Split

\* A range that is cut has a band of the split rate about each of its frequencies.
LEMMA SplitCovers ==
  ASSUME NEW range \in FrequencyRange, NEW rate \in Nat \ {0}, NEW f \in range.start..range.stop,
         Bandwidth(range) <= rate \/ range.start + SplitCount(range, rate) * rate <= MaxFrequency
  PROVE  \E k \in 1..SplitCount(range, rate) : Contains(Split(range, rate, k), f)
<1>1. range.start \in Nat /\ range.stop \in Nat /\ f \in Nat /\ rate \in Nat \ {0}
      /\ range.start <= f /\ f <= range.stop
  BY RadioAssumption DEF FrequencyRange
<1>2. CASE Bandwidth(range) <= rate
  <2>1. 1 \in 1..SplitCount(range, rate) /\ Split(range, rate, 1) = range
    BY <1>2 DEF SplitCount, Split
  <2> QED
    BY <1>1, <2>1 DEF Contains
<1>3. CASE ~(Bandwidth(range) <= rate)
  <2> DEFINE bw == Bandwidth(range)
  <2>0. bw \in Nat /\ rate < bw /\ bw = range.stop - range.start /\ bw + rate - 1 \in Nat
    BY <1>1, <1>3 DEF Bandwidth
  <2>1. PICK offset \in Nat :
          offset < bw /\ range.start + offset <= f /\ f <= range.start + offset + 1
    <3>1. CASE f = range.start
      BY <1>1, <2>0, <3>1
    <3>2. CASE f # range.start
      <4>1. f - range.start - 1 \in Nat /\ f - range.start - 1 < bw
        BY <1>1, <2>0, <3>2
      <4> QED
        BY <1>1, <4>1
    <3> QED
      BY <3>1, <3>2
  <2>2. PICK k : k = offset \div rate
    OBVIOUS
  <2>3. k \in Nat /\ k * rate \in Nat /\ k * rate <= offset /\ offset < k * rate + rate
    BY <2>1, <2>2, Division
  <2>4. PICK n : n = (bw + rate - 1) \div rate
    OBVIOUS
  <2>5. n \in Nat /\ n * rate \in Nat /\ n * rate <= bw + rate - 1 /\ bw + rate - 1 < n * rate + rate
    BY <2>0, <2>4, Division
  <2>6. k < n
    <3>1. k * rate < n * rate
      BY <1>1, <2>0, <2>1, <2>3, <2>5
    <3>2. n <= k <=> n * rate <= k * rate
      BY <2>3, <2>5, ProductMonotone
    <3> QED
      BY <2>3, <2>5, <3>1, <3>2
  <2>7. k + 1 \in 1..SplitCount(range, rate)
    BY <1>3, <2>3, <2>4, <2>5, <2>6 DEF SplitCount
  <2>8. /\ Split(range, rate, k + 1).start = range.start + k * rate
        /\ Split(range, rate, k + 1).stop = range.start + k * rate + rate
    BY <1>3, <2>3, <2>7, SplitBand
  <2>9. Contains(Split(range, rate, k + 1), f)
    BY <1>1, <2>1, <2>3, <2>8 DEF Contains
  <2> QED
    BY <2>7, <2>9
<1> QED
  BY <1>2, <1>3

\* No band is wider than the radio samples.
LEMMA BandWidth ==
  ASSUME NEW setup \in Setup, Representable(setup), NEW p \in Bands(setup)
  PROVE  /\ Band(setup, p).start \in Nat /\ Band(setup, p).stop \in Nat
         /\ Bandwidth(Band(setup, p)) <= setup.rate
<1> DEFINE rate == RangeSplitSampleRate(setup.rate)
<1>1. setup.rate \in Nat \ {0} /\ rate \in 1..setup.rate
  BY SplitRateBounds, RadioAssumption DEF Setup
<1>2. PICK i \in 1..Len(setup.ranges) : p \in {i} \X (1..SplitCount(setup.ranges[i], rate))
  BY DEF Bands
<1>3. p[1] = i /\ p[2] \in 1..SplitCount(setup.ranges[i], rate) /\ setup.ranges[i] \in FrequencyRange
  BY <1>2 DEF Setup
<1>4. \/ Bandwidth(setup.ranges[i]) <= rate
      \/ setup.ranges[i].start + SplitCount(setup.ranges[i], rate) * rate <= MaxFrequency
  BY DEF Representable
<1> HIDE DEF rate
<1>5. Band(setup, p) = Split(setup.ranges[i], rate, p[2])
  BY <1>3 DEF Band, rate
<1>6. setup.ranges[i].start \in Nat /\ setup.ranges[i].stop \in Nat
  BY <1>3, RadioAssumption DEF FrequencyRange
<1>7. CASE Bandwidth(setup.ranges[i]) <= rate
  <2>1. Band(setup, p) = setup.ranges[i]
    BY <1>5, <1>7 DEF Split
  <2> QED
    BY <1>1, <1>6, <1>7, <2>1 DEF Bandwidth
<1>8. CASE ~(Bandwidth(setup.ranges[i]) <= rate)
  <2>1. PICK m \in Nat : p[2] = m + 1
    <3>1. PICK k \in Nat \ {0} : k = p[2]
      BY <1>3
    <3>2. k - 1 \in Nat /\ k = (k - 1) + 1
      OBVIOUS
    <3> QED
      BY <3>1, <3>2
  <2>2. /\ m * rate \in Nat
        /\ Band(setup, p).start = setup.ranges[i].start + m * rate
        /\ Band(setup, p).stop = setup.ranges[i].start + m * rate + rate
    BY <1>1, <1>3, <1>4, <1>5, <1>8, <2>1, SplitBand
  <2>3. Bandwidth(Band(setup, p)) = rate
    <3>1. setup.ranges[i].start + m * rate \in Nat
      BY <1>6, <2>2
    <3> QED
      BY <1>1, <2>2, <3>1 DEF Bandwidth
  <2>4. Band(setup, p).start \in Nat /\ Band(setup, p).stop \in Nat
    BY <1>1, <1>6, <2>2
  <2> QED
    BY <1>1, <2>3, <2>4
<1> QED
  BY <1>7, <1>8

\* A band that is alone with its centre is served by its own processor.
LEMMA AloneProcessor ==
  ASSUME NEW setup \in Setup, NEW p \in Bands(setup), Alone(setup, p)
  PROVE  Processor(setup, p) = p
<1>0. PICK i \in Nat, k \in Nat : p = <<i, k>>
  BY DEF Bands
<1>1. \A o \in Bands(setup) : Center(Band(setup, o)) = Center(Band(setup, p)) => o = p
  BY DEF Alone
<1>2. ~Before(p, p)
  BY <1>0 DEF Before
<1> DEFINE Last(q) == /\ Center(Band(setup, q)) = Center(Band(setup, p))
                      /\ \A o \in Bands(setup) :
                           Center(Band(setup, o)) = Center(Band(setup, p)) => ~Before(q, o)
<1>3. Last(p)
  BY <1>1, <1>2
<1>4. Processor(setup, p) \in Bands(setup) /\ Last(Processor(setup, p))
  BY <1>3 DEF Processor
<1> QED
  BY <1>1, <1>4

-----------------------------------------------------------------------------
(* bins *)

\* Doubled satisfies its equations, and grows.
LEMMA DoubledGrows == \A n \in Nat : Doubled[n] \in Nat /\ n < Doubled[n]
<1> DEFINE twice == [n \in Nat |-> 2 * n]
           Equation(g) == g = [turns \in Nat |-> IF turns = 0 THEN 1 ELSE 2 * g[turns - 1]]
<1>1. PICK g : g \in [Nat -> Nat] /\ g[0] = 1 /\ \A n \in Nat : g[n + 1] = twice[g[n]]
  <2>1. twice \in [Nat -> Nat] /\ 1 \in Nat
    OBVIOUS
  <2> HIDE DEF twice
  <2>2. \E g : Iterates(g, Nat, 1, twice)
    BY <2>1, IterationExists, Zenon
  <2> QED
    BY <2>2, Zenon DEF Iterates
<1>2. Equation(g)
  <2>1. ASSUME NEW turns \in Nat
        PROVE  g[turns] = IF turns = 0 THEN 1 ELSE 2 * g[turns - 1]
    <3>1. CASE turns = 0
      BY <1>1, <3>1
    <3>2. CASE turns # 0
      <4>1. turns - 1 \in Nat /\ (turns - 1) + 1 = turns
        BY <3>2
      <4>2. g[turns] = twice[g[turns - 1]]
        BY <1>1, <4>1
      <4> QED
        BY <1>1, <3>2, <4>1, <4>2
    <3> QED
      BY <3>1, <3>2
  <2> QED
    BY <1>1, <2>1
<1>3. Equation(Doubled)
  BY <1>2, Zenon DEF Doubled
<1> DEFINE N == {n \in Nat : Doubled[n] \in Nat /\ n < Doubled[n]}
<1>4. 0 \in N
  BY <1>3
<1>5. ASSUME NEW n \in Nat, n \in N PROVE n + 1 \in N
  <2>1. Doubled[n + 1] = 2 * Doubled[n]
    BY <1>3
  <2> QED
    BY <1>5, <2>1
<1>6. \A n \in Nat : n \in N
  <2> HIDE DEF N
  <2> QED
    BY <1>4, <1>5, Induction
<1> QED
  BY <1>6

\* getFft's loop ends, with bins that are close enough.
LEMMA FftIsFine ==
  ASSUME NEW rate \in Nat \ {0}
  PROVE  Fft(rate) \in Nat \ {0} /\ rate <= MaxStep * Fft(rate)
<1> DEFINE Fine(turns) == rate <= MaxStep * Doubled[turns]
           Ends(turns) == Fine(turns) /\ \A t \in 0..(turns - 1) : MaxStep * Doubled[t] < rate
           T == {turns \in Nat : Fine(turns)}
<1>0. MaxStep \in Nat \ {0}
  BY RadioAssumption
<1>1. \A t \in Nat : Doubled[t] \in Nat /\ t < Doubled[t] /\ MaxStep * Doubled[t] \in Nat
                     /\ Doubled[t] <= MaxStep * Doubled[t]
  BY <1>0, DoubledGrows, Product
<1>2. rate \in T
  BY <1>1
<1>3. PICK m \in T : \A k \in T : m <= k
  <2> HIDE DEF T
  <2>1. T \subseteq Nat
    BY DEF T
  <2> QED
    BY <1>2, <2>1, LeastNat
<1>4. m \in 0..rate /\ Ends(m)
  <2>1. m \in 0..rate /\ Fine(m)
    BY <1>2, <1>3
  <2>2. ASSUME NEW t \in 0..(m - 1) PROVE MaxStep * Doubled[t] < rate
    <3>1. t \in Nat /\ t \notin T
      BY <1>3
    <3> QED
      BY <1>1, <3>1
  <2> QED
    BY <2>1, <2>2
<1> DEFINE turns == CHOOSE t \in 0..rate : Ends(t)
<1>5. turns \in 0..rate /\ Ends(turns)
  BY <1>4
<1>6. Fft(rate) = Doubled[turns]
  BY Zenon DEF Fft
<1> HIDE DEF turns
<1> QED
  BY <1>1, <1>5, <1>6

\* The bins go up from half a rate below the centre to half a rate above it, in steps
\* of MaxStep at most.
LEMMA BinSteps ==
  ASSUME NEW rate \in Nat \ {0}, NEW fft \in Nat \ {0}, rate <= MaxStep * fft, NEW center \in Int
  PROVE  LET bin(i) == IndexToFrequency(center, rate, fft, i)
         IN /\ \A i \in Nat : bin(i) \in Int /\ bin(i + 1) <= bin(i) + MaxStep
            /\ 2 * bin(0) <= 2 * center - rate + MaxStep + 1
            /\ 2 * center + rate - MaxStep - 1 <= 2 * bin(fft - 1)
<1> DEFINE d == 2 * fft
           part(i) == (2 * i + 1) * rate
           q(i) == part(i) \div d
<1>0. MaxStep \in Nat \ {0} /\ d \in Nat \ {0} /\ MaxStep * fft \in Nat /\ MaxStep * d = 2 * (MaxStep * fft)
      /\ MaxStep * d \in Nat
  BY RadioAssumption, Product
<1>1. PICK h \in Nat : h = rate \div 2 /\ 2 * h <= rate /\ rate <= 2 * h + 1
  <2>1. rate \div 2 \in Nat /\ 2 * (rate \div 2) <= rate /\ rate <= 2 * (rate \div 2) + 1
    OBVIOUS
  <2> QED
    BY <2>1
<1>2. \A i \in Nat : part(i) \in Nat /\ part(i + 1) = part(i) + 2 * rate
  <2> TAKE i \in Nat
  <2>1. PICK k \in Nat : k = 2 * i + 1
    OBVIOUS
  <2>2. 2 * (i + 1) + 1 = (k + 1) + 1 /\ k + 1 \in Nat
    BY <2>1
  <2>3. k * rate \in Nat /\ (k + 1) * rate = k * rate + rate
        /\ ((k + 1) + 1) * rate = (k + 1) * rate + rate
    BY <2>2, Product
  <2> QED
    BY <2>1, <2>2, <2>3
<1> HIDE DEF d, part
<1>3. \A i \in Nat : q(i) \in Nat /\ q(i) * d \in Nat /\ q(i) * d <= part(i) /\ part(i) < q(i) * d + d
  BY <1>0, <1>2, Division
<1>4. \A i \in Nat : IndexToFrequency(center, rate, fft, i) = center + q(i) - h
  BY <1>1, <1>2 DEF IndexToFrequency, part, d
<1> HIDE DEF q
<1>5. ASSUME NEW i \in Nat PROVE q(i + 1) <= q(i) + MaxStep
  <2>1. PICK a \in Nat : a = q(i)
    BY <1>3
  <2>2. PICK b \in Nat : b = q(i + 1)
    BY <1>3
  <2>3. b * d <= part(i) + 2 * rate /\ part(i) < a * d + d /\ a * d \in Nat /\ b * d \in Nat
    BY <1>2, <1>3, <2>1, <2>2
  <2>4. b * d < a * d + MaxStep * d + d
    <3>1. 2 * rate <= MaxStep * d /\ part(i) \in Nat /\ d \in Nat
      BY <1>0, <1>2
    <3> QED
      BY <1>0, <2>3, <3>1
  <2>5. (a + MaxStep) * d = a * d + MaxStep * d /\ (a + MaxStep + 1) * d = (a + MaxStep) * d + d
    BY <1>0
  <2>6. a + MaxStep + 1 <= b <=> (a + MaxStep + 1) * d <= b * d
    BY <1>0, ProductMonotone
  <2> QED
    BY <1>0, <2>1, <2>2, <2>3, <2>4, <2>5, <2>6
<1>6. 2 * q(0) <= MaxStep
  <2>1. PICK a \in Nat : a = q(0)
    BY <1>3
  <2>2. a * d <= rate
    <3>1. part(0) = rate
      BY DEF part
    <3> QED
      BY <1>3, <2>1, <3>1
  <2>3. a * d = (2 * a) * fft /\ (2 * a) * fft \in Nat
    BY DEF d
  <2>4. 2 * a <= MaxStep <=> (2 * a) * fft <= MaxStep * fft
    BY <1>0, ProductMonotone
  <2> QED
    BY <1>0, <2>1, <2>2, <2>3, <2>4
<1>7. 2 * rate - MaxStep - 1 <= 2 * q(fft - 1)
  <2>1. fft - 1 \in Nat
    OBVIOUS
  <2>2. PICK a \in Nat : a = q(fft - 1)
    BY <1>3, <2>1
  <2>3. part(fft - 1) = (2 * rate) * fft - rate /\ (2 * rate) * fft \in Nat
    <3>1. 2 * (fft - 1) + 1 = 2 * fft - 1
      OBVIOUS
    <3>2. (2 * fft - 1) * rate = (2 * rate) * fft - rate /\ (2 * rate) * fft \in Nat
      OBVIOUS
    <3> QED
      BY <3>1, <3>2 DEF part
  <2>4. a * d + d = (2 * a + 2) * fft /\ (2 * a + 2) * fft \in Nat
    BY DEF d
  <2>5. (2 * rate) * fft - MaxStep * fft < (2 * a + 2) * fft
    BY <1>0, <1>3, <2>1, <2>2, <2>3, <2>4
  <2>6. (2 * rate - MaxStep) * fft = (2 * rate) * fft - MaxStep * fft
    BY <1>0
  <2>7. 2 * a + 2 <= 2 * rate - MaxStep <=> (2 * a + 2) * fft <= (2 * rate - MaxStep) * fft
    BY <1>0, ProductMonotone
  <2> QED
    BY <1>0, <2>2, <2>4, <2>5, <2>6, <2>7
<1>8. \A i \in Nat : center + q(i) - h \in Int /\ center + q(i + 1) - h <= center + q(i) - h + MaxStep
  BY <1>0, <1>1, <1>3, <1>5
<1>9. 2 * (center + q(0) - h) <= 2 * center - rate + MaxStep + 1
  BY <1>0, <1>1, <1>3, <1>6
<1>10. 2 * center + rate - MaxStep - 1 <= 2 * (center + q(fft - 1) - h)
  <2>1. fft - 1 \in Nat /\ q(fft - 1) \in Nat
    BY <1>3
  <2> QED
    BY <1>0, <1>1, <1>7, <2>1
<1> QED
  BY <1>4, <1>8, <1>9, <1>10

\* Where the sum of a band's ends does not overflow its centre is halfway.
LEMMA CenterBetween ==
  ASSUME NEW setup \in Setup, Representable(setup), NEW p \in Bands(setup), Alone(setup, p)
  PROVE  LET band == Band(setup, p)
         IN /\ Center(band) \in Nat
            /\ 2 * Center(band) <= band.start + band.stop
            /\ band.start + band.stop <= 2 * Center(band) + 1
<1> DEFINE sum == Band(setup, p).start + Band(setup, p).stop
<1>1. sum \in Nat /\ sum <= MaxFrequency
  BY BandWidth DEF Alone
<1>2. PICK c : c = sum \div 2
  OBVIOUS
<1>3. c \in Nat /\ 2 * c <= sum /\ sum <= 2 * c + 1
  <2> HIDE DEF sum
  <2> QED
    BY <1>1, <1>2
<1>4. Center(Band(setup, p)) = c
  <2>1. Wrap(sum) = sum
    BY <1>1, RadioAssumption DEF Wrap
  <2>2. Quotient(sum, 2) = c
    BY <1>1, <1>2 DEF Quotient
  <2> QED
    BY <2>1, <2>2 DEF Center
<1> QED
  BY <1>3, <1>4

\* Between the ends of a band that is no narrower than a step a bin in its range is
\* never more than a step away.
LEMMA BinNear ==
  ASSUME NEW setup \in Setup, Representable(setup), NEW p \in Bands(setup),
         Alone(setup, p), Wide(setup, p),
         NEW f \in Band(setup, p).start..Band(setup, p).stop
  PROVE  \E bin \in BinsInRange(setup, p) : f \in (bin - MaxStep)..(bin + MaxStep)
<1> DEFINE center == Center(Band(setup, p))
           fft    == Fft(setup.rate)
           bin(i) == IndexToFrequency(center, setup.rate, fft, i)
<1>0. PICK low \in Nat, high \in Nat : low = Band(setup, p).start /\ high = Band(setup, p).stop
  BY BandWidth
<1>1. /\ setup.rate \in Nat \ {0} /\ MaxStep \in Nat \ {0}
      /\ high - low <= setup.rate /\ MaxStep <= high - low
      /\ f \in Int /\ low <= f /\ f <= high
  <2>1. setup.rate \in Nat \ {0} /\ MaxStep \in Nat \ {0}
    BY RadioAssumption DEF Setup
  <2> QED
    BY <1>0, <2>1, BandWidth DEF Wide, Bandwidth
<1>2. fft \in Nat \ {0} /\ setup.rate <= MaxStep * fft
  BY <1>1, FftIsFine
<1>3. center \in Nat /\ 2 * center <= low + high /\ low + high <= 2 * center + 1
  BY <1>0, CenterBetween
<1> HIDE DEF center, fft
<1>4. /\ \A i \in Nat : bin(i) \in Int /\ bin(i + 1) <= bin(i) + MaxStep
      /\ 2 * bin(0) <= 2 * center - setup.rate + MaxStep + 1
      /\ 2 * center + setup.rate - MaxStep - 1 <= 2 * bin(fft - 1)
  <2>1. center \in Int
    BY <1>3
  <2> QED
    BY <1>1, <1>2, <2>1, BinSteps, Zenon
<1>5. \A i \in 0..(fft - 1) : low <= bin(i) /\ bin(i) <= high => bin(i) \in BinsInRange(setup, p)
  BY <1>0 DEF BinsInRange, Contains, center, fft
<1> HIDE DEF bin
<1>6. bin(0) <= low + MaxStep /\ high - MaxStep <= bin(fft - 1)
  <2>1. bin(0) \in Int /\ bin(fft - 1) \in Int
    BY <1>2, <1>4
  <2> QED
    BY <1>1, <1>3, <1>4, <2>1
<1>7. PICK from \in Nat : low <= from /\ f - MaxStep <= from /\ from <= f /\ from + MaxStep <= high
  <2>1. CASE f - MaxStep < low
    BY <1>1, <2>1
  <2>2. CASE low <= f - MaxStep
    <3>1. f - MaxStep \in Nat
      BY <1>1, <2>2
    <3> QED
      BY <1>1, <2>2, <3>1
  <2> QED
    BY <1>1, <2>1, <2>2
<1> DEFINE T == {i \in Nat : i < fft /\ from <= bin(i)}
<1>8. fft - 1 \in T
  <2>1. bin(fft - 1) \in Int
    BY <1>2, <1>4
  <2> QED
    BY <1>1, <1>2, <1>6, <1>7, <2>1
<1>9. PICK m \in T : \A k \in T : m <= k
  <2> HIDE DEF T
  <2>1. T \subseteq Nat
    BY DEF T
  <2> QED
    BY <1>8, <2>1, LeastNat
<1>10. m \in Nat /\ m < fft /\ from <= bin(m) /\ bin(m) \in Int
  BY <1>4, <1>9
<1>11. bin(m) <= from + MaxStep
  <2>1. CASE m = 0
    BY <1>1, <1>6, <1>7, <1>10, <2>1
  <2>2. CASE m # 0
    <3>1. m - 1 \in Nat /\ (m - 1) + 1 = m /\ m - 1 \notin T
      BY <1>9, <1>10, <2>2
    <3>2. bin(m - 1) \in Int /\ bin(m) <= bin(m - 1) + MaxStep
      BY <1>4, <3>1
    <3>3. bin(m - 1) < from
      BY <1>2, <1>7, <1>10, <3>1, <3>2
    <3> QED
      BY <1>1, <1>7, <1>10, <3>2, <3>3
  <2> QED
    BY <2>1, <2>2
<1>12. bin(m) \in BinsInRange(setup, p)
  BY <1>1, <1>2, <1>5, <1>7, <1>10, <1>11
<1>13. f \in (bin(m) - MaxStep)..(bin(m) + MaxStep)
  BY <1>1, <1>7, <1>10, <1>11
<1> QED
  BY <1>12, <1>13

-----------------------------------------------------------------------------
(* Theorems *)

\* Whatever is configured is in a band, unless splitRange overflows; and a band that is
\* alone with its centre, the sum of its ends being a frequency, and no narrower than a
\* step has a bin in its range within a step of each of its frequencies.
THEOREM RangesHeard ==
  ASSUME NEW setup \in Setup, Representable(setup)
  PROVE  RangesAreHeard(setup)
<1>1. ASSUME NEW i \in 1..Len(setup.ranges),
             NEW f \in setup.ranges[i].start..setup.ranges[i].stop
      PROVE  \E p \in Bands(setup) : p[1] = i /\ Contains(Band(setup, p), f)
  <2> DEFINE rate == RangeSplitSampleRate(setup.rate)
             range == setup.ranges[i]
  <2>1. rate \in Nat \ {0} /\ range \in FrequencyRange
    <3>1. setup.rate \in Nat \ {0} /\ range \in FrequencyRange
      BY RadioAssumption DEF Setup
    <3>2. rate \in 1..setup.rate
      BY <3>1, SplitRateBounds
    <3> QED
      BY <3>1, <3>2
  <2>2. Bandwidth(range) <= rate \/ range.start + SplitCount(range, rate) * rate <= MaxFrequency
    BY DEF Representable
  <2>3. PICK k \in 1..SplitCount(range, rate) : Contains(Split(range, rate, k), f)
    <3>1. f \in range.start..range.stop
      OBVIOUS
    <3> HIDE DEF rate, range
    <3> QED
      BY <2>1, <2>2, <3>1, SplitCovers
  <2>4. <<i, k>> \in Bands(setup) /\ Contains(Band(setup, <<i, k>>), f)
    BY <2>3 DEF Bands, Band
  <2> QED
    BY <2>4
<1>2. ASSUME NEW p \in Bands(setup), Alone(setup, p), Wide(setup, p),
             NEW f \in Band(setup, p).start..Band(setup, p).stop
      PROVE  f \in HeardBy(setup, p)
  BY <1>2, AloneProcessor, BinNear DEF HeardBy
<1> QED
  BY <1>1, <1>2 DEF RangesAreHeard

\* A transmission, on either side of zero as a shift is, is reported at a multiple of
\* the tuning step, and none is nearer.
THEOREM TunedFrequencyIsNearest ==
  ASSUME NEW f \in Int, NEW step \in Nat \ {0}
  PROVE  /\ \E k \in Int : TunedFrequency(f, step) = k * step
         /\ 2 * (TunedFrequency(f, step) - f) <= step
         /\ 2 * (f - TunedFrequency(f, step)) < step
<1>1. CASE f \in Nat
  <2>1. PICK q : q = f \div step
    OBVIOUS
  <2>2. q \in Nat /\ q * step \in Nat /\ q * step <= f /\ f < q * step + step
    BY <1>1, <2>1, Division
  <2>3. step * q = q * step /\ (q + 1) * step = q * step + step /\ q + 1 \in Nat
    BY <2>2, Product
  <2>4. Remainder(f, step) = f - q * step
    BY <1>1, <2>1, <2>2, <2>3 DEF Remainder, Quotient
  <2> DEFINE rest == f - q * step
  <2>5. TunedFrequency(f, step) = IF rest < step - rest THEN q * step ELSE q * step + step
    BY <1>1, <2>2, <2>4 DEF TunedFrequency
  <2> QED
    BY <2>2, <2>3, <2>5
<1>2. CASE f \notin Nat
  <2>0. PICK a \in Nat : a = -f /\ f = -a /\ f < 0
    BY <1>2
  <2>1. PICK q : q = a \div step
    OBVIOUS
  <2>2. q \in Nat /\ q * step \in Nat /\ q * step <= a /\ a < q * step + step
    BY <2>0, <2>1, Division
  <2>3. /\ step * (-q) = -(q * step) /\ (-q) * step = -(q * step) /\ -q \in Int
        /\ (-q - 1) * step = -(q * step) - step /\ -q - 1 \in Int
    BY <2>2
  <2>4. Remainder(f, step) = f + q * step
    BY <2>0, <2>1, <2>2, <2>3 DEF Remainder, Quotient
  <2> DEFINE rest == f + q * step + step
  <2>5. TunedFrequency(f, step) = IF rest < step - rest THEN -(q * step) - step ELSE -(q * step)
    BY <2>0, <2>2, <2>4 DEF TunedFrequency
  <2>6. PICK low \in Nat : low = q * step
    BY <2>2
  <2>7. CASE rest < step - rest
    <3>1. TunedFrequency(f, step) = -low - step /\ -low - step = (-q - 1) * step
      BY <2>3, <2>5, <2>6, <2>7
    <3>2. 2 * (-low - step - f) <= step /\ 2 * (f - (-low - step)) < step
      BY <2>0, <2>2, <2>6, <2>7
    <3> QED
      BY <2>3, <3>1, <3>2
  <2>8. CASE ~(rest < step - rest)
    <3>1. TunedFrequency(f, step) = -low /\ -low = (-q) * step
      BY <2>3, <2>5, <2>6, <2>8
    <3>2. 2 * (-low - f) <= step /\ 2 * (f - (-low)) < step
      BY <2>0, <2>2, <2>6, <2>8
    <3> QED
      BY <2>3, <3>1, <3>2
  <2> QED
    BY <2>7, <2>8
<1> QED
  BY <1>1, <1>2

-----------------------------------------------------------------------------
(* The inductive invariant *)

Connected == {devices[k].serial : k \in {k \in 1..Len(devices) : devices[k].connected}}

ConnectedAreOpened == ~temporary => Connected = opened

\* An opened radio has the driver of a result that was not erased.
Sourced ==
  \A k \in 1..Len(devices) : devices[k].serial \in opened =>
    \E i \in Kept(found) : found[i].serial = devices[k].serial /\ found[i].driver = devices[k].driver

NoneOpened == pc = "enumerate" => opened = {}

IInv ==
  /\ TypeOK
  /\ SerialsOnce
  /\ ConnectedAreOpened
  /\ Sourced
  /\ NoneOpened

-----------------------------------------------------------------------------
(* Lemmas about the configuration *)

\* A sorting of ranges is a sequence of as many ranges.
LEMMA SortingsType ==
  ASSUME NEW ranges \in Seq(FrequencyRange), NEW sorted \in Sortings(ranges)
  PROVE  sorted \in Seq(FrequencyRange)
<1> DEFINE I == 1..Len(ranges)
<1>1. PICK p \in Bijection(I, I) : sorted = [k \in I |-> ranges[p[k]]]
  BY DEF Sortings
<1>2. p \in [I -> I]
  BY DEF Bijection, Injection
<1>3. \A k \in I : ranges[p[k]] \in FrequencyRange
  BY <1>2
<1> QED
  BY <1>1, <1>3

\* Changing one field of a device leaves a device, and its serial.
LEMMA DeviceField ==
  ASSUME NEW d \in Device
  PROVE  /\ \A c \in BOOLEAN :
              LET e == [d EXCEPT !.connected = c]
              IN e \in Device /\ e.serial = d.serial /\ e.driver = d.driver /\ e.setup = d.setup
                   /\ e.connected = c
         /\ \A c \in BOOLEAN :
              LET e == [d EXCEPT !.enabled = c]
              IN e \in Device /\ e.serial = d.serial /\ e.gains = d.gains
         /\ \A r \in Driver \cup {NoDriver} :
              LET e == [d EXCEPT !.driver = r]
              IN e \in Device /\ e.serial = d.serial /\ e.driver = r /\ e.connected = d.connected
                   /\ e.setup = d.setup /\ e.gains = d.gains
         /\ \A G \in Gains :
              LET e == [d EXCEPT !.gains = G]
              IN e \in Device /\ e.serial = d.serial /\ e.driver = d.driver
                   /\ e.connected = d.connected
         /\ \A s \in Setup :
              LET e == [d EXCEPT !.setup = s]
              IN e \in Device /\ e.serial = d.serial /\ e.connected = d.connected
                   /\ e.gains = d.gains
  BY DEF Device

\* What is saved of a device is a device, of the same serial, not connected.
LEMMA SavedType ==
  ASSUME NEW d \in Device, NEW e \in Saved(d)
  PROVE  e \in Device /\ e.serial = d.serial /\ ~e.connected
<1>1. d.setup \in Setup /\ d.setup.ranges \in Seq(FrequencyRange)
  BY DEF Device, Setup
<1>2. PICK ranges \in Sortings(d.setup.ranges) :
        e = [d EXCEPT !.driver = NoDriver, !.connected = FALSE, !.setup.ranges = ranges]
  BY DEF Saved
<1>3. ranges \in Seq(FrequencyRange)
  BY <1>1, <1>2, SortingsType
<1> DEFINE d1 == [d EXCEPT !.driver = NoDriver]
           d2 == [d1 EXCEPT !.connected = FALSE]
           s  == [d2.setup EXCEPT !.ranges = ranges]
<1>4. e = [d2 EXCEPT !.setup = s]
  BY <1>2, Zenon
<1>5. d1 \in Device /\ d1.serial = d.serial /\ d1.setup = d.setup
  BY DeviceField
<1> HIDE DEF d1
<1>6. d2 \in Device /\ d2.serial = d.serial /\ ~d2.connected /\ d2.setup = d.setup
  BY <1>5, DeviceField
<1> HIDE DEF d2
<1>7. s \in Setup
  BY <1>1, <1>3, <1>6 DEF Setup
<1> HIDE DEF s
<1> QED
  BY <1>4, <1>6, <1>7, DeviceField

\* So is a saved list, entry by entry.
LEMMA SavedListsType ==
  ASSUME NEW list \in Seq(Device), NEW l \in SavedLists(list)
  PROVE  /\ l \in Seq(Device) /\ Len(l) = Len(list)
         /\ \A k \in 1..Len(l) : l[k].serial = list[k].serial /\ ~l[k].connected
<1>1. /\ l \in [1..Len(list) -> UNION {Saved(list[k]) : k \in 1..Len(list)}]
      /\ \A k \in 1..Len(list) : l[k] \in Saved(list[k])
  BY DEF SavedLists
<1>2. \A k \in 1..Len(list) : l[k] \in Device /\ l[k].serial = list[k].serial /\ ~l[k].connected
  BY <1>1, SavedType
<1> QED
  BY <1>1, <1>2, SMTT(30)

\* The hub's edit keeps the devices and their serials.
LEMMA EditedType ==
  ASSUME TypeOK, NEW list \in Edited
  PROVE  /\ list \in Seq(Device) /\ Len(list) = Len(devices)
         /\ \A k \in 1..Len(devices) : list[k].serial = devices[k].serial
<1>1. PICK k \in 1..Len(devices), enabled \in BOOLEAN, setup \in Setups, value \in GainValues :
        list = [devices EXCEPT ![k] = EditedDevice(devices[k], enabled, setup, value)]
  BY DEF Edited
<1>2. devices \in Seq(Device) /\ devices[k] \in Device /\ setup \in Setup
  BY StartupAssumption DEF TypeOK
<1> DEFINE d  == devices[k]
           d1 == [d EXCEPT !.enabled = enabled]
           d2 == [d1 EXCEPT !.setup = setup]
           G  == [gain \in DOMAIN d.gains |-> value]
<1>3. G \in Gains
  BY <1>2 DEF Device, Gains
<1>4. EditedDevice(d, enabled, setup, value) = [d2 EXCEPT !.gains = G]
  BY Zenon DEF EditedDevice
<1> HIDE DEF d, G
<1>5. d1 \in Device /\ d1.serial = d.serial
  BY <1>2, DeviceField DEF d
<1> HIDE DEF d1
<1>6. d2 \in Device /\ d2.serial = d.serial
  BY <1>2, <1>5, DeviceField
<1> HIDE DEF d2
<1>7. /\ EditedDevice(d, enabled, setup, value) \in Device
      /\ EditedDevice(d, enabled, setup, value).serial = d.serial
  BY <1>3, <1>4, <1>6, DeviceField
<1> QED
  BY <1>1, <1>2, <1>7 DEF d

\* A radio that was found leaves its device as it is, but for what it says of itself.
LEMMA FoundType ==
  ASSUME NEW d \in Device, NEW driver \in Driver, NEW gains \in Gains
  PROVE  LET e == FoundDevice(d, driver, gains)
         IN e \in Device /\ e.serial = d.serial /\ e.driver = driver /\ e.connected
<1> DEFINE d1 == [d EXCEPT !.connected = TRUE]
           d2 == [d1 EXCEPT !.driver = driver]
<1>1. FoundDevice(d, driver, gains) = [d2 EXCEPT !.gains = gains]
  BY Zenon DEF FoundDevice
<1>2. d1 \in Device /\ d1.serial = d.serial /\ d1.connected
  BY DeviceField
<1> HIDE DEF d1
<1>3. d2 \in Device /\ d2.serial = d.serial /\ d2.connected /\ d2.driver = driver
  BY <1>2, DeviceField
<1> HIDE DEF d2
<1> QED
  BY <1>1, <1>3, DeviceField

\* The gains of an update are gains.
LEMMA ListedGainsType ==
  ASSUME NEW gains \in Gains, NEW G \in SUBSET GainNames
  PROVE  ListedGains(gains, G) \in Gains
<1>1. PICK H \in SUBSET GainNames : gains \in [H -> GainValues \cup {MaxGain}]
  BY DEF Gains
<1>2. ListedGains(gains, G) \in [G -> GainValues \cup {MaxGain}]
  BY <1>1 DEF ListedGains
<1> QED
  BY <1>2 DEF Gains

\* So are those of a new device.
LEMMA NewGainsType ==
  ASSUME NEW G \in SUBSET GainNames
  PROVE  ListedGains(<<>>, G) \in Gains
<1>1. ListedGains(<<>>, G) = [x \in G |-> MaxGain]
  BY DEF ListedGains
<1>2. [x \in G |-> MaxGain] \in [G -> GainValues \cup {MaxGain}]
  OBVIOUS
<1> QED
  BY <1>1, <1>2 DEF Gains

\* A new device gets a setup its radio can run.
LEMMA FirstSetupsType ==
  ASSUME NEW rates \in RateLists \ {<<>>}, NEW setup \in FirstSetups(rates)
  PROVE  setup \in Setup
<1> DEFINE fits == {i \in 1..Len(Defaults) : \E j \in 1..Len(rates) : rates[j] = Defaults[i].rate}
<1>1. rates \in Seq(1..MaxFrequency) /\ Len(rates) \in 1..Len(rates)
  BY StartupAssumption
<1>2. rates[Len(rates)] \in 1..MaxFrequency
  <2>1. ASSUME NEW S, NEW s \in Seq(S), NEW i \in 1..Len(s) PROVE s[i] \in S
    OBVIOUS
  <2> QED
    BY <1>1, <2>1
<1>3. CASE fits = {}
  <2>1. setup = [rate |-> rates[Len(rates)], ranges |-> <<LastRange>>]
    BY <1>3 DEF FirstSetups
  <2>2. <<LastRange>> \in Seq(FrequencyRange)
    BY StartupAssumption
  <2> QED
    BY <1>2, <2>1, <2>2 DEF Setup
<1>4. CASE fits # {}
  <2>1. \E i \in 1..Len(Defaults) : setup = Defaults[i]
    BY <1>4 DEF FirstSetups
  <2> QED
    BY <2>1, StartupAssumption
<1> QED
  BY <1>3, <1>4

-----------------------------------------------------------------------------
(* The invariant is inductive *)

LEMMA InitIInv == Init => IInv
<1> SUFFICES ASSUME Init PROVE IInv
  OBVIOUS
<1>1. TypeOK
  <2>1. DOMAIN <<>> = {}
    OBVIOUS
  <2>2. <<>> \in Seq(Device) /\ <<>> \in Seq(Radio)
    OBVIOUS
  <2>3. \A k \in DOMAIN scanners : scanners[k] \in Setup
    BY <2>1 DEF Init
  <2>4. devices \in Seq(Device) /\ read \in Seq(Device) /\ found \in Seq(Radio)
    BY <2>2 DEF Init
  <2>5. /\ pc = "enumerate" /\ temporary \in BOOLEAN /\ opened \subseteq Serials
        /\ unlisted \subseteq Serials \X GainNames
    BY Zenon DEF Init
  <2>6. at \in Nat \ {0} /\ reloads \in Nat
    <3>1. at = 1 /\ reloads = 0
      BY DEF Init
    <3> QED
      BY <3>1
  <2> QED
    BY <2>3, <2>4, <2>5, <2>6 DEF TypeOK
<1>2. SerialsOnce /\ ConnectedAreOpened /\ Sourced /\ NoneOpened
  BY DEF Init, SerialsOnce, ConnectedAreOpened, Connected, Sourced, NoneOpened
<1> QED
  BY <1>1, <1>2 DEF IInv

\* A result that was not erased is a radio.
LEMMA ResultType ==
  ASSUME TypeOK, at \in Kept(found)
  PROVE  at \in 1..Len(found) /\ Result \in Radio /\ Result.driver \in Driver
         /\ (Result.serial # NoSerial => Result.serial \in Serials)
<1>1. at \in 1..Len(found)
  BY DEF Kept
<1>2. found[at] \in Radio
  BY <1>1 DEF TypeOK
<1> QED
  BY <1>1, <1>2 DEF Result, Radio

\* updateDevice
LEMMA UpdateDeviceIInv ==
  ASSUME IInv, UpdateDevice \/ UpdateDeviceFails
  PROVE  IInv'
<1> USE DEF IInv
<1>1. at \in 1..Len(found) /\ Result.driver \in Driver
  BY ResultType DEF UpdateDevice, UpdateDeviceFails
<1>2. PICK k \in Find(Result) :
        \E gains \in {devices[k].gains} \cup {ListedGains(devices[k].gains, G) : G \in SUBSET GainNames} :
          devices' = [devices EXCEPT ![k] = FoundDevice(devices[k], Result.driver, gains)]
  BY DEF UpdateDevice, UpdateDeviceFails
<1>0. PICK gains \in {devices[k].gains} \cup {ListedGains(devices[k].gains, G) : G \in SUBSET GainNames} :
        devices' = [devices EXCEPT ![k] = FoundDevice(devices[k], Result.driver, gains)]
  BY <1>2
<1>3. k \in 1..Len(devices) /\ devices \in Seq(Device) /\ devices[k] \in Device
      /\ devices[k].serial = Result.serial
  BY <1>2 DEF Find, TypeOK
<1>4. gains \in Gains
  BY <1>0, <1>3, ListedGainsType DEF Device
<1> DEFINE e == FoundDevice(devices[k], Result.driver, gains)
<1>5. e \in Device /\ e.serial = devices[k].serial /\ e.driver = Result.driver /\ e.connected
  BY <1>1, <1>3, <1>4, FoundType
<1>6. devices' = [devices EXCEPT ![k] = e]
  BY <1>0
<1> HIDE DEF e
<1>7. /\ devices' \in Seq(Device) /\ Len(devices') = Len(devices)
      /\ devices'[k] = e
      /\ \A j \in 1..Len(devices) : j # k => devices'[j] = devices[j]
      /\ \A j \in 1..Len(devices) : devices'[j].serial = devices[j].serial
  BY <1>3, <1>5, <1>6
<1>8. opened' = opened \cup {devices[k].serial} /\ UNCHANGED <<pc, scanners, temporary, read, found, reloads>>
      /\ at' = at + 1 /\ pc = "update"
  BY <1>3 DEF UpdateDevice, UpdateDeviceFails, NextResult
<1>9. devices[k].serial \in Serials /\ unlisted' \subseteq Serials \X GainNames
  <2>1. devices[k].serial \in Serials
    BY <1>3 DEF Device
  <2>2. \/ \E G \in SUBSET GainNames : unlisted' = unlisted \cup {Result.serial} \X (GainNames \ G)
        \/ unlisted' = unlisted
    BY DEF UpdateDevice, UpdateDeviceFails
  <2> QED
    BY <1>3, <2>1, <2>2 DEF TypeOK
<1>10. TypeOK'
  BY <1>7, <1>8, <1>9 DEF TypeOK
<1>11. SerialsOnce'
  BY <1>7 DEF SerialsOnce
<1>12. ConnectedAreOpened'
  <2>1. Connected' = Connected \cup {devices[k].serial}
    BY <1>3, <1>5, <1>7 DEF Connected
  <2> QED
    BY <1>8, <2>1 DEF ConnectedAreOpened
<1>13. Sourced'
  <2> SUFFICES ASSUME NEW j \in 1..Len(devices), devices'[j].serial \in opened'
               PROVE  \E i \in Kept(found) : /\ found[i].serial = devices'[j].serial
                                             /\ found[i].driver = devices'[j].driver
    BY <1>7, <1>8 DEF Sourced
  <2>1. CASE j = k
    <3>1. at \in Kept(found)
      BY DEF UpdateDevice, UpdateDeviceFails
    <3> QED
      BY <1>3, <1>5, <1>7, <2>1, <3>1 DEF Result
  <2>2. CASE j # k
    <3>1. devices[j].serial # devices[k].serial
      BY <1>3, <2>2 DEF SerialsOnce
    <3>2. devices[j].serial \in opened /\ devices'[j] = devices[j]
      BY <1>7, <1>8, <2>2, <3>1
    <3> QED
      BY <3>2 DEF Sourced
  <2> QED
    BY <2>1, <2>2
<1>14. NoneOpened'
  BY <1>8 DEF NoneOpened
<1> QED
  BY <1>10, <1>11, <1>12, <1>13, <1>14

\* createDevice
LEMMA CreateDeviceIInv ==
  ASSUME IInv, CreateDevice
  PROVE  IInv'
<1> USE DEF IInv
<1>1. at \in 1..Len(found) /\ Result.driver \in Driver /\ Result.serial \in Serials
  BY ResultType DEF CreateDevice
<1>0. PICK rates \in RateLists \ {<<>>}, G \in SUBSET GainNames :
        \E setup \in FirstSetups(rates) :
          devices' = Append(devices,
            [serial |-> Result.serial, enabled |-> TRUE, connected |-> TRUE,
             driver |-> Result.driver, gains |-> ListedGains(<<>>, G),
             setup |-> setup])
  BY DEF CreateDevice
<1>2. PICK setup \in FirstSetups(rates) :
        devices' = Append(devices,
          [serial |-> Result.serial, enabled |-> TRUE, connected |-> TRUE,
           driver |-> Result.driver, gains |-> ListedGains(<<>>, G),
           setup |-> setup])
  BY <1>0
<1> DEFINE e == [serial |-> Result.serial, enabled |-> TRUE, connected |-> TRUE,
                 driver |-> Result.driver, gains |-> ListedGains(<<>>, G),
                 setup |-> setup]
<1>3. e \in Device /\ e.serial = Result.serial /\ e.driver = Result.driver /\ e.connected
  <2>1. ListedGains(<<>>, G) \in Gains /\ setup \in Setup
    BY NewGainsType, FirstSetupsType
  <2> QED
    BY <1>1, <2>1 DEF Device
<1>4. devices \in Seq(Device) /\ devices' = Append(devices, e)
  BY <1>2 DEF TypeOK
<1> HIDE DEF e
<1> DEFINE n == Len(devices) + 1
<1>5. /\ devices' \in Seq(Device) /\ Len(devices') = n /\ 1..n = (1..Len(devices)) \cup {n}
      /\ n \notin 1..Len(devices)
      /\ devices'[n] = e
      /\ \A j \in 1..Len(devices) : devices'[j] = devices[j]
  BY <1>3, <1>4
<1> HIDE DEF n
<1>6. opened' = opened \cup {Result.serial}
      /\ UNCHANGED <<pc, scanners, temporary, read, found, unlisted, reloads>>
      /\ at' = at + 1 /\ pc = "update" /\ at \in Kept(found)
  BY DEF CreateDevice, NextResult
<1>7. \A j \in 1..Len(devices) : devices[j].serial # Result.serial
  BY DEF CreateDevice, Find
<1>8. TypeOK'
  BY <1>1, <1>5, <1>6 DEF TypeOK
<1>9. SerialsOnce'
  <2>1. \A j, k \in (1..Len(devices)) \cup {n} : devices'[j].serial = devices'[k].serial => j = k
    BY <1>3, <1>5, <1>7 DEF SerialsOnce
  <2> QED
    BY <1>5, <2>1 DEF SerialsOnce
<1>10. ConnectedAreOpened'
  <2>1. Connected' = Connected \cup {Result.serial}
    BY <1>3, <1>5 DEF Connected
  <2> QED
    BY <1>6, <2>1 DEF ConnectedAreOpened
<1>11. Sourced'
  <2> SUFFICES ASSUME NEW j \in (1..Len(devices)) \cup {n}, devices'[j].serial \in opened'
               PROVE  \E i \in Kept(found) : /\ found[i].serial = devices'[j].serial
                                             /\ found[i].driver = devices'[j].driver
    BY <1>5, <1>6 DEF Sourced
  <2>1. CASE j = n
    BY <1>3, <1>5, <1>6, <2>1 DEF Result
  <2>2. CASE j \in 1..Len(devices)
    <3>1. devices[j].serial \in opened /\ devices'[j] = devices[j]
      BY <1>5, <1>6, <1>7, <2>2
    <3> QED
      BY <2>2, <3>1 DEF Sourced
  <2> QED
    BY <2>1, <2>2
<1>12. NoneOpened'
  BY <1>6 DEF NoneOpened
<1> QED
  BY <1>8, <1>9, <1>10, <1>11, <1>12

\* A reload
LEMMA ReloadIInv ==
  ASSUME IInv, Reload
  PROVE  IInv'
<1> USE DEF IInv
<1>1. PICK list \in Edited \cup {devices} :
        \/ devices' = list /\ temporary' = TRUE
        \/ devices' \in SavedLists(list) /\ temporary' = FALSE
  BY DEF Reload
<1>2. /\ list \in Seq(Device) /\ Len(list) = Len(devices)
      /\ \A k \in 1..Len(devices) : list[k].serial = devices[k].serial
  <2>1. CASE list \in Edited
    BY <2>1, EditedType
  <2>2. CASE list = devices
    BY <2>2 DEF TypeOK
  <2> QED
    BY <2>1, <2>2
<1>3. /\ devices' \in Seq(Device) /\ Len(devices') = Len(devices)
      /\ \A k \in 1..Len(devices) : devices'[k].serial = devices[k].serial
      /\ temporary' \in BOOLEAN
      /\ ~temporary' => \A k \in 1..Len(devices) : ~devices'[k].connected
  <2>1. CASE devices' = list /\ temporary' = TRUE
    BY <1>2, <2>1
  <2>2. CASE devices' \in SavedLists(list) /\ temporary' = FALSE
    BY <1>2, <2>2, SavedListsType
  <2> QED
    BY <1>1, <2>1, <2>2
<1>4. /\ pc' = "enumerate" /\ scanners' = <<>> /\ opened' = {} /\ read' = devices'
      /\ reloads' = reloads + 1 /\ unlisted' = {} /\ UNCHANGED <<at, found>>
  BY DEF Reload
<1>5. TypeOK'
  BY <1>3, <1>4 DEF TypeOK
<1>6. SerialsOnce'
  BY <1>3 DEF SerialsOnce
<1>7. ConnectedAreOpened'
  BY <1>3, <1>4 DEF ConnectedAreOpened, Connected
<1>8. Sourced' /\ NoneOpened'
  BY <1>4 DEF Sourced, NoneOpened
<1> QED
  BY <1>5, <1>6, <1>7, <1>8

LEMMA NextIInv == IInv /\ [Next]_vars => IInv'
<1> SUFFICES ASSUME IInv, [Next]_vars PROVE IInv'
  OBVIOUS
<1> USE DEF IInv
<1>1. CASE Enumerate
  <2>1. found' \in Seq(Radio) /\ at' = 1 /\ pc' = "update" /\ opened = {}
        /\ UNCHANGED <<devices, scanners, temporary, read, opened, unlisted, reloads>>
    BY <1>1, StartupAssumption DEF Enumerate, NoneOpened
  <2>2. TypeOK'
    BY <2>1 DEF TypeOK
  <2>3. SerialsOnce' /\ ConnectedAreOpened'
    BY <2>1 DEF SerialsOnce, ConnectedAreOpened, Connected
  <2>4. Sourced' /\ NoneOpened'
    <3>1. opened' = {}
      BY <2>1
    <3> QED
      BY <3>1 DEF Sourced, NoneOpened
  <2> QED
    BY <2>2, <2>3, <2>4
<1>2. CASE EnumerateThrows \/ ConstructUndefined \/ ResultSkipped \/ CreateUndefined
  <2>1. /\ pc' \in {pc, "crashed"} /\ at' \in {at, at + 1} /\ (pc' = pc => pc = "update")
        /\ UNCHANGED <<devices, opened, scanners, temporary, read, found, unlisted, reloads>>
    BY <1>2 DEF EnumerateThrows, ConstructUndefined, ResultSkipped, CreateUndefined, NextResult
  <2>2. TypeOK'
    BY <2>1 DEF TypeOK
  <2>3. SerialsOnce' /\ ConnectedAreOpened' /\ Sourced' /\ NoneOpened'
    BY <2>1 DEF SerialsOnce, ConnectedAreOpened, Connected, Sourced, NoneOpened
  <2> QED
    BY <2>2, <2>3
<1>3. CASE UpdateDevice \/ UpdateDeviceFails
  BY <1>3, UpdateDeviceIInv
<1>4. CASE CreateDevice
  BY <1>4, CreateDeviceIInv
<1>5. CASE Updated \/ Construct
  <2>1. /\ pc' \in {"construct", "run"}
        /\ UNCHANGED <<devices, at, temporary, read, found, opened, unlisted, reloads>>
        /\ \A k \in DOMAIN scanners' : scanners'[k] \in Setup
    <3>1. CASE Updated
      BY <3>1 DEF Updated, TypeOK
    <3>2. CASE Construct
      <4>1. PICK K \in SUBSET {k \in 1..Len(devices) : devices[k].enabled} :
              scanners' = [k \in K |-> devices[k].setup]
        BY <3>2 DEF Construct
      <4>2. ASSUME NEW k \in K PROVE devices[k].setup \in Setup
        <5>1. k \in 1..Len(devices) /\ devices \in Seq(Device)
          BY DEF TypeOK
        <5>2. devices[k] \in Device
          BY <5>1
        <5> QED
          BY <5>2 DEF Device
      <4> QED
        BY <3>2, <4>1, <4>2 DEF Construct
    <3> QED
      BY <1>5, <3>1, <3>2
  <2>2. TypeOK'
    BY <2>1 DEF TypeOK
  <2>3. SerialsOnce' /\ ConnectedAreOpened' /\ Sourced' /\ NoneOpened'
    BY <2>1 DEF SerialsOnce, ConnectedAreOpened, Connected, Sourced, NoneOpened
  <2> QED
    BY <2>2, <2>3
<1>6. CASE Reload
  BY <1>6, ReloadIInv
<1>7. CASE UNCHANGED vars
  <2>1. TypeOK'
    BY <1>7 DEF vars, TypeOK
  <2>2. SerialsOnce' /\ ConnectedAreOpened'
    BY <1>7 DEF vars, SerialsOnce, ConnectedAreOpened, Connected
  <2>3. Sourced' /\ NoneOpened'
    BY <1>7 DEF vars, Sourced, NoneOpened
  <2> QED
    BY <2>1, <2>2, <2>3
<1> QED
  BY <1>1, <1>2, <1>3, <1>4, <1>5, <1>6, <1>7 DEF Next

\* Every reachable state has the invariant.
LEMMA IInvHolds == Spec => []IInv
<1> QED
  BY InitIInv, NextIInv, PTL DEF Spec

-----------------------------------------------------------------------------
(* The settings of the configured devices *)

\* A gain its driver never left out has the value it was read with.
GainsKept(k) ==
  \A gain \in DOMAIN read[k].gains :
    \/ <<read[k].serial, gain>> \in unlisted
    \/ gain \in DOMAIN devices[k].gains /\ devices[k].gains[gain] = read[k].gains[gain]

SettingsKept(k) ==
  /\ devices[k].serial = read[k].serial
  /\ devices[k].enabled = read[k].enabled
  /\ devices[k].setup = read[k].setup

SettingsInv ==
  /\ pc = "enumerate" => devices = read
  /\ Len(read) <= Len(devices)
  /\ \A k \in 1..Len(read) : SettingsKept(k) /\ GainsKept(k)

\* A radio that was found leaves the settings of its device but for its gains.
LEMMA FoundKeeps ==
  ASSUME NEW d \in Device, NEW driver, NEW gains, NEW e, e = FoundDevice(d, driver, gains)
  PROVE  e.serial = d.serial /\ e.enabled = d.enabled /\ e.setup = d.setup /\ e.gains = gains
BY DEF FoundDevice, Device

LEMMA SettingsUpdateDevice ==
  ASSUME IInv, SettingsInv, UpdateDevice \/ UpdateDeviceFails
  PROVE  SettingsInv'
<1> USE DEF IInv
<1> DEFINE Listed(k, G, gains) == /\ gains = ListedGains(devices[k].gains, G)
                                  /\ unlisted' = unlisted \cup {Result.serial} \X (GainNames \ G)
           Stay(k, gains) == gains = devices[k].gains /\ unlisted' = unlisted
<1>1. PICK k \in Find(Result) : \E G \in SUBSET GainNames : \E gains :
        /\ devices' = [devices EXCEPT ![k] = FoundDevice(devices[k], Result.driver, gains)]
        /\ Listed(k, G, gains) \/ Stay(k, gains)
  <2>1. CASE UpdateDevice
    BY <2>1 DEF UpdateDevice
  <2>2. CASE UpdateDeviceFails
    BY <2>2 DEF UpdateDeviceFails
  <2> QED
    BY <2>1, <2>2
<1>2a. PICK G \in SUBSET GainNames : \E gains :
        /\ devices' = [devices EXCEPT ![k] = FoundDevice(devices[k], Result.driver, gains)]
        /\ Listed(k, G, gains) \/ Stay(k, gains)
  BY <1>1
<1>2. PICK gains :
        /\ devices' = [devices EXCEPT ![k] = FoundDevice(devices[k], Result.driver, gains)]
        /\ Listed(k, G, gains) \/ Stay(k, gains)
  BY <1>2a
<1> DEFINE e == FoundDevice(devices[k], Result.driver, gains)
<1>3. k \in 1..Len(devices) /\ devices \in Seq(Device) /\ devices[k] \in Device
      /\ devices[k].serial = Result.serial
  BY <1>1 DEF Find, TypeOK
<1>4. e.serial = devices[k].serial /\ e.enabled = devices[k].enabled /\ e.setup = devices[k].setup
      /\ e.gains = gains
  <2>1. e = FoundDevice(devices[k], Result.driver, gains)
    OBVIOUS
  <2> HIDE DEF e
  <2> QED
    BY <1>3, <2>1, FoundKeeps
<1>5. devices' = [devices EXCEPT ![k] = e]
  BY <1>2
<1> HIDE DEF e
<1>6. /\ Len(devices') = Len(devices) /\ devices'[k] = e
      /\ \A j \in 1..Len(devices) : j # k => devices'[j] = devices[j]
  BY <1>3, <1>5
<1>7. UNCHANGED read /\ pc' = "update" /\ unlisted \subseteq unlisted'
  BY <1>2 DEF UpdateDevice, UpdateDeviceFails, NextResult
<1>8. Len(read) <= Len(devices) /\ Len(read) \in Nat /\ Len(devices) \in Nat /\ read \in Seq(Device)
  BY DEF SettingsInv, TypeOK
<1>9. ASSUME NEW j \in 1..Len(read) PROVE SettingsKept(j)' /\ GainsKept(j)'
  <2>0. j \in 1..Len(devices) /\ SettingsKept(j) /\ GainsKept(j) /\ read[j] \in Device
    BY <1>8 DEF SettingsInv
  <2>1. CASE j # k
    BY <1>6, <1>7, <2>0, <2>1 DEF SettingsKept, GainsKept
  <2>2. CASE j = k
    <3>1. SettingsKept(j)'
      BY <1>4, <1>6, <1>7, <2>0, <2>2 DEF SettingsKept
    <3>2. ASSUME NEW gain \in DOMAIN read[k].gains, <<read[k].serial, gain>> \notin unlisted'
          PROVE  gain \in DOMAIN gains /\ gains[gain] = read[k].gains[gain]
      <4>1. gain \in DOMAIN devices[k].gains /\ devices[k].gains[gain] = read[k].gains[gain]
        BY <1>7, <2>0, <2>2, <3>2 DEF GainsKept
      <4>2. CASE Stay(k, gains)
        BY <4>1, <4>2
      <4>3. CASE Listed(k, G, gains)
        <5>1. gain \in GainNames
          BY <2>0, <2>2 DEF Device, Gains
        <5>2. gain \in G
          BY <1>3, <2>0, <2>2, <3>2, <4>3, <5>1 DEF SettingsKept
        <5> QED
          BY <4>1, <4>3, <5>2 DEF ListedGains
      <4> QED
        BY <1>2, <4>2, <4>3
    <3>3. GainsKept(j)'
      BY <1>4, <1>6, <1>7, <2>2, <3>2 DEF GainsKept
    <3> QED
      BY <3>1, <3>3
  <2> QED
    BY <2>1, <2>2
<1> QED
  BY <1>6, <1>7, <1>8, <1>9 DEF SettingsInv

LEMMA SettingsStep ==
  ASSUME IInv, SettingsInv, [Next]_vars
  PROVE  SettingsInv'
<1> USE DEF IInv
<1>0. Len(read) <= Len(devices) /\ Len(read) \in Nat /\ Len(devices) \in Nat
      /\ devices \in Seq(Device)
  BY DEF SettingsInv, TypeOK
<1>1. CASE UpdateDevice \/ UpdateDeviceFails
  BY <1>1, SettingsUpdateDevice
<1>2. CASE CreateDevice
  <2>1. PICK e : devices' = Append(devices, e)
    BY <1>2 DEF CreateDevice
  <2>2. Len(devices') = Len(devices) + 1 /\ \A k \in 1..Len(devices) : devices'[k] = devices[k]
    BY <1>0, <2>1
  <2>3. UNCHANGED <<read, unlisted>> /\ pc' # "enumerate"
    BY <1>2 DEF CreateDevice, NextResult
  <2>4. ASSUME NEW k \in 1..Len(read) PROVE SettingsKept(k)' /\ GainsKept(k)'
    <3>1. k \in 1..Len(devices) /\ devices'[k] = devices[k]
      BY <1>0, <2>2
    <3> QED
      BY <2>3, <3>1 DEF SettingsInv, SettingsKept, GainsKept
  <2> QED
    BY <1>0, <2>2, <2>3, <2>4 DEF SettingsInv
<1>3. CASE \/ Enumerate \/ EnumerateThrows \/ ResultSkipped \/ CreateUndefined
           \/ Updated \/ Construct \/ ConstructUndefined \/ UNCHANGED vars
  <2>1. UNCHANGED <<devices, read, unlisted>> /\ (pc' # "enumerate" \/ pc' = pc)
    BY <1>3 DEF Enumerate, EnumerateThrows, ResultSkipped, CreateUndefined, NextResult,
                Updated, Construct, ConstructUndefined, vars
  <2>2. ASSUME NEW k \in 1..Len(read) PROVE SettingsKept(k)' /\ GainsKept(k)'
    BY <2>1 DEF SettingsInv, SettingsKept, GainsKept
  <2> QED
    BY <1>0, <2>1, <2>2 DEF SettingsInv
<1>4. CASE Reload
  <2>1. read' = devices' /\ Len(devices') \in Nat
    <3>1. TypeOK'
      BY <1>4, ReloadIInv
    <3> QED
      BY <1>4, <3>1 DEF Reload, TypeOK
  <2> QED
    BY <2>1 DEF SettingsInv, SettingsKept, GainsKept
<1> QED
  BY <1>1, <1>2, <1>3, <1>4 DEF Next

-----------------------------------------------------------------------------
(* Theorems *)

\* Every reachable state of the start-up is well typed.
THEOREM TypeCorrect == Spec => []TypeOK
<1>1. IInv => TypeOK
  BY DEF IInv
<1> QED
  BY <1>1, IInvHolds, PTL

\* updateDevices: a radio has one entry, however often it is found.
THEOREM RadiosOnce == Spec => []SerialsOnce
<1>1. IInv => SerialsOnce
  BY DEF IInv
<1> QED
  BY <1>1, IInvHolds, PTL

\* Of a saved configuration those devices are connected whose radios were opened.
THEOREM ConnectedNow == Spec => []ConnectedIsCurrent
<1>1. IInv => ConnectedIsCurrent
  BY DEF IInv, ConnectedAreOpened, Connected, ConnectedIsCurrent
<1> QED
  BY <1>1, IInvHolds, PTL

\* enumerateDevices: what is attached is not used through the network.
THEOREM AttachedFirst == Spec => []LocalFirst
<1>1. ASSUME IInv PROVE LocalFirst
  <2> SUFFICES ASSUME \A i \in 1..Len(found) : found[i].serial # NoSerial,
                      NEW k \in 1..Len(devices),
                      devices[k].serial \in opened, devices[k].driver = "remote",
                      NEW j \in 1..Len(found),
                      found[j] = [serial |-> devices[k].serial, driver |-> "local"]
               PROVE  FALSE
    BY DEF LocalFirst
  <2>1. PICK i \in Kept(found) : found[i].serial = devices[k].serial /\ found[i].driver = "remote"
    BY <1>1 DEF IInv, Sourced
  <2>2. found[j].serial = devices[k].serial /\ found[j].driver = "local"
    OBVIOUS
  <2>3. i # j
    BY <2>1, <2>2
  <2>4. i \in 1..Len(found) /\ ~\E l \in (1..Len(found)) \ {i} : found[l].serial = found[i].serial
    BY <2>1 DEF Kept
  <2> QED
    BY <2>1, <2>2, <2>3, <2>4
<1> QED
  BY <1>1, IInvHolds, PTL

\* splitRanges and the processors: unless splitRange overflows every scanner's ranges
\* are in its bands, and heard to their edges where a band is alone with its centre and
\* no narrower than a step.
THEOREM ConfiguredHeard == Spec => []ConfiguredIsHeard
<1>1. TypeOK => ConfiguredIsHeard
  BY RangesHeard DEF TypeOK, ConfiguredIsHeard
<1> QED
  BY <1>1, TypeCorrect, PTL

\* updateDevices: whatever the drivers answer and wherever one fails, each device of the
\* configuration keeps its place, its switch, its setup, and the gains its driver lists
\* whenever it is asked.
THEOREM SettingsKeptThroughout == Spec => []SettingsSurvive
<1>1. Init => SettingsInv
  BY DEF Init, SettingsInv
<1>2. SettingsInv => SettingsSurvive
  BY DEF SettingsInv, SettingsSurvive, SettingsKept, GainsKept
<1>3. IInv /\ SettingsInv /\ [Next]_vars => SettingsInv'
  BY SettingsStep
<1> QED
  BY <1>1, <1>2, <1>3, IInvHolds, PTL DEF Spec

=============================================================================

----------------------------- MODULE RadioUtils -----------------------------
(***************************************************************************)
(* The arithmetic that turns the configured ranges of a device into the    *)
(* bands its scanner hops over (utils/radio_utils.cpp, utils/utils.cpp,    *)
(* FrequencyRange), and the bins in which the processor of a band then     *)
(* looks for signals (sdr_processor.cpp).  Frequencies are of int32_t; a   *)
(* sum of two that overflows wraps around.                                 *)
(***************************************************************************)
EXTENDS Arithmetic, Sequences

CONSTANTS
  MaxFrequency, \* the largest Frequency
  Megahertz,    \* 1000000, in the unit of frequencies
  MaxStep       \* SIGNAL_DETECTION_MAX_STEP: no two bins are further apart

ASSUME RadioAssumption ==
  /\ MaxFrequency \in Nat
  /\ Megahertz \in Nat \ {0} /\ Megahertz % 10 = 0
  /\ MaxStep \in Nat \ {0}

FrequencyRange == [start : 0..MaxFrequency, stop : 0..MaxFrequency]

\* What a device is configured with: its sample rate and the ranges to scan.
Setup == [rate : 1..MaxFrequency, ranges : Seq(FrequencyRange)]

-----------------------------------------------------------------------------
(* numbers *)

Wrap(n) == IF n > MaxFrequency THEN n - 2 * (MaxFrequency + 1) ELSE n

RoundDown(value, factor) == Quotient(value, factor) * factor

RoundUp(value, factor) ==
  IF Remainder(value, factor) = 0 THEN value ELSE (Quotient(value, factor) + 1) * factor

\* The multiple of step a transmission is reported at, the upper of two as near.
TunedFrequency(frequency, step) ==
  LET rest == Remainder(frequency, step) + (IF frequency < 0 THEN step ELSE 0)
      down == frequency - rest
  IN IF rest < step - rest THEN down ELSE down + step

-----------------------------------------------------------------------------
(* bands *)

Center(range) == Quotient(Wrap(range.start + range.stop), 2)
Bandwidth(range) == range.stop - range.start
Contains(range, frequency) == range.start <= frequency /\ frequency <= range.stop

RangeSplitSampleRate(rate) ==
  IF 10 * Megahertz <= rate THEN RoundDown(rate, Megahertz)
  ELSE IF Megahertz <= rate THEN RoundDown(rate, Megahertz \div 2)
  ELSE IF Megahertz \div 10 <= rate THEN RoundDown(rate, Megahertz \div 10)
  ELSE rate

\* Fault: what is left of a range after its last whole band is dropped.
SplitCountWhole(range, rate) ==
  IF Bandwidth(range) <= rate THEN 1 ELSE Bandwidth(range) \div rate

\* splitRange's loop makes a band for each start below the range's stop, as long as
\* its sums are frequencies (see Representable).
SplitCount(range, rate) ==
  IF Bandwidth(range) <= rate THEN 1 ELSE (Bandwidth(range) + rate - 1) \div rate

Split(range, rate, k) ==
  IF Bandwidth(range) <= rate
    THEN range
    ELSE [start |-> range.start + (k - 1) * rate, stop |-> Wrap(range.start + k * rate)]

(***************************************************************************)
(* splitRanges: m_ranges holds the k-th band of the i-th range for each    *)
(* <<i, k>>, in the order of the pairs.                                    *)
(***************************************************************************)
Bands(setup) ==
  LET rate == RangeSplitSampleRate(setup.rate)
  IN UNION {{i} \X (1..SplitCount(setup.ranges[i], rate)) : i \in 1..Len(setup.ranges)}

Band(setup, p) == Split(setup.ranges[p[1]], RangeSplitSampleRate(setup.rate), p[2])

Before(p, q) == p[1] < q[1] \/ (p[1] = q[1] /\ p[2] < q[2])

\* m_processorIndex, of bands whose centres are equal the last.
Processor(setup, p) ==
  CHOOSE q \in Bands(setup) :
    /\ Center(Band(setup, q)) = Center(Band(setup, p))
    /\ \A o \in Bands(setup) : Center(Band(setup, o)) = Center(Band(setup, p)) => ~Before(q, o)

-----------------------------------------------------------------------------
(* bins *)

\* newFft after so many turns of getFft's loop
Doubled[turns \in Nat] == IF turns = 0 THEN 1 ELSE 2 * Doubled[turns - 1]

\* getFft's loop ends at the first turn that makes the bins close enough.
Fft(rate) ==
  Doubled[CHOOSE turns \in 0..rate :
            /\ rate <= MaxStep * Doubled[turns]
            /\ \A t \in 0..(turns - 1) : MaxStep * Doubled[t] < rate]

\* step * (index + 0.5), cut to an integer, about the centre; sums that overflow in
\* between are frequencies again in the end.
IndexToFrequency(center, rate, fft, index) ==
  center + ((2 * index + 1) * rate) \div (2 * fft) - rate \div 2

\* The frequencies of the indices that isIndexInRange lets through.
BinsInRange(setup, p) ==
  LET fft    == Fft(setup.rate)
      center == Center(Band(setup, p))
  IN {bin \in {IndexToFrequency(center, setup.rate, fft, index) : index \in 0..(fft - 1)} :
        Contains(Band(setup, p), bin)}

\* What is no more than a step from one of the bins in which the processor that is fed
\* while the radio is on p's centre looks for signals.
HeardBy(setup, p) ==
  UNION {(bin - MaxStep)..(bin + MaxStep) : bin \in BinsInRange(setup, Processor(setup, p))}

-----------------------------------------------------------------------------
(* what the scanner makes of a setup *)

\* No sum of splitRange overflows: neither the stop of a range's last band nor, which
\* is the same number, the start at which its loop ends.  The code does not check it;
\* an overflow is undefined, and the loop of a build that wraps goes on below zero.
Representable(setup) ==
  LET rate == RangeSplitSampleRate(setup.rate)
      Fits(range) ==
        Bandwidth(range) <= rate \/ range.start + SplitCount(range, rate) * rate <= MaxFrequency
  IN \A i \in 1..Len(setup.ranges) : Fits(setup.ranges[i])

\* The sum of the band's ends does not overflow, and no other band has its centre.
Alone(setup, p) ==
  /\ Band(setup, p).start + Band(setup, p).stop <= MaxFrequency
  /\ \A q \in Bands(setup) : Center(Band(setup, q)) = Center(Band(setup, p)) => q = p

\* A narrower band may lie between two bins.
Wide(setup, p) == MaxStep <= Bandwidth(Band(setup, p))

\* Each frequency of a range is in one of its bands, none is lost between or after
\* them; and a processor hears all of its band, if the band is the only one for its
\* centre and no narrower than a step.
RangesAreHeard(setup) ==
  /\ \A i \in 1..Len(setup.ranges) :
       \A frequency \in setup.ranges[i].start..setup.ranges[i].stop :
         \E p \in Bands(setup) : p[1] = i /\ Contains(Band(setup, p), frequency)
  /\ \A p \in Bands(setup) :
       Alone(setup, p) /\ Wide(setup, p) =>
         Band(setup, p).start..Band(setup, p).stop \subseteq HeardBy(setup, p)

=============================================================================

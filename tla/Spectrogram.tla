----------------------------- MODULE Spectrogram -----------------------------
(***************************************************************************)
(* The spectrogram of a band (radio/blocks/spectrogram.cpp): it sums up    *)
(* spectra and sends their mean once an interval has passed.  The block    *)
(* has one container, since getFrequency() of a processor is constant.     *)
(***************************************************************************)
EXTENDS Arithmetic, Sequences, Functions

CONSTANTS
  OutputSize,      \* m_outputSize
  DecimatorFactor, \* m_decimatorFactor
  Powers,          \* the spectra that occur
  Zero,            \* -inf, the power of a bin with nothing in it
  NoNumber,        \* a sum -inf went into
  Undefined,       \* what a conversion to int8_t makes of what does not fit
  SendInterval,    \* SPECTROGRAM_SEND_INTERVAL
  MaxPending       \* bound: spectra between two rows

\* What is left of a spectrum when it is divided up is not looked at.
ASSUME SpectrogramAssumption ==
  /\ OutputSize \in Nat /\ DecimatorFactor \in Nat \ {0}
  /\ \A data \in Powers : \A j \in 1..OutputSize * DecimatorFactor :
       data[j] \in Int \cup {Zero}
  /\ Zero \notin Int /\ NoNumber \notin Int

VARIABLES
  containerExists,
  total,   \* m_sum, times DecimatorFactor
  counter, \* m_counter
  elapsed, \* the time since m_lastDataSendTime
  pending, \* history: the spectra since the last row
  row,     \* the last row m_send was called with
  of       \* history: the spectra it is of

spectrogramVars == <<containerExists, total, counter, elapsed, pending, row, of>>

Output == 1..OutputSize

SpectrogramInit ==
  /\ containerExists = FALSE
  /\ total = [k \in Output |-> 0]
  /\ counter = 0
  /\ elapsed = 0
  /\ pending = <<>>
  /\ row = <<>>
  /\ of = <<>>

-----------------------------------------------------------------------------
\* The bins of the spectrum that make up one of the row.
Inputs(k) == (k - 1) * DecimatorFactor + 1..k * DecimatorFactor

Grouped(data, k) ==
  IF \E j \in Inputs(k) : data[j] = Zero THEN NoNumber
  ELSE SumFunctionOnSet(data, Inputs(k))

Process(data) ==
  [k \in Output |->
     IF total[k] = NoNumber \/ Grouped(data, k) = NoNumber THEN NoNumber
     ELSE total[k] + Grouped(data, k)]

\* static_cast to int8_t of sums[k] / n
Converted(sums, n) ==
  [k \in Output |->
     IF sums[k] = NoNumber THEN Undefined
     ELSE LET mean == Quotient(sums[k], n * DecimatorFactor)
          IN IF -128 <= mean /\ mean <= 127 THEN mean ELSE Undefined]

\* Fault: the counter goes on.
ResetSumOnly(n) == total' = [k \in Output |-> 0] /\ counter' = n

Reset(n) == total' = [k \in Output |-> 0] /\ counter' = 0

\* A spectrum after which the interval is not over.
Sum(data) ==
  /\ Len(pending) < MaxPending
  /\ elapsed <= SendInterval
  /\ containerExists' = TRUE
  /\ total' = Process(data)
  /\ counter' = counter + 1
  /\ pending' = Append(pending, data)
  /\ UNCHANGED <<elapsed, row, of>>

Send(data) ==
  /\ elapsed > SendInterval
  /\ row' = Converted(Process(data), counter + 1)
  /\ of' = Append(pending, data)
  /\ Reset(counter + 1)
  /\ elapsed' = 0
  /\ pending' = <<>>
  /\ UNCHANGED containerExists

SpectrogramTick ==
  /\ containerExists /\ elapsed <= SendInterval
  /\ elapsed' = elapsed + 1
  /\ UNCHANGED <<containerExists, total, counter, pending, row, of>>

SpectrogramNext == (\E data \in Powers : Sum(data) \/ Send(data)) \/ SpectrogramTick

-----------------------------------------------------------------------------
\* The powers of all spectra since the row before, for one bin of the row.
Cells(k) == (1..Len(of)) \X Inputs(k)

\* A row is the mean of the spectra since the one before and of nothing else: a
\* spectrum counts once, and a bin with nothing in it spoils that row alone.
RowsAreMeans ==
  row # <<>> =>
    \A k \in Output :
      IF \E c \in Cells(k) : of[c[1]][c[2]] = Zero
        THEN row[k] = Undefined
        ELSE LET mean == Quotient(SumFunction([c \in Cells(k) |-> of[c[1]][c[2]]]),
                                  Len(of) * DecimatorFactor)
             IN row[k] = IF -128 <= mean /\ mean <= 127 THEN mean ELSE Undefined

=============================================================================

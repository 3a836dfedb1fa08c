--------------------------- MODULE DetectionProofs ---------------------------
(***************************************************************************)
(* For any spectra, sizes and levels the detector lists what is strong,    *)
(* and each signal it keeps was strong once; its loop always finds a       *)
(* strongest index, and getBestIndex a best one unless nothing votes.      *)
(***************************************************************************)
EXTENDS Detection, FiniteFacts

-----------------------------------------------------------------------------
(* The inductive invariant *)

\* A signal of this very spectrum is indexed by the update that follows.
Heard ==
  pc = "add" =>
    /\ todo \subseteq Indexes(spectra)
    /\ \A k \in DOMAIN signals : signals[k].indexed \/ Hears(k, StartLevel)

\* What addSignals' loop has passed has a signal within the margin.
PassedAreContained ==
  pc \in {"add", "clear"} => \A i \in Indexes(spectra) : i \in todo \/ Contained(i)

NothingTodo == pc \notin {"add", "crashed"} => todo = {}

IInv ==
  /\ TypeOK
  /\ Heard
  /\ PassedAreContained
  /\ NothingTodo
  /\ SignalsAreIndexed
  /\ StrongIsListed

-----------------------------------------------------------------------------
(* Bins *)

\* Halves of the group size, and which of them reach further.
LEMMA Halves ==
  /\ GroupSize \div 2 \in Nat /\ GroupingX \div 2 \in Nat
  /\ Margin \in Nat /\ GroupSize \div 2 <= Margin
BY DetectionAssumption DEF Margin

\* A bin is in the window of each bin in its own window, all within the margin.
LEMMA WindowSymmetric ==
  ASSUME NEW i \in Bin, NEW j \in Window(i)
  PROVE  /\ j \in Bin /\ i \in Window(j)
         /\ i - Margin <= j /\ j <= i + Margin
<1>1. Bin \subseteq Int /\ j \in Bin
  BY DetectionAssumption DEF Bin, Window, Around
<1>2. i - GroupSize \div 2 <= j /\ j <= i + GroupSize \div 2
  BY DEF Window, Around
<1> DEFINE h == GroupSize \div 2
<1>3. h \in Nat /\ Margin \in Nat /\ h <= Margin
  BY Halves
<1>4. i - h <= j /\ j <= i + h
  BY <1>2
<1> HIDE DEF h
<1>5. j - h <= i /\ i <= j + h /\ i - Margin <= j /\ j <= i + Margin
  BY <1>1, <1>3, <1>4
<1> QED
  BY <1>1, <1>5 DEF Window, Around, h

\* Windows and averages are finite and have their own bin.
LEMMA AroundFinite ==
  ASSUME NEW i \in Bin, NEW radius \in Nat
  PROVE  /\ i \in Around(i, radius) /\ Around(i, radius) \subseteq Bin
         /\ IsFiniteSet(Around(i, radius))
         /\ Cardinality(Around(i, radius)) \in Nat \ {0}
<1>1. IsFiniteSet(Bin) /\ i \in Int
  BY DetectionAssumption, FS_Interval DEF Bin
<1>2. i \in Around(i, radius) /\ Around(i, radius) \subseteq Bin
  BY <1>1 DEF Around
<1>3. IsFiniteSet(Around(i, radius))
  BY <1>1, <1>2, FS_Subset
<1>4. Cardinality(Around(i, radius)) \in Nat /\ Cardinality(Around(i, radius)) # 0
  BY <1>2, <1>3, FS_CardinalityType, FS_EmptySet
<1> QED
  BY <1>2, <1>3, <1>4

\* An index has a full average.
LEMMA IndexType ==
  ASSUME NEW i \in Indexes(spectra)
  PROVE  i \in Bin /\ Reaches(spectra, i, StartLevel) /\ Len(spectra) = GroupingY
BY DetectionAssumption DEF Indexes, Reaches

-----------------------------------------------------------------------------
(* The loop of addSignals *)

\* getMaxIndex finds the first of the strongest bins.
LEMMA PeakIsFirst ==
  ASSUME NEW row \in [Bin -> Int], NEW i \in Bin
  PROVE  /\ Peak(row, i) \in Window(i)
         /\ \A j \in Window(i) :
              row[j] < row[Peak(row, i)] \/ (row[j] = row[Peak(row, i)] /\ Peak(row, i) <= j)
<1> DEFINE Above(p, j) == row[j] < row[p] \/ (row[j] = row[p] /\ p <= j)
           R == {r \in Bin \X Bin : Above(r[1], r[2])}
<1>1. IsFiniteSet(Window(i)) /\ Window(i) # {} /\ Window(i) \subseteq Bin
  BY AroundFinite, Halves DEF Window
<1>2. \A j \in Window(i) : j \in Bin /\ j \in Int /\ row[j] \in Int
  BY <1>1, DetectionAssumption DEF Bin
<1>3. \A p, j \in Window(i) : <<p, j>> \in R <=> Above(p, j)
  BY <1>2
<1> HIDE DEF R
<1>4. \A p, j \in Window(i) : <<p, j>> \in R \/ <<j, p>> \in R
  <2>1. \A p, j \in Window(i) : Above(p, j) \/ Above(j, p)
    BY <1>2
  <2> QED
    BY <1>3, <2>1
<1>5. \A p, j, k \in Window(i) : <<p, j>> \in R /\ <<j, k>> \in R => <<p, k>> \in R
  <2>1. \A p, j, k \in Window(i) : Above(p, j) /\ Above(j, k) => Above(p, k)
    BY <1>2
  <2> HIDE DEF Above
  <2> QED
    BY <1>3, <2>1
<1>6. \E p \in Window(i) : \A j \in Window(i) : <<p, j>> \in R
  BY <1>1, <1>4, <1>5, TopExists
<1>7. \E p \in Window(i) : \A j \in Window(i) : Above(p, j)
  BY <1>1, <1>3, <1>6
<1> QED
  BY <1>7 DEF Peak

\* mostFrequentValue finds one of the most frequent, unless there is nothing to count.
LEMMA BestIndexExists ==
  ASSUME TypeOK, NEW i \in Indexes(spectra), Votes(i) # {}
  PROVE  BestIndexes(i) # {}
<1> DEFINE C(p) == Cardinality(VotesFor(i, p))
           R == {r \in Bin \X Bin : C(r[2]) <= C(r[1])}
<1>1. i \in Bin /\ Len(spectra) = GroupingY
  BY IndexType
<1>2. IsFiniteSet(Window(i)) /\ Window(i) # {} /\ Window(i) \subseteq Bin
  BY <1>1, AroundFinite, Halves DEF Window
<1>3. \A p : IsFiniteSet(VotesFor(i, p)) /\ C(p) \in Nat /\ (C(p) = 0 <=> VotesFor(i, p) = {})
  <2>1. IsFiniteSet(GroupingY \div 2 + 1..GroupingY)
    BY DetectionAssumption, FS_Interval
  <2>2. \A p : VotesFor(i, p) \subseteq GroupingY \div 2 + 1..GroupingY
    BY DEF VotesFor, Votes
  <2> QED
    BY <2>1, <2>2, FS_Subset, FS_CardinalityType, FS_EmptySet
<1>4. PICK n \in Votes(i) : TRUE
  OBVIOUS
<1>5. Peak(spectra[n], i) \in Window(i)
  <2>1. n \in 1..Len(spectra)
    BY <1>1, DetectionAssumption DEF Votes
  <2>2. spectra[n] \in Spectra
    <3>1. spectra \in Seq(Spectra)
      BY DEF TypeOK
    <3> QED
      BY <2>1, <3>1, ElementType
  <2>3. spectra[n] \in [Bin -> Int]
    BY <2>2, DetectionAssumption
  <2> QED
    BY <1>1, <2>3, PeakIsFirst
<1>6. VotesFor(i, Peak(spectra[n], i)) # {}
  BY <1>4 DEF VotesFor
<1> HIDE DEF C
<1>7. \A p, q \in Window(i) : <<p, q>> \in R <=> C(q) <= C(p)
  BY <1>2
<1> HIDE DEF R
<1>8. \A p, q \in Window(i) : <<p, q>> \in R \/ <<q, p>> \in R
  <2>1. \A p, q \in Window(i) : C(q) <= C(p) \/ C(p) <= C(q)
    BY <1>3
  <2> QED
    BY <1>7, <2>1
<1>9. \A p, q, r \in Window(i) : <<p, q>> \in R /\ <<q, r>> \in R => <<p, r>> \in R
  <2>1. \A p, q, r \in Window(i) : C(q) <= C(p) /\ C(r) <= C(q) => C(r) <= C(p)
    BY <1>3
  <2> QED
    BY <1>7, <2>1
<1>10. PICK p \in Window(i) : \A q \in Window(i) : <<p, q>> \in R
  BY <1>2, <1>8, <1>9, TopExists
<1>11. \A q \in Window(i) : C(q) <= C(p)
  BY <1>2, <1>7, <1>10
<1>12. C(p) # 0
  BY <1>3, <1>5, <1>6, <1>11
<1> QED
  BY <1>3, <1>11, <1>12 DEF BestIndexes, C

\* One index is stronger than another if its average is.
LEMMA TotalType ==
  ASSUME NEW rows \in Seq(Spectra), NEW i \in Bin
  PROVE  Total(rows, i) \in Int
<1> DEFINE S == Averaged(i)
           sums == [n \in DOMAIN rows |-> SumFunctionOnSet(rows[n], S)]
<1>1. IsFiniteSet(S) /\ S \subseteq Bin
  BY AroundFinite, Halves DEF Averaged
<1>2. IsFiniteSet(DOMAIN rows) /\ DOMAIN rows = 1..Len(rows)
  <2>1. Len(rows) \in Int /\ DOMAIN rows = 1..Len(rows)
    OBVIOUS
  <2> QED
    BY <2>1, FS_Interval
<1> HIDE DEF S
<1>3. ASSUME NEW n \in DOMAIN rows PROVE sums[n] \in Int
  <2>1. rows[n] \in Spectra
    BY <1>2, ElementType
  <2>2. \A j \in S : rows[n][j] \in Int
    BY <1>1, <2>1, DetectionAssumption
  <2>3. SumFunctionOnSet(rows[n], S) \in Int
    BY <1>1, <2>2, SumType
  <2> QED
    BY <2>3
<1>4. Total(rows, i) = SumFunctionOnSet(sums, DOMAIN sums)
  BY DEF Total, SumFunction, S
<1>5. DOMAIN sums = DOMAIN rows
  OBVIOUS
<1> HIDE DEF sums
<1> QED
  BY <1>2, <1>3, <1>4, <1>5, SumType

\* Averages are ordered.
LEMMA StrongerOrder ==
  ASSUME spectra \in Seq(Spectra), NEW i \in Bin, NEW j \in Bin, NEW k \in Bin
  PROVE  /\ ~Stronger(i, j) \/ ~Stronger(j, i)
         /\ ~Stronger(j, i) /\ ~Stronger(k, j) => ~Stronger(k, i)
<1> DEFINE a == Total(spectra, i)
           b == Total(spectra, j)
           c == Total(spectra, k)
           p == Cardinality(Averaged(i))
           q == Cardinality(Averaged(j))
           r == Cardinality(Averaged(k))
<1>1. a \in Int /\ b \in Int /\ c \in Int
  BY TotalType
<1>2. p \in Nat \ {0} /\ q \in Nat \ {0} /\ r \in Nat \ {0}
  BY AroundFinite, Halves DEF Averaged
<1>3. /\ Stronger(i, j) <=> a * q > b * p
      /\ Stronger(j, i) <=> b * p > a * q
      /\ Stronger(k, j) <=> c * q > b * r
      /\ Stronger(k, i) <=> c * p > a * r
  BY DEF Stronger
<1> HIDE DEF a, b, c, p, q, r
<1>4. ASSUME b * p <= a * q, c * q <= b * r PROVE c * p <= a * r
  <2>1. a * q \in Int /\ b * p \in Int /\ c * q \in Int /\ b * r \in Int /\ c * p \in Int /\ a * r \in Int
    BY <1>1, <1>2, ProductSwap
  <2>2. (b * p) * r <= (a * q) * r
    BY <1>2, <1>4, <2>1, ProductMonotone
  <2>3. (c * q) * p <= (b * r) * p
    BY <1>2, <1>4, <2>1, ProductMonotone
  <2>4. (b * p) * r = (b * r) * p /\ (a * q) * r = (a * r) * q /\ (c * q) * p = (c * p) * q
    BY <1>1, <1>2, ProductSwap
  <2>5. (c * p) * q <= (a * r) * q
    <3>1. (a * r) * q \in Int /\ (c * p) * q \in Int /\ (b * r) * p \in Int
      BY <1>2, <2>1, ProductSwap
    <3> QED
      BY <2>2, <2>3, <2>4, <3>1
  <2> QED
    BY <1>2, <2>1, <2>5, ProductMonotone
<1>5. a * q \in Int /\ b * p \in Int /\ c * q \in Int /\ b * r \in Int /\ c * p \in Int /\ a * r \in Int
  BY <1>1, <1>2, ProductSwap
<1> QED
  BY <1>3, <1>4, <1>5

\* The loop finds a strongest index as long as it has one.
LEMMA StrongestExists ==
  ASSUME TypeOK, todo # {}
  PROVE  \E i \in todo : Strongest(i)
<1> DEFINE R == {r \in Bin \X Bin : ~Stronger(r[2], r[1])}
<1>1. IsFiniteSet(todo) /\ todo \subseteq Bin /\ spectra \in Seq(Spectra)
  <2>1. IsFiniteSet(Bin)
    BY DetectionAssumption, FS_Interval DEF Bin
  <2> QED
    BY <2>1, FS_Subset DEF TypeOK
<1>2. \A i, j \in todo : <<i, j>> \in R <=> ~Stronger(j, i)
  BY <1>1
<1> HIDE DEF R
<1>3. \A i, j \in todo : <<i, j>> \in R \/ <<j, i>> \in R
  <2>1. \A i, j \in todo : ~Stronger(j, i) \/ ~Stronger(i, j)
    BY <1>1, StrongerOrder
  <2> QED
    BY <1>2, <2>1
<1>4. \A i, j, k \in todo : <<i, j>> \in R /\ <<j, k>> \in R => <<i, k>> \in R
  <2>1. \A i, j, k \in todo : ~Stronger(j, i) /\ ~Stronger(k, j) => ~Stronger(k, i)
    BY <1>1, StrongerOrder
  <2> QED
    BY <1>2, <2>1
<1>5. PICK i \in todo : \A j \in todo : <<i, j>> \in R
  BY <1>1, <1>3, <1>4, TopExists
<1> QED
  BY <1>2, <1>5 DEF Strongest

-----------------------------------------------------------------------------
(* The invariant is inductive *)

LEMMA InitIInv == Init => IInv
<1> SUFFICES ASSUME Init PROVE IInv
  OBVIOUS
<1>1. DOMAIN signals = {} /\ DOMAIN recorders = {}
  BY DEF Init
<1>2. spectra = <<>> /\ <<>> \in Seq(Spectra) /\ Len(<<>>) = 0
  BY DEF Init
<1>3. removed \in Lists
  <2>1. <<>> \in [{} -> BOOLEAN]
    OBVIOUS
  <2>2. {} \in SUBSET Bin
    OBVIOUS
  <2> QED
    BY <2>1, <2>2 DEF Init, Lists
<1>4. TypeOK
  <2>1. pc = "idle" /\ todo = {} /\ slot = NoValue
    BY DEF Init, NotificationInit
  <2>2. slot \in Lists \cup {NoValue} /\ Len(spectra) <= GroupingY
    BY <1>2, <2>1, DetectionAssumption
  <2> QED
    BY <1>1, <1>2, <1>3, <2>1, <2>2 DEF TypeOK
<1>5. pc = "idle" /\ todo = {}
  BY DEF Init
<1> QED
  BY <1>1, <1>4, <1>5
     DEF IInv, Heard, PassedAreContained, NothingTodo, SignalsAreIndexed, StrongIsListed

\* The buffers hold spectra, as many as an average has.
LEMMA PushType ==
  ASSUME NEW rows \in Seq(Spectra), Len(rows) <= GroupingY, NEW s \in Spectra
  PROVE  Push(rows, s) \in Seq(Spectra) /\ Len(Push(rows, s)) <= GroupingY
<1>1. CASE Len(rows) < GroupingY
  BY <1>1, DetectionAssumption DEF Push
<1>2. CASE ~(Len(rows) < GroupingY)
  <2>1. rows # <<>> /\ Len(rows) = GroupingY
    BY <1>2, DetectionAssumption
  <2>2. Tail(rows) \in Seq(Spectra) /\ Len(Tail(rows)) = Len(rows) - 1
    BY <2>1
  <2> QED
    BY <1>2, <2>1, <2>2, DetectionAssumption DEF Push
<1> QED
  BY <1>1, <1>2

LEMMA ProcessStep ==
  ASSUME IInv, NEW s \in Spectra, Process(s)
  PROVE  IInv'
<1> USE DEF IInv
<1>1. /\ pc = "idle" /\ pc' = "add" /\ removed' = <<>>
      /\ spectra' = Push(spectra, s) /\ todo' = Indexes(spectra')
      /\ UNCHANGED <<signals, slot, recorders>>
  BY DEF Process
<1>2. spectra' \in Seq(Spectra) /\ Len(spectra') <= GroupingY
  BY <1>1, PushType DEF TypeOK
<1>3. todo' \subseteq Bin
  BY <1>1, DetectionAssumption DEF Indexes
<1>4. removed' \in Lists
  <2>1. <<>> \in [{} -> BOOLEAN] /\ {} \in SUBSET Bin
    OBVIOUS
  <2> QED
    BY <1>1, <2>1 DEF Lists
<1>5. TypeOK'
  BY <1>1, <1>2, <1>3, <1>4 DEF TypeOK
<1>6. Heard'
  <2>1. \A k \in DOMAIN signals : signals[k].indexed
    BY <1>1 DEF SignalsAreIndexed
  <2> QED
    BY <1>1, <2>1 DEF Heard
<1>7. PassedAreContained' /\ NothingTodo' /\ SignalsAreIndexed' /\ StrongIsListed'
  BY <1>1 DEF PassedAreContained, NothingTodo, SignalsAreIndexed, StrongIsListed
<1> QED
  BY <1>5, <1>6, <1>7

LEMMA AddContainedStep ==
  ASSUME IInv, NEW i \in Bin, AddContained(i)
  PROVE  IInv'
<1> USE DEF IInv
<1>1. /\ pc = "add" /\ Contained(i) /\ todo' = todo \ {i}
      /\ UNCHANGED <<pc, spectra, signals, removed, slot, recorders>>
  BY DEF AddContained
<1>2. TypeOK'
  BY <1>1 DEF TypeOK
<1>3. Heard'
  BY <1>1 DEF Heard, Indexes, Reaches, Hears
<1>4. PassedAreContained'
  <2>1. Indexes(spectra)' = Indexes(spectra)
    BY <1>1 DEF Indexes, Reaches
  <2>2. \A j : Contained(j)' = Contained(j)
    BY <1>1 DEF Contained
  <2> QED
    BY <1>1, <2>1, <2>2 DEF PassedAreContained
<1>5. NothingTodo' /\ SignalsAreIndexed' /\ StrongIsListed'
  BY <1>1 DEF NothingTodo, SignalsAreIndexed, StrongIsListed
<1> QED
  BY <1>2, <1>3, <1>4, <1>5

LEMMA AddSignalStep ==
  ASSUME IInv, NEW i \in Bin, AddSignal(i)
  PROVE  IInv'
<1> USE DEF IInv
<1>1. /\ pc = "add" /\ i \in todo /\ todo' = todo \ {i}
      /\ UNCHANGED <<pc, spectra, removed, slot, recorders>>
  BY DEF AddSignal, Strongest
<1> DEFINE new == [age |-> 0, silence |-> 0, indexed |-> FALSE]
<1>2. PICK best \in BestIndexes(i) :
        signals' = IF best \in DOMAIN signals THEN signals
                   ELSE [k \in DOMAIN signals \cup {best} |-> IF k = best THEN new ELSE signals[k]]
  BY DEF AddSignal
<1>3. /\ best \in Window(i) /\ best \in Bin /\ i \in Window(best)
      /\ i - Margin <= best /\ best <= i + Margin
  <2>1. best \in Window(i)
    BY DEF BestIndexes
  <2> QED
    BY <2>1, WindowSymmetric
<1>4. /\ DOMAIN signals' = DOMAIN signals \cup {best}
      /\ \A k \in DOMAIN signals : signals'[k] = signals[k]
      /\ best \notin DOMAIN signals => signals'[best] = new
  BY <1>2
<1>5. new \in Signal
  BY DEF Signal
<1> HIDE DEF new
<1>6. TypeOK'
  <2>1. DOMAIN signals' \subseteq Bin
    BY <1>3, <1>4 DEF TypeOK
  <2>2. \A k \in DOMAIN signals' : signals'[k] \in Signal
    BY <1>4, <1>5 DEF TypeOK
  <2>3. todo' \subseteq Bin
    BY <1>1 DEF TypeOK
  <2> QED
    BY <1>1, <2>1, <2>2, <2>3 DEF TypeOK
<1>7. i \in Indexes(spectra)
  BY <1>1 DEF Heard
<1>8. Hears(best, StartLevel)
  BY <1>3, <1>7 DEF Hears, Indexes
<1>9. Heard'
  <2>1. Indexes(spectra)' = Indexes(spectra) /\ \A k : Hears(k, StartLevel)' = Hears(k, StartLevel)
    BY <1>1 DEF Indexes, Hears, Reaches
  <2>2. \A k \in DOMAIN signals : signals'[k].indexed \/ Hears(k, StartLevel)
    BY <1>1, <1>4 DEF Heard
  <2>3. \A k \in DOMAIN signals' : signals'[k].indexed \/ Hears(k, StartLevel)
    BY <1>4, <1>8, <2>2
  <2>4. todo' \subseteq Indexes(spectra)
    BY <1>1 DEF Heard
  <2> QED
    BY <2>1, <2>3, <2>4 DEF Heard
<1>10. PassedAreContained'
  <2>1. Indexes(spectra)' = Indexes(spectra)
    BY <1>1 DEF Indexes, Reaches
  <2>2. \A j : Contained(j) => Contained(j)'
    BY <1>4 DEF Contained
  <2>3. Contained(i)'
    BY <1>3, <1>4 DEF Contained
  <2> QED
    BY <1>1, <2>1, <2>2, <2>3 DEF PassedAreContained
<1>11. NothingTodo' /\ SignalsAreIndexed' /\ StrongIsListed'
  BY <1>1 DEF NothingTodo, SignalsAreIndexed, StrongIsListed
<1> QED
  BY <1>6, <1>9, <1>10, <1>11

LEMMA AddUndefinedStep ==
  ASSUME IInv, NEW i \in Bin, AddUndefined(i)
  PROVE  IInv'
BY DEF AddUndefined, IInv, TypeOK, Heard, PassedAreContained, NothingTodo, SignalsAreIndexed,
       StrongIsListed

LEMMA UpdateSignalsStep ==
  ASSUME IInv, UpdateSignals
  PROVE  IInv'
<1> USE DEF IInv
<1>1. /\ pc = "add" /\ todo = {} /\ pc' = "clear"
      /\ signals' = [k \in DOMAIN signals |-> NewData(k)]
      /\ UNCHANGED <<spectra, todo, removed, slot, recorders>>
  BY DEF UpdateSignals
<1>2. \A k \in DOMAIN signals : signals[k].indexed \/ Hears(k, StartLevel)
  BY <1>1 DEF Heard
<1>3. \A k \in DOMAIN signals : NewData(k) \in Signal /\ NewData(k).indexed
  <2> SUFFICES ASSUME NEW k \in DOMAIN signals
               PROVE  NewData(k) \in Signal /\ NewData(k).indexed
    OBVIOUS
  <2>1. signals[k].age \in Nat /\ signals[k].silence \in Nat
    BY DEF TypeOK, Signal
  <2>2. NewData(k).indexed = (signals[k].indexed \/ Hears(k, StartLevel))
    BY DEF NewData
  <2>3. (signals[k].indexed \/ Hears(k, StartLevel)) = TRUE
    BY <1>2
  <2> DEFINE age == signals[k].age
             silence == IF Hears(k, StopLevel) THEN 0 ELSE signals[k].silence
  <2>4. NewData(k) = [age |-> age, silence |-> silence, indexed |-> TRUE]
    BY <2>3, Zenon DEF NewData
  <2>5. age \in Nat /\ silence \in Nat
    BY <2>1
  <2> HIDE DEF age, silence
  <2>6. NewData(k) \in Signal
    BY <2>4, <2>5 DEF Signal
  <2> QED
    BY <2>2, <2>3, <2>6, Zenon
<1>4. /\ DOMAIN signals' = DOMAIN signals
      /\ \A k \in DOMAIN signals : signals'[k] \in Signal /\ signals'[k].indexed
  BY <1>1, <1>3
<1>5. TypeOK'
  BY <1>1, <1>4 DEF TypeOK
<1>6. PassedAreContained'
  <2>1. Indexes(spectra)' = Indexes(spectra)
    BY <1>1 DEF Indexes, Reaches
  <2>2. \A j : Contained(j)' = Contained(j)
    BY <1>4 DEF Contained
  <2> QED
    BY <1>1, <2>1, <2>2 DEF PassedAreContained
<1>7. Heard' /\ NothingTodo' /\ SignalsAreIndexed' /\ StrongIsListed'
  BY <1>1, <1>4 DEF Heard, NothingTodo, SignalsAreIndexed, StrongIsListed
<1> QED
  BY <1>5, <1>6, <1>7

LEMMA ClearSignalsStep ==
  ASSUME IInv, ClearSignals
  PROVE  IInv'
<1> USE DEF IInv
<1> DEFINE over == {k \in DOMAIN signals : IsTimeout(k) \/ IsMaximalTime(k)}
<1>1. /\ pc = "clear" /\ pc' = "notify"
      /\ removed' = [k \in over |-> IsMaximalTime(k)]
      /\ signals' = [k \in DOMAIN signals \ DOMAIN removed' |-> signals[k]]
      /\ UNCHANGED <<spectra, todo, slot, recorders>>
  BY DEF ClearSignals, Restrict
<1>2. over \subseteq DOMAIN signals /\ over \subseteq Bin
  BY DEF TypeOK
<1>3. DOMAIN removed' = over /\ removed' \in Lists
  <2>1. \A k \in over : IsMaximalTime(k) \in BOOLEAN
    BY DEF IsMaximalTime
  <2> HIDE DEF over
  <2>2. removed' \in [over -> BOOLEAN]
    BY <1>1, <2>1
  <2> QED
    BY <1>1, <1>2, <2>2 DEF Lists
<1> HIDE DEF over
<1>4. /\ DOMAIN signals' = DOMAIN signals \ over
      /\ \A k \in DOMAIN signals' : signals'[k] = signals[k]
  BY <1>1, <1>3
<1>5. TypeOK'
  BY <1>1, <1>3, <1>4 DEF TypeOK
<1>6. StrongIsListed'
  <2> SUFFICES ASSUME NEW i \in Usable, Reaches(spectra, i, StartLevel)
               PROVE  \E k \in DOMAIN signals' \cup DOMAIN removed' :
                        i - Margin <= k /\ k <= i + Margin
    BY <1>1 DEF StrongIsListed, Reaches
  <2>1. i \in Indexes(spectra) /\ todo = {}
    BY <1>1 DEF Indexes, NothingTodo
  <2>2. Contained(i)
    BY <1>1, <2>1 DEF PassedAreContained
  <2> QED
    BY <1>2, <1>3, <1>4, <2>2 DEF Contained
<1>7. Heard' /\ PassedAreContained' /\ NothingTodo' /\ SignalsAreIndexed'
  BY <1>1, <1>4 DEF Heard, PassedAreContained, NothingTodo, SignalsAreIndexed
<1> QED
  BY <1>5, <1>6, <1>7

LEMMA NotifyStep ==
  ASSUME IInv, NotifyTransmissions
  PROVE  IInv'
<1> USE DEF IInv
<1>1. /\ pc = "notify" /\ pc' = "idle"
      /\ slot' = [k \in DOMAIN signals |-> NeedFlush(k)]
      /\ recorders' = [k \in DOMAIN recorders |->
                         IF k \in DOMAIN removed /\ removed[k] THEN "cut" ELSE recorders[k]]
      /\ UNCHANGED <<spectra, todo, signals, removed>>
  BY DEF NotifyTransmissions, Notify, Cut
<1>2. slot' \in Lists
  <2>1. \A k \in DOMAIN signals : NeedFlush(k) \in BOOLEAN
    BY DEF NeedFlush
  <2>2. slot' \in [DOMAIN signals -> BOOLEAN]
    BY <1>1, <2>1
  <2> QED
    BY <2>2 DEF Lists, TypeOK
<1>3. TypeOK'
  BY <1>1, <1>2 DEF TypeOK
<1>4. Heard' /\ PassedAreContained' /\ NothingTodo' /\ SignalsAreIndexed' /\ StrongIsListed'
  BY <1>1 DEF Heard, PassedAreContained, NothingTodo, SignalsAreIndexed, StrongIsListed
<1> QED
  BY <1>3, <1>4

\* What the other threads do leaves the detector's own state as it is.
LEMMA DetectorUnchanged ==
  ASSUME IInv, UNCHANGED <<pc, spectra, todo, signals, removed>>
  PROVE  Heard' /\ PassedAreContained' /\ NothingTodo' /\ SignalsAreIndexed' /\ StrongIsListed'
<1>1. Indexes(spectra)' = Indexes(spectra)
  BY DEF Indexes, Reaches
<1>2. \A k : Hears(k, StartLevel)' = Hears(k, StartLevel) /\ Contained(k)' = Contained(k)
  BY DEF Hears, Reaches, Contained
<1>3. \A k : Reaches(spectra, k, StartLevel)' = Reaches(spectra, k, StartLevel)
  BY DEF Reaches
<1> QED
  BY <1>1, <1>2, <1>3
     DEF IInv, Heard, PassedAreContained, NothingTodo, SignalsAreIndexed, StrongIsListed

LEMMA TakeStep ==
  ASSUME IInv, Take
  PROVE  IInv'
<1> USE DEF IInv
<1>1. PICK list \in {slot} \ {NoValue} :
        /\ WaitFor(list)
        /\ recorders' = [k \in DOMAIN list |->
                           IF k \notin DOMAIN recorders THEN "on"
                           ELSE IF recorders[k] = "cut" THEN "ran on" ELSE recorders[k]]
  BY DEF Take
<1>2. UNCHANGED <<pc, spectra, todo, signals, removed>> /\ slot' = NoValue
  BY <1>1 DEF Take, WaitFor
<1>3. PICK S \in SUBSET Bin : list \in [S -> BOOLEAN]
  BY <1>1 DEF TypeOK, Lists
<1>4. DOMAIN recorders' = S /\ \A k \in S : recorders'[k] \in {"on", "cut", "ran on"}
  BY <1>1, <1>3 DEF TypeOK
<1>5. TypeOK'
  BY <1>2, <1>4 DEF TypeOK
<1> QED
  BY <1>2, <1>5, DetectorUnchanged

LEMMA TickStep ==
  ASSUME IInv, Tick
  PROVE  IInv'
<1> USE DEF IInv
<1> DEFINE older(s) == [s EXCEPT !.age = AtMost(@ + 1, MaxTime + MinTime),
                                 !.silence = AtMost(@ + 1, Timeout)]
<1>1. /\ pc = "idle"
      /\ signals' = [k \in DOMAIN signals |-> older(signals[k])]
      /\ UNCHANGED <<pc, spectra, todo, removed, slot, recorders>>
  BY DEF Tick
<1>2. ASSUME NEW s \in Signal PROVE older(s) \in Signal /\ older(s).indexed = s.indexed
  <2> DEFINE age == AtMost(s.age + 1, MaxTime + MinTime)
             silence == AtMost(s.silence + 1, Timeout)
  <2>1. age \in Nat /\ silence \in Nat
    BY DetectionAssumption DEF Signal, AtMost
  <2>2. older(s) = [[s EXCEPT !.age = age] EXCEPT !.silence = silence]
    BY Zenon
  <2> HIDE DEF age, silence, older
  <2>3. [s EXCEPT !.age = age] \in Signal /\ [s EXCEPT !.age = age].indexed = s.indexed
    BY <2>1 DEF Signal
  <2>4. \A u \in Signal : /\ [u EXCEPT !.silence = silence] \in Signal
                          /\ [u EXCEPT !.silence = silence].indexed = u.indexed
    BY <2>1 DEF Signal
  <2> QED
    BY <2>2, <2>3, <2>4
<1> HIDE DEF older
<1>3. /\ DOMAIN signals' = DOMAIN signals
      /\ \A k \in DOMAIN signals :
           signals'[k] \in Signal /\ signals'[k].indexed = signals[k].indexed
  BY <1>1, <1>2 DEF TypeOK
<1>4. TypeOK'
  BY <1>1, <1>3 DEF TypeOK
<1>5. Heard' /\ PassedAreContained' /\ NothingTodo' /\ StrongIsListed'
  BY <1>1 DEF Heard, PassedAreContained, NothingTodo, StrongIsListed
<1>6. SignalsAreIndexed'
  BY <1>1, <1>3 DEF SignalsAreIndexed
<1> QED
  BY <1>4, <1>5, <1>6

LEMMA NextIInv == IInv /\ [Next]_vars => IInv'
<1> SUFFICES ASSUME IInv, [Next]_vars PROVE IInv'
  OBVIOUS
<1>1. CASE Detector
  BY <1>1, ProcessStep, AddContainedStep, AddSignalStep, AddUndefinedStep, UpdateSignalsStep,
     ClearSignalsStep, NotifyStep DEF Detector
<1>2. CASE Take
  BY <1>2, TakeStep
<1>3. CASE Tick
  BY <1>3, TickStep
<1>4. CASE UNCHANGED vars
  <2>1. TypeOK'
    BY <1>4 DEF vars, IInv, TypeOK
  <2> QED
    BY <1>4, <2>1, DetectorUnchanged DEF vars, IInv
<1> QED
  BY <1>1, <1>2, <1>3, <1>4 DEF Next

-----------------------------------------------------------------------------
(* Theorems *)

\* The inductive invariant holds of the detector, the scanner's thread and the clock.
THEOREM DetectorInvariant == Spec => []IInv
BY InitIInv, NextIInv, PTL DEF Spec

\* The state keeps its types.
THEOREM TypeCorrect == Spec => []TypeOK
<1>1. IInv => TypeOK
  BY DEF IInv
<1> QED
  BY <1>1, DetectorInvariant, PTL

\* Signal::getIndex() reads the first of m_indexes: after each update every signal has
\* one, although a signal is put at another bin than the one that was strong.
THEOREM SignalsIndexed == Spec => []SignalsAreIndexed
<1>1. IInv => SignalsAreIndexed
  BY DEF IInv
<1> QED
  BY <1>1, DetectorInvariant, PTL

\* What is strong on average is in the list that is sent, within the margin.
THEOREM StrongListed == Spec => []StrongIsListed
<1>1. IInv => StrongIsListed
  BY DEF IInv
<1> QED
  BY <1>1, DetectorInvariant, PTL

\* The best index of a bin that is not contained is the key of no signal, though it may
\* be next to one: insert() adds a signal and never meets one.
THEOREM NewSignalsNew == Spec => []NewSignalsAreNew
<1>1. IInv => NewSignalsAreNew
  <2> SUFFICES ASSUME IInv, NEW i \in todo, ~Contained(i), NEW k \in BestIndexes(i),
                      k \in DOMAIN signals
               PROVE  FALSE
    BY DEF NewSignalsAreNew
  <2>1. i \in Bin /\ k \in Window(i)
    BY DEF IInv, TypeOK, BestIndexes
  <2> QED
    BY <2>1, WindowSymmetric DEF Contained
<1> QED
  BY <1>1, DetectorInvariant, PTL

\* The loop of addSignals goes on until it is through: one of the strongest bins is next,
\* and it is contained, or it has a best index, or nothing votes.
LoopGoesOn ==
  pc = "add" /\ todo # {} =>
    \E i \in todo :
      Strongest(i) /\ (Contained(i) \/ BestIndexes(i) # {} \/ Votes(i) = {})

\* sort() and mostFrequentValue() leave the loop nowhere to stop.
THEOREM LoopNeverStops == Spec => []LoopGoesOn
<1>1. IInv => LoopGoesOn
  <2> SUFFICES ASSUME IInv, pc = "add", todo # {}
               PROVE  \E i \in todo :
                        Strongest(i) /\ (Contained(i) \/ BestIndexes(i) # {} \/ Votes(i) = {})
    BY DEF LoopGoesOn
  <2>1. PICK i \in todo : Strongest(i)
    BY StrongestExists DEF IInv
  <2>2. i \in Indexes(spectra) /\ TypeOK
    BY DEF IInv, Heard
  <2>3. BestIndexes(i) # {} \/ Votes(i) = {}
    BY <2>2, BestIndexExists
  <2> QED
    BY <2>1, <2>3
<1> QED
  BY <1>1, DetectorInvariant, PTL

=============================================================================

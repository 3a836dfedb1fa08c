--------------------------- MODULE SchedulerProofs ---------------------------
(***************************************************************************)
(* What getRecordings finds, for any bandwidths, horizon and answers of    *)
(* the service that are sorted by the time transmissions begin.            *)
(***************************************************************************)
EXTENDS Scheduler, SequenceTheorems, FiniteFacts

\* The list is what the service sent, less what has ended.
ListInv ==
  /\ Range(transmissions) \subseteq given
  /\ NothingDueDropped
  /\ Sorted(transmissions)

\* A query is under way only if none was sent since refreshing was disabled.
QueryInv ==
  /\ queries <= 1
  /\ refreshEnabled => queries = 0
  /\ thread = "query" => queries = 0

SchedulerInv == TypeOK /\ ListInv /\ QueryInv

-----------------------------------------------------------------------------
(* Lemmas on lists *)

\* The numbers in a transmission.
LEMMA TransmissionFields ==
  ASSUME NEW t \in Transmission
  PROVE  /\ t.begin \in Time /\ t.begin \in Int
         /\ t.end \in Time /\ t.end \in Int
         /\ t.frequency \in Frequency /\ t.frequency \in Int
         /\ t.bandwidth \in Bandwidth /\ t.bandwidth \in Nat
<1>1. Frequency \subseteq Int /\ Bandwidth \subseteq Nat /\ Horizon \in Nat
  BY SchedulerAssumption
<1>2. Time \subseteq Int
  BY <1>1 DEF Time
<1> QED
  BY <1>1, <1>2 DEF Transmission

\* The pop_front() loop takes away what ended in front, and stops.
LEMMA DroppedFront ==
  ASSUME NEW list \in Seq(Transmission)
  PROVE  /\ Dropped(list) \in 0..Len(list)
         /\ \A i \in 1..Dropped(list) : Ended(list[i])
         /\ Dropped(list) < Len(list) => ~Ended(list[Dropped(list) + 1])
<1> DEFINE Front(k) == /\ \A i \in 1..k : Ended(list[i])
                       /\ k < Len(list) => ~Ended(list[k + 1])
           Left == {i \in 1..Len(list) : ~Ended(list[i])}
<1>1. Len(list) \in Nat
  OBVIOUS
<1>2. \E k \in 0..Len(list) : Front(k)
  <2>1. CASE Left = {}
    <3>1. Front(Len(list)) /\ Len(list) \in 0..Len(list)
      BY <1>1, <2>1
    <3> QED
      BY <3>1
  <2>2. CASE Left # {}
    <3>1. Left \subseteq Nat
      BY <1>1
    <3>2. PICK m \in Left : \A n \in Left : m <= n
      BY <2>2, <3>1, LeastNat
    <3>3. ASSUME NEW i \in 1..m - 1
          PROVE  Ended(list[i])
      <4>1. i \in 1..Len(list) /\ i < m
        BY <1>1, <3>2, <3>3
      <4> QED
        BY <4>1, <3>2
    <3>4. m \in 1..Len(list) /\ ~Ended(list[m]) /\ (m - 1) + 1 = m
      BY <1>1, <3>2
    <3>5. m - 1 \in 0..Len(list) /\ Front(m - 1)
      BY <1>1, <3>3, <3>4
    <3> QED
      BY <3>5
  <2> QED
    BY <2>1, <2>2
<1>3. Dropped(list) = CHOOSE k \in 0..Len(list) : Front(k)
  BY DEF Dropped
<1> QED
  BY <1>2, <1>3

\* What remains are the transmissions from the first that has not ended.
LEMMA RemainingList ==
  ASSUME NEW list \in Seq(Transmission)
  PROVE  /\ Remaining(list) \in Seq(Transmission)
         /\ Range(Remaining(list)) \subseteq Range(list)
         /\ \A t \in Range(list) : ~Ended(t) => t \in Range(Remaining(list))
         /\ Remaining(list) # <<>> => ~Ended(Remaining(list)[1])
         /\ Sorted(list) => Sorted(Remaining(list))
<1> DEFINE d == Dropped(list)
           rest == Remaining(list)
<1>1. /\ Len(list) \in Nat /\ d \in 0..Len(list)
      /\ \A i \in 1..d : Ended(list[i])
      /\ d < Len(list) => ~Ended(list[d + 1])
  BY DroppedFront
<1>2. /\ rest \in Seq(Transmission)
      /\ Len(rest) = Len(list) - d
      /\ \A i \in 1..Len(rest) : rest[i] = list[d + i] /\ d + i \in 1..Len(list)
  <2>1. rest = SubSeq(list, d + 1, Len(list))
    BY DEF Remaining
  <2>2. CASE d < Len(list)
    <3>1. d + 1 \in 1..Len(list) /\ Len(list) \in 1..Len(list)
      BY <1>1, <2>2
    <3> QED
      BY <2>1, <2>2, <3>1, <1>1, SubSeqProperties, SMTT(30)
  <2>3. CASE d = Len(list)
    <3>1. rest = <<>>
      BY <2>1, <2>3, <1>1, SubSeqEmpty
    <3> QED
      BY <3>1, <2>3, <1>1, EmptySeq
  <2> QED
    BY <1>1, <2>2, <2>3
<1> HIDE DEF d, rest
<1>3. Range(rest) \subseteq Range(list)
  BY <1>1, <1>2, RangeEquality, SMTT(30)
<1>4. ASSUME NEW t \in Range(list), ~Ended(t)
      PROVE  t \in Range(rest)
  <2>1. PICK i \in 1..Len(list) : list[i] = t
    BY RangeEquality
  <2>2. i \notin 1..d
    BY <1>1, <1>4, <2>1
  <2>3. i - d \in 1..Len(rest) /\ d + (i - d) = i
    BY <1>1, <1>2, <2>1, <2>2
  <2>4. rest[i - d] = t
    BY <1>2, <2>1, <2>3
  <2> QED
    BY <1>2, <2>3, <2>4, RangeEquality
<1>5. rest # <<>> => ~Ended(rest[1])
  <2>1. SUFFICES ASSUME rest # <<>> PROVE ~Ended(rest[1])
    OBVIOUS
  <2>2. Len(rest) \in Nat \ {0}
    BY <1>2, <2>1, EmptySeq
  <2>3. 1 \in 1..Len(rest) /\ d < Len(list)
    <3>1. Len(rest) = Len(list) - d /\ Len(list) \in Nat /\ d \in Nat
      BY <1>1, <1>2
    <3> QED
      BY <2>2, <3>1
  <2> QED
    BY <1>1, <1>2, <2>3
<1>6. Sorted(list) => Sorted(rest)
  BY <1>1, <1>2 DEF Sorted
<1> QED
  BY <1>2, <1>3, <1>4, <1>5, <1>6 DEF rest

\* In a sorted list the loop reaches all that has begun.
LEMMA ReachedSorted ==
  ASSUME NEW list \in Seq(Transmission), Sorted(list)
  PROVE  \A i \in 1..Len(list) : Begun(list[i]) => i \in Reached(list)
<1> SUFFICES ASSUME NEW i \in 1..Len(list), Begun(list[i]), NEW j \in 1..i
             PROVE  Begun(list[j])
  BY DEF Reached
<1>1. Len(list) \in Nat /\ j \in 1..Len(list)
  OBVIOUS
<1>2. list[i].begin \in Int /\ list[j].begin \in Int
  BY <1>1, TransmissionFields
<1>3. j = i \/ list[j].begin <= list[i].begin
  BY <1>1 DEF Sorted
<1> QED
  BY <1>2, <1>3 DEF Begun

\* Time passes for transmissions, in order, and ends none that had not ended before.
LEMMA LaterTransmission ==
  ASSUME NEW t \in Transmission
  PROVE  /\ Later(t) \in Transmission
         /\ ~Ended(Later(t)) => ~Ended(t)
         /\ \A u \in Transmission : t.begin <= u.begin => Later(t).begin <= Later(u).begin
<1> DEFINE Closer(x) == IF x < 0 THEN x ELSE x - 1
<1>1. ASSUME NEW u \in Transmission
      PROVE  /\ Later(u).begin = Closer(u.begin) /\ Later(u).end = Closer(u.end)
             /\ Later(u).frequency = u.frequency /\ Later(u).bandwidth = u.bandwidth
  BY DEF Later, Transmission
<1>2. \A x \in Time : Closer(x) \in Time
  BY SchedulerAssumption DEF Time
<1>3. Later(t) \in Transmission
  <2>1. /\ Closer(t.begin) \in Time /\ Closer(t.end) \in Time
    BY <1>2, TransmissionFields
  <2>2. Later(t) = [[t EXCEPT !.begin = Closer(t.begin)] EXCEPT !.end = Closer(t.end)]
    BY DEF Later, Transmission
  <2> HIDE DEF Closer
  <2>3. [t EXCEPT !.begin = Closer(t.begin)] \in Transmission
    BY <2>1 DEF Transmission
  <2> QED
    BY <2>1, <2>2, <2>3 DEF Transmission
<1>4. ~Ended(Later(t)) => ~Ended(t)
  <2>1. Later(t).end = Closer(t.end) /\ t.end \in Int
    BY <1>1, TransmissionFields
  <2> QED
    BY <2>1 DEF Ended
<1>5. ASSUME NEW u \in Transmission, t.begin <= u.begin
      PROVE  Later(t).begin <= Later(u).begin
  <2>1. /\ Later(t).begin = Closer(t.begin) /\ Later(u).begin = Closer(u.begin)
        /\ t.begin \in Int /\ u.begin \in Int
    BY <1>1, TransmissionFields
  <2> QED
    BY <1>5, <2>1
<1> QED
  BY <1>3, <1>4, <1>5

-----------------------------------------------------------------------------
(* The invariant *)

\* A poll keeps the list to what is left of the answer.
LEMMA PollStep ==
  ASSUME TypeOK, ListInv, NEW found \in BOOLEAN, Poll(found)
  PROVE  transmissions' \in Seq(Transmission) /\ given' \subseteq Transmission /\ ListInv'
<1>1. transmissions \in Seq(Transmission) /\ given' = given
  BY DEF TypeOK, Poll
<1>2. transmissions' = Remaining(transmissions)
  BY DEF Poll
<1>3. /\ transmissions' \in Seq(Transmission)
      /\ Range(transmissions)' \subseteq Range(transmissions)
      /\ \A t \in Range(transmissions) : ~Ended(t) => t \in Range(transmissions)'
      /\ Sorted(transmissions) => Sorted(transmissions)'
  BY <1>1, <1>2, RemainingList
<1> QED
  BY <1>1, <1>3 DEF ListInv, NothingDueDropped, TypeOK

\* Time moves the list and the answer alike.
LEMMA TickStep ==
  ASSUME TypeOK, ListInv, Tick
  PROVE  transmissions' \in Seq(Transmission) /\ given' \subseteq Transmission /\ ListInv'
<1>1. /\ transmissions \in Seq(Transmission) /\ given \subseteq Transmission
      /\ Len(transmissions) \in Nat
  BY DEF TypeOK
<1>2. \A i \in 1..Len(transmissions) : transmissions[i] \in Transmission
  BY <1>1
<1>3. /\ transmissions' = [i \in 1..Len(transmissions) |-> Later(transmissions[i])]
      /\ given' = {Later(t) : t \in given}
  BY DEF Tick
<1>4. given' \subseteq Transmission
  BY <1>1, <1>3, LaterTransmission
<1>5. transmissions' \in Seq(Transmission) /\ Len(transmissions') = Len(transmissions)
  BY <1>1, <1>2, <1>3, LaterTransmission
<1>6. \A i \in 1..Len(transmissions) : transmissions'[i] = Later(transmissions[i])
  BY <1>3
<1>7. /\ Range(transmissions) = {transmissions[i] : i \in 1..Len(transmissions)}
      /\ Range(transmissions') = {transmissions'[i] : i \in 1..Len(transmissions')}
  BY <1>1, <1>5, RangeEquality
<1>8. Range(transmissions') = {Later(t) : t \in Range(transmissions)}
  BY <1>5, <1>6, <1>7
<1>9. Range(transmissions') \subseteq given'
  BY <1>3, <1>8 DEF ListInv
<1>10. ASSUME NEW u \in given', ~Ended(u)
       PROVE  u \in Range(transmissions')
  <2>1. PICK t \in given : u = Later(t)
    BY <1>3
  <2>2. ~Ended(t)
    BY <1>1, <1>10, <2>1, LaterTransmission
  <2>3. t \in Range(transmissions)
    BY <2>2 DEF ListInv, NothingDueDropped
  <2> QED
    BY <1>8, <2>1, <2>3
<1>11. Sorted(transmissions')
  BY <1>1, <1>2, <1>5, <1>6, LaterTransmission DEF ListInv, Sorted
<1> QED
  BY <1>4, <1>5, <1>9, <1>10, <1>11 DEF ListInv, NothingDueDropped

\* An answer replaces the list whole.
LEMMA AnswerStep ==
  ASSUME NEW list \in Lists, Answer(list)
  PROVE  transmissions' \in Seq(Transmission) /\ given' \subseteq Transmission /\ ListInv'
<1>1. list \in Seq(Transmission) /\ Sorted(list)
  BY SchedulerAssumption
<1>2. Range(list) \subseteq Transmission
  BY <1>1, RangeOfSeq
<1> QED
  BY <1>1, <1>2 DEF Answer, ListInv, NothingDueDropped

THEOREM SchedulerInvariant == Spec => []SchedulerInv
<1>1. Init => SchedulerInv
  <2> SUFFICES ASSUME Init PROVE SchedulerInv
    OBVIOUS
  <2>1. transmissions \in Seq(Transmission) /\ Len(transmissions) = 0
    BY EmptySeq DEF Init
  <2>2. TypeOK
    <3>1. 0 \in 0..MaxAsked
      BY SchedulerAssumption
    <3> QED
      BY <2>1, <3>1 DEF Init, TypeOK
  <2>3. Range(transmissions) = {}
    <3>1. Range(transmissions) = {transmissions[i] : i \in 1..Len(transmissions)}
      BY <2>1, RangeEquality
    <3> QED
      BY <2>1, <3>1
  <2>4. ListInv
    BY <2>1, <2>3 DEF Init, ListInv, NothingDueDropped, Sorted
  <2>5. QueryInv
    BY DEF Init, QueryInv
  <2> QED
    BY <2>2, <2>4, <2>5 DEF SchedulerInv
<1>2. ASSUME SchedulerInv, [Next]_vars
      PROVE  SchedulerInv'
  <2>0. TypeOK /\ ListInv /\ QueryInv
    BY <1>2 DEF SchedulerInv
  <2>1. CASE Check \/ Query \/ Finish \/ IntervalPasses \/ Stop
    <3>1. TypeOK'
      <4>1. asked' \in 0..MaxAsked /\ queries' \in Nat
        BY <2>0, <2>1, SchedulerAssumption
           DEF Check, Query, Finish, IntervalPasses, Stop, TypeOK, threadVars
      <4>2. CASE Check
        BY <2>0, <4>1, <4>2 DEF Check, TypeOK, listVars
      <4>3. CASE Query
        BY <2>0, <4>1, <4>3 DEF Query, TypeOK, listVars
      <4>4. CASE Finish
        BY <2>0, <4>1, <4>4 DEF Finish, TypeOK, listVars
      <4>5. CASE IntervalPasses
        BY <2>0, <4>1, <4>5 DEF IntervalPasses, TypeOK, listVars
      <4>6. CASE Stop
        BY <2>0, <4>1, <4>6 DEF Stop, TypeOK, listVars, threadVars
      <4> QED
        BY <2>1, <4>2, <4>3, <4>4, <4>5, <4>6
    <3>2. UNCHANGED <<transmissions, given>>
      BY <2>0, <2>1 DEF Check, Query, Finish, IntervalPasses, Stop, listVars
    <3>3. ListInv'
      BY <2>0, <3>2 DEF ListInv, NothingDueDropped
    <3>4. QueryInv'
      BY <2>0, <2>1 DEF Check, Query, Finish, IntervalPasses, Stop, QueryInv, TypeOK, threadVars
    <3> QED
      BY <3>1, <3>3, <3>4 DEF SchedulerInv
  <2>2. CASE Disable \/ Enable
    <3>1. TypeOK'
      <4>1. CASE Disable
        BY <2>0, <4>1 DEF Disable, TypeOK, listVars
      <4>2. CASE Enable
        BY <2>0, <4>2 DEF Enable, TypeOK, listVars
      <4> QED
        BY <2>2, <4>1, <4>2
    <3>2. UNCHANGED <<transmissions, given>>
      BY <2>0, <2>2 DEF Disable, Enable, listVars
    <3>3. QueryInv'
      BY <2>0, <2>2 DEF Disable, Enable, QueryInv
    <3> QED
      BY <2>0, <3>1, <3>2, <3>3 DEF SchedulerInv, ListInv, NothingDueDropped
  <2>3. ASSUME NEW list \in Lists, Answer(list)
        PROVE  SchedulerInv'
    <3>1. TypeOK' /\ QueryInv'
      BY <2>0, <2>3, AnswerStep, SchedulerAssumption DEF Answer, TypeOK, QueryInv
    <3> QED
      BY <2>3, <3>1, AnswerStep DEF SchedulerInv
  <2>4. CASE Tick
    <3>1. TypeOK' /\ QueryInv'
      BY <2>0, <2>4, TickStep DEF Tick, TypeOK, QueryInv, threadVars
    <3> QED
      BY <2>0, <2>4, <3>1, TickStep DEF SchedulerInv
  <2>5. CASE ScanPoll \/ ServePoll
    <3>1. PICK found \in BOOLEAN : Poll(found)
      BY <2>0, <2>5 DEF ScanPoll, ServePoll
    <3>2. transmissions' \in Seq(Transmission) /\ given' \subseteq Transmission /\ ListInv'
      BY <2>0, <3>1, PollStep
    <3>3. TypeOK' /\ QueryInv'
      BY <2>0, <2>5, <3>2 DEF ScanPoll, ServePoll, TypeOK, QueryInv, threadVars
    <3> QED
      BY <3>2, <3>3 DEF SchedulerInv
  <2>6. CASE UNCHANGED vars
    BY <2>0, <2>6 DEF vars, listVars, threadVars, SchedulerInv, TypeOK, ListInv,
       NothingDueDropped, QueryInv
  <2> QED
    BY <1>2, <2>1, <2>2, <2>3, <2>4, <2>5, <2>6 DEF Next, Thread, Client
<1> QED
  BY <1>1, <1>2, PTL DEF Spec

-----------------------------------------------------------------------------
(* Theorems *)

\* Types, for any horizon and answers.
THEOREM TypeCorrect == Spec => []TypeOK
BY SchedulerInvariant, PTL DEF SchedulerInv

\* The list loses what has ended and nothing else.
THEOREM ListKept == Spec => []NothingDueDropped
<1>1. SchedulerInv => NothingDueDropped
  BY DEF SchedulerInv, ListInv
<1> QED
  BY <1>1, SchedulerInvariant, PTL

\* At most one query goes out while a schedule is recorded.
THEOREM RefreshHeld == Spec => []OneLateQuery
<1>1. SchedulerInv => OneLateQuery
  BY DEF SchedulerInv, QueryInv, OneLateQuery
<1> QED
  BY <1>1, SchedulerInvariant, PTL

\* getRecordings() has all that is on the air and fits, and nothing out of the band.
THEOREM RecordingsComplete == Spec => []RecordsWhatIsOnAir
<1>1. ASSUME SchedulerInv
      PROVE  RecordsWhatIsOnAir
  <2> DEFINE list == Remaining(transmissions)
             onAir == {t \in given : Begun(t) /\ ~Ended(t)}
  <2>1. transmissions \in Seq(Transmission)
    BY <1>1 DEF SchedulerInv, TypeOK
  <2>2. /\ list \in Seq(Transmission) /\ Len(list) \in Nat
        /\ Range(list) \subseteq Range(transmissions)
        /\ \A t \in Range(transmissions) : ~Ended(t) => t \in Range(list)
        /\ list # <<>> => ~Ended(list[1])
        /\ Sorted(list)
    BY <1>1, <2>1, RemainingList DEF SchedulerInv, ListInv
  <2>3. Range(list) \subseteq given /\ \A t \in given : ~Ended(t) => t \in Range(list)
    BY <1>1, <2>2 DEF SchedulerInv, ListInv, NothingDueDropped
  <2> HIDE DEF list
  <2>4. Range(list) = {list[i] : i \in 1..Len(list)}
    BY <2>2, RangeEquality
  <2>5. \A t \in onAir : \E i \in Reached(list) : list[i] = t
    BY <2>2, <2>3, <2>4, ReachedSorted
  <2>6. ASSUME Reached(list) # {}
        PROVE  list[1] \in onAir
    <3>1. PICK i \in 1..Len(list) : \A j \in 1..i : Begun(list[j])
      BY <2>6 DEF Reached
    <3>2. 1 \in 1..Len(list) /\ 1 \in 1..i
      BY <2>2, <3>1
    <3>3. Begun(list[1]) /\ list # <<>>
      BY <3>1, <3>2, EmptySeq
    <3>4. list[1] \in given
      BY <2>3, <2>4, <3>2
    <3> QED
      BY <2>2, <3>3, <3>4
  <2>7. onAir # {} <=> Reached(list) # {}
    BY <2>5, <2>6
  <2>8. {t \in onAir : Fits(t, Center(list))} \subseteq Recordings(list)
    BY <2>5 DEF Recordings
  <2>9. ASSUME Reached(list) # {}, NEW t \in Recordings(list)
        PROVE  /\ Begun(t)
               /\ t.frequency - Center(list) \in -(SampleRate \div 2)..(SampleRate \div 2)
    <3>1. PICK i \in Reached(list) : t = list[i] /\ Fits(list[i], Center(list))
      BY <2>9 DEF Recordings
    <3>2. i \in 1..Len(list) /\ Begun(t)
      BY <2>2, <3>1 DEF Reached
    <3>3. t \in Transmission /\ list[1] \in Transmission
      BY <2>2, <2>6, <2>9, <3>1, <3>2
    <3>4. /\ t.frequency \in Int /\ t.bandwidth \in Nat /\ Center(list) \in Int
          /\ SampleRate \in Nat
      BY <3>3, TransmissionFields, SchedulerAssumption DEF Center
    <3>5. SampleRate \div 2 \in Nat /\ t.bandwidth \div 2 \in Nat
      BY <3>4
    <3>6. /\ Center(list) - SampleRate \div 2 <= t.frequency - t.bandwidth \div 2
          /\ t.frequency + t.bandwidth \div 2 <= Center(list) + SampleRate \div 2
      BY <3>1 DEF Fits
    <3> QED
      BY <3>2, <3>4, <3>5, <3>6, SMTT(30)
  <2> QED
    BY <2>6, <2>7, <2>8, <2>9 DEF RecordsWhatIsOnAir, list
<1> QED
  BY <1>1, SchedulerInvariant, PTL

=============================================================================

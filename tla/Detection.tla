------------------------------ MODULE Detection ------------------------------
(***************************************************************************)
(* The detector of one band (radio/blocks/transmission.cpp with            *)
(* radio/signal.cpp and radio/averager.cpp): it averages the spectra of    *)
(* the band, keeps a signal for each transmission it finds, and notifies   *)
(* the scanner's thread of all of them after every spectrum; that thread   *)
(* runs a recorder for each while it stays in the list.                    *)
(*                                                                         *)
(* A spectrum is a function from bins to power over the learned noise.     *)
(* process() runs under m_mutex: its steps interleave with the scanner's   *)
(* thread alone, and it reads the clock once, so that time passes only     *)
(* between them.  Times are kept as ages and stop at the limit they are    *)
(* compared with.                                                          *)
(*                                                                         *)
(* A recorder is found here by the bin of its signal, in the code by the   *)
(* frequency that bin is tuned to.  A best index may lie next to another   *)
(* signal, and signals with one tuned frequency share a recorder: no       *)
(* property is about a recorder two signals share.                         *)
(***************************************************************************)
EXTENDS Integers, Sequences, FiniteSets, Functions, Notification

CONSTANTS
  ItemSize,  \* bins of a spectrum
  GroupSize, \* m_groupSize: bins of one transmission
  GroupingX, \* GROUPING_X, an odd number of bins
  GroupingY, \* GROUPING_Y, the number of spectra in an average
  Spectra,   \* the spectra that occur
  Usable,    \* bins in the range of the band and in no ignored range
  StartLevel, StopLevel,
  MinTime,   \* recordingMinTime
  Timeout,   \* recordingTimeout
  MaxTime    \* TRANSMISSION_MAX_TIME

Bin == 0..ItemSize - 1

ASSUME DetectionAssumption ==
  /\ ItemSize \in Nat \ {0}
  /\ GroupSize \in Nat \ {0}
  /\ GroupingX \in Nat
  /\ GroupingY \in Nat \ {0}
  /\ Spectra \subseteq [Bin -> Int]
  /\ Usable \subseteq Bin
  /\ StartLevel \in Int /\ StopLevel \in Int /\ StopLevel <= StartLevel
  /\ MinTime \in Nat
  /\ Timeout \in Nat \ {0}
  /\ MaxTime \in Nat \ {0}

\* age and silence: times since m_firstDataTime and m_lastDataTime; indexed: has
\* m_indexes an element.
Signal == [age : Nat, silence : Nat, indexed : BOOLEAN]

VARIABLES
  pc,       \* where process() is
  spectra,  \* the averager's buffers, the last spectrum at the end
  todo,     \* addSignals' indexes, less those its loop has passed
  signals,  \* m_signals, by the bin they were found at
  removed,  \* history: the signals clearSignals just removed, by bin: whether at
            \* the maximal time
  recorders \* the recorders, by bin, and what became of their signal

vars == <<pc, spectra, todo, signals, removed, slot, recorders>>

\* A list of transmissions, by bin: whether to flush them.
Lists == UNION {[S -> BOOLEAN] : S \in SUBSET Bin}

TypeOK ==
  /\ pc \in {"idle", "add", "clear", "notify", "crashed"}
  /\ spectra \in Seq(Spectra) /\ Len(spectra) <= GroupingY
  /\ todo \subseteq Bin
  /\ DOMAIN signals \subseteq Bin
  /\ \A k \in DOMAIN signals : signals[k] \in Signal
  /\ removed \in Lists
  /\ slot \in Lists \cup {NoValue}
  /\ DOMAIN recorders \subseteq Bin
  /\ \A k \in DOMAIN recorders : recorders[k] \in {"on", "cut", "ran on"}

Init ==
  /\ pc = "idle"
  /\ spectra = <<>>
  /\ todo = {}
  /\ signals = <<>>
  /\ removed = <<>>
  /\ NotificationInit
  /\ recorders = <<>>

-----------------------------------------------------------------------------
(* averages *)

Around(i, radius) == {j \in Bin : i - radius <= j /\ j <= i + radius}

\* The bins that count for a signal at i.
Window(i) == Around(i, GroupSize \div 2)

Averaged(i) == Around(i, GroupingX \div 2)

\* average() of the averager's average, times the number of powers in it.
Total(rows, i) ==
  SumFunction([n \in DOMAIN rows |-> SumFunctionOnSet(rows[n], Averaged(i))])

\* There is no average before the buffers are full.
Reaches(rows, i, level) ==
  /\ Len(rows) = GroupingY
  /\ level * GroupingY * Cardinality(Averaged(i)) <= Total(rows, i)

Stronger(i, j) ==
  Total(spectra, i) * Cardinality(Averaged(j)) > Total(spectra, j) * Cardinality(Averaged(i))

\* Fault: the oldest spectrum stays.
PushOnly(rows, s) == Append(rows, s)

Push(rows, s) ==
  IF Len(rows) < GroupingY THEN Append(rows, s) ELSE Append(Tail(rows), s)

-----------------------------------------------------------------------------
(* process() *)

\* The bins addSignals takes a look at.
Indexes(rows) == {i \in Usable : Reaches(rows, i, StartLevel)}

Process(s) ==
  /\ pc = "idle"
  /\ spectra' = Push(spectra, s)
  /\ todo' = Indexes(spectra')
  /\ removed' = <<>>
  /\ pc' = "add"
  /\ UNCHANGED <<signals, slot, recorders>>

\* Fault: the ends of the margin do not count.
MarginExclusive == (GroupSize + 1) \div 2 - 1

\* containsWithMargin
Margin == (GroupSize + 1) \div 2

\* Fault: the margin is not halved.
ContainedInGroup(i) == \E k \in DOMAIN signals : i - GroupSize <= k /\ k <= i + GroupSize

Contained(i) == \E k \in DOMAIN signals : i - Margin <= k /\ k <= i + Margin

\* getMaxIndex: the first of the strongest bins.
Peak(row, i) ==
  CHOOSE p \in Window(i) :
    \A j \in Window(i) : row[j] < row[p] \/ (row[j] = row[p] /\ p <= j)

\* getBestIndex: where the newer half of the spectra peaks, as far as they are
\* strong themselves.
Votes(i) ==
  {n \in GroupingY \div 2 + 1..GroupingY : StartLevel <= spectra[n][Peak(spectra[n], i)]}

VotesFor(i, p) == {n \in Votes(i) : Peak(spectra[n], i) = p}

\* mostFrequentValue: of several equally frequent it takes the one in the middle,
\* here any of them.
BestIndexes(i) ==
  {p \in Window(i) :
     /\ VotesFor(i, p) # {}
     /\ \A q \in Window(i) : Cardinality(VotesFor(i, q)) <= Cardinality(VotesFor(i, p))}

\* The loop takes the strongest first.
Strongest(i) == i \in todo /\ \A j \in todo : ~Stronger(j, i)

AddContained(i) ==
  /\ pc = "add"
  /\ Strongest(i)
  /\ Contained(i)
  /\ todo' = todo \ {i}
  /\ UNCHANGED <<pc, spectra, signals, removed, slot, recorders>>

AddSignal(i) ==
  /\ pc = "add"
  /\ Strongest(i)
  /\ ~Contained(i)
  /\ \E best \in BestIndexes(i) :
       signals' = IF best \in DOMAIN signals THEN signals
                  ELSE [k \in DOMAIN signals \cup {best} |->
                          IF k = best THEN [age |-> 0, silence |-> 0, indexed |-> FALSE]
                                      ELSE signals[k]]
  /\ todo' = todo \ {i}
  /\ UNCHANGED <<pc, spectra, removed, slot, recorders>>

\* Nothing votes: mostFrequentValue reads the first element of an empty vector.
AddUndefined(i) ==
  /\ pc = "add"
  /\ Strongest(i)
  /\ ~Contained(i)
  /\ Votes(i) = {}
  /\ pc' = "crashed"
  /\ UNCHANGED <<spectra, todo, signals, removed, slot, recorders>>

Hears(k, level) == \E j \in Window(k) : Reaches(spectra, j, level)

\* Fault: the power is that of the bin the signal was found at.
NewDataAtBin(k) ==
  [age     |-> signals[k].age,
   silence |-> IF Reaches(spectra, k, StopLevel) THEN 0 ELSE signals[k].silence,
   indexed |-> signals[k].indexed \/ Reaches(spectra, k, StartLevel)]

NewData(k) ==
  [age     |-> signals[k].age,
   silence |-> IF Hears(k, StopLevel) THEN 0 ELSE signals[k].silence,
   indexed |-> signals[k].indexed \/ Hears(k, StartLevel)]

UpdateSignals ==
  /\ pc = "add"
  /\ todo = {}
  /\ signals' = [k \in DOMAIN signals |-> NewData(k)]
  /\ pc' = "clear"
  /\ UNCHANGED <<spectra, todo, removed, slot, recorders>>

IsTimeout(k) == signals[k].silence >= Timeout
IsMaximalTime(k) == signals[k].age >= MaxTime

\* A removed signal is logged with its getIndex().
ClearSignals ==
  /\ pc = "clear"
  /\ removed' = [k \in {k \in DOMAIN signals : IsTimeout(k) \/ IsMaximalTime(k)} |->
                   IsMaximalTime(k)]
  /\ signals' = Restrict(signals, DOMAIN signals \ DOMAIN removed')
  /\ pc' = "notify"
  /\ UNCHANGED <<spectra, todo, slot, recorders>>

NeedFlush(k) == signals[k].silence = 0 /\ signals[k].age >= MinTime

\* From here on the lists are without the transmissions that took too long.
Cut ==
  recorders' = [k \in DOMAIN recorders |->
                  IF k \in DOMAIN removed /\ removed[k] THEN "cut" ELSE recorders[k]]

\* Fault: an empty list is not worth a notification.
NotifyWhenAny ==
  /\ pc = "notify"
  /\ IF signals = <<>> THEN UNCHANGED slot
                       ELSE Notify([k \in DOMAIN signals |-> NeedFlush(k)])
  /\ pc' = "idle"
  /\ Cut
  /\ UNCHANGED <<spectra, todo, signals, removed>>

NotifyTransmissions ==
  /\ pc = "notify"
  /\ Notify([k \in DOMAIN signals |-> NeedFlush(k)])
  /\ pc' = "idle"
  /\ Cut
  /\ UNCHANGED <<spectra, todo, signals, removed>>

Detector ==
  \/ \E s \in Spectra : Process(s)
  \/ \E i \in Bin : AddContained(i) \/ AddSignal(i) \/ AddUndefined(i)
  \/ UpdateSignals
  \/ ClearSignals
  \/ NotifyTransmissions

-----------------------------------------------------------------------------
(* the scanner's thread and the clock *)

\* updateRecordings(wait()) with enough recorders, see SdrDevice for the limit: what
\* is listed is recorded, by a new recorder or by the one its bin has.
Take ==
  /\ pc # "crashed"
  /\ \E list \in {slot} \ {NoValue} :
       /\ WaitFor(list)
       /\ recorders' = [k \in DOMAIN list |->
                          IF k \notin DOMAIN recorders THEN "on"
                          ELSE IF recorders[k] = "cut" THEN "ran on" ELSE recorders[k]]
  /\ UNCHANGED <<pc, spectra, todo, signals, removed>>

AtMost(n, limit) == IF n < limit THEN n ELSE limit

Tick ==
  /\ pc = "idle"
  /\ signals' = [k \in DOMAIN signals |->
                   [signals[k] EXCEPT !.age = AtMost(@ + 1, MaxTime + MinTime),
                                      !.silence = AtMost(@ + 1, Timeout)]]
  /\ UNCHANGED <<pc, spectra, todo, removed, slot, recorders>>

-----------------------------------------------------------------------------
Next == Detector \/ Take \/ Tick

Spec == Init /\ [][Next]_vars

\* The flow graph and the scanner's thread run, and time passes, if only between
\* two spectra.
FairSpec == Spec /\ WF_vars(Detector) /\ WF_vars(Take) /\ SF_vars(Tick)

-----------------------------------------------------------------------------
(* Properties *)

\* getIndex() is never asked of a signal without indexes: each has been strong in
\* its window once, though it sits at another bin than the one that was.
SignalsAreIndexed ==
  pc \in {"clear", "notify", "idle"} => \A k \in DOMAIN signals : signals[k].indexed

\* The best index insert() is called with is not the key of a signal, which insert()
\* would leave as it is: the margin about a bin makes up for the way to its best index.
\* It may well be the bin next to a signal.
NewSignalsAreNew ==
  pc = "add" =>
    \A i \in todo : ~Contained(i) => BestIndexes(i) \cap DOMAIN signals = {}

\* All that is strong on average is in the list, within the margin, save next to a
\* signal that was removed at this very moment.
StrongIsListed ==
  pc = "notify" =>
    \A i \in Usable : Reaches(spectra, i, StartLevel) =>
      \E k \in DOMAIN signals \cup DOMAIN removed : i - Margin <= k /\ k <= i + Margin

Silent == \A i \in Bin : ~Reaches(spectra, i, StopLevel)

\* When a band falls silent all its recorders end for good, whatever was overwritten in the
\* mailbox.
SilenceEndsRecorders ==
  <>[]Silent => <>[](pc = "crashed" \/ recorders = <<>>)

\* config.h:16, "break transmission if longer that": no recorder goes on with a
\* transmission that was cut.
LongTransmissionsAreBroken ==
  \A k \in DOMAIN recorders : recorders[k] # "ran on"

=============================================================================

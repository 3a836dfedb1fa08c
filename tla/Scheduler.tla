------------------------------ MODULE Scheduler ------------------------------
(***************************************************************************)
(* The schedule of one radio (radio/scheduler.cpp): the thread that asks   *)
(* the scheduling service for it once an interval, the callback that       *)
(* replaces it with the answer, and getRecordings, by which runScheduler   *)
(* (scanner.cpp) finds out, over and over, what to record at this moment.  *)
(*                                                                         *)
(* Times count from now: Tick moves them all one step closer, and what is  *)
(* past is -1.  The list is read and written under m_mutex, so each use of *)
(* it is one step.                                                         *)
(***************************************************************************)
EXTENDS Integers, Sequences, FiniteSets, Functions

CONSTANTS
  Frequency,  \* the frequencies of transmissions
  Bandwidth,  \* their bandwidths
  SampleRate, \* the bandwidth of the radio
  Shift,      \* SHIFT_FREQUENCY
  Horizon,    \* bound: the service plans no further ahead
  Lists,      \* the answers of the service, in times from when they arrive
  MaxAsked    \* bound: queries the service has still to answer

Time == -1..Horizon

Transmission == [begin : Time, end : Time, frequency : Frequency, bandwidth : Bandwidth]

\* The service lists transmissions by the time they begin.
Sorted(list) == \A i, j \in 1..Len(list) : i < j => list[i].begin <= list[j].begin

ASSUME SchedulerAssumption ==
  /\ Frequency \subseteq Int
  /\ Bandwidth \subseteq Nat
  /\ SampleRate \in Nat
  /\ Shift \in Int
  /\ Horizon \in Nat
  /\ Lists \subseteq Seq(Transmission)
  /\ \A list \in Lists : Sorted(list)
  /\ MaxAsked \in Nat \ {0}

VARIABLES
  transmissions,  \* m_scheduledTransmissions
  given,          \* history: the last answer, as a set
  updateDue,      \* m_lastUpdateTime + UPDATE_INTERVAL <= now
  refreshEnabled, \* m_isRefreshEnabled
  isRunning,      \* m_isRunning
  thread,         \* where the scheduler's thread is
  asked,          \* queries the service has still to answer
  client,         \* where runScheduler is
  queries         \* history: queries sent since refreshing was disabled

listVars == <<transmissions, given>>
threadVars == <<updateDue, thread, asked, queries>>
vars == <<listVars, threadVars, refreshEnabled, isRunning, client>>

TypeOK ==
  /\ transmissions \in Seq(Transmission)
  /\ given \subseteq Transmission
  /\ updateDue \in BOOLEAN
  /\ refreshEnabled \in BOOLEAN
  /\ isRunning \in BOOLEAN
  /\ thread \in {"check", "query", "done"}
  /\ asked \in 0..MaxAsked
  /\ client \in {"scan", "found", "serve", "leave", "gone"}
  /\ queries \in Nat

Init ==
  /\ transmissions = <<>>
  /\ given = {}
  /\ updateDue = FALSE
  /\ refreshEnabled = TRUE
  /\ isRunning = TRUE
  /\ thread = "check"
  /\ asked = 0
  /\ client = "scan"
  /\ queries = 0

-----------------------------------------------------------------------------
(* getTransmissions() and getRecordings() *)

Ended(t) == t.end < 0
Begun(t) == t.begin <= 0

\* Faults: nothing is dropped; what ended is dropped with all that is listed before.
DroppedNothing(list) == 0
DroppedThroughLastEnded(list) ==
  CHOOSE k \in 0..Len(list) :
    /\ k > 0 => Ended(list[k])
    /\ \A i \in k + 1..Len(list) : ~Ended(list[i])

\* The number of transmissions pop_front() takes away: those in front that ended.
Dropped(list) ==
  CHOOSE k \in 0..Len(list) :
    /\ \A i \in 1..k : Ended(list[i])
    /\ k < Len(list) => ~Ended(list[k + 1])

Remaining(list) == SubSeq(list, Dropped(list) + 1, Len(list))

\* Fault: the loop ends at one that is over.
ReachedOnAir(list) ==
  {i \in 1..Len(list) : \A j \in 1..i : Begun(list[j]) /\ ~Ended(list[j])}

\* The positions of the transmissions the loop reaches: those before the first
\* that has not begun.
Reached(list) == {i \in 1..Len(list) : \A j \in 1..i : Begun(list[j])}

Center(list) == list[1].frequency + Shift

Fits(t, center) ==
  /\ center - SampleRate \div 2 <= t.frequency - t.bandwidth \div 2
  /\ t.frequency + t.bandwidth \div 2 <= center + SampleRate \div 2

\* The transmissions to record now, the radio at the Center of what remains;
\* it is tuned there when one was reached, even if that does not fit.
Recordings(list) ==
  {list[i] : i \in {i \in Reached(list) : Fits(list[i], Center(list))}}

\* getRecordings() has something to record; it drops what it passed.
Poll(found) ==
  /\ found = (Reached(Remaining(transmissions)) # {})
  /\ transmissions' = Remaining(transmissions)
  /\ UNCHANGED given

-----------------------------------------------------------------------------
(* worker(): callback registered, it looks at the clock ten times a second *)

\* Fault: the query is sent during a scheduled recording too.
CheckUngated ==
  /\ thread = "check"
  /\ isRunning
  /\ updateDue
  /\ thread' = "query"
  /\ UNCHANGED <<listVars, updateDue, asked, queries, refreshEnabled, isRunning, client>>

Check ==
  /\ thread = "check"
  /\ isRunning
  /\ refreshEnabled /\ updateDue
  /\ thread' = "query"
  /\ UNCHANGED <<listVars, updateDue, asked, queries, refreshEnabled, isRunning, client>>

\* The query may be lost on its way: m_lastUpdateTime is set all the same.
Query ==
  /\ thread = "query"
  /\ \/ asked < MaxAsked /\ asked' = asked + 1
     \/ UNCHANGED asked
  /\ queries' = IF refreshEnabled THEN queries ELSE queries + 1
  /\ updateDue' = FALSE
  /\ thread' = "check"
  /\ UNCHANGED <<listVars, refreshEnabled, isRunning, client>>

Finish ==
  /\ thread = "check"
  /\ ~isRunning
  /\ thread' = "done"
  /\ UNCHANGED <<listVars, updateDue, asked, queries, refreshEnabled, isRunning, client>>

Thread == Check \/ Query \/ Finish

-----------------------------------------------------------------------------
(* the service, its answer in callback(), and the clock *)

Answer(list) ==
  /\ asked > 0
  /\ thread # "done"
  /\ asked' = asked - 1
  /\ transmissions' = list
  /\ given' = Range(list)
  /\ UNCHANGED <<updateDue, thread, queries, refreshEnabled, isRunning, client>>

Later(t) == [t EXCEPT !.begin = IF @ < 0 THEN @ ELSE @ - 1,
                      !.end   = IF @ < 0 THEN @ ELSE @ - 1]

Tick ==
  /\ transmissions' = [i \in 1..Len(transmissions) |-> Later(transmissions[i])]
  /\ given' = {Later(t) : t \in given}
  /\ UNCHANGED <<threadVars, refreshEnabled, isRunning, client>>

IntervalPasses ==
  /\ ~updateDue
  /\ updateDue' = TRUE
  /\ UNCHANGED <<listVars, thread, asked, queries, refreshEnabled, isRunning, client>>

-----------------------------------------------------------------------------
(* runScheduler(), in the hands of the scanner's thread *)

ScanPoll ==
  /\ client = "scan"
  /\ \E found \in BOOLEAN : Poll(found) /\ client' = IF found THEN "found" ELSE "scan"
  /\ UNCHANGED <<threadVars, refreshEnabled, isRunning>>

Disable ==
  /\ client = "found"
  /\ refreshEnabled' = FALSE
  /\ queries' = 0
  /\ client' = "serve"
  /\ UNCHANGED <<listVars, updateDue, thread, asked, isRunning>>

ServePoll ==
  /\ client = "serve"
  /\ \E found \in BOOLEAN : Poll(found) /\ client' = IF found THEN "serve" ELSE "leave"
  /\ UNCHANGED <<threadVars, refreshEnabled, isRunning>>

\* Fault: refreshing stays disabled.
EnableForgotten ==
  /\ client = "leave"
  /\ client' = "scan"
  /\ UNCHANGED <<listVars, threadVars, refreshEnabled, isRunning>>

Enable ==
  /\ client = "leave"
  /\ refreshEnabled' = TRUE
  /\ queries' = 0
  /\ client' = "scan"
  /\ UNCHANGED <<listVars, updateDue, thread, asked, isRunning>>

\* ~Scheduler(), once the scanner's thread was joined.
Stop ==
  /\ client = "scan"
  /\ isRunning' = FALSE
  /\ client' = "gone"
  /\ UNCHANGED <<listVars, threadVars, refreshEnabled>>

Client == ScanPoll \/ Disable \/ ServePoll \/ Enable

-----------------------------------------------------------------------------
Next ==
  \/ Thread
  \/ \E list \in Lists : Answer(list)
  \/ Tick
  \/ IntervalPasses
  \/ Client
  \/ Stop

Spec == Init /\ [][Next]_vars

(***************************************************************************)
(* Fairness: the two threads run and time passes.  The service owes no     *)
(* answer.                                                                 *)
(***************************************************************************)
FairSpec ==
  /\ Spec
  /\ WF_vars(Thread)
  /\ WF_vars(Client)
  /\ WF_vars(Tick)
  /\ WF_vars(IntervalPasses)

-----------------------------------------------------------------------------
(* Properties *)

\* getTransmissions() shortens the list for good; whatever the times of the calls
\* and of the answers, it never drops what has not ended.
NothingDueDropped ==
  \A t \in given : ~Ended(t) => t \in Range(transmissions)

\* The loop of getTransmissions() stops early, on a list it has cut short: yet all
\* that is on the air and fits the band is recorded, nothing is that has not
\* begun, and the radio is moved for a transmission on the air only.
RecordsWhatIsOnAir ==
  LET list == Remaining(transmissions)
      onAir == {t \in given : Begun(t) /\ ~Ended(t)}
  IN /\ onAir # {} <=> Reached(list) # {}
     /\ Reached(list) # {} =>
          /\ list[1] \in onAir
          /\ {t \in onAir : Fits(t, Center(list))} \subseteq Recordings(list)
          /\ \A t \in Recordings(list) :
               Begun(t) /\ t.frequency - Center(list) \in -(SampleRate \div 2)..(SampleRate \div 2)

\* While refreshing is disabled at most one query starts: that of a thread that read
\* the flag just before.  Answers to what was asked earlier may still come.
OneLateQuery == queries <= 1

\* A schedule gives the radio back: its transmissions end, overlapping or not, and
\* while they last the service is not asked for more.
ServingEnds == (client = "serve") ~> (client \in {"scan", "gone"})

\* Whenever the scanner is done with its recordings the service is asked again, and
\* again every interval.
AsksForEver ==
  <>[](client = "scan") => []<>(thread = "query")

=============================================================================

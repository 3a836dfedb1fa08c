-------------------------- MODULE ApplicationProofs --------------------------
(***************************************************************************)
(* Proofs about Application: whatever the hub sends, and whenever signals, *)
(* kills and failing saves come, the reload never loses a query.           *)
(***************************************************************************)
EXTENDS Application, TLAPS

\* Without a running Application there is no Mqtt thread, and each constructor
\* starts without callbacks.
Lifetime ==
  /\ main \in {"construct", "done", "dead"} => thread = "none"
  /\ main = "construct" => registered = 0
  /\ main = "register" => registered < 3

\* What the queries look like; only set has to do with the file.
Queries ==
  /\ query.kind = "reset" => query.config = None
  /\ query.kind = "set" => query.config # None
  /\ thread \in {"open", "write"} => query.kind = "set"

\* In the middle of a callback: what was saved is in the file, m_reload is raised before
\* m_tmpJson is written, and the history already has what Store will make true.
Underway ==
  /\ thread = "raise" /\ query.kind = "set" /\ ~spoiled => file = query.config
  /\ thread = "store" => reload
  /\ thread = "store" /\ ~spoiled =>
       asked = IF query.kind = "tmp" /\ query.config # None THEN query.config ELSE file

\* Between two callbacks the next constructor would read what was asked for.
NextIsAsked ==
  main # "dead" /\ thread \in {"none", "idle"} /\ ~spoiled => Configuration = asked

\* From its constructor on, an Application without a reload has what was asked for.
CurrentIsAsked ==
  main \in {"register", "run"} /\ thread = "idle" /\ ~reload /\ ~spoiled => running = asked

IInv ==
  /\ TypeOK
  /\ Lifetime
  /\ Queries
  /\ Underway
  /\ FileIsWhole
  /\ NextIsAsked
  /\ CurrentIsAsked

-----------------------------------------------------------------------------
LEMMA InitInv == Init => IInv
<1> SUFFICES ASSUME Init PROVE IInv
  OBVIOUS
<1>1. TypeOK
  <2>1. query \in Query
    BY DEF Init, Query
  <2>2. isRunning \in BOOLEAN /\ reload \in BOOLEAN /\ spoiled \in BOOLEAN
    BY DEF Init
  <2>3. /\ file \in Configs /\ asked \in Configs
        /\ tmp \in {None} /\ running \in {None}
    BY ApplicationAssumption DEF ApplicationAssumption, Init
  <2>4. registered \in 0..3 /\ starts \in Nat
    BY DEF Init
  <2>5. main \in {"construct"} /\ thread \in {"none"}
    BY DEF Init
  <2> QED
    BY <2>1, <2>2, <2>3, <2>4, <2>5 DEF TypeOK
<1>2. Lifetime /\ Queries /\ Underway
  BY DEF Init, Lifetime, Queries, Underway
<1>3. FileIsWhole
  BY ApplicationAssumption DEF ApplicationAssumption, Init, FileIsWhole
<1>4. NextIsAsked /\ CurrentIsAsked
  BY DEF Init, NextIsAsked, CurrentIsAsked, Configuration
<1> QED
  BY <1>1, <1>2, <1>3, <1>4 DEF IInv

\* main's steps: a constructor reads what was asked for, and no callback is under way
\* when the Mqtt thread is gone.
LEMMA MainInv == IInv /\ Main => IInv'
<1> SUFFICES ASSUME IInv, Main PROVE IInv'
  OBVIOUS
<1> USE ApplicationAssumption
        DEF ApplicationAssumption, IInv, TypeOK, Lifetime, Queries, Underway, FileIsWhole,
            NextIsAsked, CurrentIsAsked, Configuration, diskVars
<1>1. CASE Construct
  <2>1. TypeOK'
    BY <1>1 DEF Construct
  <2>2. Lifetime' /\ Queries' /\ Underway'
    BY <1>1 DEF Construct
  <2>3. FileIsWhole'
    BY <1>1 DEF Construct
  <2>4. NextIsAsked'
    BY <1>1 DEF Construct
  <2>5. CurrentIsAsked'
    BY <1>1 DEF Construct
  <2> QED
    BY <2>1, <2>2, <2>3, <2>4, <2>5
<1>2. CASE Register
  BY <1>2 DEF Register
<1>3. CASE Leave
  BY <1>3 DEF Leave
<1>4. CASE DestroyScanners
  BY <1>4 DEF DestroyScanners
<1>5. CASE Join
  BY <1>5 DEF Join
<1> QED
  BY <1>1, <1>2, <1>3, <1>4, <1>5 DEF Main

\* A query begins: only its shape matters.
LEMMA ReceiveInv == ASSUME NEW q \in Query, IInv, Receive(q) PROVE IInv'
BY ApplicationAssumption
   DEF ApplicationAssumption, IInv, TypeOK, Lifetime, Queries, Underway, FileIsWhole,
       NextIsAsked, CurrentIsAsked, Configuration, Query, Receive, mainVars, diskVars

\* The steps of a callback: saving, m_reload, m_tmpJson.
LEMMA CallbackInv == IInv /\ Callback => IInv'
<1> SUFFICES ASSUME IInv, Callback PROVE IInv'
  OBVIOUS
<1> USE ApplicationAssumption
        DEF ApplicationAssumption, IInv, TypeOK, Lifetime, Queries, Underway, FileIsWhole,
            NextIsAsked, CurrentIsAsked, Configuration, Query, mainVars, diskVars
<1>1. CASE Open
  BY <1>1, ZenonT(30) DEF Open
<1>2. CASE Write
  BY <1>2 DEF Write
<1>3. CASE Raise
  BY <1>3 DEF Raise
<1>4. CASE Store
  BY <1>4 DEF Store
<1> QED
  BY <1>1, <1>2, <1>3, <1>4 DEF Callback

\* The steps from outside: a signal changes a flag only, a kill forgets the callback, and
\* a start forgets the temporary configuration.
LEMMA OutsideInv == IInv /\ (Handler \/ Killed \/ Started) => IInv'
<1> SUFFICES ASSUME IInv, Handler \/ Killed \/ Started PROVE IInv'
  OBVIOUS
<1> USE ApplicationAssumption
        DEF ApplicationAssumption, IInv, TypeOK, Lifetime, Queries, Underway, FileIsWhole,
            NextIsAsked, CurrentIsAsked, Configuration, diskVars
<1>1. CASE Handler
  <2>1. TypeOK'
    BY <1>1, ZenonT(30) DEF Handler
  <2>2. Lifetime' /\ Queries' /\ Underway'
    BY <1>1 DEF Handler
  <2>3. FileIsWhole' /\ NextIsAsked' /\ CurrentIsAsked'
    BY <1>1 DEF Handler
  <2> QED
    BY <2>1, <2>2, <2>3
<1>2. CASE Killed
  <2>1. TypeOK'
    BY <1>2 DEF Killed
  <2>2. Lifetime' /\ Queries' /\ Underway'
    BY <1>2 DEF Killed
  <2>3. FileIsWhole'
    BY <1>2 DEF Killed
  <2>4. NextIsAsked'
    BY <1>2 DEF Killed
  <2>5. CurrentIsAsked'
    BY <1>2 DEF Killed
  <2> QED
    BY <2>1, <2>2, <2>3, <2>4, <2>5
<1>3. CASE Started
  <2>1. TypeOK'
    <3>1. starts' \in Nat /\ registered' \in 0..3
      BY <1>3 DEF Started
    <3>2. /\ isRunning' \in BOOLEAN /\ reload' \in BOOLEAN /\ spoiled' \in BOOLEAN
          /\ main' \in {"construct"}
      BY <1>3 DEF Started
    <3>3. /\ file' \in Configs \cup {Part} /\ asked' \in Configs \cup {Part}
          /\ tmp' \in {None} /\ running' \in {None}
      BY <1>3 DEF Started
    <3>4. query' \in Query /\ thread' = thread
      BY <1>3 DEF Started
    <3> QED
      BY <3>1, <3>2, <3>3, <3>4
  <2>2. Lifetime' /\ Queries' /\ Underway'
    BY <1>3 DEF Started
  <2>3. FileIsWhole'
    BY <1>3 DEF Started
  <2>4. NextIsAsked'
    BY <1>3 DEF Started
  <2>5. CurrentIsAsked'
    BY <1>3 DEF Started
  <2> QED
    BY <2>1, <2>2, <2>3, <2>4, <2>5
<1> QED
  BY <1>1, <1>2, <1>3

LEMMA StutterInv == IInv /\ UNCHANGED vars => IInv'
BY DEF vars, mainVars, diskVars, IInv, TypeOK, Lifetime, Queries, Underway, FileIsWhole,
       NextIsAsked, CurrentIsAsked, Configuration

\* The inductive invariant (application.cpp:37-67 against main.cpp:47-52).
THEOREM ApplicationInvariant == Spec => []IInv
<1>1. IInv /\ [Next]_vars => IInv'
  <2> SUFFICES ASSUME IInv, [Next]_vars PROVE IInv'
    OBVIOUS
  <2>1. CASE Main
    BY <2>1, MainInv
  <2>2. CASE \E q \in Query : Receive(q)
    BY <2>2, ReceiveInv
  <2>3. CASE Callback
    BY <2>3, CallbackInv
  <2>4. CASE Handler \/ Killed \/ Started
    BY <2>4, OutsideInv
  <2>5. CASE UNCHANGED vars
    BY <2>5, StutterInv
  <2> QED
    BY <2>1, <2>2, <2>3, <2>4, <2>5 DEF Next
<1> QED
  BY InitInv, <1>1, PTL DEF Spec

-----------------------------------------------------------------------------
\* Every reachable state of main, the Application and its callbacks is well typed.
THEOREM TypeCorrect == Spec => []TypeOK
<1>1. IInv => TypeOK
  BY DEF IInv
<1> QED
  BY <1>1, ApplicationInvariant, PTL

\* For any configurations, queries and kills: an Application that runs with nothing under
\* way has the configuration the last query was about, though its callbacks raise
\* m_reload before they write m_tmpJson (application.cpp:41-42, 52-53, 60-61).
THEOREM ReloadLosesNothing == Spec => []RunsWhatWasAsked
<1>1. IInv => RunsWhatWasAsked
  BY DEF IInv, CurrentIsAsked, RunsWhatWasAsked
<1> QED
  BY <1>1, ApplicationInvariant, PTL

\* Neither a reload nor a signal leaves half a configuration file (file_utils.cpp:18-23):
\* the Mqtt thread is waited for in the middle of a save.
THEOREM FileStaysWhole == Spec => []FileIsWhole
<1>1. IInv => FileIsWhole
  BY DEF IInv
<1> QED
  BY <1>1, ApplicationInvariant, PTL

=============================================================================

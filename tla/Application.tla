----------------------------- MODULE Application -----------------------------
(***************************************************************************)
(* The life of the process (main.cpp, application.cpp): main constructs an *)
(* Application with a configuration, and a new one whenever a query of the *)
(* hub changed the configuration, until a signal stops it.  The queries    *)
(* are callbacks on the thread of the Application's own Mqtt: it is there  *)
(* from the constructor's start to the destructor's end.                   *)
(*                                                                         *)
(* set saves a configuration to the file, tmp only passes it to the next   *)
(* Application, reset goes back to the file; the query for the             *)
(* configuration changes nothing and is left out.  The process may be      *)
(* killed at any time and started again.                                   *)
(***************************************************************************)
EXTENDS Naturals

CONSTANTS
  Configs,  \* the configurations the hub sends
  Valid,    \* those FileConfig::fromJson takes
  None,     \* the empty JSON: no temporary configuration
  Part,     \* the content of a file that was opened and not yet written
  MaxStarts \* bound: how often the process is started

ASSUME ApplicationAssumption ==
  /\ Valid \subseteq Configs
  /\ None \notin Configs
  /\ Part \notin Configs
  /\ MaxStarts \in Nat

VARIABLES
  main,       \* where main() is, "done" after its end, "dead" when killed
  isRunning,  \* main.cpp's isRunning
  file,       \* the content of the configuration file
  tmp,        \* main's tmpJson
  running,    \* the configuration of the Application
  reload,     \* its m_reload
  registered, \* how many of its Callbacks are registered
  thread,     \* where the Mqtt thread is in a callback, "none" without a thread
  query,      \* the query of that callback
  starts,     \* how often the process was started
  asked,      \* history: the configuration the last query is about
  spoiled     \* history: the last save failed, or the process was killed in it

mainVars == <<main, isRunning, running, registered, starts>>
diskVars == <<file, spoiled>>
vars == <<mainVars, diskVars, tmp, reload, thread, query, asked>>

Callbacks == <<"set", "reset", "tmp">>

Query == [kind : {"set", "reset", "tmp"}, config : Configs \cup {None}]

TypeOK ==
  /\ main \in {"construct", "register", "run", "destroy", "join", "done", "dead"}
  /\ isRunning \in BOOLEAN
  /\ file \in Configs \cup {Part}
  /\ tmp \in Configs \cup {None}
  /\ running \in Configs \cup {None}
  /\ reload \in BOOLEAN
  /\ registered \in 0..3
  /\ thread \in {"none", "idle", "open", "write", "raise", "store"}
  /\ query \in Query
  /\ starts \in Nat
  /\ asked \in Configs \cup {Part}
  /\ spoiled \in BOOLEAN

Init ==
  /\ main = "construct"
  /\ isRunning = TRUE
  /\ file \in Valid
  /\ tmp = None
  /\ running = None
  /\ reload = FALSE
  /\ registered = 0
  /\ thread = "none"
  /\ query = [kind |-> "reset", config |-> None]
  /\ starts = 1
  /\ asked = file
  /\ spoiled = FALSE

-----------------------------------------------------------------------------
(* main() *)

\* readFromFile: half a file throws parse_error, which is no std::runtime_error and
\* is caught by main alone.
Configuration == IF tmp = None THEN file ELSE tmp

\* Fault: m_reload keeps its value.
ConstructKeepingReload ==
  /\ main = "construct"
  /\ IF Configuration \in Valid
       THEN main' = "register" /\ running' = Configuration /\ thread' = "idle"
       ELSE main' = "done" /\ UNCHANGED <<running, thread>>
  /\ UNCHANGED <<isRunning, registered, starts, diskVars, tmp, reload, query, asked>>

Construct ==
  /\ main = "construct"
  /\ IF Configuration \in Valid
       THEN main' = "register" /\ running' = Configuration /\ reload' = FALSE /\ thread' = "idle"
       ELSE main' = "done" /\ UNCHANGED <<running, reload, thread>>
  /\ UNCHANGED <<isRunning, registered, starts, diskVars, tmp, query, asked>>

\* The rest of the constructor; before it, a query is dropped.
Register ==
  /\ main = "register"
  /\ registered' = registered + 1
  /\ main' = IF registered' = 3 THEN "run" ELSE "register"
  /\ UNCHANGED <<isRunning, running, starts, diskVars, tmp, reload, thread, query, asked>>

\* Fault: main only looks at m_reload.
LeaveOnReload ==
  /\ main = "run"
  /\ reload
  /\ main' = "destroy"
  /\ UNCHANGED <<isRunning, running, registered, starts, diskVars, tmp, reload, thread, query,
                 asked>>

Leave ==
  /\ main = "run"
  /\ ~isRunning \/ reload
  /\ main' = "destroy"
  /\ UNCHANGED <<isRunning, running, registered, starts, diskVars, tmp, reload, thread, query,
                 asked>>

\* ~Application: the scanners first, and Mqtt after them.
DestroyScanners ==
  /\ main = "destroy"
  /\ main' = "join"
  /\ UNCHANGED <<isRunning, running, registered, starts, diskVars, tmp, reload, thread, query,
                 asked>>

\* Fault: the thread is not waited for.
JoinSkipped ==
  /\ main = "join"
  /\ thread' = "none"
  /\ registered' = 0
  /\ main' = IF isRunning THEN "construct" ELSE "done"
  /\ UNCHANGED <<isRunning, running, starts, diskVars, tmp, reload, query, asked>>

\* Fault: the callbacks stay registered.
JoinKeepingCallbacks ==
  /\ main = "join"
  /\ thread = "idle"
  /\ thread' = "none"
  /\ main' = IF isRunning THEN "construct" ELSE "done"
  /\ UNCHANGED <<isRunning, running, registered, starts, diskVars, tmp, reload, query, asked>>

Join ==
  /\ main = "join"
  /\ thread = "idle"
  /\ thread' = "none"
  /\ registered' = 0
  /\ main' = IF isRunning THEN "construct" ELSE "done"
  /\ UNCHANGED <<isRunning, running, starts, diskVars, tmp, reload, query, asked>>

Main == Construct \/ Register \/ Leave \/ DestroyScanners \/ Join

-----------------------------------------------------------------------------
(* the callbacks *)

\* For a set whose JSON lacks what toSave sorts nothing happens at all: nlohmann's
\* exceptions end the callback before the file is opened.  An empty temporary
\* configuration acts as a reset.
Receive(q) ==
  /\ thread = "idle"
  /\ \E k \in 1..registered : Callbacks[k] = q.kind
  /\ q.kind = "reset" => q.config = None
  /\ q.kind = "set" => q.config # None
  /\ query' = q
  /\ thread' = IF q.kind = "set" THEN "open" ELSE "raise"
  /\ UNCHANGED <<mainVars, diskVars, tmp, reload, asked>>

\* saveToFile: opening empties the file; what fails, fails silently.
Open ==
  /\ thread = "open"
  /\ \/ file' = Part /\ thread' = "write" /\ UNCHANGED spoiled
     \/ spoiled' = TRUE /\ thread' = "raise" /\ UNCHANGED file
  /\ UNCHANGED <<mainVars, tmp, reload, query, asked>>

Write ==
  /\ thread = "write"
  /\ \/ file' = query.config /\ spoiled' = FALSE
     \/ spoiled' = TRUE /\ UNCHANGED file
  /\ thread' = "raise"
  /\ UNCHANGED <<mainVars, tmp, reload, query, asked>>

\* m_reload comes first.
Raise ==
  /\ thread = "raise"
  /\ reload' = TRUE
  /\ asked' = IF query.config = None THEN file ELSE query.config
  /\ thread' = "store"
  /\ UNCHANGED <<mainVars, diskVars, tmp, query>>

\* m_tmpJson second, then the answer.
Store ==
  /\ thread = "store"
  /\ tmp' = IF query.kind = "tmp" THEN query.config ELSE None
  /\ thread' = "idle"
  /\ UNCHANGED <<mainVars, diskVars, reload, query, asked>>

Callback == Open \/ Write \/ Raise \/ Store

-----------------------------------------------------------------------------
(* signals, and the end and the start of the process *)

\* Fault: the handler ends the process.
HandlerExits ==
  /\ main \notin {"done", "dead"}
  /\ isRunning
  /\ isRunning' = FALSE
  /\ main' = "done"
  /\ thread' = "none"
  /\ UNCHANGED <<running, registered, starts, diskVars, tmp, reload, query, asked>>

Handler ==
  /\ main \notin {"done", "dead"}
  /\ isRunning
  /\ isRunning' = FALSE
  /\ UNCHANGED <<main, running, registered, starts, diskVars, tmp, reload, thread, query, asked>>

Killed ==
  /\ main \notin {"done", "dead"}
  /\ main' = "dead"
  /\ thread' = "none"
  /\ spoiled' = (spoiled \/ thread = "write")
  /\ UNCHANGED <<isRunning, running, registered, starts, file, tmp, reload, query, asked>>

Started ==
  /\ main \in {"done", "dead"}
  /\ starts < MaxStarts
  /\ starts' = starts + 1
  /\ main' = "construct"
  /\ isRunning' = TRUE
  /\ running' = None
  /\ tmp' = None
  /\ reload' = FALSE
  /\ registered' = 0
  /\ asked' = file
  /\ spoiled' = (file = Part)
  /\ UNCHANGED <<file, thread, query>>

-----------------------------------------------------------------------------
Next ==
  \/ Main
  \/ \E q \in Query : Receive(q)
  \/ Callback
  \/ Handler
  \/ Killed
  \/ Started

Spec == Init /\ [][Next]_vars

\* main and the Mqtt thread run.
FairSpec == Spec /\ WF_vars(Main) /\ WF_vars(Callback)

-----------------------------------------------------------------------------
(* Properties *)

\* Whenever an Application has started and nothing is under way it runs what the last
\* query asked for: no step of the callback comes too late for the next
\* constructor, though it raises m_reload before it is done.
RunsWhatWasAsked ==
  main = "run" /\ thread = "idle" /\ ~reload /\ ~spoiled => running = asked

\* Neither a reload nor a signal leaves half a configuration file behind, at whatever
\* point of saving they come: only a kill or a full disk do.
FileIsWhole == file = Part => thread = "write" \/ spoiled

Quiet == thread \in {"none", "idle"}

\* When the hub asks for nothing more, the last configuration comes to run and stays,
\* unless the process ends.
Settles ==
  <>[]Quiet =>
    <>[](main \in {"done", "dead"} \/ (main = "run" /\ (running = asked \/ spoiled)))

\* A signal ends the process in every state of construction, reload and shutdown.
SignalEnds ==
  <>[]Quiet => (~isRunning ~> main \in {"done", "dead"})

=============================================================================

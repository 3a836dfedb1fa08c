-------------------------------- MODULE Mqtt --------------------------------
(***************************************************************************)
(* The connection to the broker (network/mqtt.cpp): the thread that        *)
(* connects, receives and publishes; the other threads of the process,     *)
(* which queue messages and subscribe to topics at any time, connected or  *)
(* not; the destructor; and the network.                                   *)
(*                                                                         *)
(* mutex-protected sections are single steps.  The client library throws   *)
(* when it is used on a dropped connection, and outside of connect()       *)
(* nothing catches that: the process dies (crashed).                       *)
(***************************************************************************)
EXTENDS Naturals, Sequences

CONSTANTS
  Topics,       \* the topics the process subscribes to, each once
  Messages,     \* what the process publishes
  QueueMaxSize, \* QUEUE_MAX_SIZE
  MaxInbox,     \* bound: messages received and not yet consumed
  MaxAccepted   \* bound: messages ever accepted

ASSUME MqttAssumption ==
  /\ QueueMaxSize \in Nat \ {0}
  /\ MaxInbox \in Nat
  /\ MaxAccepted \in Nat

VARIABLES
  pc,            \* where the thread is
  connected,     \* m_client.is_connected()
  session,       \* the topics the broker has for this connection
  topics,        \* m_topics
  waitingTopics, \* m_waitingTopics
  registration,  \* of each topic: "new", "subscribed", or with its "callback"
  inbox,         \* received messages, by topic, the client library holds
  messages,      \* m_messages
  accepted,      \* history: every message put in the queue
  published,     \* history: every message handed to the broker
  isRunning,     \* m_isRunning
  stopper,       \* the thread that runs the destructor
  crashed        \* an exception nobody catches ended the process

topicVars == <<session, topics, waitingTopics, registration>>
queueVars == <<messages, accepted, published>>
stopVars == <<isRunning, stopper>>
vars == <<pc, connected, topicVars, inbox, queueVars, stopVars, crashed>>

ThreadPC == {"connect", "onConnected", "loop", "consume", "drain", "publish", "pop", "done"}

TypeOK ==
  /\ pc \in ThreadPC
  /\ connected \in BOOLEAN
  /\ session \subseteq Topics
  /\ topics \subseteq Topics
  /\ waitingTopics \subseteq Topics
  /\ registration \in [Topics -> {"new", "subscribed", "callback"}]
  /\ inbox \in Seq(Topics)
  /\ messages \in Seq(Messages)
  /\ accepted \in Seq(Messages)
  /\ published \in Seq(Messages)
  /\ isRunning \in BOOLEAN
  /\ stopper \in {"up", "join", "joined"}
  /\ crashed \in BOOLEAN

Init ==
  /\ pc = "connect"
  /\ connected = FALSE
  /\ session = {}
  /\ topics = {}
  /\ waitingTopics = {}
  /\ registration = [t \in Topics |-> "new"]
  /\ inbox = <<>>
  /\ messages = <<>>
  /\ accepted = <<>>
  /\ published = <<>>
  /\ isRunning = TRUE
  /\ stopper = "up"
  /\ crashed = FALSE

Throw == crashed' = TRUE

-----------------------------------------------------------------------------
(* publish(): the three overloads queue alike and drop what does not fit *)

\* Faults: a full queue gives up its oldest message; the bound is off by one.
EnqueueOverwriting(m) ==
  /\ Len(accepted) < MaxAccepted
  /\ messages' = Append(IF Len(messages) < QueueMaxSize THEN messages ELSE Tail(messages), m)
  /\ accepted' = Append(accepted, m)
  /\ UNCHANGED published

EnqueueOverLimit(m) ==
  /\ Len(accepted) < MaxAccepted
  /\ IF Len(messages) <= QueueMaxSize
       THEN messages' = Append(messages, m) /\ accepted' = Append(accepted, m)
       ELSE UNCHANGED <<messages, accepted>>
  /\ UNCHANGED published

Enqueue(m) ==
  /\ Len(accepted) < MaxAccepted
  /\ IF Len(messages) < QueueMaxSize
       THEN messages' = Append(messages, m) /\ accepted' = Append(accepted, m)
       ELSE UNCHANGED <<messages, accepted>>
  /\ UNCHANGED published

Publish(m) ==
  /\ ~crashed
  /\ stopper = "up"
  /\ Enqueue(m)
  /\ UNCHANGED <<pc, connected, topicVars, inbox, stopVars, crashed>>

-----------------------------------------------------------------------------
(* setRawMessageCallback() and setJsonMessageCallback() *)

\* subscribe(): now if connected, else when onConnected comes round.
Subscribe(t) ==
  /\ ~crashed
  /\ stopper = "up"
  /\ registration[t] = "new"
  /\ registration' = [registration EXCEPT ![t] = "subscribed"]
  /\ IF connected
       THEN /\ session' = session \cup {t}
            /\ topics' = topics \cup {t}
            /\ UNCHANGED waitingTopics
       ELSE /\ waitingTopics' = waitingTopics \cup {t}
            /\ UNCHANGED <<session, topics>>
  /\ UNCHANGED <<pc, connected, inbox, queueVars, stopVars, crashed>>

\* The connection drops between is_connected() and the subscription.
SubscribeThrows(t) ==
  /\ ~crashed
  /\ stopper = "up"
  /\ registration[t] = "new"
  /\ connected
  /\ connected' = FALSE
  /\ session' = {}
  /\ Throw
  /\ UNCHANGED <<pc, topics, waitingTopics, registration, inbox, queueVars, stopVars>>

EmplaceCallback(t) ==
  /\ ~crashed
  /\ registration[t] = "subscribed"
  /\ registration' = [registration EXCEPT ![t] = "callback"]
  /\ UNCHANGED <<pc, connected, session, topics, waitingTopics, inbox, queueVars,
                 stopVars, crashed>>

-----------------------------------------------------------------------------
(* the thread *)

\* connect() up to is_connected(), with a clean session; a failure is logged.
Connect ==
  /\ ~crashed
  /\ pc = "connect"
  /\ \/ connected' = TRUE /\ session' = {} /\ pc' = "onConnected"
     \/ UNCHANGED <<connected, session>> /\ pc' = "loop"
  /\ UNCHANGED <<topics, waitingTopics, registration, inbox, queueVars, stopVars, crashed>>

\* Fault: a new session is only given the topics that waited for it.
OnConnectedWaitingOnly ==
  /\ ~crashed
  /\ pc = "onConnected"
  /\ connected
  /\ session' = session \cup waitingTopics
  /\ topics' = topics \cup waitingTopics
  /\ waitingTopics' = {}
  /\ pc' = "loop"
  /\ UNCHANGED <<connected, registration, inbox, queueVars, stopVars, crashed>>

OnConnected ==
  /\ ~crashed
  /\ pc = "onConnected"
  /\ connected
  /\ session' = session \cup topics \cup waitingTopics
  /\ topics' = topics \cup waitingTopics
  /\ waitingTopics' = {}
  /\ pc' = "loop"
  /\ UNCHANGED <<connected, registration, inbox, queueVars, stopVars, crashed>>

OnConnectedDropped ==
  /\ ~crashed
  /\ pc = "onConnected"
  /\ ~connected
  /\ IF topics \cup waitingTopics # {} THEN Throw ELSE UNCHANGED crashed
  /\ pc' = "loop"
  /\ UNCHANGED <<connected, topicVars, inbox, queueVars, stopVars>>

\* Faults: the thread leaves reconnecting to the library, told not to
\* (mqtt.cpp:97); it does not look at isRunning.
LoopPassive ==
  /\ ~crashed
  /\ pc = "loop"
  /\ pc' = IF ~isRunning THEN "done" ELSE IF connected THEN "consume" ELSE "loop"
  /\ UNCHANGED <<connected, topicVars, inbox, queueVars, stopVars, crashed>>

LoopForEver ==
  /\ ~crashed
  /\ pc = "loop"
  /\ pc' = IF connected THEN "consume" ELSE "connect"
  /\ UNCHANGED <<connected, topicVars, inbox, queueVars, stopVars, crashed>>

\* The head of the loop: reconnecting is its other branch, until it succeeds.
Loop ==
  /\ ~crashed
  /\ pc = "loop"
  /\ pc' = IF ~isRunning THEN "done" ELSE IF connected THEN "consume" ELSE "connect"
  /\ UNCHANGED <<connected, topicVars, inbox, queueVars, stopVars, crashed>>

\* A topic without callback is ignored; a callback may answer.
OnMessage(t) ==
  \/ registration[t] = "callback" /\ \E m \in Messages : Enqueue(m)
  \/ UNCHANGED queueVars

Consume ==
  /\ ~crashed
  /\ pc = "consume"
  /\ inbox # <<>>
  /\ inbox' = Tail(inbox)
  /\ OnMessage(Head(inbox))
  /\ UNCHANGED <<pc, connected, topicVars, stopVars, crashed>>

\* Nothing came for LOOP_TIMEOUT, or the library says that the connection is lost.
ConsumeNothing ==
  /\ ~crashed
  /\ pc = "consume"
  /\ inbox = <<>> \/ ~connected
  /\ pc' = "drain"
  /\ UNCHANGED <<connected, topicVars, inbox, queueVars, stopVars, crashed>>

\* Fault: the last message stays behind.
DrainButOne ==
  /\ ~crashed
  /\ pc = "drain"
  /\ pc' = IF isRunning /\ Len(messages) > 1 THEN "publish" ELSE "loop"
  /\ UNCHANGED <<connected, topicVars, inbox, queueVars, stopVars, crashed>>

Drain ==
  /\ ~crashed
  /\ pc = "drain"
  /\ pc' = IF isRunning /\ messages # <<>> THEN "publish" ELSE "loop"
  /\ UNCHANGED <<connected, topicVars, inbox, queueVars, stopVars, crashed>>

PublishFront ==
  /\ ~crashed
  /\ pc = "publish"
  /\ IF connected
       THEN published' = Append(published, Head(messages)) /\ pc' = "pop" /\ UNCHANGED crashed
       ELSE Throw /\ UNCHANGED <<published, pc>>
  /\ UNCHANGED <<connected, topicVars, inbox, messages, accepted, stopVars>>

\* Fault: the queue is popped at the end where publish() pushes.
PopNewest ==
  /\ ~crashed
  /\ pc = "pop"
  /\ messages' = SubSeq(messages, 1, Len(messages) - 1)
  /\ pc' = "drain"
  /\ UNCHANGED <<connected, topicVars, inbox, accepted, published, stopVars, crashed>>

Pop ==
  /\ ~crashed
  /\ pc = "pop"
  /\ messages' = Tail(messages)
  /\ pc' = "drain"
  /\ UNCHANGED <<connected, topicVars, inbox, accepted, published, stopVars, crashed>>

Thread ==
  Connect \/ OnConnected \/ OnConnectedDropped \/ Loop \/ Consume \/ ConsumeNothing
    \/ Drain \/ PublishFront \/ Pop

-----------------------------------------------------------------------------
(* ~Mqtt() *)

Stop ==
  /\ ~crashed
  /\ stopper = "up"
  /\ isRunning' = FALSE
  /\ stopper' = "join"
  /\ UNCHANGED <<pc, connected, topicVars, inbox, queueVars, crashed>>

Join ==
  /\ ~crashed
  /\ stopper = "join"
  /\ pc = "done"
  /\ stopper' = "joined"
  /\ connected' = FALSE
  /\ session' = {}
  /\ UNCHANGED <<pc, topics, waitingTopics, registration, inbox, queueVars, isRunning, crashed>>

-----------------------------------------------------------------------------
(* the network *)

ConnectionDrops ==
  /\ ~crashed
  /\ connected
  /\ connected' = FALSE
  /\ session' = {}
  /\ UNCHANGED <<pc, topics, waitingTopics, registration, inbox, queueVars, stopVars, crashed>>

MessageArrives(t) ==
  /\ ~crashed
  /\ connected
  /\ t \in session
  /\ Len(inbox) < MaxInbox
  /\ inbox' = Append(inbox, t)
  /\ UNCHANGED <<pc, connected, topicVars, queueVars, stopVars, crashed>>

-----------------------------------------------------------------------------
Others ==
  \/ \E m \in Messages : Publish(m)
  \/ \E t \in Topics : Subscribe(t) \/ SubscribeThrows(t) \/ EmplaceCallback(t)
  \/ Stop
  \/ Join

Network == ConnectionDrops \/ \E t \in Topics : MessageArrives(t)

Next == Thread \/ Others \/ Network

Spec == Init /\ [][Next]_vars

(***************************************************************************)
(* Fairness: the thread runs, the destructor ends once the thread has, and *)
(* of many attempts to connect one succeeds.                               *)
(***************************************************************************)
FairSpec ==
  /\ Spec
  /\ WF_vars(Thread)
  /\ SF_vars(Connect /\ connected')
  /\ WF_vars(Join)

-----------------------------------------------------------------------------
(* Properties *)

Serving == pc \in {"loop", "consume", "drain", "publish", "pop"}

\* No topic is forgotten, whenever other threads subscribe and however often the
\* connection drops: while the thread serves a connection the broker has them all.
AllTopicsSubscribed ==
  connected /\ Serving =>
    \A t \in Topics : registration[t] # "new" => t \in session

\* The front of the queue is published before it is popped, by a thread that
\* reads it without the lock: even so nothing is lost, doubled or reordered.
NothingLostOrDoubled ==
  accepted = published \o (IF pc = "pop" THEN Tail(messages) ELSE messages)

\* The queue is bounded for any rate of spectrograms and any outage.
QueueBounded == Len(messages) <= QueueMaxSize

\* To its callers the queue is a first-in first-out channel.
Out == INSTANCE OutQueue WITH Messages <- Messages, accepted <- accepted, published <- published
ActsAsQueue == Out!Spec

\* No more drops, no more incoming messages, nobody stops it.
Calm == connected /\ inbox = <<>> /\ isRunning /\ ~crashed

\* Once the network is calm all that was accepted goes out, in outages too.
EverythingGoesOut ==
  <>[]Calm => \A k \in 1..MaxAccepted : (Len(accepted) >= k) ~> (Len(published) >= k)

\* An outage ends, unless it killed the process or that was told to stop.
Recovers == ~connected ~> (connected \/ ~isRunning \/ crashed)

\* The destructor returns, connected or not, with a full queue or an empty one,
\* provided that messages stop coming in.
StopEnds ==
  <>[](inbox = <<>>) => ((stopper = "join") ~> (stopper = "joined" \/ crashed))

=============================================================================

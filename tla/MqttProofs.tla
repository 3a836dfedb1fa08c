----------------------------- MODULE MqttProofs -----------------------------
(***************************************************************************)
(* For any topics, messages and bounds: the queue of Mqtt is a first-in    *)
(* first-out channel, and no reconnection forgets a topic.                 *)
(***************************************************************************)
EXTENDS Mqtt, SequenceTheorems, TLAPS

\* What is accepted and not yet published.
Pending == IF pc = "pop" THEN Tail(messages) ELSE messages

QueueInv ==
  /\ accepted = published \o Pending
  /\ QueueBounded
  /\ pc \in {"publish", "pop"} => messages # <<>>

\* m_topics and m_waitingTopics have every topic; a connection the thread serves
\* has the former and leaves none waiting.
TopicInv ==
  /\ \A t \in Topics : registration[t] # "new" => t \in topics \cup waitingTopics
  /\ pc = "connect" => ~connected
  /\ connected /\ Serving => topics \subseteq session /\ waitingTopics = {}

-----------------------------------------------------------------------------
(* Lemmas on the queue as the rest of what was accepted *)

\* Pushing at the end of the rest is pushing at the end of the whole.
LEMMA PushPending ==
  ASSUME NEW p \in Seq(Messages), NEW q \in Seq(Messages), NEW m \in Messages
  PROVE  Append(p \o q, m) = p \o Append(q, m)
<1>1. p \o q \in Seq(Messages) /\ <<m>> \in Seq(Messages)
  BY ConcatProperties
<1>2. Append(p \o q, m) = (p \o q) \o <<m>> /\ Append(q, m) = q \o <<m>>
  BY <1>1, AppendIsConcat
<1> QED
  BY <1>1, <1>2, ConcatAssociative

\* Moving the head of the rest to the end of what went before.
LEMMA ForwardPending ==
  ASSUME NEW p \in Seq(Messages), NEW q \in Seq(Messages), q # <<>>
  PROVE  /\ p \o q = Append(p, Head(q)) \o Tail(q)
         /\ Len(p) < Len(p \o q)
         /\ (p \o q)[Len(p) + 1] = Head(q)
<1>1. Head(q) \in Messages /\ Tail(q) \in Seq(Messages) /\ <<Head(q)>> \in Seq(Messages)
  BY HeadTailProperties
<1>2. Len(q) \in Nat \ {0} /\ Len(p) \in Nat
  BY EmptySeq, LenProperties
<1>3. q = <<Head(q)>> \o Tail(q)
  <2>1. /\ <<Head(q)>> \o Tail(q) \in Seq(Messages)
        /\ Len(<<Head(q)>> \o Tail(q)) = Len(q)
        /\ \A i \in 1..Len(q) : (<<Head(q)>> \o Tail(q))[i] =
             IF i <= 1 THEN <<Head(q)>>[i] ELSE Tail(q)[i - 1]
    BY <1>1, <1>2, ConcatProperties, HeadTailProperties
  <2>2. \A i \in 1..Len(q) : q[i] = (<<Head(q)>> \o Tail(q))[i]
    BY <1>1, <1>2, <2>1, HeadTailProperties
  <2> QED
    BY <2>1, <2>2, SeqEqual
<1>4. Append(p, Head(q)) = p \o <<Head(q)>>
  BY <1>1, AppendIsConcat
<1>5. p \o q = Append(p, Head(q)) \o Tail(q)
  <2>1. (p \o <<Head(q)>>) \o Tail(q) = p \o (<<Head(q)>> \o Tail(q))
    BY <1>1, ConcatAssociative
  <2> QED
    BY <1>3, <1>4, <2>1, Zenon
<1>6. Len(p) < Len(p \o q) /\ (p \o q)[Len(p) + 1] = q[1]
  BY <1>2, ConcatProperties
<1> QED
  BY <1>5, <1>6

\* publish(), called by any thread, the mqtt thread's callbacks included.
LEMMA EnqueueStep ==
  ASSUME TypeOK, QueueInv, NEW m \in Messages, Enqueue(m), pc' = pc
  PROVE  /\ accepted' \in Seq(Messages) /\ messages' \in Seq(Messages)
         /\ published' \in Seq(Messages)
         /\ QueueInv'
<1>1. CASE UNCHANGED <<messages, accepted>>
  BY <1>1 DEF TypeOK, QueueInv, Pending, QueueBounded, Enqueue
<1>2. CASE /\ Len(messages) < QueueMaxSize
           /\ messages' = Append(messages, m) /\ accepted' = Append(accepted, m)
  <2>1. accepted' \in Seq(Messages) /\ messages' \in Seq(Messages)
    BY <1>2, AppendProperties DEF TypeOK
  <2>2. QueueBounded' /\ messages' # <<>>
    BY <1>2, AppendProperties, LenProperties, MqttAssumption DEF TypeOK, QueueBounded
  <2>3. Pending \in Seq(Messages) /\ Pending' = Append(Pending, m)
    BY <1>2, HeadTailProperties, HeadTailAppend DEF TypeOK, QueueInv, Pending
  <2>4. accepted' = published \o Append(Pending, m)
    BY <1>2, <2>3, PushPending DEF TypeOK, QueueInv
  <2> QED
    BY <2>1, <2>2, <2>3, <2>4 DEF TypeOK, QueueInv, Enqueue
<1> QED
  BY <1>1, <1>2 DEF Enqueue

-----------------------------------------------------------------------------
(* Invariants *)

\* The queue, through every step of the thread and of the others.
LEMMA QueueStep ==
  ASSUME TypeOK, QueueInv, [Next]_vars
  PROVE  /\ messages' \in Seq(Messages) /\ accepted' \in Seq(Messages)
         /\ published' \in Seq(Messages)
         /\ QueueInv'
<1> USE DEF TypeOK
<1>1. ASSUME UNCHANGED queueVars, pc \notin {"publish", "pop"}, pc' # "pop",
             pc' = "publish" => messages # <<>>
      PROVE  QueueInv'
  BY <1>1 DEF QueueInv, QueueBounded, Pending, queueVars
<1>2. ASSUME UNCHANGED <<queueVars, pc>> PROVE QueueInv'
  BY <1>2 DEF QueueInv, QueueBounded, Pending, queueVars
<1>3. CASE Others \/ Network \/ UNCHANGED vars
  <2>1. CASE \E m \in Messages : Publish(m)
    BY <2>1, EnqueueStep DEF Publish
  <2>2. CASE ~(\E m \in Messages : Publish(m))
    <3>1. UNCHANGED <<queueVars, pc>>
      BY <1>3, <2>2 DEF Others, Network, Subscribe, SubscribeThrows, EmplaceCallback, Stop,
         Join, ConnectionDrops, MessageArrives, vars
    <3> QED
      BY <1>2, <3>1 DEF queueVars
  <2> QED
    BY <2>1, <2>2
<1>4. CASE Connect \/ OnConnected \/ OnConnectedDropped \/ Loop \/ ConsumeNothing
  <2>1. /\ UNCHANGED queueVars
        /\ pc \notin {"publish", "pop"} /\ pc' \notin {"publish", "pop"}
    BY <1>4 DEF Connect, OnConnected, OnConnectedDropped, Loop, ConsumeNothing
  <2> QED
    BY <1>1, <2>1 DEF queueVars
<1>5. CASE Consume
  BY <1>2, <1>5, EnqueueStep DEF Consume, OnMessage, queueVars
<1>6. CASE Drain
  BY <1>1, <1>6 DEF Drain, queueVars
<1>7. CASE PublishFront
  <2>1. CASE connected
    <3>1. /\ messages # <<>> /\ pc = "publish" /\ pc' = "pop"
          /\ published' = Append(published, Head(messages))
          /\ UNCHANGED <<messages, accepted>>
      BY <1>7, <2>1 DEF PublishFront, QueueInv
    <3>2. Head(messages) \in Messages /\ published' \in Seq(Messages)
      BY <3>1, HeadTailProperties, AppendProperties
    <3>3. accepted = published \o messages
      BY <3>1 DEF QueueInv, Pending
    <3>4. accepted' = published' \o Tail(messages)
      BY <3>1, <3>3, ForwardPending
    <3> QED
      BY <3>1, <3>2, <3>4 DEF QueueInv, QueueBounded, Pending
  <2>2. CASE ~connected
    BY <1>2, <1>7, <2>2 DEF PublishFront, queueVars
  <2> QED
    BY <2>1, <2>2
<1>8. CASE Pop
  <2>1. messages # <<>> /\ messages' = Tail(messages) /\ UNCHANGED <<accepted, published>>
    BY <1>8 DEF Pop, QueueInv
  <2>2. Tail(messages) \in Seq(Messages) /\ Len(Tail(messages)) <= Len(messages)
    BY <2>1, HeadTailProperties, LenProperties
  <2>3. Len(messages) \in Nat /\ Len(Tail(messages)) \in Nat /\ QueueMaxSize \in Nat
    BY <2>2, LenProperties, MqttAssumption
  <2> QED
    BY <1>8, <2>1, <2>2, <2>3, SMTT(30) DEF Pop, QueueInv, QueueBounded, Pending
<1> QED
  BY <1>3, <1>4, <1>5, <1>6, <1>7, <1>8 DEF Next, Thread

\* The other variables keep their types.
LEMMA TypeStep ==
  ASSUME TypeOK, QueueInv, [Next]_vars
  PROVE  TypeOK'
<1>1. /\ messages' \in Seq(Messages) /\ accepted' \in Seq(Messages)
      /\ published' \in Seq(Messages)
  BY QueueStep
<1> USE <1>1 DEF TypeOK, ThreadPC
<1>2. CASE Connect \/ OnConnected \/ OnConnectedDropped \/ Loop \/ ConsumeNothing
  BY <1>2 DEF Connect, OnConnected, OnConnectedDropped, Loop, ConsumeNothing, topicVars,
     stopVars, Throw
<1>3. CASE Consume
  BY <1>3, HeadTailProperties DEF Consume, OnMessage, topicVars, stopVars
<1>4. CASE Drain \/ PublishFront \/ Pop
  BY <1>4 DEF Drain, PublishFront, Pop, topicVars, stopVars, Throw
<1>5. CASE \E m \in Messages : Publish(m)
  BY <1>5 DEF Publish, topicVars, stopVars
<1>6. CASE \E t \in Topics : Subscribe(t) \/ SubscribeThrows(t) \/ EmplaceCallback(t)
  BY <1>6, ZenonT(30) DEF Subscribe, SubscribeThrows, EmplaceCallback, stopVars, Throw
<1>7. CASE Stop \/ Join
  BY <1>7 DEF Stop, Join, topicVars
<1>8. CASE ConnectionDrops
  BY <1>8 DEF ConnectionDrops, stopVars
<1>9. CASE \E t \in Topics : MessageArrives(t)
  BY <1>9, AppendProperties DEF MessageArrives, topicVars, stopVars
<1>10. CASE UNCHANGED vars
  BY <1>10 DEF vars, topicVars, stopVars
<1> QED
  BY <1>2, <1>3, <1>4, <1>5, <1>6, <1>7, <1>8, <1>9, <1>10 DEF Next, Thread, Others, Network

\* Topics only leave m_waitingTopics for a session.
LEMMA TopicStep ==
  ASSUME TypeOK, TopicInv, [Next]_vars
  PROVE  TopicInv'
<1> USE DEF TopicInv, TypeOK, Serving
<1>1. CASE Connect \/ OnConnected \/ OnConnectedDropped \/ Loop \/ ConsumeNothing
  BY <1>1 DEF Connect, OnConnected, OnConnectedDropped, Loop, ConsumeNothing, topicVars
<1>2. CASE Consume \/ Drain \/ PublishFront \/ Pop
  BY <1>2 DEF Consume, OnMessage, Drain, PublishFront, Pop, topicVars
<1>3. CASE \E m \in Messages : Publish(m)
  BY <1>3 DEF Publish, topicVars
<1>4. CASE \E t \in Topics : Subscribe(t) \/ SubscribeThrows(t) \/ EmplaceCallback(t)
  BY <1>4 DEF Subscribe, SubscribeThrows, EmplaceCallback
<1>5. CASE Stop \/ Join
  BY <1>5 DEF Stop, Join, topicVars
<1>6. CASE Network
  BY <1>6 DEF Network, ConnectionDrops, MessageArrives, topicVars
<1>7. CASE UNCHANGED vars
  BY <1>7 DEF vars, topicVars
<1> QED
  BY <1>1, <1>2, <1>3, <1>4, <1>5, <1>6, <1>7 DEF Next, Thread, Others

\* The invariant of the connection.
MqttInv == TypeOK /\ QueueInv /\ TopicInv

THEOREM MqttInvariant == Spec => []MqttInv
<1>1. Init => MqttInv
  <2> SUFFICES ASSUME Init PROVE MqttInv
    OBVIOUS
  <2>1. TypeOK
    <3>1. inbox \in Seq(Topics) /\ messages \in Seq(Messages)
          /\ accepted \in Seq(Messages) /\ published \in Seq(Messages)
      BY EmptySeq DEF Init
    <3> QED
      BY <3>1 DEF Init, TypeOK, ThreadPC
  <2>2. QueueInv
    <3>1. Len(messages) <= QueueMaxSize
      BY MqttAssumption, EmptySeq DEF Init
    <3>2. accepted = published \o messages
      BY ConcatEmptySeq, EmptySeq DEF Init
    <3> QED
      BY <3>1, <3>2 DEF Init, QueueInv, Pending, QueueBounded
  <2>3. TopicInv
    BY DEF Init, TopicInv, Serving
  <2> QED
    BY <2>1, <2>2, <2>3 DEF MqttInv
<1>2. ASSUME MqttInv, [Next]_vars PROVE MqttInv'
  BY <1>2, QueueStep, TypeStep, TopicStep DEF MqttInv
<1> QED
  BY <1>1, <1>2, PTL DEF Spec

-----------------------------------------------------------------------------
(* Theorems *)

\* Types, for any topics and messages.
THEOREM TypeCorrect == Spec => []TypeOK
BY MqttInvariant, PTL DEF MqttInv

\* Nothing accepted is lost, doubled or reordered.
THEOREM QueueSafe == Spec => []NothingLostOrDoubled
<1>1. MqttInv => NothingLostOrDoubled
  BY DEF MqttInv, QueueInv, Pending, NothingLostOrDoubled
<1> QED
  BY <1>1, MqttInvariant, PTL

\* However long the connection is away, the queue stays within its limit.
THEOREM QueueStaysBounded == Spec => []QueueBounded
<1>1. MqttInv => QueueBounded
  BY DEF MqttInv, QueueInv
<1> QED
  BY <1>1, MqttInvariant, PTL

\* The broker has every topic on each connection the thread serves.
THEOREM TopicsSafe == Spec => []AllTopicsSubscribed
<1>1. MqttInv => AllTopicsSubscribed
  BY DEF MqttInv, TopicInv, AllTopicsSubscribed
<1> QED
  BY <1>1, MqttInvariant, PTL

\* The queue and its thread implement a first-in first-out channel.
THEOREM QueueImplementsChannel == Spec => ActsAsQueue
<1>1. Init => Out!Init
  BY DEF Init, Out!Init
<1>2. ASSUME MqttInv, [Next]_vars
      PROVE  [Out!Accept \/ Out!Forward]_<<accepted, published>>
  <2>1. ASSUME NEW m \in Messages, Enqueue(m)
        PROVE  Out!Accept \/ UNCHANGED <<accepted, published>>
    BY <2>1 DEF Enqueue, Out!Accept
  <2>2. CASE PublishFront
    <3>1. CASE connected
      <4>1. /\ pc = "publish" /\ messages # <<>> /\ accepted = published \o messages
            /\ messages \in Seq(Messages) /\ published \in Seq(Messages)
        BY <1>2, <2>2 DEF PublishFront, MqttInv, TypeOK, QueueInv, Pending
      <4>2. Len(published) < Len(accepted) /\ accepted[Len(published) + 1] = Head(messages)
        BY <4>1, ForwardPending
      <4> QED
        BY <2>2, <3>1, <4>2 DEF PublishFront, Out!Forward
    <3>2. CASE ~connected
      BY <2>2, <3>2 DEF PublishFront
    <3> QED
      BY <3>1, <3>2
  <2>3. CASE (\E m \in Messages : Publish(m)) \/ Consume
    BY <2>1, <2>3 DEF Publish, Consume, OnMessage, queueVars
  <2>4. CASE ~(PublishFront \/ Consume \/ \E m \in Messages : Publish(m))
    BY <1>2, <2>4 DEF Next, Thread, Others, Network, Connect, OnConnected,
       OnConnectedDropped, Loop, ConsumeNothing, Drain, Pop, Subscribe, SubscribeThrows,
       EmplaceCallback, Stop, Join, ConnectionDrops, MessageArrives, queueVars, vars
  <2> QED
    BY <2>2, <2>3, <2>4
<1> QED
  BY <1>1, <1>2, MqttInvariant, PTL DEF Spec, ActsAsQueue, Out!Spec

=============================================================================

----------------------------- MODULE MqttProofs -----------------------------
(***************************************************************************)
(* Safety of MqttLifecycle, proved for any number of calls, messages and   *)
(* lost connections: types, what a publisher may do and what becomes of it *)
(* while calls do not overlap, and what it sends.                          *)
(***************************************************************************)
EXTENDS MqttLifecycle, TLAPS, SequenceTheorems

-----------------------------------------------------------------------------
(* Types *)

\* An action that leaves a group of variables alone leaves it well typed.
LEMMA TypeFrame ==
  ASSUME TypeOK
  PROVE  /\ UNCHANGED <<service, isConnected>> => ServiceType'
         /\ UNCHANGED publisher => PublisherType'
         /\ UNCHANGED network => NetworkType'
         /\ UNCHANGED calls => CallsType'
         /\ UNCHANGED producer => ProducerType'
         /\ UNCHANGED history => HistoryType'
<1>1. UNCHANGED <<service, isConnected>> => ServiceType'
  BY DEF TypeOK, ServiceType, service
<1>2. UNCHANGED publisher => PublisherType'
  BY DEF TypeOK, PublisherType, publisher, queues
<1>3. UNCHANGED network => NetworkType'
  BY DEF TypeOK, NetworkType, network
<1>4. UNCHANGED calls => CallsType'
  BY DEF TypeOK, CallsType, calls
<1>5. UNCHANGED producer => ProducerType'
  BY DEF TypeOK, ProducerType, producer
<1>6. UNCHANGED history => HistoryType'
  BY DEF TypeOK, HistoryType, history
<1>7. QED BY <1>1, <1>2, <1>3, <1>4, <1>5, <1>6

\* Moving a call to another step keeps the calls well typed.
LEMMA GotoType ==
  ASSUME TypeOK, NEW c \in Calls, NEW s \in Steps, Goto(c, s)
  PROVE  step' \in [Calls -> Steps]
BY DEF TypeOK, CallsType, Goto

\* A call that stops a publisher has one, from the lock to the end of stop().
HasTarget ==
  \A c \in Calls : step[c] \in {"lock", "disconnect", "close", "clear"} => target[c] \in Calls

\* stopMqttPublisher and stop() keep the state well typed.
LEMMA StopType == ASSUME TypeOK, HasTarget, NEW c \in Calls, Stop(c) PROVE TypeOK'
<1> USE DEF Steps, StopSteps, SetupSteps
<1>1. CASE Unlisten(c)
  <2>1. ServiceType' BY <1>1 DEF Unlisten, service, TypeOK, ServiceType
  <2>2. CallsType' BY <1>1, GotoType DEF Unlisten, TypeOK, CallsType
  <2>3. QED BY <1>1, <2>1, <2>2, TypeFrame DEF Unlisten, TypeOK
<1>2. CASE Forget(c)
  <2>1. ServiceType' BY <1>2 DEF Forget, TypeOK, ServiceType
  <2>2. CallsType' BY <1>2, GotoType DEF Forget, TypeOK, CallsType
  <2>3. QED BY <1>2, <2>1, <2>2, TypeFrame DEF Forget, TypeOK
<1>3. CASE Read(c)
  <2>1. CallsType' BY <1>3, GotoType DEF Read, TypeOK, CallsType, ServiceType
  <2>2. QED BY <1>3, <2>1, TypeFrame DEF Read, TypeOK
<1>4. CASE Lock(c)
  <2>1. PublisherType' BY <1>4, Zenon DEF Lock, TypeOK, PublisherType, queues
  <2>2. CallsType' BY <1>4, GotoType DEF Lock, TypeOK, CallsType
  <2>3. QED BY <1>4, <2>1, <2>2, TypeFrame DEF Lock, TypeOK
<1>5. CASE Disconnect(c)
  <2>1. NetworkType' BY <1>5, Zenon DEF Disconnect, TypeOK, NetworkType, Links
  <2>2. CallsType' BY <1>5, GotoType DEF Disconnect, TypeOK, CallsType
  <2>3. QED BY <1>5, <2>1, <2>2, TypeFrame DEF Disconnect, TypeOK
<1>6. CASE Close(c)
  <2>1. NetworkType' BY <1>6, Zenon DEF Close, TypeOK, NetworkType, Links
  <2>2. PublisherType' BY <1>6, Zenon DEF Close, TypeOK, PublisherType, queues
  <2>3. CallsType' BY <1>6, GotoType DEF Close, TypeOK, CallsType
  <2>4. QED BY <1>6, <2>1, <2>2, <2>3, TypeFrame DEF Close, TypeOK
<1>7. CASE Clear(c)
  <2>1. ServiceType' BY <1>7, Zenon DEF Clear, TypeOK, ServiceType, service
  <2>2. PublisherType'
    <3>1. <<>> \in Seq(1 .. MaxMessages) OBVIOUS
    <3>2. QED BY <1>7, <3>1, Zenon DEF Clear, TypeOK, PublisherType
  <2>3. CallsType' BY <1>7, GotoType DEF Clear, TypeOK, CallsType
  <2>4. HistoryType' BY <1>7 DEF Clear, TypeOK, HistoryType, HasTarget
  <2>5. QED BY <1>7, <2>1, <2>2, <2>3, <2>4, TypeFrame DEF Clear, TypeOK
<1>8. CASE Drop(c)
  <2>1. ServiceType' BY <1>8 DEF Drop, TypeOK, ServiceType
  <2>2. CallsType' BY <1>8, GotoType DEF Drop, TypeOK, CallsType
  <2>3. QED BY <1>8, <2>1, <2>2, TypeFrame DEF Drop, TypeOK
<1>9. QED
  BY <1>1, <1>2, <1>3, <1>4, <1>5, <1>6, <1>7, <1>8 DEF Stop

\* The thread of startMqttPublisher keeps the state well typed.
LEMMA StartType == ASSUME TypeOK, NEW c \in Calls, Start(c) PROVE TypeOK'
<1> USE DEF Steps, StopSteps, SetupSteps
<1>1. CASE Setup(c)
  <2>1. ServiceType' BY <1>1, Zenon DEF Setup, TypeOK, ServiceType, service
  <2>2. PublisherType' BY <1>1, Zenon DEF Setup, TypeOK, PublisherType, queues
  <2>3. NetworkType' BY <1>1 DEF Setup, TypeOK, NetworkType, Links
  <2>4. CallsType' BY <1>1, GotoType DEF Setup, TypeOK, CallsType
  <2>5. QED BY <1>1, <2>1, <2>2, <2>3, <2>4, TypeFrame DEF Setup, TypeOK
<1>2. CASE Await(c)
  <2>1. ServiceType' BY <1>2, Zenon DEF Await, TypeOK, ServiceType, service
  <2>2. CallsType' BY <1>2, GotoType DEF Await, TypeOK, CallsType
  <2>3. QED BY <1>2, <2>1, <2>2, TypeFrame DEF Await, TypeOK
<1>3. CASE Mark(c)
  <2>1. ServiceType' BY <1>3 DEF Mark, TypeOK, ServiceType, service
  <2>2. CallsType' BY <1>3, GotoType DEF Mark, TypeOK, CallsType
  <2>3. QED BY <1>3, <2>1, <2>2, TypeFrame DEF Mark, TypeOK
<1>4. CASE Schedule(c)
  <2>1. PublisherType' BY <1>4 DEF Schedule, TypeOK, PublisherType, queues
  <2>2. CallsType' BY <1>4, GotoType DEF Schedule, TypeOK, CallsType
  <2>3. QED BY <1>4, <2>1, <2>2, TypeFrame DEF Schedule, TypeOK
<1>5. CASE Assign(c)
  <2>1. ServiceType' BY <1>5 DEF Assign, TypeOK, ServiceType
  <2>2. CallsType' BY <1>5, GotoType DEF Assign, TypeOK, CallsType
  <2>3. QED BY <1>5, <2>1, <2>2, TypeFrame DEF Assign, TypeOK
<1>6. CASE Listen(c)
  <2>1. ServiceType' BY <1>6 DEF Listen, TypeOK, ServiceType
  <2>2. CallsType' BY <1>6, GotoType DEF Listen, TypeOK, CallsType
  <2>3. QED BY <1>6, <2>1, <2>2, TypeFrame DEF Listen, TypeOK
<1>7. CASE Add(c)
  <2>1. ServiceType' BY <1>7 DEF Add, TypeOK, ServiceType
  <2>2. CallsType' BY <1>7, GotoType DEF Add, TypeOK, CallsType
  <2>3. QED BY <1>7, <2>1, <2>2, TypeFrame DEF Add, TypeOK
<1>8. QED
  BY <1>1, <1>2, <1>3, <1>4, <1>5, <1>6, <1>7 DEF Start

\* So do the callbacks of the client.
LEMMA NetworkStepType == ASSUME TypeOK, NEW p \in Calls, Network(p) PROVE TypeOK'
<1>1. CASE Connected(p)
  <2>1. NetworkType' /\ ServiceType'
    BY <1>1 DEF Connected, TypeOK, NetworkType, Links, ServiceType, service
  <2>2. QED BY <1>1, <2>1, TypeFrame DEF Connected, TypeOK
<1>2. CASE Refused(p)
  <2>1. NetworkType' BY <1>2 DEF Refused, TypeOK, NetworkType, Links
  <2>2. QED BY <1>2, <2>1, TypeFrame DEF Refused, TypeOK
<1>3. CASE Lost(p)
  <2>1. losses' \in 0 .. MaxLosses
    BY <1>3, BoundsAreNat DEF Lost, TypeOK, NetworkType, BoundsAreNat
  <2>2. NetworkType' /\ ServiceType'
    BY <1>3, <2>1, Zenon DEF Lost, TypeOK, NetworkType, Links, ServiceType, service
  <2>3. QED BY <1>3, <2>2, TypeFrame DEF Lost, TypeOK
<1>4. CASE Reconnect(p)
  <2>1. NetworkType' BY <1>4 DEF Reconnect, TypeOK, NetworkType, Links
  <2>2. QED BY <1>4, <2>1, TypeFrame DEF Reconnect, TypeOK
<1>5. QED BY <1>1, <1>2, <1>3, <1>4 DEF Network

\* What is taken off a queue, and what is left of it.
LEMMA HeadAndTail ==
  ASSUME NEW S, NEW q \in Seq(S), q # <<>>
  PROVE  Head(q) \in S /\ Tail(q) \in Seq(S)
OBVIOUS

\* What is in a queue.
LEMMA ElementsAre ==
  ASSUME NEW S, NEW q \in Seq(S)
  PROVE  Elements(q) \subseteq S
<1>1. \A i \in DOMAIN q : q[i] \in S
  OBVIOUS
<1>2. QED
  BY <1>1 DEF Elements

\* And so do the messages on their way.
LEMMA MessagesType == ASSUME TypeOK, Messages PROVE TypeOK'
<1>1. CASE Receive
  <2>1. received' \in 1 .. MaxMessages
    BY <1>1, BoundsAreNat DEF Receive, TypeOK, ProducerType, BoundsAreNat
  <2>2. ProducerType'
    BY <1>1, <2>1 DEF Receive, TypeOK, ProducerType, ServiceType
  <2>3. QED BY <1>1, <2>2, TypeFrame DEF Receive, TypeOK
<1>2. CASE Enqueue
  <2>1. adding \in Calls /\ received \in 1 .. MaxMessages
    BY <1>2 DEF Enqueue, TypeOK, ProducerType
  <2>2. PublisherType' BY <1>2, <2>1 DEF Enqueue, TypeOK, PublisherType
  <2>3. ProducerType' BY <1>2 DEF Enqueue, TypeOK, ProducerType
  <2>4. HistoryType' BY <1>2, <2>1 DEF Enqueue, TypeOK, HistoryType
  <2>5. QED BY <1>2, <2>2, <2>3, <2>4, TypeFrame DEF Enqueue, TypeOK
<1>3. ASSUME NEW p \in Calls, Offer(p) PROVE TypeOK'
  <2>1. ProducerType' BY <1>3 DEF Offer, TypeOK, ProducerType
  <2>2. QED BY <1>3, <2>1, TypeFrame DEF Offer, TypeOK
<1>4. ASSUME NEW p \in Calls, Flush(p) PROVE TypeOK'
  <2>1. <<>> \in Seq(1 .. MaxMessages) OBVIOUS
  <2>2. PublisherType' BY <1>4, <2>1 DEF Flush, TypeOK, PublisherType
  <2>3. QED BY <1>4, <2>2, TypeFrame DEF Flush, TypeOK
<1>5. ASSUME NEW p \in Calls, Skip(p) PROVE TypeOK'
  <2>1. batch[p] \in Seq(1 .. MaxMessages) /\ batch[p] # <<>>
    BY <1>5 DEF Skip, TypeOK, PublisherType
  <2>2. Tail(batch[p]) \in Seq(1 .. MaxMessages)
    BY <2>1, HeadAndTail, Zenon
  <2>3. PublisherType' BY <1>5, <2>2 DEF Skip, TypeOK, PublisherType
  <2>4. QED BY <1>5, <2>3, TypeFrame DEF Skip, TypeOK
<1>6. ASSUME NEW p \in Calls, Take(p) PROVE TypeOK'
  <2>1. PublisherType' BY <1>6 DEF Take, TypeOK, PublisherType
  <2>2. QED BY <1>6, <2>1, TypeFrame DEF Take, TypeOK
<1>7. ASSUME NEW p \in Calls, Publish(p) PROVE TypeOK'
  <2>1. /\ batch[p] \in Seq(1 .. MaxMessages) /\ batch[p] # <<>>
        /\ sent[p] \in Seq(1 .. MaxMessages) /\ refused[p] \subseteq 1 .. MaxMessages
    BY <1>7 DEF Publish, TypeOK, PublisherType, HistoryType
  <2>2. Tail(batch[p]) \in Seq(1 .. MaxMessages) /\ Head(batch[p]) \in 1 .. MaxMessages
    BY <2>1, HeadAndTail, Zenon
  <2>3. PublisherType' BY <1>7, <2>2 DEF Publish, TypeOK, PublisherType
  <2>4. /\ Append(sent[p], Head(batch[p])) \in Seq(1 .. MaxMessages)
        /\ refused[p] \cup {Head(batch[p])} \in SUBSET (1 .. MaxMessages)
    BY <2>1, <2>2
  <2>5. HistoryType' BY <1>7, <2>4, ZenonT(60) DEF Publish, TypeOK, HistoryType
  <2>6. QED BY <1>7, <2>3, <2>5, TypeFrame DEF Publish, TypeOK
<1>8. ASSUME NEW p \in Calls, Abandon(p) PROVE TypeOK'
  <2>1. <<>> \in Seq(1 .. MaxMessages) OBVIOUS
  <2>2. Elements(batch[p]) \subseteq 1 .. MaxMessages
    <3>1. batch[p] \in Seq(1 .. MaxMessages)
      BY DEF TypeOK, PublisherType
    <3>2. QED
      BY <3>1, ElementsAre, Zenon
  <2>3. PublisherType' BY <1>8, <2>1 DEF Abandon, TypeOK, PublisherType
  <2>4. HistoryType' BY <1>8, <2>2 DEF Abandon, TypeOK, HistoryType
  <2>5. QED BY <1>8, <2>3, <2>4, TypeFrame DEF Abandon, TypeOK
<1>9. QED
  BY <1>1, <1>2, <1>3, <1>4, <1>5, <1>6, <1>7, <1>8 DEF Messages, Timer

\* A new call.
LEMMA CallType ==
  ASSUME TypeOK, NEW c \in Calls, NEW k \in Kinds, Call(c, k) PROVE TypeOK'
<1>1. CallsType'
  BY GotoType DEF Call, TypeOK, CallsType, Steps, StopSteps, SetupSteps
<1>2. tangled' \in BOOLEAN
  BY DEF Call, TypeOK, HistoryType, Busy
<1>3. HistoryType' BY <1>2 DEF Call, TypeOK, HistoryType
<1>4. QED BY <1>1, <1>3, TypeFrame DEF Call, TypeOK

-----------------------------------------------------------------------------
(* A stopped publisher never gets its client back *)

\* The thread of publisher p is past the point where it makes a client.
Made(p) == step[p] \in {"listen", "add", "done"}

\* Whoever can be stopped is past that point, and once it is stopped it has no
\* client.
Retired ==
  /\ mqttPublisher # None => Made(mqttPublisher)
  /\ \A c \in Calls : target[c] # None => Made(target[c])
  /\ \A c \in Calls : step[c] = "clear" => ~client[target[c]]
  /\ \A p \in stopped : Made(p) /\ ~client[p]

SilenceInv == TypeOK /\ HasTarget /\ Retired

\* Every step keeps the state well typed.
LEMMA TypeStep == ASSUME TypeOK, HasTarget, Next PROVE TypeOK'
BY CallType, StopType, StartType, NetworkStepType, MessagesType DEF Next

\* Steps of the network and messages change neither calls nor clients.
LEMMA OthersKeepSilence ==
  ASSUME SilenceInv, \/ \E p \in Calls : Network(p)
                     \/ Messages
                     \/ UNCHANGED vars
  PROVE  HasTarget' /\ Retired'
<1>1. UNCHANGED <<mqttPublisher, calls, client, stopped>>
  <2>1. CASE \E p \in Calls : Network(p)
    BY <2>1 DEF Network, Connected, Refused, Lost, Reconnect, service, publisher, history
  <2>2. CASE Messages
    BY <2>2 DEF Messages, Timer, Receive, Enqueue, Offer, Flush, Skip, Take, Publish,
                Abandon, service, publisher, queues, history
  <2>3. CASE UNCHANGED vars BY <2>3 DEF vars, service, publisher, history
  <2>4. QED BY <2>1, <2>2, <2>3
<1>2. QED BY <1>1 DEF SilenceInv, HasTarget, Retired, Made, calls

\* Every step keeps the clients of stopped publishers away.
LEMMA SilenceStep == ASSUME SilenceInv, [Next]_vars PROVE SilenceInv'
<1> USE DEF SilenceInv, HasTarget, Retired, Made
<1>0. /\ TypeOK /\ step \in [Calls -> Steps] /\ target \in [Calls -> Calls \cup {None}]
      /\ client \in [Calls -> BOOLEAN] /\ stopped \subseteq Calls
      /\ mqttPublisher \in Calls \cup {None} /\ None \notin Calls
  BY DEF TypeOK, CallsType, PublisherType, HistoryType, ServiceType, Calls, None
<1>1. ASSUME NEW c \in Calls, NEW k \in Kinds, Call(c, k) PROVE HasTarget' /\ Retired'
  BY <1>0, <1>1 DEF Call, Goto, service, publisher
<1>2. ASSUME NEW c \in Calls, Stop(c) PROVE HasTarget' /\ Retired'
  <2>1. CASE Unlisten(c) BY <1>0, <2>1 DEF Unlisten, Goto, service, publisher, history
  <2>2. CASE Forget(c) BY <1>0, <2>2 DEF Forget, Goto, service, publisher, history
  <2>3. CASE Read(c) BY <1>0, <2>3 DEF Read, Goto, service, publisher, history
  <2>4. CASE Lock(c) BY <1>0, <2>4 DEF Lock, Goto, service, publisher, history
  <2>5. CASE Disconnect(c)
    BY <1>0, <2>5 DEF Disconnect, Goto, service, publisher, history
  <2>6. CASE Close(c) BY <1>0, <2>6 DEF Close, Goto, service, publisher, history
  <2>7. CASE Clear(c) BY <1>0, <2>7 DEF Clear, Goto, service, publisher, history
  <2>8. CASE Drop(c) BY <1>0, <2>8 DEF Drop, Goto, service, publisher, history
  <2>9. QED BY <1>2, <2>1, <2>2, <2>3, <2>4, <2>5, <2>6, <2>7, <2>8 DEF Stop
<1>3. ASSUME NEW c \in Calls, Start(c) PROVE HasTarget' /\ Retired'
  <2>1. CASE Setup(c) BY <1>0, <2>1 DEF Setup, Goto, service, publisher, history
  <2>2. CASE Await(c) BY <1>0, <2>2 DEF Await, Goto, service, publisher, history
  <2>3. CASE Mark(c) BY <1>0, <2>3 DEF Mark, Goto, service, publisher, history
  <2>4. CASE Schedule(c) BY <1>0, <2>4 DEF Schedule, Goto, service, publisher, history
  <2>5. CASE Assign(c) BY <1>0, <2>5 DEF Assign, Goto, service, publisher, history
  <2>6. CASE Listen(c) BY <1>0, <2>6 DEF Listen, Goto, service, publisher, history
  <2>7. CASE Add(c) BY <1>0, <2>7 DEF Add, Goto, service, publisher, history
  <2>8. QED BY <1>3, <2>1, <2>2, <2>3, <2>4, <2>5, <2>6, <2>7 DEF Start
<1>4. CASE UNCHANGED vars
  <2>1. TypeOK' BY <1>4, TypeFrame DEF vars, TypeOK
  <2>2. QED BY <1>4, <2>1, OthersKeepSilence
<1>5. CASE Next
  <2>1. TypeOK' BY <1>5, TypeStep
  <2>2. HasTarget' /\ Retired' BY <1>1, <1>2, <1>3, <1>5, OthersKeepSilence DEF Next
  <2>3. QED BY <2>1, <2>2
<1>6. QED BY <1>4, <1>5

LEMMA SilenceInit == ASSUME Init PROVE SilenceInv
<1>1. <<>> \in Seq(1 .. MaxMessages) OBVIOUS
<1>2. 0 \in 0 .. MaxMessages /\ 0 \in 0 .. MaxLosses BY BoundsAreNat DEF BoundsAreNat
<1>3. ServiceType BY Zenon DEF Init, ServiceType
<1>4. PublisherType BY <1>1 DEF Init, PublisherType
<1>5. NetworkType BY <1>2 DEF Init, NetworkType, Links
<1>6. CallsType BY DEF Init, CallsType, Kinds, Steps
<1>7. ProducerType BY <1>2 DEF Init, ProducerType
<1>8. HistoryType BY <1>1, Zenon DEF Init, HistoryType
<1>9. HasTarget /\ Retired BY DEF Init, HasTarget, Retired
<1>10. QED BY <1>3, <1>4, <1>5, <1>6, <1>7, <1>8, <1>9 DEF SilenceInv, TypeOK

\* The variables keep their types, for any number of calls, messages and losses.
THEOREM TypeCorrect == Spec => []TypeOK
<1>1. SilenceInv => TypeOK BY DEF SilenceInv
<1>2. QED BY <1>1, SilenceInit, SilenceStep, PTL DEF Spec

\* Once stop() has returned its publisher calls its client no more: what was read
\* of the field before may still be called once.
THEOREM Silence == Spec => StoppedIsSilent
<1> DEFINE Quiet(p) == /\ held'[p] => held[p]
                       /\ sent'[p] # sent[p] => held[p] /\ ~held'[p]
<1>1. SilenceInv /\ [Next]_vars => [\A p \in stopped : Quiet(p)]_vars
  <2> SUFFICES ASSUME SilenceInv, Next, NEW p \in stopped PROVE Quiet(p)
    OBVIOUS
  <2>1. /\ p \in Calls /\ ~client[p] /\ held \in [Calls -> BOOLEAN]
        /\ sent \in [Calls -> Seq(1 .. MaxMessages)]
    BY DEF SilenceInv, Retired, TypeOK, PublisherType, HistoryType
  <2>2. ASSUME NEW q \in Calls, Take(q) PROVE Quiet(p)
    BY <2>1, <2>2 DEF Take, history
  <2>3. ASSUME NEW q \in Calls, Publish(q) PROVE Quiet(p)
    BY <2>1, <2>3 DEF Publish
  <2>4. ASSUME NEW q \in Calls, Abandon(q) PROVE Quiet(p)
    BY <2>1, <2>4 DEF Abandon
  <2>5. CASE UNCHANGED <<held, sent>> BY <2>5
  <2>6. UNCHANGED <<held, sent>> \/ \E q \in Calls : Take(q) \/ Publish(q) \/ Abandon(q)
    BY ZenonT(60) DEF Next, Call, Stop, Unlisten, Forget, Read, Lock, Disconnect, Close, Clear, Drop,
           Start, Setup, Await, Mark, Schedule, Assign, Listen, Add,
           Network, Connected, Refused, Lost, Reconnect,
           Messages, Timer, Receive, Enqueue, Offer, Flush, Skip, publisher, queues, history
  <2>7. QED BY <2>2, <2>3, <2>4, <2>5, <2>6
<1>2. QED BY <1>1, SilenceInit, SilenceStep, PTL DEF Spec, StoppedIsSilent

-----------------------------------------------------------------------------
(* Calls that do not overlap leave no listener and no timer behind *)

Active(c) == step[c] \notin {"idle", "done"}

\* The service knows of every listener, and of every timer.
ListenerKnown == listeners = {mqttPublisher} \ {None} /\ mqttNmeaListener = mqttPublisher
TimersOnlyOf(q) == \A p \in Calls : flusher[p] => p = q

\* What holds while call c, the only one, is under way.
Stage(c) ==
  /\ step[c] = "unlisten" => ListenerKnown
  /\ step[c] # "unlisten" => listeners = {}
  /\ step[c] \notin {"unlisten", "forget", "add"} => mqttNmeaListener = None
  /\ step[c] \in {"unlisten", "forget", "read", "lock"} => TimersOnlyOf(mqttPublisher)
  /\ step[c] = "lock" => target[c] = mqttPublisher
  /\ step[c] \in {"disconnect", "close", "clear", "drop", "setup", "await", "mark",
                  "schedule"} => TimersOnlyOf(None)
  /\ step[c] \in SetupSteps \ {"listen", "add"} => mqttPublisher = None
  /\ step[c] = "assign" => TimersOnlyOf(c)
  /\ step[c] \in {"listen", "add"} => mqttPublisher = c /\ TimersOnlyOf(c)
  /\ step[c] = "add" => mqttNmeaListener = c

Orderly ==
  ~tangled =>
    /\ \A c, d \in Calls : Active(c) /\ Active(d) => c = d
    /\ ~Busy => ListenerKnown /\ TimersOnlyOf(mqttPublisher)
    /\ \A c \in Calls : Active(c) => Stage(c)

\* It is enough to look at the call that takes the step.
LEMMA Alone ==
  ASSUME TypeOK, Orderly, ~tangled, NEW c \in Calls, Active(c),
         NEW s \in Steps, Goto(c, s), tangled' = tangled,
         Active(c)' => Stage(c)',
         ~Active(c)' => ListenerKnown' /\ TimersOnlyOf(mqttPublisher)'
  PROVE  Orderly'
<1>1. /\ step' = [step EXCEPT ![c] = s] /\ step \in [Calls -> Steps]
      /\ \A d \in Calls : Active(d) => d = c
  BY DEF Goto, TypeOK, CallsType, Orderly
<1>2. \A d \in Calls : Active(d)' => d = c BY <1>1 DEF Active
<1>3. ~Busy' => ~Active(c)' BY DEF Busy, Active
<1>4. QED BY <1>2, <1>3 DEF Orderly

\* stopMqttPublisher removes the listener and stops the timer it knows of.
LEMMA StopOrderly ==
  ASSUME TypeOK, Orderly, NEW c \in Calls, Stop(c) PROVE Orderly'
<1> SUFFICES ASSUME ~tangled' PROVE Orderly'
  BY DEF Orderly
<1> USE DEF Active, Steps, StopSteps, SetupSteps
<1>0. /\ step \in [Calls -> Steps] /\ mqttPublisher \in Calls \cup {None}
      /\ flusher \in [Calls -> BOOLEAN] /\ target \in [Calls -> Calls \cup {None}]
      /\ None \notin Calls
  BY DEF TypeOK, CallsType, ServiceType, PublisherType, Calls, None
<1>1. tangled' = tangled /\ Active(c)
  BY <1>0, SMTT(60) DEF Stop, Unlisten, Forget, Read, Lock, Disconnect, Close, Clear, Drop, history
<1>2. Stage(c) BY <1>1, SMTT(60) DEF Orderly
<1> USE DEF Stage, ListenerKnown, TimersOnlyOf, Goto, service, publisher
<1>3. CASE Unlisten(c)
  <2>1. Active(c)' /\ Stage(c)' BY <1>0, <1>2, <1>3 DEF Unlisten
  <2>2. QED BY <1>1, <1>3, <2>1, Alone, Zenon DEF Unlisten
<1>4. CASE Forget(c)
  <2>1. Active(c)' /\ Stage(c)' BY <1>0, <1>2, <1>4, SMTT(60) DEF Forget
  <2>2. QED BY <1>1, <1>4, <2>1, Alone, Zenon DEF Forget
<1>5. CASE Read(c)
  <2>1. Active(c)' /\ Stage(c)' BY <1>0, <1>2, <1>5, SMTT(60) DEF Read
  <2>2. QED BY <1>1, <1>5, <2>1, Alone, Zenon DEF Read
<1>6. CASE Lock(c)
  <2>1. Active(c)' /\ Stage(c)' BY <1>0, <1>2, <1>6, SMTT(60) DEF Lock
  <2>2. QED BY <1>1, <1>6, <2>1, Alone, Zenon DEF Lock
<1>7. CASE Disconnect(c)
  <2>1. Active(c)' /\ Stage(c)' BY <1>0, <1>2, <1>7, SMTT(60) DEF Disconnect
  <2>2. QED BY <1>1, <1>7, <2>1, Alone, Zenon DEF Disconnect
<1>8. CASE Close(c)
  <2>1. Active(c)' /\ Stage(c)' BY <1>0, <1>2, <1>8 DEF Close
  <2>2. QED BY <1>1, <1>8, <2>1, Alone, Zenon DEF Close
<1>9. CASE Clear(c)
  <2>1. Active(c)' /\ Stage(c)' BY <1>0, <1>2, <1>9 DEF Clear
  <2>2. step' = [step EXCEPT ![c] = "drop"] BY <1>9, SMTT(60) DEF Clear
  <2>3. QED BY <1>1, <2>1, <2>2, Alone, Zenon
<1>10. CASE Drop(c)
  <2>1. /\ Active(c)' => Stage(c)'
        /\ ~Active(c)' => ListenerKnown' /\ TimersOnlyOf(mqttPublisher)'
    BY <1>0, <1>2, <1>10 DEF Drop
  <2>2. QED BY <1>1, <1>10, <2>1, Alone, Zenon DEF Drop
<1>11. QED
  BY <1>3, <1>4, <1>5, <1>6, <1>7, <1>8, <1>9, <1>10 DEF Stop

\* The thread of startMqttPublisher tells the service of all it adds.
LEMMA StartOrderly ==
  ASSUME TypeOK, Orderly, NEW c \in Calls, Start(c) PROVE Orderly'
<1> SUFFICES ASSUME ~tangled' PROVE Orderly'
  BY DEF Orderly
<1> USE DEF Active, Steps, StopSteps, SetupSteps
<1>0. /\ step \in [Calls -> Steps] /\ mqttPublisher \in Calls \cup {None}
      /\ flusher \in [Calls -> BOOLEAN] /\ None \notin Calls
  BY DEF TypeOK, CallsType, ServiceType, PublisherType, Calls, None
<1>1. tangled' = tangled /\ Active(c)
  BY <1>0 DEF Start, Setup, Await, Mark, Schedule, Assign, Listen, Add, history
<1>2. Stage(c) BY <1>1 DEF Orderly
<1> USE DEF Stage, ListenerKnown, TimersOnlyOf, Goto, service, publisher
<1>3. CASE Setup(c)
  <2>1. /\ Active(c)' => Stage(c)'
        /\ ~Active(c)' => ListenerKnown' /\ TimersOnlyOf(mqttPublisher)'
    BY <1>0, <1>2, <1>3 DEF Setup
  <2>2. QED BY <1>1, <1>3, <2>1, Alone, Zenon DEF Setup
<1>4. CASE Await(c)
  <2>1. Active(c)' /\ Stage(c)' BY <1>0, <1>2, <1>4, SMTT(60) DEF Await
  <2>2. QED BY <1>1, <1>4, <2>1, Alone, Zenon DEF Await
<1>5. CASE Mark(c)
  <2>1. Active(c)' /\ Stage(c)' BY <1>0, <1>2, <1>5, SMTT(60) DEF Mark
  <2>2. QED BY <1>1, <1>5, <2>1, Alone, Zenon DEF Mark
<1>6. CASE Schedule(c)
  <2>1. Active(c)' /\ Stage(c)' BY <1>0, <1>2, <1>6, SMTT(60) DEF Schedule
  <2>2. QED BY <1>1, <1>6, <2>1, Alone, Zenon DEF Schedule
<1>7. CASE Assign(c)
  <2>1. Active(c)' /\ Stage(c)' BY <1>0, <1>2, <1>7, SMTT(60) DEF Assign
  <2>2. QED BY <1>1, <1>7, <2>1, Alone, Zenon DEF Assign
<1>8. CASE Listen(c)
  <2>1. Active(c)' /\ Stage(c)' BY <1>0, <1>2, <1>8, SMTT(60) DEF Listen
  <2>2. QED BY <1>1, <1>8, <2>1, Alone, Zenon DEF Listen
<1>9. CASE Add(c)
  <2>1. ~Active(c)' /\ ListenerKnown' /\ TimersOnlyOf(mqttPublisher)'
    BY <1>0, <1>2, <1>9 DEF Add
  <2>2. QED BY <1>1, <1>9, <2>1, Alone, Zenon DEF Add
<1>10. QED BY <1>3, <1>4, <1>5, <1>6, <1>7, <1>8, <1>9 DEF Start

\* A call that overlaps no other starts from a service that knows all.
LEMMA CallOrderly ==
  ASSUME TypeOK, Orderly, NEW c \in Calls, NEW k \in Kinds, Call(c, k) PROVE Orderly'
<1> SUFFICES ASSUME ~tangled' PROVE Orderly'
  BY DEF Orderly
<1>1. /\ step \in [Calls -> Steps] /\ mqttPublisher \in Calls \cup {None}
      /\ flusher \in [Calls -> BOOLEAN] /\ None \notin Calls
  BY DEF TypeOK, CallsType, ServiceType, PublisherType, Calls, None
<1>2. ~tangled /\ ~Busy /\ (k = "start" => mqttPublisher = None)
  BY Zenon DEF Call
<1>3. \A d \in Calls : ~Active(d) BY <1>2 DEF Busy, Active
<1>4. ListenerKnown /\ TimersOnlyOf(mqttPublisher) BY <1>2 DEF Orderly
<1>5. \A d \in Calls : Active(d)' => d = c
  BY <1>1, <1>3 DEF Call, Goto, Active
<1>6. Active(c)' BY <1>1 DEF Call, Goto, Active
<1>7. Stage(c)'
  BY <1>1, <1>2, <1>4 DEF Call, Goto, Stage, ListenerKnown, TimersOnlyOf, SetupSteps,
                          service, publisher
<1>8. Busy' BY <1>6 DEF Busy, Active
<1>9. QED BY <1>5, <1>7, <1>8 DEF Orderly

\* The network and the messages change nothing of that.
LEMMA OthersOrderly ==
  ASSUME Orderly, \/ \E p \in Calls : Network(p)
                  \/ Messages
                  \/ UNCHANGED vars
  PROVE  Orderly'
<1>1. UNCHANGED <<service, calls, flusher, tangled>>
  <2>1. CASE \E p \in Calls : Network(p)
    BY <2>1, SMTT(60) DEF Network, Connected, Refused, Lost, Reconnect, publisher, history
  <2>2. CASE Messages
    BY <2>2 DEF Messages, Timer, Receive, Enqueue, Offer, Flush, Skip, Take, Publish,
                Abandon, publisher, queues, history
  <2>3. CASE UNCHANGED vars BY <2>3 DEF vars, publisher, history
  <2>4. QED BY <2>1, <2>2, <2>3
<1>2. QED
  BY <1>1 DEF Orderly, Active, Busy, Stage, ListenerKnown, TimersOnlyOf, service, calls

LEMMA OrderlyStep == ASSUME TypeOK, Orderly, [Next]_vars PROVE Orderly'
BY CallOrderly, StopOrderly, StartOrderly, OthersOrderly DEF Next

LEMMA OrderlyInit == ASSUME Init PROVE Orderly
BY DEF Init, Orderly, Active, Busy, ListenerKnown, TimersOnlyOf

\* As long as calls do not overlap, and between them, the service knows of every
\* listener and of every timer, however many calls, messages and losses.
THEOREM Orphanless == Spec => []NoOrphan
<1>1. SilenceInv /\ Orderly => NoOrphan
  BY DEF Orderly, NoOrphan, ListenerKnown, TimersOnlyOf
<1>2. Init => SilenceInv /\ Orderly BY SilenceInit, OrderlyInit
<1>3. SilenceInv /\ Orderly /\ [Next]_vars => SilenceInv' /\ Orderly'
  BY SilenceStep, OrderlyStep DEF SilenceInv
<1>4. QED BY <1>1, <1>2, <1>3, PTL DEF Spec

-----------------------------------------------------------------------------
(* What a publisher sends: in order, once, and without loss as long as its  *)
(* connection holds.  What it has sent, the batch it is sending and what is *)
(* pending are one line of messages, each later than the one before it.     *)

Rising(s)    == \A i, j \in DOMAIN s : i < j => s[i] < s[j]
Before(s, t) == \A x \in Elements(s), y \in Elements(t) : x < y
Below(s, m)  == \A x \in Elements(s) : x < m

\* The listener of p is still to be told of the last message.
Awaits(p) == p \in todo \/ adding = p

Lined(p) ==
  /\ Rising(sent[p]) /\ Rising(batch[p]) /\ Rising(pending[p])
  /\ Before(sent[p], batch[p]) /\ Before(sent[p], pending[p])
  /\ Before(batch[p], pending[p])

UpTo(p, m) == Below(sent[p], m) /\ Below(batch[p], m) /\ Below(pending[p], m)

Order ==
  /\ adding \notin todo
  /\ \A p \in Calls :
       /\ Lined(p) /\ UpTo(p, received + 1)
       /\ Awaits(p) => UpTo(p, received)

\* What is on its way was queued, and while calls do not overlap no message is
\* queued by two publishers.
Line(p) == Elements(sent[p]) \cup Elements(batch[p]) \cup Elements(pending[p])

Owned ==
  /\ \A p \in Calls : Line(p) \subseteq queued[p] /\ queued[p] \subseteq 1 .. received
  /\ ~tangled =>
       /\ \A p, q \in Calls : p # q => queued[p] \cap queued[q] = {}
       /\ \A p, q \in Calls : Awaits(p) /\ Awaits(q) => p = q
       /\ \A p, q \in Calls : Awaits(p) => received \notin queued[q]

OInv == SilenceInv /\ Orderly /\ Order /\ Owned

-----------------------------------------------------------------------------
(* Queues *)

\* A message appended to a queue comes after those that are in it.
LEMMA Appended ==
  ASSUME NEW s \in Seq(Nat), NEW x \in Nat
  PROVE  /\ Elements(Append(s, x)) = Elements(s) \cup {x}
         /\ Rising(s) /\ Below(s, x) => Rising(Append(s, x))
<1> DEFINE t == Append(s, x)
<1>1. /\ DOMAIN s = 1 .. Len(s) /\ DOMAIN t = 1 .. Len(s) + 1 /\ Len(s) \in Nat
      /\ \A i \in 1 .. Len(s) : t[i] = s[i]
      /\ t[Len(s) + 1] = x
  OBVIOUS
<1> HIDE DEF t
<1>2. \A i \in DOMAIN t : i \in DOMAIN s \/ i = Len(s) + 1
  BY <1>1
<1>3. \A i \in DOMAIN s : i \in DOMAIN t /\ i < Len(s) + 1
  BY <1>1
<1>4. Elements(t) = Elements(s) \cup {x}
  <2>1. Len(s) + 1 \in DOMAIN t
    BY <1>1
  <2>2. QED
    BY <1>1, <1>2, <1>3, <2>1, SMTT(60) DEF Elements
<1>5. ASSUME Rising(s), Below(s, x), NEW i \in DOMAIN t, NEW j \in DOMAIN t, i < j
      PROVE  t[i] < t[j]
  <2>1. CASE j \in DOMAIN s
    <3>1. i \in DOMAIN s
      BY <1>1, <1>5, <2>1
    <3>2. QED
      BY <1>1, <1>5, <2>1, <3>1 DEF Rising
  <2>2. CASE j = Len(s) + 1
    <3>1. i \in DOMAIN s
      BY <1>1, <1>5, <2>2
    <3>2. t[i] \in Elements(s)
      BY <1>1, <3>1 DEF Elements
    <3>3. QED
      BY <1>1, <1>5, <2>2, <3>2 DEF Below
  <2>3. QED
    BY <1>2, <2>1, <2>2
<1>6. QED
  BY <1>4, <1>5 DEF Rising, t

\* A queue is its head and the rest, which comes after the head.
LEMMA Taken ==
  ASSUME NEW s \in Seq(Nat), s # <<>>
  PROVE  /\ Head(s) \in Elements(s) /\ Elements(Tail(s)) \subseteq Elements(s)
         /\ Elements(s) = {Head(s)} \cup Elements(Tail(s))
         /\ Rising(s) => Rising(Tail(s)) /\ \A y \in Elements(Tail(s)) : Head(s) < y
<1> DEFINE t == Tail(s)
<1>1. /\ Len(s) \in Nat \ {0} /\ DOMAIN s = 1 .. Len(s) /\ DOMAIN t = 1 .. Len(s) - 1
      /\ \A i \in 1 .. Len(s) - 1 : t[i] = s[i + 1]
      /\ Head(s) = s[1]
  OBVIOUS
<1> HIDE DEF t
<1>2. \A i \in DOMAIN t : i \in Int /\ i + 1 \in DOMAIN s /\ t[i] = s[i + 1] /\ 1 < i + 1
  BY <1>1, SMTT(60)
<1>3. 1 \in DOMAIN s
  BY <1>1
<1>4. Head(s) \in Elements(s) /\ Elements(t) \subseteq Elements(s)
  BY <1>1, <1>2, <1>3, Zenon DEF Elements
<1>4a. Elements(s) \subseteq {Head(s)} \cup Elements(t)
  <2>1. ASSUME NEW i \in DOMAIN s, i # 1 PROVE i - 1 \in DOMAIN t /\ t[i - 1] = s[i]
    BY <1>1, <2>1, SMTT(60)
  <2>2. QED
    BY <1>1, <2>1, SMTT(60) DEF Elements
<1>5. ASSUME Rising(s) PROVE Rising(t) /\ \A y \in Elements(t) : Head(s) < y
  <2>1. Rising(t)
    <3>1. \A i, j \in DOMAIN t : i < j => i + 1 < j + 1
      BY <1>2
    <3>2. QED
      BY <1>2, <1>5, <3>1 DEF Rising
  <2>2. \A y \in Elements(t) : Head(s) < y
    BY <1>1, <1>2, <1>3, <1>5, Zenon DEF Rising, Elements
  <2>3. QED
    BY <2>1, <2>2
<1>6. QED
  BY <1>4, <1>4a, <1>5 DEF t

\* Nothing is in an empty queue.
LEMMA Empty == Elements(<<>>) = {} /\ Rising(<<>>)
BY DEF Elements, Rising

\* Messages are numbers.
LEMMA Numbers ==
  ASSUME TypeOK
  PROVE  /\ \A p \in Calls : /\ sent[p] \in Seq(Nat) /\ batch[p] \in Seq(Nat)
                             /\ pending[p] \in Seq(Nat)
         /\ received \in Nat
<1>1. received \in Nat
  BY BoundsAreNat DEF TypeOK, ProducerType, BoundsAreNat
<1>2. \A s \in Seq(1 .. MaxMessages) : s \in Seq(Nat)
  <2>1. 1 .. MaxMessages \subseteq Nat
    OBVIOUS
  <2>2. QED
    BY <2>1, SeqMonotonic, Zenon
<1>3. QED
  BY <1>1, <1>2 DEF TypeOK, PublisherType, HistoryType

-----------------------------------------------------------------------------
(* Steps *)

\* Who only waits for a message less, or drops what is pending, keeps the order.
LEMMA FewerKeepOrder ==
  ASSUME Order, Owned, UNCHANGED <<batch, sent, queued, received>>,
         tangled => tangled',
         \A p \in Calls : Elements(pending[p])' \subseteq Elements(pending[p])
                          /\ Rising(pending[p])',
         adding' \notin todo',
         \A p \in Calls : Awaits(p)' => Awaits(p)
  PROVE  Order' /\ Owned'
<1>1. \A p \in Calls : Lined(p)'
  BY DEF Order, Lined, Before
<1>2. \A p \in Calls, m \in {received, received + 1} : UpTo(p, m) => UpTo(p, m)'
  BY DEF UpTo, Below
<1>3. Order'
  BY <1>1, <1>2 DEF Order
<1>4. Owned'
  BY DEF Owned, Line
<1>5. QED
  BY <1>3, <1>4

\* Calls and the network queue nothing; Clear drops what is pending.
LEMMA CallsKeepOrder ==
  ASSUME TypeOK, Order, Owned,
         \/ \E c \in Calls, k \in Kinds : Call(c, k)
         \/ \E c \in Calls : Stop(c) \/ Start(c) \/ Network(c)
         \/ UNCHANGED vars
  PROVE  Order' /\ Owned'
<1>1. /\ UNCHANGED <<batch, sent, queued, received, todo, adding>>
      /\ tangled => tangled'
      /\ \/ UNCHANGED pending
         \/ \E p \in Calls \cup {None} : pending' = [pending EXCEPT ![p] = <<>>]
  <2>1. CASE \E c \in Calls, k \in Kinds : Call(c, k)
    BY <2>1, ZenonT(60) DEF Call, publisher, queues, producer
  <2>2. CASE \E c \in Calls : Stop(c)
    BY <2>2, SMTT(60) DEF Stop, Unlisten, Forget, Read, Lock, Disconnect, Close, Clear, Drop,
                publisher, queues, producer, history, TypeOK, CallsType
  <2>3. CASE \E c \in Calls : Start(c)
    BY <2>3, SMTT(60) DEF Start, Setup, Await, Mark, Schedule, Assign, Listen, Add,
                publisher, queues, producer, history
  <2>4. CASE \E c \in Calls : Network(c)
    BY <2>4, SMTT(60) DEF Network, Connected, Refused, Lost, Reconnect, publisher, queues, producer,
                history
  <2>5. CASE UNCHANGED vars
    BY <2>5 DEF vars, publisher, queues, producer, history
  <2>6. QED
    BY <2>1, <2>2, <2>3, <2>4, <2>5
<1>2. ASSUME NEW p \in Calls
      PROVE  Elements(pending[p])' \subseteq Elements(pending[p]) /\ Rising(pending[p])'
  <2>1. pending \in [Calls -> Seq(1 .. MaxMessages)]
    BY DEF TypeOK, PublisherType
  <2>2. pending'[p] \in {pending[p], <<>>}
    BY <1>1, <2>1
  <2>3. Rising(pending[p])
    BY DEF Order, Lined
  <2>4. QED
    BY <2>2, <2>3, Empty
<1>3. adding' \notin todo' /\ \A p \in Calls : Awaits(p)' => Awaits(p)
  BY <1>1 DEF Order, Awaits
<1>4. QED
  BY <1>1, <1>2, <1>3, FewerKeepOrder

\* onNMEA takes the listeners there are: one at most while calls do not overlap.
LEMMA OneListener ==
  ASSUME Orderly, ~tangled, NEW p \in listeners, NEW q \in listeners PROVE p = q
<1>1. ListenerKnown \/ listeners = {}
  <2>1. CASE Busy
    BY <2>1 DEF Busy, Active, Orderly, Stage
  <2>2. CASE ~Busy
    BY <2>2 DEF Orderly
  <2>3. QED
    BY <2>1, <2>2
<1>2. QED
  BY <1>1 DEF ListenerKnown

\* onNMEA: the new message is later than all that are in the lines.
LEMMA ReceiveKeepsOrder ==
  ASSUME TypeOK, Orderly, Order, Owned, Receive PROVE Order' /\ Owned'
<1>1. /\ todo = {} /\ adding = None /\ received' = received + 1 /\ todo' = listeners
      /\ UNCHANGED <<sent, batch, pending, queued, tangled, adding, listeners>>
  BY DEF Receive, publisher, queues, history, service
<1>2. received \in Nat /\ listeners \subseteq Calls /\ None \notin Calls
  BY Numbers DEF TypeOK, ServiceType, Calls, None
<1>3. \A p \in Calls : Lined(p)' /\ UpTo(p, received)'
  BY <1>1 DEF Order, Lined, UpTo
<1>4. ASSUME NEW p \in Calls PROVE UpTo(p, received + 1)'
  <2>1. \A x \in Int : x < received + 1 => x < received' + 1
    BY <1>1, <1>2
  <2>2. \A x \in Elements(sent[p]) \cup Elements(batch[p]) \cup Elements(pending[p]) : x \in Int
    BY <1>2 DEF Owned, Line
  <2>3. UpTo(p, received + 1)
    BY DEF Order
  <2>4. QED
    BY <1>1, <2>1, <2>2, <2>3 DEF UpTo, Below
<1>5. Order'
  BY <1>1, <1>2, <1>3, <1>4 DEF Order, UpTo
<1>6. Owned'
  <2>1. \A p \in Calls : Line(p)' = Line(p) /\ queued[p] \subseteq 1 .. received'
    BY <1>1, <1>2 DEF Owned, Line
  <2>2. \A p \in Calls : received' \notin queued[p]
    BY <1>1, <1>2 DEF Owned
  <2>3. ASSUME ~tangled' PROVE \A p, q \in Calls : Awaits(p)' /\ Awaits(q)' => p = q
    BY <1>1, <1>2, <2>3, OneListener DEF Awaits
  <2>4. QED
    BY <1>1, <2>1, <2>2, <2>3 DEF Owned
<1>7. QED
  BY <1>5, <1>6

\* A listener that is told waits no longer, or is the one that adds the message.
LEMMA OfferKeepsOrder ==
  ASSUME TypeOK, Order, Owned, NEW p \in Calls, Offer(p) PROVE Order' /\ Owned'
<1>1. /\ p \in todo /\ adding = None /\ todo' = todo \ {p} /\ adding' \in {p, None}
      /\ UNCHANGED <<sent, batch, pending, queued, received, tangled>>
  BY DEF Offer, publisher, queues, history
<1>2. adding' \notin todo' /\ \A q \in Calls : Awaits(q)' => Awaits(q)
  BY <1>1 DEF Awaits, TypeOK, ProducerType, Calls, None
<1>3. \A q \in Calls : Rising(pending[q])' /\ Elements(pending[q])' \subseteq Elements(pending[q])
  BY <1>1 DEF Order, Lined
<1>4. QED
  BY <1>1, <1>2, <1>3, FewerKeepOrder

\* publishNmea queues the last message, which is later than all before it.
LEMMA EnqueueKeepsOrder ==
  ASSUME TypeOK, Order, Owned, Enqueue PROVE Order' /\ Owned'
<1> DEFINE a == adding
<1>1. /\ a \in Calls /\ None \notin Calls /\ adding' = None
      /\ pending' = [pending EXCEPT ![a] = Append(@, received)]
      /\ queued' = [queued EXCEPT ![a] = @ \cup {received}]
      /\ UNCHANGED <<sent, batch, received, todo, tangled>>
  BY DEF Enqueue, TypeOK, ProducerType, Calls, None
<1>2. /\ pending \in [Calls -> Seq(1 .. MaxMessages)] /\ todo \subseteq Calls
      /\ queued \in [Calls -> SUBSET (1 .. MaxMessages)]
      /\ received \in 1 .. MaxMessages
  BY <1>1 DEF TypeOK, PublisherType, HistoryType, ProducerType
<1>3. Awaits(a) /\ a \notin todo
  BY DEF Order, Awaits
<1> HIDE DEF a
<1>4. pending[a] \in Seq(Nat) /\ received \in Nat
  BY <1>1, Numbers
<1>5. /\ Elements(pending'[a]) = Elements(pending[a]) \cup {received}
      /\ Rising(pending'[a])
  <2>1. Rising(pending[a]) /\ Below(pending[a], received)
    BY <1>1, <1>3 DEF Order, Lined, UpTo
  <2>2. pending'[a] = Append(pending[a], received)
    BY <1>1, <1>2
  <2>3. QED
    BY <1>4, <2>1, <2>2, Appended
<1>6. \A p \in Calls : p # a => pending'[p] = pending[p] /\ queued'[p] = queued[p]
  BY <1>2, <1>1
<1>7. queued'[a] = queued[a] \cup {received}
  BY <1>1, <1>2
<1>8. UpTo(a, received)
  BY <1>1, <1>3 DEF Order
<1>9. ASSUME NEW p \in Calls PROVE Lined(p)' /\ UpTo(p, received + 1)' /\ Line(p)' \subseteq queued'[p]
  <2>1. CASE p = a
    <3>1. Lined(p)'
      BY <1>1, <1>5, <1>8, <2>1 DEF Order, Lined, Before, UpTo, Below
    <3>2. UpTo(p, received + 1)'
      <4>1. received < received + 1
        BY <1>4
      <4>2. UpTo(p, received + 1)
        BY DEF Order
      <4>3. QED
        BY <1>1, <1>5, <2>1, <4>1, <4>2 DEF UpTo, Below
    <3>3. Line(p)' \subseteq queued'[p]
      BY <1>1, <1>5, <1>7, <2>1 DEF Owned, Line
    <3>4. QED
      BY <3>1, <3>2, <3>3
  <2>2. CASE p # a
    BY <1>1, <1>6, <2>2 DEF Order, Lined, UpTo, Owned, Line
  <2>3. QED
    BY <2>1, <2>2
<1>10. ASSUME NEW p \in Calls, Awaits(p)' PROVE p # a /\ Awaits(p) /\ UpTo(p, received)'
  <2>1. p \in todo
    BY <1>1, <1>10 DEF Awaits
  <2>2. p # a /\ Awaits(p)
    BY <1>3, <2>1 DEF Awaits
  <2>3. QED
    BY <1>1, <1>6, <2>2 DEF Order, UpTo
<1>11. Order'
  BY <1>1, <1>2, <1>9, <1>10 DEF Order
<1>12. Owned'
  <2>1. \A p \in Calls : queued'[p] \subseteq 1 .. received'
    <3>1. received \in 1 .. received
      BY <1>2
    <3>2. QED
      BY <1>1, <1>6, <1>7, <3>1 DEF Owned
  <2>2. ASSUME ~tangled'
        PROVE  /\ \A p, q \in Calls : p # q => queued'[p] \cap queued'[q] = {}
               /\ \A p \in Calls : ~Awaits(p)'
    <3>1. ~tangled
      BY <1>1, <2>2
    <3>2. \A q \in Calls : received \notin queued[q]
      BY <1>1, <1>3, <3>1 DEF Owned
    <3>3. \A p \in Calls : ~Awaits(p)'
      BY <1>1, <1>3, <1>10, <3>1 DEF Owned
    <3>4. QED
      BY <1>1, <1>6, <1>7, <3>1, <3>2, <3>3 DEF Owned
  <2>3. QED
    BY <1>9, <2>1, <2>2 DEF Owned
<1>13. QED
  BY <1>11, <1>12

\* flushBatch moves what is pending into the empty batch.
LEMMA FlushKeepsOrder ==
  ASSUME TypeOK, Order, Owned, NEW f \in Calls, Flush(f) PROVE Order' /\ Owned'
<1>1. /\ batch[f] = <<>> /\ batch' = [batch EXCEPT ![f] = pending[f]]
      /\ pending' = [pending EXCEPT ![f] = <<>>]
      /\ UNCHANGED <<sent, queued, received, todo, adding, tangled>>
  BY DEF Flush, producer, history
<1>2. pending \in [Calls -> Seq(1 .. MaxMessages)] /\ batch \in [Calls -> Seq(1 .. MaxMessages)]
  BY DEF TypeOK, PublisherType
<1>3. /\ batch'[f] = pending[f] /\ pending'[f] = <<>>
      /\ \A p \in Calls : p # f => batch'[p] = batch[p] /\ pending'[p] = pending[p]
  BY <1>1, <1>2
<1>4. ASSUME NEW p \in Calls
      PROVE  /\ Lined(p)' /\ Line(p)' = Line(p)
             /\ \A m : UpTo(p, m) => UpTo(p, m)'
  <2>1. CASE p = f
    BY <1>1, <1>3, <2>1, Empty DEF Order, Lined, Line, Before, UpTo, Below
  <2>2. CASE p # f
    BY <1>1, <1>3, <2>2 DEF Order, Lined, Line, UpTo
  <2>3. QED
    BY <2>1, <2>2
<1>5. \A p \in Calls : Awaits(p)' <=> Awaits(p)
  BY <1>1 DEF Awaits
<1>6. Order'
  BY <1>1, <1>4, <1>5 DEF Order
<1>7. Owned'
  BY <1>1, <1>4, <1>5 DEF Owned
<1>8. QED
  BY <1>6, <1>7

\* The timer takes a message off its batch, which it sends or not, or gives the
\* batch up.
LEMMA Sending ==
  ASSUME TypeOK, NEW f \in Calls, Skip(f) \/ Publish(f) \/ Abandon(f)
  PROVE  /\ batch[f] # <<>> /\ batch'[f] \in {Tail(batch[f]), <<>>}
         /\ sent'[f] \in {sent[f], Append(sent[f], Head(batch[f]))}
         /\ \A p \in Calls : p # f =>
              UNCHANGED <<batch[p], sent[p], refused[p]>>
         /\ UNCHANGED <<pending, queued, received, todo, adding, tangled>>
<1>1. /\ batch \in [Calls -> Seq(1 .. MaxMessages)] /\ sent \in [Calls -> Seq(1 .. MaxMessages)]
      /\ refused \in [Calls -> SUBSET (1 .. MaxMessages)]
      /\ held[f] => batch[f] # <<>>
  BY DEF TypeOK, PublisherType, HistoryType
<1>2. CASE Skip(f) BY <1>1, <1>2 DEF Skip, producer, history
<1>3. CASE Publish(f) BY <1>1, <1>3 DEF Publish, producer
<1>4. CASE Abandon(f) BY <1>1, <1>4 DEF Abandon, producer
<1>5. QED BY <1>2, <1>3, <1>4

\* The head of the batch is sent, or lost.
LEMMA PublishKeepsOrder ==
  ASSUME TypeOK, Order, Owned, NEW f \in Calls, Skip(f) \/ Publish(f) \/ Abandon(f)
  PROVE  Order' /\ Owned'
<1> DEFINE h == Head(batch[f])
<1>1. /\ batch[f] # <<>> /\ batch'[f] \in {Tail(batch[f]), <<>>}
      /\ sent'[f] = sent[f] \/ sent'[f] = Append(sent[f], h)
      /\ \A p \in Calls : p # f => batch'[p] = batch[p] /\ sent'[p] = sent[p]
      /\ UNCHANGED <<pending, queued, received, todo, adding, tangled>>
  BY Sending, SMTT(60)
<1>2. batch[f] \in Seq(Nat) /\ sent[f] \in Seq(Nat)
  BY Numbers
<1>3. /\ h \in Elements(batch[f]) /\ Elements(Tail(batch[f])) \subseteq Elements(batch[f])
      /\ Rising(Tail(batch[f])) /\ \A y \in Elements(Tail(batch[f])) : h < y
  BY <1>1, <1>2, Taken DEF Order, Lined
<1>4. h \in Nat
  BY <1>1, <1>2, HeadAndTail
<1>5. Elements(sent'[f]) \subseteq Elements(sent[f]) \cup {h} /\ Rising(sent'[f])
  <2>1. Rising(sent[f]) /\ Below(sent[f], h)
    BY <1>3 DEF Order, Lined, Before, Below
  <2>2. QED
    BY <1>1, <1>2, <1>4, <2>1, Appended, Zenon
<1> HIDE DEF h
<1>6. ASSUME NEW p \in Calls
      PROVE  /\ Lined(p)' /\ Line(p)' \subseteq Line(p)
             /\ \A m : UpTo(p, m) => UpTo(p, m)'
  <2>1. CASE p = f
    <3>1. Elements(batch'[f]) \subseteq Elements(batch[f]) /\ Rising(batch'[f])
          /\ \A y \in Elements(batch'[f]) : h < y
      BY <1>1, <1>3, Empty
    <3>2. Lined(p)'
      BY <1>1, <1>3, <1>5, <2>1, <3>1 DEF Order, Lined, Before
    <3>3. Line(p)' \subseteq Line(p) /\ \A m : UpTo(p, m) => UpTo(p, m)'
      BY <1>1, <1>3, <1>5, <2>1, <3>1 DEF Line, UpTo, Below
    <3>4. QED
      BY <3>2, <3>3
  <2>2. CASE p # f
    BY <1>1, <2>2 DEF Order, Lined, Line, UpTo
  <2>3. QED
    BY <2>1, <2>2
<1>7. \A p \in Calls : Awaits(p)' <=> Awaits(p)
  BY <1>1 DEF Awaits
<1>8. Order'
  BY <1>1, <1>6, <1>7 DEF Order
<1>9. Owned'
  BY <1>1, <1>6, <1>7 DEF Owned
<1>10. QED
  BY <1>8, <1>9

\* Reading the field client changes nothing of it.
LEMMA TakeKeepsOrder ==
  ASSUME Order, Owned, NEW f \in Calls, Take(f) PROVE Order' /\ Owned'
BY DEF Take, producer, history, Order, Owned, Lined, UpTo, Before, Below, Line, Awaits

\* At first every line is empty.
LEMMA OrderInit == ASSUME Init PROVE Order /\ Owned
BY Empty DEF Init, Order, Owned, Lined, UpTo, Before, Below, Line, Awaits, Calls, None

\* Every step keeps the line of every publisher in order.
LEMMA OrderStep == ASSUME OInv, [Next]_vars PROVE OInv'
<1>1. TypeOK
  BY DEF OInv, SilenceInv
<1>2. SilenceInv' /\ Orderly'
  BY <1>1, SilenceStep, OrderlyStep DEF OInv
<1>3. Order' /\ Owned'
  <2>1. CASE Messages
    BY <1>1, <2>1, ReceiveKeepsOrder, OfferKeepsOrder, EnqueueKeepsOrder, FlushKeepsOrder,
       PublishKeepsOrder, TakeKeepsOrder DEF Messages, Timer, OInv
  <2>2. CASE ~Messages
    BY <1>1, <2>2, CallsKeepOrder DEF Next, OInv
  <2>3. QED
    BY <2>1, <2>2
<1>4. QED
  BY <1>2, <1>3 DEF OInv

\* For any number of calls, messages and losses: a publisher sends in the order
\* of receipt and nothing twice, and as long as calls do not overlap no two
\* publishers send the same message.
THEOREM InOrder == Spec => []SentOnceInOrder
<1>1. Init => OInv
  BY SilenceInit, OrderlyInit, OrderInit DEF OInv
<1>2. OInv /\ [Next]_vars => OInv'
  BY OrderStep
<1>3. OInv => SentOnceInOrder
  BY SMTT(60) DEF OInv, Order, Lined, Rising, Owned, Line, SentOnceInOrder, MessagesSent
<1>4. QED
  BY <1>1, <1>2, <1>3, PTL DEF Spec
-----------------------------------------------------------------------------
(* Nothing that a running publisher has queued is lost *)

\* The timer of publisher p has not been made yet, or it runs.
NotYet(p) == step[p] \notin {"assign", "listen", "add", "done"}
Runs(p) == flusher[p] \/ NotYet(p)

\* What became of the messages a publisher has queued.
Account(p) == Line(p) \cup refused[p]

\* As long as no connection was lost, who has a timer has a connection, and keeps
\* it until stop() has shut the timer down.
Attached(p) ==
  /\ flusher[p] => client[p] /\ link[p] = "up" /\ ~NotYet(p)
  /\ step[p] \in {"await", "mark", "schedule"} => client[p]
  /\ step[p] \in {"mark", "schedule"} => link[p] = "up"
  /\ link[p] \notin {"down", "reconnecting"}
  /\ NotYet(p) => batch[p] = <<>>

Kept ==
  /\ \A c \in Calls : step[c] \in {"disconnect", "close", "clear"} => ~flusher[target[c]]
  /\ losses = 0 => \A p \in Calls : Attached(p) /\ (Runs(p) => queued[p] = Account(p))

\* The calls: whom stop() clears has no timer and gets none again.
LEMMA StopKeeps ==
  ASSUME SilenceInv, Kept, NEW c \in Calls, Stop(c) PROVE Kept'
<1>0. /\ TypeOK /\ step \in [Calls -> Steps] /\ target \in [Calls -> Calls \cup {None}]
      /\ client \in [Calls -> BOOLEAN] /\ flusher \in [Calls -> BOOLEAN]
      /\ link \in [Calls -> Links] /\ pending \in [Calls -> Seq(1 .. MaxMessages)]
      /\ None \notin Calls
  BY DEF SilenceInv, TypeOK, CallsType, PublisherType, NetworkType, Calls, None
<1>1. /\ step[c] \in {"lock", "disconnect", "close", "clear"} => target[c] \in Calls
      /\ \A d \in Calls : target[d] # None => Made(target[d])
  BY DEF SilenceInv, HasTarget, Retired
<1>2. CASE Unlisten(c) \/ Forget(c) \/ Read(c) \/ Drop(c)
  <2>1. /\ UNCHANGED <<client, flusher, pending, batch, link, losses, queued, sent, refused>>
        /\ step[c] \in {"unlisten", "forget", "read", "drop"}
        /\ \E s \in {"forget", "read", "drop", "lock", "setup", "done"} :
             step' = [step EXCEPT ![c] = s]
        /\ \A d \in Calls : d # c => target'[d] = target[d]
    BY <1>0, <1>2 DEF Unlisten, Forget, Read, Drop, Goto, publisher, queues, network, history
  <2>2. \A d \in Calls : d # c => step'[d] = step[d]
    BY <1>0, <2>1
  <2>3. NotYet(c) /\ step'[c] \in {"forget", "read", "drop", "lock", "setup", "done"}
    BY <1>0, <2>1 DEF NotYet
  <2>4. \A p \in Calls : NotYet(p)' => NotYet(p)
    BY <2>2, <2>3 DEF NotYet
  <2>5. \A p \in Calls : Account(p)' = Account(p)
    BY <2>1 DEF Line, Account
  <2>6. \A d \in Calls : step'[d] \in {"disconnect", "close", "clear"} => ~flusher'[target'[d]]
    BY <2>1, <2>2, <2>3 DEF Kept
  <2>7. ASSUME losses = 0, NEW p \in Calls
        PROVE  Attached(p)' /\ (Runs(p)' => queued'[p] = Account(p)')
    <3>1. Attached(p) /\ (Runs(p) => queued[p] = Account(p))
      BY <2>7 DEF Kept
    <3>2. CASE p # c
      BY <2>1, <2>2, <2>4, <2>5, <3>1, <3>2 DEF Attached, NotYet, Runs
    <3>3. CASE p = c
      BY <2>1, <2>3, <2>4, <2>5, <3>1, <3>3 DEF Attached, Runs
    <3>4. QED
      BY <3>2, <3>3
  <2>8. QED
    BY <2>1, <2>6, <2>7 DEF Kept
<1>3. CASE Lock(c) \/ Disconnect(c) \/ Close(c) \/ Clear(c)
  <2> DEFINE t == target[c]
  <2>1. t \in Calls /\ ~NotYet(t) /\ Made(t)
    BY <1>0, <1>1, <1>3 DEF Lock, Disconnect, Close, Clear, Made, NotYet
  <2>2. /\ UNCHANGED <<batch, losses, queued, sent, refused>>
        /\ step[c] \in {"lock", "disconnect", "close", "clear"}
        /\ \E s \in {"disconnect", "close", "clear", "drop"} :
             step' = [step EXCEPT ![c] = s] /\ (s = "drop" <=> step[c] = "clear")
        /\ \A d \in Calls : d # c => target'[d] = target[d]
        /\ step[c] # "clear" => target' = target
        /\ \A p \in Calls : p # t =>
             UNCHANGED <<client[p], flusher[p], pending[p], link[p]>>
        /\ ~flusher'[t]
        /\ \A p \in Calls : flusher'[p] => flusher[p]
        /\ link'[t] \in {link[t], "off", "closed"}
    BY <1>0, <1>3, <2>1, ZenonT(60) DEF Lock, Disconnect, Close, Clear, Goto, publisher, queues, network,
       history, Kept
  <2> HIDE DEF t
  <2>3. \A d \in Calls : d # c => step'[d] = step[d]
    BY <1>0, <2>2
  <2>4. NotYet(c) /\ NotYet(c)' /\ c # t
    BY <1>0, <2>1, <2>2 DEF NotYet
  <2>5. step'[c] \in {"disconnect", "close", "clear", "drop"}
        /\ (step'[c] = "drop" <=> step[c] = "clear")
    BY <1>0, <2>2
  <2>6. \A d \in Calls : step'[d] \in {"disconnect", "close", "clear"} => ~flusher'[target'[d]]
    <3>1. ASSUME NEW d \in Calls, d # c, step'[d] \in {"disconnect", "close", "clear"}
          PROVE  ~flusher'[target'[d]]
      <4>1. ~flusher[target[d]] /\ target[d] \in Calls
        BY <2>3, <3>1 DEF Kept, SilenceInv, HasTarget
      <4>2. QED
        BY <2>2, <3>1, <4>1
    <3>2. step'[c] \in {"disconnect", "close", "clear"} => ~flusher'[target'[c]]
      BY <2>2, <2>5 DEF t
    <3>3. QED
      BY <3>1, <3>2
  <2>7. ASSUME losses = 0, NEW p \in Calls
        PROVE  Attached(p)' /\ (Runs(p)' => queued'[p] = Account(p)')
    <3>1. Attached(p) /\ (Runs(p) => queued[p] = Account(p))
      BY <2>7 DEF Kept
    <3>2. CASE p = t
      <4>1. step'[p] = step[p] /\ ~flusher'[p] /\ ~NotYet(p) /\ ~NotYet(p)'
        BY <2>1, <2>2, <2>3, <2>4, <3>2 DEF NotYet
      <4>2. QED
        BY <2>2, <3>1, <3>2, <4>1 DEF Attached, Runs, NotYet
    <3>3. CASE p # t /\ p # c
      BY <2>2, <2>3, <3>1, <3>3 DEF Attached, Runs, NotYet, Line, Account
    <3>4. CASE p = c
      BY <2>2, <2>4, <2>5, <3>1, <3>4 DEF Attached, Runs, Line, Account
    <3>5. QED
      BY <3>2, <3>3, <3>4
  <2>8. QED
    BY <2>2, <2>6, <2>7 DEF Kept
<1>4. QED
  BY <1>2, <1>3 DEF Stop

\* A start makes the timer only when the connection is up.
LEMMA StartKeeps ==
  ASSUME SilenceInv, Kept, NEW c \in Calls, Start(c) PROVE Kept'
<1>0. /\ step \in [Calls -> Steps] /\ client \in [Calls -> BOOLEAN]
      /\ flusher \in [Calls -> BOOLEAN] /\ link \in [Calls -> Links]
      /\ \A d \in Calls : step[d] \in {"disconnect", "close", "clear"} =>
           target[d] \in Calls /\ Made(target[d])
      /\ None \notin Calls
  BY DEF SilenceInv, TypeOK, CallsType, PublisherType, NetworkType, HasTarget, Retired,
         Calls, None
<1>1. /\ UNCHANGED <<pending, batch, losses, queued, sent, refused, target>>
      /\ step[c] \in SetupSteps
      /\ \E s \in SetupSteps \cup {"done"} : step' = [step EXCEPT ![c] = s]
      /\ \A p \in Calls : p # c => UNCHANGED <<client[p], flusher[p], link[p]>>
      /\ flusher'[c] = (flusher[c] \/ step[c] = "schedule")
  BY <1>0, ZenonT(60) DEF Start, Setup, Await, Mark, Schedule, Assign, Listen, Add, Goto, SetupSteps,
              publisher, queues, network, history
<1>2. step'[c] \in SetupSteps \cup {"done"} /\ \A d \in Calls : d # c => step'[d] = step[d]
  BY <1>0, <1>1
<1>3. \A d \in Calls : step'[d] \in {"disconnect", "close", "clear"} => ~flusher'[target'[d]]
  <2>1. ASSUME NEW d \in Calls, step'[d] \in {"disconnect", "close", "clear"}
        PROVE  ~flusher'[target'[d]]
    <3>1. d # c /\ step[d] \in {"disconnect", "close", "clear"} /\ target'[d] = target[d]
      BY <1>1, <1>2, <2>1 DEF SetupSteps
    <3>2. ~flusher[target[d]] /\ Made(target[d]) /\ target[d] \in Calls
      BY <1>0, <3>1 DEF Kept
    <3>3. CASE target[d] = c
      BY <1>1, <3>1, <3>2, <3>3, Zenon DEF Made
    <3>4. CASE target[d] # c
      BY <1>1, <3>1, <3>2, <3>4
    <3>5. QED
      BY <3>3, <3>4
  <2>2. QED
    BY <2>1
<1>4. ASSUME losses = 0 PROVE Attached(c)' /\ (Runs(c)' => queued'[c] = Account(c)')
  <2>1. Attached(c) /\ (Runs(c) => queued[c] = Account(c))
    BY <1>4 DEF Kept
  <2>2. Account(c)' = Account(c) /\ queued'[c] = queued[c]
    BY <1>1 DEF Line, Account
  <2>3. CASE Setup(c)
    BY <1>0, <1>1, <2>1, <2>2, <2>3 DEF Setup, Goto, Attached, Runs, NotYet
  <2>4. CASE Await(c)
    BY <1>0, <1>1, <2>1, <2>2, <2>4 DEF Await, Goto, Attached, Runs, NotYet, publisher, network
  <2>5. CASE Mark(c) \/ Schedule(c)
    BY <1>0, <1>1, <2>1, <2>2, <2>5 DEF Mark, Schedule, Goto, Attached, Runs, NotYet,
                                        publisher, network
  <2>6. CASE Assign(c) \/ Listen(c) \/ Add(c)
    BY <1>0, <1>1, <2>1, <2>2, <2>6 DEF Assign, Listen, Add, Goto, Attached, Runs, NotYet,
                                        publisher, network
  <2>7. QED
    BY <2>3, <2>4, <2>5, <2>6 DEF Start
<1>5. ASSUME losses = 0, NEW p \in Calls, p # c
      PROVE  Attached(p)' /\ (Runs(p)' => queued'[p] = Account(p)')
  BY <1>1, <1>2, <1>5 DEF Kept, Attached, Runs, NotYet, Line, Account
<1>6. QED
  BY <1>1, <1>3, <1>4, <1>5 DEF Kept

\* A call that begins changes nobody's queue.
LEMMA CallKeeps ==
  ASSUME SilenceInv, Kept, NEW c \in Calls, NEW k \in Kinds, Call(c, k) PROVE Kept'
<1>1. /\ UNCHANGED <<client, flusher, pending, batch, link, losses, queued, sent, refused, target>>
      /\ step[c] = "idle" /\ step \in [Calls -> Steps]
      /\ step' = [step EXCEPT ![c] = IF k = "start" THEN "setup" ELSE "unlisten"]
  BY DEF Call, Goto, publisher, queues, network, SilenceInv, TypeOK, CallsType
<1>2. step'[c] \in {"setup", "unlisten"} /\ \A d \in Calls : d # c => step'[d] = step[d]
  BY <1>1
<1>3. \A p \in Calls : Account(p)' = Account(p)
  BY <1>1 DEF Line, Account
<1>4. QED
  BY <1>1, <1>2, <1>3 DEF Kept, Attached, Runs, NotYet

\* The network takes no connection away but by losing it.
LEMMA NetworkKeeps ==
  ASSUME SilenceInv, Kept, NEW n \in Calls, Network(n) PROVE Kept'
<1>1. /\ UNCHANGED <<client, flusher, pending, batch, queued, sent, refused, step, target>>
      /\ link \in [Calls -> Links] /\ losses \in Nat
  BY DEF Network, Connected, Refused, Lost, Reconnect, publisher, queues, calls, history,
         SilenceInv, TypeOK, NetworkType
<1>2. \A p \in Calls : (Account(p)' = Account(p)) /\ (NotYet(p)' <=> NotYet(p))
  BY <1>1 DEF Line, Account, NotYet
<1>3. CASE Lost(n)
  <2>1. losses' # 0
    BY <1>1, <1>3 DEF Lost
  <2>2. QED
    BY <1>1, <2>1 DEF Kept
<1>4. CASE ~Lost(n)
  <2>1. losses' = losses
    BY <1>4 DEF Network, Connected, Refused, Reconnect
  <2>2. ASSUME losses = 0
        PROVE  \A p \in Calls : /\ link[p] = "up" => link'[p] = "up"
                                /\ link'[p] \notin {"down", "reconnecting"}
    <3>1. \A p \in Calls : link[p] \notin {"down", "reconnecting"}
      BY <2>2 DEF Kept, Attached
    <3>2. QED
      BY <1>1, <1>4, <3>1 DEF Network, Connected, Refused, Reconnect
  <2>3. QED
    BY <1>1, <1>2, <2>1, <2>2 DEF Kept, Attached, Runs
<1>5. QED
  BY <1>3, <1>4

\* What is queued moves to the batch, and is sent, for who has a timer is connected.
LEMMA MessagesKeep ==
  ASSUME SilenceInv, Kept, Messages PROVE Kept'
<1>1. /\ UNCHANGED <<client, flusher, link, losses, step, target>>
      /\ batch \in [Calls -> Seq(1 .. MaxMessages)] /\ sent \in [Calls -> Seq(1 .. MaxMessages)]
      /\ pending \in [Calls -> Seq(1 .. MaxMessages)]
      /\ queued \in [Calls -> SUBSET (1 .. MaxMessages)]
      /\ refused \in [Calls -> SUBSET (1 .. MaxMessages)]
      /\ TypeOK
  BY DEF Messages, Timer, Receive, Enqueue, Offer, Flush, Skip, Take, Publish, Abandon, network, calls, SilenceInv,
         TypeOK, PublisherType, HistoryType, publisher, queues
<1>2. ASSUME losses = 0, NEW p \in Calls
      PROVE  (NotYet(p) => batch'[p] = <<>>) /\ (Runs(p) => queued'[p] = Account(p)')
  <2>1. Attached(p) /\ (Runs(p) => queued[p] = Account(p))
    BY <1>2 DEF Kept
  <2>2. CASE Receive \/ \E f \in Calls : Offer(f)
    BY <2>1, <2>2 DEF Receive, Offer, publisher, queues, history, Attached, Line, Account
  <2>3. CASE Enqueue
    <3>1. /\ adding \in Calls /\ received \in Nat
          /\ pending' = [pending EXCEPT ![adding] = Append(@, received)]
          /\ queued' = [queued EXCEPT ![adding] = @ \cup {received}]
          /\ UNCHANGED <<batch, sent, refused>>
      BY <1>1, <2>3, Numbers DEF Enqueue, TypeOK, ProducerType
    <3>2. CASE p = adding
      <4>1. Elements(pending'[p]) = Elements(pending[p]) \cup {received}
        <5>1. pending[p] \in Seq(Nat) /\ pending'[p] = Append(pending[p], received)
          BY <1>1, <3>1, <3>2, Numbers
        <5>2. QED
          BY <3>1, <5>1, Appended
      <4>2. queued'[p] = queued[p] \cup {received}
        BY <1>1, <3>1, <3>2
      <4>3. QED
        BY <2>1, <3>1, <4>1, <4>2 DEF Attached, Line, Account
    <3>3. CASE p # adding
      <4>1. pending'[p] = pending[p] /\ queued'[p] = queued[p]
        BY <1>1, <3>1, <3>3
      <4>2. QED
        BY <2>1, <3>1, <4>1 DEF Attached, Line, Account
    <3>4. QED
      BY <3>2, <3>3
  <2>4. ASSUME NEW f \in Calls, Flush(f)
        PROVE  (NotYet(p) => batch'[p] = <<>>) /\ (Runs(p) => queued'[p] = Account(p)')
    <3>1. /\ flusher[f] /\ batch[f] = <<>> /\ UNCHANGED <<sent, refused, queued>>
          /\ batch'[f] = pending[f] /\ pending'[f] = <<>>
          /\ \A q \in Calls : q # f => batch'[q] = batch[q] /\ pending'[q] = pending[q]
      BY <1>1, <2>4 DEF Flush, history
    <3>2. Account(p)' = Account(p)
      BY <3>1, Empty DEF Line, Account
    <3>3. QED
      BY <2>1, <3>1, <3>2 DEF Attached
  <2>5. ASSUME NEW f \in Calls, Take(f)
        PROVE  (NotYet(p) => batch'[p] = <<>>) /\ (Runs(p) => queued'[p] = Account(p)')
    BY <2>1, <2>5 DEF Take, producer, history, Attached, Line, Account
  <2>6. ASSUME NEW f \in Calls, Skip(f) \/ Publish(f) \/ Abandon(f)
        PROVE  (NotYet(p) => batch'[p] = <<>>) /\ (Runs(p) => queued'[p] = Account(p)')
    <3>1. /\ batch[f] # <<>> /\ UNCHANGED <<pending, queued>>
          /\ batch'[f] \in {Tail(batch[f]), <<>>}
          /\ \A q \in Calls : q # f => UNCHANGED <<batch[q], sent[q], refused[q]>>
      BY <1>1, <2>6, Sending
    <3>2. CASE p # f
      BY <2>1, <3>1, <3>2 DEF Attached, Line, Account
    <3>3. CASE p = f /\ ~flusher[p]
      BY <2>1, <3>1, <3>3 DEF Attached, Runs
    <3>4. CASE p = f /\ flusher[p]
      <4>1. ~NotYet(p) /\ client[p] /\ link[p] = "up"
        BY <2>1, <3>4 DEF Attached
      <4>2. batch[p] \in Seq(Nat) /\ sent[p] \in Seq(Nat) /\ queued[p] = Account(p)
        BY <1>1, <2>1, <3>4, Numbers DEF Runs
      <4>3. Head(batch[p]) \in Nat
        BY <3>1, <3>4, <4>2, HeadAndTail
      <4>4. Elements(Append(sent[p], Head(batch[p]))) = Elements(sent[p]) \cup {Head(batch[p])}
        BY <4>2, <4>3, Appended
      <4>5. Elements(batch[p]) = {Head(batch[p])} \cup Elements(Tail(batch[p]))
        BY <3>1, <3>4, <4>2, Taken
      <4>6. CASE Skip(f)
        BY <3>4, <4>1, <4>6 DEF Skip
      <4>7. CASE Publish(f)
        <5>1. /\ batch'[p] = Tail(batch[p])
              /\ \/ sent'[p] = Append(sent[p], Head(batch[p])) /\ refused'[p] = refused[p]
                 \/ sent'[p] = sent[p] /\ refused'[p] = refused[p] \cup {Head(batch[p])}
          BY <1>1, <3>4, <4>1, <4>7 DEF Publish
        <5>2. QED
          BY <3>1, <4>1, <4>2, <4>4, <4>5, <5>1 DEF Line, Account
      <4>8. CASE Abandon(f)
        <5>1. /\ batch'[p] = <<>> /\ sent'[p] = sent[p]
              /\ refused'[p] = refused[p] \cup Elements(batch[p])
          BY <1>1, <3>4, <4>8 DEF Abandon
        <5>2. QED
          BY <3>1, <4>1, <4>2, <5>1, Empty DEF Line, Account
      <4>9. QED
        BY <2>6, <4>6, <4>7, <4>8
    <3>5. QED
      BY <3>2, <3>3, <3>4
  <2>7. QED
    BY <2>2, <2>3, <2>4, <2>5, <2>6 DEF Messages, Timer
<1>3. \A p \in Calls : (NotYet(p)' <=> NotYet(p)) /\ (Runs(p)' <=> Runs(p))
  BY <1>1 DEF NotYet, Runs
<1>4. QED
  BY <1>1, <1>2, <1>3 DEF Kept, Attached

\* At first nothing is queued.
LEMMA KeptInit == ASSUME Init PROVE Kept
BY Empty DEF Init, Kept, Attached, NotYet, Line, Account

\* Every step keeps what is queued.
LEMMA KeptStep == ASSUME SilenceInv, Kept, [Next]_vars PROVE Kept'
<1>1. CASE UNCHANGED vars
  BY <1>1 DEF vars, publisher, queues, network, calls, history, Kept, Attached, Runs, NotYet,
              Line, Account
<1>2. QED
  BY <1>1, CallKeeps, StopKeeps, StartKeeps, NetworkKeeps, MessagesKeep DEF Next

\* For any number of calls and messages, overlapping calls too: of what a publisher
\* whose timer runs has queued nothing is lost while no connection is, but what a
\* connected client refuses.
THEOREM NothingLost == Spec => []QueueLosesNothing
<1>1. Init => SilenceInv /\ Kept
  BY SilenceInit, KeptInit
<1>2. SilenceInv /\ Kept /\ [Next]_vars => SilenceInv' /\ Kept'
  BY SilenceStep, KeptStep
<1>3. Kept => QueueLosesNothing
  BY DEF Kept, Runs, Line, Account, QueueLosesNothing, MessagesSent
<1>4. QED
  BY <1>1, <1>2, <1>3, PTL DEF Spec
=============================================================================

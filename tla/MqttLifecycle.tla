--------------------------- MODULE MqttLifecycle ---------------------------
(***************************************************************************)
(* The MQTT publisher of a service instance: MqttPublisher.kt and the calls*)
(* of AisReceiverService.kt that start, stop and restart it.               *)
(*                                                                         *)
(* Calls come from the main thread (onStartCommand, onDestroy) and from    *)
(* threads of the admin web server (a saved configuration, mqtt/restart);  *)
(* nothing serialises them.  Each start runs on a thread of its own, which *)
(* connects for up to thirty seconds before it tells the service of its    *)
(* publisher.  The callback thread of the engine feeds the listeners, the  *)
(* timer of a publisher sends what is queued, and the Paho client calls    *)
(* back when a connection comes or goes.                                   *)
(***************************************************************************)
EXTENDS Integers, Sequences

CONSTANTS
  MaxCalls,     \* bound: calls that start, stop or restart the publisher
  MaxMessages,  \* bound: NMEA messages received
  MaxLosses     \* bound: connections lost

ASSUME BoundsAreNat ==
  MaxCalls \in Nat /\ MaxMessages \in Nat /\ MaxLosses \in Nat

\* A call makes at most one publisher, which goes by the number of the call.
Calls == 1 .. MaxCalls
None  == 0

VARIABLES
  \* fields of the service, and its list of NMEA listeners
  mqttPublisher, mqttNmeaListener, listeners,
  \* companion object of MqttPublisher: shared by all publishers
  isConnected,
  \* fields of each publisher: client is set, batchExecutor is set and runs,
  \* pendingMessages; the batch its timer is sending, and whether that timer has
  \* read the field client and is about to call the Paho client it found
  client, flusher, pending, batch, held,
  \* the Paho client of each publisher
  link,
  \* calls: what they do, their next step, the publisher they are stopping
  kind, step, target,
  \* callback thread of the engine: messages so far, listeners still to be told
  \* of the last one, the publisher that found isConnected set and adds it
  received, todo, adding,
  \* for the bound: connections lost
  losses,
  \* history: messages queued, sent, and refused by a client that is connected,
  \* publishers stopped, whether two calls overlapped or onStartCommand came
  \* while there was a publisher
  queued, sent, refused, stopped, tangled

service   == <<mqttPublisher, mqttNmeaListener, listeners>>
queues    == <<pending, batch, held>>
publisher == <<client, flusher, queues>>
network   == <<link, losses>>
calls     == <<kind, step, target>>
producer  == <<received, todo, adding>>
history   == <<queued, sent, refused, stopped, tangled>>
vars == <<service, isConnected, publisher, network, calls, producer, history>>

(***************************************************************************)
(* A client has not been made ("none"), connects for the first time, is    *)
(* connected ("up"), has lost its connection ("down"), tries to reconnect, *)
(* is disconnected for good ("off") or is closed.                          *)
(***************************************************************************)
Links == {"none", "connecting", "up", "down", "reconnecting", "off", "closed"}

Kinds == {"start", "stop", "restart", "destroy"}
StopSteps  == {"unlisten", "forget", "read", "lock", "disconnect", "close",
               "clear", "drop"}
SetupSteps == {"setup", "await", "mark", "schedule", "assign", "listen", "add"}
Steps == {"idle", "done"} \cup StopSteps \cup SetupSteps

Busy == \E c \in Calls : step[c] \notin {"idle", "done"}
\* the thread that holds lifecycleLock of a publisher that is being stopped
Locked(p) == \E c \in Calls : target[c] = p /\ step[c] \in {"disconnect", "close", "clear"}

Init ==
  /\ mqttPublisher = None /\ mqttNmeaListener = None /\ listeners = {}
  /\ isConnected = FALSE
  /\ client = [p \in Calls |-> FALSE] /\ flusher = [p \in Calls |-> FALSE]
  /\ pending = [p \in Calls |-> <<>>] /\ batch = [p \in Calls |-> <<>>]
  /\ held = [p \in Calls |-> FALSE]
  /\ link = [p \in Calls |-> "none"] /\ losses = 0
  /\ kind = [c \in Calls |-> "stop"] /\ step = [c \in Calls |-> "idle"]
  /\ target = [c \in Calls |-> None]
  /\ received = 0 /\ todo = {} /\ adding = None
  /\ queued = [p \in Calls |-> {}] /\ sent = [p \in Calls |-> <<>>]
  /\ refused = [p \in Calls |-> {}]
  /\ stopped = {} /\ tangled = FALSE

Goto(c, s) == step' = [step EXCEPT ![c] = s]
Elements(q) == {q[i] : i \in DOMAIN q}

-----------------------------------------------------------------------------
(* Calls, and stopMqttPublisher *)

\* Mutant: a restart starts a new publisher and leaves the old one alone.
CallWithoutStop(c, k) ==
  /\ step[c] = "idle" /\ \A d \in Calls : d < c => step[d] # "idle"
  /\ k = "start" => \A d \in Calls : kind[d] # "destroy"
  /\ kind' = [kind EXCEPT ![c] = k]
  /\ Goto(c, IF k \in {"start", "restart"} THEN "setup" ELSE "unlisten")
  /\ tangled' = (tangled \/ Busy \/ (k = "start" /\ mqttPublisher # None))
  /\ UNCHANGED <<service, isConnected, publisher, network, target, producer,
                 queued, sent, refused, stopped>>

\* onStartCommand starts; a saved configuration and mqtt/restart stop, and
\* start again if MQTT is still enabled; onDestroy stops.
Call(c, k) ==
  /\ step[c] = "idle" /\ \A d \in Calls : d < c => step[d] # "idle"
  /\ k = "start" => \A d \in Calls : kind[d] # "destroy"
  /\ kind' = [kind EXCEPT ![c] = k]
  /\ Goto(c, IF k = "start" THEN "setup" ELSE "unlisten")
  /\ tangled' = (tangled \/ Busy \/ (k = "start" /\ mqttPublisher # None))
  /\ UNCHANGED <<service, isConnected, publisher, network, target, producer,
                 queued, sent, refused, stopped>>

\* Mutant: the field is cleared first, so that nothing is left to remove.
UnlistenTooLate(c) ==
  /\ step[c] = "unlisten"
  /\ Goto(c, "forget")
  /\ UNCHANGED <<service, isConnected, publisher, network, kind, target,
                 producer, history>>

\* mqttNmeaListener?.let { removeNMEAListener(it) }
Unlisten(c) ==
  /\ step[c] = "unlisten"
  /\ listeners' = listeners \ {mqttNmeaListener}
  /\ Goto(c, "forget")
  /\ UNCHANGED <<mqttPublisher, mqttNmeaListener, isConnected, publisher,
                 network, kind, target, producer, history>>

Forget(c) ==
  /\ step[c] = "forget"
  /\ mqttNmeaListener' = None
  /\ Goto(c, "read")
  /\ UNCHANGED <<mqttPublisher, listeners, isConnected, publisher, network,
                 kind, target, producer, history>>

\* Mutant: stop() is called whether or not there is a publisher.
ReadUnchecked(c) ==
  /\ step[c] = "read"
  /\ target' = [target EXCEPT ![c] = mqttPublisher]
  /\ Goto(c, "lock")
  /\ UNCHANGED <<service, isConnected, publisher, network, kind, producer,
                 history>>

\* mqttPublisher?.stop()
Read(c) ==
  /\ step[c] = "read"
  /\ target' = [target EXCEPT ![c] = mqttPublisher]
  /\ Goto(c, IF mqttPublisher = None THEN "drop" ELSE "lock")
  /\ UNCHANGED <<service, isConnected, publisher, network, kind, producer,
                 history>>

\* mqttPublisher = null; a restart then starts a thread for the new publisher.
Drop(c) ==
  /\ step[c] = "drop"
  /\ mqttPublisher' = None
  /\ Goto(c, IF kind[c] = "restart" THEN "setup" ELSE "done")
  /\ UNCHANGED <<mqttNmeaListener, listeners, isConnected, publisher, network,
                 kind, target, producer, history>>

-----------------------------------------------------------------------------
(* MqttPublisher.stop, under lifecycleLock *)

\* shutdownNow: no further batch; one that is being sent goes on.
Lock(c) ==
  /\ step[c] = "lock" /\ ~Locked(target[c])
  /\ flusher' = [flusher EXCEPT ![target[c]] = FALSE]
  /\ Goto(c, "disconnect")
  /\ UNCHANGED <<service, isConnected, client, queues, network, kind, target,
                 producer, history>>

Disconnect(c) ==
  LET p == target[c] IN
  /\ step[c] = "disconnect"
  /\ link' = [link EXCEPT ![p] = IF client[p] /\ @ = "up" THEN "off" ELSE @]
  /\ Goto(c, "close")
  /\ UNCHANGED <<service, isConnected, publisher, losses, kind, target,
                 producer, history>>

\* Mutant: the field client keeps the closed client.
CloseKeepingClient(c) ==
  LET p == target[c] IN
  /\ step[c] = "close"
  /\ link' = [link EXCEPT ![p] = IF client[p] /\ @ \in {"down", "off"}
                                 THEN "closed" ELSE @]
  /\ Goto(c, "clear")
  /\ UNCHANGED <<service, isConnected, publisher, losses, kind, target,
                 producer, history>>

\* close() throws, which is logged, while an attempt to connect is under way:
\* that client stays, though nobody refers to it any more.
Close(c) ==
  LET p == target[c] IN
  /\ step[c] = "close"
  /\ link' = [link EXCEPT ![p] = IF client[p] /\ @ \in {"down", "off"}
                                 THEN "closed" ELSE @]
  /\ client' = [client EXCEPT ![p] = FALSE]
  /\ Goto(c, "clear")
  /\ UNCHANGED <<service, isConnected, flusher, queues, losses, kind, target,
                 producer, history>>

Clear(c) ==
  LET p == target[c] IN
  /\ step[c] = "clear"
  /\ isConnected' = FALSE
  /\ pending' = [pending EXCEPT ![p] = <<>>]
  /\ stopped' = stopped \cup {p}
  /\ target' = [target EXCEPT ![c] = None]
  /\ Goto(c, "drop")
  /\ UNCHANGED <<service, client, flusher, batch, held, network, kind, producer,
                 queued, sent, refused, tangled>>

Stop(c) == Unlisten(c) \/ Forget(c) \/ Read(c) \/ Lock(c) \/ Disconnect(c)
           \/ Close(c) \/ Clear(c) \/ Drop(c)

-----------------------------------------------------------------------------
(* startMqttPublisher's thread, and MqttPublisher.start on it *)

\* Nothing to do without a broker and a topic.  Otherwise start() first stops
\* what it has, which for a new publisher only clears the shared isConnected,
\* then makes a client, which an invalid URL forbids, and connects.
Setup(c) ==
  /\ step[c] = "setup"
  /\ \/ Goto(c, "done") /\ UNCHANGED <<isConnected, client, link>>
     \/ /\ isConnected' = FALSE
        /\ Goto(c, "assign") /\ UNCHANGED <<client, link>>
     \/ /\ isConnected' = FALSE
        /\ client' = [client EXCEPT ![c] = TRUE]
        /\ link' = [link EXCEPT ![c] = "connecting"]
        /\ Goto(c, "await")
  /\ UNCHANGED <<service, flusher, queues, losses, kind, target, producer, history>>

\* Mutant: waitForCompletion without a limit.
AwaitForever(c) ==
  /\ step[c] = "await"
  /\ \/ /\ link[c] \in {"up", "down", "reconnecting"}
        /\ Goto(c, "mark") /\ UNCHANGED isConnected
     \/ /\ link[c] = "off"
        /\ isConnected' = FALSE
        /\ Goto(c, "assign")
  /\ UNCHANGED <<service, publisher, network, kind, target, producer, history>>

\* waitForCompletion: connected, refused, or not answered in time.
Await(c) ==
  /\ step[c] = "await"
  /\ \/ /\ link[c] \in {"up", "down", "reconnecting"}
        /\ Goto(c, "mark") /\ UNCHANGED isConnected
     \/ /\ link[c] \in {"connecting", "off"}
        /\ isConnected' = FALSE
        /\ Goto(c, "assign")
  /\ UNCHANGED <<service, publisher, network, kind, target, producer, history>>

Mark(c) ==
  /\ step[c] = "mark"
  /\ isConnected' = TRUE
  /\ Goto(c, "schedule")
  /\ UNCHANGED <<service, publisher, network, kind, target, producer, history>>

\* batchExecutor, and its task once a second
Schedule(c) ==
  /\ step[c] = "schedule"
  /\ flusher' = [flusher EXCEPT ![c] = TRUE]
  /\ Goto(c, "assign")
  /\ UNCHANGED <<service, isConnected, client, queues, network, kind, target,
                 producer, history>>

\* mqttPublisher = publisher, whether or not it is connected
Assign(c) ==
  /\ step[c] = "assign"
  /\ mqttPublisher' = c
  /\ Goto(c, "listen")
  /\ UNCHANGED <<mqttNmeaListener, listeners, isConnected, publisher, network,
                 kind, target, producer, history>>

Listen(c) ==
  /\ step[c] = "listen"
  /\ mqttNmeaListener' = c
  /\ Goto(c, "add")
  /\ UNCHANGED <<mqttPublisher, listeners, isConnected, publisher, network,
                 kind, target, producer, history>>

\* addNMEAListener(listener)
Add(c) ==
  /\ step[c] = "add"
  /\ listeners' = listeners \cup {c}
  /\ Goto(c, "done")
  /\ UNCHANGED <<mqttPublisher, mqttNmeaListener, isConnected, publisher,
                 network, kind, target, producer, history>>

Start(c) == Setup(c) \/ Await(c) \/ Mark(c) \/ Schedule(c) \/ Assign(c)
            \/ Listen(c) \/ Add(c)

-----------------------------------------------------------------------------
(* The broker and the network, and the callbacks of the client *)

\* connectComplete
Connected(p) ==
  /\ link[p] \in {"connecting", "reconnecting"}
  /\ link' = [link EXCEPT ![p] = "up"]
  /\ isConnected' = TRUE
  /\ UNCHANGED <<service, publisher, losses, calls, producer, history>>

Refused(p) ==
  /\ link[p] \in {"connecting", "reconnecting"}
  /\ link' = [link EXCEPT ![p] = IF @ = "connecting" THEN "off" ELSE "down"]
  /\ UNCHANGED <<service, isConnected, publisher, losses, calls, producer, history>>

\* connectionLost
Lost(p) ==
  /\ link[p] = "up" /\ losses < MaxLosses
  /\ link' = [link EXCEPT ![p] = "down"]
  /\ losses' = losses + 1
  /\ isConnected' = FALSE
  /\ UNCHANGED <<service, publisher, calls, producer, history>>

\* isAutomaticReconnect, after a first connection
Reconnect(p) ==
  /\ link[p] = "down"
  /\ link' = [link EXCEPT ![p] = "reconnecting"]
  /\ UNCHANGED <<service, isConnected, publisher, losses, calls, producer, history>>

Network(p) == Connected(p) \/ Refused(p) \/ Lost(p) \/ Reconnect(p)

-----------------------------------------------------------------------------
(* Messages *)

\* onNMEA: the listeners as they are now will be told, one after the other.
Receive ==
  /\ todo = {} /\ adding = None /\ received < MaxMessages
  /\ received' = received + 1 /\ todo' = listeners
  /\ UNCHANGED <<service, isConnected, publisher, network, calls, adding, history>>

\* publishNmea: the test of isConnected, then the queue.
Offer(p) ==
  /\ p \in todo /\ adding = None
  /\ todo' = todo \ {p}
  /\ adding' = IF isConnected THEN p ELSE None
  /\ UNCHANGED <<service, isConnected, publisher, network, calls, received, history>>

Enqueue ==
  /\ adding # None
  /\ pending' = [pending EXCEPT ![adding] = Append(@, received)]
  /\ queued' = [queued EXCEPT ![adding] = @ \cup {received}]
  /\ adding' = None
  /\ UNCHANGED <<service, isConnected, client, flusher, batch, held, network,
                 calls, received, todo, sent, refused, stopped, tangled>>

\* flushBatch takes all that is queued.
Flush(p) ==
  /\ flusher[p] /\ batch[p] = <<>> /\ pending[p] # <<>>
  /\ batch' = [batch EXCEPT ![p] = pending[p]]
  /\ pending' = [pending EXCEPT ![p] = <<>>]
  /\ UNCHANGED <<service, isConnected, client, flusher, held, network, calls,
                 producer, history>>

\* The field client is null: nothing is called.
Skip(p) ==
  /\ batch[p] # <<>> /\ ~held[p] /\ ~client[p]
  /\ batch' = [batch EXCEPT ![p] = Tail(@)]
  /\ UNCHANGED <<service, isConnected, client, flusher, pending, held, network,
                 calls, producer, history>>

\* client?. reads the field: what is found is called even if stop() comes now.
Take(p) ==
  /\ batch[p] # <<>> /\ ~held[p] /\ client[p]
  /\ held' = [held EXCEPT ![p] = TRUE]
  /\ UNCHANGED <<service, isConnected, client, flusher, pending, batch, network,
                 calls, producer, history>>

\* Mutant: the shared isConnected decides, not the client.
PublishIfMarked(p) ==
  /\ held[p] /\ held' = [held EXCEPT ![p] = FALSE]
  /\ batch' = [batch EXCEPT ![p] = Tail(@)]
  /\ LET message == Head(batch[p]) IN
       IF link[p] = "up" /\ isConnected
       THEN \/ /\ sent' = [sent EXCEPT ![p] = Append(@, message)]
               /\ UNCHANGED refused
            \/ /\ refused' = [refused EXCEPT ![p] = @ \cup {message}]
               /\ UNCHANGED sent
       ELSE UNCHANGED <<sent, refused>>
  /\ UNCHANGED <<service, isConnected, client, flusher, pending, network,
                 calls, producer, queued, stopped, tangled>>

\* publish of the Paho client.  A connected client sends, or refuses with an
\* exception (too many messages in flight) that is logged; without a connection
\* it throws, too.
Publish(p) ==
  /\ held[p] /\ held' = [held EXCEPT ![p] = FALSE]
  /\ batch' = [batch EXCEPT ![p] = Tail(@)]
  /\ LET message == Head(batch[p]) IN
       IF link[p] = "up"
       THEN \/ /\ sent' = [sent EXCEPT ![p] = Append(@, message)]
               /\ UNCHANGED refused
            \/ /\ refused' = [refused EXCEPT ![p] = @ \cup {message}]
               /\ UNCHANGED sent
       ELSE UNCHANGED <<sent, refused>>
  /\ UNCHANGED <<service, isConnected, client, flusher, pending, network,
                 calls, producer, queued, stopped, tangled>>

\* Any other exception, of a topic that is not valid: the batch is given up.
Abandon(p) ==
  /\ held[p] /\ held' = [held EXCEPT ![p] = FALSE]
  /\ batch' = [batch EXCEPT ![p] = <<>>]
  /\ refused' = [refused EXCEPT ![p] = @ \cup Elements(batch[p])]
  /\ UNCHANGED <<service, isConnected, client, flusher, pending, network,
                 calls, producer, queued, sent, stopped, tangled>>

Timer(p) == Flush(p) \/ Skip(p) \/ Take(p) \/ Publish(p) \/ Abandon(p)

Messages == Receive \/ Enqueue \/ \E p \in Calls : Offer(p) \/ Timer(p)

-----------------------------------------------------------------------------
Next ==
  \/ \E c \in Calls, k \in Kinds : Call(c, k)
  \/ \E c \in Calls : Stop(c) \/ Start(c) \/ Network(c)
  \/ Messages

Spec == Init /\ [][Next]_vars

\* The threads run on and waitForCompletion gives up in time; the network and
\* the broker owe nothing.
FairSpec ==
  /\ Spec
  /\ \A c \in Calls : WF_vars(Stop(c) \/ Start(c))

ServiceType ==
  /\ mqttPublisher \in Calls \cup {None} /\ mqttNmeaListener \in Calls \cup {None}
  /\ listeners \subseteq Calls /\ isConnected \in BOOLEAN
PublisherType ==
  /\ client \in [Calls -> BOOLEAN] /\ flusher \in [Calls -> BOOLEAN]
  /\ pending \in [Calls -> Seq(1 .. MaxMessages)]
  /\ batch \in [Calls -> Seq(1 .. MaxMessages)]
  /\ held \in [Calls -> BOOLEAN] /\ \A p \in Calls : held[p] => batch[p] # <<>>
NetworkType == link \in [Calls -> Links] /\ losses \in 0 .. MaxLosses
CallsType ==
  /\ kind \in [Calls -> Kinds] /\ step \in [Calls -> Steps]
  /\ target \in [Calls -> Calls \cup {None}]
ProducerType ==
  /\ received \in 0 .. MaxMessages /\ todo \subseteq Calls
  /\ adding \in Calls \cup {None}
  /\ (todo # {} \/ adding # None) => received # 0
HistoryType ==
  /\ queued \in [Calls -> SUBSET (1 .. MaxMessages)]
  /\ sent \in [Calls -> Seq(1 .. MaxMessages)]
  /\ refused \in [Calls -> SUBSET (1 .. MaxMessages)]
  /\ stopped \subseteq Calls /\ tangled \in BOOLEAN

TypeOK == /\ ServiceType /\ PublisherType /\ NetworkType
          /\ CallsType /\ ProducerType /\ HistoryType

-----------------------------------------------------------------------------
MessagesSent(p) == Elements(sent[p])

\* A publisher sends messages in the order they were received and none twice,
\* through the queue, the batch and a connection that comes and goes (flushBatch).
\* As long as calls do not overlap and onStartCommand finds no publisher, no two
\* publishers send the same message (stopMqttPublisher before each restart).
SentOnceInOrder ==
  /\ \A p \in Calls : \A i, j \in DOMAIN sent[p] : i < j => sent[p][i] < sent[p][j]
  /\ ~tangled => \A p, q \in Calls : p # q => MessagesSent(p) \cap MessagesSent(q) = {}

\* Under the same condition, when no call is under way the service knows of
\* every listener and of every timer that still runs.
NoOrphan ==
  ~tangled /\ ~Busy =>
    /\ listeners = {mqttPublisher} \ {None} /\ mqttNmeaListener = mqttPublisher
    /\ \A p \in Calls : flusher[p] => p = mqttPublisher

\* Once stop() has returned its publisher calls its client no more, though its
\* last batch may still be under way and its client still connect: all that can
\* go out is the one message whose call had begun (stop, and client?.publish).
StoppedIsSilent ==
  [][\A p \in stopped :
       /\ held'[p] => held[p]
       /\ sent'[p] # sent[p] => held[p] /\ ~held'[p]]_vars

\* Every stop and every start comes to its end, even if the broker is silent
\* and two calls stop the same publisher (lifecycleLock, waitForCompletion).
CallsEnd == []<>~Busy

\* Until a connection is lost, what a running publisher has queued was sent, or
\* refused by a client that is connected, or still waits, whatever calls about
\* other publishers do to the shared isConnected (publishNmea, flushBatch, publish).
QueueLosesNothing ==
  \A p \in Calls :
    flusher[p] /\ losses = 0 =>
      queued[p] = MessagesSent(p) \cup refused[p]
                  \cup Elements(batch[p]) \cup Elements(pending[p])
=============================================================================

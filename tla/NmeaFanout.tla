----------------------------- MODULE NmeaFanout -----------------------------
(***************************************************************************)
(* From a decoded message to the clients of the admin web server: the text *)
(* nmea_msg that the demodulation thread fills and Run() empties           *)
(* (AIScatcherNDK.cpp), the listeners onNMEA calls (AisReceiverService.kt),*)
(* and the event streams and the buffer that AdminWebServer.kt keeps.      *)
(*                                                                         *)
(* Nothing protects nmea_msg: appending to it reads it and writes it back. *)
(* A client's pipe is a java.io.PipedInputStream: a write waits while it is*)
(* full and throws once either end is closed.  An event and a heartbeat are*)
(* written in two pieces, as the pipe may take a part of either.           *)
(***************************************************************************)
EXTENDS Naturals, Sequences, SequencesExt

CONSTANTS
  Clients,      \* event streams, each with a request, a pipe, a heartbeat thread
  Pollers,      \* requests for the buffer
  PipeSize,     \* pieces a pipe holds
  BufferSize,   \* lines the buffer holds
  MaxMessages   \* bound: decoded messages

ASSUME SizesAreNat == PipeSize \in Nat /\ BufferSize \in Nat /\ MaxMessages \in Nat
ASSUME BufferIsNoClient == "buffer" \notin Clients

VARIABLES
  \* AIScatcherNDK.cpp: the text, the thread that appends to it, Run()
  nmea_msg, adding, base, count, run, stop, batch,
  \* onNMEA: the listeners, those that this call has still to reach, the pieces
  \* of the event for the first of them
  nmeaListeners, todo, out,
  \* each event stream: its flag, the monitor of its pipe, the pipe and its reader
  isOpen, monitor, pipe, reading,
  \* its heartbeat thread, and the pieces of a heartbeat to write
  heart, beat,
  \* the buffer and those who ask for it
  registered, nmeaBuffer, poll,
  \* history: messages handed to onNMEA, those appended during a call of it, and
  \* whether one was being appended as the text was cleared
  delivered, late, raced,
  \* history of a client: where in delivered it came in, the messages of the whole
  \* events it got, the first half of the next, whether halves came out of order;
  \* history of pollers: whether two of them registered
  since, got, half, torn, doubled

engine  == <<nmea_msg, adding, base, count, run, stop, batch>>
callout == <<todo, out>>
streams == <<isOpen, monitor, pipe, reading, heart, beat>>
polls   == <<registered, nmeaBuffer, poll>>
facts   == <<delivered, late, raced>>
client  == <<since, got, half, torn>>
vars == <<engine, nmeaListeners, callout, streams, polls, facts, client, doubled>>

None == "none"
\* The two pieces of an event with these messages; a heartbeat has none.
Pieces(ms) == <<[messages |-> ms, part |-> 1], [messages |-> ms, part |-> 2]>>
At(c) == todo # <<>> /\ Head(todo) = c
Full(c) == Len(pipe[c]) >= PipeSize
\* The pipe is closed: a write throws.
Broken(c) == ~reading[c]

Init ==
  /\ nmea_msg = <<>> /\ adding = FALSE /\ base = <<>> /\ count = 0
  /\ run = "ended" /\ stop = FALSE /\ batch = <<>>
  /\ nmeaListeners = <<>> /\ todo = <<>> /\ out = <<>>
  /\ isOpen = [c \in Clients |-> FALSE] /\ monitor = [c \in Clients |-> None]
  /\ pipe = [c \in Clients |-> <<>>]
  /\ reading = [c \in Clients |-> FALSE]
  /\ heart = [c \in Clients |-> "none"] /\ beat = [c \in Clients |-> <<>>]
  /\ registered = FALSE /\ nmeaBuffer = <<>> /\ poll = [p \in Pollers |-> "idle"]
  /\ delivered = <<>> /\ late = {} /\ raced = FALSE
  /\ since = [c \in Clients |-> 0] /\ got = [c \in Clients |-> <<>>]
  /\ half = [c \in Clients |-> <<>>] /\ torn = [c \in Clients |-> FALSE]
  /\ doubled = FALSE

-----------------------------------------------------------------------------
(* The native side *)

\* NMEAcounter::Receive: nmea_msg += str, which reads the text ...
Add ==
  /\ run # "ended" /\ ~adding /\ count < MaxMessages
  /\ adding' = TRUE /\ base' = nmea_msg /\ count' = count + 1
  /\ UNCHANGED <<nmea_msg, run, stop, batch, nmeaListeners, callout, streams, polls,
                 facts, client, doubled>>

\* ... and writes it back.
Added ==
  /\ adding
  /\ nmea_msg' = Append(base, count) /\ adding' = FALSE /\ base' = <<>>
  /\ late' = IF run = "call" THEN late \cup {count} ELSE late
  /\ UNCHANGED <<count, run, stop, batch, nmeaListeners, callout, streams, polls,
                 delivered, raced, client, doubled>>

\* Run() up to its loop, and what asks it to leave the loop.
Play ==
  /\ run = "ended"
  /\ run' = "loop" /\ stop' = FALSE
  /\ UNCHANGED <<nmea_msg, adding, base, count, batch, nmeaListeners, callout, streams,
                 polls, facts, client, doubled>>
ForceStop ==
  /\ run # "ended" /\ ~stop
  /\ stop' = TRUE
  /\ UNCHANGED <<nmea_msg, adding, base, count, run, batch, nmeaListeners, callout,
                 streams, polls, facts, client, doubled>>

\* Mutant: the loop does not look at the stop flag.
TestNothing ==
  /\ run = "loop"
  /\ run' = "sleep"
  /\ UNCHANGED <<nmea_msg, adding, base, count, stop, batch, nmeaListeners, callout,
                 streams, polls, facts, client, doubled>>

\* The test of the loop, and the sleep of a second behind it; without text the loop
\* starts again.
Test ==
  /\ run = "loop" /\ ~stop
  /\ run' = "sleep"
  /\ UNCHANGED <<nmea_msg, adding, base, count, stop, batch, nmeaListeners, callout,
                 streams, polls, facts, client, doubled>>
Again ==
  /\ run = "sleep" /\ nmea_msg = <<>>
  /\ run' = "loop"
  /\ UNCHANGED <<nmea_msg, adding, base, count, stop, batch, nmeaListeners, callout,
                 streams, polls, facts, client, doubled>>

\* callbackNMEA if there is text, for the listeners of this moment
\* (a CopyOnWriteArrayList).
Call ==
  /\ run = "sleep" /\ nmea_msg # <<>>
  /\ run' = "call" /\ batch' = nmea_msg /\ todo' = nmeaListeners
  /\ delivered' = delivered \o nmea_msg
  /\ UNCHANGED <<nmea_msg, adding, base, count, stop, nmeaListeners, out, streams, polls,
                 late, raced, client, doubled>>

\* Mutant: the text is kept.
ClearNothing ==
  /\ run = "call" /\ todo = <<>>
  /\ run' = "loop" /\ batch' = <<>>
  /\ UNCHANGED <<nmea_msg, adding, base, count, stop, nmeaListeners, callout, streams,
                 polls, facts, client, doubled>>

\* nmea_msg = "", when every listener has returned
Clear ==
  /\ run = "call" /\ todo = <<>>
  /\ run' = "loop" /\ nmea_msg' = <<>> /\ batch' = <<>>
  /\ raced' = (raced \/ adding)
  /\ UNCHANGED <<adding, base, count, stop, nmeaListeners, callout, streams, polls,
                 delivered, late, client, doubled>>

\* A stop, or the device is gone: device->Stop() waits for the demodulation thread.
End ==
  /\ run = "loop" /\ ~adding
  /\ run' = "ended"
  /\ UNCHANGED <<nmea_msg, adding, base, count, stop, batch, nmeaListeners, callout,
                 streams, polls, facts, client, doubled>>

-----------------------------------------------------------------------------
(* Event streams: handleNmeaSse, its listener and its heartbeat thread *)

Connect(c) ==
  /\ heart[c] = "none"
  /\ isOpen' = [isOpen EXCEPT ![c] = TRUE] /\ reading' = [reading EXCEPT ![c] = TRUE]
  /\ heart' = [heart EXCEPT ![c] = "sleep"]
  /\ nmeaListeners' = Append(nmeaListeners, c)
  /\ since' = [since EXCEPT ![c] = Len(delivered)]
  /\ UNCHANGED <<engine, callout, monitor, pipe, beat, polls, facts, got, half,
                 torn, doubled>>

\* What both the listener and the heartbeat thread do when a write has failed.
GiveUp(c) ==
  /\ isOpen' = [isOpen EXCEPT ![c] = FALSE]
  /\ nmeaListeners' = RemoveFirst(nmeaListeners, c)

Skip(c) ==
  /\ run = "call" /\ At(c) /\ out = <<>> /\ ~isOpen[c]
  /\ todo' = Tail(todo)
  /\ UNCHANGED <<engine, nmeaListeners, out, streams, polls, facts, client, doubled>>

\* Mutant: the pipe is written to without its monitor.
EnterUnsynchronized(c) ==
  /\ run = "call" /\ At(c) /\ out = <<>> /\ isOpen[c]
  /\ monitor' = [monitor EXCEPT ![c] = "run"] /\ out' = Pieces(batch)
  /\ UNCHANGED <<engine, nmeaListeners, todo, isOpen, pipe, reading, heart, beat, polls,
                 facts, client, doubled>>

\* synchronized(pipedOut)
Enter(c) ==
  /\ run = "call" /\ At(c) /\ out = <<>> /\ isOpen[c] /\ monitor[c] = None
  /\ monitor' = [monitor EXCEPT ![c] = "run"] /\ out' = Pieces(batch)
  /\ UNCHANGED <<engine, nmeaListeners, todo, isOpen, pipe, reading, heart, beat,
                 polls, facts, client, doubled>>

Write(c) ==
  /\ At(c) /\ out # <<>> /\ ~Broken(c) /\ ~Full(c)
  /\ pipe' = [pipe EXCEPT ![c] = Append(@, Head(out))] /\ out' = Tail(out)
  /\ IF Tail(out) = <<>>
     THEN monitor' = [monitor EXCEPT ![c] = None] /\ todo' = Tail(todo)
     ELSE UNCHANGED <<monitor, todo>>
  /\ UNCHANGED <<engine, nmeaListeners, isOpen, reading, heart, beat, polls, facts,
                 client, doubled>>

\* catch: the listener removes itself.
Fail(c) ==
  /\ At(c) /\ out # <<>> /\ Broken(c)
  /\ GiveUp(c)
  /\ monitor' = [monitor EXCEPT ![c] = None] /\ out' = <<>> /\ todo' = Tail(todo)
  /\ UNCHANGED <<engine, pipe, reading, heart, beat, polls, facts, client, doubled>>

\* The heartbeat thread, every three seconds
BeatEnter(c) ==
  /\ heart[c] = "sleep" /\ monitor[c] = None
  /\ monitor' = [monitor EXCEPT ![c] = "heart"] /\ beat' = [beat EXCEPT ![c] = Pieces(<<>>)]
  /\ heart' = [heart EXCEPT ![c] = "write"]
  /\ UNCHANGED <<engine, nmeaListeners, callout, isOpen, pipe, reading, polls,
                 facts, client, doubled>>

BeatWrite(c) ==
  /\ heart[c] = "write" /\ ~Broken(c) /\ ~Full(c)
  /\ pipe' = [pipe EXCEPT ![c] = Append(@, Head(beat[c]))]
  /\ beat' = [beat EXCEPT ![c] = Tail(@)]
  /\ IF Len(beat[c]) = 1
     THEN /\ monitor' = [monitor EXCEPT ![c] = None]
          /\ heart' = [heart EXCEPT ![c] = IF isOpen[c] THEN "sleep" ELSE "finally"]
     ELSE UNCHANGED <<monitor, heart>>
  /\ UNCHANGED <<engine, nmeaListeners, callout, isOpen, reading, polls, facts,
                 client, doubled>>

BeatFail(c) ==
  /\ heart[c] = "write" /\ Broken(c)
  /\ monitor' = [monitor EXCEPT ![c] = None] /\ beat' = [beat EXCEPT ![c] = <<>>]
  /\ heart' = [heart EXCEPT ![c] = "finally"]
  /\ UNCHANGED <<engine, nmeaListeners, callout, isOpen, pipe, reading, polls,
                 facts, client, doubled>>

\* Mutant: the heartbeat thread leaves the listener to the next message.
BeatEndKeeping(c) ==
  /\ heart[c] = "finally"
  /\ isOpen' = [isOpen EXCEPT ![c] = FALSE] /\ heart' = [heart EXCEPT ![c] = "ended"]
  /\ UNCHANGED <<engine, nmeaListeners, callout, monitor, pipe, reading, beat, polls,
                 facts, client, doubled>>

BeatEnd(c) ==
  /\ heart[c] = "finally"
  /\ GiveUp(c)
  /\ heart' = [heart EXCEPT ![c] = "ended"]
  /\ UNCHANGED <<engine, callout, monitor, pipe, reading, beat, polls, facts, client,
                 doubled>>

\* The web server's thread copies the pipe to the socket; what the client makes
\* of the pieces is history.
Read(c) ==
  /\ reading[c] /\ pipe[c] # <<>>
  /\ LET p == Head(pipe[c])
         whole == p.part = 2 /\ half[c] = <<[p EXCEPT !.part = 1]>> IN
     /\ half' = [half EXCEPT ![c] = IF p.part = 1 THEN <<p>> ELSE <<>>]
     /\ got' = [got EXCEPT ![c] = IF whole THEN @ \o p.messages ELSE @]
     /\ torn' = [torn EXCEPT ![c] = @ \/ (p.part = 1 /\ half[c] # <<>>)
                                      \/ (p.part = 2 /\ ~whole)]
  /\ pipe' = [pipe EXCEPT ![c] = Tail(@)]
  /\ UNCHANGED <<engine, nmeaListeners, callout, isOpen, monitor, reading, heart,
                 beat, polls, facts, since, doubled>>

\* The client disconnects, or the stream has come to its end: the response closes
\* the pipe.
Hangup(c) ==
  /\ reading[c]
  /\ reading' = [reading EXCEPT ![c] = FALSE] /\ pipe' = [pipe EXCEPT ![c] = <<>>]
  /\ since' = [since EXCEPT ![c] = 0] /\ got' = [got EXCEPT ![c] = <<>>]
  /\ half' = [half EXCEPT ![c] = <<>>]
  /\ UNCHANGED <<engine, nmeaListeners, callout, isOpen, monitor, heart, beat, polls,
                 facts, torn, doubled>>

-----------------------------------------------------------------------------
(* The buffer: ensureNmeaBufferListener *)

\* Once there is a listener a request only reads the buffer.
Look(p) ==
  /\ poll[p] = "idle" /\ ~registered
  /\ poll' = [poll EXCEPT ![p] = "unregistered"]
  /\ UNCHANGED <<engine, nmeaListeners, callout, streams, registered, nmeaBuffer, facts,
                 client, doubled>>

Register(p) ==
  /\ poll[p] = "unregistered"
  /\ registered' = TRUE /\ doubled' = (doubled \/ registered)
  /\ nmeaListeners' = Append(nmeaListeners, "buffer")
  /\ poll' = [poll EXCEPT ![p] = "idle"]
  /\ UNCHANGED <<engine, callout, streams, nmeaBuffer, facts, client>>

\* Mutants: no line ever goes, or the newest do.
StoreAll ==
  /\ run = "call" /\ At("buffer")
  /\ nmeaBuffer' = nmeaBuffer \o batch /\ todo' = Tail(todo)
  /\ UNCHANGED <<engine, nmeaListeners, out, streams, registered, poll, facts, client,
                 doubled>>
StoreOldest ==
  LET lines == nmeaBuffer \o batch IN
  /\ run = "call" /\ At("buffer")
  /\ nmeaBuffer' = IF Len(lines) > BufferSize THEN SubSeq(lines, 1, BufferSize) ELSE lines
  /\ todo' = Tail(todo)
  /\ UNCHANGED <<engine, nmeaListeners, out, streams, registered, poll, facts, client,
                 doubled>>

\* The buffer's listener: every line gets a number; the oldest lines go.
Store ==
  LET lines == nmeaBuffer \o batch IN
  /\ run = "call" /\ At("buffer")
  /\ nmeaBuffer' = IF Len(lines) > BufferSize
                   THEN SubSeq(lines, Len(lines) - BufferSize + 1, Len(lines)) ELSE lines
  /\ todo' = Tail(todo)
  /\ UNCHANGED <<engine, nmeaListeners, out, streams, registered, poll, facts, client,
                 doubled>>

-----------------------------------------------------------------------------
RunThread == Test \/ Again \/ Call \/ Clear \/ End \/ Store
             \/ \E c \in Clients : Skip(c) \/ Enter(c) \/ Write(c) \/ Fail(c)
Heartbeat(c) == BeatEnter(c) \/ BeatWrite(c) \/ BeatFail(c) \/ BeatEnd(c)

Next ==
  \/ Add \/ Added \/ Play \/ ForceStop \/ RunThread
  \/ \E c \in Clients : Connect(c) \/ Heartbeat(c) \/ Read(c) \/ Hangup(c)
  \/ \E p \in Pollers : Look(p) \/ Register(p)

Spec == Init /\ [][Next]_vars

\* Threads of the app run on; nobody makes a client read.  Whoever wants the monitor
\* of a pipe gets it some time, as the other leaves it alone for a second or three.
FairSpec ==
  /\ Spec
  /\ WF_vars(RunThread) /\ WF_vars(Added)
  /\ \A c \in Clients :
       WF_vars(Heartbeat(c)) /\ SF_vars(Enter(c)) /\ SF_vars(BeatEnter(c))

Messages == Seq(1..MaxMessages)
Piece == [messages : Messages, part : {1, 2}]
Listeners == Clients \cup {"buffer"}

EngineType ==
  /\ {nmea_msg, base, batch} \subseteq Messages /\ adding \in BOOLEAN /\ count \in 0..MaxMessages
  /\ run \in {"ended", "loop", "sleep", "call"} /\ stop \in BOOLEAN
CalloutType ==
  /\ nmeaListeners \in Seq(Listeners) /\ todo \in Seq(Listeners)
  /\ out \in Seq(Piece) /\ Len(out) <= 2
StreamsType ==
  /\ {isOpen, reading} \subseteq [Clients -> BOOLEAN]
  /\ monitor \in [Clients -> {None, "run", "heart"}]
  /\ heart \in [Clients -> {"none", "sleep", "write", "finally", "ended"}]
  /\ {pipe, beat} \subseteq [Clients -> Seq(Piece)]
  /\ \A c \in Clients : Len(pipe[c]) <= PipeSize /\ Len(beat[c]) <= 2
PollsType ==
  /\ registered \in BOOLEAN /\ nmeaBuffer \in Messages /\ Len(nmeaBuffer) <= BufferSize
  /\ poll \in [Pollers -> {"idle", "unregistered"}]
HistoryType ==
  /\ delivered \in Messages /\ late \subseteq 1..MaxMessages /\ {raced, doubled} \subseteq BOOLEAN
  /\ since \in [Clients -> Nat] /\ got \in [Clients -> Messages]
  /\ half \in [Clients -> Seq(Piece)] /\ torn \in [Clients -> BOOLEAN]

\* Who holds the monitor of a pipe is in the middle of writing to it.
MonitorsHeld ==
  \A c \in Clients : /\ monitor[c] = "run" <=> At(c) /\ out # <<>>
                     /\ monitor[c] = "heart" <=> beat[c] # <<>>

TypeOK == EngineType /\ CalloutType /\ StreamsType /\ PollsType /\ HistoryType /\ MonitorsHeld

-----------------------------------------------------------------------------
\* The messages of the events whose last piece is in these pieces.
Ended(pieces) ==
  FlattenSeq([i \in DOMAIN pieces |-> IF pieces[i].part = 2 THEN pieces[i].messages ELSE <<>>])

\* A client that reads sees whole events, and in them everything that was handed
\* to onNMEA since it came, in order and once: what it has not read is in its
\* pipe, or about to be written (handleNmeaSse).
StreamWhole ==
  \A c \in Clients : reading[c] =>
    /\ ~torn[c]
    /\ got[c] \o Ended(pipe[c]) \o (IF c \in ToSet(todo) THEN batch ELSE <<>>)
         = SubSeq(delivered, since[c] + 1, Len(delivered))

\* onNMEA gets each message once and in order, unless one was being appended at
\* the moment Run() cleared the text, and the only messages it never gets are
\* those that were appended while it was at work on the ones before (callbackNMEA
\* and the assignment behind it).
HandedOver ==
  /\ ~raced => \A i, j \in DOMAIN delivered : i < j => delivered[i] < delivered[j]
  /\ (1..count) \ ToSet(delivered \o nmea_msg \o base \o <<count>>) \subseteq late

\* The buffer holds the latest messages handed to its listener, without a gap,
\* unless two first requests both registered one (ensureNmeaBufferListener).
BufferIsLatest ==
  ~doubled /\ "buffer" \notin ToSet(todo) => IsSuffix(nmeaBuffer, delivered)

\* onNMEA waits for a client that does not read.
Stuck == \E c \in Clients : At(c) /\ Full(c) /\ ~Broken(c)

\* Nothing else holds Run() up: a call of onNMEA returns, and a stop ends Run(),
\* unless a client has left its pipe full.
StopEndsRun == stop ~> (run = "ended" \/ Stuck)

\* A client that is gone is forgotten, also if no message ever comes again: the
\* heartbeat finds out and removes the listener.
GoneIsForgotten ==
  \A c \in Clients :
    (heart[c] # "none" /\ ~reading[c]) ~> (heart[c] = "ended" /\ ~Contains(nmeaListeners, c))

=============================================================================

---------------------------- MODULE NmeaAssembly ----------------------------
(***************************************************************************)
(* How the NMEA model puts AIS messages together from VDM lines            *)
(* (Marine/NMEA.cpp): a line of a message in one part goes on as it is;    *)
(* the lines of a longer one are queued until the last one comes.  A       *)
(* stream is a talker on a channel, and the lines of all streams share one *)
(* queue.                                                                  *)
(*                                                                         *)
(* Any line may come at any time: what relays the lines may lose, repeat,  *)
(* delay or mix them, and the IDs of messages come round again.  A line    *)
(* whose checksum is wrong and tested counts as one that does not come.    *)
(***************************************************************************)
EXTENDS Integers, Sequences, FiniteSets, TLC

CONSTANTS
  Streams,
  Values,               \* what the one character of a count or a number can mean
  IDs,                  \* the IDs of messages
  Stale,                \* the age above which clean takes any line: 3 s
  MaxLines, MaxTime     \* bounds: lines that come, and the clock

ASSUME ConstantsAssumption ==
  /\ Values \subseteq Int /\ Stale \in Nat /\ MaxLines \in Nat /\ MaxTime \in Nat

VARIABLES
  queue,       \* lines of messages that are not complete, of all streams; at is
               \* a line's place in arrived, by which the lines of a stream are in order
  clock,
  arrived,     \* history: the lines of messages in more parts that came, by stream
  sent,        \* history: the messages sent, with the places of their parts in arrived
  refused      \* history: the messages put together that do not validate

vars == <<queue, clock, arrived, sent, refused>>

\* A line gives a count of parts and a number, which may be any.
Line == [count : Values, number : Values, ID : IDs]

Init ==
  /\ queue = {} /\ clock = 0
  /\ arrived = [s \in Streams |-> <<>>] /\ sent = {} /\ refused = {}

-----------------------------------------------------------------------------

Of(q, s) == {l \in q : l.stream = s}

\* Mutant: the lines of every stream go.
CleanAll(q, s) == {}

\* clean: the stream's lines go, and whoever's are too old.
Clean(q, s) == {l \in q : l.stream # s /\ l.timestamp + Stale >= clock}

\* The line of the stream that was queued last.
Latest(s) == CHOOSE l \in Of(queue, s) : \A k \in Of(queue, s) : k.at <= l.at

\* Mutant: any line of the stream is taken for one of the message.
SearchStream(l) == IF Of(queue, l.stream) = {} THEN 0 ELSE Latest(l.stream).number

\* search: the number of the stream's latest line, 0 if there is none, -1 if
\* it is of another message.
Search(l) ==
  IF Of(queue, l.stream) = {} THEN 0
  ELSE IF Latest(l.stream).count = l.count /\ Latest(l.stream).ID = l.ID
  THEN Latest(l.stream).number
  ELSE -1

Continues(l) == Search(l) # -1 /\ l.number = Search(l) + 1

\* Mutant: what came before stays when a line does not continue it.
QueueKeeping(l) == queue \cup {l}

\* The queue with the line in it.
Queue(l) == (IF Continues(l) THEN queue ELSE Clean(queue, l.stream)) \cup {l}

\* The lines of the queue that make up the message.
Collect(q, l) == {k \in Of(q, l.stream) : k.count = l.count /\ k.ID = l.ID}

\* The message is sent if its payload validates, which is not modelled further.
Send(m) ==
  \/ sent' = sent \cup {m} /\ UNCHANGED refused
  \/ refused' = refused \cup {m} /\ UNCHANGED sent

\* submitAIS for a line of a message in more parts: one that neither continues
\* the queue nor begins a message is dropped, and the last part makes a message.
Submit(l) ==
  IF ~Continues(l) /\ l.number # 1
  THEN queue' = Clean(queue, l.stream) /\ UNCHANGED <<sent, refused>>
  ELSE IF l.number # l.count
  THEN queue' = Queue(l) /\ UNCHANGED <<sent, refused>>
  ELSE /\ Send([stream |-> l.stream, parts |-> {k.at : k \in Collect(Queue(l), l)}])
       /\ queue' = Clean(Queue(l), l.stream)

\* processAIS: the line gets its time.  A message in one part passes the queue by.
Process(s, line) ==
  IF line.count = 1 THEN UNCHANGED <<queue, arrived, sent, refused>>
  ELSE /\ Submit([stream |-> s, at |-> Len(arrived[s]) + 1, timestamp |-> clock,
                  count |-> line.count, number |-> line.number, ID |-> line.ID])
       /\ arrived' = [arrived EXCEPT ![s] = Append(@,
            [count |-> line.count, number |-> line.number, ID |-> line.ID, time |-> clock])]

-----------------------------------------------------------------------------
(* The lines on their way *)

Came == {p \in Streams \X (1..MaxLines) : p[2] <= Len(arrived[p[1]])}

Arrive(s) ==
  /\ Cardinality(Came) < MaxLines
  /\ \E line \in Line : Process(s, line)
  /\ UNCHANGED clock

Tick ==
  /\ clock < MaxTime /\ clock' = clock + 1
  /\ UNCHANGED <<queue, arrived, sent, refused>>

Next == (\E s \in Streams : Arrive(s)) \/ Tick

Spec == Init /\ [][Next]_vars

-----------------------------------------------------------------------------
Symmetry == Permutations(Streams) \cup Permutations(IDs)

\* The lines first to last of what came on s begin a message: numbered from 1, with
\* nothing of the stream in between.
Begins(s, first, last) ==
  \A i \in first..last : /\ arrived[s][i].number = i - first + 1
                        /\ arrived[s][i].count = arrived[s][first].count
                        /\ arrived[s][i].ID = arrived[s][first].ID

\* They are the whole message.
IsRun(s, first, last) ==
  first <= last /\ Begins(s, first, last) /\ arrived[s][first].count = last - first + 1

\* A line of the queue is what came at its place.
Entry(s, i) == [stream |-> s, at |-> i, timestamp |-> arrived[s][i].time,
  count |-> arrived[s][i].count, number |-> arrived[s][i].number, ID |-> arrived[s][i].ID]

\* The queue has of stream s the lines from some place on of a message that lacks its
\* last part; the lines before that place are too old.
Waits(s, first, from) ==
  LET last == Len(arrived[s])
  IN /\ first <= from /\ from <= last
     /\ Begins(s, first, last)
     /\ arrived[s][last].count < 1 \/ arrived[s][last].number < arrived[s][last].count
     /\ Of(queue, s) = {Entry(s, i) : i \in from..last}
     /\ \A i \in first..from - 1 : arrived[s][i].time + Stale < clock

\* The queue has nothing of a stream, or lines of the one message that is under way,
\* numbered in a row.  A message whose count is below 1 stays under way for good, but
\* holds no more lines than there are numbers, and gives way to the next line that
\* does not continue it.
TypeOK ==
  /\ clock \in 0..MaxTime
  /\ \A s \in Streams : \A i \in 1..Len(arrived[s]) :
       arrived[s][i] \in [count : Values \ {1}, number : Values, ID : IDs, time : 0..clock]
  /\ \A l \in queue : l.stream \in Streams
  /\ \A s \in Streams : Of(queue, s) = {} \/ \E first, from \in 1..Len(arrived[s]) : Waits(s, first, from)

\* A line is too old when another comes.
TooOld(s, i, j) == arrived[s][j].time - arrived[s][i].time > Stale

\* The messages that were put together.
Built == sent \cup refused

\* A message whose parts come in order, with nothing of its stream in between and
\* none too old, is put together from just these, whatever came before and whatever
\* comes on other streams meanwhile: it is sent, unless it does not validate.
RunsAreBuilt ==
  \A s \in Streams : \A first, last \in 1..Len(arrived[s]) :
    IsRun(s, first, last) /\ ~TooOld(s, first, last)
      => [stream |-> s, parts |-> first..last] \in Built

\* What is put together is a message whose parts came in order, with nothing of its
\* stream in between.  The parts it lacks are the first ones, and were too old.
SentAreRuns ==
  \A m \in Built : m.stream \in Streams /\ \E first, from, last \in 1..Len(arrived[m.stream]) :
    /\ IsRun(m.stream, first, last)
    /\ m.parts = from..last /\ first <= from /\ from <= last
    /\ \A i \in first..from - 1 : TooOld(m.stream, i, last)

\* The comment of submitAIS: "multiline messages are now complete and in the right
\* order".
SentWhole == \A m \in sent : \A i \in m.parts : Cardinality(m.parts) = arrived[m.stream][i].count
=============================================================================

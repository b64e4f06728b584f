-------------------------- MODULE NmeaFanoutProofs --------------------------
(***************************************************************************)
(* Safety of NmeaFanout, proved for any number of clients, requests and    *)
(* messages, and pipes and a buffer of any size.                           *)
(***************************************************************************)
EXTENDS NmeaFanout, SequenceTheorems, WellFoundedInduction, TLAPS

-----------------------------------------------------------------------------
(* Sequences *)

\* What is in a sequence that is appended to, put together, or shortened.
LEMMA Appended ==
  ASSUME NEW S, NEW s \in Seq(S), NEW e \in S
  PROVE  Append(s, e) \in Seq(S) /\ ToSet(Append(s, e)) = ToSet(s) \cup {e}
<1>1. /\ Append(s, e) \in Seq(S) /\ Len(Append(s, e)) = Len(s) + 1
      /\ \A i \in 1..Len(s) : Append(s, e)[i] = s[i]
      /\ Append(s, e)[Len(s) + 1] = e
  BY AppendProperties
<1>2. DOMAIN Append(s, e) = 1..Len(s) + 1 /\ DOMAIN s = 1..Len(s) /\ Len(s) \in Nat
  BY <1>1, LenProperties
<1> DEFINE t == Append(s, e)
<1> HIDE DEF t
<1>3. /\ DOMAIN t = 1..Len(s) + 1 /\ t[Len(s) + 1] = e
      /\ \A i \in 1..Len(s) : t[i] = s[i]
  BY <1>1, <1>2 DEF t
<1>4. {t[i] : i \in DOMAIN t} = {s[i] : i \in DOMAIN s} \cup {e}
  BY <1>2, <1>3
<1>5. QED
  BY <1>1, <1>4, Zenon DEF ToSet, t

LEMMA Joined ==
  ASSUME NEW S, NEW s \in Seq(S), NEW t \in Seq(S)
  PROVE  s \o t \in Seq(S) /\ ToSet(s \o t) = ToSet(s) \cup ToSet(t)
<1>1. Range(s \o t) = Range(s) \cup Range(t)
  BY RangeConcatenation
<1>2. Range(s \o t) = ToSet(s \o t) /\ Range(s) = ToSet(s) /\ Range(t) = ToSet(t)
  BY DEF Range, ToSet
<1>3. QED
  BY <1>1, <1>2, ConcatProperties

LEMMA Shortened ==
  ASSUME NEW S, NEW s \in Seq(S), s # <<>>
  PROVE  /\ Tail(s) \in Seq(S) /\ Head(s) \in S /\ Len(Tail(s)) = Len(s) - 1
         /\ ToSet(s) = {Head(s)} \cup ToSet(Tail(s))
<1>1. /\ Head(s) \in S /\ Tail(s) \in Seq(S) /\ Len(Tail(s)) = Len(s) - 1
      /\ \A i \in 1 .. Len(Tail(s)) : Tail(s)[i] = s[i + 1]
  BY HeadTailProperties
<1>2. /\ DOMAIN s = 1..Len(s) /\ DOMAIN Tail(s) = 1..Len(s) - 1 /\ Len(s) \in Nat \ {0}
      /\ Head(s) = s[1]
  BY <1>1, LenProperties, EmptySeq
<1> DEFINE t == Tail(s)
<1> HIDE DEF t
<1>3. DOMAIN t = 1..Len(s) - 1 /\ \A i \in 1..Len(s) - 1 : t[i] = s[i + 1]
  BY <1>1, <1>2 DEF t
<1>4. {s[i] : i \in DOMAIN s} = {Head(s)} \cup {t[i] : i \in DOMAIN t}
  <2>1. ASSUME NEW i \in DOMAIN s PROVE s[i] \in {Head(s)} \cup {t[j] : j \in DOMAIN t}
    <3>1. CASE i = 1
      BY <1>2, <3>1
    <3>2. CASE i # 1
      <4>1. i - 1 \in DOMAIN t /\ t[i - 1] = s[i]
        BY <1>2, <1>3, <3>2
      <4>2. QED
        BY <4>1
    <3>3. QED
      BY <3>1, <3>2
  <2>2. ASSUME NEW j \in DOMAIN t PROVE t[j] \in {s[i] : i \in DOMAIN s}
    BY <1>2, <1>3, SMTT(60)
  <2>3. Head(s) \in {s[i] : i \in DOMAIN s}
    BY <1>2
  <2>4. QED
    BY <2>1, <2>2, <2>3
<1>5. QED
  BY <1>1, <1>4, Zenon DEF ToSet, t

LEMMA Emptied ==
  ASSUME NEW S, NEW s \in Seq(S)
  PROVE  s = <<>> <=> Len(s) = 0
BY EmptySeq

LEMMA Nothing == ToSet(<<>>) = {} /\ \A S : <<>> \in Seq(S)
BY EmptySeq DEF ToSet

\* A listener that was registered once.
Single(s, x) == \A i, j \in DOMAIN s : s[i] = x /\ s[j] = x => i = j

LEMMA SingleAppended ==
  ASSUME NEW S, NEW s \in Seq(S), NEW e \in S, NEW x, Single(s, x), e # x \/ x \notin ToSet(s)
  PROVE  Single(Append(s, e), x)
<1>1. /\ Len(Append(s, e)) = Len(s) + 1 /\ Append(s, e) \in Seq(S)
      /\ \A i \in 1..Len(s) : Append(s, e)[i] = s[i]
      /\ Append(s, e)[Len(s) + 1] = e
  BY AppendProperties
<1>2. DOMAIN Append(s, e) = 1..Len(s) + 1 /\ DOMAIN s = 1..Len(s) /\ Len(s) \in Nat
  BY <1>1, LenProperties
<1> DEFINE t == Append(s, e)
<1> HIDE DEF t
<1>3. /\ DOMAIN t = 1..Len(s) + 1 /\ t[Len(s) + 1] = e
      /\ \A i \in 1..Len(s) : t[i] = s[i]
  BY <1>1, <1>2 DEF t
<1>4. \A i \in DOMAIN s : s[i] = x => e # x
  BY DEF ToSet
<1>5. Single(t, x)
  BY <1>2, <1>3, <1>4 DEF Single
<1>6. QED
  BY <1>5 DEF t

LEMMA SingleShortened ==
  ASSUME NEW S, NEW s \in Seq(S), s # <<>>, NEW x, Single(s, x)
  PROVE  Single(Tail(s), x) /\ (Head(s) = x => x \notin ToSet(Tail(s)))
<1>1. /\ Tail(s) \in Seq(S) /\ Len(Tail(s)) = Len(s) - 1
      /\ \A i \in 1 .. Len(Tail(s)) : Tail(s)[i] = s[i + 1]
  BY HeadTailProperties
<1>2. /\ DOMAIN s = 1..Len(s) /\ DOMAIN Tail(s) = 1..Len(s) - 1 /\ Len(s) \in Nat \ {0}
      /\ Head(s) = s[1]
  BY <1>1, LenProperties, EmptySeq
<1> DEFINE t == Tail(s)
<1> HIDE DEF t
<1>3. DOMAIN t = 1..Len(s) - 1 /\ \A i \in 1..Len(s) - 1 : t[i] = s[i + 1]
  BY <1>1, <1>2 DEF t
<1>4. Single(t, x)
  BY <1>2, <1>3, SMTT(60) DEF Single
<1>5. Head(s) = x => \A i \in DOMAIN t : t[i] # x
  BY <1>2, <1>3, SMTT(60) DEF Single
<1>6. QED
  BY <1>4, <1>5 DEF ToSet, t

\* A set of numbers has a first one.
LEMMA LeastOf ==
  ASSUME NEW T \in SUBSET Nat, T # {}
  PROVE  \E x \in T : \A y \in T : x <= y
<1> DEFINE R == OpToRel(<, Nat)
<1>1. PICK x \in T : \A y \in T : ~ (<<y, x>> \in R)
  <2>1. IsWellFoundedOn(R, Nat)
    BY NatLessThanWellFounded
  <2> HIDE DEF R
  <2>2. QED
    BY <2>1, WFMin, Zenon
<1>2. \A y \in T : ~ (y < x)
  <2>1. \A y \in T : <<y, x>> \in Nat \X Nat /\ <<y, x>>[1] = y /\ <<y, x>>[2] = x
    OBVIOUS
  <2>2. QED
    BY <1>1, <2>1, Zenon DEF OpToRel
<1>3. \A y \in T : x <= y
  BY <1>2
<1>4. QED
  BY <1>3

LEMMA FirstOf ==
  ASSUME NEW T \in SUBSET Nat, T # {}
  PROVE  Min(T) \in T
BY LeastOf, Zenon DEF Min

\* Taking a listener out leaves the others.
LEMMA Removed ==
  ASSUME NEW S, NEW s \in Seq(S), NEW x, NEW y, x # y
  PROVE  /\ RemoveFirst(s, x) \in Seq(S)
         /\ y \in ToSet(s) => y \in ToSet(RemoveFirst(s, x))
         /\ ToSet(RemoveFirst(s, x)) \subseteq ToSet(s)
         /\ Single(s, y) => Single(RemoveFirst(s, x), y)
<1>1. CASE ~ \E i \in 1..Len(s) : s[i] = x
  <2>1. RemoveFirst(s, x) = s
    BY <1>1 DEF RemoveFirst
  <2>2. QED
    BY <2>1
<1>2. CASE \E i \in 1..Len(s) : s[i] = x
  <2> DEFINE I == {i \in 1..Len(s) : s[i] = x}
             k == Min(I)
             t == RemoveFirst(s, x)
  <2>1. Len(s) \in Nat /\ DOMAIN s = 1..Len(s)
    BY LenProperties
  <2>2. k \in 1..Len(s) /\ s[k] = x
    <3>1. I \in SUBSET Nat /\ I # {}
      BY <1>2, <2>1
    <3> HIDE DEF I
    <3>2. k \in I
      BY <3>1, FirstOf
    <3>3. QED
      BY <3>2 DEF I
  <2>3. t = SubSeq(s, 1, k - 1) \o SubSeq(s, k + 1, Len(s))
    BY <1>2, Zenon DEF RemoveFirst, RemoveAt, SelectInSeq
  <2> HIDE DEF k, t
  <2>4. /\ SubSeq(s, 1, k - 1) \in Seq(S) /\ Len(SubSeq(s, 1, k - 1)) = k - 1
        /\ \A i \in 1..k - 1 : SubSeq(s, 1, k - 1)[i] = s[i]
    <3>1. 1 \in Int /\ k - 1 \in Int /\ \A i \in 1..k - 1 : s[i] \in S
      BY <2>1, <2>2, ElementOfSeq
    <3>2. /\ SubSeq(s, 1, k - 1) \in Seq(S)
          /\ Len(SubSeq(s, 1, k - 1)) = IF 1 <= k - 1 THEN k - 1 - 1 + 1 ELSE 0
          /\ \A i \in 1..k - 1 - 1 + 1 : SubSeq(s, 1, k - 1)[i] = s[1 + i - 1]
      BY <3>1, SubSeqProperties
    <3>3. k - 1 - 1 + 1 = k - 1 /\ \A i \in 1..k - 1 : 1 + i - 1 = i
      BY <2>1, <2>2
    <3>4. QED
      BY <2>1, <2>2, <3>2, <3>3, SMTT(60)
  <2>5. /\ SubSeq(s, k + 1, Len(s)) \in Seq(S) /\ Len(SubSeq(s, k + 1, Len(s))) = Len(s) - k
        /\ \A i \in 1..Len(s) - k : SubSeq(s, k + 1, Len(s))[i] = s[k + i]
    <3>1. k + 1 \in Int /\ Len(s) \in Int /\ \A i \in k + 1..Len(s) : s[i] \in S
      BY <2>1, <2>2, ElementOfSeq
    <3>2. /\ SubSeq(s, k + 1, Len(s)) \in Seq(S)
          /\ Len(SubSeq(s, k + 1, Len(s))) = IF k + 1 <= Len(s) THEN Len(s) - (k + 1) + 1 ELSE 0
          /\ \A i \in 1..Len(s) - (k + 1) + 1 : SubSeq(s, k + 1, Len(s))[i] = s[k + 1 + i - 1]
      BY <3>1, SubSeqProperties, SMTT(60)
    <3>3. Len(s) - (k + 1) + 1 = Len(s) - k
      BY <2>1, <2>2
    <3>4. ASSUME NEW i \in 1..Len(s) - k PROVE SubSeq(s, k + 1, Len(s))[i] = s[k + i]
      <4>1. k + 1 + i - 1 = k + i
        BY <2>2
      <4>2. SubSeq(s, k + 1, Len(s))[i] = s[k + 1 + i - 1]
        BY <3>2, <3>3
      <4>3. QED
        BY <4>1, <4>2, Zenon
    <3>5. Len(SubSeq(s, k + 1, Len(s))) = Len(s) - k
      <4>1. k \in 1..Len(s)
        BY <2>2
      <4>2. Len(s) \in Nat
        BY <2>1
      <4>3. (IF k + 1 <= Len(s) THEN Len(s) - k ELSE 0) = Len(s) - k
        BY <4>1, <4>2, SMTT(60)
      <4>4. QED
        BY <3>2, <3>3, <4>3
    <3>6. QED
      BY <3>2, <3>4, <3>5
  <2> DEFINE a == SubSeq(s, 1, k - 1)
             b == SubSeq(s, k + 1, Len(s))
  <2> HIDE DEF a, b
  <2>6. /\ t \in Seq(S) /\ Len(t) = Len(a) + Len(b)
        /\ \A i \in 1 .. Len(a) + Len(b) : t[i] = IF i <= Len(a) THEN a[i] ELSE b[i - Len(a)]
    BY <2>3, <2>4, <2>5, ConcatProperties, SMTT(60) DEF a, b
  <2>7. /\ DOMAIN t = 1..Len(s) - 1
        /\ \A i \in 1..k - 1 : t[i] = s[i]
        /\ \A i \in k..Len(s) - 1 : t[i] = s[i + 1]
    <3>1. Len(a) = k - 1 /\ Len(b) = Len(s) - k
      BY <2>4, <2>5 DEF a, b
    <3>2. DOMAIN t = 1..Len(s) - 1
      BY <2>1, <2>2, <2>6, <3>1, LenProperties, SMTT(60)
    <3>3. ASSUME NEW i \in 1..k - 1 PROVE t[i] = s[i]
      BY <2>1, <2>2, <2>4, <2>6, <3>1, SMTT(60) DEF a
    <3>4. ASSUME NEW i \in k..Len(s) - 1 PROVE t[i] = s[i + 1]
      <4>1. i \in 1..Len(a) + Len(b) /\ ~(i <= Len(a)) /\ i - Len(a) = i - k + 1 /\ i - k + 1 \in 1..Len(s) - k
        BY <2>1, <2>2, <3>1
      <4>2. t[i] = b[i - k + 1]
        BY <2>6, <4>1
      <4>3. b[i - k + 1] = s[k + (i - k + 1)] /\ k + (i - k + 1) = i + 1
        BY <2>2, <2>5, <4>1 DEF b
      <4>4. QED
        BY <4>2, <4>3
    <3>5. QED
      BY <3>2, <3>3, <3>4
  <2>8. y \in ToSet(s) => y \in ToSet(t)
    <3>1. SUFFICES ASSUME NEW i \in 1..Len(s), s[i] = y PROVE \E j \in DOMAIN t : t[j] = y
      BY <2>1 DEF ToSet
    <3>2. CASE i < k
      BY <2>1, <2>2, <2>7, <3>1, <3>2
    <3>3. CASE i > k
      <4>1. i - 1 \in k..Len(s) - 1 /\ i - 1 + 1 = i
        BY <2>1, <2>2, <3>3
      <4>2. i - 1 \in DOMAIN t
        BY <2>1, <2>2, <2>7, <4>1
      <4>3. t[i - 1] = s[i]
        BY <2>7, <4>1
      <4>4. QED
        BY <3>1, <4>2, <4>3
    <3>4. i # k
      BY <2>2, <3>1
    <3>5. QED
      BY <2>2, <3>2, <3>3, <3>4
  <2>9. ToSet(t) \subseteq ToSet(s)
    BY <2>1, <2>2, <2>7, SMTT(60) DEF ToSet
  <2>10. Single(s, y) => Single(t, y)
    <3> DEFINE place(i) == IF i < k THEN i ELSE i + 1
    <3>1. ASSUME NEW i \in DOMAIN t PROVE place(i) \in DOMAIN s /\ t[i] = s[place(i)] /\ i \in Int
      BY <2>1, <2>2, <2>7
    <3>2. ASSUME NEW i \in Int, NEW j \in Int, place(i) = place(j) PROVE i = j
      BY <2>1, <2>2, <3>2
    <3> HIDE DEF place
    <3>3. QED
      BY <3>1, <3>2 DEF Single
  <2>11. QED
    BY <2>6, <2>8, <2>9, <2>10 DEF t
<1>3. QED
  BY <1>1, <1>2

-----------------------------------------------------------------------------
(* Types *)

\* What the threads leave behind them: the demodulation thread between its read
\* and its write, the callback between two calls and two listeners, and a
\* heartbeat between two beats.
Threads ==
  /\ adding => count > 0 /\ nmea_msg \in {base, <<>>}
  /\ ~adding => base = <<>>
  /\ run # "call" => todo = <<>>
  /\ out # <<>> => todo # <<>> /\ Head(todo) \in Clients
  /\ \A c \in Clients : heart[c] = "write" <=> beat[c] # <<>>

LEMMA Frame ==
  ASSUME TypeOK
  PROVE  /\ UNCHANGED engine => EngineType'
         /\ UNCHANGED <<nmeaListeners, callout>> => CalloutType'
         /\ UNCHANGED streams => StreamsType'
         /\ UNCHANGED polls => PollsType'
         /\ UNCHANGED <<facts, client, doubled>> => HistoryType'
         /\ UNCHANGED <<callout, monitor, beat>> => MonitorsHeld'
<1>1. UNCHANGED engine => EngineType'
  BY DEF TypeOK, EngineType, engine
<1>2. UNCHANGED <<nmeaListeners, callout>> => CalloutType'
  BY DEF TypeOK, CalloutType, callout
<1>3. UNCHANGED streams => StreamsType'
  BY DEF TypeOK, StreamsType, streams
<1>4. UNCHANGED polls => PollsType'
  BY DEF TypeOK, PollsType, polls
<1>5. UNCHANGED <<facts, client, doubled>> => HistoryType'
  BY DEF TypeOK, HistoryType, facts, client
<1>6. UNCHANGED <<callout, monitor, beat>> => MonitorsHeld'
  BY DEF TypeOK, MonitorsHeld, At, callout
<1>7. QED
  BY <1>1, <1>2, <1>3, <1>4, <1>5, <1>6

LEMMA StreamsApart == UNCHANGED streams => UNCHANGED <<monitor, beat, heart>>
BY DEF streams

\* The native side keeps the types.
LEMMA EngineTypes ==
  ASSUME TypeOK, Threads, Add \/ Added \/ Play \/ ForceStop \/ Test \/ Again \/ Call \/ Clear \/ End
  PROVE  TypeOK'
<1>1. CASE Add
  <2>1. EngineType'
    BY <1>1, SizesAreNat DEF Add, TypeOK, EngineType
  <2>2. QED
    BY <1>1, <2>1, Frame, StreamsApart DEF Add, TypeOK
<1>2. CASE Added
  <2>1. count \in 1..MaxMessages
    BY <1>2 DEF Added, Threads, TypeOK, EngineType
  <2>2. Append(base, count) \in Messages /\ <<>> \in Messages
    BY <2>1, Appended, Nothing DEF TypeOK, EngineType, Messages
  <2>3. EngineType'
    BY <1>2, <2>2, Zenon DEF Added, TypeOK, EngineType
  <2>4. HistoryType'
    BY <1>2, <2>1 DEF Added, TypeOK, HistoryType, client
  <2>5. QED
    BY <1>2, <2>3, <2>4, Frame, StreamsApart DEF Added, TypeOK
<1>3. CASE Play
  <2>1. EngineType'
    BY <1>3, Zenon DEF Play, TypeOK, EngineType
  <2>2. QED
    BY <1>3, <2>1, Frame, StreamsApart DEF Play, TypeOK
<1>4. CASE ForceStop
  <2>1. EngineType'
    BY <1>4, SMTT(60) DEF ForceStop, TypeOK, EngineType
  <2>2. QED
    BY <1>4, <2>1, Frame, StreamsApart DEF ForceStop, TypeOK
<1>5. CASE Test
  <2>1. EngineType'
    BY <1>5 DEF Test, TypeOK, EngineType
  <2>2. QED
    BY <1>5, <2>1, Frame, StreamsApart DEF Test, TypeOK
<1>6. CASE Again
  <2>1. EngineType'
    BY <1>6, SMTT(60) DEF Again, TypeOK, EngineType
  <2>2. QED
    BY <1>6, <2>1, Frame, StreamsApart DEF Again, TypeOK
<1>7. CASE Call
  <2>1. EngineType'
    BY <1>7 DEF Call, TypeOK, EngineType
  <2>2. CalloutType'
    BY <1>7 DEF Call, TypeOK, CalloutType
  <2>3. delivered \o nmea_msg \in Messages
    BY Joined DEF TypeOK, EngineType, HistoryType, Messages
  <2>4. HistoryType'
    BY <1>7, <2>3 DEF Call, TypeOK, HistoryType, client
  <2>5. out = <<>> /\ out' = <<>>
    BY <1>7 DEF Call, Threads
  <2>6. MonitorsHeld'
    BY <1>7, <2>5 DEF Call, TypeOK, MonitorsHeld, streams
  <2>7. QED
    BY <1>7, <2>1, <2>2, <2>4, <2>6, Frame DEF Call, TypeOK
<1>8. CASE Clear
  <2>1. EngineType'
    BY <1>8, Nothing DEF Clear, TypeOK, EngineType, Messages
  <2>2. raced' \in BOOLEAN
    BY <1>8 DEF Clear
  <2>3. HistoryType'
    BY <1>8, <2>2 DEF Clear, TypeOK, HistoryType, client
  <2>4. QED
    BY <1>8, <2>1, <2>3, Frame, StreamsApart DEF Clear, TypeOK
<1>9. CASE End
  <2>1. EngineType'
    BY <1>9 DEF End, TypeOK, EngineType
  <2>2. QED
    BY <1>9, <2>1, Frame, StreamsApart DEF End, TypeOK
<1>10. QED
  BY <1>1, <1>2, <1>3, <1>4, <1>5, <1>6, <1>7, <1>8, <1>9

\* An event, or a heartbeat, is two pieces.
LEMMA TwoPieces ==
  ASSUME NEW ms \in Messages
  PROVE  Pieces(ms) \in Seq(Piece) /\ Len(Pieces(ms)) = 2 /\ Pieces(ms) # <<>>
<1>1. [messages |-> ms, part |-> 1] \in Piece /\ [messages |-> ms, part |-> 2] \in Piece
  BY DEF Piece
<1>2. QED
  BY <1>1 DEF Pieces

\* Whoever gives up is off the list.
LEMMA GiveUpTypes ==
  ASSUME TypeOK, NEW c \in Clients, GiveUp(c)
  PROVE  nmeaListeners' \in Seq(Listeners) /\ isOpen' \in [Clients -> BOOLEAN]
<1>1. c # "buffer"
  BY BufferIsNoClient
<1>2. RemoveFirst(nmeaListeners, c) \in Seq(Listeners)
  BY <1>1, Removed, Zenon DEF TypeOK, CalloutType
<1>3. QED
  BY <1>2 DEF GiveUp, TypeOK, StreamsType

\* The callback, listener by listener, keeps the types.
LEMMA CalloutTypes ==
  ASSUME TypeOK, Threads, NEW c \in Clients, Skip(c) \/ Enter(c) \/ Write(c) \/ Fail(c)
  PROVE  TypeOK'
<1>1. /\ todo \in Seq(Listeners) /\ todo # <<>>
      /\ Tail(todo) \in Seq(Listeners) /\ Head(todo) = c
  BY Shortened DEF TypeOK, CalloutType, Skip, Enter, Write, Fail, At
<1>2. CASE Skip(c)
  <2>1. CalloutType'
    BY <1>1, <1>2 DEF Skip, TypeOK, CalloutType
  <2>2. MonitorsHeld'
    BY <1>2 DEF Skip, TypeOK, MonitorsHeld, streams
  <2>3. QED
    BY <1>2, <2>1, <2>2, Frame DEF Skip, TypeOK
<1>3. CASE Enter(c)
  <2>1. Pieces(batch) \in Seq(Piece) /\ Len(Pieces(batch)) = 2 /\ Pieces(batch) # <<>>
    BY TwoPieces DEF TypeOK, EngineType
  <2>2. CalloutType'
    BY <1>3, <2>1 DEF Enter, TypeOK, CalloutType
  <2>3. StreamsType'
    BY <1>3 DEF Enter, TypeOK, StreamsType
  <2>4. MonitorsHeld'
    BY <1>3, <2>1 DEF Enter, TypeOK, MonitorsHeld, StreamsType, At, None
  <2>5. QED
    BY <1>3, <2>2, <2>3, <2>4, Frame DEF Enter, TypeOK
<1>4. CASE Write(c)
  <2>1. /\ out # <<>> /\ Head(out) \in Piece /\ Tail(out) \in Seq(Piece)
        /\ Len(Tail(out)) = Len(out) - 1 /\ Len(out) \in Nat /\ Len(out) <= 2
    BY <1>4, Shortened, LenProperties DEF Write, TypeOK, CalloutType
  <2>2. CalloutType'
    <3>1. todo' \in Seq(Listeners) /\ nmeaListeners' \in Seq(Listeners)
      BY <1>1, <1>4, Zenon DEF Write, TypeOK, CalloutType
    <3>2. out' \in Seq(Piece) /\ Len(out') = Len(out) - 1
      BY <1>4, <2>1 DEF Write
    <3>3. QED
      BY <2>1, <3>1, <3>2 DEF CalloutType
  <2>3. Append(pipe[c], Head(out)) \in Seq(Piece) /\ Len(Append(pipe[c], Head(out))) <= PipeSize
    <3>1. pipe[c] \in Seq(Piece)
      BY DEF TypeOK, StreamsType
    <3>2. Len(Append(pipe[c], Head(out))) = Len(pipe[c]) + 1 /\ Len(pipe[c]) \in Nat
      BY <2>1, <3>1, AppendProperties, LenProperties
    <3>3. ~(Len(pipe[c]) >= PipeSize)
      BY <1>4 DEF Write, Full
    <3>4. QED
      BY <2>1, <3>1, <3>2, <3>3, Appended, SizesAreNat
  <2>4. StreamsType'
    <3>1. pipe' \in [Clients -> Seq(Piece)] /\ \A d \in Clients : Len(pipe'[d]) <= PipeSize
      BY <1>4, <2>3 DEF Write, TypeOK, StreamsType
    <3>2. monitor' \in [Clients -> {None, "run", "heart"}]
      BY <1>4, Zenon DEF Write, TypeOK, StreamsType
    <3>3. QED
      BY <1>4, <3>1, <3>2, SMTT(60) DEF Write, TypeOK, StreamsType
  <2>5. MonitorsHeld'
    <3>1. \A d \in Clients : monitor[d] = "run" <=> d = c
      BY <1>4 DEF Write, TypeOK, MonitorsHeld, At
    <3>2. CASE Tail(out) = <<>>
      BY <1>4, <3>1, <3>2, SMTT(60) DEF Write, TypeOK, MonitorsHeld, StreamsType, None
    <3>3. CASE Tail(out) # <<>>
      BY <1>4, <3>1, <3>3, Zenon DEF Write, TypeOK, MonitorsHeld, StreamsType, At
    <3>4. QED
      BY <3>2, <3>3
  <2>6. QED
    BY <1>4, <2>2, <2>4, <2>5, Frame DEF Write, TypeOK
<1>5. CASE Fail(c)
  <2>1. nmeaListeners' \in Seq(Listeners) /\ isOpen' \in [Clients -> BOOLEAN]
    BY <1>5, GiveUpTypes DEF Fail
  <2>2. CalloutType'
    BY <1>1, <1>5, <2>1, Nothing, EmptySeq DEF Fail, TypeOK, CalloutType
  <2>3. StreamsType'
    BY <1>5, <2>1, Zenon DEF Fail, TypeOK, StreamsType
  <2>4. \A d \in Clients : monitor[d] = "run" <=> d = c
    BY <1>5 DEF Fail, TypeOK, MonitorsHeld, At
  <2>5. MonitorsHeld'
    BY <1>5, <2>4, SMTT(60) DEF Fail, TypeOK, MonitorsHeld, StreamsType, None
  <2>6. QED
    BY <1>5, <2>2, <2>3, <2>5, Frame DEF Fail, TypeOK
<1>6. QED
  BY <1>2, <1>3, <1>4, <1>5

\* The buffer keeps its size.
LEMMA StoreTypes == ASSUME TypeOK, Threads, Store PROVE TypeOK'
<1> DEFINE lines == nmeaBuffer \o batch
<1>1. todo # <<>> /\ Head(todo) = "buffer" /\ Tail(todo) \in Seq(Listeners)
  BY Shortened DEF Store, At, TypeOK, CalloutType
<1>2. lines \in Messages /\ Len(lines) \in Nat
  BY Joined, LenProperties DEF TypeOK, EngineType, PollsType, Messages
<1>3. out = <<>>
  BY <1>1, BufferIsNoClient DEF Threads
<1>4. nmeaBuffer' = IF Len(lines) > BufferSize
                   THEN SubSeq(lines, Len(lines) - BufferSize + 1, Len(lines)) ELSE lines
  BY DEF Store
<1> HIDE DEF lines
<1>5. nmeaBuffer' \in Messages /\ Len(nmeaBuffer') <= BufferSize
  <2>1. CASE Len(lines) > BufferSize
    <3> DEFINE m == Len(lines) - BufferSize + 1
               n == Len(lines)
               w == SubSeq(lines, m, n)
    <3>1. m \in Int /\ n \in Int /\ \A i \in m..n : lines[i] \in 1..MaxMessages
      <4>1. m \in 1..n + 1
        BY <1>2, <2>1, SizesAreNat
      <4>2. ASSUME NEW i \in m..n PROVE i \in 1..Len(lines)
        BY <1>2, <4>1
      <4>3. \A i \in 1..Len(lines) : lines[i] \in 1..MaxMessages
        BY <1>2, ElementOfSeq, Zenon DEF Messages
      <4>4. QED
        BY <1>2, <4>1, <4>2, <4>3
    <3>2. n - m + 1 = BufferSize /\ BufferSize \in Nat
      BY <1>2, SizesAreNat
    <3> HIDE DEF m, n
    <3>3. w \in Seq(1..MaxMessages) /\ Len(w) = IF m <= n THEN n - m + 1 ELSE 0
      BY <3>1, SubSeqProperties
    <3>4. nmeaBuffer' = w
      BY <1>4, <2>1, Zenon DEF m, n
    <3> HIDE DEF w
    <3>5. QED
      BY <3>2, <3>3, <3>4 DEF Messages
  <2>2. CASE ~(Len(lines) > BufferSize)
    BY <1>2, <1>4, <2>2, SizesAreNat
  <2>3. QED
    BY <2>1, <2>2
<1>6. PollsType'
  BY <1>5, Zenon DEF Store, TypeOK, PollsType
<1>7. CalloutType'
  BY <1>1 DEF Store, TypeOK, CalloutType
<1>8. MonitorsHeld'
  BY <1>3 DEF Store, TypeOK, MonitorsHeld, streams
<1>9. QED
  BY <1>6, <1>7, <1>8, Frame DEF Store, TypeOK

\* Requests for the buffer keep the types.
LEMMA PollTypes == ASSUME TypeOK, NEW p \in Pollers, Look(p) \/ Register(p) PROVE TypeOK'
<1>1. CASE Look(p)
  <2>1. PollsType'
    BY <1>1 DEF Look, TypeOK, PollsType
  <2>2. QED
    BY <1>1, <2>1, Frame, StreamsApart DEF Look, TypeOK
<1>2. CASE Register(p)
  <2>1. PollsType'
    BY <1>2 DEF Register, TypeOK, PollsType
  <2>2. Append(nmeaListeners, "buffer") \in Seq(Listeners)
    BY Appended DEF TypeOK, CalloutType, Listeners
  <2>3. CalloutType'
    BY <1>2, <2>2 DEF Register, TypeOK, CalloutType, callout
  <2>4. doubled' \in BOOLEAN
    BY <1>2 DEF Register
  <2>5. HistoryType'
    BY <1>2, <2>4 DEF Register, TypeOK, HistoryType, client, facts
  <2>6. QED
    BY <1>2, <2>1, <2>3, <2>5, Frame, StreamsApart DEF Register, TypeOK
<1>3. QED
  BY <1>1, <1>2

\* Streams come, beat, read and go.
LEMMA HeartTypes ==
  ASSUME TypeOK, Threads, NEW c \in Clients, Heartbeat(c)
  PROVE  TypeOK'
<1>1. CASE BeatEnter(c)
  <2>1. Pieces(<<>>) \in Seq(Piece) /\ Len(Pieces(<<>>)) = 2 /\ Pieces(<<>>) # <<>>
    BY TwoPieces, Nothing, Zenon DEF Messages
  <2>2. StreamsType'
    <3>1. beat' \in [Clients -> Seq(Piece)] /\ \A d \in Clients : Len(beat'[d]) <= 2
      <4> DEFINE ps == Pieces(<<>>)
      <4>1. beat' = [beat EXCEPT ![c] = ps]
        BY <1>1 DEF BeatEnter
      <4>2. ps \in Seq(Piece) /\ Len(ps) = 2
        BY <2>1
      <4> HIDE DEF ps
      <4>3. Len(ps) <= 2
        BY <4>2
      <4>4. QED
        BY <4>1, <4>2, <4>3, Zenon DEF TypeOK, StreamsType
    <3>2. /\ monitor' \in [Clients -> {None, "run", "heart"}]
          /\ heart' \in [Clients -> {"none", "sleep", "write", "finally", "ended"}]
      BY <1>1 DEF BeatEnter, TypeOK, StreamsType
    <3>3. QED
      BY <1>1, <3>1, <3>2 DEF BeatEnter, TypeOK, StreamsType
  <2>3. MonitorsHeld'
    BY <1>1, <2>1 DEF BeatEnter, TypeOK, MonitorsHeld, StreamsType, At, None, callout
  <2>4. QED
    BY <1>1, <2>2, <2>3, Frame DEF BeatEnter, TypeOK
<1>2. CASE BeatWrite(c)
  <2>1. /\ beat[c] # <<>> /\ Head(beat[c]) \in Piece /\ Tail(beat[c]) \in Seq(Piece)
        /\ Len(Tail(beat[c])) = Len(beat[c]) - 1 /\ Len(beat[c]) \in Nat /\ Len(beat[c]) <= 2
    BY <1>2, Shortened, LenProperties DEF BeatWrite, TypeOK, StreamsType, Threads
  <2>2. Append(pipe[c], Head(beat[c])) \in Seq(Piece) /\ Len(Append(pipe[c], Head(beat[c]))) <= PipeSize
    <3>1. pipe[c] \in Seq(Piece)
      BY DEF TypeOK, StreamsType
    <3>2. Len(Append(pipe[c], Head(beat[c]))) = Len(pipe[c]) + 1 /\ Len(pipe[c]) \in Nat
      BY <2>1, <3>1, AppendProperties, LenProperties
    <3>3. ~(Len(pipe[c]) >= PipeSize)
      BY <1>2 DEF BeatWrite, Full
    <3>4. QED
      BY <2>1, <3>1, <3>2, <3>3, Appended, SizesAreNat
  <2>3. StreamsType'
    <3>1. pipe' \in [Clients -> Seq(Piece)] /\ \A d \in Clients : Len(pipe'[d]) <= PipeSize
      BY <1>2, <2>2 DEF BeatWrite, TypeOK, StreamsType
    <3>2. beat' \in [Clients -> Seq(Piece)] /\ \A d \in Clients : Len(beat'[d]) <= 2
      <4>1. Len(Tail(beat[c])) <= 2
        BY <2>1
      <4>2. QED
        BY <1>2, <2>1, <4>1 DEF BeatWrite, TypeOK, StreamsType
    <3>3. /\ monitor' \in [Clients -> {None, "run", "heart"}]
          /\ heart' \in [Clients -> {"none", "sleep", "write", "finally", "ended"}]
      BY <1>2, ZenonT(60) DEF BeatWrite, TypeOK, StreamsType
    <3>4. QED
      BY <1>2, <3>1, <3>2, <3>3, SMTT(60) DEF BeatWrite, TypeOK, StreamsType
  <2>4. Tail(beat[c]) = <<>> <=> Len(beat[c]) = 1
    <3>1. Tail(beat[c]) = <<>> <=> Len(Tail(beat[c])) = 0
      BY <2>1, Emptied, Zenon
    <3>2. QED
      BY <2>1, <3>1
  <2>5. MonitorsHeld'
    BY <1>2, <2>1, <2>4, SMTT(60) DEF BeatWrite, TypeOK, MonitorsHeld, StreamsType, At, None, callout
  <2>6. QED
    BY <1>2, <2>3, <2>5, Frame, SMTT(60) DEF BeatWrite, TypeOK
<1>3. CASE BeatFail(c)
  <2>1. StreamsType'
    BY <1>3, EmptySeq DEF BeatFail, TypeOK, StreamsType
  <2>2. monitor[c] = "heart"
    BY <1>3 DEF BeatFail, TypeOK, MonitorsHeld, Threads
  <2>3. MonitorsHeld'
    BY <1>3, <2>2 DEF BeatFail, TypeOK, MonitorsHeld, StreamsType, At, None, callout
  <2>4. QED
    BY <1>3, <2>1, <2>3, Frame DEF BeatFail, TypeOK
<1>4. CASE BeatEnd(c)
  <2>1. nmeaListeners' \in Seq(Listeners) /\ isOpen' \in [Clients -> BOOLEAN]
    BY <1>4, GiveUpTypes DEF BeatEnd
  <2>2. StreamsType'
    BY <1>4, <2>1, Zenon DEF BeatEnd, TypeOK, StreamsType
  <2>3. CalloutType'
    BY <1>4, <2>1 DEF BeatEnd, TypeOK, CalloutType, callout
  <2>4. QED
    BY <1>4, <2>2, <2>3, Frame DEF BeatEnd, TypeOK
<1>5. QED
  BY <1>1, <1>2, <1>3, <1>4 DEF Heartbeat

LEMMA ClientTypes ==
  ASSUME TypeOK, NEW c \in Clients, Connect(c) \/ Read(c) \/ Hangup(c)
  PROVE  TypeOK'
<1>1. CASE Connect(c)
  <2>1. StreamsType'
    BY <1>1 DEF Connect, TypeOK, StreamsType
  <2>2. Append(nmeaListeners, c) \in Seq(Listeners)
    BY Appended DEF TypeOK, CalloutType, Listeners
  <2>3. CalloutType'
    BY <1>1, <2>2 DEF Connect, TypeOK, CalloutType, callout
  <2>4. Len(delivered) \in Nat
    BY LenProperties DEF TypeOK, HistoryType, Messages
  <2>5. HistoryType'
    BY <1>1, <2>4, SMTT(60) DEF Connect, TypeOK, HistoryType, facts
  <2>6. QED
    BY <1>1, <2>1, <2>3, <2>5, Frame DEF Connect, TypeOK
<1>2. CASE Read(c)
  <2> DEFINE p == Head(pipe[c])
             whole == p.part = 2 /\ half[c] = <<[p EXCEPT !.part = 1]>>
             out_of_order == torn[c] \/ (p.part = 1 /\ half[c] # <<>>) \/ (p.part = 2 /\ ~whole)
  <2>1. /\ pipe[c] \in Seq(Piece) /\ p \in Piece /\ Tail(pipe[c]) \in Seq(Piece)
        /\ Len(Tail(pipe[c])) <= PipeSize
    <3>1. pipe[c] \in Seq(Piece) /\ pipe[c] # <<>> /\ Len(pipe[c]) <= PipeSize
      BY <1>2 DEF Read, TypeOK, StreamsType
    <3>2. Len(pipe[c]) \in Nat
      BY <3>1, LenProperties
    <3>3. QED
      BY <3>1, <3>2, Shortened, SizesAreNat
  <2>2. /\ half' = [half EXCEPT ![c] = IF p.part = 1 THEN <<p>> ELSE <<>>]
        /\ got' = [got EXCEPT ![c] = IF whole THEN got[c] \o p.messages ELSE got[c]]
        /\ torn' = [torn EXCEPT ![c] = out_of_order]
        /\ pipe' = [pipe EXCEPT ![c] = Tail(pipe[c])]
    BY <1>2 DEF Read
  <2>3. out_of_order \in BOOLEAN
    OBVIOUS
  <2>4. got[c] \in Messages /\ p.messages \in Messages /\ <<p>> \in Seq(Piece) /\ <<>> \in Seq(Piece)
    BY <2>1, Nothing, SMTT(60) DEF TypeOK, HistoryType, Piece
  <2>5. got[c] \o p.messages \in Messages
    BY <2>4, Joined, SMTT(60) DEF Messages
  <2> HIDE DEF p, whole, out_of_order
  <2>6. StreamsType'
    BY <1>2, <2>1, <2>2, SMTT(60) DEF Read, TypeOK, StreamsType
  <2>7. HistoryType'
    <3>1. half' \in [Clients -> Seq(Piece)]
      BY <2>2, <2>4 DEF TypeOK, HistoryType
    <3>2. got' \in [Clients -> Messages]
      BY <2>2, <2>4, <2>5 DEF TypeOK, HistoryType
    <3>3. torn' \in [Clients -> BOOLEAN]
      BY <2>2, <2>3 DEF TypeOK, HistoryType
    <3>4. QED
      BY <1>2, <3>1, <3>2, <3>3, SMTT(60) DEF Read, TypeOK, HistoryType, facts
  <2>8. QED
    BY <1>2, <2>6, <2>7, Frame DEF Read, TypeOK, callout
<1>3. CASE Hangup(c)
  <2>1. <<>> \in Seq(Piece) /\ Len(<<>>) <= PipeSize /\ <<>> \in Messages
    BY Nothing, EmptySeq, SizesAreNat DEF Messages
  <2>2. StreamsType'
    BY <1>3, <2>1 DEF Hangup, TypeOK, StreamsType
  <2>3. HistoryType'
    BY <1>3, <2>1 DEF Hangup, TypeOK, HistoryType, facts
  <2>4. QED
    BY <1>3, <2>2, <2>3, Frame DEF Hangup, TypeOK, callout
<1>4. QED
  BY <1>1, <1>2, <1>3

LEMMA Types == TypeOK /\ Threads /\ [Next]_vars => TypeOK'
<1> SUFFICES ASSUME TypeOK, Threads, [Next]_vars PROVE TypeOK'
  OBVIOUS
<1>1. CASE UNCHANGED vars
  BY <1>1, Frame, StreamsApart DEF vars, TypeOK
<1>2. CASE Next
  BY <1>2, EngineTypes, CalloutTypes, StoreTypes, PollTypes, HeartTypes, ClientTypes DEF Next, RunThread
<1>3. QED
  BY <1>1, <1>2

-----------------------------------------------------------------------------
(* Threads between their steps *)

LEMMA ThreadsStep == TypeOK /\ Threads /\ [Next]_vars => Threads'
<1> SUFFICES ASSUME TypeOK, Threads, [Next]_vars PROVE Threads'
  BY SMTT(60)
<1> DEFINE Adds == /\ adding => count > 0 /\ nmea_msg \in {base, <<>>}
                   /\ ~adding => base = <<>>
           Calls == /\ run # "call" => todo = <<>>
                    /\ out # <<>> => todo # <<>> /\ Head(todo) \in Clients
           Beats == \A c \in Clients : heart[c] = "write" <=> beat[c] # <<>>
<1>1. Adds'
  <2>1. UNCHANGED <<nmea_msg, adding, base, count>> => Adds'
    BY DEF Threads
  <2>2. Add => Adds'
    BY DEF Add, TypeOK, EngineType
  <2>3. Added => Adds'
    BY DEF Added
  <2>4. Clear => Adds'
    BY SMTT(60) DEF Clear, Threads
  <2> HIDE DEF Adds
  <2>5. QED
    BY <2>1, <2>2, <2>3, <2>4, ZenonT(60) DEF Next, RunThread, Heartbeat, vars, engine, Play, ForceStop, Test,
       Again, Call, End, Store,
       Skip, Enter, Write, Fail, BeatEnter, BeatWrite, BeatFail, BeatEnd, Connect, Read, Hangup, Look, Register
<1>2. Calls'
  <2>1. UNCHANGED <<run, callout>> => Calls'
    BY DEF Threads, callout
  <2>2. Play \/ Test \/ Again \/ Clear \/ End => Calls'
    BY DEF Play, Test, Again, Clear, End, Threads, callout
  <2>3. Call => Calls'
    BY DEF Call, Threads
  <2>4. Store => Calls'
    BY BufferIsNoClient DEF Store, At, Threads, engine
  <2>5. ASSUME NEW c \in Clients, Skip(c) \/ Enter(c) \/ Write(c) \/ Fail(c) PROVE Calls'
    BY <2>5, SMTT(60) DEF Skip, Enter, Write, Fail, At, Threads, engine
  <2> HIDE DEF Calls
  <2>6. QED
    BY <2>1, <2>2, <2>3, <2>4, <2>5, ZenonT(60) DEF Next, RunThread, Heartbeat, vars, engine, Add, Added, ForceStop,
       BeatEnter, BeatWrite, BeatFail, BeatEnd, Connect, Read, Hangup, Look, Register
<1>3. Beats'
  <2>1. UNCHANGED <<heart, beat>> => Beats'
    BY DEF Threads
  <2>2. ASSUME NEW c \in Clients, Connect(c) PROVE Beats'
    BY <2>2 DEF Connect, Threads, TypeOK, StreamsType
  <2>3. ASSUME NEW c \in Clients, BeatEnter(c) PROVE Beats'
    BY <2>3, TwoPieces, Nothing DEF BeatEnter, Threads, TypeOK, StreamsType, Messages
  <2>4. ASSUME NEW c \in Clients, BeatWrite(c) PROVE Beats'
    <3>1. /\ beat[c] # <<>> /\ Tail(beat[c]) \in Seq(Piece)
          /\ Len(Tail(beat[c])) = Len(beat[c]) - 1 /\ Len(beat[c]) \in Nat
      BY <2>4, Shortened, LenProperties DEF BeatWrite, TypeOK, StreamsType, Threads
    <3>2. Tail(beat[c]) = <<>> <=> Len(beat[c]) = 1
      <4>1. Tail(beat[c]) = <<>> <=> Len(Tail(beat[c])) = 0
        BY <3>1, Emptied, Zenon
      <4>2. QED
        BY <3>1, <4>1
    <3>3. QED
      BY <2>4, <3>1, <3>2, SMTT(60) DEF BeatWrite, Threads, TypeOK, StreamsType
  <2>5. ASSUME NEW c \in Clients, BeatFail(c) \/ BeatEnd(c) PROVE Beats'
    BY <2>5, SMTT(60) DEF BeatFail, BeatEnd, Threads, TypeOK, StreamsType
  <2> HIDE DEF Beats
  <2>6. QED
    BY <2>1, <2>2, <2>3, <2>4, <2>5, ZenonT(60) DEF Next, RunThread, Heartbeat, vars, streams, Add, Added,
       Play, ForceStop, Test, Again,
       Call, Clear, End, Store, Skip, Enter, Write, Fail, Read, Hangup, Look, Register
<1>4. QED
  BY <1>1, <1>2, <1>3 DEF Threads

-----------------------------------------------------------------------------
(* What onNMEA is handed *)

\* No message is forgotten: it was delivered, is in the text, is being appended
\* or came late.  The text of a call holds nothing else but late messages.
Accounted ==
  /\ \A m \in 1..count :
       \/ m \in ToSet(delivered) \cup ToSet(nmea_msg) \cup late
       \/ adding /\ (m = count \/ m \in ToSet(base))
  /\ run = "call" => ToSet(nmea_msg) \cup ToSet(base) \subseteq ToSet(delivered) \cup late

LEMMA AccountedStep == TypeOK /\ Threads /\ Accounted /\ [Next]_vars => Accounted'
<1> SUFFICES ASSUME TypeOK, Threads, Accounted, [Next]_vars PROVE Accounted'
  OBVIOUS
<1>1. UNCHANGED <<delivered, nmea_msg, late, adding, count, base, run>> => Accounted'
  BY DEF Accounted
<1>2. CASE Play \/ Test \/ Again \/ End
  <2>1. UNCHANGED <<delivered, nmea_msg, late, adding, count, base>> /\ run' # "call"
    BY <1>2 DEF Play, Test, Again, End, facts
  <2>2. QED
    BY <2>1 DEF Accounted
<1>3. CASE Add
  <2>1. /\ ~adding /\ adding' /\ base' = nmea_msg /\ count' = count + 1
        /\ UNCHANGED <<delivered, nmea_msg, late, run>> /\ count \in Nat
    BY <1>3, SizesAreNat DEF Add, facts, TypeOK, EngineType
  <2>2. ASSUME NEW m \in 1..count', m # count' PROVE m \in ToSet(delivered) \cup ToSet(nmea_msg) \cup late
    <3>1. m \in 1..count
      BY <2>1, <2>2
    <3>2. QED
      BY <2>1, <3>1 DEF Accounted
  <2>3. QED
    BY <2>1, <2>2 DEF Accounted
<1>4. CASE Added
  <2>1. /\ adding /\ ~adding' /\ base' = <<>> /\ nmea_msg' = Append(base, count)
        /\ UNCHANGED <<delivered, count, run>>
        /\ late' = IF run = "call" THEN late \cup {count} ELSE late
    BY <1>4 DEF Added
  <2>2. ToSet(Append(base, count)) = ToSet(base) \cup {count}
    <3> DEFINE S == 1..MaxMessages
    <3>1. base \in Seq(S) /\ count \in S
      BY <2>1 DEF Threads, TypeOK, EngineType, Messages
    <3> HIDE DEF S
    <3>2. QED
      BY <3>1, Appended
  <2>3. ToSet(nmea_msg) \subseteq ToSet(base) /\ ToSet(<<>>) = {}
    BY <2>1, Nothing DEF Threads
  <2>4. ASSUME NEW m \in 1..count' PROVE m \in ToSet(delivered') \cup ToSet(nmea_msg') \cup late'
    BY <2>1, <2>2, <2>3 DEF Accounted
  <2>5. run' = "call" => ToSet(nmea_msg') \cup ToSet(base') \subseteq ToSet(delivered') \cup late'
    BY <2>1, <2>2, <2>3 DEF Accounted
  <2>6. QED
    BY <2>4, <2>5 DEF Accounted
<1>5. CASE Call
  <2>1. /\ delivered' = delivered \o nmea_msg /\ nmea_msg # <<>>
        /\ UNCHANGED <<nmea_msg, late, adding, count, base>>
    BY <1>5 DEF Call
  <2>2. ToSet(delivered \o nmea_msg) = ToSet(delivered) \cup ToSet(nmea_msg)
    BY Joined DEF TypeOK, EngineType, HistoryType, Messages
  <2>3. ToSet(base) \subseteq ToSet(nmea_msg)
    BY <2>1, Nothing DEF Threads
  <2>4. QED
    BY <2>1, <2>2, <2>3 DEF Accounted
<1>6. CASE Clear
  <2>1. /\ run = "call" /\ run' = "loop"
        /\ UNCHANGED <<delivered, late, adding, count, base>>
    BY <1>6 DEF Clear
  <2>2. QED
    BY <2>1 DEF Accounted
<1>7. QED
  BY <1>1, <1>2, <1>3, <1>4, <1>5, <1>6, ZenonT(60) DEF Next, RunThread, Heartbeat, vars, engine, facts,
     ForceStop, Store,
     Skip, Enter, Write, Fail, BeatEnter, BeatWrite, BeatFail, BeatEnd, Connect, Read, Hangup, Look, Register

Rising(s) == \A i, j \in DOMAIN s : i < j => s[i] < s[j]

\* As long as no clear meets an append, the messages rise from those delivered
\* through the text to the one that is being appended.
Ordered ==
  ~raced =>
    /\ Rising(delivered) /\ Rising(nmea_msg)
    /\ \A m \in ToSet(delivered) \cup ToSet(nmea_msg) : m <= count /\ (adding => m < count)
    /\ adding => nmea_msg = base
    /\ run # "call" => \A m \in ToSet(delivered), n \in ToSet(nmea_msg) : m < n

LEMMA RisingAppended ==
  ASSUME NEW s \in Messages, NEW e \in 1..MaxMessages, Rising(s), \A m \in ToSet(s) : m < e
  PROVE  Rising(Append(s, e))
<1>1. /\ Len(Append(s, e)) = Len(s) + 1 /\ Append(s, e) \in Seq(1..MaxMessages)
      /\ \A i \in 1..Len(s) : Append(s, e)[i] = s[i]
      /\ Append(s, e)[Len(s) + 1] = e
  BY AppendProperties DEF Messages
<1>2. DOMAIN Append(s, e) = 1..Len(s) + 1 /\ DOMAIN s = 1..Len(s) /\ Len(s) \in Nat
  BY <1>1, LenProperties DEF Messages
<1> DEFINE t == Append(s, e)
<1> HIDE DEF t
<1>3. /\ DOMAIN t = 1..Len(s) + 1 /\ t[Len(s) + 1] = e
      /\ \A i \in 1..Len(s) : t[i] = s[i]
  BY <1>1, <1>2 DEF t
<1>4. \A i \in DOMAIN s : s[i] < e
  BY DEF ToSet
<1>5. Rising(t)
  BY <1>2, <1>3, <1>4 DEF Rising
<1>6. QED
  BY <1>5 DEF t

LEMMA RisingJoined ==
  ASSUME NEW s \in Messages, NEW t \in Messages, Rising(s), Rising(t),
         \A m \in ToSet(s), n \in ToSet(t) : m < n
  PROVE  Rising(s \o t)
<1>1. /\ Len(s) \in Nat /\ Len(t) \in Nat /\ DOMAIN s = 1..Len(s) /\ DOMAIN t = 1..Len(t)
  BY LenProperties DEF Messages
<1> DEFINE u == s \o t
<1>2. /\ DOMAIN u = 1..Len(s) + Len(t)
      /\ \A i \in 1..Len(s) + Len(t) : u[i] = IF i <= Len(s) THEN s[i] ELSE t[i - Len(s)]
  <2>1. /\ u \in Seq(1..MaxMessages) /\ Len(u) = Len(s) + Len(t)
        /\ \A i \in 1 .. Len(s) + Len(t) : u[i] = IF i <= Len(s) THEN s[i] ELSE t[i - Len(s)]
    BY ConcatProperties DEF Messages
  <2> HIDE DEF u
  <2>2. QED
    BY <2>1, LenProperties
<1> HIDE DEF u
<1>3. \A i \in DOMAIN s, j \in DOMAIN t : s[i] < t[j]
  BY DEF ToSet
<1>4. ASSUME NEW i \in DOMAIN u, NEW j \in DOMAIN u, i < j PROVE u[i] < u[j]
  <2>1. CASE j <= Len(s)
    BY <1>1, <1>2, <1>4, <2>1 DEF Rising
  <2>2. CASE i <= Len(s) /\ j > Len(s)
    <3>1. i \in DOMAIN s /\ j - Len(s) \in DOMAIN t
      BY <1>1, <1>2, <2>2
    <3>2. u[i] = s[i] /\ u[j] = t[j - Len(s)]
      BY <1>1, <1>2, <2>2
    <3>3. QED
      BY <1>3, <3>1, <3>2
  <2>3. CASE i > Len(s)
    <3>1. i - Len(s) \in DOMAIN t /\ j - Len(s) \in DOMAIN t /\ i - Len(s) < j - Len(s)
      BY <1>1, <1>2, <1>4, <2>3, SMTT(60)
    <3>2. u[i] = t[i - Len(s)] /\ u[j] = t[j - Len(s)]
      BY <1>1, <1>2, <1>4, <2>3, SMTT(60)
    <3>3. QED
      BY <3>1, <3>2 DEF Rising
  <2>4. QED
    BY <1>1, <1>2, <2>1, <2>2, <2>3
<1>5. QED
  BY <1>4 DEF Rising, u

LEMMA OrderedStep == TypeOK /\ Threads /\ Ordered /\ [Next]_vars => Ordered'
<1> SUFFICES ASSUME TypeOK, Threads, Ordered, [Next]_vars PROVE Ordered'
  OBVIOUS
<1>1. UNCHANGED <<delivered, nmea_msg, raced, adding, count, base, run>> => Ordered'
  BY DEF Ordered
<1>2. CASE Play \/ Test \/ Again \/ End
  <2>1. UNCHANGED <<delivered, nmea_msg, raced, adding, count, base>> /\ run # "call"
    BY <1>2 DEF Play, Test, Again, End, facts
  <2>2. QED
    BY <2>1 DEF Ordered
<1>3. CASE Add
  <2>1. /\ ~adding /\ adding' /\ base' = nmea_msg /\ count' = count + 1
        /\ UNCHANGED <<delivered, nmea_msg, raced, run>> /\ count \in Nat
    BY <1>3, SizesAreNat DEF Add, facts, TypeOK, EngineType
  <2>2. ToSet(delivered) \cup ToSet(nmea_msg) \subseteq Nat
    <3>1. ASSUME NEW s \in Messages PROVE ToSet(s) \subseteq Nat
      <4>1. Range(s) \in SUBSET (1..MaxMessages)
        BY RangeOfSeq, Zenon DEF Messages
      <4>2. Range(s) = ToSet(s)
        BY DEF Range, ToSet
      <4>3. QED
        BY <4>1, <4>2
    <3>2. QED
      BY <3>1 DEF TypeOK, EngineType, HistoryType
  <2>3. QED
    BY <2>1, <2>2 DEF Ordered
<1>4. CASE Added
  <2>1. /\ adding /\ ~adding' /\ nmea_msg' = Append(base, count)
        /\ UNCHANGED <<delivered, count, run, raced>> /\ count \in 1..MaxMessages
    BY <1>4 DEF Added, Threads, TypeOK, EngineType
  <2>2. ToSet(Append(base, count)) = ToSet(base) \cup {count}
    <3> DEFINE S == 1..MaxMessages
    <3>1. base \in Seq(S) /\ count \in S
      BY <2>1 DEF TypeOK, EngineType, Messages
    <3> HIDE DEF S
    <3>2. QED
      BY <3>1, Appended
  <2>3. SUFFICES ASSUME ~raced
        PROVE /\ Rising(delivered) /\ Rising(nmea_msg')
              /\ \A m \in ToSet(delivered) \cup ToSet(nmea_msg') : m <= count
              /\ run # "call" => \A m \in ToSet(delivered), n \in ToSet(nmea_msg') : m < n
    BY <2>1 DEF Ordered, Rising
  <2>4. nmea_msg = base /\ Rising(base) /\ \A m \in ToSet(base) \cup ToSet(delivered) : m < count
    BY <2>1, <2>3 DEF Ordered
  <2>5. Rising(Append(base, count))
    BY <2>1, <2>4, RisingAppended DEF TypeOK, EngineType
  <2>6. \A m \in ToSet(delivered) \cup ToSet(nmea_msg') : m <= count
    BY <2>1, <2>2, <2>3, <2>4 DEF Ordered
  <2>7. QED
    BY <2>1, <2>2, <2>3, <2>4, <2>5, <2>6 DEF Ordered
<1>5. CASE Call
  <2>1. /\ delivered' = delivered \o nmea_msg /\ run # "call" /\ run' = "call"
        /\ UNCHANGED <<nmea_msg, raced, adding, count, base>>
    BY <1>5 DEF Call
  <2>2. ToSet(delivered \o nmea_msg) = ToSet(delivered) \cup ToSet(nmea_msg)
    BY Joined DEF TypeOK, EngineType, HistoryType, Messages
  <2>3. ~raced => Rising(delivered \o nmea_msg)
    BY <2>1, RisingJoined DEF Ordered, TypeOK, EngineType, HistoryType
  <2>4. QED
    BY <2>1, <2>2, <2>3 DEF Ordered
<1>6. CASE Clear
  <2>1. /\ nmea_msg' = <<>> /\ (~raced' => ~raced /\ ~adding)
        /\ UNCHANGED <<delivered, adding, count, base>>
    BY <1>6, Zenon DEF Clear
  <2>2. ToSet(<<>>) = {} /\ Rising(<<>>)
    BY Nothing DEF Rising
  <2>3. QED
    BY <2>1, <2>2 DEF Ordered
<1>7. QED
  BY <1>1, <1>2, <1>3, <1>4, <1>5, <1>6, ZenonT(60) DEF Next, RunThread, Heartbeat, vars, engine, facts,
     ForceStop, Store,
     Skip, Enter, Write, Fail, BeatEnter, BeatWrite, BeatFail, BeatEnd, Connect, Read, Hangup, Look, Register

LEMMA Delivery == TypeOK /\ Accounted /\ Ordered => HandedOver
<1> SUFFICES ASSUME TypeOK, Accounted, Ordered PROVE HandedOver
  OBVIOUS
<1>1. ~raced => \A i, j \in DOMAIN delivered : i < j => delivered[i] < delivered[j]
  BY DEF Ordered, Rising
<1>2. ToSet(delivered \o nmea_msg \o base \o <<count>>)
        = ToSet(delivered) \cup ToSet(nmea_msg) \cup ToSet(base) \cup {count}
  <2> DEFINE N == 0..MaxMessages
  <2>1. 1..MaxMessages \subseteq N
    BY SizesAreNat
  <2> HIDE DEF N
  <2>2. delivered \in Seq(N) /\ nmea_msg \in Seq(N) /\ base \in Seq(N)
    BY <2>1, SeqMonotonic, Zenon DEF TypeOK, EngineType, HistoryType, Messages
  <2>3. <<count>> \in Seq(N) /\ ToSet(<<count>>) = {count}
    BY DEF TypeOK, EngineType, ToSet, N
  <2> DEFINE d == delivered \o nmea_msg
             e == d \o base
             l == <<count>>
  <2>4. d \in Seq(N) /\ ToSet(d) = ToSet(delivered) \cup ToSet(nmea_msg)
    BY <2>2, Joined
  <2> HIDE DEF d
  <2>5. e \in Seq(N) /\ ToSet(e) = ToSet(d) \cup ToSet(base)
    BY <2>2, <2>4, Joined
  <2> HIDE DEF e
  <2>6. l \in Seq(N) /\ ToSet(l) = {count}
    BY <2>3
  <2> HIDE DEF l
  <2>7. ToSet(e \o l) = ToSet(delivered) \cup ToSet(nmea_msg) \cup ToSet(base) \cup {count}
    BY <2>4, <2>5, <2>6, Joined
  <2>8. QED
    BY <2>7 DEF d, e, l
<1>3. QED
  BY <1>1, <1>2 DEF Accounted, HandedOver

-----------------------------------------------------------------------------
(* What the buffer holds *)

\* IsSuffix, by places.
Ends(s, t) ==
  Len(s) <= Len(t) /\ \A i \in 1..Len(s) : s[i] = t[Len(t) - Len(s) + i]

LEMMA EndsIsSuffix ==
  ASSUME NEW S, NEW s \in Seq(S), NEW t \in Seq(S), Ends(s, t)
  PROVE  IsSuffix(s, t)
<1> DEFINE k == Len(s)
           n == Len(t)
           a == Reverse(s)
           b == Reverse(t)
<1>1. k \in Nat /\ n \in Nat /\ k <= n /\ \A i \in 1..k : s[i] = t[n - k + i]
  BY LenProperties DEF Ends
<1>2. /\ a \in Seq(S) /\ Len(a) = k /\ \A i \in 1..k : a[i] = s[k - i + 1]
      /\ b \in Seq(S) /\ Len(b) = n /\ \A i \in 1..n : b[i] = t[n - i + 1]
  <2>1. ASSUME NEW r \in Seq(S)
        PROVE Reverse(r) \in Seq(S) /\ Len(Reverse(r)) = Len(r)
              /\ \A i \in 1..Len(r) : Reverse(r)[i] = r[Len(r) - i + 1]
    <3>1. Len(r) \in Nat
      BY LenProperties
    <3>2. \A i \in 1..Len(r) : Len(r) - i + 1 \in 1..Len(r)
      BY <3>1
    <3>3. \A i \in 1..Len(r) : r[Len(r) - i + 1] \in S
      BY <3>2, ElementOfSeq
    <3>4. Reverse(r) \in [1..Len(r) -> S] /\ Reverse(r) = [i \in 1..Len(r) |-> r[Len(r) - i + 1]]
      BY <3>3 DEF Reverse
    <3>5. Reverse(r) \in Seq(S)
      BY <3>1, <3>4, SeqDef
    <3>6. DOMAIN Reverse(r) = 1..Len(Reverse(r)) /\ Len(Reverse(r)) \in Nat /\ DOMAIN Reverse(r) = 1..Len(r)
      BY <3>4, <3>5, LenProperties
    <3>7. Len(Reverse(r)) = Len(r)
      BY <3>1, <3>6
    <3>8. QED
      BY <3>4, <3>5, <3>7
  <2>2. QED
    BY <2>1
<1> HIDE DEF k, n, a, b
<1>3. \A i \in 1..k : a[i] = b[i]
  <2>1. SUFFICES ASSUME NEW i \in 1..k PROVE a[i] = b[i]
    OBVIOUS
  <2>2. k - i + 1 \in 1..k /\ n - k + (k - i + 1) = n - i + 1 /\ i \in 1..n
    BY <1>1
  <2>3. s[k - i + 1] = t[n - i + 1]
    BY <1>1, <2>2
  <2>4. QED
    BY <1>2, <2>2, <2>3, Zenon
<1>4. SubSeq(a, 1, k) = SubSeq(b, 1, k)
  <2> DEFINE u == SubSeq(a, 1, k)
             v == SubSeq(b, 1, k)
  <2>1. k \in Int /\ 1 \in Int /\ (\A i \in 1..k : a[i] \in S) /\ (\A i \in 1..k : b[i] \in S)
        /\ k - 1 + 1 = k /\ \A i \in 1..k : 1 + i - 1 = i
    BY <1>1, <1>2, ElementOfSeq
  <2>2. u \in Seq(S) /\ Len(u) = (IF 1 <= k THEN k - 1 + 1 ELSE 0) /\ \A i \in 1..k - 1 + 1 : u[i] = a[1 + i - 1]
    BY <2>1, SubSeqProperties
  <2>3. v \in Seq(S) /\ Len(v) = (IF 1 <= k THEN k - 1 + 1 ELSE 0) /\ \A i \in 1..k - 1 + 1 : v[i] = b[1 + i - 1]
    BY <2>1, SubSeqProperties
  <2> HIDE DEF u, v
  <2>4. Len(u) = k /\ Len(v) = k
    BY <1>1, <2>2, <2>3
  <2>5. \A i \in 1..k : u[i] = v[i]
    BY <1>3, <2>1, <2>2, <2>3
  <2>6. u = v
    BY <2>2, <2>3, <2>4, <2>5, SeqEqual, SMTT(60)
  <2>7. QED
    BY <2>6, Zenon DEF u, v
<1>5. IsPrefix(a, b)
  BY <1>1, <1>2, <1>4 DEF IsPrefix
<1>6. QED
  BY <1>5 DEF IsSuffix, a, b

\* Delivering and storing the same messages.
LEMMA EndsJoined ==
  ASSUME NEW S, NEW s \in Seq(S), NEW t \in Seq(S), NEW u \in Seq(S), Ends(s, t)
  PROVE  Ends(s \o u, t \o u)
<1> DEFINE a == s \o u
           b == t \o u
<1>1. /\ Len(s) \in Nat /\ Len(t) \in Nat /\ Len(u) \in Nat
      /\ Len(s) <= Len(t) /\ \A i \in 1..Len(s) : s[i] = t[Len(t) - Len(s) + i]
  BY LenProperties DEF Ends
<1>2. /\ Len(a) = Len(s) + Len(u)
      /\ \A i \in 1 .. Len(s) + Len(u) : a[i] = IF i <= Len(s) THEN s[i] ELSE u[i - Len(s)]
      /\ Len(b) = Len(t) + Len(u)
      /\ \A i \in 1 .. Len(t) + Len(u) : b[i] = IF i <= Len(t) THEN t[i] ELSE u[i - Len(t)]
  BY ConcatProperties, SMTT(60)
<1> HIDE DEF a, b
<1>3. ASSUME NEW i \in 1..Len(a) PROVE a[i] = b[Len(b) - Len(a) + i]
  <2> DEFINE j == Len(b) - Len(a) + i
  <2>1. j = Len(t) - Len(s) + i /\ j \in 1..Len(t) + Len(u) /\ i \in 1..Len(s) + Len(u)
    BY <1>1, <1>2
  <2> HIDE DEF j
  <2>2. CASE i <= Len(s)
    <3>1. i \in 1..Len(s) /\ j <= Len(t)
      BY <1>1, <2>1, <2>2
    <3>2. a[i] = s[i] /\ b[j] = t[j] /\ s[i] = t[Len(t) - Len(s) + i]
      BY <1>1, <1>2, <2>1, <2>2, <3>1, Zenon
    <3>3. QED
      BY <2>1, <3>2, Zenon DEF j
  <2>3. CASE ~(i <= Len(s))
    <3>1. ~(j <= Len(t)) /\ j - Len(t) = i - Len(s)
      BY <1>1, <2>1, <2>3
    <3>2. a[i] = u[i - Len(s)] /\ b[j] = u[j - Len(t)]
      BY <1>2, <2>1, <2>3, <3>1, Zenon
    <3>3. QED
      BY <3>1, <3>2 DEF j
  <2>4. QED
    BY <2>2, <2>3
<1>4. Len(a) <= Len(b)
  BY <1>1, <1>2
<1>5. QED
  BY <1>3, <1>4 DEF Ends, a, b

\* Dropping the oldest.
LEMMA EndsCut ==
  ASSUME NEW S, NEW s \in Seq(S), NEW t \in Seq(S), Ends(s, t), NEW k \in Nat, Len(s) > k
  PROVE  Ends(SubSeq(s, Len(s) - k + 1, Len(s)), t)
<1> DEFINE n == Len(s)
           m == n - k + 1
           w == SubSeq(s, m, n)
<1>1. /\ n \in Nat /\ Len(t) \in Nat /\ n <= Len(t)
      /\ \A i \in 1..n : s[i] = t[Len(t) - n + i] /\ s[i] \in S
  BY LenProperties, ElementOfSeq DEF Ends
<1>2. n > k
  OBVIOUS
<1> HIDE DEF n
<1>3. m \in Int /\ m \in 1..n + 1 /\ n - m + 1 = k
  BY <1>1, <1>2
<1>4. \A i \in m..n : i \in 1..n
  BY <1>1, <1>3
<1>5. \A i \in m..n : s[i] \in S
  BY <1>1, <1>4, Zenon
<1> HIDE DEF m
<1>6. Len(w) = (IF m <= n THEN n - m + 1 ELSE 0) /\ \A i \in 1..n - m + 1 : w[i] = s[m + i - 1]
  BY <1>1, <1>3, <1>5, SubSeqProperties
<1> HIDE DEF w
<1>7. Len(w) = k
  BY <1>1, <1>3, <1>6
<1>8. ASSUME NEW i \in 1..k PROVE w[i] = t[Len(t) - k + i]
  <2>1. m + i - 1 \in 1..n /\ Len(t) - n + (m + i - 1) = Len(t) - k + i
    BY <1>1, <1>2, <1>3, SMTT(60)
  <2>2. w[i] = s[m + i - 1]
    BY <1>3, <1>6
  <2>3. s[m + i - 1] = t[Len(t) - n + (m + i - 1)]
    BY <1>1, <2>1, SMTT(60)
  <2>4. QED
    BY <2>1, <2>2, <2>3
<1>9. k <= Len(t)
  BY <1>1, <1>2
<1>10. QED
  BY <1>7, <1>8, <1>9, Zenon DEF Ends, w, m, n

\* Until two listeners of the buffer are registered there is one, which each call
\* reaches once; what it has stored, with what this call has for it, ends what was
\* delivered.
Buffered ==
  ~doubled =>
    /\ Single(nmeaListeners, "buffer") /\ Single(todo, "buffer")
    /\ registered <=> "buffer" \in ToSet(nmeaListeners)
    /\ ~registered => nmeaBuffer = <<>> /\ "buffer" \notin ToSet(todo)
    /\ IF "buffer" \in ToSet(todo) THEN Ends(nmeaBuffer \o batch, delivered) ELSE Ends(nmeaBuffer, delivered)

LEMMA BufferedFrame ==
  ASSUME TypeOK, Buffered, UNCHANGED <<registered, nmeaBuffer, delivered, doubled>>,
         "buffer" \in ToSet(nmeaListeners') <=> "buffer" \in ToSet(nmeaListeners),
         Single(nmeaListeners, "buffer") => Single(nmeaListeners', "buffer"),
         "buffer" \in ToSet(todo') <=> "buffer" \in ToSet(todo),
         Single(todo, "buffer") => Single(todo', "buffer"),
         batch' = batch \/ "buffer" \notin ToSet(todo)
  PROVE  Buffered'
<1>1. SUFFICES ASSUME ~doubled
      PROVE  /\ Single(nmeaListeners', "buffer") /\ Single(todo', "buffer")
             /\ registered <=> "buffer" \in ToSet(nmeaListeners')
             /\ ~registered => nmeaBuffer = <<>> /\ "buffer" \notin ToSet(todo')
             /\ IF "buffer" \in ToSet(todo') THEN Ends(nmeaBuffer \o batch', delivered) ELSE Ends(nmeaBuffer, delivered)
  BY DEF Buffered, Single, Ends
<1>2. QED
  BY <1>1 DEF Buffered

LEMMA BufferedStep == TypeOK /\ Threads /\ Buffered /\ [Next]_vars => Buffered'
<1> SUFFICES ASSUME TypeOK, Threads, Buffered, [Next]_vars PROVE Buffered'
  OBVIOUS
<1>1. nmeaListeners \in Seq(Listeners) /\ todo \in Seq(Listeners) /\ "buffer" \notin Clients
  BY BufferIsNoClient DEF TypeOK, CalloutType
<1>2. ASSUME UNCHANGED <<registered, nmeaBuffer, delivered, doubled, nmeaListeners, todo, batch>> PROVE Buffered'
  BY <1>2, BufferedFrame
<1>3. CASE Call
  <2>1. /\ batch' = nmea_msg /\ todo' = nmeaListeners /\ delivered' = delivered \o nmea_msg
        /\ UNCHANGED <<registered, nmeaBuffer, doubled, nmeaListeners>> /\ todo = <<>>
    BY <1>3 DEF Call, polls, Threads
  <2>2. "buffer" \notin ToSet(todo)
    BY <2>1, Nothing
  <2>3. Ends(nmeaBuffer, delivered) => Ends(nmeaBuffer \o nmea_msg, delivered \o nmea_msg)
    BY EndsJoined DEF TypeOK, EngineType, PollsType, HistoryType, Messages
  <2>4. \A s \in Messages : Ends(<<>>, s)
    BY LenProperties, EmptySeq DEF Ends, Messages
  <2>5. delivered \o nmea_msg \in Messages
    BY Joined DEF TypeOK, EngineType, HistoryType, Messages
  <2>6. SUFFICES ASSUME ~doubled
        PROVE  /\ Single(nmeaListeners, "buffer")
               /\ registered <=> "buffer" \in ToSet(nmeaListeners)
               /\ ~registered => nmeaBuffer = <<>>
               /\ IF "buffer" \in ToSet(nmeaListeners) THEN Ends(nmeaBuffer \o nmea_msg, delivered \o nmea_msg)
                  ELSE Ends(nmeaBuffer, delivered \o nmea_msg)
    BY <2>1, SMTT(60) DEF Buffered, Single, Ends
  <2>7. QED
    BY <2>2, <2>3, <2>4, <2>5, <2>6 DEF Buffered
<1>4. CASE Clear
  <2>1. UNCHANGED <<registered, nmeaBuffer, delivered, doubled, nmeaListeners, todo>> /\ todo = <<>>
    BY <1>4 DEF Clear, polls, callout
  <2>2. "buffer" \notin ToSet(todo)
    BY <2>1, Nothing
  <2>3. QED
    BY <2>1, <2>2, BufferedFrame
<1>5. ASSUME NEW c \in Clients, Skip(c) \/ Enter(c) \/ Write(c) \/ Fail(c) PROVE Buffered'
  <2>1. c # "buffer" /\ todo # <<>> /\ Head(todo) = c
    BY <1>1, <1>5 DEF Skip, Enter, Write, Fail, At
  <2>2. /\ "buffer" \in ToSet(Tail(todo)) <=> "buffer" \in ToSet(todo)
        /\ Single(todo, "buffer") => Single(Tail(todo), "buffer")
    BY <1>1, <2>1, Shortened, SingleShortened
  <2>3. UNCHANGED <<registered, nmeaBuffer, delivered, doubled, batch>>
    BY <1>5 DEF Skip, Enter, Write, Fail, polls, facts, engine
  <2>4. todo' \in {todo, Tail(todo)} /\ nmeaListeners' \in {nmeaListeners, RemoveFirst(nmeaListeners, c)}
    BY <1>5 DEF Skip, Enter, Write, Fail, GiveUp
  <2>5. QED
    BY <1>1, <2>1, <2>2, <2>3, <2>4, Removed, BufferedFrame, Zenon
<1>6. ASSUME NEW c \in Clients, Heartbeat(c) PROVE Buffered'
  <2>1. UNCHANGED <<registered, nmeaBuffer, delivered, doubled, batch, todo>>
    BY <1>6 DEF Heartbeat, BeatEnter, BeatWrite, BeatFail, BeatEnd, polls, facts, engine, callout
  <2>2. nmeaListeners' \in {nmeaListeners, RemoveFirst(nmeaListeners, c)} /\ c # "buffer"
    BY <1>1, <1>6 DEF Heartbeat, BeatEnter, BeatWrite, BeatFail, BeatEnd, GiveUp
  <2>3. QED
    BY <1>1, <2>1, <2>2, Removed, BufferedFrame
<1>7. ASSUME NEW c \in Clients, Connect(c) PROVE Buffered'
  <2>1. /\ UNCHANGED <<registered, nmeaBuffer, delivered, doubled, batch, todo>>
        /\ nmeaListeners' = Append(nmeaListeners, c) /\ c # "buffer"
    BY <1>1, <1>7 DEF Connect, polls, facts, engine, callout
  <2>2. c \in Listeners
    BY DEF Listeners
  <2>3. /\ "buffer" \in ToSet(nmeaListeners') <=> "buffer" \in ToSet(nmeaListeners)
        /\ Single(nmeaListeners, "buffer") => Single(nmeaListeners', "buffer")
    BY <1>1, <2>1, <2>2, Appended, SingleAppended
  <2>4. QED
    BY <2>1, <2>3, BufferedFrame
<1>8. ASSUME NEW p \in Pollers, Register(p) PROVE Buffered'
  <2>1. /\ registered' = TRUE /\ nmeaListeners' = Append(nmeaListeners, "buffer")
        /\ UNCHANGED <<nmeaBuffer, delivered, batch, todo>>
        /\ ~doubled' => ~doubled /\ ~registered
    BY <1>8, Zenon DEF Register, facts, engine, callout
  <2>2. "buffer" \in Listeners
    BY DEF Listeners
  <2>3. "buffer" \in ToSet(nmeaListeners')
    BY <1>1, <2>1, <2>2, Appended
  <2>4. ~doubled' => Single(nmeaListeners', "buffer")
    BY <1>1, <2>1, <2>2, SingleAppended DEF Buffered
  <2>5. QED
    BY <2>1, <2>3, <2>4 DEF Buffered
<1>9. CASE Store
  <2> DEFINE lines == nmeaBuffer \o batch
  <2>1. /\ todo # <<>> /\ Head(todo) = "buffer" /\ todo' = Tail(todo)
        /\ UNCHANGED <<registered, delivered, doubled, nmeaListeners>>
        /\ nmeaBuffer' = IF Len(lines) > BufferSize
                         THEN SubSeq(lines, Len(lines) - BufferSize + 1, Len(lines)) ELSE lines
    BY <1>9 DEF Store, At, facts
  <2>2. "buffer" \in ToSet(todo) /\ (Single(todo, "buffer") => Single(Tail(todo), "buffer") /\ "buffer" \notin ToSet(Tail(todo)))
    BY <1>1, <2>1, Shortened, SingleShortened
  <2>3. lines \in Messages /\ delivered \in Messages
    BY Joined DEF TypeOK, EngineType, PollsType, HistoryType, Messages
  <2> HIDE DEF lines
  <2>4. Ends(lines, delivered) => Ends(nmeaBuffer', delivered)
    BY <2>1, <2>3, EndsCut, SizesAreNat DEF Messages
  <2>5. SUFFICES ASSUME ~doubled
        PROVE  /\ Single(nmeaListeners, "buffer") /\ Single(Tail(todo), "buffer")
               /\ registered /\ "buffer" \in ToSet(nmeaListeners)
               /\ "buffer" \notin ToSet(Tail(todo)) /\ Ends(nmeaBuffer', delivered)
    BY <2>1, ZenonT(60) DEF Buffered, Single, Ends
  <2>6. QED
    BY <2>2, <2>4, <2>5 DEF Buffered, lines
<1>10. QED
  BY <1>2, <1>3, <1>4, <1>5, <1>6, <1>7, <1>8, <1>9, ZenonT(60) DEF Next, RunThread, vars, engine, facts,
     polls, callout,
     Add, Added, Play, ForceStop, Test, Again, End, Read, Hangup, Look

-----------------------------------------------------------------------------
(* Sequences put together: FlattenSeq, without induction, from least numbers *)

\* How FlattenSeq is computed.
Flattens(s, g) == g = [i \in 1..Len(s) |-> IF i = 1 THEN s[i] ELSE g[i - 1] \o s[i]]

LEMMA Flattening ==
  ASSUME NEW S, NEW s \in Seq(Seq(S)), s # <<>>
  PROVE  \E g \in [1..Len(s) -> Seq(S)] : Flattens(s, g)
<1> DEFINE Flat(t) == \E g \in [1..Len(t) -> Seq(S)] : Flattens(t, g)
           Bad == {n \in Nat : n # 0 /\ \E t \in Seq(Seq(S)) : Len(t) = n /\ ~ Flat(t)}
<1>1. SUFFICES ASSUME Bad # {} PROVE FALSE
  <2>1. Len(s) \in Nat /\ Len(s) # 0
    BY LenProperties, EmptySeq
  <2> HIDE DEF Flat
  <2>2. Flat(s)
    BY <1>1, <2>1
  <2>3. QED
    BY <2>2 DEF Flat
<1>2. PICK n \in Bad : \A m \in Bad : n <= m
  <2>1. Bad \in SUBSET Nat
    OBVIOUS
  <2> HIDE DEF Bad
  <2>2. QED
    BY <1>1, <2>1, LeastOf, Zenon
<1>3. PICK t \in Seq(Seq(S)) : Len(t) = n /\ ~ Flat(t)
  <2> HIDE DEF Flat
  <2>1. QED
    OBVIOUS
<1>4. n \in Nat \ {0} /\ DOMAIN t = 1..n /\ \A i \in 1..n : t[i] \in Seq(S)
  BY <1>2, <1>3, LenProperties
<1>5. n # 1
  <2>1. SUFFICES ASSUME n = 1 PROVE FALSE
    OBVIOUS
  <2> DEFINE g == [i \in 1..1 |-> t[i]]
  <2>2. g \in [1..Len(t) -> Seq(S)] /\ g = [i \in 1..Len(t) |-> IF i = 1 THEN t[i] ELSE g[i - 1] \o t[i]]
    BY <1>3, <1>4, <2>1
  <2>3. QED
    BY <1>3, <2>2, Zenon DEF Flattens
<1>6. PICK u \in Seq(Seq(S)) : Len(u) = n - 1 /\ \A i \in 1..n - 1 : u[i] = t[i]
  <2>1. 1 \in Int /\ n - 1 \in Int /\ \A i \in 1..n - 1 : t[i] \in Seq(S)
    BY <1>4
  <2>2. /\ SubSeq(t, 1, n - 1) \in Seq(Seq(S))
        /\ Len(SubSeq(t, 1, n - 1)) = IF 1 <= n - 1 THEN n - 1 - 1 + 1 ELSE 0
        /\ \A i \in 1..n - 1 - 1 + 1 : SubSeq(t, 1, n - 1)[i] = t[1 + i - 1]
    BY <2>1, SubSeqProperties, SMTT(60)
  <2>3. 1 <= n - 1 /\ n - 1 - 1 + 1 = n - 1 /\ \A i \in 1..n - 1 : 1 + i - 1 = i
    BY <1>4, <1>5
  <2>4. QED
    BY <2>2, <2>3, ZenonT(60)
<1>7. PICK g \in [1..n - 1 -> Seq(S)] : g = [i \in 1..n - 1 |-> IF i = 1 THEN u[i] ELSE g[i - 1] \o u[i]]
  <2>1. n - 1 \in Nat /\ n - 1 # 0 /\ ~ (n <= n - 1)
    BY <1>4, <1>5
  <2>2. n - 1 \notin Bad
    BY <1>2, <2>1
  <2> HIDE DEF Flat
  <2>3. Flat(u)
    BY <1>6, <2>1, <2>2
  <2>4. QED
    BY <1>6, <2>3, ZenonT(60) DEF Flat, Flattens
<1> DEFINE h == [i \in 1..n |-> IF i = n THEN g[n - 1] \o t[n] ELSE g[i]]
<1>8. h \in [1..n -> Seq(S)]
  <2>1. g[n - 1] \in Seq(S) /\ t[n] \in Seq(S)
    BY <1>4, <1>5, <1>7
  <2>2. g[n - 1] \o t[n] \in Seq(S)
    BY <2>1, ConcatProperties
  <2>3. \A i \in 1..n : i # n => i \in 1..n - 1
    BY <1>4
  <2>4. QED
    BY <1>7, <2>2, <2>3, Zenon
<1>9. ASSUME NEW i \in 1..n PROVE h[i] = IF i = 1 THEN t[i] ELSE h[i - 1] \o t[i]
  <2>1. CASE i = n
    <3>1. i # 1 /\ i - 1 \in 1..n /\ i - 1 # n
      BY <1>4, <1>5, <2>1
    <3>2. h[i - 1] = g[n - 1] /\ h[i] = g[n - 1] \o t[n]
      BY <2>1, <3>1, Zenon
    <3>3. QED
      BY <2>1, <3>1, <3>2, Zenon
  <2>2. CASE i # n
    <3>0. i \in 1..n - 1
      BY <1>4, <2>2
    <3>1. i \in 1..n - 1 /\ h[i] = g[i] /\ u[i] = t[i]
      BY <1>6, <2>2, <3>0, Zenon
    <3>2. g[i] = IF i = 1 THEN u[i] ELSE g[i - 1] \o u[i]
      BY <1>7, <3>1, Zenon
    <3>3. i # 1 => i - 1 \in 1..n /\ i - 1 # n
      BY <1>4, <3>1
    <3>4. i # 1 => h[i - 1] = g[i - 1]
      BY <3>3
    <3>5. QED
      BY <3>1, <3>2, <3>4, Zenon
  <2>3. QED
    BY <2>1, <2>2
<1> HIDE DEF h
<1>10. h = [i \in 1..n |-> IF i = 1 THEN t[i] ELSE h[i - 1] \o t[i]]
  BY <1>8, <1>9, Zenon
<1>11. QED
  BY <1>3, <1>8, <1>10, Zenon DEF Flattens

\* There is one way to compute it.
LEMMA FlattenIs ==
  ASSUME NEW S, NEW s \in Seq(Seq(S)), s # <<>>, NEW g \in [1..Len(s) -> Seq(S)], Flattens(s, g)
  PROVE  FlattenSeq(s) = g[Len(s)]
<1> DEFINE f == CHOOSE h : h = [i \in 1..Len(s) |-> IF i = 1 THEN s[i] ELSE h[i - 1] \o s[i]]
<1>1. Len(s) \in Nat /\ Len(s) # 0
  BY LenProperties, EmptySeq
<1>2. FlattenSeq(s) = f[Len(s)]
  BY <1>1 DEF FlattenSeq
<1>3. f = [i \in 1..Len(s) |-> IF i = 1 THEN s[i] ELSE f[i - 1] \o s[i]]
  BY Zenon DEF Flattens
<1> HIDE DEF f
<1>4. g = [i \in 1..Len(s) |-> IF i = 1 THEN s[i] ELSE g[i - 1] \o s[i]]
  BY Zenon DEF Flattens
<1> DEFINE Bad == {i \in 1..Len(s) : f[i] # g[i]}
<1>5. Bad = {}
  <2>1. SUFFICES ASSUME Bad # {} PROVE FALSE
    OBVIOUS
  <2>2. Bad \in SUBSET Nat
    OBVIOUS
  <2>3. PICK i \in Bad : \A j \in Bad : i <= j
    <3> HIDE DEF Bad
    <3>1. QED
      BY <2>1, <2>2, LeastOf, Zenon
  <2>4. i \in 1..Len(s) /\ f[i] # g[i]
    OBVIOUS
  <2>5. /\ f[i] = IF i = 1 THEN s[i] ELSE f[i - 1] \o s[i]
        /\ g[i] = IF i = 1 THEN s[i] ELSE g[i - 1] \o s[i]
    BY <1>3, <1>4, <2>4, Zenon
  <2>6. i # 1 => i - 1 \in 1..Len(s) /\ ~ (i <= i - 1)
    BY <1>1, <2>4
  <2>7. i # 1 => f[i - 1] = g[i - 1]
    BY <2>3, <2>6
  <2>8. QED
    BY <2>4, <2>5, <2>7
<1>6. Len(s) \in 1..Len(s)
  BY <1>1
<1>7. QED
  BY <1>2, <1>5, <1>6, SMTT(60)

LEMMA FlattenEmpty == FlattenSeq(<<>>) = <<>>
BY EmptySeq DEF FlattenSeq

\* A sequence that is appended comes last.
LEMMA FlattenAppended ==
  ASSUME NEW S, NEW s \in Seq(Seq(S)), NEW e \in Seq(S)
  PROVE  FlattenSeq(s) \in Seq(S) /\ FlattenSeq(Append(s, e)) = FlattenSeq(s) \o e
<1> DEFINE t == Append(s, e)
           n == Len(s)
<1>1. n \in Nat /\ t \in Seq(Seq(S)) /\ t # <<>> /\ Len(t) = n + 1 /\ t[n + 1] = e /\ \A i \in 1..n : t[i] = s[i]
  BY AppendProperties, LenProperties
<1>2. s = <<>> <=> n = 0
  BY Emptied
<1> HIDE DEF t, n
<1>3. CASE n = 0
  <2> DEFINE g == [i \in 1..1 |-> t[i]]
  <2>1. s = <<>> /\ Len(t) = 1 /\ t[1] = e
    BY <1>1, <1>2, <1>3
  <2>2. g \in [1..Len(t) -> Seq(S)] /\ g = [i \in 1..Len(t) |-> IF i = 1 THEN t[i] ELSE g[i - 1] \o t[i]] /\ g[1] = e
    BY <2>1
  <2> HIDE DEF g
  <2>3. FlattenSeq(t) = e
    BY <1>1, <2>1, <2>2, FlattenIs, ZenonT(60) DEF Flattens
  <2>4. FlattenSeq(s) = <<>> /\ <<>> \in Seq(S) /\ <<>> \o e = e
    BY <2>1, FlattenEmpty, EmptySeq, ConcatEmptySeq
  <2>5. QED
    BY <2>3, <2>4 DEF t
<1>4. CASE n # 0
  <2>1. PICK g \in [1..n -> Seq(S)] : g = [i \in 1..n |-> IF i = 1 THEN s[i] ELSE g[i - 1] \o s[i]]
    BY <1>2, <1>4, Flattening, ZenonT(60) DEF Flattens, n
  <2>2. FlattenSeq(s) = g[n]
    BY <1>2, <1>4, <2>1, FlattenIs, Zenon DEF Flattens, n
  <2>3. g[n] \in Seq(S) /\ g[n] \o e \in Seq(S)
    BY <1>1, <1>4, <2>1, ConcatProperties
  <2> DEFINE h == [i \in 1..n + 1 |-> IF i = n + 1 THEN g[n] \o e ELSE g[i]]
  <2>4. \A i \in 1..n + 1 : i # n + 1 => i \in 1..n
    BY <1>1
  <2>5. h \in [1..n + 1 -> Seq(S)]
    BY <2>1, <2>3, <2>4, Zenon
  <2>6. ASSUME NEW i \in 1..n + 1 PROVE h[i] = IF i = 1 THEN t[i] ELSE h[i - 1] \o t[i]
    <3>1. CASE i = n + 1
      <4>1. i # 1 /\ i - 1 = n /\ n \in 1..n + 1 /\ n # n + 1
        BY <1>1, <1>4, <3>1
      <4>2. QED
        BY <1>1, <3>1, <4>1, Zenon
    <3>2. CASE i # n + 1
      <4>1. i \in 1..n /\ h[i] = g[i] /\ t[i] = s[i]
        BY <1>1, <2>4, <3>2, ZenonT(60)
      <4>2. g[i] = IF i = 1 THEN s[i] ELSE g[i - 1] \o s[i]
        BY <2>1, <4>1, Zenon
      <4>3. i # 1 => i - 1 \in 1..n + 1 /\ i - 1 # n + 1
        BY <1>1, <4>1, SMTT(60)
      <4>4. i # 1 => h[i - 1] = g[i - 1]
        BY <4>3
      <4>5. QED
        BY <4>1, <4>2, <4>4, Zenon
    <3>3. QED
      BY <3>1, <3>2
  <2>7. n + 1 \in 1..n + 1 /\ h[n + 1] = g[n] \o e
    BY <1>1, SMTT(60)
  <2> HIDE DEF h
  <2>8. h = [i \in 1..n + 1 |-> IF i = 1 THEN t[i] ELSE h[i - 1] \o t[i]]
    BY <2>5, <2>6, Zenon
  <2>9. FlattenSeq(t) = h[n + 1]
    <3>1. h \in [1..Len(t) -> Seq(S)] /\ Flattens(t, h)
      BY <1>1, <2>5, <2>8, Zenon DEF Flattens
    <3>2. QED
      BY <1>1, <3>1, FlattenIs, Zenon
  <2>10. QED
    BY <2>2, <2>3, <2>7, <2>9 DEF t
<1>5. QED
  BY <1>3, <1>4

\* Sequences are joined from either end.
LEMMA Regrouped ==
  ASSUME NEW S, NEW x \in Seq(S), NEW y \in Seq(S), NEW z \in Seq(S)
  PROVE  x \o (y \o z) = (x \o y) \o z
BY ConcatAssociative, SMTT(60)

\* The first of the sequences comes first.
LEMMA FlattenShortened ==
  ASSUME NEW S, NEW s \in Seq(Seq(S)), s # <<>>
  PROVE  FlattenSeq(s) = Head(s) \o FlattenSeq(Tail(s))
<1> DEFINE t == Tail(s)
           n == Len(s)
           a == Head(s)
<1>1. /\ n \in Nat \ {0} /\ a \in Seq(S) /\ a = s[1] /\ t \in Seq(Seq(S)) /\ Len(t) = n - 1
      /\ \A i \in 1..n - 1 : t[i] = s[i + 1] /\ t[i] \in Seq(S)
  BY HeadTailProperties, EmptySeq, ElementOfSeq
<1>2. t = <<>> <=> n = 1
  <2>1. t = <<>> <=> Len(t) = 0
    BY <1>1, Emptied, Zenon
  <2>2. QED
    BY <1>1, <2>1, SMTT(60)
<1>3. \A i \in 1..n : s[i] \in Seq(S)
  BY ElementOfSeq
<1> HIDE DEF t, n, a
<1>4. CASE n = 1
  <2> DEFINE g == [i \in 1..1 |-> s[i]]
  <2>1. t = <<>> /\ Len(s) = 1
    BY <1>2, <1>4 DEF n
  <2>2. g \in [1..Len(s) -> Seq(S)] /\ g = [i \in 1..Len(s) |-> IF i = 1 THEN s[i] ELSE g[i - 1] \o s[i]] /\ g[1] = a
    BY <1>1, <1>3, <1>4, <2>1
  <2> HIDE DEF g
  <2>3. FlattenSeq(s) = a
    BY <2>1, <2>2, FlattenIs, ZenonT(60) DEF Flattens
  <2>4. FlattenSeq(t) = <<>> /\ a \o <<>> = a
    BY <1>1, <2>1, FlattenEmpty, ConcatEmptySeq
  <2>5. QED
    BY <2>3, <2>4 DEF t, a
<1>5. CASE n # 1
  <2>1. PICK g \in [1..n - 1 -> Seq(S)] : g = [i \in 1..n - 1 |-> IF i = 1 THEN t[i] ELSE g[i - 1] \o t[i]]
    <3>1. \E g \in [1..Len(t) -> Seq(S)] : Flattens(t, g)
      BY <1>1, <1>2, <1>5, Flattening, Zenon
    <3>2. QED
      BY <1>1, <3>1, ZenonT(60) DEF Flattens
  <2>2. FlattenSeq(t) = g[n - 1]
    <3>1. g \in [1..Len(t) -> Seq(S)] /\ Flattens(t, g)
      BY <1>1, <2>1, Zenon DEF Flattens
    <3>2. QED
      BY <1>1, <1>2, <1>5, <3>1, FlattenIs, ZenonT(60)
  <2> DEFINE h == [i \in 1..n |-> IF i = 1 THEN a ELSE a \o g[i - 1]]
  <2>3. \A i \in 1..n : i # 1 => i - 1 \in 1..n - 1 /\ i - 1 \in 1..n
    BY <1>1
  <2>4. h \in [1..n -> Seq(S)]
    BY <1>1, <2>1, <2>3, ConcatProperties, Zenon
  <2>5. ASSUME NEW i \in 1..n PROVE h[i] = IF i = 1 THEN s[i] ELSE h[i - 1] \o s[i]
    <3>1. CASE i = 1
      BY <1>1, <3>1
    <3>2. CASE i # 1
      <4>1. i - 1 \in 1..n - 1 /\ i - 1 \in 1..n /\ h[i] = a \o g[i - 1] /\ (i - 1) + 1 = i
        BY <2>3, <3>2, SMTT(60)
      <4>2. t[i - 1] = s[i] /\ s[i] \in Seq(S)
        BY <1>1, <4>1, Zenon
      <4>3. g[i - 1] = IF i - 1 = 1 THEN t[i - 1] ELSE g[i - 1 - 1] \o t[i - 1]
        BY <2>1, <4>1, Zenon
      <4>4. CASE i - 1 = 1
        <5>1. h[i - 1] = a
          BY <4>1, <4>4
        <5>2. QED
          BY <3>2, <4>1, <4>2, <4>3, <4>4, <5>1, Zenon
      <4>5. CASE i - 1 # 1
        <5>1. h[i - 1] = a \o g[i - 1 - 1] /\ i - 1 - 1 \in 1..n - 1
          BY <2>3, <4>1, <4>5, Zenon
        <5>2. a \o (g[i - 1 - 1] \o s[i]) = (a \o g[i - 1 - 1]) \o s[i]
          <6>1. g[i - 1 - 1] \in Seq(S)
            BY <2>1, <5>1, Zenon
          <6>2. a \in Seq(S) /\ s[i] \in Seq(S)
            BY <1>1, <4>2, Zenon
          <6>3. \A x, y, z \in Seq(S) : x \o (y \o z) = (x \o y) \o z
            BY Regrouped, SMTT(60)
          <6>4. QED
            BY <6>1, <6>2, <6>3, ZenonT(60)
        <5>3. QED
          BY <3>2, <4>1, <4>2, <4>3, <4>5, <5>1, <5>2, Zenon
      <4>6. QED
        BY <4>4, <4>5
    <3>3. QED
      BY <3>1, <3>2
  <2>6. n \in 1..n /\ h[n] = a \o g[n - 1]
    <3>1. n \in 1..n
      BY <1>1
    <3>2. QED
      BY <1>5, <3>1, Zenon
  <2> HIDE DEF h
  <2>7. h = [i \in 1..n |-> IF i = 1 THEN s[i] ELSE h[i - 1] \o s[i]]
    BY <2>4, <2>5, Zenon
  <2>8. FlattenSeq(s) = h[n]
    BY <2>4, <2>7, FlattenIs, Zenon DEF Flattens, n
  <2>9. QED
    BY <2>2, <2>6, <2>8, Zenon DEF t, a
<1>6. QED
  BY <1>4, <1>5

\* What the last piece of an event brings the client.
Brings(p) == IF p.part = 2 THEN p.messages ELSE <<>>

\* What a sequence of pieces brings, piece by piece.
LEMMA EndedPieces ==
  /\ Ended(<<>>) = <<>>
  /\ \A ps \in Seq(Piece) : Ended(ps) \in Messages
  /\ \A ps \in Seq(Piece), p \in Piece :
       Brings(p) \in Messages /\ Ended(Append(ps, p)) = Ended(ps) \o Brings(p)
  /\ \A ps \in Seq(Piece) : ps # <<>> => Ended(ps) = Brings(Head(ps)) \o Ended(Tail(ps))
<1> DEFINE All(ps) == [i \in DOMAIN ps |-> Brings(ps[i])]
           S == 1..MaxMessages
<1>1. \A ps : Ended(ps) = FlattenSeq(All(ps))
  BY DEF Ended, Brings
<1>2. ASSUME NEW p \in Piece PROVE Brings(p) \in Seq(S)
  BY Nothing, Zenon DEF Brings, Piece, Messages
<1>3. ASSUME NEW ps \in Seq(Piece)
      PROVE  /\ All(ps) \in Seq(Seq(S)) /\ Len(All(ps)) = Len(ps) /\ Len(ps) \in Nat
             /\ \A i \in 1..Len(ps) : All(ps)[i] = Brings(ps[i])
  <2>1. Len(ps) \in Nat /\ DOMAIN ps = 1..Len(ps) /\ \A i \in 1..Len(ps) : ps[i] \in Piece
    BY LenProperties
  <2>2. All(ps) \in [1..Len(ps) -> Seq(S)]
    BY <1>2, <2>1
  <2>3. All(ps) \in Seq(Seq(S))
    <3> HIDE DEF All
    <3>1. QED
      BY <2>1, <2>2, SeqDef
  <2>4. DOMAIN All(ps) = 1..Len(ps) /\ DOMAIN All(ps) = 1..Len(All(ps)) /\ Len(All(ps)) \in Nat
    <3> HIDE DEF All
    <3>1. QED
      BY <2>2, <2>3, LenProperties
  <2>5. Len(All(ps)) = Len(ps)
    <3> HIDE DEF All
    <3>1. QED
      BY <2>1, <2>4
  <2>6. QED
    BY <2>1, <2>3, <2>5
<1>4. Ended(<<>>) = <<>>
  <2>1. <<>> \in Seq(Piece) /\ Len(<<>>) = 0
    BY EmptySeq
  <2>2. All(<<>>) \in Seq(Seq(S)) /\ Len(All(<<>>)) = 0
    BY <1>3, <2>1
  <2> HIDE DEF All
  <2>3. All(<<>>) = <<>>
    BY <2>2, Emptied
  <2>4. QED
    BY <1>1, <2>3, FlattenEmpty
<1>5. ASSUME NEW ps \in Seq(Piece) PROVE Ended(ps) \in Seq(S)
  <2>1. <<>> \in Seq(S) /\ All(ps) \in Seq(Seq(S))
    BY <1>3, Nothing
  <2> HIDE DEF All
  <2>2. QED
    BY <1>1, <2>1, FlattenAppended
<1>6. ASSUME NEW ps \in Seq(Piece), NEW p \in Piece
      PROVE  Ended(Append(ps, p)) = Ended(ps) \o Brings(p)
  <2> DEFINE qs == Append(ps, p)
  <2>1. qs \in Seq(Piece) /\ Len(qs) = Len(ps) + 1 /\ qs[Len(ps) + 1] = p /\ \A i \in 1..Len(ps) : qs[i] = ps[i]
    BY AppendProperties
  <2>2. /\ All(ps) \in Seq(Seq(S)) /\ Len(All(ps)) = Len(ps) /\ Len(ps) \in Nat
        /\ \A i \in 1..Len(ps) : All(ps)[i] = Brings(ps[i])
    BY <1>3
  <2> HIDE DEF qs
  <2>3. /\ All(qs) \in Seq(Seq(S)) /\ Len(All(qs)) = Len(qs)
        /\ \A i \in 1..Len(qs) : All(qs)[i] = Brings(qs[i])
    BY <1>3, <2>1, Zenon
  <2> DEFINE as == Append(All(ps), Brings(p))
  <2> HIDE DEF All, S
  <2>4. as \in Seq(Seq(S)) /\ Len(as) = Len(ps) + 1 /\ as[Len(ps) + 1] = Brings(p) /\ \A i \in 1..Len(ps) : as[i] = All(ps)[i]
    BY <1>2, <2>2, AppendProperties
  <2> HIDE DEF as
  <2>5. \A i \in 1..Len(ps) + 1 : All(qs)[i] = as[i]
    <3>1. SUFFICES ASSUME NEW i \in 1..Len(ps) + 1 PROVE All(qs)[i] = as[i]
      OBVIOUS
    <3>2. CASE i = Len(ps) + 1
      BY <2>1, <2>3, <2>4, <3>2, Zenon
    <3>3. CASE i # Len(ps) + 1
      <4>1. i \in 1..Len(ps)
        BY <2>2, <3>3
      <4>2. QED
        BY <2>1, <2>2, <2>3, <2>4, <4>1, ZenonT(30)
    <3>4. QED
      BY <3>2, <3>3, Zenon
  <2>6. All(qs) = as
    <3>1. All(qs) \in Seq(Seq(S)) /\ as \in Seq(Seq(S)) /\ Len(All(qs)) = Len(ps) + 1 /\ Len(All(qs)) = Len(as)
      BY <2>1, <2>3, <2>4, Zenon
    <3>2. \A i \in 1..Len(All(qs)) : All(qs)[i] = as[i]
      BY <2>5, <3>1, Zenon
    <3>3. QED
      BY <3>1, <3>2, SeqEqual, ZenonT(30)
  <2>7. FlattenSeq(as) = FlattenSeq(All(ps)) \o Brings(p)
    BY <1>2, <2>2, FlattenAppended DEF as
  <2>8. QED
    BY <1>1, <2>6, <2>7, Zenon DEF qs
<1>7. ASSUME NEW ps \in Seq(Piece), ps # <<>> PROVE Ended(ps) = Brings(Head(ps)) \o Ended(Tail(ps))
  <2> DEFINE qs == Tail(ps)
  <2>1. qs \in Seq(Piece) /\ Len(qs) = Len(ps) - 1 /\ \A i \in 1..Len(qs) : qs[i] = ps[i + 1]
    BY <1>7, HeadTailProperties
  <2>2. /\ All(ps) \in Seq(Seq(S)) /\ Len(All(ps)) = Len(ps) /\ Len(ps) \in Nat \ {0}
        /\ \A i \in 1..Len(ps) : All(ps)[i] = Brings(ps[i])
    BY <1>3, <1>7, EmptySeq
  <2> HIDE DEF qs
  <2>3. /\ All(qs) \in Seq(Seq(S)) /\ Len(All(qs)) = Len(qs)
        /\ \A i \in 1..Len(qs) : All(qs)[i] = Brings(qs[i])
    BY <1>3, <2>1
  <2> DEFINE as == Tail(All(ps))
  <2> HIDE DEF All, S
  <2>4. All(ps) # <<>>
    BY <2>2, Emptied
  <2>5. as \in Seq(Seq(S)) /\ Len(as) = Len(ps) - 1 /\ \A i \in 1..Len(as) : as[i] = All(ps)[i + 1]
    BY <2>2, <2>4, HeadTailProperties
  <2>6. Head(All(ps)) = Brings(Head(ps))
    <3>1. Head(All(ps)) = All(ps)[1] /\ Head(ps) = ps[1]
      BY <1>7, <2>2, <2>4
    <3>2. 1 \in 1..Len(ps)
      BY <2>2
    <3>3. QED
      BY <2>2, <3>1, <3>2
  <2> HIDE DEF as
  <2>7. \A i \in 1..Len(as) : All(qs)[i] = as[i]
    <3>1. SUFFICES ASSUME NEW i \in 1..Len(as) PROVE All(qs)[i] = as[i]
      OBVIOUS
    <3>2. i \in 1..Len(qs) /\ i + 1 \in 1..Len(ps)
      BY <2>1, <2>2, <2>5
    <3>3. QED
      BY <2>1, <2>2, <2>3, <2>5, <3>2, Zenon
  <2>8. All(qs) = as
    <3>1. All(qs) \in Seq(Seq(S)) /\ as \in Seq(Seq(S)) /\ Len(All(qs)) = Len(as)
      BY <2>1, <2>3, <2>5, Zenon
    <3>2. \A i \in 1..Len(All(qs)) : All(qs)[i] = as[i]
      BY <2>7, <3>1, Zenon
    <3>3. QED
      BY <3>1, <3>2, SeqEqual, ZenonT(30)
  <2>9. FlattenSeq(All(ps)) = Head(All(ps)) \o FlattenSeq(as)
    BY <2>2, <2>4, FlattenShortened DEF as
  <2>10. QED
    BY <1>1, <2>6, <2>8, <2>9, Zenon DEF qs
<1>8. QED
  BY <1>2, <1>4, <1>5, <1>6, <1>7, Zenon DEF Messages

-----------------------------------------------------------------------------
(* What the clients get *)

\* Pieces that can follow one another, and whole events and heartbeats.
Follows(p, q) == IF p.part = 1 THEN q = [p EXCEPT !.part = 2] ELSE q.part = 1
Whole(s) ==
  /\ s # <<>> => s[1].part = 1 /\ s[Len(s)].part = 2
  /\ \A i \in 1..Len(s) - 1 : Follows(s[i], s[i + 1])

\* An event, or a heartbeat, begins when the one before is complete.
LEMMA WholeJoined ==
  ASSUME NEW s \in Seq(Piece), Whole(s), NEW ms \in Messages
  PROVE  Whole(s \o Pieces(ms))
<1> DEFINE a == [messages |-> ms, part |-> 1]
           b == [messages |-> ms, part |-> 2]
           t == s \o Pieces(ms)
           n == Len(s)
<1>1. Pieces(ms) = <<a, b>> /\ Pieces(ms) \in Seq(Piece) /\ Len(Pieces(ms)) = 2
  BY TwoPieces DEF Pieces
<1>2. a.part = 1 /\ b.part = 2 /\ b = [a EXCEPT !.part = 2]
  OBVIOUS
<1>3. /\ n \in Nat /\ Len(t) = n + 2 /\ t \in Seq(Piece)
      /\ \A i \in 1..n + 2 : t[i] = IF i <= n THEN s[i] ELSE Pieces(ms)[i - n]
  BY <1>1, ConcatProperties, LenProperties
<1>4. t[n + 1] = a /\ t[n + 2] = b /\ \A i \in 1..n : t[i] = s[i]
  <2>1. n + 1 \in 1..n + 2 /\ n + 2 \in 1..n + 2 /\ ~ (n + 1 <= n) /\ ~ (n + 2 <= n) /\ n + 1 - n = 1 /\ n + 2 - n = 2
        /\ \A i \in 1..n : i \in 1..n + 2 /\ i <= n
    BY <1>3
  <2>2. t[n + 1] = Pieces(ms)[1] /\ t[n + 2] = Pieces(ms)[2] /\ \A i \in 1..n : t[i] = s[i]
    BY <1>3, <2>1
  <2>3. QED
    BY <1>1, <2>2
<1>5. s = <<>> <=> n = 0
  BY Emptied
<1>6. n # 0 => s[1].part = 1 /\ s[n].part = 2
  BY <1>5 DEF Whole
<1>7. \A i \in 1..n - 1 : Follows(s[i], s[i + 1])
  BY DEF Whole
<1> HIDE DEF a, b, t, n
<1>8. t[1].part = 1 /\ t[n + 2].part = 2
  <2>1. CASE n = 0
    BY <1>2, <1>4, <2>1
  <2>2. CASE n # 0
    <3>1. 1 \in 1..n
      BY <1>3, <2>2
    <3>2. QED
      BY <1>2, <1>4, <1>6, <2>2, <3>1
  <2>3. QED
    BY <2>1, <2>2
<1>9. ASSUME NEW i \in 1..n + 1 PROVE Follows(t[i], t[i + 1])
  <2>1. CASE i = n + 1
    <3>1. i + 1 = n + 2
      BY <1>3, <2>1
    <3>2. QED
      BY <1>2, <1>4, <2>1, <3>1 DEF Follows
  <2>2. CASE i = n
    <3>1. n # 0 /\ n \in 1..n
      BY <1>3, <2>2
    <3>2. t[i].part = 2 /\ t[i + 1].part = 1
      BY <1>2, <1>4, <1>6, <2>2, <3>1
    <3>3. QED
      BY <3>2 DEF Follows
  <2>3. CASE i # n + 1 /\ i # n
    <3>1. i \in 1..n - 1 /\ i \in 1..n /\ i + 1 \in 1..n
      BY <1>3, <2>3
    <3>2. QED
      BY <1>4, <1>7, <3>1
  <2>4. QED
    BY <2>1, <2>2, <2>3
<1>10. Len(t) - 1 = n + 1
  BY <1>3
<1>11. Whole(t)
  BY <1>3, <1>8, <1>9, <1>10, SMTT(60) DEF Whole
<1>12. QED
  BY <1>11 DEF t

\* Two pieces are read together.
LEMMA WholeRead ==
  ASSUME NEW s \in Seq(Piece), Whole(s), s # <<>>
  PROVE  /\ Head(s).part = 1 /\ Tail(s) # <<>> /\ Head(Tail(s)) = [Head(s) EXCEPT !.part = 2]
         /\ Tail(Tail(s)) \in Seq(Piece) /\ Whole(Tail(Tail(s)))
<1> DEFINE n == Len(s)
           t == Tail(s)
           u == Tail(t)
<1>1. n \in Nat \ {0} /\ \A i \in 1..n : s[i] \in Piece
  BY EmptySeq, ElementOfSeq
<1>2. Head(s) = s[1] /\ s[1].part = 1 /\ s[n].part = 2 /\ \A i \in 1..n - 1 : Follows(s[i], s[i + 1])
  BY DEF Whole
<1>3. n # 1
  BY <1>2
<1>4. t \in Seq(Piece) /\ Len(t) = n - 1 /\ \A i \in 1..n - 1 : t[i] = s[i + 1]
  BY HeadTailProperties
<1> HIDE DEF n, t
<1>5. t # <<>>
  <2>1. Len(t) # 0
    BY <1>1, <1>3, <1>4
  <2>2. QED
    BY <1>4, <2>1, Emptied, Zenon
<1>6. Head(t) = [s[1] EXCEPT !.part = 2]
  <2>1. 1 \in 1..n - 1
    BY <1>1, <1>3
  <2>2. Head(t) = s[2]
    BY <1>4, <1>5, <2>1
  <2>3. Follows(s[1], s[2])
    BY <1>2, <2>1
  <2>4. QED
    BY <1>2, <2>2, <2>3 DEF Follows
<1>7. u \in Seq(Piece) /\ Len(u) = n - 2 /\ \A i \in 1..n - 2 : u[i] = s[i + 2]
  <2>1. u \in Seq(Piece) /\ Len(u) = Len(t) - 1 /\ \A i \in 1..Len(u) : u[i] = t[i + 1]
    BY <1>4, <1>5, HeadTailProperties
  <2>2. Len(u) = n - 2
    BY <1>1, <1>4, <2>1
  <2>3. \A i \in 1..n - 2 : i + 1 \in 1..n - 1 /\ (i + 1) + 1 = i + 2
    BY <1>1
  <2>4. QED
    BY <1>4, <2>1, <2>2, <2>3, SMTT(60)
<1> HIDE DEF u
<1>8. Whole(u)
  <2>1. u = <<>> <=> n = 2
    <3>1. u = <<>> <=> Len(u) = 0
      BY <1>7, Emptied, Zenon
    <3>2. QED
      BY <1>1, <1>7, <3>1
  <2>2. ASSUME n # 2 PROVE u[1].part = 1 /\ u[n - 2].part = 2
    <3>1. 1 \in 1..n - 2 /\ n - 2 \in 1..n - 2 /\ (n - 2) + 2 = n /\ 2 \in 1..n - 1
      BY <1>1, <1>3, <2>2
    <3>2. u[1] = s[3] /\ u[n - 2] = s[n]
      BY <1>7, <3>1
    <3>3. s[2].part = 2
      <4>1. s[2] = Head(t) /\ s[1] \in Piece
        BY <1>1, <1>3, <1>4, <1>5
      <4>2. QED
        BY <1>6, <4>1 DEF Piece
    <3>4. s[3].part = 1
      <4>1. Follows(s[2], s[2 + 1])
        BY <1>2, <3>1
      <4>2. QED
        BY <3>3, <4>1 DEF Follows
    <3>5. QED
      BY <1>2, <3>2, <3>4
  <2>3. ASSUME NEW i \in 1..n - 3 PROVE Follows(u[i], u[i + 1])
    <3>1. i \in 1..n - 2 /\ i + 1 \in 1..n - 2 /\ i + 2 \in 1..n - 1 /\ (i + 1) + 2 = (i + 2) + 1
      BY <1>1
    <3>2. QED
      BY <1>2, <1>7, <3>1, Zenon
  <2>4. Len(u) - 1 = n - 3
    BY <1>1, <1>7
  <2>5. QED
    BY <1>7, <2>1, <2>2, <2>3, <2>4 DEF Whole
<1>9. QED
  BY <1>2, <1>5, <1>6, <1>7, <1>8, Zenon DEF t, u

\* The head of a sequence, and the rest.
LEMMA HeadFirst ==
  ASSUME NEW S, NEW s \in Seq(S), NEW t \in Seq(S), s # <<>>
  PROVE  /\ <<Head(s)>> \in Seq(S) /\ <<Head(s)>> \o Tail(s) = s
         /\ s \o t # <<>> /\ Head(s \o t) = Head(s) /\ Tail(s \o t) = Tail(s) \o t
<1>1. /\ Head(s) \in S /\ Tail(s) \in Seq(S) /\ Len(Tail(s)) = Len(s) - 1 /\ Head(s) = s[1]
      /\ \A i \in 1..Len(Tail(s)) : Tail(s)[i] = s[i + 1]
      /\ Len(s) \in Nat \ {0} /\ Len(t) \in Nat
  BY HeadTailProperties, EmptySeq, LenProperties
<1> DEFINE a == <<Head(s)>>
           b == Tail(s)
           n == Len(s)
<1>2. a \in Seq(S) /\ Len(a) = 1 /\ a[1] = Head(s)
  BY <1>1
<1>3. a \o b = s
  <2>1. /\ a \o b \in Seq(S) /\ Len(a \o b) = Len(a) + Len(b)
        /\ \A i \in 1..Len(a) + Len(b) : (a \o b)[i] = IF i <= Len(a) THEN a[i] ELSE b[i - Len(a)]
    BY <1>1, <1>2, ConcatProperties
  <2> HIDE DEF a, b, n
  <2>2. Len(b) = n - 1 /\ n \in Nat \ {0} /\ \A i \in 1..n - 1 : b[i] = s[i + 1]
    BY <1>1 DEF b, n
  <2>3. Len(a \o b) = n
    BY <1>2, <2>1, <2>2
  <2>4. ASSUME NEW i \in 1..n PROVE (a \o b)[i] = s[i]
    <3>1. i \in 1..Len(a) + Len(b)
      BY <1>2, <2>2
    <3>2. CASE i = 1
      BY <1>1, <1>2, <2>1, <3>1, <3>2
    <3>3. CASE i # 1
      <4>1. ~ (i <= Len(a)) /\ i - Len(a) = i - 1 /\ i - 1 \in 1..n - 1 /\ (i - 1) + 1 = i
        BY <1>2, <2>2, <3>3
      <4>2. QED
        BY <2>1, <2>2, <3>1, <4>1, Zenon
    <3>4. QED
      BY <3>2, <3>3, Zenon
  <2>5. QED
    BY <2>1, <2>3, <2>4, SeqEqual, Zenon DEF n
<1>4. /\ s \o t \in Seq(S) /\ Len(s \o t) = n + Len(t)
      /\ \A i \in 1..n + Len(t) : (s \o t)[i] = IF i <= n THEN s[i] ELSE t[i - n]
  BY ConcatProperties
<1>5. s \o t # <<>>
  <2>1. Len(s \o t) # 0
    BY <1>1, <1>4
  <2>2. QED
    BY <1>4, <2>1, Emptied
<1>6. s \o t = a \o (b \o t)
  BY <1>1, <1>2, <1>3, ConcatAssociative
<1>7. Head(s \o t) = Head(s)
  <2>1. 1 \in 1..n + Len(t) /\ 1 <= n
    BY <1>1
  <2>2. (s \o t)[1] = s[1]
    BY <1>4, <2>1
  <2>3. QED
    BY <1>1, <1>5, <2>2
<1>8. Tail(s \o t) = b \o t
  <2>1. /\ b \o t \in Seq(S) /\ Len(b \o t) = Len(b) + Len(t)
        /\ \A i \in 1..Len(b) + Len(t) : (b \o t)[i] = IF i <= Len(b) THEN b[i] ELSE t[i - Len(b)]
    BY <1>1, ConcatProperties
  <2>2. PICK w \in Seq(S) : /\ w = s \o t /\ Len(w) = n + Len(t)
                            /\ \A j \in 1..n + Len(t) : w[j] = IF j <= n THEN s[j] ELSE t[j - n]
    BY <1>4, Zenon
  <2>3. /\ Tail(w) \in Seq(S) /\ Len(Tail(w)) = Len(w) - 1
        /\ \A i \in 1..Len(Tail(w)) : Tail(w)[i] = w[i + 1]
    BY <1>4, <1>5, <2>2, HeadTailProperties
  <2> HIDE DEF a, b, n
  <2>4. Len(b) = n - 1 /\ n \in Nat \ {0} /\ \A i \in 1..n - 1 : b[i] = s[i + 1]
    BY <1>1 DEF b, n
  <2>5. Len(Tail(w)) = n + Len(t) - 1 /\ Len(b \o t) = n + Len(t) - 1
    BY <1>1, <1>4, <2>1, <2>2, <2>3, <2>4
  <2>6. ASSUME NEW i \in 1..n + Len(t) - 1 PROVE Tail(w)[i] = (b \o t)[i]
    <3>1. i + 1 \in 1..n + Len(t) /\ i \in 1..Len(b) + Len(t) /\ i \in 1..Len(Tail(w))
      BY <1>1, <2>4, <2>5
    <3>2. Tail(w)[i] = IF i + 1 <= n THEN s[i + 1] ELSE t[i + 1 - n]
      <4>1. Tail(w)[i] = w[i + 1]
        BY <2>3, <3>1
      <4>2. PICK k \in 1..n + Len(t) : k = i + 1
        BY <3>1
      <4>3. w[k] = IF k <= n THEN s[k] ELSE t[k - n]
        BY <2>2
      <4>4. (IF k <= n THEN s[k] ELSE t[k - n]) = IF i + 1 <= n THEN s[i + 1] ELSE t[i + 1 - n]
        BY <1>1, <2>4, <4>2
      <4>5. Tail(w)[i] = w[k]
        BY <4>1, <4>2, Zenon
      <4>6. QED
        BY <4>3, <4>4, <4>5, Zenon
    <3>3. (b \o t)[i] = IF i <= Len(b) THEN b[i] ELSE t[i - Len(b)]
      BY <2>1, <3>1, SMTT(60)
    <3>4. (i + 1 <= n <=> i <= Len(b)) /\ i + 1 - n = i - Len(b) /\ (i <= Len(b) => i \in 1..n - 1)
      BY <2>4
    <3>5. QED
      BY <2>4, <3>2, <3>3, <3>4, Zenon
  <2>7. Tail(w) = b \o t
    BY <2>1, <2>3, <2>5, <2>6, SeqEqual, Zenon
  <2>8. QED
    BY <2>2, <2>7, Zenon
<1>9. QED
  BY <1>1, <1>2, <1>3, <1>5, <1>7, <1>8

\* The pieces that the thread with the monitor has still to write, those on their
\* way to a client, and the messages it is still to be handed.
Mine(c) == IF monitor[c] = "run" THEN out ELSE beat[c]
Flow(c) == half[c] \o (pipe[c] \o Mine(c))
Owed(c) == IF c \in ToSet(todo) THEN batch ELSE <<>>

\* A client that has not come, and one that reads.
Fresh(c) == /\ ~reading[c] /\ pipe[c] = <<>> /\ half[c] = <<>> /\ got[c] = <<>> /\ ~torn[c]
            /\ c \notin ToSet(nmeaListeners) /\ c \notin ToSet(todo)
Listed(c) == /\ isOpen[c] /\ heart[c] \in {"sleep", "write"}
             /\ c \in ToSet(nmeaListeners) /\ Single(nmeaListeners, c) /\ Single(todo, c)
InOrder(c) == Len(half[c]) <= 1 /\ Whole(Flow(c)) /\ ~torn[c]
UpToDate(c) == /\ since[c] <= Len(delivered)
               /\ got[c] \o (Ended(pipe[c]) \o Owed(c))
                    = SubSeq(delivered, since[c] + 1, Len(delivered))
Served(c) == Listed(c) /\ InOrder(c) /\ UpToDate(c)

Stream(c) == /\ beat[c] \in {<<>>, Pieces(<<>>), Tail(Pieces(<<>>))}
             /\ heart[c] = "none" => Fresh(c)
             /\ reading[c] => Served(c)
Flowing == /\ out \in {<<>>, Pieces(batch), Tail(Pieces(batch))}
           /\ \A c \in Clients : Stream(c)

\* The same after a step.
LEMMA LaterMine == ASSUME NEW c PROVE Mine(c)' = IF monitor'[c] = "run" THEN out' ELSE beat'[c]
BY DEF Mine

LEMMA LaterEnded == ASSUME NEW c PROVE Ended(pipe[c])' = Ended(pipe'[c])
BY DEF Ended, FlattenSeq

LEMMA LaterListed ==
  ASSUME NEW c
  PROVE  Listed(c)' <=> /\ isOpen'[c] /\ heart'[c] \in {"sleep", "write"}
                        /\ c \in ToSet(nmeaListeners') /\ Single(nmeaListeners', c) /\ Single(todo', c)
BY DEF Listed, Single, ToSet

LEMMA LaterFresh ==
  ASSUME NEW c
  PROVE  Fresh(c)' <=> /\ ~reading'[c] /\ pipe'[c] = <<>> /\ half'[c] = <<>> /\ got'[c] = <<>> /\ ~torn'[c]
                       /\ c \notin ToSet(nmeaListeners') /\ c \notin ToSet(todo')
BY SMTT(60) DEF Fresh, ToSet

LEMMA LaterInOrder ==
  ASSUME NEW c
  PROVE  InOrder(c)' <=> /\ Len(half'[c]) <= 1 /\ ~torn'[c]
                         /\ Whole(half'[c] \o (pipe'[c] \o IF monitor'[c] = "run" THEN out' ELSE beat'[c]))
BY Zenon DEF InOrder, Flow, Mine, Whole, Follows

LEMMA LaterUpToDate ==
  ASSUME NEW c
  PROVE  UpToDate(c)' <=> /\ since'[c] <= Len(delivered')
                          /\ got'[c] \o (Ended(pipe'[c]) \o IF c \in ToSet(todo') THEN batch' ELSE <<>>)
                               = SubSeq(delivered', since'[c] + 1, Len(delivered'))
BY DEF UpToDate, Owed, Ended, FlattenSeq, ToSet

\* What an event and a heartbeat leave to write.
LEMMA PieceByPiece ==
  ASSUME NEW ms \in Messages, NEW d \in {Pieces(ms), Tail(Pieces(ms))}
  PROVE  /\ d \in Seq(Piece) /\ d # <<>> /\ Head(d) \in Piece
         /\ Tail(d) \in {<<>>, Tail(Pieces(ms))}
         /\ Tail(d) = <<>> => Brings(Head(d)) = ms
         /\ Tail(d) # <<>> => Brings(Head(d)) = <<>>
<1> DEFINE a == [messages |-> ms, part |-> 1]
           b == [messages |-> ms, part |-> 2]
<1>1. Pieces(ms) = <<a, b>> /\ a \in Piece /\ b \in Piece
  BY DEF Pieces, Piece
<1>2. Brings(a) = <<>> /\ Brings(b) = ms
  BY DEF Brings
<1> HIDE DEF a, b
<1>3. Tail(Pieces(ms)) = <<b>> /\ Head(Pieces(ms)) = a /\ Tail(<<b>>) = <<>> /\ Head(<<b>>) = b
  BY <1>1
<1>4. <<b>> # <<>> /\ <<b>> \in Seq(Piece) /\ <<a, b>> \in Seq(Piece) /\ <<a, b>> # <<>>
  BY <1>1
<1>5. QED
  BY <1>1, <1>2, <1>3, <1>4, Zenon

\* A call hands the listeners what comes after all that was handed before.
LEMMA SubSeqJoined ==
  ASSUME NEW S, NEW s \in Seq(S), NEW t \in Seq(S), NEW k \in 0..Len(s)
  PROVE  SubSeq(s \o t, k + 1, Len(s \o t)) = SubSeq(s, k + 1, Len(s)) \o t
<1> DEFINE n == Len(s)
           m == Len(t)
           u == s \o t
           x == SubSeq(u, k + 1, n + m)
           y == SubSeq(s, k + 1, n)
<1>1. /\ n \in Nat /\ m \in Nat /\ u \in Seq(S) /\ Len(u) = n + m
      /\ \A i \in 1..n + m : u[i] = IF i <= n THEN s[i] ELSE t[i - n]
  BY ConcatProperties, LenProperties
<1>2. (\A i \in 1..n : s[i] \in S) /\ (\A i \in 1..Len(u) : u[i] \in S)
  BY <1>1, ElementOfSeq
<1> HIDE DEF n, m, u
<1>3. k \in Nat /\ k <= n /\ k + 1 \in Int /\ n + m \in Int /\ n \in Int
  BY <1>1 DEF n
<1>4. \A i \in k + 1..n : s[i] \in S
  BY <1>2, <1>3
<1>5. \A i \in k + 1..n + m : u[i] \in S
  BY <1>1, <1>2, <1>3
<1>6. /\ x \in Seq(S) /\ Len(x) = n + m - k /\ \A i \in 1..n + m - k : x[i] = u[k + i]
  <2>1. /\ x \in Seq(S) /\ Len(x) = (IF k + 1 <= n + m THEN n + m - (k + 1) + 1 ELSE 0)
        /\ \A i \in 1..n + m - (k + 1) + 1 : x[i] = u[k + 1 + i - 1]
    <3>1. PICK p \in Int, q \in Int : p = k + 1 /\ q = n + m
      BY <1>3
    <3>2. \A i \in p..q : u[i] \in S
      BY <1>5, <3>1
    <3>3. /\ SubSeq(u, p, q) \in Seq(S) /\ Len(SubSeq(u, p, q)) = (IF p <= q THEN q - p + 1 ELSE 0)
          /\ \A i \in 1..q - p + 1 : SubSeq(u, p, q)[i] = u[p + i - 1]
      BY <3>2, SubSeqProperties
    <3>4. x = SubSeq(u, p, q)
      BY <3>1
    <3> HIDE DEF x
    <3>5. /\ x \in Seq(S) /\ Len(x) = (IF p <= q THEN q - p + 1 ELSE 0)
          /\ \A i \in 1..q - p + 1 : x[i] = u[p + i - 1]
      BY <3>3, <3>4
    <3>6. QED
      BY <1>1, <1>3, <3>1, <3>5, SMTT(60)
  <2>2. n + m - (k + 1) + 1 = n + m - k /\ (IF k + 1 <= n + m THEN n + m - (k + 1) + 1 ELSE 0) = n + m - k
    BY <1>1, <1>3
  <2>3. \A i \in 1..n + m - k : k + 1 + i - 1 = k + i
    BY <1>1, <1>3
  <2> HIDE DEF x
  <2>4. QED
    BY <2>1, <2>2, <2>3
<1>7. /\ y \in Seq(S) /\ Len(y) = n - k /\ \A i \in 1..n - k : y[i] = s[k + i]
  <2>1. /\ y \in Seq(S) /\ Len(y) = (IF k + 1 <= n THEN n - (k + 1) + 1 ELSE 0)
        /\ \A i \in 1..n - (k + 1) + 1 : y[i] = s[k + 1 + i - 1]
    BY <1>3, <1>4, SubSeqProperties
  <2>2. n - (k + 1) + 1 = n - k /\ (IF k + 1 <= n THEN n - (k + 1) + 1 ELSE 0) = n - k
    BY <1>1, <1>3
  <2>3. \A i \in 1..n - k : k + 1 + i - 1 = k + i
    BY <1>1, <1>3
  <2> HIDE DEF y
  <2>4. QED
    BY <2>1, <2>2, <2>3
<1> HIDE DEF x, y
<1>8. /\ y \o t \in Seq(S) /\ Len(y \o t) = n - k + m
      /\ \A i \in 1..n - k + m : (y \o t)[i] = IF i <= n - k THEN y[i] ELSE t[i - (n - k)]
  <2>1. /\ y \o t \in Seq(S) /\ Len(y \o t) = Len(y) + Len(t)
        /\ \A i \in 1..Len(y) + Len(t) : (y \o t)[i] = IF i <= Len(y) THEN y[i] ELSE t[i - Len(y)]
    BY <1>7, ConcatProperties, SMTT(60)
  <2>2. Len(y) = n - k /\ Len(t) = m
    BY <1>7 DEF m
  <2>3. QED
    BY <2>1, <2>2, SMTT(60)
<1>9. ASSUME NEW i \in 1..n + m - k PROVE x[i] = (y \o t)[i]
  <2>1. i \in Int /\ i \in 1..n - k + m /\ k + i \in 1..n + m /\ (k + i <= n <=> i <= n - k) /\ k + i - n = i - (n - k)
    BY <1>1, <1>3
  <2>2. x[i] = IF k + i <= n THEN s[k + i] ELSE t[k + i - n]
    <3>1. x[i] = u[k + i]
      BY <1>6
    <3>2. PICK j \in 1..n + m : j = k + i
      BY <2>1
    <3>3. u[j] = IF j <= n THEN s[j] ELSE t[j - n]
      BY <1>1, Zenon
    <3>4. QED
      BY <1>1, <1>3, <2>1, <3>1, <3>2, <3>3
  <2>3. (y \o t)[i] = IF i <= n - k THEN y[i] ELSE t[i - (n - k)]
    BY <1>8, <2>1
  <2>4. CASE i <= n - k
    <3>1. i \in 1..n - k /\ k + i <= n
      BY <1>1, <1>3, <2>1, <2>4
    <3>2. QED
      BY <1>7, <2>2, <2>3, <2>4, <3>1
  <2>5. CASE ~ (i <= n - k)
    BY <2>1, <2>2, <2>3, <2>5
  <2>6. QED
    BY <2>4, <2>5, Zenon
<1>10. Len(x) = Len(y \o t) /\ Len(x) = n + m - k
  BY <1>1, <1>3, <1>6, <1>8
<1>11. x = y \o t
  BY <1>6, <1>8, <1>9, <1>10, SeqEqual, Zenon
<1>12. QED
  BY <1>1, <1>11, Zenon DEF x, y, u, n

LEMMA LaterStream ==
  /\ \A c : Stream(c)' <=> /\ beat'[c] \in {<<>>, Pieces(<<>>), Tail(Pieces(<<>>))}
                           /\ heart'[c] = "none" => Fresh(c)'
                           /\ reading'[c] => Listed(c)' /\ InOrder(c)' /\ UpToDate(c)'
  /\ Flowing' <=> /\ out' \in {<<>>, Pieces(batch'), Tail(Pieces(batch'))}
                  /\ \A c \in Clients : Stream(c)'
<1>1. ASSUME NEW c
      PROVE Stream(c)' <=> /\ beat'[c] \in {<<>>, Pieces(<<>>), Tail(Pieces(<<>>))}
                           /\ heart'[c] = "none" => Fresh(c)'
                           /\ reading'[c] => Listed(c)' /\ InOrder(c)' /\ UpToDate(c)'
  BY DEF Stream, Served, Pieces
<1>2. Flowing' <=> /\ out' \in {<<>>, Pieces(batch'), Tail(Pieces(batch'))}
                   /\ \A c \in Clients : Stream(c)'
  BY DEF Flowing, Pieces
<1>3. QED
  BY <1>1, <1>2, SMTT(60)

\* A step that leaves a client's own part alone.
Alone(d) ==
  /\ isOpen'[d] = isOpen[d] /\ reading'[d] = reading[d] /\ heart'[d] = heart[d] /\ beat'[d] = beat[d]
  /\ pipe'[d] = pipe[d] /\ since'[d] = since[d] /\ got'[d] = got[d] /\ half'[d] = half[d]
  /\ torn'[d] = torn[d]
  /\ Mine(d) = IF monitor'[d] = "run" THEN out' ELSE beat'[d]

LEMMA StreamRest ==
  ASSUME NEW d, Stream(d), Alone(d),
         d \in ToSet(nmeaListeners') <=> d \in ToSet(nmeaListeners),
         Single(nmeaListeners, d) => Single(nmeaListeners', d),
         d \in ToSet(todo') <=> d \in ToSet(todo), Single(todo, d) => Single(todo', d),
         d \in ToSet(todo) => batch' = batch, delivered' = delivered
  PROVE  Stream(d)'
<1>1. Fresh(d) => Fresh(d)'
  BY LaterFresh DEF Fresh, Alone
<1>2. Listed(d) => Listed(d)'
  BY LaterListed DEF Listed, Alone
<1>3. InOrder(d) => InOrder(d)'
  BY LaterInOrder DEF InOrder, Flow, Alone
<1>4. UpToDate(d) => UpToDate(d)'
  BY LaterUpToDate, Zenon DEF UpToDate, Owed, Alone
<1>5. QED
  BY <1>1, <1>2, <1>3, <1>4, LaterStream DEF Stream, Served, Alone

\* Whoever is not called next is called later.
LEMMA NotNext ==
  ASSUME TypeOK, todo # <<>>, NEW d, Head(todo) # d, todo' = Tail(todo)
  PROVE  (d \in ToSet(todo') <=> d \in ToSet(todo)) /\ (Single(todo, d) => Single(todo', d))
<1>1. todo \in Seq(Listeners)
  BY DEF TypeOK, CalloutType
<1>2. ToSet(todo) = {Head(todo)} \cup ToSet(Tail(todo))
  BY <1>1, Shortened
<1>3. Single(todo, d) => Single(Tail(todo), d)
  BY <1>1, SingleShortened
<1>4. QED
  BY <1>2, <1>3

\* The native side has no hand in the streams but for a call.
LEMMA StreamsEngine ==
  ASSUME TypeOK, Threads, Flowing,
         Add \/ Added \/ Play \/ ForceStop \/ Test \/ Again \/ Clear \/ End \/ UNCHANGED vars
  PROVE  Flowing'
<1>1. UNCHANGED <<nmeaListeners, callout, streams, client, delivered>>
  BY DEF Add, Added, Play, ForceStop, Test, Again, Clear, End, vars, facts
<1>2. batch' = batch \/ (todo = <<>> /\ out = <<>>)
  <2>1. Clear => todo = <<>> /\ out = <<>>
    BY DEF Clear, Threads
  <2>2. QED
    BY <2>1 DEF Add, Added, Play, ForceStop, Test, Again, End, vars, engine
<1>3. ASSUME NEW d \in Clients PROVE Stream(d)'
  <2>1. Alone(d)
    BY <1>1 DEF Alone, streams, client, Mine, callout
  <2>2. nmeaListeners' = nmeaListeners /\ todo' = todo /\ delivered' = delivered
    BY <1>1 DEF callout
  <2>3. d \in ToSet(todo) => batch' = batch
    BY <1>2, Nothing
  <2>4. QED
    BY <2>1, <2>2, <2>3, StreamRest DEF Flowing
<1>4. out' \in {<<>>, Pieces(batch'), Tail(Pieces(batch'))}
  BY <1>1, <1>2 DEF callout, Flowing
<1>5. QED
  BY <1>3, <1>4, LaterStream

\* Requests for the buffer, and its listener.
LEMMA StreamsPoll ==
  ASSUME TypeOK, Threads, Flowing, Store \/ \E p \in Pollers : Look(p) \/ Register(p)
  PROVE  Flowing'
<1>1. UNCHANGED <<out, batch, streams, client, delivered>>
  BY DEF Store, Look, Register, facts, callout, engine
<1>2. ASSUME NEW d \in Clients PROVE Stream(d)'
  <2>1. d # "buffer"
    BY BufferIsNoClient
  <2>2. Alone(d)
    BY <1>1 DEF Alone, streams, client, Mine
  <2>3. /\ d \in ToSet(nmeaListeners') <=> d \in ToSet(nmeaListeners)
        /\ Single(nmeaListeners, d) => Single(nmeaListeners', d)
    <3>1. nmeaListeners \in Seq(Listeners) /\ "buffer" \in Listeners
      BY DEF TypeOK, CalloutType, Listeners
    <3>2. nmeaListeners' = nmeaListeners \/ nmeaListeners' = Append(nmeaListeners, "buffer")
      BY DEF Store, Look, Register
    <3>3. ToSet(Append(nmeaListeners, "buffer")) = ToSet(nmeaListeners) \cup {"buffer"}
      BY <3>1, Appended
    <3>4. Single(nmeaListeners, d) => Single(Append(nmeaListeners, "buffer"), d)
      BY <2>1, <3>1, SingleAppended
    <3>5. CASE nmeaListeners' = nmeaListeners
      BY <3>5
    <3>6. CASE nmeaListeners' = Append(nmeaListeners, "buffer")
      <4>1. d \in ToSet(nmeaListeners') <=> d \in ToSet(nmeaListeners)
        BY <2>1, <3>3, <3>6
      <4>2. Single(nmeaListeners, d) => Single(nmeaListeners', d)
        BY <3>4, <3>6
      <4>3. QED
        BY <4>1, <4>2
    <3>7. QED
      BY <3>2, <3>5, <3>6
  <2>4. (d \in ToSet(todo') <=> d \in ToSet(todo)) /\ (Single(todo, d) => Single(todo', d))
    <3>1. Store => todo # <<>> /\ Head(todo) # d /\ todo' = Tail(todo)
      BY <2>1 DEF Store, At
    <3>2. ~ Store => todo' = todo
      BY DEF Look, Register, callout
    <3>3. QED
      BY <3>1, <3>2, NotNext
  <2>5. QED
    BY <1>1, <2>2, <2>3, <2>4, StreamRest DEF Flowing
<1>3. QED
  BY <1>1, <1>2, LaterStream DEF Flowing

\* What a call hands over is owed to every listener.
LEMMA StreamsCall == ASSUME TypeOK, Threads, Flowing, Call PROVE Flowing'
<1>1. todo = <<>> /\ out = <<>>
  BY DEF Call, Threads
<1>2. /\ UNCHANGED <<nmeaListeners, out, streams, client>>
      /\ batch' = nmea_msg /\ todo' = nmeaListeners /\ delivered' = delivered \o nmea_msg
  BY DEF Call
<1>3. delivered \in Messages /\ nmea_msg \in Messages
  BY DEF TypeOK, EngineType, HistoryType
<1>4. ASSUME NEW d \in Clients PROVE Stream(d)'
  <2>1. Alone(d)
    BY <1>2 DEF Alone, streams, client, Mine
  <2>2. Fresh(d) => Fresh(d)'
    BY <1>2, <2>1, LaterFresh DEF Fresh, Alone
  <2>3. Listed(d) => Listed(d)'
    BY <1>2, <2>1, LaterListed DEF Listed, Alone
  <2>4. InOrder(d) => InOrder(d)'
    BY <2>1, LaterInOrder DEF InOrder, Flow, Alone
  <2>5. ASSUME Listed(d), UpToDate(d) PROVE UpToDate(d)'
    <3>1. d \in ToSet(todo') /\ Owed(d) = <<>>
      BY <1>1, <1>2, <2>5, Nothing DEF Listed, Owed
    <3>2. /\ Len(delivered) \in Nat /\ since[d] \in 0..Len(delivered)
          /\ Len(delivered') = Len(delivered) + Len(nmea_msg) /\ Len(nmea_msg) \in Nat
      BY <1>2, <1>3, <2>5, ConcatProperties, LenProperties DEF UpToDate, TypeOK, HistoryType, Messages
    <3>3. SubSeq(delivered', since[d] + 1, Len(delivered'))
            = SubSeq(delivered, since[d] + 1, Len(delivered)) \o nmea_msg
      BY <1>2, <1>3, <3>2, SubSeqJoined, Zenon DEF Messages
    <3>4. got[d] \in Messages /\ Ended(pipe[d]) \in Messages
      BY EndedPieces DEF TypeOK, HistoryType, StreamsType
    <3>5. got[d] \o (Ended(pipe[d]) \o nmea_msg) = (got[d] \o (Ended(pipe[d]) \o <<>>)) \o nmea_msg
      <4>1. Ended(pipe[d]) \o <<>> = Ended(pipe[d])
        BY <3>4, ConcatEmptySeq DEF Messages
      <4>2. \A x, y, z \in Messages : (x \o y) \o z = x \o (y \o z)
        BY ConcatAssociative, SMTT(60) DEF Messages
      <4>3. (got[d] \o Ended(pipe[d])) \o nmea_msg = got[d] \o (Ended(pipe[d]) \o nmea_msg)
        BY <1>3, <3>4, <4>2, ZenonT(60)
      <4>4. QED
        BY <4>1, <4>3, Zenon
    <3>6. got[d] \o (Ended(pipe[d]) \o nmea_msg) = SubSeq(delivered', since[d] + 1, Len(delivered'))
      BY <2>5, <3>1, <3>3, <3>5, Zenon DEF UpToDate
    <3>7. since[d] <= Len(delivered')
      BY <3>2
    <3>8. QED
      BY <1>2, <2>1, <3>1, <3>6, <3>7, LaterUpToDate, Zenon DEF Alone
  <2>6. QED
    BY <2>1, <2>2, <2>3, <2>4, <2>5, LaterStream DEF Flowing, Stream, Served, Alone
<1>5. out' = <<>>
  BY <1>1, <1>2
<1>6. QED
  BY <1>4, <1>5, LaterStream

\* One stream has no hand in another.
LEMMA StreamsOthers ==
  ASSUME TypeOK, Threads, NEW c \in Clients, NEW d \in Clients, d # c, Stream(d),
         Skip(c) \/ Enter(c) \/ Write(c) \/ Fail(c) \/ Heartbeat(c) \/ Connect(c) \/ Read(c) \/ Hangup(c)
  PROVE  Stream(d)'
<1>1. delivered' = delivered /\ batch' = batch
  BY Zenon DEF Skip, Enter, Write, Fail, Heartbeat, BeatEnter, BeatWrite, BeatFail, BeatEnd, Connect, Read,
     Hangup, facts, engine
<1>2. /\ isOpen'[d] = isOpen[d] /\ reading'[d] = reading[d] /\ heart'[d] = heart[d]
      /\ beat'[d] = beat[d] /\ monitor'[d] = monitor[d]
  BY ZenonT(60) DEF Skip, Enter, Write, Fail, GiveUp, Heartbeat, BeatEnter, BeatWrite, BeatFail, BeatEnd,
     Connect, Read, Hangup,
     streams, TypeOK, StreamsType
<1>3. /\ pipe'[d] = pipe[d] /\ since'[d] = since[d] /\ got'[d] = got[d] /\ half'[d] = half[d]
      /\ torn'[d] = torn[d]
  <2>1. CASE Skip(c) \/ Enter(c) \/ Write(c) \/ Fail(c)
    BY <2>1, ZenonT(60) DEF Skip, Enter, Write, Fail, streams, client, TypeOK, StreamsType, HistoryType
  <2>2. CASE Heartbeat(c)
    BY <2>2, ZenonT(60) DEF Heartbeat, BeatEnter, BeatWrite, BeatFail, BeatEnd, client, TypeOK, StreamsType,
       HistoryType
  <2>3. CASE Connect(c) \/ Read(c) \/ Hangup(c)
    BY <2>3, ZenonT(60) DEF Connect, Read, Hangup, streams, client, TypeOK, StreamsType, HistoryType
  <2>4. QED
    BY <2>1, <2>2, <2>3
<1>4. monitor[d] = "run" => out' = out
  <2>1. Skip(c) \/ Enter(c) \/ Write(c) \/ Fail(c) => monitor[d] # "run"
    BY SMTT(60) DEF Skip, Enter, Write, Fail, At, TypeOK, MonitorsHeld
  <2>2. Heartbeat(c) \/ Connect(c) \/ Read(c) \/ Hangup(c) => out' = out
    BY Zenon DEF Heartbeat, BeatEnter, BeatWrite, BeatFail, BeatEnd, Connect, Read, Hangup, callout
  <2>3. QED
    BY <2>1, <2>2
<1>5. Alone(d)
  BY <1>2, <1>3, <1>4 DEF Alone, Mine
<1>6. (d \in ToSet(todo') <=> d \in ToSet(todo)) /\ (Single(todo, d) => Single(todo', d))
  <2>1. todo' = todo \/ (todo # <<>> /\ Head(todo) # d /\ todo' = Tail(todo))
    BY Zenon DEF Skip, Enter, Write, Fail, At, Heartbeat, BeatEnter, BeatWrite, BeatFail, BeatEnd, Connect,
       Read, Hangup, callout
  <2>2. QED
    BY <2>1, NotNext
<1>7. /\ d \in ToSet(nmeaListeners') <=> d \in ToSet(nmeaListeners)
      /\ Single(nmeaListeners, d) => Single(nmeaListeners', d)
  <2>1. nmeaListeners \in Seq(Listeners) /\ c \in Listeners
    BY DEF TypeOK, CalloutType, Listeners
  <2>2. nmeaListeners' \in {nmeaListeners, Append(nmeaListeners, c), RemoveFirst(nmeaListeners, c)}
    BY Zenon DEF Skip, Enter, Write, Fail, GiveUp, Heartbeat, BeatEnter, BeatWrite, BeatFail, BeatEnd, Connect,
       Read, Hangup
  <2>3. ToSet(Append(nmeaListeners, c)) = ToSet(nmeaListeners) \cup {c}
    BY <2>1, Appended
  <2>4. Single(nmeaListeners, d) => Single(Append(nmeaListeners, c), d)
    BY <2>1, SingleAppended
  <2>5. /\ d \in ToSet(nmeaListeners) <=> d \in ToSet(RemoveFirst(nmeaListeners, c))
        /\ Single(nmeaListeners, d) => Single(RemoveFirst(nmeaListeners, c), d)
    BY <2>1, Removed
  <2>6. CASE nmeaListeners' = nmeaListeners
    BY <2>6
  <2>7. CASE nmeaListeners' = Append(nmeaListeners, c)
    BY <2>3, <2>4, <2>7
  <2>8. CASE nmeaListeners' = RemoveFirst(nmeaListeners, c)
    BY <2>5, <2>8
  <2>9. QED
    BY <2>2, <2>6, <2>7, <2>8
<1>8. QED
  BY <1>1, <1>5, <1>6, <1>7, StreamRest

\* Messages put together.
LEMMA MessagesJoin ==
  /\ \A x, y \in Messages : x \o y \in Messages
  /\ \A x, y, z \in Messages : (x \o y) \o z = x \o (y \o z)
  /\ \A x \in Messages : <<>> \o x = x /\ x \o <<>> = x
  /\ <<>> \in Messages
BY ConcatAssociative, ConcatProperties, ConcatEmptySeq, Nothing, SMTT(60) DEF Messages

\* A piece that is written moves from its thread to the pipe.
LEMMA PiecesJoin ==
  /\ \A x, y, z \in Seq(Piece) : (x \o y) \o z = x \o (y \o z)
  /\ \A x, y, z \in Seq(Piece) : z # <<>> => x \o (Append(y, Head(z)) \o Tail(z)) = x \o (y \o z)
<1>1. \A x, y, z \in Seq(Piece) : (x \o y) \o z = x \o (y \o z)
  BY ConcatAssociative, SMTT(60)
<1>2. ASSUME NEW y \in Seq(Piece), NEW z \in Seq(Piece), z # <<>>
      PROVE  Append(y, Head(z)) \o Tail(z) = y \o z
  <2>1. Head(z) \in Piece /\ Tail(z) \in Seq(Piece)
    BY <1>2, HeadTailProperties
  <2>2. <<Head(z)>> \in Seq(Piece) /\ <<Head(z)>> \o Tail(z) = z
    BY <1>2, HeadFirst
  <2>3. Append(y, Head(z)) = y \o <<Head(z)>>
    BY <2>1, AppendIsConcat
  <2>4. (y \o <<Head(z)>>) \o Tail(z) = y \o (<<Head(z)>> \o Tail(z))
    BY <1>1, <2>1, <2>2, SMTT(60)
  <2>5. QED
    BY <2>2, <2>3, <2>4, Zenon
<1>3. QED
  BY <1>1, <1>2, ZenonT(60)

\* What is read first of pieces that others follow.
LEMMA PiecesFirst ==
  ASSUME NEW x \in Seq(Piece), NEW y \in Seq(Piece), x # <<>>
  PROVE  /\ Head(x) \in Piece /\ Tail(x) \in Seq(Piece)
         /\ <<Head(x)>> \in Seq(Piece) /\ <<Head(x)>> \o Tail(x) = x
         /\ x \o y # <<>> /\ Head(x \o y) = Head(x) /\ Tail(x \o y) = Tail(x) \o y
BY HeadFirst, HeadTailProperties, SMTT(60)

\* The callback writes a piece.
LEMMA StreamWrite ==
  ASSUME TypeOK, Flowing, NEW c \in Clients, Write(c)
  PROVE  Stream(c)' /\ out' \in {<<>>, Tail(Pieces(batch'))}
<1>1. /\ reading[c] /\ Stream(c) /\ Listed(c) /\ InOrder(c) /\ UpToDate(c) /\ heart[c] # "none"
      /\ At(c) /\ out # <<>> /\ todo # <<>> /\ Head(todo) = c
  BY DEF Write, Broken, At, Flowing, Stream, Served, Listed
<1>2. monitor[c] = "run" /\ beat[c] = <<>>
  BY <1>1 DEF TypeOK, MonitorsHeld
<1>3. /\ batch \in Messages /\ out \in {Pieces(batch), Tail(Pieces(batch))}
      /\ pipe[c] \in Seq(Piece) /\ half[c] \in Seq(Piece) /\ got[c] \in Messages /\ todo \in Seq(Listeners)
  BY <1>1 DEF Flowing, TypeOK, EngineType, CalloutType, StreamsType, HistoryType
<1>4. /\ out \in Seq(Piece) /\ Head(out) \in Piece /\ Tail(out) \in {<<>>, Tail(Pieces(batch))}
      /\ Tail(out) = <<>> => Brings(Head(out)) = batch
      /\ Tail(out) # <<>> => Brings(Head(out)) = <<>>
  BY <1>3, PieceByPiece, Zenon
<1>5. /\ isOpen' = isOpen /\ heart' = heart /\ nmeaListeners' = nmeaListeners /\ half' = half /\ got' = got
      /\ torn' = torn /\ since' = since /\ beat' = beat /\ reading' = reading /\ delivered' = delivered /\ batch' = batch
      /\ pipe'[c] = Append(pipe[c], Head(out)) /\ out' = Tail(out)
  BY DEF Write, client, facts, engine, TypeOK, StreamsType
<1>6. (IF monitor'[c] = "run" THEN out' ELSE beat'[c]) = Tail(out)
  <2>1. Tail(out) = <<>> => monitor'[c] = None
    BY DEF Write, TypeOK, StreamsType
  <2>2. Tail(out) # <<>> => monitor' = monitor
    BY DEF Write
  <2>3. QED
    BY <1>2, <1>5, <2>1, <2>2, Zenon DEF None
<1>7. half'[c] \o (pipe'[c] \o Tail(out)) = Flow(c)
  <2>1. half[c] \o (Append(pipe[c], Head(out)) \o Tail(out)) = half[c] \o (pipe[c] \o out)
    <3>1. half[c] \in Seq(Piece) /\ pipe[c] \in Seq(Piece) /\ out \in Seq(Piece) /\ out # <<>>
      BY <1>1, <1>3, <1>4
    <3>2. QED
      BY <3>1, PiecesJoin, ZenonT(60)
  <2>2. Flow(c) = half[c] \o (pipe[c] \o out)
    BY <1>2 DEF Flow, Mine
  <2>3. QED
    BY <1>5, <2>1, <2>2, Zenon
<1>8. InOrder(c)'
  <2>1. Whole(half'[c] \o (pipe'[c] \o IF monitor'[c] = "run" THEN out' ELSE beat'[c]))
    BY <1>1, <1>6, <1>7, Zenon DEF InOrder
  <2>2. QED
    BY <1>1, <1>5, <2>1, LaterInOrder, Zenon DEF InOrder
<1>9. /\ Tail(out) = <<>> => todo' = Tail(todo) /\ c \notin ToSet(todo')
      /\ Tail(out) # <<>> => todo' = todo
      /\ c \in ToSet(todo)
  <2>1. Tail(out) = <<>> => todo' = Tail(todo)
    BY DEF Write
  <2>2. Tail(out) # <<>> => todo' = todo
    BY DEF Write
  <2>3. c \in ToSet(todo)
    BY <1>1, <1>3, Shortened
  <2>4. c \notin ToSet(Tail(todo))
    BY <1>1, <1>3, SingleShortened DEF Listed
  <2>5. QED
    BY <2>1, <2>2, <2>3, <2>4, Zenon
<1>10. Listed(c)'
  <2>1. Single(todo, c) /\ Single(Tail(todo), c)
    BY <1>1, <1>3, SingleShortened DEF Listed
  <2>2. Single(todo', c)
    <3>1. CASE Tail(out) = <<>>
      BY <1>9, <2>1, <3>1, Zenon
    <3>2. CASE Tail(out) # <<>>
      BY <1>9, <2>1, <3>2
    <3>3. QED
      BY <3>1, <3>2
  <2>3. QED
    BY <1>1, <1>5, <2>2, LaterListed DEF Listed
<1>11. UpToDate(c)'
  <2>1. Ended(pipe[c]) \in Messages /\ Ended(pipe'[c]) = Ended(pipe[c]) \o Brings(Head(out))
    BY <1>3, <1>4, <1>5, EndedPieces, ZenonT(30)
  <2>2. Ended(pipe'[c]) \o (IF c \in ToSet(todo') THEN batch' ELSE <<>>) = Ended(pipe[c]) \o batch
    <3>1. CASE Tail(out) = <<>>
      <4>1. Ended(pipe'[c]) = Ended(pipe[c]) \o batch
        BY <1>4, <2>1, <3>1, Zenon
      <4>2. (IF c \in ToSet(todo') THEN batch' ELSE <<>>) = <<>>
        BY <1>9, <3>1
      <4>3. Ended(pipe[c]) \o batch \in Messages
        BY <1>3, <2>1, MessagesJoin
      <4>4. (Ended(pipe[c]) \o batch) \o <<>> = Ended(pipe[c]) \o batch
        BY <4>3, MessagesJoin
      <4>5. QED
        BY <4>1, <4>2, <4>4, Zenon
    <3>2. CASE Tail(out) # <<>>
      <4>1. Ended(pipe'[c]) = Ended(pipe[c])
        BY <1>4, <2>1, <3>2, MessagesJoin, Zenon
      <4>2. (IF c \in ToSet(todo') THEN batch' ELSE <<>>) = batch
        BY <1>5, <1>9, <3>2
      <4>3. QED
        BY <4>1, <4>2, Zenon
    <3>3. QED
      BY <3>1, <3>2, Zenon
  <2>3. Owed(c) = batch
    BY <1>9 DEF Owed
  <2>4. got[c] \o (Ended(pipe[c]) \o batch) = SubSeq(delivered, since[c] + 1, Len(delivered))
        /\ since[c] <= Len(delivered)
    BY <1>1, <2>3, Zenon DEF UpToDate
  <2>5. got'[c] \o (Ended(pipe'[c]) \o (IF c \in ToSet(todo') THEN batch' ELSE <<>>))
          = SubSeq(delivered', since'[c] + 1, Len(delivered'))
    BY <1>5, <2>2, <2>4, Zenon
  <2>6. QED
    BY <1>5, <2>4, <2>5, LaterUpToDate, Zenon
<1>12. beat'[c] = <<>> /\ heart'[c] # "none"
  BY <1>1, <1>2, <1>5
<1>13. QED
  BY <1>4, <1>5, <1>8, <1>10, <1>11, <1>12, LaterStream, SMTT(60) DEF Pieces

\* The heartbeat thread does.
LEMMA StreamBeatWrite ==
  ASSUME TypeOK, Threads, Flowing, NEW c \in Clients, BeatWrite(c)
  PROVE  Stream(c)'
<1>1. /\ reading[c] /\ Stream(c) /\ Listed(c) /\ InOrder(c) /\ UpToDate(c)
      /\ heart[c] = "write" /\ beat[c] # <<>>
  BY DEF BeatWrite, Broken, Flowing, Stream, Served, Threads
<1>2. monitor[c] = "heart"
  BY <1>1 DEF TypeOK, MonitorsHeld
<1> DEFINE b == beat[c]
<1>3. /\ <<>> \in Messages /\ b \in {Pieces(<<>>), Tail(Pieces(<<>>))}
      /\ pipe[c] \in Seq(Piece) /\ half[c] \in Seq(Piece) /\ got[c] \in Messages
  BY <1>1, MessagesJoin DEF Stream, TypeOK, StreamsType, HistoryType
<1>4. /\ b \in Seq(Piece) /\ b # <<>> /\ Head(b) \in Piece /\ Tail(b) \in {<<>>, Tail(Pieces(<<>>))}
      /\ Brings(Head(b)) = <<>>
  BY <1>3, PieceByPiece, Zenon
<1>5. /\ isOpen' = isOpen /\ nmeaListeners' = nmeaListeners /\ half' = half /\ got' = got /\ todo' = todo
      /\ torn' = torn /\ since' = since /\ reading' = reading /\ delivered' = delivered /\ batch' = batch
      /\ pipe'[c] = Append(pipe[c], Head(b)) /\ beat'[c] = Tail(b)
      /\ monitor'[c] # "run" /\ heart'[c] \in {"sleep", "write"}
  BY <1>1, <1>2 DEF BeatWrite, client, facts, engine, callout, TypeOK, StreamsType, Listed, None
<1> HIDE DEF b
<1>6. InOrder(c)'
  <2>1. half[c] \o (Append(pipe[c], Head(b)) \o Tail(b)) = half[c] \o (pipe[c] \o b)
    <3>1. half[c] \in Seq(Piece) /\ pipe[c] \in Seq(Piece) /\ b \in Seq(Piece) /\ b # <<>>
      BY <1>3, <1>4, Zenon
    <3>2. QED
      BY <3>1, PiecesJoin, ZenonT(60)
  <2>2. Flow(c) = half[c] \o (pipe[c] \o b)
    BY <1>2 DEF Flow, Mine, b
  <2>3. half'[c] \o (pipe'[c] \o Tail(b)) = Flow(c)
    BY <1>5, <2>1, <2>2, Zenon
  <2>4. (IF monitor'[c] = "run" THEN out' ELSE beat'[c]) = Tail(b)
    BY <1>5
  <2>5. Whole(half'[c] \o (pipe'[c] \o IF monitor'[c] = "run" THEN out' ELSE beat'[c]))
    BY <1>1, <2>3, <2>4, Zenon DEF InOrder
  <2>6. QED
    BY <1>1, <1>5, <2>5, LaterInOrder, Zenon DEF InOrder
<1>7. Listed(c)'
  BY <1>1, <1>5, LaterListed DEF Listed
<1>8. UpToDate(c)'
  <2>1. Ended(pipe[c]) \in Messages /\ Ended(pipe'[c]) = Ended(pipe[c]) \o <<>>
    BY <1>3, <1>4, <1>5, EndedPieces, Zenon
  <2>2. Ended(pipe'[c]) = Ended(pipe[c])
    BY <2>1, MessagesJoin
  <2>3. QED
    BY <1>1, <1>5, <2>2, LaterUpToDate, Zenon DEF UpToDate, Owed
<1>9. QED
  BY <1>4, <1>5, <1>6, <1>7, <1>8, LaterStream, Zenon

\* An event, or a heartbeat, is put after what is on its way.
LEMMA StreamEnter ==
  ASSUME TypeOK, Threads, Flowing, NEW c \in Clients, Enter(c) \/ BeatEnter(c)
  PROVE  Stream(c)' /\ out' \in {<<>>, Pieces(batch'), Tail(Pieces(batch'))}
<1>1. Stream(c) /\ monitor[c] = None
  BY DEF Enter, BeatEnter, Flowing
<1>2. Mine(c) = <<>> /\ beat[c] = <<>>
  BY <1>1 DEF TypeOK, MonitorsHeld, Mine, None
<1>3. /\ isOpen' = isOpen /\ nmeaListeners' = nmeaListeners /\ half' = half /\ got' = got /\ todo' = todo
      /\ torn' = torn /\ since' = since /\ reading' = reading /\ delivered' = delivered /\ batch' = batch
      /\ pipe' = pipe
  BY DEF Enter, BeatEnter, client, facts, engine, callout
<1>4. PICK ms \in Messages : (IF monitor'[c] = "run" THEN out' ELSE beat'[c]) = Pieces(ms)
  <2>1. Enter(c) => monitor'[c] = "run" /\ out' = Pieces(batch) /\ batch \in Messages
    BY DEF Enter, TypeOK, EngineType, StreamsType
  <2>2. BeatEnter(c) => monitor'[c] # "run" /\ beat'[c] = Pieces(<<>>) /\ <<>> \in Messages
    BY MessagesJoin DEF BeatEnter, TypeOK, StreamsType
  <2>3. QED
    BY <2>1, <2>2
<1>5. pipe[c] \in Seq(Piece) /\ half[c] \in Seq(Piece)
  BY DEF TypeOK, StreamsType, HistoryType
<1>6. InOrder(c) => InOrder(c)'
  <2>1. SUFFICES ASSUME InOrder(c) PROVE InOrder(c)'
    OBVIOUS
  <2>2. Pieces(ms) \in Seq(Piece) /\ half[c] \o pipe[c] \in Seq(Piece)
    BY <1>5, TwoPieces, ConcatProperties
  <2>3. Flow(c) = half[c] \o pipe[c]
    <3>1. pipe[c] \o <<>> = pipe[c]
      BY <1>5, ConcatEmptySeq
    <3>2. QED
      BY <1>2, <3>1 DEF Flow
  <2>4. Whole((half[c] \o pipe[c]) \o Pieces(ms))
    BY <2>1, <2>2, <2>3, WholeJoined, Zenon DEF InOrder
  <2>5. (half[c] \o pipe[c]) \o Pieces(ms) = half[c] \o (pipe[c] \o Pieces(ms))
    <3>1. pipe[c] \in Seq(Piece) /\ half[c] \in Seq(Piece) /\ Pieces(ms) \in Seq(Piece)
      BY <1>5, <2>2, Zenon
    <3>2. QED
      BY <3>1, PiecesJoin, ZenonT(60)
  <2>6. Whole(half'[c] \o (pipe'[c] \o IF monitor'[c] = "run" THEN out' ELSE beat'[c]))
    BY <1>3, <1>4, <2>4, <2>5
  <2>7. QED
    BY <1>3, <2>1, <2>6, LaterInOrder DEF InOrder
<1>7. UpToDate(c) => UpToDate(c)'
  BY <1>3, LaterUpToDate, Zenon DEF UpToDate, Owed
<1>8. /\ beat'[c] \in {<<>>, Pieces(<<>>)}
      /\ heart'[c] # "none" \/ (heart' = heart /\ c \in ToSet(todo))
      /\ heart[c] \in {"sleep", "write"} => heart'[c] \in {"sleep", "write"}
  <2>1. Enter(c) => beat' = beat /\ heart' = heart /\ c \in ToSet(todo)
    BY Shortened DEF Enter, At, TypeOK, CalloutType
  <2>2. BeatEnter(c) => beat'[c] = Pieces(<<>>) /\ heart'[c] = "write"
    BY DEF BeatEnter, TypeOK, StreamsType
  <2>3. QED
    BY <1>2, <2>1, <2>2
<1>9. heart'[c] # "none"
  BY <1>1, <1>8 DEF Stream, Fresh
<1>10. Listed(c) => Listed(c)'
  BY <1>3, <1>8, LaterListed DEF Listed
<1>11. out' \in {<<>>, Pieces(batch'), Tail(Pieces(batch'))}
  <2>1. Enter(c) => out' = Pieces(batch)
    BY DEF Enter
  <2>2. BeatEnter(c) => out' = out
    BY DEF BeatEnter, callout
  <2>3. QED
    BY <1>3, <2>1, <2>2 DEF Flowing, Pieces
<1>12. QED
  BY <1>1, <1>3, <1>6, <1>7, <1>8, <1>9, <1>10, <1>11, LaterStream DEF Stream, Served

\* Nobody reads what is skipped or given up.
LEMMA StreamGone ==
  ASSUME TypeOK, Threads, Flowing, NEW c \in Clients,
         Skip(c) \/ Fail(c) \/ BeatFail(c) \/ BeatEnd(c) \/ Hangup(c)
  PROVE  Stream(c)' /\ out' \in {<<>>, Pieces(batch'), Tail(Pieces(batch'))}
<1>1. Stream(c)
  BY DEF Flowing
<1>2. ~reading'[c]
  <2>1. reading[c] => isOpen[c] /\ heart[c] \in {"sleep", "write"}
    BY <1>1 DEF Stream, Served, Listed
  <2>2. QED
    BY <2>1 DEF Skip, Fail, BeatFail, BeatEnd, Hangup, Broken, TypeOK, StreamsType, streams
<1>3. heart'[c] # "none"
  <2>1. Skip(c) \/ Fail(c) => c \in ToSet(todo) /\ heart' = heart
    BY Shortened DEF Skip, Fail, At, TypeOK, CalloutType, streams
  <2>2. Hangup(c) => reading[c] /\ heart' = heart
    BY DEF Hangup
  <2>3. BeatFail(c) \/ BeatEnd(c) => heart'[c] \in {"finally", "ended"}
    BY DEF BeatFail, BeatEnd, TypeOK, StreamsType
  <2>4. QED
    BY <1>1, <2>1, <2>2, <2>3 DEF Stream, Fresh
<1>4. beat'[c] \in {<<>>, beat[c]}
  BY DEF Skip, Fail, BeatFail, BeatEnd, Hangup, TypeOK, StreamsType, streams
<1>5. out' \in {<<>>, out} /\ batch' = batch
  BY DEF Skip, Fail, BeatFail, BeatEnd, Hangup, callout, engine
<1>6. Stream(c)'
  BY <1>1, <1>2, <1>3, <1>4, LaterStream DEF Stream
<1>7. QED
  BY <1>5, <1>6 DEF Flowing, Pieces

\* A client comes: nothing is on its way to it, and nothing is owed.
LEMMA StreamConnect ==
  ASSUME TypeOK, Threads, Flowing, NEW c \in Clients, Connect(c)
  PROVE  Stream(c)' /\ out' \in {<<>>, Pieces(batch'), Tail(Pieces(batch'))}
<1>1. Fresh(c)
  BY DEF Connect, Flowing, Stream
<1>2. Mine(c) = <<>> /\ beat[c] = <<>>
  <2>1. beat[c] = <<>>
    BY DEF Connect, Threads
  <2>2. monitor[c] # "run"
    <3>1. todo # <<>> => Head(todo) \in ToSet(todo)
      BY Shortened DEF TypeOK, CalloutType
    <3>2. QED
      BY <1>1, <3>1 DEF Fresh, TypeOK, MonitorsHeld, At
  <2>3. QED
    BY <2>1, <2>2 DEF Mine
<1>3. /\ half' = half /\ got' = got /\ todo' = todo /\ torn' = torn /\ out' = out /\ batch' = batch
      /\ monitor' = monitor /\ pipe' = pipe /\ beat' = beat /\ delivered' = delivered
      /\ nmeaListeners' = Append(nmeaListeners, c) /\ isOpen'[c] /\ heart'[c] = "sleep" /\ since'[c] = Len(delivered)
  BY DEF Connect, facts, engine, callout, TypeOK, StreamsType, HistoryType
<1>4. (IF monitor'[c] = "run" THEN out' ELSE beat'[c]) = <<>>
  BY <1>2, <1>3 DEF Mine
<1>5. InOrder(c)'
  <2>1. <<>> \o (<<>> \o <<>>) = <<>> /\ Len(<<>>) = 0
    BY MessagesJoin, EmptySeq
  <2>2. Whole(<<>>)
    BY <2>1 DEF Whole
  <2>3. half'[c] = <<>> /\ pipe'[c] = <<>>
    BY <1>1, <1>3 DEF Fresh
  <2>4. Whole(half'[c] \o (pipe'[c] \o IF monitor'[c] = "run" THEN out' ELSE beat'[c]))
    BY <1>4, <2>1, <2>2, <2>3
  <2>5. Len(half'[c]) <= 1
    BY <2>1, <2>3
  <2>6. QED
    BY <1>1, <1>3, <2>4, <2>5, LaterInOrder DEF Fresh
<1>6. Listed(c)'
  <2>1. nmeaListeners \in Seq(Listeners) /\ c \in Listeners
    BY DEF TypeOK, CalloutType, Listeners
  <2>2. Single(nmeaListeners, c) /\ Single(todo, c)
    BY <1>1 DEF Fresh, Single, ToSet
  <2>3. c \in ToSet(nmeaListeners') /\ Single(nmeaListeners', c)
    <3>1. c \in ToSet(Append(nmeaListeners, c))
      BY <2>1, Appended
    <3>2. Single(Append(nmeaListeners, c), c)
      BY <1>1, <2>1, <2>2, SingleAppended DEF Fresh
    <3>3. QED
      BY <1>3, <3>1, <3>2
  <2>4. Single(todo', c)
    BY <1>3, <2>2
  <2>5. QED
    BY <1>3, <2>3, <2>4, LaterListed
<1>7. UpToDate(c)'
  <2>1. Len(delivered) \in Nat /\ delivered \in Messages
    BY LenProperties DEF TypeOK, HistoryType, Messages
  <2>2. SubSeq(delivered, Len(delivered) + 1, Len(delivered)) = <<>>
    <3> DEFINE w == SubSeq(delivered, Len(delivered) + 1, Len(delivered))
    <3>1. PICK p \in Int, q \in Int : p = Len(delivered) + 1 /\ q = Len(delivered) /\ p > q
      BY <2>1
    <3>2. \A i \in p..q : delivered[i] \in 1..MaxMessages
      BY <3>1
    <3>3. SubSeq(delivered, p, q) \in Seq(1..MaxMessages) /\ Len(SubSeq(delivered, p, q)) = IF p <= q THEN q - p + 1 ELSE 0
      BY <3>2, SubSeqProperties
    <3>4. w = SubSeq(delivered, p, q)
      BY <3>1
    <3> HIDE DEF w
    <3>5. w \in Seq(1..MaxMessages) /\ Len(w) = 0
      BY <3>1, <3>3, <3>4
    <3>6. w = <<>>
      BY <3>5, Emptied
    <3>7. QED
      BY <3>6 DEF w
  <2>3. /\ got'[c] = <<>> /\ Ended(pipe'[c]) = <<>> /\ c \notin ToSet(todo')
    BY <1>1, <1>3, EndedPieces DEF Fresh
  <2>4. <<>> \o (<<>> \o <<>>) = <<>>
    BY MessagesJoin
  <2>5. got'[c] \o (Ended(pipe'[c]) \o (IF c \in ToSet(todo') THEN batch' ELSE <<>>))
          = SubSeq(delivered', since'[c] + 1, Len(delivered'))
    BY <1>3, <2>2, <2>3, <2>4
  <2>6. since'[c] <= Len(delivered')
    BY <1>3, <2>1
  <2>7. QED
    BY <2>5, <2>6, LaterUpToDate, Zenon
<1>8. beat'[c] = <<>> /\ heart'[c] # "none"
  BY <1>2, <1>3, SMTT(60)
<1>9. QED
  BY <1>3, <1>5, <1>6, <1>7, <1>8, LaterStream DEF Flowing, Pieces

\* A client reads a piece: the first of an event or a heartbeat, or the one that
\* completes the piece it read before.
LEMMA StreamRead ==
  ASSUME TypeOK, Flowing, NEW c \in Clients, Read(c)
  PROVE  Stream(c)' /\ out' \in {<<>>, Pieces(batch'), Tail(Pieces(batch'))}
<1> DEFINE p == Head(pipe[c])
           r == Tail(pipe[c])
           m == Mine(c)
           h == half[c]
           whole == p.part = 2 /\ h = <<[p EXCEPT !.part = 1]>>
           amiss == torn[c] \/ (p.part = 1 /\ h # <<>>) \/ (p.part = 2 /\ ~whole)
<1>1. Stream(c) /\ Listed(c) /\ InOrder(c) /\ UpToDate(c) /\ heart[c] # "none" /\ pipe[c] # <<>>
  BY DEF Read, Flowing, Stream, Served, Listed
<1>2. /\ pipe[c] \in Seq(Piece) /\ h \in Seq(Piece) /\ got[c] \in Messages /\ batch \in Messages
      /\ m \in Seq(Piece)
  BY SMTT(60) DEF TypeOK, EngineType, CalloutType, StreamsType, HistoryType, Mine
<1>3. p \in Piece /\ r \in Seq(Piece) /\ <<p>> \in Seq(Piece) /\ <<p>> \o r = pipe[c]
      /\ pipe[c] \o m # <<>> /\ Head(pipe[c] \o m) = p /\ Tail(pipe[c] \o m) = r \o m
  BY <1>1, <1>2, PiecesFirst, ZenonT(60)
<1>4. /\ isOpen' = isOpen /\ nmeaListeners' = nmeaListeners /\ todo' = todo /\ out' = out /\ batch' = batch
      /\ since' = since /\ heart' = heart /\ beat' = beat /\ monitor' = monitor /\ delivered' = delivered
      /\ pipe'[c] = r
  BY SMTT(60) DEF Read, facts, engine, callout, TypeOK, StreamsType
<1>5. /\ half'[c] = IF p.part = 1 THEN <<p>> ELSE <<>>
      /\ got'[c] = IF whole THEN got[c] \o p.messages ELSE got[c]
      /\ torn'[c] = amiss
  BY DEF Read, TypeOK, HistoryType
<1>6. Flow(c) = h \o (pipe[c] \o m) /\ Whole(Flow(c)) /\ Len(h) <= 1 /\ ~torn[c]
  BY <1>1 DEF InOrder, Flow
<1>7. (IF monitor'[c] = "run" THEN out' ELSE beat'[c]) = m
  BY <1>4 DEF Mine
<1> HIDE DEF p, r, m, h, whole, amiss
<1>8. pipe[c] \o m \in Seq(Piece) /\ r \o m \in Seq(Piece)
  BY <1>2, <1>3, ConcatProperties
<1>9. Ended(pipe[c]) = Brings(p) \o Ended(r) /\ Ended(r) \in Messages /\ Brings(p) \in Messages
  BY <1>1, <1>2, <1>3, EndedPieces, Zenon DEF p, r
<1>10. /\ Len(half'[c]) <= 1 /\ ~torn'[c] /\ Whole(half'[c] \o (r \o m))
       /\ got'[c] \in Messages /\ got'[c] \o Ended(r) = got[c] \o Ended(pipe[c])
  <2>1. CASE h = <<>>
    <3>1. Flow(c) = pipe[c] \o m
      BY <1>6, <1>8, <2>1, ConcatEmptySeq
    <3>2. p.part = 1
      BY <1>3, <1>6, <1>8, <3>1, WholeRead, Zenon
    <3>3. half'[c] = <<p>> /\ got'[c] = got[c] /\ ~torn'[c] /\ Brings(p) = <<>>
      <4>1. half'[c] = <<p>> /\ got'[c] = got[c] /\ Brings(p) = <<>>
        BY <1>5, <3>2 DEF Brings, whole
      <4>2. ~amiss
        BY <1>6, <2>1, <3>2 DEF amiss
      <4>3. QED
        BY <1>5, <4>1, <4>2, SMTT(60)
    <3>4. <<p>> \o (r \o m) = pipe[c] \o m
      <4>1. <<p>> \in Seq(Piece) /\ r \in Seq(Piece) /\ m \in Seq(Piece) /\ <<p>> \o r = pipe[c]
        BY <1>2, <1>3, Zenon
      <4>2. \A x, y, z \in Seq(Piece) : (x \o y) \o z = x \o (y \o z)
        BY PiecesJoin, Zenon
      <4>3. (<<p>> \o r) \o m = <<p>> \o (r \o m)
        BY <4>1, <4>2, ZenonT(30)
      <4>4. QED
        BY <4>1, <4>3, Zenon
    <3>5. Whole(half'[c] \o (r \o m))
      BY <1>6, <3>1, <3>3, <3>4, Zenon
    <3>6. Ended(pipe[c]) = Ended(r)
      BY <1>9, <3>3, MessagesJoin
    <3>7. Len(half'[c]) <= 1
      BY <3>3
    <3>8. QED
      BY <1>2, <3>3, <3>5, <3>6, <3>7
  <2>2. CASE h # <<>>
    <3>1. PICK a \in Piece : h = <<a>>
      <4>1. Len(h) \in Nat /\ Len(h) # 0 /\ Len(h) = 1
        <5>1. Len(h) \in Nat /\ Len(h) # 0
          BY <1>2, <2>2, EmptySeq, LenProperties
        <5>2. PICK n \in Nat : n = Len(h)
          BY <5>1
        <5>3. n # 0 /\ n <= 1
          BY <1>6, <5>1, <5>2
        <5>4. n = 1
          BY <5>3
        <5>5. QED
          BY <5>1, <5>2, <5>4
      <4>2. Head(h) \in Piece /\ h = <<Head(h)>>
        <5>1. Head(h) \in Piece /\ Head(h) = h[1]
          BY <1>2, <2>2, HeadTailProperties
        <5>2. <<Head(h)>> \in Seq(Piece) /\ Len(<<Head(h)>>) = 1 /\ <<Head(h)>>[1] = Head(h)
          BY <5>1
        <5>3. \A i \in 1..1 : h[i] = <<Head(h)>>[i]
          BY <5>1, <5>2
        <5>4. QED
          BY <1>2, <4>1, <5>1, <5>2, <5>3, SeqEqual
      <4>3. QED
        BY <4>2
    <3>2. /\ Flow(c) # <<>> /\ Flow(c) \in Seq(Piece) /\ Head(Flow(c)) = a /\ Tail(Flow(c)) = pipe[c] \o m
      <4>1. Head(h) = a /\ Tail(h) = <<>>
        BY <3>1
      <4>2. /\ h \o (pipe[c] \o m) # <<>> /\ Head(h \o (pipe[c] \o m)) = Head(h)
            /\ Tail(h \o (pipe[c] \o m)) = Tail(h) \o (pipe[c] \o m)
        BY <1>2, <1>8, <2>2, PiecesFirst, Zenon
      <4>3. <<>> \o (pipe[c] \o m) = pipe[c] \o m /\ h \o (pipe[c] \o m) \in Seq(Piece)
        BY <1>2, <1>8, ConcatEmptySeq, ConcatProperties
      <4>4. QED
        BY <1>6, <4>1, <4>2, <4>3, Zenon
    <3>3. a.part = 1 /\ p = [a EXCEPT !.part = 2] /\ Whole(r \o m)
      BY <1>3, <1>6, <3>2, WholeRead, ZenonT(60)
    <3>4. p.part = 2 /\ [p EXCEPT !.part = 1] = a
      BY <1>3, <3>3, Zenon DEF Piece
    <3>5. half'[c] = <<>> /\ got'[c] = got[c] \o p.messages /\ ~torn'[c] /\ Brings(p) = p.messages
      <4>1. half'[c] = <<>> /\ Brings(p) = p.messages
        BY <1>5, <3>4 DEF Brings
      <4>2. whole
        BY <3>1, <3>4 DEF whole
      <4>3. got'[c] = got[c] \o p.messages
        BY <1>5, <4>2, Zenon
      <4>4. ~amiss
        BY <1>6, <3>4, <4>2 DEF amiss
      <4>5. QED
        BY <1>5, <4>1, <4>3, <4>4, Zenon
    <3>6. Whole(half'[c] \o (r \o m))
      <4>1. <<>> \o (r \o m) = r \o m
        BY <1>8, ConcatEmptySeq
      <4>2. QED
        BY <3>3, <3>5, <4>1, SMTT(60)
    <3>7. got'[c] \in Messages /\ got'[c] \o Ended(r) = got[c] \o Ended(pipe[c])
      <4>1. p.messages \in Messages
        BY <1>9, <3>5
      <4>2. got[c] \in Messages /\ Ended(r) \in Messages
        BY <1>2, <1>9, Zenon
      <4>3. (got[c] \o p.messages) \o Ended(r) = got[c] \o (p.messages \o Ended(r)) /\ got[c] \o p.messages \in Messages
        BY <4>1, <4>2, MessagesJoin, ZenonT(30)
      <4>4. QED
        BY <1>9, <3>5, <4>3
    <3>8. Len(half'[c]) <= 1
      BY <3>5, EmptySeq
    <3>9. QED
      BY <3>5, <3>6, <3>7, <3>8
  <2>3. QED
    BY <2>1, <2>2, Zenon
<1>11. InOrder(c)'
  <2>1. Whole(half'[c] \o (pipe'[c] \o IF monitor'[c] = "run" THEN out' ELSE beat'[c]))
    BY <1>4, <1>7, <1>10
  <2>2. QED
    BY <1>10, <2>1, LaterInOrder
<1>12. Listed(c)'
  BY <1>1, <1>4, LaterListed DEF Listed
<1>13. UpToDate(c)'
  <2> DEFINE o == Owed(c)
  <2>1. o \in Messages /\ Ended(pipe[c]) \in Messages /\ o = IF c \in ToSet(todo') THEN batch' ELSE <<>>
    BY <1>2, <1>4, EndedPieces, MessagesJoin DEF Owed
  <2> HIDE DEF o
  <2>a. \A x, y, z \in Messages : (x \o y) \o z = x \o (y \o z)
    BY MessagesJoin, Zenon
  <2>b. o \in Messages /\ Ended(r) \in Messages /\ got'[c] \in Messages
    BY <1>9, <1>10, <2>1, Zenon
  <2>c. Ended(pipe[c]) \in Messages /\ got[c] \in Messages
    BY <1>2, <2>1, Zenon
  <2>2. got'[c] \o (Ended(r) \o o) = (got'[c] \o Ended(r)) \o o
    BY <2>a, <2>b, ZenonT(30)
  <2>3. got[c] \o (Ended(pipe[c]) \o o) = (got[c] \o Ended(pipe[c])) \o o
    BY <2>a, <2>b, <2>c, ZenonT(60)
  <2>4. got'[c] \o (Ended(r) \o o) = got[c] \o (Ended(pipe[c]) \o o)
    BY <1>10, <2>2, <2>3, Zenon
  <2>5. got'[c] \o (Ended(pipe'[c]) \o (IF c \in ToSet(todo') THEN batch' ELSE <<>>))
          = SubSeq(delivered', since'[c] + 1, Len(delivered'))
    BY <1>1, <1>4, <2>1, <2>4, Zenon DEF UpToDate, o
  <2>6. QED
    BY <1>1, <1>4, <2>5, LaterUpToDate, Zenon DEF UpToDate
<1>14. QED
  BY <1>1, <1>4, <1>11, <1>12, <1>13, LaterStream, SMTT(60) DEF Stream, Flowing, Pieces

LEMMA FlowingStep == TypeOK /\ Threads /\ Flowing /\ [Next]_vars => Flowing'
<1> SUFFICES ASSUME TypeOK, Threads, Flowing, [Next]_vars PROVE Flowing'
  OBVIOUS
<1>1. ASSUME NEW c \in Clients,
             Skip(c) \/ Enter(c) \/ Write(c) \/ Fail(c) \/ Heartbeat(c) \/ Connect(c) \/ Read(c) \/ Hangup(c)
      PROVE  Flowing'
  <2>1. \A d \in Clients : d # c => Stream(d)'
    BY <1>1, StreamsOthers DEF Flowing
  <2>2. Stream(c)' /\ out' \in {<<>>, Pieces(batch'), Tail(Pieces(batch'))}
    <3>1. BeatWrite(c) => out' = out /\ batch' = batch
      BY DEF BeatWrite, callout, engine
    <3>2. BeatWrite(c) => out' \in {<<>>, Pieces(batch'), Tail(Pieces(batch'))}
      BY <3>1 DEF Flowing, Pieces
    <3>3. CASE BeatWrite(c)
      BY <3>2, <3>3, StreamBeatWrite
    <3>4. CASE Write(c)
      BY <3>4, StreamWrite
    <3>5. CASE Enter(c) \/ BeatEnter(c)
      BY <3>5, StreamEnter
    <3>6. CASE Skip(c) \/ Fail(c) \/ BeatFail(c) \/ BeatEnd(c) \/ Hangup(c)
      BY <3>6, StreamGone
    <3>7. CASE Connect(c)
      BY <3>7, StreamConnect
    <3>8. CASE Read(c)
      BY <3>8, StreamRead
    <3>9. QED
      BY <1>1, <3>3, <3>4, <3>5, <3>6, <3>7, <3>8 DEF Heartbeat
  <2>3. QED
    BY <2>1, <2>2, LaterStream
<1>2. QED
  BY <1>1, StreamsEngine, StreamsPoll, StreamsCall DEF Next, RunThread

\* Of what a client has read, what is in its pipe and what it is owed.
LEMMA StreamsWhole == TypeOK /\ Flowing => StreamWhole
<1> SUFFICES ASSUME TypeOK, Flowing, NEW c \in Clients, reading[c]
             PROVE  /\ ~torn[c]
                    /\ got[c] \o Ended(pipe[c]) \o (IF c \in ToSet(todo) THEN batch ELSE <<>>)
                         = SubSeq(delivered, since[c] + 1, Len(delivered))
  BY Zenon DEF StreamWhole
<1>1. InOrder(c) /\ UpToDate(c)
  BY DEF Flowing, Stream, Served
<1>2. got[c] \in Messages /\ Ended(pipe[c]) \in Messages /\ Owed(c) \in Messages
  BY EndedPieces, MessagesJoin DEF Owed, TypeOK, EngineType, StreamsType, HistoryType
<1>3. (got[c] \o Ended(pipe[c])) \o Owed(c) = got[c] \o (Ended(pipe[c]) \o Owed(c))
  BY <1>2, MessagesJoin, ZenonT(30)
<1>4. QED
  BY <1>1, <1>3, Zenon DEF InOrder, UpToDate, Owed

-----------------------------------------------------------------------------
(* The theorems *)

IInv == TypeOK /\ Threads /\ Accounted /\ Ordered /\ Buffered /\ Flowing

LEMMA Initial == Init => IInv
<1> SUFFICES ASSUME Init PROVE IInv
  OBVIOUS
<1>1. \A S : <<>> \in Seq(S) /\ ToSet(<<>>) = {} /\ Len(<<>>) = 0
  BY Nothing, EmptySeq
<1>2. EngineType /\ CalloutType
  <2>1. <<>> \in Messages /\ <<>> \in Seq(Listeners) /\ <<>> \in Seq(Piece) /\ Len(<<>>) <= 2
    BY <1>1 DEF Messages
  <2>2. EngineType
    <3>1. 0 \in 0..MaxMessages
      BY SizesAreNat
    <3>2. {nmea_msg, base, batch} \subseteq Messages
      BY <2>1 DEF Init
    <3>3. QED
      BY <3>1, <3>2, Zenon DEF Init, EngineType
  <2>3. CalloutType
    BY <2>1 DEF Init, CalloutType
  <2>4. QED
    BY <2>2, <2>3
<1>3. StreamsType
  BY <1>1, SizesAreNat DEF Init, StreamsType, None
<1>4. PollsType /\ HistoryType
  <2>1. <<>> \in Messages /\ <<>> \in Seq(Piece) /\ Len(<<>>) <= BufferSize
    BY <1>1, SizesAreNat DEF Messages
  <2>2. PollsType
    BY <2>1, Zenon DEF Init, PollsType
  <2>3. HistoryType
    BY <2>1, Zenon DEF Init, HistoryType
  <2>4. QED
    BY <2>2, <2>3
<1>5. MonitorsHeld
  BY DEF Init, MonitorsHeld, None
<1>6. Threads
  BY DEF Init, Threads
<1>7. Accounted /\ Ordered
  BY <1>1 DEF Init, Accounted, Ordered, Rising
<1>8. Buffered
  BY <1>1 DEF Init, Buffered, Single, Ends
<1>9. Flowing
  <2>1. ASSUME NEW c \in Clients PROVE Stream(c)
    BY <1>1 DEF Init, Stream, Fresh
  <2>2. QED
    BY <2>1 DEF Init, Flowing
<1>10. QED
  BY <1>2, <1>3, <1>4, <1>5, <1>6, <1>7, <1>8, <1>9 DEF IInv, TypeOK

LEMMA Step == IInv /\ [Next]_vars => IInv'
BY Types, ThreadsStep, AccountedStep, OrderedStep, BufferedStep, FlowingStep DEF IInv

LEMMA Invariant == Spec => []IInv
BY Initial, Step, PTL DEF Spec

\* Whoever holds the monitor of a pipe is in the middle of writing to it, and no
\* pipe, buffer or event outgrows its size (handleNmeaSse, ensureNmeaBufferListener).
THEOREM TypeCorrect == Spec => []TypeOK
<1>1. IInv => TypeOK
  BY DEF IInv
<1>2. QED
  BY Invariant, <1>1, PTL

\* callbackNMEA hands on each message once and in order unless an append met the
\* clear, and misses only those that came while onNMEA was at work.
THEOREM HandsOver == Spec => []HandedOver
<1>1. IInv => HandedOver
  BY Delivery DEF IInv
<1>2. QED
  BY Invariant, <1>1, PTL

\* The buffer of ensureNmeaBufferListener holds the latest messages without a gap,
\* unless two first requests both registered its listener.
THEOREM BuffersLatest == Spec => []BufferIsLatest
<1>1. IInv => BufferIsLatest
  BY EndsIsSuffix DEF IInv, Buffered, BufferIsLatest, TypeOK, PollsType, HistoryType, Messages
<1>2. QED
  BY Invariant, <1>1, PTL

\* A client of handleNmeaSse that reads gets whole events, and in them everything
\* that was handed to onNMEA since it came, in order and once, however the
\* callback, the heartbeats, the clients and the end of the streams meet.
THEOREM StreamsAreWhole == Spec => []StreamWhole
<1>1. IInv => StreamWhole
  BY StreamsWhole DEF IInv
<1>2. QED
  BY Invariant, <1>1, PTL
=============================================================================

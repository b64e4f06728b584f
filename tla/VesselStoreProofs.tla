------------------------- MODULE VesselStoreProofs -------------------------
(***************************************************************************)
(* Safety of VesselStore, proved for any number of writers, any retention  *)
(* and buckets, and any number of polls, failures and crashes.             *)
(***************************************************************************)
EXTENDS VesselStore, FiniteSetTheorems, WellFoundedInduction, TLAPS

-----------------------------------------------------------------------------
(* Buckets of time *)

\* The assumptions on the constants, one by one.
LEMMA Numbers ==
  /\ Hour \in Nat \ {0} /\ Day \in Nat \ {0} /\ Day % Hour = 0
  /\ Raw \in Nat \ {0} /\ Hourly \in Nat \ {0} /\ Interval \in Nat \ {0} /\ Interval >= Day /\ Raw <= Hourly
  /\ Heartbeat \in Nat \ {0} /\ Move \in Nat \ {0}
  /\ MaxTime \in Nat \ {0} /\ MaxPolls \in Nat /\ MaxMishaps \in Nat
  /\ Times \subseteq Nat /\ Places \subseteq Nat /\ Ages \subseteq Int
BY TicksArePositive, BoundsAreNat DEF Times

\* What division with remainder returns.
LEMMA Bucket ==
  ASSUME NEW x \in Int, NEW n \in Nat \ {0}
  PROVE  /\ x \div n \in Int
         /\ (x \div n) * n <= x /\ x < (x \div n) * n + n
BY SMT

\* A number lies in one bucket only.
LEMMA OneBucket ==
  ASSUME NEW x \in Int, NEW q \in Int, NEW n \in Nat \ {0},
         q * n <= x, x < q * n + n
  PROVE  x \div n = q
BY SMT

\* What lies beyond the start of a bucket lies beyond what is in it.
LEMMA Whole ==
  ASSUME NEW a \in Int, NEW b \in Int, NEW n \in Nat \ {0}, a * n < b * n + n
  PROVE  a <= b
<1>1. SUFFICES ASSUME b + 1 <= a PROVE FALSE
  OBVIOUS
<1>2. (b + 1) * n <= a * n
  BY <1>1, SMT
<1>3. (b + 1) * n = b * n + n
  BY SMT
<1>4. a * n \in Int /\ b * n \in Int
  OBVIOUS
<1>5. QED
  BY <1>2, <1>3, <1>4

\* A day is a whole number of hours.
LEMMA HoursOfADay ==
  \E k \in Nat \ {0} : Day = k * Hour
<1> DEFINE k == Day \div Hour
<1>1. Day = k * Hour + (Day % Hour) /\ k \in Int
  <2>1. ASSUME NEW x \in Int, NEW n \in Nat \ {0}
        PROVE  x = (x \div n) * n + (x % n) /\ x \div n \in Int
    BY SMT
  <2>2. QED
    BY <2>1, Numbers
<1>2. Day = k * Hour
  BY <1>1, Numbers
<1>3. k > 0
  <2>1. SUFFICES ASSUME k <= 0 PROVE FALSE
    BY <1>1
  <2>2. k * Hour <= 0
    BY <2>1, <1>1, Numbers, SMT
  <2>3. QED
    BY <2>2, <1>2, Numbers
<1>4. QED
  BY <1>1, <1>2, <1>3

\* Times of one hour are times of one day.
LEMMA SameDay ==
  ASSUME NEW a \in Int, NEW b \in Int, a \div Hour = b \div Hour
  PROVE  a \div Day = b \div Day
<1> DEFINE q == a \div Hour
           m == a \div Day
<1>1. q \in Int /\ q * Hour <= a /\ a < q * Hour + Hour /\ q * Hour <= b /\ b < q * Hour + Hour
  BY Bucket, Numbers
<1>2. m \in Int /\ m * Day <= a /\ a < m * Day + Day
  BY Bucket, Numbers
<1>3. PICK k \in Nat \ {0} : Day = k * Hour
  BY HoursOfADay
<1>4. m * Day = (m * k) * Hour /\ m * Day + Day = (m * k + k) * Hour /\ q * Hour + Hour = (q + 1) * Hour
  BY <1>1, <1>2, <1>3, Numbers, SMT
<1>5. m * k \in Int /\ m * Day \in Int /\ (m * k) * Hour \in Int /\ q * Hour \in Int
  BY <1>1, <1>2, <1>3, Numbers
<1> HIDE DEF q, m
<1>6. m * k <= q
  <2>1. (m * k) * Hour < q * Hour + Hour
    BY <1>1, <1>2, <1>4, <1>5, Numbers
  <2>2. QED
    BY <2>1, <1>1, <1>5, Whole, Numbers
<1>7. q + 1 <= m * k + k
  <2>1. q * Hour < (m * k + k) * Hour
    BY <1>1, <1>2, <1>4, <1>5, Numbers
  <2>2. (m * k + k) * Hour = (m * k + k - 1) * Hour + Hour
    <3>1. \A x \in Int : x * Hour = (x - 1) * Hour + Hour
      BY Numbers, SMT
    <3>2. QED
      BY <3>1, <1>3, <1>5
  <2>3. q <= m * k + k - 1
    BY <2>1, <2>2, <1>1, <1>3, <1>5, Whole, Numbers
  <2>4. QED
    BY <2>3, <1>1, <1>3, <1>5
<1>8. (m * k) * Hour <= q * Hour /\ (q + 1) * Hour <= (m * k + k) * Hour
  <2>1. \A x, y \in Int : x <= y => x * Hour <= y * Hour
    BY Numbers, SMT
  <2>2. QED
    BY <2>1, <1>1, <1>3, <1>5, <1>6, <1>7
<1>9. m * Day <= b /\ b < m * Day + Day
  BY <1>1, <1>2, <1>4, <1>5, <1>8, Numbers
<1>10. b \div Day = m
  BY <1>2, <1>9, OneBucket, Numbers
<1>11. QED
  BY <1>10 DEF m

\* A set of times has a last one.
LEMMA LastOf ==
  ASSUME NEW T \in SUBSET Times, T # {}
  PROVE  \E t \in T : \A u \in T : u <= t
<1> DEFINE R == OpToRel(<, Nat)
           S == {MaxTime - t : t \in T}
<1>1. S \subseteq Nat /\ S # {}
  <2>1. \A t \in T : t \in 0 .. MaxTime /\ MaxTime - t \in Nat
    BY Numbers DEF Times
  <2>2. QED
    BY <2>1
<1>2. PICK x \in S : \A y \in S : ~ (<<y, x>> \in R)
  <2>1. IsWellFoundedOn(R, Nat)
    BY NatLessThanWellFounded
  <2> HIDE DEF R, S
  <2>2. QED
    BY <1>1, <2>1, WFMin, Zenon
<1>3. \A y \in S : ~ (y < x)
  <2>1. \A y \in S : <<y, x>> \in Nat \X Nat /\ <<y, x>>[1] = y /\ <<y, x>>[2] = x
    BY <1>1, <1>2
  <2>2. QED
    BY <1>2, <2>1, Zenon DEF OpToRel
<1>4. PICK t \in T : x = MaxTime - t
  OBVIOUS
<1>5. ASSUME NEW u \in T PROVE u <= t
  <2>1. MaxTime - u \in S
    OBVIOUS
  <2>2. ~ (MaxTime - u < MaxTime - t)
    BY <1>3, <1>4, <2>1
  <2>3. u \in Int /\ t \in Int
    BY DEF Times
  <2> HIDE DEF S
  <2>4. QED
    BY <2>2, <2>3, Numbers
<1>6. QED
  BY <1>5

-----------------------------------------------------------------------------
(* Types *)

WriterStates == {Off} \cup [at : {"idle"}, ts : Times] \cup Polls

\* A writer that is neither off nor idle is in a poll.
LEMMA InPoll ==
  ASSUME TypeOK, NEW w \in Writers
  PROVE  /\ Working(w) => writer[w] \in Polls
         /\ writer[w].at \in {"off", "idle", "upsert", "insert", "finish", "save"}
         /\ writer[w].at \in {"upsert", "insert", "finish", "save"} <=> Working(w)
         /\ writer[w].at = "idle" => writer[w].ts \in Times
<1>1. writer[w] \in WriterStates
  BY DEF TypeOK, WriterStates
<1>2. CASE writer[w] = Off
  BY <1>2 DEF Off, Working
<1>3. CASE writer[w] \in [at : {"idle"}, ts : Times]
  BY <1>3 DEF Working
<1>4. CASE writer[w] \in Polls
  BY <1>4 DEF Working, Polls
<1>5. QED
  BY <1>1, <1>2, <1>3, <1>4 DEF WriterStates

\* What an idle writer, and one that is off, hold.
LEMMA AtRest ==
  ASSUME now \in Times
  PROVE  /\ Idle \in WriterStates /\ Idle.at = "idle"
         /\ Off \in WriterStates /\ Off.at = "off"
BY DEF Idle, Off, WriterStates

\* The next step of a poll keeps what the poll carries.
LEMMA GotoKeeps ==
  ASSUME TypeOK, NEW w \in Writers, Working(w), NEW at \in {"insert", "finish", "save"}, Goto(w, at)
  PROVE  /\ writer' \in [Writers -> WriterStates]
         /\ \A v \in Writers : v # w => writer'[v] = writer[v]
         /\ writer'[w] \in Polls /\ writer'[w].at = at
         /\ writer'[w].ts = writer[w].ts
         /\ writer'[w].positions = writer[w].positions /\ writer'[w].seen = writer[w].seen
<1> DEFINE r == writer[w]
           q == [r EXCEPT !.at = at]
<1>1. r \in Polls
  BY InPoll
<1>2. q \in Polls /\ q.at = at /\ q.ts = r.ts /\ q.positions = r.positions /\ q.seen = r.seen
  <2> HIDE DEF r
  <2>1. QED
    BY <1>1 DEF Polls
<1>3. writer \in [Writers -> WriterStates]
  BY DEF TypeOK, WriterStates
<1>4. writer' = [writer EXCEPT ![w] = q]
  BY DEF Goto
<1> HIDE DEF q
<1>5. writer'[w] = q /\ \A v \in Writers : v # w => writer'[v] = writer[v]
  BY <1>3, <1>4
<1>6. writer' \in [Writers -> WriterStates]
  BY <1>2, <1>3, <1>4 DEF WriterStates
<1>7. QED
  BY <1>2, <1>5, <1>6

\* A writer that leaves its poll is at rest.
LEMMA LeaveRests ==
  ASSUME TypeOK, NEW w \in Writers, Leave(w)
  PROVE  /\ writer' \in [Writers -> WriterStates]
         /\ \A v \in Writers : v # w => writer'[v] = writer[v]
         /\ writer'[w].at \in {"off", "idle"}
<1>1. PICK q \in {Idle, Off} : writer' = [writer EXCEPT ![w] = q]
  BY DEF Leave
<1>2. q \in WriterStates /\ q.at \in {"off", "idle"}
  BY AtRest DEF TypeOK
<1>3. writer \in [Writers -> WriterStates]
  BY DEF TypeOK, WriterStates
<1>4. writer'[w] = q /\ \A v \in Writers : v # w => writer'[v] = writer[v]
  BY <1>1, <1>3
<1>5. writer' \in [Writers -> WriterStates]
  BY <1>1, <1>2, <1>3
<1>6. QED
  BY <1>2, <1>4, <1>5

LEMMA LaterIs ==
  ASSUME NEW a \in Nat, NEW b \in Int
  PROVE  Later(a, b) \in Nat /\ Later(a, b) >= a /\ Later(a, b) >= b
BY DEF Later

\* Thinning keeps rows of three tiers.
LEMMA ThinKeepsRows ==
  ASSUME NEW rs \in SUBSET [ts : Times, res : 0..2], NEW res \in {0, 1}, NEW cutoff, NEW bucket
  PROVE  Thin(rs, res, cutoff, bucket) \in SUBSET [ts : Times, res : 0..2]
<1>1. \A r \in rs : r.res = res => [r EXCEPT !.res = res + 1] \in [ts : Times, res : 0..2]
  OBVIOUS
<1>2. QED
  BY <1>1 DEF Thin

\* The times of the maintenance that is to run.
LEMMA ThreadIs ==
  ASSUME TypeOK, NEW m \in maintenance
  PROVE  m.time \in Times /\ m.time \in Nat /\ m.time \in Int /\ m.again \in BOOLEAN
<1>1. m \in [by : Writers, time : Times, again : BOOLEAN]
  BY DEF TypeOK
<1>2. m.time \in Times /\ m.again \in BOOLEAN
  BY <1>1
<1>3. m.time \in Nat
  BY <1>2, Numbers, Zenon
<1>4. QED
  BY <1>2, <1>3

LEMMA MaintainedRows ==
  ASSUME TypeOK, NEW time \in Int, NEW raw \in Int, NEW hourly \in Int, Thinning(time, raw, hourly)
  PROVE  rows' \subseteq [ts : Times, res : 0..2] /\ thinned' \in [raw : Nat, hourly : Nat]
<1> DEFINE one == Thin(rows, 0, time - raw, Hour)
<1>1. one \in SUBSET [ts : Times, res : 0..2]
  BY ThinKeepsRows DEF TypeOK
<1> HIDE DEF one
<1>2. Thin(one, 1, time - hourly, Day) \in SUBSET [ts : Times, res : 0..2]
  BY <1>1, ThinKeepsRows
<1>3. rows' \subseteq [ts : Times, res : 0..2]
  BY <1>2 DEF Thinning, Maintained, one
<1>4. thinned.raw \in Nat /\ thinned.hourly \in Nat /\ time - raw \in Int /\ time - hourly \in Int
  BY DEF TypeOK
<1>5. thinned' \in [raw : Nat, hourly : Nat]
  BY <1>4, LaterIs DEF Thinning
<1>6. QED
  BY <1>3, <1>5

\* Every step keeps the state well typed.
LEMMA StartTypes == ASSUME TypeOK, NEW w \in Writers, StartWriter(w) PROVE TypeOK'
<1>1. writer' \in [Writers -> WriterStates] /\ lastStored' \in [Writers -> Points \cup {None}]
  BY AtRest DEF StartWriter, TypeOK, WriterStates
<1>2. QED
  BY <1>1 DEF StartWriter, TypeOK, WriterStates, table, prefs, points, kept, budget

LEMMA StopTypes == ASSUME TypeOK, StopWriter PROVE TypeOK'
<1>1. writer' \in [Writers -> WriterStates]
  BY AtRest DEF StopWriter, TypeOK, WriterStates
<1>2. QED
  BY <1>1 DEF StopWriter, TypeOK, WriterStates, table, prefs, points, kept

LEMMA FetchTypes ==
  ASSUME TypeOK, NEW w \in Writers, NEW p \in Places \cup {None}, Fetch(w, p)
  PROVE  TypeOK'
<1> DEFINE store == WorthStoring(lastStored[w], p)
           point == [ts |-> now, place |-> p]
           q == [at |-> "upsert", ts |-> now,
                 positions |-> IF store THEN {point} ELSE {}, seen |-> p]
<1>1. store => point \in Points
  BY DEF WorthStoring, Points, TypeOK
<1>2. q \in Polls
  BY <1>1 DEF Polls, TypeOK
<1>3. writer' = [writer EXCEPT ![w] = q]
      /\ lastStored' = IF store THEN [lastStored EXCEPT ![w] = point] ELSE lastStored
  BY DEF Fetch
<1> HIDE DEF store, point, q
<1>4. writer' \in [Writers -> WriterStates] /\ lastStored' \in [Writers -> Points \cup {None}]
  BY <1>1, <1>2, <1>3 DEF TypeOK, WriterStates
<1>5. QED
  BY <1>4 DEF Fetch, TypeOK, WriterStates, table, prefs, points, kept, budget

LEMMA UpsertTypes == ASSUME TypeOK, NEW w \in Writers, Upsert(w) PROVE TypeOK'
<1>1. Working(w) /\ writer[w] \in Polls /\ (Goto(w, "insert") \/ Leave(w))
  BY InPoll DEF Upsert
<1>2. writer' \in [Writers -> WriterStates]
  BY <1>1, GotoKeeps, LeaveRests
<1>3. writer[w].ts \in Times /\ writer[w].positions \subseteq Points
  BY <1>1 DEF Polls
<1>4. last_seen' \in {last_seen, writer[w].ts} /\ recent' \in {recent, recent \cup writer[w].positions}
  BY DEF Upsert
<1>5. last_seen' \in Times \cup {None} /\ recent' \subseteq Points
  BY <1>3, <1>4 DEF TypeOK
<1>6. QED
  BY <1>2, <1>5 DEF Upsert, TypeOK, WriterStates, prefs, kept

LEMMA InsertTypes == ASSUME TypeOK, NEW w \in Writers, Insert(w) PROVE TypeOK'
<1> DEFINE ps == writer[w].positions
<1>1. Working(w) /\ writer[w] \in Polls /\ (Goto(w, "finish") \/ Leave(w))
  BY InPoll DEF Insert
<1>2. writer' \in [Writers -> WriterStates]
  BY <1>1, GotoKeeps, LeaveRests
<1>3. ps \subseteq Points
  BY <1>1 DEF Polls
<1>4. New(ps) \subseteq [ts : Times, res : 0..2] /\ {p.ts : p \in ps} \subseteq Times
  BY <1>3 DEF New, Points
<1>5. /\ \/ rows' = rows \cup New(ps) /\ stored' = stored \cup {p.ts : p \in ps}
         \/ UNCHANGED <<rows, stored>>
      /\ recent' = recent \cup ps
  BY DEF Insert
<1> HIDE DEF ps
<1>6. QED
  BY <1>2, <1>3, <1>4, <1>5 DEF Insert, TypeOK, WriterStates, prefs, kept

LEMMA FinishTypes == ASSUME TypeOK, NEW w \in Writers, Finish(w) PROVE TypeOK'
<1>1. Working(w) /\ (Goto(w, "save") \/ Leave(w))
  BY InPoll DEF Finish
<1>2. writer' \in [Writers -> WriterStates]
  BY <1>1, GotoKeeps, LeaveRests
<1>3. lastStored' \in [Writers -> Points \cup {None}]
  BY DEF Finish, TypeOK
<1>4. QED
  BY <1>2, <1>3 DEF Finish, TypeOK, WriterStates, table, prefs, points, kept

LEMMA SaveTypes == ASSUME TypeOK, NEW w \in Writers, Save(w) PROVE TypeOK'
<1>1. writer[w] \in Polls
  BY InPoll DEF Save
<1>2. writer[w].ts \in Times /\ writer[w].ts \in -Interval..MaxTime
  BY <1>1, Numbers DEF Polls, Times
<1>3. writer' \in [Writers -> WriterStates]
  BY LeaveRests DEF Save
<1>4. PICK again : again = ~Due(writer[w].ts)
  OBVIOUS
<1>5. again \in BOOLEAN
  BY <1>4
<1>6. [by |-> w, time |-> writer[w].ts, again |-> again] \in [by : Writers, time : Times, again : BOOLEAN]
  BY <1>2, <1>5
<1>7. maintenance' = maintenance \cup {[by |-> w, time |-> writer[w].ts, again |-> again]}
  BY <1>4, Zenon DEF Save
<1>8. maintenance' \subseteq [by : Writers, time : Times, again : BOOLEAN]
  BY <1>6, <1>7, Zenon DEF TypeOK
<1>9. QED
  BY <1>2, <1>3, <1>8 DEF Save, TypeOK, WriterStates, table, points, kept, budget

LEMMA StoreTypes ==
  ASSUME TypeOK
  PROVE  /\ Persist => TypeOK'
         /\ \A m \in maintenance : Maintain(m) => TypeOK'
         /\ MaintainOnRequest => TypeOK'
<1>1. Persist => TypeOK'
  BY DEF Persist, TypeOK, table, points, kept, budget
<1>2. ASSUME NEW m \in maintenance, Maintain(m) PROVE TypeOK'
  <2>1. m.time \in Times /\ m.time \in Int /\ Raw \in Int /\ Hourly \in Int
    BY ThreadIs, Numbers
  <2>2. rows' \subseteq [ts : Times, res : 0..2] /\ thinned' \in [raw : Nat, hourly : Nat]
    <3>1. CASE Thinning(m.time, Raw, Hourly)
      BY <2>1, <3>1, MaintainedRows
    <3>2. CASE UNCHANGED <<rows, thinned>>
      BY <3>2 DEF TypeOK
    <3>3. QED
      BY <1>2, <3>1, <3>2 DEF Maintain
  <2>3. missed' \subseteq Times /\ maintenance' \subseteq maintenance
    BY <1>2, <2>1 DEF Maintain, TypeOK
  <2>4. QED
    BY <1>2, <2>2, <2>3 DEF Maintain, TypeOK, prefs, points
<1>3. ASSUME MaintainOnRequest PROVE TypeOK'
  <2>1. PICK raw \in Ages \cup {Raw}, hourly \in Ages \cup {Hourly} : Thinning(now, raw, hourly)
    BY <1>3 DEF MaintainOnRequest
  <2>2. raw \in Int /\ hourly \in Int /\ now \in Int
    BY Numbers DEF TypeOK
  <2>3. rows' \subseteq [ts : Times, res : 0..2] /\ thinned' \in [raw : Nat, hourly : Nat]
    BY <2>1, <2>2, MaintainedRows
  <2>4. QED
    BY <1>3, <2>3 DEF MaintainOnRequest, TypeOK, prefs, points
<1>4. QED
  BY <1>1, <1>2, <1>3

LEMMA WorldTypes == ASSUME TypeOK PROVE (Crash => TypeOK') /\ (Tick => TypeOK')
<1>1. ASSUME Crash PROVE TypeOK'
  <2>1. writer' \in [Writers -> WriterStates] /\ lastStored' \in [Writers -> Points \cup {None}]
    BY <1>1, AtRest DEF Crash, TypeOK
  <2>2. missed' \subseteq Times
    BY <1>1 DEF Crash, TypeOK
  <2>3. QED
    BY <1>1, <2>1, <2>2 DEF Crash, TypeOK, WriterStates, table, points
<1>2. ASSUME Tick PROVE TypeOK'
  <2>1. now' \in Times
    BY <1>2, Numbers DEF Tick, TypeOK, Times
  <2>2. QED
    BY <1>2, <2>1 DEF Tick, TypeOK, table, prefs, kept, budget
<1>3. QED
  BY <1>1, <1>2

LEMMA Types == TypeOK /\ [Next]_vars => TypeOK'
<1> SUFFICES ASSUME TypeOK, [Next]_vars PROVE TypeOK'
  OBVIOUS
<1>1. CASE UNCHANGED vars
  BY <1>1 DEF vars, TypeOK, table, prefs, points, kept, budget
<1>2. CASE Next
  BY <1>2, StartTypes, StopTypes, FetchTypes, UpsertTypes, InsertTypes, FinishTypes, SaveTypes,
     StoreTypes, WorldTypes DEF Next
<1>3. QED
  BY <1>1, <1>2

-----------------------------------------------------------------------------
(* The history *)

\* A row stands for what was inserted at a time, when maintenance has had cutoffs
\* as far as cut.
Covers(r, ts, cut) ==
  /\ r.ts >= ts /\ r.ts \div Day = ts \div Day
  /\ r.ts \div Hour = ts \div Hour \/ ts < cut.hourly
  /\ r.ts = ts \/ ts < cut.raw

\* Rows that are no longer raw were before a cutoff.
Old(rs, cut) == \A r \in rs : r.res # 0 => r.ts < cut.raw

History == HistoryCovered /\ Old(rows, thinned)

\* A row that is thinned has a successor: the last of its bucket, one tier up.
Moves(rs, res, cutoff, bucket) ==
  \A r \in rs : r.res = res /\ r.ts < cutoff =>
    \E q \in Thin(rs, res, cutoff, bucket) :
      q.ts >= r.ts /\ q.ts \div bucket = r.ts \div bucket /\ q.res = res + 1

LEMMA Successor ==
  ASSUME NEW rs \in SUBSET [ts : Times, res : 0..2], NEW res \in {0, 1}, NEW cutoff, NEW bucket
  PROVE  Moves(rs, res, cutoff, bucket)
<1> SUFFICES ASSUME NEW r \in rs, r.res = res, r.ts < cutoff
             PROVE  \E q \in Thin(rs, res, cutoff, bucket) :
                      q.ts >= r.ts /\ q.ts \div bucket = r.ts \div bucket /\ q.res = res + 1
  BY DEF Moves
<1> DEFINE old == {o \in rs : o.res = res /\ o.ts < cutoff}
           mates == {o \in old : o.ts \div bucket = r.ts \div bucket}
           T == {o.ts : o \in mates}
<1>1. T \in SUBSET Times /\ r.ts \in T
  OBVIOUS
<1>2. PICK t \in T : \A u \in T : u <= t
  <2> HIDE DEF T
  <2>1. QED
    BY <1>1, LastOf
<1>3. PICK o \in mates : o.ts = t
  OBVIOUS
<1>4. \A q \in old : q.ts \div bucket = o.ts \div bucket => q.ts <= o.ts
  BY <1>2, <1>3
<1> DEFINE q == [o EXCEPT !.res = res + 1]
<1>5. q.ts = o.ts /\ q.res = res + 1
  BY <1>3
<1>6. q \in Thin(rs, res, cutoff, bucket)
  BY <1>3, <1>4, SMTT(60) DEF Thin
<1>7. o.ts >= r.ts
  BY <1>1, <1>2, <1>3
<1>8. QED
  BY <1>3, <1>5, <1>6, <1>7

\* Raw rows thinned to hourly ones, and hourly ones to daily ones, still cover
\* what they covered.
LEMMA HourlyCovers ==
  ASSUME NEW rs \in SUBSET [ts : Times, res : 0..2], NEW cutoff \in Int, NEW cut \in [raw : Nat, hourly : Nat],
         cutoff <= cut.raw, NEW ts \in Times, NEW r \in rs, Covers(r, ts, cut)
  PROVE  \E q \in Thin(rs, 0, cutoff, Hour) : Covers(q, ts, cut)
<1>1. CASE ~ (r.res = 0 /\ r.ts < cutoff)
  BY <1>1 DEF Thin
<1>2. CASE r.res = 0 /\ r.ts < cutoff
  <2>1. PICK q \in Thin(rs, 0, cutoff, Hour) :
          q.ts >= r.ts /\ q.ts \div Hour = r.ts \div Hour /\ q.res = 0 + 1
    <3>1. Moves(rs, 0, cutoff, Hour)
      BY Successor
    <3>2. QED
      BY <1>2, <3>1 DEF Moves
  <2>2. q.ts \in Int /\ r.ts \in Int /\ ts \in Int
    <3>1. q \in [ts : Times, res : 0..2]
      BY ThinKeepsRows
    <3>2. QED
      BY <3>1 DEF Times
  <2>3. q.ts \div Day = r.ts \div Day
    BY <2>1, <2>2, SameDay
  <2>4. cut.raw \in Nat
    OBVIOUS
  <2>5. q.ts >= ts /\ ts < cut.raw
    BY <1>2, <2>1, <2>2, <2>4 DEF Covers
  <2>6. QED
    BY <2>1, <2>3, <2>5 DEF Covers
<1>3. QED
  BY <1>1, <1>2

LEMMA DailyCovers ==
  ASSUME NEW rs \in SUBSET [ts : Times, res : 0..2], NEW cutoff \in Int, NEW cut \in [raw : Nat, hourly : Nat],
         cutoff <= cut.hourly, Old(rs, cut), NEW ts \in Times, NEW r \in rs, Covers(r, ts, cut)
  PROVE  \E q \in Thin(rs, 1, cutoff, Day) : Covers(q, ts, cut)
<1>1. CASE ~ (r.res = 1 /\ r.ts < cutoff)
  BY <1>1 DEF Thin
<1>2. CASE r.res = 1 /\ r.ts < cutoff
  <2>1. PICK q \in Thin(rs, 1, cutoff, Day) :
          q.ts >= r.ts /\ q.ts \div Day = r.ts \div Day /\ q.res = 1 + 1
    BY <1>2, Successor DEF Moves
  <2>2. q.ts \in Int /\ r.ts \in Int /\ ts \in Int
    <3>1. q \in [ts : Times, res : 0..2]
      BY ThinKeepsRows
    <3>2. QED
      BY <3>1 DEF Times
  <2>3. cut.raw \in Nat /\ cut.hourly \in Nat
    OBVIOUS
  <2>4. r.ts < cut.raw
    BY <1>2 DEF Old
  <2>5. q.ts >= ts /\ ts < cut.raw /\ ts < cut.hourly
    BY <1>2, <2>1, <2>2, <2>3, <2>4 DEF Covers
  <2>6. QED
    BY <2>1, <2>5 DEF Covers
<1>3. QED
  BY <1>1, <1>2

\* What a pass moves a tier up was before its cutoff.
LEMMA ThinIsOld ==
  ASSUME NEW rs \in SUBSET [ts : Times, res : 0..2], NEW res \in {0, 1}, NEW cutoff \in Int, NEW bucket,
         NEW cut \in [raw : Nat, hourly : Nat], Old(rs, cut), res = 0 => cutoff <= cut.raw
  PROVE  Old(Thin(rs, res, cutoff, bucket), cut)
<1>1. cut.raw \in Nat /\ \A o \in rs : o.ts \in Int
  BY DEF Times
<1>2. SUFFICES ASSUME NEW r \in Thin(rs, res, cutoff, bucket), r.res # 0 PROVE r.ts < cut.raw
  BY DEF Old
<1>3. CASE r \in rs
  BY <1>2, <1>3 DEF Old
<1>4. ASSUME NEW o \in rs, o.res = res, o.ts < cutoff, r = [o EXCEPT !.res = res + 1] PROVE r.ts < cut.raw
  <2>1. r.ts = o.ts
    BY <1>4
  <2>2. QED
    BY <1>1, <1>4, <2>1 DEF Old
<1>5. QED
  BY <1>3, <1>4 DEF Thin

LEMMA MaintainedCovers ==
  ASSUME TypeOK, History, NEW time \in Int, NEW raw \in Int, NEW hourly \in Int,
         Thinning(time, raw, hourly), UNCHANGED stored
  PROVE  History'
<1> DEFINE one == Thin(rows, 0, time - raw, Hour)
<1>1. rows \in SUBSET [ts : Times, res : 0..2] /\ stored \subseteq Times
  BY DEF TypeOK
<1>2. one \in SUBSET [ts : Times, res : 0..2]
  BY <1>1, ThinKeepsRows
<1>3. PICK cut \in [raw : Nat, hourly : Nat] : cut = thinned'
  BY MaintainedRows
<1>4. thinned.raw \in Nat /\ thinned.hourly \in Nat /\ time - raw \in Int /\ time - hourly \in Int
  BY DEF TypeOK
<1>5. /\ time - raw <= cut.raw /\ time - hourly <= cut.hourly
      /\ thinned.raw <= cut.raw /\ thinned.hourly <= cut.hourly
  <2>1. cut.raw = Later(thinned.raw, time - raw) /\ cut.hourly = Later(thinned.hourly, time - hourly)
    BY <1>3 DEF Thinning
  <2>2. QED
    BY <1>4, <2>1, LaterIs
<1>6. cut.raw \in Nat /\ cut.hourly \in Nat
  OBVIOUS
<1>7. rows' = Thin(one, 1, time - hourly, Day)
  BY DEF Thinning, Maintained
<1>8. Old(rows, cut)
  <2>1. \A r \in rows : r.ts \in Int
    BY <1>1 DEF Times
  <2>2. QED
    BY <1>4, <1>5, <1>6, <2>1 DEF History, Old
<1>9. Old(one, cut)
  BY <1>1, <1>4, <1>5, <1>8, ThinIsOld
<1> HIDE DEF one
<1>10. Old(rows', cut)
  BY <1>2, <1>4, <1>7, <1>9, ThinIsOld
<1>11. ASSUME NEW ts \in stored PROVE \E r \in rows' : Covers(r, ts, cut)
  <2>1. ts \in Times /\ ts \in Int
    BY <1>1 DEF Times
  <2>2. PICK r \in rows : Covers(r, ts, thinned)
    BY DEF History, HistoryCovered, Covers
  <2>3. Covers(r, ts, cut)
    BY <1>4, <1>5, <1>6, <2>1, <2>2 DEF Covers
  <2>4. PICK q \in one : Covers(q, ts, cut)
    BY <1>1, <1>4, <1>5, <2>1, <2>3, HourlyCovers DEF one
  <2>5. \E s \in Thin(one, 1, time - hourly, Day) : Covers(s, ts, cut)
    BY <1>2, <1>4, <1>5, <1>9, <2>1, <2>4, DailyCovers
  <2>6. QED
    BY <1>7, <2>5
<1>12. QED
  BY <1>3, <1>10, <1>11 DEF History, HistoryCovered, Covers, Old

\* A point that is inserted has a row of its time, its own or an earlier one's.
LEMMA InsertCovers ==
  ASSUME TypeOK, History, NEW w \in Writers, Insert(w)
  PROVE  History'
<1> DEFINE ps == writer[w].positions
<1>1. ps \subseteq Points /\ thinned' = thinned
  BY InPoll DEF Insert, Polls, kept
<1>2. \/ rows' = rows \cup New(ps) /\ stored' = stored \cup {p.ts : p \in ps}
      \/ UNCHANGED <<rows, stored>>
  BY DEF Insert
<1> HIDE DEF ps
<1>3. CASE UNCHANGED <<rows, stored>>
  BY <1>1, <1>3 DEF History, HistoryCovered, Old
<1>4. CASE rows' = rows \cup New(ps) /\ stored' = stored \cup {p.ts : p \in ps}
  <2>1. ASSUME NEW ts \in stored' PROVE \E r \in rows' : Covers(r, ts, thinned)
    <3>1. CASE ts \in stored
      BY <1>4, <3>1 DEF History, HistoryCovered, Covers
    <3>2. CASE ts \notin stored
      <4>1. PICK p \in ps : ts = p.ts
        BY <1>4, <2>1, <3>2
      <4>2. ts \in Nat
        BY <1>1, <4>1, Numbers DEF Points
      <4>3. CASE \E r \in rows : r.ts = ts
        BY <1>4, <4>2, <4>3 DEF Covers
      <4>4. CASE \A r \in rows : r.ts # ts
        <5>1. [ts |-> ts, res |-> 0] \in rows'
          BY <1>4, <4>1, <4>4 DEF New
        <5>2. Covers([ts |-> ts, res |-> 0], ts, thinned)
          BY <4>2 DEF Covers
        <5>3. QED
          BY <5>1, <5>2
      <4>5. QED
        BY <4>3, <4>4
    <3>3. QED
      BY <3>1, <3>2
  <2>2. \A r \in New(ps) : r.res = 0
    BY DEF New
  <2>3. Old(rows', thinned)
    BY <1>4, <2>2 DEF History, Old
  <2>4. QED
    BY <1>1, <2>1, <2>3 DEF History, HistoryCovered, Covers, Old
<1>5. QED
  BY <1>2, <1>3, <1>4

LEMMA Coverage == TypeOK /\ History /\ [Next]_vars => History'
<1> SUFFICES ASSUME TypeOK, History, [Next]_vars PROVE History'
  OBVIOUS
<1>1. CASE UNCHANGED <<rows, stored, thinned>>
  BY <1>1 DEF History, HistoryCovered, Old
<1>2. CASE \E w \in Writers : Insert(w)
  BY <1>2, InsertCovers
<1>3. ASSUME NEW m \in maintenance, Maintain(m) PROVE History'
  <2>1. m.time \in Int /\ Raw \in Int /\ Hourly \in Int
    BY ThreadIs, Numbers
  <2>2. UNCHANGED stored /\ (Thinning(m.time, Raw, Hourly) \/ UNCHANGED <<rows, thinned>>)
    BY <1>3 DEF Maintain, points
  <2>3. QED
    BY <1>1, <2>1, <2>2, MaintainedCovers
<1>4. ASSUME MaintainOnRequest PROVE History'
  <2>1. PICK raw \in Ages \cup {Raw}, hourly \in Ages \cup {Hourly} : Thinning(now, raw, hourly)
    BY <1>4 DEF MaintainOnRequest
  <2>2. raw \in Int /\ hourly \in Int /\ now \in Int /\ UNCHANGED stored
    BY <1>4, Numbers DEF TypeOK, MaintainOnRequest, points
  <2>3. QED
    BY <2>1, <2>2, MaintainedCovers
<1>5. QED
  BY <1>1, <1>2, <1>3, <1>4 DEF Next, vars, table, points, kept, StartWriter, Upsert, Finish, Save, Fetch, StopWriter,
     Persist, Crash, Tick

-----------------------------------------------------------------------------
(* The track *)

\* The points a poll has yet to insert.
Pending(w) == IF writer[w].at \in {"upsert", "insert"} THEN writer[w].positions ELSE {}

\* While a writer's last point keeps it from storing another, the point was
\* inserted or lost not long ago, or is about to be.
Remembered ==
  \A w \in Writers : lastStored[w] # None =>
    /\ lastStored[w].ts <= now
    /\ now - lastStored[w].ts < Heartbeat => lastStored[w] \in recent \cup Pending(w)

Near(p, r) ==
  p.ts <= r.ts /\ r.ts - p.ts < Heartbeat /\ Distance(p.place, r.seen) < Move

\* TrackFollows, from the start of the poll on.
Shown ==
  \A w \in Writers : Working(w) /\ writer[w].seen # None =>
    \E p \in recent \cup Pending(w) : Near(p, writer[w])

Track == Remembered /\ Shown

\* Near enough to the last point not to be stored means near to it.
LEMMA NotWorthStoring ==
  ASSUME NEW last \in Points, NEW p \in Places, p # None, last # None,
         now \in Times, ~ WorthStoring(last, p)
  PROVE  now - last.ts < Heartbeat /\ Distance(last.place, p) < Move
<1>1. last.ts \in Nat /\ last.place \in Nat /\ p \in Nat /\ now \in Nat
  BY Numbers, Zenon DEF Points
<1>2. Distance(last.place, p) \in Int
  BY <1>1 DEF Distance
<1>3. QED
  BY <1>1, <1>2, Numbers DEF WorthStoring

\* A step that leaves the clock, the points and a writer with its map alone.
LEMMA SameWriter ==
  ASSUME NEW w \in Writers, writer'[w] = writer[w]
  PROVE  Pending(w)' = Pending(w) /\ (Working(w))' = Working(w)
BY DEF Pending, Working

LEMMA FetchTracks ==
  ASSUME TypeOK, Track, NEW w \in Writers, NEW p \in Places \cup {None}, Fetch(w, p)
  PROVE  Track'
<1> DEFINE last == lastStored[w]
           store == WorthStoring(last, p)
           point == [ts |-> now, place |-> p]
           q == [at |-> "upsert", ts |-> now,
                 positions |-> IF store THEN {point} ELSE {}, seen |-> p]
<1>1. /\ writer' = [writer EXCEPT ![w] = q]
      /\ lastStored' = IF store THEN [lastStored EXCEPT ![w] = point] ELSE lastStored
      /\ now' = now /\ recent' = recent
  BY DEF Fetch, points
<1>2. /\ q.at = "upsert" /\ q.ts = now /\ q.seen = p
      /\ q.positions = IF store THEN {point} ELSE {}
      /\ point.ts = now /\ point.place = p
  OBVIOUS
<1>3. Pending(w) = {}
  BY DEF Fetch, Pending
<1>4. now \in Nat /\ now - now = 0
  BY Numbers DEF TypeOK
<1> HIDE DEF point, q
<1>5. writer'[w] = q /\ \A v \in Writers : v # w => writer'[v] = writer[v]
  BY <1>1 DEF TypeOK
<1>6. Pending(w)' = IF store THEN {point} ELSE {}
  BY <1>2, <1>5 DEF Pending
<1>7. \A v \in Writers : v # w => lastStored'[v] = lastStored[v]
  BY <1>1 DEF TypeOK
<1>8. \A v \in Writers : v # w => Pending(v)' = Pending(v) /\ (Working(v))' = Working(v)
  BY <1>5, SameWriter
<1>9. last \in Points \cup {None}
  BY DEF TypeOK
<1> HIDE DEF store
<1>10. Remembered'
  <2>1. SUFFICES ASSUME NEW v \in Writers, lastStored'[v] # None
        PROVE /\ lastStored'[v].ts <= now
              /\ now - lastStored'[v].ts < Heartbeat => lastStored'[v] \in recent \cup Pending(v)'
    BY <1>1 DEF Remembered
  <2>2. CASE v # w
    BY <1>7, <1>8, <2>1, <2>2 DEF Track, Remembered
  <2>3. CASE v = w /\ store
    <3>1. lastStored'[v] = point
      BY <1>1, <2>3 DEF TypeOK
    <3>2. QED
      BY <1>2, <1>4, <1>6, <2>3, <3>1
  <2>4. CASE v = w /\ ~store
    BY <1>1, <1>3, <1>6, <2>1, <2>4 DEF Track, Remembered
  <2>5. QED
    BY <2>2, <2>3, <2>4
<1>11. Shown'
  <2>1. SUFFICES ASSUME NEW v \in Writers, (Working(v))', writer'[v].seen # None
        PROVE \E x \in recent \cup Pending(v)' : Near(x, writer'[v])
    BY <1>1 DEF Shown, Near, Distance
  <2>2. CASE v # w
    BY <1>5, <1>8, <2>1, <2>2 DEF Track, Shown
  <2>3. CASE v = w
    <3>1. p \in Places /\ p # None
      BY <1>2, <1>5, <2>1, <2>3
    <3>2. CASE store
      <4>1. Distance(p, p) = 0
        BY <3>1, Numbers DEF Distance
      <4>2. Near(point, q)
        BY <1>2, <1>4, <4>1, Numbers DEF Near
      <4>3. QED
        BY <1>5, <1>6, <2>3, <3>2, <4>2
    <3>3. CASE ~store
      <4>1. last # None /\ last \in Points
        BY <1>9, <3>1, <3>3 DEF WorthStoring, store
      <4>2. now - last.ts < Heartbeat /\ Distance(last.place, p) < Move
        BY <3>1, <3>3, <4>1, NotWorthStoring DEF store, TypeOK
      <4>3. last \in recent /\ last.ts <= now
        BY <1>3, <4>1, <4>2 DEF Track, Remembered
      <4>4. Near(last, q)
        BY <1>2, <4>2, <4>3 DEF Near
      <4>5. QED
        BY <1>5, <2>3, <4>3, <4>4
    <3>4. QED
      BY <3>2, <3>3
  <2>4. QED
    BY <2>2, <2>3
<1>12. QED
  BY <1>10, <1>11 DEF Track

\* A step of the writers: what a map or a poll under way may rely on stays.
LEMMA StepTracks ==
  ASSUME TypeOK, Track, now' = now,
         \A v \in Writers :
           /\ lastStored'[v] = None \/ (lastStored'[v] = lastStored[v] /\ recent \cup Pending(v) \subseteq recent' \cup Pending(v)')
           /\ (Working(v))' =>
                /\ Working(v) /\ writer'[v].ts = writer[v].ts /\ writer'[v].seen = writer[v].seen
                /\ recent \cup Pending(v) \subseteq recent' \cup Pending(v)'
  PROVE  Track'
<1>1. Remembered'
  BY DEF Track, Remembered
<1>2. Shown'
  <2>1. SUFFICES ASSUME NEW v \in Writers, (Working(v))', writer'[v].seen # None
        PROVE \E x \in recent' \cup Pending(v)' : Near(x, writer'[v])
    BY DEF Shown, Near, Distance
  <2>2. PICK x \in recent \cup Pending(v) : Near(x, writer[v])
    BY <2>1 DEF Track, Shown
  <2>3. Near(x, writer'[v]) /\ x \in recent' \cup Pending(v)'
    BY <2>1, <2>2 DEF Near
  <2>4. QED
    BY <2>3
<1>3. QED
  BY <1>1, <1>2 DEF Track

\* A writer at rest has nothing to insert.
LEMMA RestHasNone ==
  ASSUME NEW w \in Writers, writer'[w].at \in {"off", "idle"}
  PROVE  Pending(w)' = {} /\ ~(Working(w))'
BY DEF Pending, Working

\* A step of a poll, or its end: its points are still to be inserted, or were, or
\* are lost.
LEMMA PollTracks ==
  ASSUME TypeOK, Track, NEW w \in Writers, Working(w), now' = now,
         lastStored' \in {lastStored, [lastStored EXCEPT ![w] = None]},
         (\E at \in {"insert", "finish", "save"} : Goto(w, at)) \/ Leave(w),
         recent \subseteq recent', Pending(w) \subseteq recent' \cup Pending(w)'
  PROVE  Track'
<1>1. /\ \A v \in Writers : v # w => writer'[v] = writer[v]
      /\ (Working(w))' => writer'[w].ts = writer[w].ts /\ writer'[w].seen = writer[w].seen
  <2>1. ASSUME NEW at \in {"insert", "finish", "save"}, Goto(w, at)
        PROVE  /\ \A v \in Writers : v # w => writer'[v] = writer[v]
               /\ writer'[w].ts = writer[w].ts /\ writer'[w].seen = writer[w].seen
    BY <2>1, GotoKeeps
  <2>2. CASE Leave(w)
    BY <2>2, LeaveRests, RestHasNone
  <2>3. QED
    BY <2>1, <2>2
<1>2. \A v \in Writers : lastStored'[v] = None \/ lastStored'[v] = lastStored[v]
  BY DEF TypeOK
<1>3. ASSUME NEW v \in Writers
      PROVE  /\ recent \cup Pending(v) \subseteq recent' \cup Pending(v)'
             /\ (Working(v))' => Working(v) /\ writer'[v].ts = writer[v].ts /\ writer'[v].seen = writer[v].seen
  <2>1. CASE v = w
    BY <1>1, <2>1
  <2>2. CASE v # w
    BY <1>1, <2>2, SameWriter
  <2>3. QED
    BY <2>1, <2>2
<1>4. QED
  BY <1>2, <1>3, StepTracks

LEMMA PollsTrack ==
  ASSUME TypeOK, Track, NEW w \in Writers
  PROVE  (Upsert(w) => Track') /\ (Insert(w) => Track') /\ (Finish(w) => Track') /\ (Save(w) => Track')
<1>1. ASSUME Upsert(w) PROVE Track'
  <2>1. Working(w) /\ UNCHANGED <<now, lastStored>> /\ Pending(w) = writer[w].positions
    BY <1>1, InPoll DEF Upsert, Pending
  <2>2. CASE Goto(w, "insert") /\ UNCHANGED recent
    <3>1. writer'[w].at = "insert" /\ writer'[w].positions = writer[w].positions
      BY <2>1, <2>2, GotoKeeps
    <3>2. Pending(w)' = Pending(w)
      BY <2>1, <3>1 DEF Pending
    <3>3. QED
      BY <2>1, <2>2, <3>2, PollTracks
  <2>3. CASE Leave(w) /\ recent' = recent \cup writer[w].positions
    BY <2>1, <2>3, PollTracks
  <2>4. QED
    BY <1>1, <2>2, <2>3 DEF Upsert
<1>2. ASSUME Insert(w) PROVE Track'
  <2>1. /\ Working(w) /\ UNCHANGED <<now, lastStored>> /\ Pending(w) = writer[w].positions
        /\ recent' = recent \cup writer[w].positions /\ (Goto(w, "finish") \/ Leave(w))
    BY <1>2, InPoll DEF Insert, Pending
  <2>2. QED
    BY <2>1, PollTracks
<1>3. ASSUME Finish(w) PROVE Track'
  <2>1. /\ Working(w) /\ UNCHANGED <<now, recent>> /\ Pending(w) = {} /\ (Goto(w, "save") \/ Leave(w))
        /\ lastStored' \in {lastStored, [lastStored EXCEPT ![w] = None]}
    BY <1>3, InPoll DEF Finish, Pending, points
  <2>2. QED
    BY <2>1, PollTracks
<1>4. ASSUME Save(w) PROVE Track'
  <2>1. Working(w) /\ UNCHANGED <<now, recent, lastStored>> /\ Pending(w) = {} /\ Leave(w)
    BY <1>4, InPoll DEF Save, Pending, points
  <2>2. QED
    BY <2>1, PollTracks
<1>5. QED
  BY <1>1, <1>2, <1>3, <1>4

\* A step after which some writers are at rest that were not in the middle of a
\* poll, and some maps are empty.
LEMMA RestTracks ==
  ASSUME TypeOK, Track, UNCHANGED <<now, recent>>,
         \A w \in Writers :
           /\ lastStored'[w] = None \/ (lastStored'[w] = lastStored[w] /\ Pending(w)' = Pending(w))
           /\ (Working(w))' => writer'[w] = writer[w]
  PROVE  Track'
<1>1. ASSUME NEW v \in Writers, (Working(v))'
      PROVE  Working(v) /\ writer'[v] = writer[v] /\ Pending(v)' = Pending(v)
  BY <1>1, SameWriter
<1>2. QED
  BY <1>1, StepTracks

LEMMA StartTracks == ASSUME TypeOK, Track, NEW w \in Writers, StartWriter(w) PROVE Track'
<1>1. Off.at = "off" /\ Idle.at = "idle"
  BY AtRest DEF TypeOK
<1>2. UNCHANGED <<now, recent>>
  BY DEF StartWriter, points
<1>3. ASSUME NEW v \in Writers
      PROVE /\ lastStored'[v] = None \/ (lastStored'[v] = lastStored[v] /\ Pending(v)' = Pending(v))
            /\ (Working(v))' => writer'[v] = writer[v]
  <2>1. CASE v = w
    BY <1>1, <2>1 DEF StartWriter, TypeOK, Working
  <2>2. CASE v # w
    BY <2>2, SameWriter DEF StartWriter, TypeOK
  <2>3. QED
    BY <2>1, <2>2
<1>4. QED
  BY <1>2, <1>3, RestTracks

LEMMA StopTracks == ASSUME TypeOK, Track, StopWriter PROVE Track'
<1>1. Off.at = "off"
  BY AtRest DEF TypeOK
<1>2. UNCHANGED <<now, recent, lastStored>>
  BY DEF StopWriter, points
<1>3. ASSUME NEW v \in Writers
      PROVE Pending(v)' = Pending(v) /\ ((Working(v))' => writer'[v] = writer[v])
  <2>1. CASE writer'[v] = writer[v]
    BY <2>1, SameWriter
  <2>2. CASE writer'[v] # writer[v]
    <3>1. v = current /\ ~Working(v) /\ writer'[v] = Off
      BY <2>2 DEF StopWriter, TypeOK
    <3>2. QED
      BY <1>1, <3>1, InPoll DEF Pending, Working
  <2>3. QED
    BY <2>1, <2>2
<1>4. QED
  BY <1>2, <1>3, RestTracks

LEMMA CrashTracks == ASSUME TypeOK, Track, Crash PROVE Track'
<1>1. Off.at = "off"
  BY AtRest DEF TypeOK
<1>2. UNCHANGED <<now, recent>>
  BY DEF Crash, points
<1>3. \A v \in Writers : lastStored'[v] = None /\ ~(Working(v))'
  BY <1>1 DEF Crash, Working
<1>4. QED
  BY <1>2, <1>3, RestTracks

\* The clock does not pass a poll, and forgets what no writer may rely on.
LEMMA TickTracks == ASSUME TypeOK, Track, Tick PROVE Track'
<1>1. /\ now' = now + 1 /\ recent' = {p \in recent : now - p.ts < Heartbeat}
      /\ UNCHANGED <<writer, lastStored>>
  BY DEF Tick
<1>2. now \in Nat
  BY Numbers DEF TypeOK
<1>3. Remembered'
  <2>1. SUFFICES ASSUME NEW w \in Writers, lastStored[w] # None
        PROVE /\ lastStored[w].ts <= now'
              /\ now' - lastStored[w].ts < Heartbeat => lastStored[w] \in recent' \cup Pending(w)
    BY <1>1 DEF Remembered, Pending
  <2>2. lastStored[w].ts \in Nat
    BY <2>1, Numbers, Zenon DEF TypeOK, Points
  <2>3. QED
    BY <1>1, <1>2, <2>1, <2>2, Numbers DEF Track, Remembered
<1>4. Shown'
  <2>1. SUFFICES ASSUME NEW w \in Writers, Working(w), writer[w].seen # None
        PROVE \E p \in recent' \cup Pending(w) : Near(p, writer[w])
    BY <1>1 DEF Shown, Near, Distance, Pending, Working
  <2>2. PICK p \in recent \cup Pending(w) : Near(p, writer[w])
    BY <2>1 DEF Track, Shown
  <2>3. writer[w].ts = now
    BY <2>1 DEF Tick
  <2>4. p \in recent' \cup Pending(w)
    BY <1>1, <2>2, <2>3 DEF Near
  <2>5. QED
    BY <2>2, <2>4
<1>5. QED
  BY <1>3, <1>4 DEF Track

LEMMA Tracking == TypeOK /\ Track /\ [Next]_vars => Track'
<1> SUFFICES ASSUME TypeOK, Track, [Next]_vars PROVE Track'
  OBVIOUS
<1>1. ASSUME UNCHANGED <<now, recent, writer, lastStored>> PROVE Track'
  BY <1>1, RestTracks, SameWriter
<1>2. CASE Persist \/ MaintainOnRequest \/ (\E m \in maintenance : Maintain(m)) \/ UNCHANGED vars
  BY <1>1, <1>2 DEF Persist, MaintainOnRequest, Maintain, vars, points
<1>3. QED
  BY <1>2, FetchTracks, PollsTrack, StartTracks, StopTracks, CrashTracks, TickTracks DEF Next

-----------------------------------------------------------------------------
(* The size of the tables *)

\* The clock never passes what is under way.  Two maintenance that were due lie an
\* interval apart, or a tick less: the time saved last may be that of a poll which
\* began a tick before.
Timed ==
  /\ pref <= now /\ prefDisk <= now /\ extra \in Nat
  /\ \A w \in Writers : Working(w) =>
       /\ writer[w].ts <= now /\ now <= writer[w].ts + 1
       /\ writer[w].at \in {"upsert", "insert"} => \A p \in writer[w].positions : p.ts = writer[w].ts
  /\ \A m \in maintenance : m.time <= now /\ now <= m.time + 1 /\ m.time <= pref + 1
  /\ \A m, o \in maintenance : ~m.again /\ ~o.again /\ m # o =>
       m.time + 1 >= o.time + Interval \/ o.time + 1 >= m.time + Interval

\* Raw rows past their time are waiting for a maintenance, or it was missed.  A
\* crash may bring back the time that is on the disk.
Awaited(p) == \E time \in missed \cup {m.time : m \in maintenance} : time >= p
RawGo == \A p \in {pref, prefDisk}, r \in rows : r.res = 0 /\ r.ts < p - Raw => Awaited(p)

Tier(k, size, b) == {r \in rows : r.res = k /\ r.ts \div size = b}

\* Rows of a lower tier are in the bucket, or points of it may still come.
MayGrow(k, size, b) == now <= (b + 1) * size \/ \E r \in rows : r.res < k /\ r.ts \div size = b

\* The times from which the next maintenance is due an interval later: the one that
\* is saved, and those that polls are about to save.
Bases == {pref} \cup {writer[w].ts : w \in {v \in Writers : writer[v].at = "save"}}

\* Maintenance that is due, now or later, may have its cutoff inside the bucket.
Cut(size, keep, b) ==
  \/ \E p \in Bases : p + Interval < (b + 1) * size + keep
  \/ \E m \in maintenance : ~m.again /\ b * size + keep < m.time /\ m.time < (b + 1) * size + keep

\* A bucket gets a row when maintenance cuts it, which one run does, and one more
\* when it is past; after that it does not grow.
Few(k, size, keep) ==
  \A b \in Nat :
    /\ Cardinality(Tier(k, size, b)) <= 2 + extra
    /\ MayGrow(k, size, b) => Cardinality(Tier(k, size, b)) <= 1 + extra
    /\ MayGrow(k, size, b) /\ Cut(size, keep, b) => Cardinality(Tier(k, size, b)) <= extra

Sparse == Timed /\ RawGo /\ Few(1, Hour, Raw) /\ Few(2, Day, Hourly)

\* The times of a bucket.
LEMMA InBucket ==
  ASSUME NEW n \in Nat \ {0}, NEW b \in Nat
  PROVE  /\ b * n \in Int /\ (b + 1) * n \in Int /\ (b + 1) * n = b * n + n
         /\ \A x \in Int : x \div n = b <=> b * n <= x /\ x < (b + 1) * n
<1>1. b * n \in Int /\ (b + 1) * n \in Int /\ (b + 1) * n = b * n + n
  BY SMT
<1>2. ASSUME NEW x \in Int PROVE x \div n = b <=> b * n <= x /\ x < (b + 1) * n
  <2>1. ASSUME x \div n = b PROVE b * n <= x /\ x < b * n + n
    BY <2>1, Bucket
  <2>2. ASSUME b * n <= x, x < b * n + n PROVE x \div n = b
    BY <2>2, OneBucket
  <2>3. QED
    BY <1>1, <2>1, <2>2
<1>3. QED
  BY <1>1, <1>2

LEMMA RowIs ==
  ASSUME NEW r \in [ts : Times, res : 0..2]
  PROVE  r.ts \in Nat /\ r.res \in 0..2 /\ r = [ts |-> r.ts, res |-> r.res]
<1>1. r.ts \in Times /\ r.res \in 0..2 /\ r = [ts |-> r.ts, res |-> r.res]
  OBVIOUS
<1>2. QED
  BY <1>1, Numbers, Zenon

LEMMA RowsAreFinite == IsFiniteSet([ts : Times, res : 0..2])
<1>1. IsFiniteSet(Times \X (0..2))
  <2>1. IsFiniteSet(Times) /\ IsFiniteSet(0..2)
    <3>1. \A a, b \in Int : IsFiniteSet(a..b)
      BY FS_Interval
    <3>2. 0 \in Int /\ 2 \in Int /\ MaxTime \in Int
      BY Numbers
    <3>3. QED
      BY <3>1, <3>2, Zenon DEF Times
  <2>2. QED
    BY <2>1, FS_Product
<1> DEFINE f == [p \in Times \X (0..2) |-> [ts |-> p[1], res |-> p[2]]]
<1>2. f \in Surjection(Times \X (0..2), [ts : Times, res : 0..2])
  <2>1. \A r \in [ts : Times, res : 0..2] : <<r.ts, r.res>> \in Times \X (0..2) /\ f[<<r.ts, r.res>>] = r
    OBVIOUS
  <2>2. f \in [Times \X (0..2) -> [ts : Times, res : 0..2]]
    OBVIOUS
  <2> HIDE DEF f
  <2>3. QED
    BY <2>1, <2>2, Zenon DEF Surjection
<1> HIDE DEF f
<1>3. QED
  BY <1>1, <1>2, FS_Surjection

LEMMA TierIsFinite ==
  ASSUME NEW rs \in SUBSET [ts : Times, res : 0..2], NEW A \in SUBSET rs
  PROVE  IsFiniteSet(A) /\ Cardinality(A) \in Nat
<1>1. A \in SUBSET [ts : Times, res : 0..2]
  OBVIOUS
<1>2. IsFiniteSet(A)
  BY <1>1, RowsAreFinite, FS_Subset, Zenon
<1>3. QED
  BY <1>2, FS_CardinalityType

LEMMA OneMore ==
  ASSUME NEW A, NEW B, NEW x, IsFiniteSet(A), B \subseteq A \cup {x}
  PROVE  Cardinality(B) \in Nat /\ Cardinality(A) \in Nat /\ Cardinality(B) <= Cardinality(A) + 1
<1>1. IsFiniteSet(A \cup {x}) /\ Cardinality(A \cup {x}) <= Cardinality(A) + 1 /\ Cardinality(A) \in Nat
  BY FS_AddElement, FS_CardinalityType, SMTT(60)
<1>2. IsFiniteSet(B) /\ Cardinality(B) <= Cardinality(A \cup {x})
  BY <1>1, FS_Subset
<1>3. Cardinality(B) \in Nat /\ Cardinality(A \cup {x}) \in Nat
  BY <1>1, <1>2, FS_CardinalityType
<1>4. QED
  BY <1>1, <1>2, <1>3


\* What maintenance makes of the rows, for the rows of a tier: they come from lower
\* tiers, at most one to a bucket.  Where raw rows are kept no longer than hourly
\* ones, those of lower tiers that stay are not past the cutoff.
Raised(rs, new, k, size) ==
  /\ \A r \in new : r.res < k => \E q \in rs : q.res < k /\ q.ts = r.ts
  /\ \A r \in new \ rs : r.res = k => \E q \in rs : q.res < k /\ q.ts = r.ts
  /\ \A r, q \in new \ rs : r.res = k /\ q.res = k /\ r.ts \div size = q.ts \div size => r = q

Thinned(rs, new, k, size, cutoff) ==
  /\ Raised(rs, new, k, size)
  /\ \A r \in new : r.res < k => r.ts >= cutoff
  /\ \A r \in new \ rs : r.res = k => r.ts < cutoff

\* A pass over a tier.
Passed(rs, new, j, cutoff, size) ==
  /\ new \in SUBSET [ts : Times, res : 0..2]
  /\ \A r \in new : r.res # j + 1 => r \in rs
  /\ \A r \in new : r.res = j => r.ts >= cutoff
  /\ \A r \in new \ rs : r.ts < cutoff /\ \E q \in rs : q.res = j /\ q.ts = r.ts
  /\ \A r, q \in new \ rs : r.ts \div size = q.ts \div size => r = q

LEMMA OnePass ==
  ASSUME NEW rs \in SUBSET [ts : Times, res : 0..2], NEW j \in {0, 1}, NEW cutoff \in Int, NEW size,
         NEW new, new = Thin(rs, j, cutoff, size)
  PROVE  Passed(rs, new, j, cutoff, size)
<1>1. new \in SUBSET [ts : Times, res : 0..2]
  BY ThinKeepsRows
<1> DEFINE old == {r \in rs : r.res = j /\ r.ts < cutoff}
           last == {r \in old : \A q \in old : q.ts \div size = r.ts \div size => q.ts <= r.ts}
<1>2. new = (rs \ old) \cup {[r EXCEPT !.res = j + 1] : r \in last}
  BY DEF Thin
<1>3. \A r \in rs : r.ts \in Nat /\ r.res \in 0..2 /\ r = [ts |-> r.ts, res |-> r.res]
  BY RowIs
<1>4. ASSUME NEW r \in new, r \notin rs \ old
      PROVE  \E q \in last : r.res = j + 1 /\ r.ts = q.ts /\ r = [ts |-> q.ts, res |-> j + 1]
  <2>1. PICK q \in last : r = [q EXCEPT !.res = j + 1]
    BY <1>2, <1>4
  <2>2. r = [ts |-> q.ts, res |-> j + 1]
    BY <1>3, <2>1
  <2>3. QED
    BY <2>1, <2>2
<1>5. \A r \in new : r.res # j + 1 => r \in rs
  BY <1>4
<1>6. ASSUME NEW r \in new, r.res = j PROVE r.ts >= cutoff
  <2>1. r \in rs /\ r \notin old
    BY <1>4, <1>6
  <2>2. QED
    BY <1>3, <1>6, <2>1
<1>7. ASSUME NEW r \in new \ rs PROVE r.ts < cutoff /\ \E q \in rs : q.res = j /\ q.ts = r.ts
  BY <1>4
<1>8. ASSUME NEW r \in new \ rs, NEW q \in new \ rs, r.ts \div size = q.ts \div size PROVE r = q
  <2>1. PICK a \in last : r.ts = a.ts /\ r = [ts |-> a.ts, res |-> j + 1]
    BY <1>4
  <2>2. PICK b \in last : q.ts = b.ts /\ q = [ts |-> b.ts, res |-> j + 1]
    BY <1>4
  <2>3. a.ts <= b.ts /\ b.ts <= a.ts /\ a.ts \in Nat /\ b.ts \in Nat
    BY <1>3, <1>8, <2>1, <2>2
  <2>4. QED
    BY <2>1, <2>2, <2>3
<1>9. QED
  BY <1>1, <1>5, <1>6, <1>7, <1>8 DEF Passed

LEMMA MaintainedThins ==
  ASSUME TypeOK, NEW time \in Int, NEW raw \in Int, NEW hourly \in Int, NEW new, new = Maintained(time, raw, hourly)
  PROVE  /\ Raised(rows, new, 1, Hour) /\ Raised(rows, new, 2, Day)
         /\ raw <= hourly => Thinned(rows, new, 1, Hour, time - raw) /\ Thinned(rows, new, 2, Day, time - hourly)
         /\ \A r \in new : r.res = 0 => r \in rows /\ r.ts >= time - raw
<1>1. rows \in SUBSET [ts : Times, res : 0..2]
  BY DEF TypeOK
<1>2. PICK mid : mid = Thin(rows, 0, time - raw, Hour)
  OBVIOUS
<1>3. new = Thin(mid, 1, time - hourly, Day)
  BY <1>2 DEF Maintained
<1>4. time - raw \in Int /\ time - hourly \in Int /\ (raw <= hourly => time - hourly <= time - raw)
  OBVIOUS
<1>5. /\ mid \in SUBSET [ts : Times, res : 0..2]
      /\ \A r \in mid : r.res # 1 => r \in rows
      /\ \A r \in mid : r.res = 0 => r.ts >= time - raw
      /\ \A r \in mid \ rows : r.ts < time - raw /\ \E q \in rows : q.res = 0 /\ q.ts = r.ts
      /\ \A r, q \in mid \ rows : r.ts \div Hour = q.ts \div Hour => r = q
  <2>1. Passed(rows, mid, 0, time - raw, Hour)
    BY <1>1, <1>2, <1>4, OnePass
  <2>2. QED
    BY <2>1 DEF Passed
<1>6. /\ new \in SUBSET [ts : Times, res : 0..2]
      /\ \A r \in new : r.res # 2 => r \in mid
      /\ \A r \in new : r.res = 1 => r.ts >= time - hourly
      /\ \A r \in new \ mid : r.ts < time - hourly /\ \E q \in mid : q.res = 1 /\ q.ts = r.ts
      /\ \A r, q \in new \ mid : r.ts \div Day = q.ts \div Day => r = q
  <2>1. Passed(mid, new, 1, time - hourly, Day)
    BY <1>3, <1>4, <1>5, OnePass
  <2>2. QED
    BY <2>1 DEF Passed
<1>7. \A r \in new : r.res \in 0..2 /\ r.ts \in Int
  BY <1>6, RowIs
<1>8. ASSUME NEW r \in new, r.res = 0 PROVE r \in rows /\ r.ts >= time - raw
  BY <1>5, <1>6, <1>8
<1>9. ASSUME NEW r \in mid PROVE r.res # 2 => \E q \in rows : q.res < 2 /\ q.ts = r.ts
  <2>1. CASE r \in rows
    BY <1>5, <2>1
  <2>2. CASE r \notin rows
    BY <1>5, <2>2
  <2>3. QED
    BY <2>1, <2>2
<1>10. ASSUME NEW r \in new, r.res < 1
       PROVE  r.ts >= time - raw /\ \E q \in rows : q.res < 1 /\ q.ts = r.ts
  <2>1. r.res = 0
    BY <1>7, <1>10
  <2>2. QED
    BY <1>8, <2>1
<1>11. \A r \in new \ rows : r.res = 1 => r \in mid \ rows
  BY <1>6
<1>12. Raised(rows, new, 1, Hour)
  BY <1>5, <1>10, <1>11 DEF Raised
<1>13. ASSUME NEW r \in new, r.res < 2
       PROVE  (raw <= hourly => r.ts >= time - hourly) /\ \E q \in rows : q.res < 2 /\ q.ts = r.ts
  <2>1. r.res = 0 \/ r.res = 1
    BY <1>7, <1>13
  <2>2. r \in mid /\ r.res # 2
    BY <1>6, <2>1
  <2>3. raw <= hourly => r.ts >= time - hourly
    BY <1>4, <1>6, <1>7, <1>8, <2>1
  <2>4. QED
    BY <1>9, <2>2, <2>3
<1>14. ASSUME NEW r \in new \ rows, r.res = 2
       PROVE  r \in new \ mid /\ \E q \in rows : q.res < 2 /\ q.ts = r.ts
  <2>1. r \in new \ mid
    BY <1>5, <1>14
  <2>2. PICK q \in mid : q.res = 1 /\ q.ts = r.ts
    BY <1>6, <2>1
  <2>3. PICK p \in rows : p.res < 2 /\ p.ts = q.ts
    BY <1>9, <2>2
  <2>4. QED
    BY <2>1, <2>2, <2>3
<1>15. Raised(rows, new, 2, Day)
  BY <1>6, <1>13, <1>14 DEF Raised
<1>16. ASSUME raw <= hourly
       PROVE  Thinned(rows, new, 1, Hour, time - raw) /\ Thinned(rows, new, 2, Day, time - hourly)
  <2>1. Thinned(rows, new, 1, Hour, time - raw)
    BY <1>5, <1>10, <1>11, <1>12 DEF Thinned
  <2>2. Thinned(rows, new, 2, Day, time - hourly)
    BY <1>6, <1>13, <1>14, <1>15, <1>16 DEF Thinned
  <2>3. QED
    BY <2>1, <2>2
<1>17. QED
  BY <1>8, <1>12, <1>15, <1>16

\* The clock and the preferences are numbers.
LEMMA Clocks ==
  ASSUME TypeOK
  PROVE  now \in Nat /\ pref \in Int /\ prefDisk \in Int /\ now \in Int
<1>1. now \in Nat
  BY Numbers DEF TypeOK
<1>2. pref \in -Interval..MaxTime /\ prefDisk \in -Interval..MaxTime
  BY DEF TypeOK
<1>3. QED
  BY <1>1, <1>2, Numbers

\* What is under way may end, or take its next step, while the clock stands still.
LEMMA RestTimed ==
  ASSUME Timed, now' = now, pref' = pref, prefDisk' \in {pref, prefDisk}, extra' \in Nat,
         maintenance' \subseteq maintenance,
         \A v \in Writers : (Working(v))' =>
           /\ Working(v) /\ writer'[v].ts = writer[v].ts
           /\ writer'[v].at \in {"upsert", "insert"} =>
                writer[v].at \in {"upsert", "insert"} /\ writer'[v].positions = writer[v].positions
  PROVE  Timed'
<1>1. pref' <= now' /\ prefDisk' <= now' /\ extra' \in Nat
  BY DEF Timed
<1>2. ASSUME NEW v \in Writers, (Working(v))'
      PROVE  /\ writer'[v].ts <= now' /\ now' <= writer'[v].ts + 1
             /\ writer'[v].at \in {"upsert", "insert"} => \A p \in writer'[v].positions : p.ts = writer'[v].ts
  BY <1>2 DEF Timed
<1>3. \A m \in maintenance' : m.time <= now' /\ now' <= m.time + 1 /\ m.time <= pref' + 1
  BY DEF Timed
<1>4. \A m, o \in maintenance' : ~m.again /\ ~o.again /\ m # o =>
        m.time + 1 >= o.time + Interval \/ o.time + 1 >= m.time + Interval
  BY Zenon DEF Timed
<1>5. QED
  BY <1>1, <1>2, <1>3, <1>4 DEF Timed

\* A step of one poll, or its end.
LEMMA OnePoll ==
  ASSUME TypeOK, NEW w \in Writers, Working(w),
         \/ Leave(w)
         \/ Goto(w, "save") \/ Goto(w, "finish")
         \/ Goto(w, "insert") /\ writer[w].at = "upsert"
  PROVE  \A v \in Writers :
           /\ (Working(v))' =>
                /\ Working(v) /\ writer'[v].ts = writer[v].ts
                /\ writer'[v].at \in {"upsert", "insert"} =>
                     writer[v].at \in {"upsert", "insert"} /\ writer'[v].positions = writer[v].positions
           /\ writer'[v].at = "save" => (v = w /\ Goto(w, "save")) \/ (writer[v].at = "save" /\ writer'[v].ts = writer[v].ts)
<1>1. CASE Leave(w)
  <2>1. writer'[w].at \in {"off", "idle"} /\ ~(Working(w))' /\ \A v \in Writers : v # w => writer'[v] = writer[v]
    BY <1>1, LeaveRests, RestHasNone
  <2>2. QED
    BY <2>1, SameWriter
<1>2. ASSUME NEW at \in {"insert", "finish", "save"}, Goto(w, at), at = "insert" => writer[w].at = "upsert"
      PROVE  \A v \in Writers :
               /\ (Working(v))' =>
                    /\ Working(v) /\ writer'[v].ts = writer[v].ts
                    /\ writer'[v].at \in {"upsert", "insert"} =>
                         writer[v].at \in {"upsert", "insert"} /\ writer'[v].positions = writer[v].positions
               /\ writer'[v].at = "save" =>
                    (v = w /\ at = "save") \/ (writer[v].at = "save" /\ writer'[v].ts = writer[v].ts)
  <2>1. /\ \A v \in Writers : v # w => writer'[v] = writer[v]
        /\ writer'[w].at = at /\ writer'[w].ts = writer[w].ts /\ writer'[w].positions = writer[w].positions
    BY <1>2, GotoKeeps
  <2>2. QED
    BY <1>2, <2>1, SameWriter
<1>3. CASE Goto(w, "save")
  BY <1>2, <1>3
<1>4. CASE Goto(w, "finish")
  BY <1>2, <1>4
<1>5. CASE Goto(w, "insert") /\ writer[w].at = "upsert"
  BY <1>2, <1>5
<1>6. QED
  BY <1>1, <1>3, <1>4, <1>5

LEMMA PollTimed ==
  ASSUME TypeOK, Timed, NEW w \in Writers
  PROVE  /\ Upsert(w) \/ Insert(w) \/ Finish(w) => Timed'
         /\ StartWriter(w) => Timed'
<1>1. extra \in Nat
  BY DEF Timed
<1>2. ASSUME Upsert(w) \/ Insert(w) \/ Finish(w) PROVE Timed'
  <2>1. UNCHANGED <<now, pref, prefDisk, maintenance, extra>>
    BY <1>2 DEF Upsert, Insert, Finish, prefs
  <2>2. /\ Working(w)
        /\ \/ Leave(w)
           \/ Goto(w, "save") \/ Goto(w, "finish")
           \/ Goto(w, "insert") /\ writer[w].at = "upsert"
    BY <1>2, InPoll DEF Upsert, Insert, Finish
  <2>3. \A v \in Writers : (Working(v))' =>
          /\ Working(v) /\ writer'[v].ts = writer[v].ts
          /\ writer'[v].at \in {"upsert", "insert"} =>
               writer[v].at \in {"upsert", "insert"} /\ writer'[v].positions = writer[v].positions
    BY <2>2, OnePoll
  <2>4. QED
    BY <1>1, <2>1, <2>3, RestTimed
<1>3. ASSUME StartWriter(w) PROVE Timed'
  <2>1. UNCHANGED <<now, pref, prefDisk, maintenance, extra>>
    BY <1>3 DEF StartWriter, prefs, budget
  <2>2. Idle.at = "idle"
    BY AtRest DEF TypeOK
  <2>3. ASSUME NEW v \in Writers, (Working(v))'
        PROVE  Working(v) /\ writer'[v] = writer[v]
    <3>1. CASE v = w
      BY <1>3, <2>2, <2>3, <3>1 DEF StartWriter, Working, TypeOK
    <3>2. CASE v # w
      BY <1>3, <2>3, <3>2 DEF StartWriter, Working, TypeOK
    <3>3. QED
      BY <3>1, <3>2
  <2>4. QED
    BY <1>1, <2>1, <2>3, RestTimed
<1>4. QED
  BY <1>2, <1>3

LEMMA FetchTimed ==
  ASSUME TypeOK, Timed, NEW w \in Writers, NEW p \in Places \cup {None}, Fetch(w, p)
  PROVE  Timed'
<1> DEFINE store == WorthStoring(lastStored[w], p)
           point == [ts |-> now, place |-> p]
           q == [at |-> "upsert", ts |-> now,
                 positions |-> IF store THEN {point} ELSE {}, seen |-> p]
<1>1. UNCHANGED <<now, pref, prefDisk, maintenance, extra>>
  BY DEF Fetch, prefs, budget
<1>2. writer' = [writer EXCEPT ![w] = q]
  BY DEF Fetch
<1>3. q.ts = now /\ \A o \in q.positions : o.ts = now
  <2> HIDE DEF store
  <2>1. QED
    OBVIOUS
<1> HIDE DEF q
<1>4. now \in Nat
  BY Clocks
<1>5. writer'[w] = q /\ \A v \in Writers : v # w => writer'[v] = writer[v]
  BY <1>2 DEF TypeOK
<1>6. ASSUME NEW v \in Writers, (Working(v))'
      PROVE  /\ writer'[v].ts <= now /\ now <= writer'[v].ts + 1
             /\ writer'[v].at \in {"upsert", "insert"} => \A o \in writer'[v].positions : o.ts = writer'[v].ts
  <2>1. CASE v = w
    BY <1>3, <1>4, <1>5, <2>1
  <2>2. CASE v # w
    BY <1>5, <1>6, <2>2 DEF Timed, Working
  <2>3. QED
    BY <2>1, <2>2
<1>7. QED
  BY <1>1, <1>6 DEF Timed

\* The maintenance a poll starts, of which it is known whether it was due.
LEMMA SaveStarts ==
  ASSUME TypeOK, NEW w \in Writers, Save(w)
  PROVE  /\ Working(w) /\ Leave(w) /\ writer[w].at = "save" /\ writer[w].ts \in Nat
         /\ pref' = writer[w].ts /\ UNCHANGED <<now, rows, prefDisk, missed, extra>>
         /\ \E m : /\ m.time = writer[w].ts /\ (~m.again => m.time >= pref + Interval)
                   /\ maintenance' = maintenance \cup {m}
<1>1. Working(w) /\ writer[w] \in Polls
  BY InPoll DEF Save
<1>2. PICK ts \in Nat : ts = writer[w].ts
  BY <1>1, Numbers, Zenon DEF Polls
<1>3. PICK again : again = ~Due(ts)
  OBVIOUS
<1>4. PICK m : m = [by |-> w, time |-> ts, again |-> again]
  OBVIOUS
<1>5. maintenance' = maintenance \cup {m}
  BY <1>2, <1>3, <1>4, Zenon DEF Save
<1>6. m.time = ts /\ m.again = again
  BY <1>4
<1>7. Due(ts) => ts >= pref + Interval
  BY Clocks, Numbers DEF Due
<1>8. ~m.again => m.time >= pref + Interval
  BY <1>3, <1>6, <1>7, Zenon
<1>9. QED
  BY <1>1, <1>2, <1>5, <1>6, <1>8 DEF Save, table, kept, budget

LEMMA SaveTimed == ASSUME TypeOK, Timed, NEW w \in Writers, Save(w) PROVE Timed'
<1>1. PICK ts \in Nat : ts = writer[w].ts
  BY SaveStarts
<1>2. Working(w) /\ Leave(w) /\ pref' = ts /\ UNCHANGED <<now, prefDisk, extra>>
  BY <1>1, SaveStarts
<1>3. PICK m : m.time = ts /\ (~m.again => m.time >= pref + Interval) /\ maintenance' = maintenance \cup {m}
  BY <1>1, SaveStarts
<1>4. ts <= now /\ now <= ts + 1 /\ now \in Nat /\ pref \in Int /\ Interval \in Nat
  BY <1>1, <1>2, Clocks, Numbers DEF Timed
<1>5. pref' <= now' /\ prefDisk' <= now' /\ extra' \in Nat
  BY <1>2, <1>4 DEF Timed
<1>6. ASSUME NEW v \in Writers, (Working(v))'
      PROVE  /\ writer'[v].ts <= now' /\ now' <= writer'[v].ts + 1
             /\ writer'[v].at \in {"upsert", "insert"} => \A p \in writer'[v].positions : p.ts = writer'[v].ts
  <2>1. /\ Working(v) /\ writer'[v].ts = writer[v].ts
        /\ writer'[v].at \in {"upsert", "insert"} =>
             writer[v].at \in {"upsert", "insert"} /\ writer'[v].positions = writer[v].positions
    BY <1>2, <1>6, OnePoll
  <2>2. QED
    BY <1>2, <2>1 DEF Timed
<1>7. \A o \in maintenance : o.time \in Nat /\ o.time <= now /\ now <= o.time + 1 /\ o.time <= pref + 1
  BY ThreadIs DEF Timed
<1>8. ASSUME NEW o \in maintenance' PROVE o.time <= now' /\ now' <= o.time + 1 /\ o.time <= pref' + 1
  BY <1>2, <1>3, <1>4, <1>7, <1>8
<1>9. ASSUME NEW o \in maintenance, ~m.again PROVE m.time + 1 >= o.time + Interval
  BY <1>3, <1>4, <1>7, <1>9
<1>10. ASSUME NEW o \in maintenance', NEW q \in maintenance', ~o.again, ~q.again, o # q
       PROVE  o.time + 1 >= q.time + Interval \/ q.time + 1 >= o.time + Interval
  <2>1. CASE o \in maintenance /\ q \in maintenance
    BY <1>10, <2>1, Zenon DEF Timed
  <2>2. CASE o = m /\ q \in maintenance
    BY <1>9, <1>10, <2>2, Zenon
  <2>3. CASE q = m /\ o \in maintenance
    BY <1>9, <1>10, <2>3, Zenon
  <2>4. QED
    BY <1>3, <1>10, <2>1, <2>2, <2>3, Zenon
<1>11. QED
  BY <1>5, <1>6, <1>8, <1>10 DEF Timed

LEMMA WorldTimed ==
  ASSUME TypeOK, Timed
  PROVE  /\ StopWriter => Timed'
         /\ Persist \/ MaintainOnRequest \/ (\E m \in maintenance : Maintain(m)) \/ UNCHANGED vars => Timed'
         /\ Crash => Timed'
         /\ Tick => Timed'
<1>1. prefDisk <= now /\ extra \in Nat /\ pref <= now
  BY DEF Timed
<1>2. now \in Nat /\ pref \in Int /\ prefDisk \in Int /\ \A m \in maintenance : m.time \in Nat
  BY Clocks, ThreadIs
<1>3. Off.at = "off"
  BY AtRest DEF TypeOK
<1>4. ASSUME StopWriter PROVE Timed'
  <2>1. UNCHANGED <<now, pref, prefDisk, maintenance, extra>>
    BY <1>4 DEF StopWriter, prefs
  <2>2. ASSUME NEW v \in Writers, (Working(v))' PROVE Working(v) /\ writer'[v] = writer[v]
    BY <1>3, <1>4, <2>2 DEF StopWriter, TypeOK, Working
  <2>3. QED
    BY <1>1, <2>1, <2>2, RestTimed
<1>5. ASSUME Persist \/ MaintainOnRequest \/ (\E m \in maintenance : Maintain(m)) \/ UNCHANGED vars
      PROVE  Timed'
  <2>1. UNCHANGED <<now, pref, writer>> /\ maintenance' \subseteq maintenance /\ prefDisk' \in {pref, prefDisk}
        /\ extra' \in {extra, extra + 1}
    BY <1>5 DEF Persist, MaintainOnRequest, Maintain, vars, prefs, budget
  <2>2. extra' \in Nat
    BY <1>1, <2>1
  <2>3. \A v \in Writers : (Working(v))' => Working(v) /\ writer'[v] = writer[v]
    BY <2>1 DEF Working
  <2>4. QED
    BY <2>1, <2>2, <2>3, RestTimed
<1>6. ASSUME Crash PROVE Timed'
  <2>1. now' = now /\ pref' = prefDisk /\ prefDisk' = prefDisk /\ extra' = extra + 1 /\ maintenance' = {}
    BY <1>6 DEF Crash
  <2>2. \A v \in Writers : ~ (Working(v))'
    BY <1>3, <1>6 DEF Crash, Working
  <2>3. prefDisk' <= now' /\ pref' <= now' /\ extra' \in Nat
    BY <1>1, <1>2, <2>1
  <2>4. QED
    BY <2>1, <2>2, <2>3 DEF Timed
<1>7. ASSUME Tick PROVE Timed'
  <2>1. /\ now' = now + 1 /\ UNCHANGED <<writer, pref, prefDisk, maintenance, extra>>
        /\ \A v \in Writers : Working(v) => writer[v].ts = now
        /\ \A m \in maintenance : m.time = now
    BY <1>7 DEF Tick, prefs, budget
  <2>2. pref' <= now' /\ prefDisk' <= now' /\ extra' \in Nat
    BY <1>1, <1>2, <2>1
  <2>3. ASSUME NEW v \in Writers, (Working(v))'
        PROVE  /\ writer'[v].ts <= now' /\ now' <= writer'[v].ts + 1
               /\ writer'[v].at \in {"upsert", "insert"} => \A p \in writer'[v].positions : p.ts = writer'[v].ts
    BY <1>2, <2>1, <2>3 DEF Timed, Working
  <2>4. \A m \in maintenance' : m.time <= now' /\ now' <= m.time + 1 /\ m.time <= pref' + 1
    BY <1>2, <2>1 DEF Timed
  <2>5. \A m, o \in maintenance' : ~m.again /\ ~o.again /\ m # o =>
          m.time + 1 >= o.time + Interval \/ o.time + 1 >= m.time + Interval
    BY <2>1, Zenon DEF Timed
  <2>6. QED
    BY <2>2, <2>3, <2>4, <2>5 DEF Timed
<1>8. QED
  BY <1>4, <1>5, <1>6, <1>7

LEMMA Timing == TypeOK /\ Timed /\ [Next]_vars => Timed'
BY PollTimed, FetchTimed, SaveTimed, WorldTimed DEF Next


\* Points come too late for the last maintenance only if it was due before their poll.
LEMMA LateRows ==
  ASSUME TypeOK, Timed, NEW w \in Writers, Insert(w), NEW r \in rows', r \notin rows
  PROVE  r.res = 0 /\ r.ts \in Nat /\ now <= r.ts + 1
<1>1. Working(w) /\ writer[w] \in Polls /\ writer[w].at \in {"upsert", "insert"}
  BY InPoll DEF Insert
<1>2. PICK p \in writer[w].positions : r = [ts |-> p.ts, res |-> 0]
  BY DEF Insert, New
<1>3. p.ts = writer[w].ts /\ now <= writer[w].ts + 1
  BY <1>1 DEF Timed
<1>4. writer[w].ts \in Nat
  BY <1>1, Numbers, Zenon DEF Polls
<1>5. QED
  BY <1>2, <1>3, <1>4

\* A poll that is about to save its time was so before, or found maintenance due.
Saving(v) == writer'[v].at = "save" =>
  \/ writer[v].at = "save" /\ writer'[v].ts = writer[v].ts
  \/ Due(writer'[v].ts)

LEMMA PollSaves ==
  ASSUME TypeOK, NEW w \in Writers, Upsert(w) \/ Insert(w) \/ Finish(w) \/ Save(w)
  PROVE  \A v \in Writers : Saving(v)
<1>1. /\ Working(w)
      /\ \/ Leave(w)
         \/ Goto(w, "save") \/ Goto(w, "finish")
         \/ Goto(w, "insert") /\ writer[w].at = "upsert"
  BY InPoll DEF Upsert, Insert, Finish, Save
<1>2. ASSUME NEW v \in Writers, writer'[v].at = "save"
      PROVE  (v = w /\ Goto(w, "save")) \/ (writer[v].at = "save" /\ writer'[v].ts = writer[v].ts)
  BY <1>1, <1>2, OnePoll
<1>3. ASSUME Goto(w, "save"), writer'[w].at = "save" PROVE Due(writer'[w].ts)
  <2>1. writer'[w].ts = writer[w].ts
    BY <1>1, <1>3, GotoKeeps
  <2>2. ASSUME NEW at \in {"insert", "finish"}, Goto(w, at) PROVE FALSE
    <3>1. writer'[w].at = at
      BY <1>1, <2>2, GotoKeeps
    <3>2. QED
      BY <1>3, <3>1
  <2>3. ~Leave(w)
    BY <1>3, LeaveRests
  <2>4. Due(writer[w].ts)
    BY <2>2, <2>3 DEF Upsert, Insert, Finish, Save
  <2>5. QED
    BY <2>1, <2>4
<1>4. QED
  BY <1>2, <1>3 DEF Saving

\* Which steps leave the rows alone, and which of those the maintenance.
LEMMA Kinds ==
  ASSUME TypeOK, [Next]_vars
  PROVE  \/ /\ UNCHANGED <<rows, pref, maintenance, missed, extra>> /\ prefDisk' \in {pref, prefDisk}
            /\ now' = now \/ Tick
            /\ \A v \in Writers : Saving(v)
         \/ \E w \in Writers : Insert(w)
         \/ \E w \in Writers : Save(w)
         \/ \E m \in maintenance : Maintain(m)
         \/ MaintainOnRequest
         \/ Crash
<1>1. ASSUME \A v \in Writers : writer'[v] = writer[v] \/ writer'[v].at # "save" PROVE \A v \in Writers : Saving(v)
  BY <1>1 DEF Saving
<1>2. CASE UNCHANGED vars
  BY <1>1, <1>2 DEF vars, table, prefs, kept, budget
<1>3. Off.at = "off" /\ Idle.at = "idle"
  BY AtRest DEF TypeOK
<1>4. ASSUME NEW w \in Writers, StartWriter(w)
      PROVE UNCHANGED <<rows, pref, prefDisk, maintenance, missed, extra, now>> /\ \A v \in Writers : Saving(v)
  <2>1. \A v \in Writers : writer'[v] = writer[v] \/ writer'[v].at # "save"
    BY <1>3, <1>4 DEF StartWriter, TypeOK
  <2>2. QED
    BY <1>1, <1>4, <2>1 DEF StartWriter, table, prefs, kept, budget
<1>5. ASSUME NEW w \in Writers, Upsert(w) \/ Finish(w)
      PROVE UNCHANGED <<rows, pref, prefDisk, maintenance, missed, extra, now>> /\ \A v \in Writers : Saving(v)
  <2>1. UNCHANGED <<rows, pref, prefDisk, maintenance, missed, extra, now>>
    BY <1>5 DEF Upsert, Finish, table, prefs, kept
  <2>2. QED
    BY <1>5, <2>1, PollSaves
<1>6. ASSUME NEW w \in Writers, NEW p \in Places \cup {None}, Fetch(w, p)
      PROVE UNCHANGED <<rows, pref, prefDisk, maintenance, missed, extra, now>> /\ \A v \in Writers : Saving(v)
  <2>1. \A v \in Writers : writer'[v] = writer[v] \/ writer'[v].at # "save"
    BY <1>6 DEF Fetch, TypeOK
  <2>2. QED
    BY <1>1, <1>6, <2>1 DEF Fetch, table, prefs, kept, budget
<1>7. ASSUME StopWriter
      PROVE UNCHANGED <<rows, pref, prefDisk, maintenance, missed, extra, now>> /\ \A v \in Writers : Saving(v)
  <2>1. \A v \in Writers : writer'[v] = writer[v] \/ writer'[v].at # "save"
    BY <1>3, <1>7 DEF StopWriter, TypeOK
  <2>2. QED
    BY <1>1, <1>7, <2>1 DEF StopWriter, table, prefs, kept
<1>8. ASSUME Persist \/ Tick
      PROVE /\ UNCHANGED <<rows, pref, maintenance, missed, extra>> /\ prefDisk' \in {pref, prefDisk}
            /\ now' = now \/ Tick
            /\ \A v \in Writers : Saving(v)
  BY <1>1, <1>8 DEF Persist, Tick, table, prefs, kept, budget
<1>9. QED
  BY <1>2, <1>4, <1>5, <1>6, <1>7, <1>8 DEF Next

LEMMA RawGoes == TypeOK /\ Timed /\ RawGo /\ [Next]_vars => RawGo'
<1> SUFFICES ASSUME TypeOK, Timed, RawGo, [Next]_vars PROVE RawGo'
  OBVIOUS
<1>1. now \in Nat /\ pref \in Int /\ prefDisk \in Int /\ pref <= now /\ prefDisk <= now /\ Raw \in Nat \ {0}
  BY Clocks, Numbers DEF Timed
<1>2. \A r \in rows : r.ts \in Nat
  BY RowIs DEF TypeOK
<1>3. CASE UNCHANGED <<rows, pref, maintenance, missed>> /\ prefDisk' \in {pref, prefDisk}
  BY <1>3 DEF RawGo, Awaited
<1>4. ASSUME NEW w \in Writers, Insert(w) PROVE RawGo'
  <2>1. UNCHANGED <<pref, prefDisk, maintenance, missed>>
    BY <1>4 DEF Insert, prefs, kept
  <2>2. \A r \in rows' \ rows : r.ts \in Nat /\ now <= r.ts + 1
    BY <1>4, LateRows
  <2>3. \A r \in rows' \ rows : ~ (r.ts < pref - Raw) /\ ~ (r.ts < prefDisk - Raw)
    BY <1>1, <2>2
  <2>4. QED
    BY <2>1, <2>3 DEF RawGo, Awaited
<1>5. ASSUME NEW w \in Writers, Save(w) PROVE RawGo'
  <2>1. PICK m : m.time = pref' /\ maintenance' = maintenance \cup {m}
    BY <1>5, SaveStarts
  <2>2. UNCHANGED <<rows, prefDisk, missed>> /\ pref' \in Nat
    BY <1>5, SaveStarts
  <2>3. ASSUME Awaited(prefDisk) PROVE Awaited(prefDisk)'
    BY <2>1, <2>2, <2>3 DEF Awaited
  <2>4. ASSUME NEW r \in rows', r.res = 0, NEW p \in {pref', prefDisk'}, r.ts < p - Raw PROVE Awaited(p)'
    <3>1. CASE p = prefDisk
      BY <2>2, <2>3, <2>4, <3>1 DEF RawGo
    <3>2. CASE p = pref'
      BY <2>1, <2>2, <3>2 DEF Awaited
    <3>3. QED
      BY <2>2, <2>4, <3>1, <3>2
  <2>5. QED
    BY <2>4 DEF RawGo, Awaited
<1>6. ASSUME NEW m \in maintenance, Maintain(m) PROVE RawGo'
  <2>1. maintenance' = maintenance \ {m} /\ UNCHANGED <<pref, prefDisk>>
    BY <1>6 DEF Maintain, prefs
  <2>2. m.time \in Nat
    BY ThreadIs
  <2>3. SUFFICES ASSUME NEW p \in {pref, prefDisk}, NEW r \in rows', r.res = 0, r.ts < p - Raw PROVE Awaited(p)'
    BY <2>1 DEF RawGo, Awaited
  <2>4. p \in Int
    BY <1>1
  <2>5. CASE missed' = missed \cup {m.time} /\ UNCHANGED rows
    <3>1. Awaited(p)
      BY <2>3, <2>5 DEF RawGo
    <3>2. QED
      BY <2>1, <2>5, <3>1 DEF Awaited
  <2>6. CASE Thinning(m.time, Raw, Hourly) /\ missed' = {time \in missed : time > m.time}
    <3>1. r \in rows /\ r.ts >= m.time - Raw /\ r.ts \in Nat
      <4>1. rows' = Maintained(m.time, Raw, Hourly) /\ m.time \in Int /\ Raw \in Int /\ Hourly \in Int
        BY <2>2, <2>6, Numbers DEF Thinning
      <4>2. r \in rows /\ r.ts >= m.time - Raw
        BY <2>3, <4>1, MaintainedThins
      <4>3. QED
        BY <1>2, <4>2
    <3>2. m.time < p
      BY <1>1, <2>2, <2>3, <2>4, <3>1
    <3>3. PICK time \in missed \cup {o.time : o \in maintenance} : time >= p
      BY <2>3, <3>1 DEF RawGo, Awaited
    <3>4. CASE time \in missed
      <4>1. time \in Nat
        BY <3>4, Numbers, Zenon DEF TypeOK
      <4>2. time > m.time
        BY <2>2, <2>4, <3>2, <3>3, <4>1
      <4>3. QED
        BY <2>6, <3>3, <3>4, <4>2 DEF Awaited
    <3>5. ASSUME NEW o \in maintenance, time = o.time PROVE Awaited(p)'
      <4>1. o # m
        BY <2>2, <2>4, <3>2, <3>3, <3>5
      <4>2. QED
        BY <2>1, <3>3, <3>5, <4>1 DEF Awaited
    <3>6. QED
      BY <3>3, <3>4, <3>5
  <2>7. QED
    BY <1>6, <2>5, <2>6 DEF Maintain
<1>7. ASSUME MaintainOnRequest PROVE RawGo'
  <2>1. UNCHANGED <<pref, prefDisk, maintenance, missed>>
    BY <1>7 DEF MaintainOnRequest, prefs
  <2>2. PICK raw \in Ages \cup {Raw}, hourly \in Ages \cup {Hourly} : rows' = Maintained(now, raw, hourly)
    BY <1>7 DEF MaintainOnRequest, Thinning
  <2>3. raw \in Int /\ hourly \in Int /\ now \in Int
    BY <1>1, Numbers
  <2>4. \A r \in rows' : r.res = 0 => r \in rows
    BY <2>2, <2>3, MaintainedThins
  <2>5. QED
    BY <2>1, <2>4 DEF RawGo, Awaited
<1>8. ASSUME Crash PROVE RawGo'
  <2>1. /\ rows' = rows /\ pref' = prefDisk /\ prefDisk' = prefDisk
        /\ missed' = missed \cup {m.time : m \in maintenance}
    BY <1>8 DEF Crash, table
  <2>2. Awaited(prefDisk) => Awaited(prefDisk)'
    BY <2>1 DEF Awaited
  <2>3. QED
    BY <2>1, <2>2 DEF RawGo, Awaited
<1>9. QED
  BY <1>3, <1>4, <1>5, <1>6, <1>7, <1>8, Kinds


LEMMA BasesAre == TypeOK => Bases \subseteq Int
<1> SUFFICES ASSUME TypeOK PROVE Bases \subseteq Int
  OBVIOUS
<1>1. pref \in Int
  BY Clocks
<1>2. ASSUME NEW v \in Writers, writer[v].at = "save" PROVE writer[v].ts \in Int
  <2>1. writer[v] \in Polls
    BY <1>2, InPoll
  <2>2. writer[v].ts \in Nat
    BY <2>1, Numbers, Zenon DEF Polls
  <2>3. QED
    BY <2>2
<1>3. QED
  BY <1>1, <1>2 DEF Bases

\* No time from which maintenance is counted lies before those there are.
LEMMA BasesKept ==
  ASSUME TypeOK, TypeOK', pref' \in Bases, \A v \in Writers : Saving(v), NEW p \in Bases'
  PROVE  \E q \in Bases : q <= p
<1>1. CASE p = pref'
  <2>1. pref' \in Int
    BY BasesAre
  <2>2. QED
    BY <1>1, <2>1
<1>2. ASSUME NEW v \in Writers, writer'[v].at = "save", p = writer'[v].ts PROVE \E q \in Bases : q <= p
  <2>1. (TypeOK => Bases \subseteq Int)'
    BY BasesAre, PTL
  <2>2. p \in Int
    BY <2>1
  <2>3. CASE writer[v].at = "save" /\ writer'[v].ts = writer[v].ts
    <3>1. p \in Bases
      BY <1>2, <2>3 DEF Bases
    <3>2. QED
      BY <2>2, <3>1
  <2>4. CASE Due(p)
    <3>1. pref <= p
      BY <2>2, <2>4, Clocks, Numbers DEF Due
    <3>2. QED
      BY <3>1 DEF Bases
  <2>5. QED
    BY <1>2, <2>3, <2>4 DEF Saving
<1>3. QED
  BY <1>1, <1>2 DEF Bases

\* A thread of maintenance is not later than these times, or by a tick only.
LEMMA BasesLate ==
  ASSUME TypeOK, Timed, NEW p \in Bases, NEW m \in maintenance
  PROVE  m.time <= p + 1
<1>1. m.time <= now /\ m.time <= pref + 1 /\ m.time \in Nat /\ now \in Nat
  BY Clocks, ThreadIs DEF Timed
<1>2. ASSUME NEW v \in Writers, writer[v].at = "save", p = writer[v].ts PROVE m.time <= p + 1
  <2>1. Working(v)
    BY <1>2, InPoll
  <2>2. now <= p + 1
    BY <1>2, <2>1 DEF Timed
  <2>3. p \in Int
    BY BasesAre
  <2>4. QED
    BY <1>1, <2>2, <2>3
<1>3. QED
  BY <1>1, <1>2 DEF Bases

\* What is still to cut a bucket was to cut it before.
LEMMA CutRest ==
  ASSUME TypeOK, TypeOK', NEW size \in Nat \ {0}, NEW keep \in Nat, NEW b \in Nat,
         \A p \in Bases' : \E q \in Bases : q <= p,
         \A m \in maintenance' : ~m.again => m \in maintenance \/ \E q \in Bases : q + Interval <= m.time
  PROVE  Cut(size, keep, b)' => Cut(size, keep, b)
<1>1. PICK end \in Int : end = (b + 1) * size + keep
  BY InBucket
<1>2. Bases \subseteq Int /\ Interval \in Nat
  BY BasesAre, Numbers
<1>3. ASSUME NEW p \in Bases', p + Interval < end PROVE Cut(size, keep, b)
  <2>1. PICK q \in Bases : q <= p
    OBVIOUS
  <2>2. p \in Int
    <3>1. (TypeOK => Bases \subseteq Int)'
      BY BasesAre, PTL
    <3>2. QED
      BY <3>1
  <2>3. q + Interval < end
    BY <1>1, <1>2, <1>3, <2>1, <2>2
  <2>4. QED
    BY <1>1, <2>3 DEF Cut
<1>4. ASSUME NEW m \in maintenance', ~m.again, b * size + keep < m.time, m.time < end PROVE Cut(size, keep, b)
  <2>1. CASE m \in maintenance
    BY <1>1, <1>4, <2>1 DEF Cut
  <2>2. ASSUME NEW q \in Bases, q + Interval <= m.time PROVE Cut(size, keep, b)
    <3>1. m.time \in Int
      <4>1. maintenance' \subseteq [by : Writers, time : Times, again : BOOLEAN]
        BY DEF TypeOK
      <4>2. m.time \in Times
        BY <4>1
      <4>3. m.time \in Nat
        BY <4>2, Numbers, Zenon
      <4>4. QED
        BY <4>3
    <3>2. q + Interval < end
      BY <1>1, <1>2, <1>4, <2>2, <3>1
    <3>3. QED
      BY <1>1, <3>2 DEF Cut
  <2>3. QED
    BY <1>4, <2>1, <2>2
<1>5. QED
  BY <1>1, <1>3, <1>4 DEF Cut

\* A bucket of a tier, as long as no maintenance runs: it stays what it is, and what
\* comes later comes before its end.
LEMMA FewRest ==
  ASSUME TypeOK, NEW k \in {1, 2}, NEW size \in Nat \ {0}, NEW keep \in Nat, Few(k, size, keep),
         \A r : r.res # 0 => (r \in rows' <=> r \in rows),
         \A r \in rows' : r \in rows \/ (r.res = 0 /\ r.ts \in Nat /\ now <= r.ts + 1),
         now' \in Nat, now' >= now, extra' = extra,
         \A b \in Nat : Cut(size, keep, b)' => Cut(size, keep, b)
  PROVE  Few(k, size, keep)'
<1>1. SUFFICES ASSUME NEW b \in Nat
      PROVE  Tier(k, size, b)' = Tier(k, size, b) /\ (MayGrow(k, size, b)' => MayGrow(k, size, b))
  BY Zenon DEF Few
<1>2. b * size \in Int /\ (b + 1) * size \in Int /\ (b + 1) * size = b * size + size
      /\ \A x \in Int : x \div size = b <=> b * size <= x /\ x < (b + 1) * size
  BY InBucket, Zenon
<1>3. now \in Nat
  BY Clocks
<1>4. Tier(k, size, b)' = Tier(k, size, b)
  BY DEF Tier
<1>5. ASSUME MayGrow(k, size, b)' PROVE MayGrow(k, size, b)
  <2>1. CASE now' <= (b + 1) * size
    BY <1>2, <1>3, <2>1 DEF MayGrow
  <2>2. ASSUME NEW r \in rows', r.res < k, r.ts \div size = b PROVE MayGrow(k, size, b)
    <3>1. CASE r \in rows
      BY <2>2, <3>1 DEF MayGrow
    <3>2. CASE r.ts \in Nat /\ now <= r.ts + 1
      <4>1. r.ts < (b + 1) * size
        <5>1. r.ts \in Int
          BY <3>2
        <5>2. QED
          BY <1>2, <2>2, <5>1, Zenon
      <4>2. now <= (b + 1) * size
        BY <1>2, <1>3, <3>2, <4>1, SMTT(60)
      <4>3. QED
        BY <4>2 DEF MayGrow
    <3>3. QED
      BY <3>1, <3>2
  <2>3. QED
    BY <1>5, <2>1, <2>2 DEF MayGrow
<1>6. QED
  BY <1>4, <1>5, Zenon

\* How a maintenance changes a bucket: it gives it at most one row, and none that
\* did not come from a lower tier.
Grows(k, size, b, n, m) ==
  /\ m <= n + 1
  /\ m <= n \/ (MayGrow(k, size, b) /\ \E r \in rows' \ rows : r.res = k /\ r.ts \div size = b)
  /\ MayGrow(k, size, b)' => MayGrow(k, size, b)

LEMMA Grown ==
  ASSUME TypeOK, TypeOK', NEW k \in {1, 2}, NEW size \in Nat \ {0}, NEW b \in Nat,
         Raised(rows, rows', k, size), now' = now
  PROVE  \E n, m \in Nat : /\ n = Cardinality(Tier(k, size, b)) /\ m = Cardinality(Tier(k, size, b)')
                           /\ Grows(k, size, b, n, m)
<1>1. PICK A : A = Tier(k, size, b)
  OBVIOUS
<1>2. PICK B : B = Tier(k, size, b)'
  OBVIOUS
<1>3. rows \in SUBSET [ts : Times, res : 0..2] /\ rows' \in SUBSET [ts : Times, res : 0..2]
  BY DEF TypeOK
<1>4. A \in SUBSET rows /\ B \in SUBSET rows'
  BY <1>1, <1>2 DEF Tier
<1>5. IsFiniteSet(A) /\ Cardinality(A) \in Nat /\ IsFiniteSet(B) /\ Cardinality(B) \in Nat
  <2>1. IsFiniteSet(A) /\ Cardinality(A) \in Nat
    BY <1>3, <1>4, TierIsFinite, Zenon
  <2>2. IsFiniteSet(B) /\ Cardinality(B) \in Nat
    BY <1>3, <1>4, TierIsFinite, Zenon
  <2>3. QED
    BY <2>1, <2>2
<1>6. \A r \in B : r \in rows' /\ r.res = k /\ r.ts \div size = b /\ (r \in rows => r \in A)
  BY <1>1, <1>2 DEF Tier
<1>7. Cardinality(B) <= Cardinality(A) + 1 /\ (Cardinality(B) <= Cardinality(A) \/ \E r \in B : r \notin A)
  <2>1. CASE B \subseteq A
    <3>1. Cardinality(B) <= Cardinality(A)
      BY <1>5, <2>1, FS_Subset
    <3>2. QED
      BY <1>5, <3>1
  <2>2. CASE ~ (B \subseteq A)
    <3>1. PICK x \in B : x \notin A
      BY <2>2
    <3>2. \A r \in B : r \notin A => r = x
      BY <1>6, <3>1 DEF Raised
    <3>3. B \subseteq A \cup {x}
      BY <3>2
    <3>4. Cardinality(B) <= Cardinality(A) + 1
      BY <1>5, <3>3, OneMore, Zenon
    <3>5. QED
      BY <3>1, <3>4
  <2>3. QED
    BY <2>1, <2>2
<1>8. ASSUME NEW r \in B, r \notin A
      PROVE  MayGrow(k, size, b) /\ \E q \in rows' \ rows : q.res = k /\ q.ts \div size = b
  <2>1. r \in rows' \ rows /\ r.res = k /\ r.ts \div size = b
    BY <1>6, <1>8
  <2>2. \E q \in rows : q.res < k /\ q.ts = r.ts
    BY <2>1 DEF Raised
  <2>3. QED
    BY <2>1, <2>2 DEF MayGrow
<1>9. ASSUME MayGrow(k, size, b)' PROVE MayGrow(k, size, b)
  <2>1. \A r \in rows' : r.res < k => \E q \in rows : q.res < k /\ q.ts = r.ts
    BY DEF Raised
  <2>2. QED
    BY <1>9, <2>1 DEF MayGrow
<1>10. Grows(k, size, b, Cardinality(A), Cardinality(B))
  BY <1>7, <1>8, <1>9 DEF Grows
<1>11. QED
  BY <1>1, <1>2, <1>5, <1>10

\* Of the maintenance that is due one run cuts a bucket that may grow: two of them lie
\* an interval apart, or a tick less, and no bucket is longer than that.
LEMMA FewMaintained ==
  ASSUME TypeOK, TypeOK', Timed, NEW k \in {1, 2}, NEW size \in Nat \ {0}, size <= Interval,
         NEW keep \in Nat \ {0}, Few(k, size, keep), NEW m \in maintenance, ~m.again,
         Thinned(rows, rows', k, size, m.time - keep), UNCHANGED <<now, extra>>,
         Bases' = Bases, maintenance' = maintenance \ {m}
  PROVE  Few(k, size, keep)'
<1>1. SUFFICES ASSUME NEW b \in Nat
      PROVE  /\ Cardinality(Tier(k, size, b)') <= 2 + extra
             /\ MayGrow(k, size, b)' => Cardinality(Tier(k, size, b)') <= 1 + extra
             /\ MayGrow(k, size, b)' /\ Cut(size, keep, b)' => Cardinality(Tier(k, size, b)') <= extra
  BY DEF Few
<1>2. PICK start \in Int, end \in Int :
        /\ start = b * size /\ end = (b + 1) * size /\ end = start + size
        /\ \A x \in Int : x \div size = b <=> start <= x /\ x < end
  BY InBucket
<1>3. /\ now \in Nat /\ extra \in Nat /\ m.time \in Nat /\ Interval \in Nat
      /\ m.time <= now
  BY Clocks, ThreadIs, Numbers DEF Timed
<1>4. PICK cutoff \in Int : cutoff = m.time - keep /\ m.time = cutoff + keep
  BY <1>3
<1>5. \A r \in rows' : r.ts \in Int
  BY RowIs DEF TypeOK
<1>6. PICK n \in Nat, o \in Nat :
        n = Cardinality(Tier(k, size, b)) /\ o = Cardinality(Tier(k, size, b)') /\ Grows(k, size, b, n, o)
  BY Grown DEF Thinned
<1>7. /\ n <= 2 + extra
      /\ MayGrow(k, size, b) => n <= 1 + extra
      /\ MayGrow(k, size, b) /\ Cut(size, keep, b) => n <= extra
  BY <1>6 DEF Few
<1>8. Cut(size, keep, b)' => Cut(size, keep, b)
  BY DEF Cut
<1>9. ASSUME ~ (o <= n) PROVE o <= n + 1 /\ cutoff > start /\ MayGrow(k, size, b)
  <2>1. PICK r \in rows' \ rows : r.res = k /\ r.ts \div size = b
    BY <1>6, <1>9 DEF Grows
  <2>2. r.ts < cutoff
    BY <1>4, <2>1 DEF Thinned
  <2>3. start <= r.ts
    BY <1>2, <1>5, <2>1
  <2>4. QED
    BY <1>2, <1>5, <1>6, <1>9, <2>1, <2>2, <2>3 DEF Grows
<1>10. ASSUME MayGrow(k, size, b)' PROVE cutoff < end
  <2>1. CASE now <= end
    BY <1>3, <1>4, <2>1
  <2>2. ASSUME NEW r \in rows', r.res < k, r.ts \div size = b PROVE cutoff < end
    <3>1. r.ts >= cutoff
      BY <1>4, <2>2 DEF Thinned
    <3>2. r.ts < end
      BY <1>2, <1>5, <2>2
    <3>3. QED
      BY <1>5, <3>1, <3>2
  <2>3. QED
    BY <1>2, <1>10, <2>1, <2>2 DEF MayGrow
<1>11. ASSUME cutoff > start, cutoff < end PROVE Cut(size, keep, b)
  <2>1. start + keep < m.time /\ m.time < end + keep
    BY <1>4, <1>11
  <2>2. QED
    BY <1>2, <2>1 DEF Cut
<1>12. o <= 2 + extra
  BY <1>3, <1>7, <1>9
<1>13. ASSUME MayGrow(k, size, b)' PROVE o <= 1 + extra
  <2>1. MayGrow(k, size, b) /\ cutoff < end
    BY <1>6, <1>10, <1>13 DEF Grows
  <2>2. QED
    BY <1>3, <1>7, <1>9, <1>11, <2>1
<1>14. ASSUME Cut(size, keep, b)', cutoff > start, cutoff < end PROVE FALSE
  <2>1. ASSUME NEW p \in Bases, p + Interval < end + keep PROVE FALSE
    <3>1. m.time <= p + 1
      BY BasesLate
    <3>2. p \in Int
      BY BasesAre
    <3>3. QED
      BY <1>2, <1>3, <1>4, <1>14, <2>1, <3>1, <3>2
  <2>2. ASSUME NEW q \in maintenance, q # m, ~q.again, start + keep < q.time, q.time < end + keep PROVE FALSE
    <3>1. q.time + 1 >= m.time + Interval \/ m.time + 1 >= q.time + Interval
      BY <2>2, Zenon DEF Timed
    <3>2. PICK t \in Nat : t = q.time
      BY ThreadIs
    <3>3. t + 1 >= cutoff + keep + Interval \/ cutoff + keep + 1 >= t + Interval
      BY <1>4, <3>1, <3>2
    <3>4. start + keep < t /\ t < start + size + keep /\ start < cutoff /\ cutoff < start + size
      BY <1>2, <1>14, <2>2, <3>2
    <3>5. QED
      BY <1>3, <3>3, <3>4
  <2>3. QED
    BY <1>2, <1>14, <2>1, <2>2 DEF Cut
<1>15. ASSUME MayGrow(k, size, b)', Cut(size, keep, b)' PROVE o <= extra
  <2>1. MayGrow(k, size, b) /\ cutoff < end
    BY <1>6, <1>10, <1>15 DEF Grows
  <2>2. ~ (cutoff > start)
    BY <1>14, <1>15, <2>1
  <2>3. o <= n /\ n <= extra
    BY <1>7, <1>8, <1>9, <1>15, <2>1, <2>2
  <2>4. QED
    BY <1>3, <2>3
<1>16. QED
  BY <1>6, <1>12, <1>13, <1>15

\* A maintenance that was not due may come at any time, and is counted.
LEMMA FewRequested ==
  ASSUME TypeOK, TypeOK', NEW k \in {1, 2}, NEW size \in Nat \ {0}, NEW keep \in Nat,
         Few(k, size, keep), Raised(rows, rows', k, size),
         extra \in Nat, extra' = extra + 1, UNCHANGED now,
         \A b \in Nat : Cut(size, keep, b)' => Cut(size, keep, b)
  PROVE  Few(k, size, keep)'
<1>1. SUFFICES ASSUME NEW b \in Nat
      PROVE  /\ Cardinality(Tier(k, size, b)') <= 2 + (extra + 1)
             /\ MayGrow(k, size, b)' => Cardinality(Tier(k, size, b)') <= 1 + (extra + 1)
             /\ MayGrow(k, size, b)' /\ Cut(size, keep, b) => Cardinality(Tier(k, size, b)') <= extra + 1
  BY DEF Few
<1>2. PICK n \in Nat, m \in Nat :
        n = Cardinality(Tier(k, size, b)) /\ m = Cardinality(Tier(k, size, b)') /\ Grows(k, size, b, n, m)
  BY Grown
<1>3. m <= n + 1 /\ (MayGrow(k, size, b)' => MayGrow(k, size, b))
  BY <1>2 DEF Grows
<1>4. /\ n <= 2 + extra
      /\ MayGrow(k, size, b) => n <= 1 + extra
      /\ MayGrow(k, size, b) /\ Cut(size, keep, b) => n <= extra
  BY <1>2 DEF Few
<1>5. m <= 2 + (extra + 1) /\ (n <= 1 + extra => m <= 1 + (extra + 1)) /\ (n <= extra => m <= extra + 1)
  BY <1>3, <1>4
<1>6. QED
  BY <1>2, <1>3, <1>4, <1>5

\* A crash may forget the last maintenance, and is counted.
LEMMA FewCrashed ==
  ASSUME TypeOK, NEW k \in {1, 2}, NEW size \in Nat \ {0}, NEW keep \in Nat,
         Few(k, size, keep), extra \in Nat, extra' = extra + 1, UNCHANGED <<rows, now>>
  PROVE  Few(k, size, keep)'
<1>1. SUFFICES ASSUME NEW b \in Nat
      PROVE  /\ Cardinality(Tier(k, size, b)) <= 2 + (extra + 1)
             /\ MayGrow(k, size, b) => Cardinality(Tier(k, size, b)) <= extra + 1
  <2>1. \A b \in Nat : Tier(k, size, b)' = Tier(k, size, b) /\ (MayGrow(k, size, b)' => MayGrow(k, size, b))
    BY DEF Tier, MayGrow
  <2>2. \A i \in Nat : i <= extra + 1 => i <= 1 + (extra + 1)
    OBVIOUS
  <2>3. \A b \in Nat : Cardinality(Tier(k, size, b)) \in Nat
    <3>1. \A b \in Nat : Tier(k, size, b) \in SUBSET rows
      BY DEF Tier
    <3>2. rows \in SUBSET [ts : Times, res : 0..2]
      BY DEF TypeOK
    <3>3. QED
      BY <3>1, <3>2, TierIsFinite, Zenon
  <2>4. QED
    BY <1>1, <2>1, <2>2, <2>3 DEF Few
<1>2. Tier(k, size, b) \in SUBSET rows /\ rows \in SUBSET [ts : Times, res : 0..2]
  BY DEF Tier, TypeOK
<1>3. PICK n \in Nat : n = Cardinality(Tier(k, size, b))
  BY <1>2, TierIsFinite, Zenon
<1>4. n <= 2 + extra /\ (MayGrow(k, size, b) => n <= 1 + extra)
  BY <1>3 DEF Few
<1>5. n <= 2 + (extra + 1) /\ (n <= 1 + extra => n <= extra + 1)
  BY <1>4
<1>6. QED
  BY <1>3, <1>4, <1>5

\* The sizes of the buckets, and how long the rows below them are kept.
LEMMA Sizes ==
  /\ Hour \in Nat \ {0} /\ Hour <= Interval /\ Raw \in Nat \ {0}
  /\ Day \in Nat \ {0} /\ Day <= Interval /\ Hourly \in Nat \ {0}
<1>1. PICK k \in Nat \ {0} : Day = k * Hour
  BY HoursOfADay
<1>2. Hour \in Nat \ {0} /\ Day \in Nat \ {0} /\ Day <= Interval /\ Interval \in Nat
  BY Numbers
<1>3. Hour <= k * Hour
  <2>1. ASSUME NEW x \in Nat \ {0}, NEW y \in Nat \ {0} PROVE x <= y * x
    BY SMT
  <2>2. QED
    BY <1>1, <1>2, <2>1
<1>4. QED
  BY <1>1, <1>2, <1>3, Numbers

\* What each kind of maintenance makes of a tier.
Thins(k, size, keep) ==
  /\ \A m \in maintenance : Thinning(m.time, Raw, Hourly) =>
       Thinned(rows, rows', k, size, m.time - keep) /\ Raised(rows, rows', k, size)
  /\ MaintainOnRequest => Raised(rows, rows', k, size)

LEMMA AllThin == TypeOK => Thins(1, Hour, Raw) /\ Thins(2, Day, Hourly)
<1> SUFFICES ASSUME TypeOK PROVE Thins(1, Hour, Raw) /\ Thins(2, Day, Hourly)
  OBVIOUS
<1>1. ASSUME NEW m \in maintenance, Thinning(m.time, Raw, Hourly)
      PROVE  /\ Raised(rows, rows', 1, Hour) /\ Thinned(rows, rows', 1, Hour, m.time - Raw)
             /\ Raised(rows, rows', 2, Day) /\ Thinned(rows, rows', 2, Day, m.time - Hourly)
  <2>1. m.time \in Int /\ Raw \in Int /\ Hourly \in Int /\ Raw <= Hourly
    BY ThreadIs, Numbers
  <2>2. rows' = Maintained(m.time, Raw, Hourly)
    BY <1>1 DEF Thinning
  <2>3. QED
    BY <2>1, <2>2, MaintainedThins
<1>2. ASSUME MaintainOnRequest PROVE Raised(rows, rows', 1, Hour) /\ Raised(rows, rows', 2, Day)
  <2>1. PICK raw \in Ages \cup {Raw}, hourly \in Ages \cup {Hourly} : rows' = Maintained(now, raw, hourly)
    BY <1>2 DEF MaintainOnRequest, Thinning
  <2>2. raw \in Int /\ hourly \in Int /\ now \in Int
    BY Clocks, Numbers
  <2>3. QED
    BY <2>1, <2>2, MaintainedThins
<1>3. QED
  BY <1>1, <1>2 DEF Thins

\* The tiers, step by step: one argument for the hours and the days.
LEMMA FewStep ==
  ASSUME TypeOK, TypeOK', Timed, [Next]_vars,
         NEW k \in {1, 2}, NEW size \in Nat \ {0}, size <= Interval, NEW keep \in Nat \ {0},
         Few(k, size, keep), Thins(k, size, keep)
  PROVE  Few(k, size, keep)'
<1>1. now \in Nat /\ now' \in Nat /\ pref \in Int /\ extra \in Nat /\ pref \in Bases /\ keep \in Nat
  BY Clocks, Numbers DEF Timed, TypeOK, Bases
<1>2. ASSUME pref' \in Bases, \A v \in Writers : Saving(v),
             \A m \in maintenance' : ~m.again => m \in maintenance \/ \E q \in Bases : q + Interval <= m.time
      PROVE  \A b \in Nat : Cut(size, keep, b)' => Cut(size, keep, b)
  <2>1. \A p \in Bases' : \E q \in Bases : q <= p
    BY <1>2, BasesKept
  <2>2. QED
    BY <1>1, <1>2, <2>1, CutRest
<1>3. ASSUME UNCHANGED <<rows, pref, maintenance, extra>>, now' = now \/ Tick, \A v \in Writers : Saving(v)
      PROVE  Few(k, size, keep)'
  <2>1. now' >= now
    BY <1>1, <1>3 DEF Tick
  <2>2. \A b \in Nat : Cut(size, keep, b)' => Cut(size, keep, b)
    BY <1>1, <1>2, <1>3
  <2>3. QED
    BY <1>1, <1>3, <2>1, <2>2, FewRest
<1>4. ASSUME NEW w \in Writers, Insert(w) PROVE Few(k, size, keep)'
  <2>1. UNCHANGED <<now, pref, maintenance, extra>> /\ rows \subseteq rows'
    BY <1>4 DEF Insert, prefs
  <2>2. \A r \in rows' : r \in rows \/ (r.res = 0 /\ r.ts \in Nat /\ now <= r.ts + 1)
    BY <1>4, LateRows
  <2>3. \A r : r.res # 0 => (r \in rows' <=> r \in rows)
    BY <2>1, <2>2
  <2>4. \A b \in Nat : Cut(size, keep, b)' => Cut(size, keep, b)
    BY <1>1, <1>2, <1>4, <2>1, PollSaves
  <2>5. now' >= now
    BY <1>1, <2>1
  <2>6. QED
    BY <1>1, <2>1, <2>2, <2>3, <2>4, <2>5, FewRest
<1>5. ASSUME NEW w \in Writers, Save(w) PROVE Few(k, size, keep)'
  <2>1. UNCHANGED <<now, rows, extra>> /\ writer[w].at = "save" /\ pref' = writer[w].ts
    BY <1>5, SaveStarts
  <2>2. pref' \in Bases
    BY <2>1 DEF Bases
  <2>3. PICK m : /\ m.time = writer[w].ts /\ (~m.again => m.time >= pref + Interval)
                 /\ maintenance' = maintenance \cup {m}
    BY <1>5, SaveStarts
  <2>4. m.time \in Int /\ pref + Interval \in Int
    BY <1>1, <2>1, <2>2, <2>3, BasesAre, Numbers
  <2>5. ~m.again => pref + Interval <= m.time
    BY <2>3, <2>4
  <2>6. \A o \in maintenance' : ~o.again => o \in maintenance \/ \E q \in Bases : q + Interval <= o.time
    BY <1>1, <2>3, <2>5
  <2>7. \A b \in Nat : Cut(size, keep, b)' => Cut(size, keep, b)
    BY <1>2, <1>5, <2>2, <2>6, PollSaves
  <2>8. now' >= now
    BY <1>1, <2>1
  <2>9. QED
    BY <1>1, <2>1, <2>7, <2>8, FewRest
<1>6. ASSUME UNCHANGED <<writer, pref>>, maintenance' \subseteq maintenance
      PROVE  Bases' = Bases /\ \A b \in Nat : Cut(size, keep, b)' => Cut(size, keep, b)
  BY <1>6 DEF Bases, Cut
<1>7. ASSUME NEW m \in maintenance, Maintain(m) PROVE Few(k, size, keep)'
  <2>1. UNCHANGED <<now, pref, writer>> /\ maintenance' = maintenance \ {m} /\ maintenance' \subseteq maintenance
    BY <1>7 DEF Maintain, prefs
  <2>2. CASE UNCHANGED <<rows, extra>>
    <3>1. now' >= now
      BY <1>1, <2>1
    <3>2. QED
      BY <1>1, <1>6, <2>1, <2>2, <3>1, FewRest
  <2>3. CASE Thinning(m.time, Raw, Hourly) /\ m.again /\ extra' = extra + 1
    <3>1. Raised(rows, rows', k, size)
      BY <2>3 DEF Thins
    <3>2. QED
      BY <1>1, <1>6, <2>1, <2>3, <3>1, FewRequested
  <2>4. CASE Thinning(m.time, Raw, Hourly) /\ ~m.again /\ extra' = extra
    <3>1. Thinned(rows, rows', k, size, m.time - keep)
      BY <2>4 DEF Thins
    <3>2. QED
      BY <1>6, <2>1, <2>4, <3>1, FewMaintained
  <2>5. QED
    BY <1>7, <2>2, <2>3, <2>4 DEF Maintain
<1>8. ASSUME MaintainOnRequest PROVE Few(k, size, keep)'
  <2>1. extra' = extra + 1 /\ UNCHANGED <<now, pref, writer, maintenance>>
    BY <1>8 DEF MaintainOnRequest, prefs
  <2>2. Raised(rows, rows', k, size)
    BY <1>8 DEF Thins
  <2>3. QED
    BY <1>1, <1>6, <2>1, <2>2, FewRequested
<1>9. ASSUME Crash PROVE Few(k, size, keep)'
  <2>1. extra' = extra + 1 /\ UNCHANGED <<now, rows>>
    BY <1>9 DEF Crash, table
  <2>2. QED
    BY <1>1, <2>1, FewCrashed
<1>10. QED
  BY <1>3, <1>4, <1>5, <1>7, <1>8, <1>9, Kinds

LEMMA Sparseness == TypeOK /\ Sparse /\ [Next]_vars => Sparse'
<1> SUFFICES ASSUME TypeOK, Sparse, [Next]_vars PROVE Sparse'
  OBVIOUS
<1>1. TypeOK' /\ Timed /\ Timed' /\ RawGo'
  BY Types, Timing, RawGoes DEF Sparse
<1>2. Few(1, Hour, Raw) /\ Few(2, Day, Hourly)
  BY DEF Sparse
<1>3. Few(1, Hour, Raw)'
  BY <1>1, <1>2, FewStep, AllThin, Sizes
<1>4. Few(2, Day, Hourly)'
  BY <1>1, <1>2, FewStep, AllThin, Sizes
<1>5. QED
  BY <1>1, <1>3, <1>4 DEF Sparse

\* What the invariant says of the tables.
LEMMA SmallTables == TypeOK /\ Sparse => TablesStaySmall
<1> SUFFICES ASSUME TypeOK, Sparse PROVE TablesStaySmall
  OBVIOUS
<1>1. RawGo
  BY DEF Sparse
<1>2. ASSUME NEW t \in Nat, NEW n \in Nat \ {0} PROVE t \div n \in Nat
  BY SMT
<1>3. \A b \in Nat : Cardinality(Tier(1, Hour, b)) <= 2 + extra /\ Cardinality(Tier(2, Day, b)) <= 2 + extra
  BY DEF Sparse, Few
<1>4. \A t \in Times : t \div Hour \in Nat /\ t \div Day \in Nat
  BY <1>2, Numbers
<1>5. QED
  BY <1>1, <1>3, <1>4, Zenon DEF TablesStaySmall, Tier, RawGo, Awaited

-----------------------------------------------------------------------------
(* The theorems *)

IInv == TypeOK /\ History /\ Track /\ Sparse

LEMMA Initial == Init => IInv
<1> SUFFICES ASSUME Init PROVE IInv
  OBVIOUS
<1>1. now \in Times
  BY Numbers DEF Init, Times
<1>2. writer \in [Writers -> WriterStates] /\ \A w \in Writers : writer[w] = Off /\ lastStored[w] = None
  BY <1>1, AtRest DEF Init
<1>3. TypeOK
  <2>1. {pref, prefDisk} \subseteq -Interval..MaxTime
    BY Numbers DEF Init
  <2>2. QED
    BY <1>1, <1>2, <2>1 DEF Init, TypeOK, WriterStates
<1>4. History
  BY DEF Init, History, HistoryCovered, Old
<1>5. Track
  BY <1>1, <1>2, AtRest DEF Track, Remembered, Shown, Working
<1>6. Sparse
  <2>1. Timed
    BY <1>2, AtRest, <1>1, Numbers DEF Init, Timed, Working
  <2>2. RawGo
    BY DEF Init, RawGo
  <2>3. ASSUME NEW k, NEW size, NEW keep PROVE Few(k, size, keep)
    <3>1. \A b : Tier(k, size, b) = {}
      BY DEF Init, Tier
    <3>2. extra = 0
      BY DEF Init
    <3>3. QED
      BY <3>1, <3>2, FS_EmptySet DEF Few
  <2>4. QED
    BY <2>1, <2>2, <2>3 DEF Sparse
<1>7. QED
  BY <1>3, <1>4, <1>5, <1>6 DEF IInv

LEMMA Step == IInv /\ [Next]_vars => IInv'
BY Types, Coverage, Tracking, Sparseness DEF IInv

LEMMA Invariant == Spec => []IInv
BY Initial, Step, PTL DEF Spec

\* Writers, maps, tables and preferences hold what VesselCacheWriter and
\* VesselDatabase put there, whatever the polls, failures and crashes.
THEOREM TypeCorrect == Spec => []TypeOK
<1>1. IInv => TypeOK
  BY DEF IInv
<1>2. QED
  BY Invariant, <1>1, PTL

\* However often runMaintenance thins the history, by whatever ages requests name,
\* and whatever fails between, every point that was inserted keeps a row: itself, one
\* of its hour, or one of its day, as far as the cutoffs have come, and never an
\* earlier one.
THEOREM PointsStayCovered == Spec => []HistoryCovered
<1>1. IInv => HistoryCovered
  BY DEF IInv, History
<1>2. QED
  BY Invariant, <1>1, PTL

\* A report that maybeAddPosition does not store is near, in time and place, to a
\* point that was stored or, in a transaction that failed or a poll that was left,
\* lost before.
THEOREM TrackIsTrue == Spec => []TrackFollows
<1>1. IInv => TrackFollows
  <2>1. SUFFICES ASSUME IInv, NEW w \in Writers, Working(w), writer[w].at = "finish", writer[w].seen # None
        PROVE \E p \in recent : Near(p, writer[w])
    BY DEF TrackFollows, Near
  <2>2. Pending(w) = {}
    BY <2>1 DEF Pending
  <2>3. QED
    BY <2>1, <2>2 DEF IInv, Track, Shown
<1>2. QED
  BY Invariant, <1>1, PTL

\* Whatever fails, an hour keeps two hourly rows and a day two daily ones, and one
\* more for each maintenance that was not due: on request, repeated after a crash, or
\* started by two polls that found the same one due; raw rows past their time wait for
\* a maintenance that is still to run, or was missed.
THEOREM TablesAreSmall == Spec => []TablesStaySmall
<1>1. IInv => TablesStaySmall
  BY SmallTables DEF IInv
<1>2. QED
  BY Invariant, <1>1, PTL
=============================================================================

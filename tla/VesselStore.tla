---------------------------- MODULE VesselStore ----------------------------
(***************************************************************************)
(* The history of one vessel in the station's database: the writers that   *)
(* poll the engine's ship list (VesselCacheWriter.kt, one for each time    *)
(* the service switches the database on), the tables they fill, and the    *)
(* maintenance that thins them (VesselDatabase.kt).                        *)
(*                                                                         *)
(* A writer is stopped by an interrupt that neither HttpURLConnection nor  *)
(* SQLite heeds, and nobody waits for it: its poll goes on to the end,     *)
(* beside the polls of the next writer.  Each change of the database is    *)
(* one transaction, which may fail as a whole: a failed statement is only  *)
(* logged, a failed begin or commit throws and ends the poll (safePoll).   *)
(*                                                                         *)
(* Position and course are one number, of which Move stands for the 50     *)
(* metres and the 15 degrees; of the row of static data the model keeps    *)
(* when the vessel was seen last.  Time is counted in ticks.               *)
(***************************************************************************)
EXTENDS Integers, FiniteSets, TLC

CONSTANTS
  None,         \* no writer, no point, no position, no row
  Writers,      \* writers that may be alive at once
  Places, Move, \* where a vessel can be, and the distance that is stored
  Heartbeat,    \* HEARTBEAT_MS
  Hour, Day,    \* the buckets of runMaintenance, in ticks
  Raw, Hourly,  \* RAW_RETENTION_MS, HOURLY_RETENTION_MS
  Ages,         \* raw_ms and hourly_ms a request for maintenance may give instead
  Interval,     \* MAINTENANCE_INTERVAL_MS
  MaxTime,      \* bound: the clock stops here
  MaxPolls,     \* bound: polls of the ship list that succeed
  MaxMishaps    \* bound: failed transactions, restarts, requests, crashes

ASSUME TicksArePositive ==
  /\ Hour \in Nat \ {0} /\ Day \in Nat \ {0} /\ Day % Hour = 0
  /\ {Raw, Hourly, Interval, Heartbeat, Move} \subseteq Nat \ {0} /\ Places \subseteq Nat
  /\ Ages \subseteq Int /\ Raw <= Hourly /\ Interval >= Day

ASSUME BoundsAreNat == MaxTime \in Nat \ {0} /\ {MaxPolls, MaxMishaps} \subseteq Nat

VARIABLES
  now,
  current, writer, lastStored,   \* the service's writer, what each is at, its map
  rows, last_seen,               \* vessel_position and the row of vessel_static
  pref, prefDisk,                \* last_position_maintenance_ms, and as saved
  maintenance,                   \* threads of maintenance, with the time they took
  stored, recent,                \* history: times of all points; points of late, lost
  missed, thinned,               \* ones too; maintenance not done; the furthest cutoffs
  polls, mishaps, extra          \* polls, what went wrong, maintenance before it was due

table == <<rows, last_seen>>
prefs == <<pref, prefDisk>>
points == <<stored, recent>>
kept == <<missed, thinned>>
budget == <<mishaps, extra>>
vars == <<now, current, writer, lastStored, table, prefs, maintenance, points, kept, polls, budget>>

Off == [at |-> "off"]
Idle == [at |-> "idle", ts |-> now]
Distance(a, b) == IF a > b THEN a - b ELSE b - a
Mishap == mishaps < MaxMishaps /\ mishaps' = mishaps + 1
Working(w) == writer[w].at \notin {"off", "idle"}

\* The tables are empty; an earlier life may have run the maintenance, so the
\* next is due with the first poll or an interval later.
Init ==
  /\ now = 1 /\ current = None
  /\ writer = [w \in Writers |-> Off] /\ lastStored = [w \in Writers |-> None]
  /\ rows = {} /\ last_seen = None
  /\ pref \in {-Interval, 0} /\ prefDisk = pref /\ maintenance = {}
  /\ stored = {} /\ recent = {}
  /\ missed = {} /\ thinned = [raw |-> 0, hourly |-> 0]
  /\ polls = 0 /\ mishaps = 0 /\ extra = 0

-----------------------------------------------------------------------------
(* The service switches the database on and off. *)

StartWriter(w) ==
  /\ current = None /\ writer[w] = Off
  /\ current' = w
  /\ writer' = [writer EXCEPT ![w] = Idle]
  /\ lastStored' = [lastStored EXCEPT ![w] = None]
  /\ UNCHANGED <<now, table, prefs, maintenance, points, kept, polls, budget>>

\* stop() interrupts the executor: a poll under way is not undone.
StopWriter ==
  /\ current # None /\ Mishap
  /\ writer' = [writer EXCEPT ![current] = IF Working(current) THEN @ ELSE Off]
  /\ current' = None
  /\ UNCHANGED <<now, lastStored, table, prefs, maintenance, points, kept, polls, extra>>

-----------------------------------------------------------------------------
(* A poll.  fetch() may fail: the poll is skipped, and nothing changes. *)

\* Mutant: a vessel without a valid position.
WorthStoringNowhere(last, p) ==
  last = None \/ now - last.ts >= Heartbeat \/ Distance(last.place, p) >= Move

\* maybeAddPosition: whether a vessel at p is worth a point.
WorthStoring(last, p) ==
  p # None /\ (last = None \/ now - last.ts >= Heartbeat \/ Distance(last.place, p) >= Move)

\* Mutant: every report is remembered, stored or not.
FetchRemembering(w, p) ==
  /\ current = w /\ writer[w].at = "idle" /\ writer[w].ts < now
  /\ polls < MaxPolls /\ polls' = polls + 1
  /\ LET store == WorthStoring(lastStored[w], p)
         point == [ts |-> now, place |-> p]
     IN /\ writer' = [writer EXCEPT ![w] = [at |-> "upsert", ts |-> now,
             positions |-> IF store THEN {point} ELSE {}, seen |-> p]]
        /\ lastStored' = IF p # None THEN [lastStored EXCEPT ![w] = point] ELSE lastStored
  /\ UNCHANGED <<now, current, table, prefs, maintenance, points, kept, budget>>

\* The first poll is a delay after the start, and then one tick after the other.
\* The list says where the vessel is, None when it has no valid position or
\* positions are not logged.  lastStored remembers the point at once.
Fetch(w, p) ==
  /\ current = w /\ writer[w].at = "idle" /\ writer[w].ts < now
  /\ polls < MaxPolls /\ polls' = polls + 1
  /\ LET store == WorthStoring(lastStored[w], p)
         point == [ts |-> now, place |-> p]
     IN /\ writer' = [writer EXCEPT ![w] = [at |-> "upsert", ts |-> now,
             positions |-> IF store THEN {point} ELSE {}, seen |-> p]]
        /\ lastStored' = IF store THEN [lastStored EXCEPT ![w] = point] ELSE lastStored
  /\ UNCHANGED <<now, current, table, prefs, maintenance, points, kept, budget>>

Goto(w, at) == writer' = [writer EXCEPT ![w].at = at]

\* The end of a poll, whether it was done or left by an exception.
Leave(w) == writer' = [writer EXCEPT ![w] = IF w = current THEN Idle ELSE Off]

\* upsertAll inserts the row or renews it.  A poll that is left here has inserted
\* none of its points, which lastStored keeps.
Upsert(w) ==
  /\ writer[w].at = "upsert"
  /\ \/ last_seen' = writer[w].ts /\ Goto(w, "insert") /\ UNCHANGED <<recent, mishaps>>
     \/ Mishap /\ Goto(w, "insert") /\ UNCHANGED <<last_seen, recent>>
     \/ Mishap /\ Leave(w) /\ recent' = recent \cup writer[w].positions /\ UNCHANGED last_seen
  /\ UNCHANGED <<now, current, lastStored, rows, prefs, maintenance, stored, kept, polls, extra>>

\* insertPositions: a second point of the same time is ignored (PRIMARY KEY);
\* a failed transaction is logged, and the writer counts its points as stored.
New(ps) == {[ts |-> p.ts, res |-> 0] : p \in {p \in ps : \A r \in rows : r.ts # p.ts}}

Insert(w) ==
  /\ writer[w].at = "insert"
  /\ LET ps == writer[w].positions
     IN /\ \/ /\ Goto(w, "finish")
              /\ rows' = rows \cup New(ps)
              /\ stored' = stored \cup {p.ts : p \in ps}
              /\ UNCHANGED mishaps
           \/ /\ ps # {} /\ Mishap
              /\ Goto(w, "finish") \/ Leave(w)
              /\ UNCHANGED <<rows, stored>>
        /\ recent' = recent \cup ps
  /\ UNCHANGED <<now, current, lastStored, last_seen, prefs, maintenance, kept, polls, extra>>

Due(ts) == ts - pref >= Interval

\* lastStored is emptied when it holds too many vessels; count() may throw.
\* maybeRunMaintenance reads the time of the last maintenance.
Finish(w) ==
  /\ writer[w].at = "finish"
  /\ lastStored' \in {lastStored, [lastStored EXCEPT ![w] = None]}
  /\ \/ (IF Due(writer[w].ts) THEN Goto(w, "save") ELSE Leave(w)) /\ UNCHANGED mishaps
     \/ Mishap /\ Leave(w)
  /\ UNCHANGED <<now, current, table, prefs, maintenance, points, kept, polls, extra>>

\* It saves the time before it starts the thread.  Another writer's poll may have
\* done so since: then maintenance is not due again, and runs all the same.
Save(w) ==
  /\ writer[w].at = "save"
  /\ Leave(w)
  /\ pref' = writer[w].ts
  /\ maintenance' = maintenance \cup {[by |-> w, time |-> writer[w].ts, again |-> ~Due(writer[w].ts)]}
  /\ UNCHANGED <<now, current, lastStored, table, prefDisk, points, kept, polls, budget>>

\* apply() writes the preference in the background.
Persist ==
  /\ prefDisk # pref
  /\ prefDisk' = pref
  /\ UNCHANGED <<now, current, writer, lastStored, table, pref, maintenance, points, kept, polls, budget>>

-----------------------------------------------------------------------------
(* runMaintenance: one transaction of two passes. *)

\* Mutant: the first row of a bucket instead of the last.
ThinToFirst(rs, res, cutoff, bucket) ==
  LET old == {r \in rs : r.res = res /\ r.ts < cutoff}
      first == {r \in old : \A q \in old : q.ts \div bucket = r.ts \div bucket => q.ts >= r.ts}
  IN (rs \ old) \cup {[r EXCEPT !.res = res + 1] : r \in first}

\* The rows of tier res that are past the cutoff become one row of the next tier
\* for each bucket, the last; the others go.
Thin(rs, res, cutoff, bucket) ==
  LET old == {r \in rs : r.res = res /\ r.ts < cutoff}
      last == {r \in old : \A q \in old : q.ts \div bucket = r.ts \div bucket => q.ts <= r.ts}
  IN (rs \ old) \cup {[r EXCEPT !.res = res + 1] : r \in last}

\* Mutant: a maintenance that thins the hourly rows only.
MaintainedHourly(time, raw, hourly) == Thin(rows, 1, time - hourly, Day)

Maintained(time, raw, hourly) == Thin(Thin(rows, 0, time - raw, Hour), 1, time - hourly, Day)

Later(a, b) == IF a > b THEN a ELSE b
Thinning(time, raw, hourly) ==
  /\ rows' = Maintained(time, raw, hourly)
  /\ thinned' = [raw |-> Later(thinned.raw, time - raw), hourly |-> Later(thinned.hourly, time - hourly)]

Maintain(m) ==
  /\ m \in maintenance
  /\ maintenance' = maintenance \ {m}
  /\ \/ /\ Thinning(m.time, Raw, Hourly)
        /\ missed' = {time \in missed : time > m.time}
        /\ extra' = IF m.again THEN extra + 1 ELSE extra
        /\ UNCHANGED mishaps
     \/ Mishap /\ missed' = missed \cup {m.time} /\ UNCHANGED <<rows, thinned, extra>>
  /\ UNCHANGED <<now, current, writer, lastStored, last_seen, prefs, points, polls>>

\* A request for maintenance runs it at once, with its own ages if it names them,
\* and saves no time.
MaintainOnRequest ==
  /\ Mishap /\ extra' = extra + 1
  /\ \E raw \in Ages \cup {Raw}, hourly \in Ages \cup {Hourly} : Thinning(now, raw, hourly)
  /\ UNCHANGED <<now, current, writer, lastStored, last_seen, prefs, maintenance, points, missed, polls>>

-----------------------------------------------------------------------------
(* The process dies: threads and maps are gone, and a preference that was   *)
(* not yet written.  The tables stay as the last transaction left them.     *)
Crash ==
  /\ Mishap /\ extra' = extra + 1
  /\ current' = None
  /\ writer' = [w \in Writers |-> Off] /\ lastStored' = [w \in Writers |-> None]
  /\ pref' = prefDisk /\ maintenance' = {}
  /\ missed' = missed \cup {m.time : m \in maintenance}
  /\ UNCHANGED <<now, table, prefDisk, points, thinned, polls>>

\* A poll or a maintenance ends before the tick after the next.
Tick ==
  /\ now < MaxTime
  /\ \A w \in Writers : Working(w) => writer[w].ts = now
  /\ \A m \in maintenance : m.time = now
  /\ now' = now + 1
  /\ recent' = {p \in recent : now - p.ts < Heartbeat}
  /\ UNCHANGED <<current, writer, lastStored, table, prefs, maintenance, stored, kept, polls, budget>>

Next ==
  \/ \E w \in Writers : StartWriter(w) \/ Upsert(w) \/ Insert(w) \/ Finish(w) \/ Save(w)
  \/ \E w \in Writers, p \in Places \cup {None} : Fetch(w, p)
  \/ \E m \in maintenance : Maintain(m)
  \/ StopWriter \/ Persist \/ MaintainOnRequest \/ Crash \/ Tick

Spec == Init /\ [][Next]_vars

-----------------------------------------------------------------------------
Symmetry == Permutations(Writers)

Times == 0..MaxTime
Points == [ts : Times, place : Places]
Polls == [at : {"upsert", "insert", "finish", "save"}, ts : Times,
          positions : SUBSET Points, seen : Places \cup {None}]

\* What the writers, their maps, the tables and the preferences hold.
TypeOK ==
  /\ now \in Times /\ current \in Writers \cup {None}
  /\ writer \in [Writers -> {Off} \cup [at : {"idle"}, ts : Times] \cup Polls]
  /\ lastStored \in [Writers -> Points \cup {None}]
  /\ rows \subseteq [ts : Times, res : 0..2]
  /\ last_seen \in Times \cup {None}
  /\ {pref, prefDisk} \subseteq -Interval..MaxTime
  /\ maintenance \subseteq [by : Writers, time : Times, again : BOOLEAN]
  /\ missed \subseteq Times /\ thinned \in [raw : Nat, hourly : Nat]
  /\ stored \subseteq Times /\ recent \subseteq Points

\* However far the history is thinned, and by whatever ages a request names, every
\* point that was ever inserted has a row in its place: itself until a maintenance
\* had a cutoff of raw rows beyond it; then one of its hour, until a cutoff of hourly
\* rows was beyond it; then one of its day.  The row is never an earlier one
\* (runMaintenance keeps the last of a bucket).
HistoryCovered ==
  \A ts \in stored : \E r \in rows :
    /\ r.ts >= ts /\ r.ts \div Day = ts \div Day
    /\ r.ts \div Hour = ts \div Hour \/ ts < thinned.hourly
    /\ r.ts = ts \/ ts < thinned.raw

\* The tables stay small.  A thinned bucket does not grow: an hour has at most two
\* hourly rows and a day two daily ones (the cutoff may fall inside a bucket, and
\* the next maintenance is a day away), one more for each maintenance before it was
\* due: on request, repeated because a crash lost the time of the last, or by a
\* second writer whose poll overlaps.  Raw rows past their time at the maintenance
\* saved last are gone, unless its thread or a later one is still to run, or it
\* failed, or died with the process.
TablesStaySmall ==
  /\ \A t \in Times :
       /\ Cardinality({r \in rows : r.res = 1 /\ r.ts \div Hour = t \div Hour}) <= 2 + extra
       /\ Cardinality({r \in rows : r.res = 2 /\ r.ts \div Day = t \div Day}) <= 2 + extra
  /\ \A r \in rows : r.res = 0 /\ r.ts < pref - Raw =>
       \E time \in missed \cup {m.time : m \in maintenance} : time >= pref

\* When a writer has finished a poll the track shows where the vessel was: a point
\* not older than the heartbeat and nearer than the threshold was inserted, or
\* was lost (its transaction failed, its poll was left before, or another writer
\* had one of the same time), which the writer does not notice.
TrackFollows ==
  \A w \in Writers : Working(w) /\ writer[w].at = "finish" /\ writer[w].seen # None =>
    \E p \in recent :
      /\ p.ts <= writer[w].ts /\ writer[w].ts - p.ts < Heartbeat
      /\ Distance(p.place, writer[w].seen) < Move
=============================================================================

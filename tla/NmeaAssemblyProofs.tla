------------------------- MODULE NmeaAssemblyProofs -------------------------
(***************************************************************************)
(* Safety of NmeaAssembly, proved for any number of streams, values, IDs   *)
(* and lines, and any age at which lines are thrown away.                  *)
(***************************************************************************)
EXTENDS NmeaAssembly, SequenceTheorems, WellFoundedInduction, TLAPS

Arrivals == [count : Values \ {1}, number : Values, ID : IDs, time : Nat]

\* What came, in the order of its times.
Timely ==
  /\ arrived \in [Streams -> Seq(Arrivals)]
  /\ \A s \in Streams : \A i, j \in 1..Len(arrived[s]) :
       /\ arrived[s][i].time <= clock
       /\ i <= j => arrived[s][i].time <= arrived[s][j].time

\* The lines of a message that is under way are in the queue, unless the first is too old.
Kept ==
  \A s \in Streams : \A first \in 1..Len(arrived[s]) :
    LET last == Len(arrived[s])
    IN (/\ Begins(s, first, last) /\ last - first + 1 < arrived[s][first].count
        /\ arrived[s][first].time + Stale >= clock)
       => \A i \in first..last : Entry(s, i) \in queue

IInv == TypeOK /\ Timely /\ Kept /\ RunsAreBuilt /\ SentAreRuns

USE ConstantsAssumption

-----------------------------------------------------------------------------
(* Lines *)

LEMMA Smallest ==
  ASSUME NEW T \in SUBSET Nat, T # {}
  PROVE  \E x \in T : \A y \in T : x <= y
<1> DEFINE R == OpToRel(<, Nat)
<1>1. PICK x \in T : \A y \in T : ~ (<<y, x>> \in R)
  <2>1. IsWellFoundedOn(R, Nat)
    BY NatLessThanWellFounded
  <2> HIDE DEF R
  <2>2. QED
    BY <2>1, WFMin, Zenon
<1>2. \A y \in T : ~ (y < x)
  <2>1. \A y \in T : <<y, x>> \in Nat \X Nat /\ <<y, x>>[1] = y /\ <<y, x>>[2] = x
    OBVIOUS
  <2>2. QED
    BY <1>1, <2>1, Zenon DEF OpToRel
<1>3. \A y \in T : x <= y
  BY <1>2
<1>4. QED
  BY <1>1, <1>3

LEMMA Ages ==
  \A x, y, now \in Nat :
    /\ ~(x + Stale >= now) <=> x + Stale < now
    /\ now - x > Stale <=> x + Stale < now
    /\ x <= y /\ x + Stale >= now => y + Stale >= now
OBVIOUS

LEMMA Places ==
  ASSUME Timely, NEW s \in Streams
  PROVE  /\ Len(arrived[s]) \in Nat /\ arrived[s] \in Seq(Arrivals)
         /\ \A i \in 1..Len(arrived[s]) : arrived[s][i] \in Arrivals
BY LenProperties, ElementOfSeq DEF Timely

\* The line that a stream queued last is the one that came last.
LEMMA LatestCameLast ==
  ASSUME Timely, NEW s \in Streams, NEW first, NEW from,
         first \in 1..Len(arrived[s]), from \in 1..Len(arrived[s]), Waits(s, first, from)
  PROVE  Latest(s) = Entry(s, Len(arrived[s])) /\ Of(queue, s) # {}
<1> DEFINE n == Len(arrived[s])
<1>1. n \in Nat /\ n \in from..n
  BY Places, SMTT(60) DEF Waits
<1>2. \A l \in Of(queue, s) : \E i \in from..n : l = Entry(s, i) /\ l.at = i
  BY SMTT(60) DEF Waits, Entry
<1>3. Entry(s, n) \in Of(queue, s) /\ Entry(s, n).at = n
  BY <1>1 DEF Waits, Entry
<1>4. \A k \in Of(queue, s) : k.at <= Entry(s, n).at
  BY <1>1, <1>2, <1>3
<1>5. \A l \in Of(queue, s) : (\A k \in Of(queue, s) : k.at <= l.at) => l = Entry(s, n)
  <2> SUFFICES ASSUME NEW l \in Of(queue, s), \A k \in Of(queue, s) : k.at <= l.at
               PROVE  l = Entry(s, n)
    OBVIOUS
  <2>1. PICK i \in from..n : l = Entry(s, i) /\ l.at = i
    BY <1>2
  <2>2. n <= i
    BY <1>3, <2>1
  <2>3. QED
    BY <1>1, <2>1, <2>2
<1>6. QED
  BY <1>3, <1>4, <1>5 DEF Latest

-----------------------------------------------------------------------------
(* A step in which a line comes *)

Comes(s, line) ==
  arrived' = [arrived EXCEPT ![s] = Append(@,
    [count |-> line.count, number |-> line.number, ID |-> line.ID, time |-> clock])]

Queued(s, line) ==
  [stream |-> s, at |-> Len(arrived[s]) + 1, timestamp |-> clock,
   count |-> line.count, number |-> line.number, ID |-> line.ID]

\* What is known of a line that came.
HasCome(s, line, n) ==
  /\ \A t \in Streams : t # s => arrived'[t] = arrived[t]
  /\ n \in Nat /\ Len(arrived'[s]) = n + 1
  /\ \A i \in 1..n : arrived'[s][i] = arrived[s][i]
  /\ arrived'[s][n + 1] =
       [count |-> line.count, number |-> line.number, ID |-> line.ID, time |-> clock]
  /\ arrived'[s][n + 1].count = line.count /\ arrived'[s][n + 1].number = line.number
  /\ arrived'[s][n + 1].ID = line.ID /\ arrived'[s][n + 1].time = clock
  /\ arrived' \in [Streams -> Seq(Arrivals)]
  /\ Entry(s, n + 1)' = Queued(s, line)
  /\ \A i \in 1..n : Entry(s, i)' = Entry(s, i)
  /\ \A t \in Streams : t # s => \A i : Entry(t, i)' = Entry(t, i)
  /\ line.count \in Values \ {1} /\ line.number \in Values /\ line.ID \in IDs
  /\ line.count \in Int /\ line.number \in Int

\* A line that comes is kept after the others.
LEMMA Appended ==
  ASSUME TypeOK, Timely, NEW s \in Streams, NEW line \in Line, line.count # 1, Comes(s, line),
         NEW n, n = Len(arrived[s])
  PROVE  HasCome(s, line, n)
<1> DEFINE e == [count |-> line.count, number |-> line.number, ID |-> line.ID, time |-> clock]
<1>1. /\ line.count \in Values \ {1} /\ line.number \in Values /\ line.ID \in IDs
      /\ line.count \in Int /\ line.number \in Int
  BY DEF Line
<1>2. e \in Arrivals
  BY <1>1 DEF Arrivals, TypeOK
<1>3. arrived[s] \in Seq(Arrivals) /\ arrived'[s] = Append(arrived[s], e)
  BY DEF Timely, Comes
<1>4. /\ Append(arrived[s], e) \in Seq(Arrivals) /\ Len(Append(arrived[s], e)) = Len(arrived[s]) + 1
      /\ \A i \in 1..Len(arrived[s]) : Append(arrived[s], e)[i] = arrived[s][i]
      /\ Append(arrived[s], e)[Len(arrived[s]) + 1] = e
  BY <1>2, <1>3, AppendProperties
<1>5. Len(arrived[s]) \in Nat
  BY <1>3, LenProperties
<1>6. \A t \in Streams : t # s => arrived'[t] = arrived[t]
  BY DEF Comes, Timely
<1>7. arrived' \in [Streams -> Seq(Arrivals)]
  BY <1>3, <1>4 DEF Comes, Timely
<1>8. Entry(s, n + 1)' = Queued(s, line)
  BY <1>3, <1>4, <1>5 DEF Entry, Queued
<1>9. \A i \in 1..n : Entry(s, i)' = Entry(s, i)
  BY <1>3, <1>4 DEF Entry
<1>10. \A t \in Streams : t # s => \A i : Entry(t, i)' = Entry(t, i)
  BY <1>6 DEF Entry
<1>11. arrived'[s][n + 1] = e /\ n \in Nat /\ Len(arrived'[s]) = n + 1
  BY <1>3, <1>4, <1>5, Zenon
<1>12. \A i \in 1..n : arrived'[s][i] = arrived[s][i]
  BY <1>3, <1>4, Zenon
<1>13. /\ arrived'[s][n + 1].count = line.count /\ arrived'[s][n + 1].number = line.number
       /\ arrived'[s][n + 1].ID = line.ID /\ arrived'[s][n + 1].time = clock
  BY <1>11
<1>14. QED
  BY <1>1, <1>6, <1>7, <1>8, <1>9, <1>10, <1>11, <1>12, <1>13, Zenon DEF HasCome

\* When a line continues what its stream has in the queue.
LEMMA Continuing ==
  ASSUME Timely, NEW s \in Streams, NEW line \in Line
  PROVE  /\ Of(queue, s) = {} => (Continues(Queued(s, line)) <=> line.number = 1)
         /\ \A first, from \in 1..Len(arrived[s]) : Waits(s, first, from) =>
              LET last == arrived[s][Len(arrived[s])]
              IN Continues(Queued(s, line)) <=>
                   last.count = line.count /\ last.ID = line.ID /\ line.number = last.number + 1
<1> DEFINE l == Queued(s, line)
<1>1. l.stream = s /\ l.number = line.number /\ l.count = line.count /\ l.ID = line.ID
  BY DEF Queued
<1>2. Of(queue, s) = {} => (Continues(l) <=> line.number = 1)
  BY <1>1 DEF Continues, Search, Line
<1>3. ASSUME NEW first \in 1..Len(arrived[s]), NEW from \in 1..Len(arrived[s]), Waits(s, first, from)
      PROVE  LET last == arrived[s][Len(arrived[s])]
             IN Continues(l) <=>
                  last.count = line.count /\ last.ID = line.ID /\ line.number = last.number + 1
  <2> DEFINE last == arrived[s][Len(arrived[s])]
  <2>1. Latest(s) = Entry(s, Len(arrived[s])) /\ Of(queue, s) # {}
    BY <1>3, LatestCameLast
  <2>2. Latest(s).count = last.count /\ Latest(s).ID = last.ID /\ Latest(s).number = last.number
    BY <2>1 DEF Entry
  <2>3. last.number \in Nat /\ last.number # -1
    <3>1. Len(arrived[s]) \in first..Len(arrived[s])
      BY <1>3, Places, SMTT(60)
    <3>2. last.number = Len(arrived[s]) - first + 1
      BY <1>3, <3>1, Zenon DEF Waits, Begins
    <3>3. QED
      BY <3>1, <3>2, Places, SMTT(60)
  <2> HIDE DEF l
  <2>4. Search(l) = IF last.count = line.count /\ last.ID = line.ID THEN last.number ELSE -1
    BY <1>1, <2>1, <2>2 DEF Search
  <2>5. QED
    BY <1>1, <2>3, <2>4 DEF Continues
<1>4. QED
  BY <1>2, <1>3

\* The queue of a stream that goes on waiting, or loses its old lines.
LEMMA WaitsOn ==
  ASSUME TypeOK, Timely, NEW t \in Streams, arrived'[t] = arrived[t], UNCHANGED clock,
         \/ Of(queue', t) = Of(queue, t)
         \/ Of(queue', t) = {l \in Of(queue, t) : l.timestamp + Stale >= clock}
  PROVE  Of(queue', t) = {} \/ \E first, from \in 1..Len(arrived'[t]) : Waits(t, first, from)'
<1> DEFINE n == Len(arrived[t])
           a == arrived[t]
<1>1. n \in Nat /\ \A i \in 1..n : a[i] \in Arrivals
  BY Places
<1>2. \A i : Entry(t, i)' = Entry(t, i)
  BY DEF Entry
<1>3. \A i, j : Begins(t, i, j)' <=> Begins(t, i, j)
  BY DEF Begins
<1>4. SUFFICES ASSUME Of(queue', t) # {}
               PROVE  \E first, from \in 1..n : Waits(t, first, from)'
  OBVIOUS
<1>5. PICK first \in 1..n, from \in 1..n : Waits(t, first, from)
  BY <1>4 DEF TypeOK
<1> DEFINE T == {i \in from..n : Entry(t, i) \in Of(queue', t)}
<1>6. Of(queue', t) = {Entry(t, i) : i \in T}
  BY <1>5, SMTT(60) DEF Waits
<1>7. PICK k \in T : \A i \in T : k <= i
  <2>1. T \in SUBSET Nat /\ T # {}
    BY <1>1, <1>4, <1>6, SMTT(60)
  <2>2. QED
    BY <2>1, Smallest, Zenon
<1>8. ASSUME NEW i \in k..n PROVE i \in T
  <2>1. Entry(t, i) \in Of(queue, t) /\ Entry(t, k) \in Of(queue', t)
    BY <1>1, <1>5, <1>7, SMTT(60) DEF Waits
  <2>2. Entry(t, i).timestamp = a[i].time /\ Entry(t, k).timestamp = a[k].time
    BY DEF Entry
  <2>3. a[k].time <= a[i].time /\ a[k].time \in Nat /\ a[i].time \in Nat
    <3>1. i \in 1..n /\ k \in 1..n /\ k <= i
      BY <1>1, <1>7
    <3>2. a[k].time <= a[i].time
      BY <3>1 DEF Timely
    <3>3. QED
      BY <1>1, <3>1, <3>2, Zenon DEF Arrivals
  <2>4. clock \in Nat
    BY DEF TypeOK
  <2>5. Entry(t, i) \in Of(queue', t)
    <3>1. CASE Of(queue', t) = Of(queue, t)
      BY <2>1, <3>1, Zenon
    <3>2. CASE Of(queue', t) = {l \in Of(queue, t) : l.timestamp + Stale >= clock}
      <4>1. Entry(t, k).timestamp + Stale >= clock
        BY <2>1, <3>2, Zenon
      <4>2. Entry(t, i).timestamp + Stale >= clock
        BY <2>2, <2>3, <2>4, <4>1, Ages, Zenon
      <4>3. QED
        BY <2>1, <3>2, <4>2, Zenon
    <3>3. QED
      BY <3>1, <3>2, Zenon
  <2>6. QED
    BY <1>1, <1>7, <2>5
<1>9. ASSUME NEW i \in first..k - 1 PROVE a[i].time + Stale < clock
  <2>1. CASE i < from
    BY <1>1, <1>5, <1>7, <2>1, SMTT(60) DEF Waits
  <2>2. CASE i >= from
    <3>1. i \in from..n /\ i \notin T
      BY <1>1, <1>5, <1>7, <2>2
    <3>2. Entry(t, i) \in Of(queue, t) /\ Entry(t, i).timestamp = a[i].time
      BY <1>5, <3>1, Zenon DEF Waits, Entry
    <3>3. a[i].time \in Nat /\ clock \in Nat
      BY <1>1, <1>5, <3>1, SMTT(60) DEF Arrivals, TypeOK
    <3>4. QED
      <4>1. Entry(t, i) \notin Of(queue', t)
        BY <3>1, Zenon
      <4>2. ~ (a[i].time + Stale >= clock)
        BY <3>2, <4>1, Zenon
      <4>3. QED
        BY <3>3, <4>2, Ages, Zenon
  <2>3. QED
    BY <1>1, <1>5, <1>7, <2>1, <2>2
<1>10. T = k..n
  BY <1>1, <1>7, <1>8
<1>11. Waits(t, first, k)'
  <2>1. /\ first <= k /\ k <= n /\ Begins(t, first, n)
        /\ a[n].count < 1 \/ a[n].number < a[n].count
    BY <1>1, <1>5, <1>7, SMTT(60) DEF Waits
  <2>2. Of(queue', t) = {Entry(t, i)' : i \in k..n}
    BY <1>2, <1>6, <1>10, SMTT(60)
  <2>3. QED
    BY <1>3, <1>9, <2>1, <2>2 DEF Waits
<1>12. QED
  BY <1>1, <1>5, <1>7, <1>11

\* A line that continues a message whose first part is not too old continues the queue,
\* which has just the parts before it.
LEMMA GoesOn ==
  ASSUME TypeOK, Timely, Kept, NEW s \in Streams, NEW line \in Line, line.count # 1, Comes(s, line),
         NEW n, n = Len(arrived[s]), NEW first \in 1..n, Begins(s, first, n + 1)',
         n - first + 2 <= line.count, arrived[s][first].time + Stale >= clock
  PROVE  /\ Continues(Queued(s, line)) /\ line.number = n - first + 2
         /\ Of(queue, s) = {Entry(s, i) : i \in first..n}
         /\ \A i \in first..n : Entry(s, i) \in queue
<1> DEFINE a == arrived[s]
<1>1. /\ n \in Nat /\ \A i \in 1..n : arrived'[s][i] = a[i] /\ a[i] \in Arrivals
      /\ arrived'[s][n + 1].number = line.number /\ arrived'[s][n + 1].count = line.count
      /\ arrived'[s][n + 1].ID = line.ID
      /\ line.count \in Int /\ line.number \in Int
  <2>1. \A i \in 1..n : a[i] \in Arrivals
    BY Places, SMTT(60)
  <2>2. /\ n \in Nat /\ \A i \in 1..n : arrived'[s][i] = a[i]
        /\ arrived'[s][n + 1] =
             [count |-> line.count, number |-> line.number, ID |-> line.ID, time |-> clock]
        /\ line.count \in Int /\ line.number \in Int
    <3>1. HasCome(s, line, n)
      BY Appended, Zenon
    <3>2. QED
      BY <3>1, Zenon DEF HasCome
  <2>3. QED
    BY <2>1, <2>2, SMTT(60)
<1>2. /\ Begins(s, first, n) /\ line.number = n - first + 2
      /\ n - first + 1 < a[first].count /\ a[first].number = 1
      /\ \A i \in first..n : /\ a[i].number = i - first + 1
                            /\ a[i].count = line.count /\ a[i].ID = line.ID
  <2>1. \A i \in first..n + 1 : /\ arrived'[s][i].number = i - first + 1
                               /\ arrived'[s][i].count = a[first].count
                               /\ arrived'[s][i].ID = a[first].ID
    BY <1>1, ZenonT(60) DEF Begins
  <2>2. n \in Nat /\ first \in 1..n
    BY <1>1
  <2>3. \A i \in 1..n : arrived'[s][i] = a[i]
    BY <1>1
  <2>4. line.number = n - first + 2 /\ line.count = a[first].count /\ line.ID = a[first].ID
    <3>1. PICK k \in first..n + 1 : k = n + 1
      BY <2>2, SMTT(60)
    <3>2. /\ arrived'[s][k].number = k - first + 1
          /\ arrived'[s][k].count = a[first].count /\ arrived'[s][k].ID = a[first].ID
      BY <2>1, Zenon
    <3>3. k - first + 1 = n - first + 2
      BY <2>2, <3>1
    <3>4. /\ arrived'[s][k].number = line.number /\ arrived'[s][k].count = line.count
          /\ arrived'[s][k].ID = line.ID
      BY <1>1, <3>1
    <3>5. QED
      BY <3>2, <3>3, <3>4, SMTT(60)
  <2>5. ASSUME NEW i \in first..n
        PROVE  a[i].number = i - first + 1 /\ a[i].count = a[first].count /\ a[i].ID = a[first].ID
    <3>1. i \in first..n + 1 /\ i \in 1..n
      BY <2>2, SMTT(60)
    <3>2. QED
      BY <2>1, <2>3, <3>1, ZenonT(60)
  <2>6. n - first + 1 < a[first].count
    <3>1. \A m, y, c \in Int : m - y + 2 <= c => m - y + 1 < c
      OBVIOUS
    <3>2. n \in Int /\ first \in Int /\ a[first].count \in Int /\ n - first + 2 <= a[first].count
      BY <1>1, <2>2, <2>4, SMTT(60)
    <3>3. QED
      BY <3>1, <3>2, Zenon
  <2>7. a[first].number = 1
    <3>1. first \in first..n /\ first - first + 1 = 1
      BY <2>2
    <3>2. QED
      BY <2>5, <3>1, Zenon
  <2>8. QED
    BY <2>4, <2>5, <2>6, <2>7 DEF Begins
<1>3. \A i \in first..n : Entry(s, i) \in queue
  BY <1>2, SMTT(60) DEF Kept
<1>4. Entry(s, first) \in Of(queue, s)
  BY <1>1, <1>3, SMTT(60) DEF Of, Entry
<1>5. PICK f \in 1..n, from \in 1..n : Waits(s, f, from)
  BY <1>4, Zenon DEF TypeOK
<1>6. from <= first /\ f <= from
  <2>1. PICK i \in from..n : Entry(s, first) = Entry(s, i)
    BY <1>4, <1>5 DEF Waits
  <2>2. i = first
    BY <2>1, SMTT(60) DEF Entry
  <2>3. QED
    BY <1>1, <1>5, <2>1, <2>2 DEF Waits
<1>7. f = first
  <2>1. a[first].number = first - f + 1
    BY <1>1, <1>5, <1>6 DEF Waits, Begins
  <2>2. first - f + 1 = 1
    BY <1>2, <2>1, Zenon
  <2>3. QED
    BY <1>1, <1>5, <2>2
<1>8. Of(queue, s) = {Entry(s, i) : i \in first..n}
  BY <1>1, <1>5, <1>6, <1>7, SMTT(60) DEF Waits
<1>9. Continues(Queued(s, line))
  <2>1. n \in first..n /\ line.number = a[n].number + 1 /\ a[n].count = line.count /\ a[n].ID = line.ID
    <3>1. n \in first..n /\ n - first + 2 = (n - first + 1) + 1
      BY <1>1, SMTT(60)
    <3>2. a[n].number = n - first + 1 /\ a[n].count = line.count /\ a[n].ID = line.ID
      BY <1>2, <3>1, Zenon
    <3>3. QED
      BY <1>2, <3>1, <3>2
  <2>2. QED
    BY <1>5, <2>1, Continuing
<1>10. QED
  BY <1>2, <1>3, <1>8, <1>9

LEMMA TimelyStep ==
  ASSUME TypeOK, Timely, NEW s \in Streams, NEW line \in Line, line.count # 1, Comes(s, line),
         UNCHANGED clock
  PROVE  Timely'
<1> DEFINE n == Len(arrived[s])
           e == [count |-> line.count, number |-> line.number, ID |-> line.ID, time |-> clock]
<1>1. /\ \A t \in Streams : t # s => arrived'[t] = arrived[t]
      /\ n \in Nat /\ Len(arrived'[s]) = n + 1
      /\ \A i \in 1..n : arrived'[s][i] = arrived[s][i]
      /\ arrived'[s][n + 1] = e
      /\ arrived' \in [Streams -> Seq(Arrivals)]
  <2>1. HasCome(s, line, n)
    BY Appended, Zenon
  <2>2. QED
    BY <2>1, Zenon DEF HasCome
<1>2. ASSUME NEW t \in Streams, NEW i \in 1..Len(arrived'[t]), NEW j \in 1..Len(arrived'[t])
      PROVE  /\ arrived'[t][i].time <= clock'
             /\ i <= j => arrived'[t][i].time <= arrived'[t][j].time
  <2>1. CASE t # s
    BY <1>1, <2>1, ZenonT(60) DEF Timely
  <2>2. CASE t = s
    <3>1. e.time = clock /\ clock \in Nat
      BY <1>1 DEF TypeOK
    <3>2. \A k \in 1..n : arrived[s][k].time <= clock
      BY SMTT(60) DEF Timely
    <3>3. \A k \in 1..n + 1 : k \in 1..n \/ k = n + 1
      BY <1>1, SMTT(60)
    <3>4. \A k \in 1..n + 1 : arrived'[s][k].time <= clock
      <4>1. SUFFICES ASSUME NEW k \in 1..n + 1 PROVE arrived'[s][k].time <= clock
        OBVIOUS
      <4>2. CASE k \in 1..n
        BY <1>1, <3>2, <4>2, Zenon
      <4>3. CASE k = n + 1
        <5>1. arrived'[s][n + 1].time = clock
          BY <1>1
        <5>2. QED
          BY <3>1, <4>3, <5>1
      <4>4. QED
        BY <3>3, <4>2, <4>3, Zenon
    <3>5. CASE j = n + 1
      BY <1>1, <2>2, <3>1, <3>4, <3>5, SMTT(60)
    <3>6. CASE j \in 1..n
      <4>1. i <= j => i \in 1..n
        BY <1>1, <2>2, <3>6
      <4>2. i <= j => arrived[s][i].time <= arrived[s][j].time
        BY <4>1, <3>6 DEF Timely
      <4>3. QED
        BY <1>1, <2>2, <3>4, <3>6, <4>1, <4>2, Zenon
    <3>7. QED
      BY <1>1, <2>2, <3>3, <3>5, <3>6
  <2>3. QED
    BY <2>1, <2>2
<1>3. QED
  BY <1>1, <1>2, Zenon DEF Timely

\* What submitAIS does: the line is dropped, queued or the last of a message that is put together.
LEMMA Outcomes ==
  ASSUME NEW s \in Streams, NEW line \in Line, NEW l, l = Queued(s, line), Submit(l)
  PROVE  /\ \A t \in Streams : t # s =>
              \/ Of(queue', t) = Of(queue, t)
              \/ Of(queue', t) = {k \in Of(queue, t) : k.timestamp + Stale >= clock}
         /\ \A k \in queue' : k \in queue \/ k = l
         /\ \/ /\ ~Continues(l) /\ line.number # 1
               /\ Of(queue', s) = {} /\ Built' = Built
            \/ /\ line.number # line.count /\ Built' = Built
               /\ \/ Continues(l) /\ Of(queue', s) = Of(queue, s) \cup {l}
                  \/ ~Continues(l) /\ line.number = 1 /\ Of(queue', s) = {l}
            \/ /\ line.number = line.count /\ (Continues(l) \/ line.number = 1)
               /\ Of(queue', s) = {}
               /\ Continues(l) => Built' = Built \cup {[stream |-> s, parts |->
                    {k.at : k \in {k \in Of(queue, s) \cup {l} : k.count = line.count /\ k.ID = line.ID}}]}
<1>1. l.stream = s /\ l.count = line.count /\ l.number = line.number /\ l.ID = line.ID
  BY DEF Queued
<1>2. \A t \in Streams : Of(queue \cup {l}, t) = IF t = s THEN Of(queue, t) \cup {l} ELSE Of(queue, t)
  BY <1>1 DEF Of
<1>3. /\ Of(Clean(queue, s), s) = {} /\ Of(Clean(queue, s) \cup {l}, s) = {l}
      /\ \A t \in Streams : t # s =>
           /\ Of(Clean(queue, s), t) = {k \in Of(queue, t) : k.timestamp + Stale >= clock}
           /\ Of(Clean(queue, s) \cup {l}, t) = {k \in Of(queue, t) : k.timestamp + Stale >= clock}
  BY <1>1 DEF Of, Clean
<1>4. Queue(l) = queue \cup {l} \/ Queue(l) = Clean(queue, s) \cup {l}
  BY <1>1 DEF Queue
<1>5. /\ Of(Clean(Queue(l), s), s) = {}
      /\ \A t \in Streams : t # s =>
           Of(Clean(Queue(l), s), t) = {k \in Of(queue, t) : k.timestamp + Stale >= clock}
  BY <1>1, <1>4 DEF Of, Clean
<1>6. \A k \in Clean(queue, s) \cup Clean(Queue(l), s) \cup Queue(l) : k \in queue \/ k = l
  BY <1>4 DEF Clean
<1>7. CASE ~Continues(l) /\ l.number # 1
  <2>1. queue' = Clean(queue, s) /\ Built' = Built
    BY <1>1, <1>7 DEF Submit, Built
  <2>2. QED
    BY <1>1, <1>3, <1>6, <1>7, <2>1
<1>8. CASE ~(~Continues(l) /\ l.number # 1) /\ l.number # l.count
  <2>1. queue' = Queue(l) /\ Built' = Built
    BY <1>8 DEF Submit, Built
  <2>2. CASE Continues(l)
    <3>1. queue' = queue \cup {l}
      BY <2>1, <2>2 DEF Queue
    <3>2. QED
      BY <1>1, <1>2, <1>6, <1>8, <2>1, <2>2, <3>1, Zenon
  <2>3. CASE ~Continues(l)
    <3>1. queue' = Clean(queue, s) \cup {l}
      BY <1>1, <2>1, <2>3 DEF Queue
    <3>2. QED
      BY <1>1, <1>3, <1>6, <1>8, <2>1, <2>3, <3>1, ZenonT(60)
  <2>4. QED
    BY <2>2, <2>3
<1>9. CASE ~(~Continues(l) /\ l.number # 1) /\ l.number = l.count
  <2>1. /\ queue' = Clean(Queue(l), s)
        /\ Built' = Built \cup {[stream |-> s, parts |-> {k.at : k \in Collect(Queue(l), l)}]}
    BY <1>1, <1>9 DEF Submit, Send, Built
  <2>2. Continues(l) => Collect(Queue(l), l) = {k \in Of(queue, s) \cup {l} : k.count = line.count /\ k.ID = line.ID}
    BY <1>1, <1>2, ZenonT(60) DEF Collect, Queue
  <2>3. QED
    BY <1>1, <1>5, <1>6, <1>9, <2>1, <2>2
<1>10. QED
  BY <1>7, <1>8, <1>9

\* What came before a line makes the same messages after it.
LEMMA OldRuns ==
  ASSUME TypeOK, Timely, NEW s \in Streams, NEW line \in Line, line.count # 1, Comes(s, line),
         NEW t \in Streams, NEW n, n = Len(arrived[t]), NEW first \in 1..n
  PROVE  \A last \in 1..n : /\ Begins(t, first, last)' <=> Begins(t, first, last)
                            /\ IsRun(t, first, last)' <=> IsRun(t, first, last)
                            /\ TooOld(t, first, last)' <=> TooOld(t, first, last)
<1>1. n \in Nat /\ \A i \in 1..n : arrived'[t][i] = arrived[t][i]
  <2>1. HasCome(s, line, Len(arrived[s]))
    BY Appended, Zenon
  <2>2. t # s => arrived'[t] = arrived[t]
    BY <2>1, Zenon DEF HasCome
  <2>3. t = s => \A i \in 1..n : arrived'[t][i] = arrived[t][i]
    BY <2>1, ZenonT(60) DEF HasCome
  <2>4. n \in Nat
    BY Places
  <2>5. QED
    BY <2>2, <2>3, <2>4, Zenon
<1>2. ASSUME NEW last \in 1..n PROVE Begins(t, first, last)' <=> Begins(t, first, last)
  <2>1. \A i \in first..last : i \in 1..n
    BY <1>1
  <2>2. QED
    BY <1>1, <2>1, ZenonT(60) DEF Begins
<1>3. QED
  BY <1>1, <1>2, SMTT(60) DEF IsRun, TooOld

\* The queue has of each stream what it should.
LEMMA TypeStep ==
  ASSUME TypeOK, Timely, NEW s \in Streams, NEW line \in Line, line.count # 1, Comes(s, line),
         NEW l, l = Queued(s, line), Submit(l), UNCHANGED clock, NEW n, n = Len(arrived[s])
  PROVE  TypeOK'
<1>1. /\ \A t \in Streams : t # s => arrived'[t] = arrived[t]
      /\ n \in Nat /\ Len(arrived'[s]) = n + 1
      /\ \A i \in 1..n : arrived'[s][i] = arrived[s][i]
      /\ arrived'[s][n + 1] = [count |-> line.count, number |-> line.number, ID |-> line.ID, time |-> clock]
      /\ line.count \in Values \ {1} /\ line.number \in Values /\ line.ID \in IDs
      /\ line.count \in Int /\ line.number \in Int /\ line.count # 1
  <2>1. HasCome(s, line, n)
    BY Appended, Zenon
  <2>2. QED
    BY <2>1, Zenon DEF HasCome
<1>2. /\ \A i \in 1..n : Entry(s, i)' = Entry(s, i)
      /\ Entry(s, n + 1)' = l
  <2>1. HasCome(s, line, n)
    BY Appended, Zenon
  <2>2. QED
    BY <2>1, Zenon DEF HasCome
<1>3. clock' \in 0..MaxTime
  BY DEF TypeOK
<1>4. ASSUME NEW t \in Streams, NEW i \in 1..Len(arrived'[t])
      PROVE  arrived'[t][i] \in [count : Values \ {1}, number : Values, ID : IDs, time : 0..clock']
  <2>1. CASE t # s \/ i \in 1..n
    <3>1. i \in 1..Len(arrived[t]) /\ arrived'[t][i] = arrived[t][i]
      BY <1>1, <2>1, Zenon
    <3>2. QED
      BY <3>1 DEF TypeOK
  <2>2. CASE t = s /\ i = n + 1
    <3>1. line.number \in Values /\ clock \in 0..clock
      BY <1>1, <1>3, SMTT(60)
    <3>2. arrived'[t][i] = [count |-> line.count, number |-> line.number, ID |-> line.ID, time |-> clock]
      BY <1>1, <2>2, Zenon
    <3>3. line.count \in Values \ {1} /\ line.ID \in IDs /\ clock' = clock
      BY <1>1, Zenon
    <3>4. QED
      BY <3>1, <3>2, <3>3, SMTT(60)
  <2>3. QED
    BY <1>1, <2>1, <2>2, SMTT(60)
<1>5. \A k \in queue' : k.stream \in Streams
  <2>1. \A k \in queue' : k \in queue \/ k = l
    BY Outcomes
  <2>2. l.stream = s
    BY DEF Queued
  <2>3. QED
    BY <2>1, <2>2 DEF TypeOK
<1>6. ASSUME NEW t \in Streams, t # s
      PROVE  Of(queue', t) = {} \/ \E first, from \in 1..Len(arrived'[t]) : Waits(t, first, from)'
  <2>1. \/ Of(queue', t) = Of(queue, t)
        \/ Of(queue', t) = {k \in Of(queue, t) : k.timestamp + Stale >= clock}
    BY <1>6, Outcomes
  <2>2. QED
    BY <1>1, <1>6, <2>1, WaitsOn
<1>7. ASSUME Of(queue', s) = {l}, line.number = 1, line.number # line.count
      PROVE  \E first, from \in 1..n + 1 : Waits(s, first, from)'
  <2> DEFINE m == n + 1
  <2>1. /\ m \in 1..n + 1 /\ m \in Nat /\ Len(arrived'[s]) = m
        /\ \A i \in m..m : i = m /\ i - m + 1 = 1
        /\ m \in m..m /\ \A i \in m..m - 1 : FALSE
    BY <1>1, SMTT(60)
  <2>2. /\ arrived'[s][m].number = 1 /\ arrived'[s][m].count = line.count
        /\ line.count < 1 \/ 1 < line.count
    BY <1>1, <1>7, SMTT(60)
  <2> HIDE DEF m
  <2>3. Begins(s, m, m)'
    BY <2>1, <2>2, Zenon DEF Begins
  <2>4. Of(queue', s) = {Entry(s, i)' : i \in m..m}
    BY <1>2, <1>7, <2>1 DEF m
  <2>5. arrived'[s][m].count < 1 \/ arrived'[s][m].number < arrived'[s][m].count
    BY <2>2
  <2>6. Waits(s, m, m)'
    BY <2>1, <2>3, <2>4, <2>5 DEF Waits, Begins
  <2>7. QED
    BY <2>1, <2>6
<1>8. ASSUME Continues(l), Of(queue', s) = Of(queue, s) \cup {l}, line.number # line.count,
             Of(queue, s) # {}
      PROVE  \E first, from \in 1..n + 1 : Waits(s, first, from)'
  <2>1. PICK first \in 1..n, from \in 1..n : Waits(s, first, from)
    BY <1>8 DEF TypeOK
  <2>2. /\ arrived[s][n].count = line.count /\ arrived[s][n].ID = line.ID
        /\ line.number = arrived[s][n].number + 1
    BY <1>8, <2>1, Continuing
  <2>3. first <= from /\ from <= n /\ first \in 1..n + 1 /\ from \in 1..n + 1
    BY <1>1, <2>1, SMTT(60) DEF Waits
  <2>4. /\ \A i \in first..n : /\ arrived[s][i].number = i - first + 1
                              /\ arrived[s][i].count = arrived[s][first].count
                              /\ arrived[s][i].ID = arrived[s][first].ID
        /\ n \in first..n
    BY <1>1, <2>1 DEF Waits, Begins
  <2>5. /\ line.number = n + 1 - first + 1 /\ line.count = arrived[s][first].count
        /\ line.ID = arrived[s][first].ID
    <3>1. /\ arrived[s][n].number = n - first + 1 /\ arrived[s][n].count = arrived[s][first].count
          /\ arrived[s][n].ID = arrived[s][first].ID
      BY <2>4
    <3>2. (n - first + 1) + 1 = n + 1 - first + 1 /\ first \in 1..n
      BY <1>1, <2>3
    <3>3. QED
      BY <2>2, <3>1, <3>2
  <2>6. ASSUME NEW i \in first..n + 1
        PROVE  /\ arrived'[s][i].number = i - first + 1
               /\ arrived'[s][i].count = arrived'[s][first].count
               /\ arrived'[s][i].ID = arrived'[s][first].ID
    <3>1. i \in first..n \/ i = n + 1
      BY <1>1, SMTT(60)
    <3>2. arrived'[s][first] = arrived[s][first]
      BY <1>1
    <3>3. CASE i \in first..n
      <4>1. arrived'[s][i] = arrived[s][i]
        BY <1>1, <2>3, <3>3
      <4>2. QED
        BY <2>4, <3>2, <3>3, <4>1, ZenonT(60)
    <3>4. CASE i = n + 1
      <4>1. arrived'[s][i] = [count |-> line.count, number |-> line.number, ID |-> line.ID, time |-> clock]
        BY <1>1, <3>4, Zenon
      <4>2. /\ arrived'[s][i].number = line.number /\ arrived'[s][i].count = line.count
            /\ arrived'[s][i].ID = line.ID
        BY <4>1
      <4>3. QED
        BY <2>5, <3>2, <3>4, <4>2
    <3>5. QED
      BY <3>1, <3>3, <3>4
  <2>7. Of(queue', s) = {Entry(s, i)' : i \in from..n + 1}
    <3>1. from..n + 1 = (from..n) \cup {n + 1}
      BY <1>1, <2>3, SMTT(60)
    <3>2. \A i \in from..n : Entry(s, i)' = Entry(s, i)
      BY <1>1, <1>2, <2>3
    <3>3. Of(queue, s) = {Entry(s, i) : i \in from..n}
      BY <2>1 DEF Waits
    <3>4. Entry(s, n + 1)' = l
      BY <1>2
    <3>5. QED
      <4>1. {Entry(s, i)' : i \in from..n + 1} = {Entry(s, i)' : i \in from..n} \cup {Entry(s, n + 1)'}
        BY <3>1, ZenonT(60)
      <4>2. {Entry(s, i)' : i \in from..n} = {Entry(s, i) : i \in from..n}
        BY <3>2, Zenon
      <4>3. QED
        BY <1>8, <3>3, <3>4, <4>1, <4>2, Zenon
  <2>8. \A i \in first..from - 1 : arrived'[s][i].time + Stale < clock'
    <3>1. \A i \in first..from - 1 : arrived[s][i].time + Stale < clock /\ i \in 1..n
      BY <1>1, <2>1, <2>3, SMTT(60) DEF Waits
    <3>2. QED
      BY <1>1, <3>1, Zenon
  <2>9. arrived'[s][n + 1].count < 1 \/ arrived'[s][n + 1].number < arrived'[s][n + 1].count
    <3>1. arrived[s][n].count < 1 \/ arrived[s][n].number < arrived[s][n].count
      BY <2>1 DEF Waits
    <3>2. arrived[s][n].number = n - first + 1
      BY <2>4
    <3>3. QED
      BY <1>1, <1>8, <2>2, <2>3, <3>1, <3>2, SMTT(60)
  <2>10. Waits(s, first, from)'
    BY <1>1, <2>3, <2>6, <2>7, <2>8, <2>9 DEF Waits, Begins
  <2>11. QED
    BY <1>1, <2>3, <2>10
<1>9. \/ Of(queue', s) = {} \/ \E first, from \in 1..Len(arrived'[s]) : Waits(s, first, from)'
  <2>1. Continues(l) /\ Of(queue, s) = {} => line.number = 1
    BY Continuing
  <2>2. \/ Of(queue', s) = {}
        \/ /\ line.number # line.count
           /\ \/ Continues(l) /\ Of(queue', s) = Of(queue, s) \cup {l}
              \/ ~Continues(l) /\ line.number = 1 /\ Of(queue', s) = {l}
    BY Outcomes
  <2>3. Of(queue, s) = {} => Of(queue, s) \cup {l} = {l}
    OBVIOUS
  <2>4. QED
    BY <1>1, <1>7, <1>8, <2>1, <2>2, <2>3
<1>10. QED
  BY <1>3, <1>4, <1>5, <1>6, <1>9, SMTT(60) DEF TypeOK

\* Nothing of a message that is under way is thrown away before its first part is too old.
LEMMA KeptStep ==
  ASSUME TypeOK, Timely, Kept, NEW s \in Streams, NEW line \in Line, line.count # 1, Comes(s, line),
         NEW l, l = Queued(s, line), Submit(l), UNCHANGED clock, NEW n, n = Len(arrived[s])
  PROVE  Kept'
<1>1. /\ \A t \in Streams : t # s => arrived'[t] = arrived[t]
      /\ n \in Nat /\ Len(arrived'[s]) = n + 1
      /\ \A i \in 1..n : arrived'[s][i] = arrived[s][i]
      /\ arrived'[s][n + 1] = [count |-> line.count, number |-> line.number, ID |-> line.ID, time |-> clock]
      /\ \A i \in 1..n : Entry(s, i)' = Entry(s, i)
      /\ Entry(s, n + 1)' = l
      /\ arrived'[s][n + 1].count = line.count /\ line.count \in Int
      /\ \A t \in Streams : t # s => \A i : Entry(t, i)' = Entry(t, i)
  <2>1. HasCome(s, line, n)
    BY Appended, Zenon
  <2>2. QED
    BY <2>1, Zenon DEF HasCome
<1>2. ASSUME NEW t \in Streams, t # s, NEW m, m = Len(arrived[t]), NEW first \in 1..m, Begins(t, first, m)',
             m - first + 1 < arrived'[t][first].count, arrived'[t][first].time + Stale >= clock',
             NEW i \in first..m
      PROVE  Entry(t, i)' \in queue'
  <2>1. arrived'[t] = arrived[t] /\ Entry(t, i)' = Entry(t, i) /\ m \in Nat
    BY <1>1, <1>2, Places
  <2>2. Begins(t, first, m)
    BY <1>2, <2>1 DEF Begins
  <2>3. Entry(t, i) \in queue
    BY <1>2, <2>1, <2>2, Zenon DEF Kept
  <2>4. Entry(t, i) \in Of(queue, t) /\ Entry(t, i).timestamp = arrived[t][i].time
    BY <2>3 DEF Of, Entry
  <2>5. Entry(t, i).timestamp + Stale >= clock
    <3>1. i \in 1..m /\ first <= i
      BY <2>1
    <3>2. /\ arrived[t][first].time <= arrived[t][i].time
          /\ arrived[t][i] \in Arrivals /\ arrived[t][first] \in Arrivals
      BY <1>2, <3>1, Places, SMTT(60) DEF Timely
    <3>3. arrived[t][i].time \in Nat /\ arrived[t][first].time \in Nat /\ clock \in Nat
      <4>1. \A a \in Arrivals : a.time \in Nat
        BY DEF Arrivals
      <4>2. clock \in Nat
        BY DEF TypeOK
      <4>3. QED
        BY <3>2, <4>1, <4>2, Zenon
    <3>4. arrived[t][first].time + Stale >= clock
      BY <1>2, <2>1
    <3>5. QED
      <4>1. arrived[t][i].time + Stale >= clock
        BY <3>2, <3>3, <3>4, Ages, Zenon
      <4>2. Entry(t, i).timestamp = arrived[t][i].time
        BY <2>4, Zenon
      <4>3. QED
        BY <4>1, <4>2, Zenon
  <2>6. \/ Of(queue', t) = Of(queue, t)
        \/ Of(queue', t) = {k \in Of(queue, t) : k.timestamp + Stale >= clock}
    BY <1>2, Outcomes, SMTT(60)
  <2>7. Entry(t, i) \in Of(queue', t)
    BY <2>4, <2>5, <2>6
  <2>8. QED
    BY <2>1, <2>7 DEF Of
<1>3. ASSUME NEW first \in 1..n + 1, Begins(s, first, n + 1)',
             n + 1 - first + 1 < arrived'[s][first].count, arrived'[s][first].time + Stale >= clock',
             NEW i \in first..n + 1
      PROVE  Entry(s, i)' \in queue'
  <2>1. n \in Nat /\ n + 1 \in first..n + 1
    BY <1>1
  <2>2. /\ arrived'[s][n + 1].number = n + 1 - first + 1
        /\ arrived'[s][n + 1].count = arrived'[s][first].count
    <3>1. \A k \in first..n + 1 : /\ arrived'[s][k].number = k - first + 1
                                 /\ arrived'[s][k].count = arrived'[s][first].count
      BY <1>3, Zenon DEF Begins
    <3>2. PICK k \in first..n + 1 : k = n + 1
      BY <2>1, Zenon
    <3>3. /\ arrived'[s][k].number = k - first + 1
          /\ arrived'[s][k].count = arrived'[s][first].count
      BY <3>1, Zenon
    <3>4. QED
      BY <3>2, <3>3, SMTT(60)
  <2>3. line.number # line.count
    BY <1>1, <1>3, <2>2
  <2>4. CASE first = n + 1
    <3>1. line.number = 1 /\ i = n + 1
      BY <1>1, <2>2, <2>4
    <3>2. l \in Of(queue', s)
      BY <2>3, <3>1, Outcomes
    <3>3. QED
      BY <1>1, <3>1, <3>2 DEF Of
  <2>5. CASE first \in 1..n
    <3>1. arrived[s][first].time + Stale >= clock
      BY <1>1, <1>3, <2>5, Zenon
    <3>2. Continues(l) /\ \A k \in first..n : Entry(s, k) \in Of(queue, s)
      <4>1. /\ Continues(l) /\ \A k \in first..n : Entry(s, k) \in queue
        <5>1. n - first + 2 <= line.count
          <6>1. arrived'[s][first].count = line.count /\ line.count \in Int
            BY <1>1, <2>2, Zenon
          <6>2. n \in Nat /\ first \in 1..n
            BY <1>1, <2>5
          <6>3. n + 1 - first + 1 < line.count
            BY <1>3, <6>1, Zenon
          <6>4. QED
            BY <6>1, <6>2, <6>3, SMTT(60)
        <5>2. QED
          BY <1>3, <2>5, <3>1, <5>1, GoesOn, Zenon
      <4>2. QED
        BY <4>1 DEF Of, Entry
    <3>3. Of(queue', s) = Of(queue, s) \cup {l}
      BY <2>3, <3>2, Outcomes
    <3>4. i \in first..n \/ i = n + 1
      BY <1>1, SMTT(60)
    <3>5. i \in first..n => Entry(s, i)' = Entry(s, i)
      BY <1>1, <2>5
    <3>6. Entry(s, i)' \in Of(queue', s)
      BY <1>1, <3>2, <3>3, <3>4, <3>5
    <3>7. QED
      BY <3>6 DEF Of
  <2>6. QED
    BY <1>1, <2>4, <2>5, SMTT(60)
<1>4. QED
  <2>1. SUFFICES ASSUME NEW t \in Streams, NEW m, m = Len(arrived'[t]), NEW first \in 1..m, Begins(t, first, m)',
                        m - first + 1 < arrived'[t][first].count,
                        arrived'[t][first].time + Stale >= clock', NEW i \in first..m
                 PROVE  Entry(t, i)' \in queue'
    BY ZenonT(60) DEF Kept, Begins
  <2>2. t # s => m = Len(arrived[t])
    BY <1>1, <2>1, SMTT(60)
  <2>3. t = s => m = n + 1
    BY <1>1, <2>1
  <2>4. CASE t # s
    BY <1>2, <2>1, <2>2, <2>4, Zenon
  <2>5. CASE t = s
    <3>1. Begins(s, first, n + 1)'
      BY <2>1, <2>3, <2>5 DEF Begins
    <3>2. /\ first \in 1..n + 1 /\ n + 1 - first + 1 < arrived'[s][first].count
          /\ arrived'[s][first].time + Stale >= clock' /\ i \in first..n + 1
      <4>1. t = s /\ m = n + 1
        BY <2>3, <2>5, Zenon
      <4>2. m - first + 1 < arrived'[t][first].count /\ arrived'[t][first].time + Stale >= clock'
        BY <2>1, Zenon
      <4>3. first \in 1..n + 1 /\ i \in first..n + 1
        BY <4>1, Zenon
      <4>4. QED
        BY <4>1, <4>2, <4>3, SMTT(60)
    <3>3. Entry(s, i)' \in queue'
      BY <1>3, <3>1, <3>2, SMTT(60)
    <3>4. QED
      BY <2>5, <3>3 DEF Entry
  <2>6. QED
    BY <2>4, <2>5

\* The message that a line completes is put together from the lines it should be.
LEMMA SendsRun ==
  ASSUME TypeOK, Timely, Kept, NEW s \in Streams, NEW line \in Line, line.count # 1, Comes(s, line),
         NEW l, l = Queued(s, line), Submit(l), UNCHANGED clock, NEW n, n = Len(arrived[s])
  PROVE  \/ /\ Built' = Built
            /\ \A first \in 1..n + 1 : ~ (IsRun(s, first, n + 1) /\ ~TooOld(s, first, n + 1))'
         \/ \E first, from \in 1..n :
              /\ Built' = Built \cup {[stream |-> s, parts |-> from..n + 1]}
              /\ first <= from /\ IsRun(s, first, n + 1)'
              /\ \A i \in first..from - 1 : TooOld(s, i, n + 1)'
              /\ \A f \in 1..n + 1 : (IsRun(s, f, n + 1) /\ ~TooOld(s, f, n + 1))' => f = from
<1>1. /\ n \in Nat /\ Len(arrived'[s]) = n + 1
      /\ \A i \in 1..n : arrived'[s][i] = arrived[s][i]
      /\ arrived'[s][n + 1].count = line.count /\ arrived'[s][n + 1].number = line.number
      /\ arrived'[s][n + 1].ID = line.ID /\ arrived'[s][n + 1].time = clock
      /\ line.count \in Int /\ line.number \in Int /\ line.count # 1
  <2>1. HasCome(s, line, n)
    BY Appended, Zenon
  <2>2. QED
    BY <2>1, Zenon DEF HasCome
<1>2. clock \in Nat /\ \A i \in 1..n : arrived[s][i].time \in Nat
  <2>1. \A i \in 1..n : arrived[s][i] \in Arrivals
    BY Places, Zenon
  <2>2. \A a \in Arrivals : a.time \in Nat
    BY DEF Arrivals
  <2>3. clock \in Nat
    BY DEF TypeOK
  <2>4. QED
    BY <2>1, <2>2, <2>3, Zenon
<1>3. ASSUME NEW f \in 1..n + 1, IsRun(s, f, n + 1)', ~TooOld(s, f, n + 1)'
      PROVE  /\ f \in 1..n /\ line.number = line.count /\ Continues(l)
             /\ Of(queue, s) = {Entry(s, i) : i \in f..n}
  <2>1. n \in Nat /\ n + 1 \in f..n + 1 /\ f \in f..n + 1
    BY <1>1
  <2>2. /\ arrived'[s][n + 1].number = n + 1 - f + 1
        /\ arrived'[s][n + 1].count = arrived'[s][f].count
        /\ arrived'[s][f].count = n + 1 - f + 1
    <3>1. Begins(s, f, n + 1)' /\ arrived'[s][f].count = n + 1 - f + 1
      BY <1>3, SMTT(60) DEF IsRun
    <3>2. \A i \in f..n + 1 : /\ arrived'[s][i].number = i - f + 1
                            /\ arrived'[s][i].count = arrived'[s][f].count
      BY <3>1, Zenon DEF Begins
    <3>3. PICK k \in f..n + 1 : k = n + 1
      BY <2>1, Zenon
    <3>4. /\ arrived'[s][k].number = k - f + 1
          /\ arrived'[s][k].count = arrived'[s][f].count
      BY <3>2, Zenon
    <3>5. QED
      BY <3>1, <3>3, <3>4, SMTT(60)
  <2>3. line.number = line.count /\ line.count = n + 1 - f + 1
    BY <1>1, <2>2
  <2>4. f \in 1..n
    BY <1>1, <2>3
  <2>5. arrived[s][f].time + Stale >= clock
    <3>1. arrived'[s][n + 1].time = clock /\ arrived'[s][f].time = arrived[s][f].time
      BY <1>1, <2>4, SMTT(60)
    <3>2. ~ (clock - arrived[s][f].time > Stale)
      BY <1>3, <3>1 DEF TooOld
    <3>3. clock \in Nat /\ arrived[s][f].time \in Nat
      BY <1>2, <2>4, Zenon
    <3>4. QED
      BY <3>2, <3>3, Ages, ZenonT(60)
  <2>6. Begins(s, f, n + 1)'
    BY <1>3 DEF IsRun
  <2>7. QED
    <3>1. n - f + 2 <= line.count
      BY <1>1, <2>3, <2>4, SMTT(60)
    <3>2. QED
      BY <2>3, <2>4, <2>5, <2>6, <3>1, GoesOn, Zenon
<1>4. CASE ~ (line.number = line.count /\ (Continues(l) \/ line.number = 1))
  <2>1. Built' = Built
    BY <1>4, Outcomes
  <2>2. QED
    BY <1>3, <1>4, <2>1
<1>5. CASE line.number = line.count /\ (Continues(l) \/ line.number = 1)
  <2>1. Continues(l) /\ line.number # 1
    BY <1>1, <1>5
  <2>2. Of(queue, s) # {}
    BY <2>1, Continuing
  <2>3. PICK first \in 1..n, from \in 1..n : Waits(s, first, from)
    BY <2>2, SMTT(60) DEF TypeOK
  <2>4. /\ arrived[s][n].count = line.count /\ arrived[s][n].ID = line.ID
        /\ line.number = arrived[s][n].number + 1
    BY <2>1, <2>3, Continuing, SMTT(60)
  <2>5. first <= from /\ n \in first..n
    BY <1>1, <2>3 DEF Waits
  <2>6. \A i \in first..n : /\ arrived[s][i].number = i - first + 1
                           /\ arrived[s][i].count = line.count /\ arrived[s][i].ID = line.ID
    BY <2>3, <2>4, <2>5, SMTT(60) DEF Waits, Begins
  <2>7. line.count = n + 1 - first + 1
    <3>1. arrived[s][n].number = n - first + 1
      BY <2>5, <2>6, Zenon
    <3>2. QED
      BY <1>1, <1>5, <2>4, <3>1, SMTT(60)
  <2>8. IsRun(s, first, n + 1)'
    <3>1. arrived'[s][first] = arrived[s][first] /\ first \in first..n
      BY <1>1, <2>5, SMTT(60)
    <3>2. ASSUME NEW i \in first..n + 1
          PROVE  /\ arrived'[s][i].number = i - first + 1
                 /\ arrived'[s][i].count = arrived'[s][first].count
                 /\ arrived'[s][i].ID = arrived'[s][first].ID
      <4>1. CASE i \in first..n
        <5>1. arrived'[s][i] = arrived[s][i]
          BY <1>1, <4>1
        <5>2. QED
          BY <2>6, <3>1, <4>1, <5>1, ZenonT(60)
      <4>2. CASE i = n + 1
        <5>1. /\ arrived'[s][i].number = line.number /\ arrived'[s][i].count = line.count
              /\ arrived'[s][i].ID = line.ID
          BY <1>1, <4>2, SMTT(60)
        <5>2. arrived'[s][first].count = line.count /\ arrived'[s][first].ID = line.ID
          BY <2>6, <3>1, SMTT(60)
        <5>3. QED
          BY <1>5, <2>7, <4>2, <5>1, <5>2
      <4>3. QED
        BY <1>1, <4>1, <4>2, SMTT(60)
    <3>3. arrived'[s][first].count = n + 1 - first + 1 /\ first <= n + 1
      BY <1>1, <2>6, <2>7, <3>1, SMTT(60)
    <3>4. QED
      BY <3>2, <3>3 DEF IsRun, Begins
  <2>9. {k.at : k \in {k \in Of(queue, s) \cup {l} : k.count = line.count /\ k.ID = line.ID}} = from..n + 1
    <3>1. Of(queue, s) = {Entry(s, i) : i \in from..n}
      BY <2>3 DEF Waits
    <3>2. \A i \in from..n : Entry(s, i).at = i /\ Entry(s, i).count = line.count /\ Entry(s, i).ID = line.ID
      BY <1>1, <2>5, <2>6, SMTT(60) DEF Entry
    <3>3. l.at = n + 1 /\ l.count = line.count /\ l.ID = line.ID
      BY DEF Queued
    <3>4. \A k \in Of(queue, s) \cup {l} : k.count = line.count /\ k.ID = line.ID
      BY <3>1, <3>2, <3>3
    <3>5. from..n + 1 = (from..n) \cup {n + 1}
      BY <1>1, <2>5, SMTT(60)
    <3>6. {k.at : k \in Of(queue, s) \cup {l}} = (from..n) \cup {n + 1}
      BY <3>1, <3>2, <3>3, SMTT(60)
    <3>7. QED
      BY <3>4, <3>5, <3>6, SMTT(60)
  <2>10. Built' = Built \cup {[stream |-> s, parts |-> from..n + 1]}
    <3>1. Built' = Built \cup {[stream |-> s, parts |->
                    {k.at : k \in {k \in Of(queue, s) \cup {l} : k.count = line.count /\ k.ID = line.ID}}]}
      BY <1>5, <2>1, Outcomes
    <3>2. QED
      BY <2>9, <3>1, Zenon
  <2>11. ASSUME NEW i \in first..from - 1 PROVE TooOld(s, i, n + 1)'
    <3>1. i \in 1..n /\ arrived[s][i].time + Stale < clock
      BY <1>1, <2>3, <2>5, SMTT(60) DEF Waits
    <3>2. QED
      <4>1. arrived'[s][n + 1].time = clock /\ arrived'[s][i].time = arrived[s][i].time
        BY <1>1, <3>1, Zenon
      <4>2. clock - arrived[s][i].time > Stale
        <5>1. clock \in Nat /\ arrived[s][i].time \in Nat
          BY <1>2, <3>1, Zenon
        <5>2. QED
          BY <3>1, <5>1, Ages, Zenon
      <4>3. QED
        BY <4>1, <4>2 DEF TooOld
  <2>12. ASSUME NEW f \in 1..n + 1, IsRun(s, f, n + 1)', ~TooOld(s, f, n + 1)'
         PROVE  f = from
    <3>1. f \in 1..n /\ Of(queue, s) = {Entry(s, i) : i \in f..n}
      BY <1>3, <2>12
    <3>2. Of(queue, s) = {Entry(s, i) : i \in from..n} /\ \A i : Entry(s, i).at = i
      BY <2>3 DEF Waits, Entry
    <3>3. (\A i \in f..n : i \in from..n) /\ (\A i \in from..n : i \in f..n)
      <4>1. \A i \in f..n : \E j \in from..n : Entry(s, i) = Entry(s, j)
        <5>1. \A i \in f..n : Entry(s, i) \in Of(queue, s)
          BY <3>1
        <5>2. QED
          BY <3>2, <5>1
      <4>2. \A i \in from..n : \E j \in f..n : Entry(s, i) = Entry(s, j)
        <5>1. \A i \in from..n : Entry(s, i) \in Of(queue, s)
          BY <3>2, SMTT(60)
        <5>2. QED
          BY <3>1, <5>1
      <4>3. \A i, j : Entry(s, i) = Entry(s, j) => i = j
        BY <3>2
      <4>4. QED
        BY <4>1, <4>2, <4>3, SMTT(60)
    <3>4. f \in from..n /\ from \in f..n
      BY <1>1, <3>1, <3>3
    <3>5. QED
      BY <1>1, <3>4
  <2>13. QED
    BY <2>5, <2>8, <2>10, <2>11, <2>12, SMTT(60)
<1>6. QED
  BY <1>4, <1>5, SMTT(60)

LEMMA SentStep ==
  ASSUME IInv, NEW s \in Streams, NEW line \in Line, line.count # 1, Comes(s, line),
         NEW l, l = Queued(s, line), Submit(l), UNCHANGED clock, NEW n, n = Len(arrived[s])
  PROVE  RunsAreBuilt' /\ SentAreRuns'
<1>1. TypeOK /\ Timely /\ Kept /\ RunsAreBuilt /\ SentAreRuns
  BY DEF IInv
<1>2. /\ \A t \in Streams : t # s => arrived'[t] = arrived[t]
      /\ n \in Nat /\ Len(arrived'[s]) = n + 1
  <2>1. HasCome(s, line, n)
    BY <1>1, Appended, Zenon
  <2>2. QED
    BY <2>1, Zenon DEF HasCome
<1>3. \/ /\ Built' = Built
         /\ \A first \in 1..n + 1 : ~ (IsRun(s, first, n + 1) /\ ~TooOld(s, first, n + 1))'
      \/ \E first, from \in 1..n :
           /\ Built' = Built \cup {[stream |-> s, parts |-> from..n + 1]}
           /\ first <= from /\ IsRun(s, first, n + 1)'
           /\ \A i \in first..from - 1 : TooOld(s, i, n + 1)'
           /\ \A f \in 1..n + 1 : (IsRun(s, f, n + 1) /\ ~TooOld(s, f, n + 1))' => f = from
  BY <1>1, SendsRun, SMTT(60)
<1>4. Built \subseteq Built'
  BY <1>3
<1>5. ASSUME NEW t \in Streams, NEW first \in 1..Len(arrived'[t]), NEW last \in 1..Len(arrived'[t]),
             IsRun(t, first, last)', ~TooOld(t, first, last)'
      PROVE  [stream |-> t, parts |-> first..last] \in Built'
  <2>1. first <= last /\ Len(arrived[t]) \in Nat
    BY <1>1, <1>5, Places, SMTT(60) DEF IsRun
  <2>2. CASE last \in 1..Len(arrived[t])
    <3>1. first \in 1..Len(arrived[t])
      BY <1>2, <2>1, <2>2
    <3>2. IsRun(t, first, last) /\ ~TooOld(t, first, last)
      BY <1>1, <1>5, <2>2, <3>1, OldRuns, SMTT(60)
    <3>3. QED
      BY <1>1, <1>4, <2>2, <3>1, <3>2 DEF RunsAreBuilt
  <2>3. CASE t = s /\ last = n + 1
    <3>1. first \in 1..n + 1 /\ IsRun(s, first, n + 1)' /\ ~TooOld(s, first, n + 1)'
      BY <1>2, <1>5, <2>3, Zenon DEF IsRun, Begins, TooOld
    <3>2. PICK from \in 1..n : /\ Built' = Built \cup {[stream |-> s, parts |-> from..n + 1]}
                               /\ first = from
      BY <1>3, <3>1
    <3>3. QED
      BY <2>3, <3>2
  <2>4. QED
    BY <1>2, <2>1, <2>2, <2>3, SMTT(60)
<1>6. ASSUME NEW m \in Built'
      PROVE  m.stream \in Streams /\ \E first, from, last \in 1..Len(arrived'[m.stream]) :
               /\ IsRun(m.stream, first, last)'
               /\ m.parts = from..last /\ first <= from /\ from <= last
               /\ \A i \in first..from - 1 : TooOld(m.stream, i, last)'
  <2>1. CASE m \in Built
    <3> DEFINE t == m.stream
               k == Len(arrived[t])
    <3>1. t \in Streams
      BY <1>1, <2>1 DEF SentAreRuns
    <3>2. PICK first \in 1..k, from \in 1..k, last \in 1..k :
            /\ IsRun(t, first, last)
            /\ m.parts = from..last /\ first <= from /\ from <= last
            /\ \A i \in first..from - 1 : TooOld(t, i, last)
      BY <1>1, <2>1 DEF SentAreRuns
    <3>3. k \in Nat
      BY <1>1, <3>1, Places
    <3>4. IsRun(m.stream, first, last)'
      BY <1>1, <3>1, <3>2, OldRuns, Zenon
    <3>5. ASSUME NEW i \in first..from - 1 PROVE TooOld(m.stream, i, last)'
      <4>1. i \in 1..k /\ TooOld(t, i, last)
        BY <3>2, <3>3
      <4>2. QED
        BY <1>1, <3>1, <4>1, OldRuns, Zenon
    <3>6. Len(arrived'[t]) = k \/ Len(arrived'[t]) = k + 1
      BY <1>2, <3>1, Zenon
    <3>7. first \in 1..Len(arrived'[t]) /\ from \in 1..Len(arrived'[t]) /\ last \in 1..Len(arrived'[t])
      BY <3>2, <3>3, <3>6, SMTT(60)
    <3>8. QED
      BY <3>1, <3>2, <3>4, <3>5, <3>7, SMTT(60)
  <2>2. CASE m \notin Built
    <3>1. PICK first \in 1..n, from \in 1..n :
            /\ Built' = Built \cup {[stream |-> s, parts |-> from..n + 1]}
            /\ first <= from /\ IsRun(s, first, n + 1)'
            /\ \A i \in first..from - 1 : TooOld(s, i, n + 1)'
      BY <1>3, <2>2
    <3>2. m.stream = s /\ m.parts = from..n + 1
      BY <2>2, <3>1
    <3>3. /\ first \in 1..n + 1 /\ from \in 1..n + 1 /\ n + 1 \in 1..n + 1 /\ from <= n + 1
      BY <1>2, SMTT(60)
    <3>4. QED
      <4>1. IsRun(m.stream, first, n + 1)' /\ \A i \in first..from - 1 : TooOld(m.stream, i, n + 1)'
        BY <3>1, <3>2, SMTT(60) DEF IsRun, Begins, TooOld
      <4>2. QED
        BY <1>2, <3>1, <3>2, <3>3, <4>1
  <2>3. QED
    BY <2>1, <2>2, Zenon
<1>7. RunsAreBuilt'
  BY <1>5 DEF RunsAreBuilt
<1>8. SentAreRuns'
  BY <1>6, Zenon DEF SentAreRuns
<1>9. QED
  BY <1>7, <1>8

-----------------------------------------------------------------------------
(* The steps together *)

LEMMA InitHolds ==
  ASSUME Init
  PROVE  IInv
<1>1. /\ queue = {} /\ clock = 0 /\ Built = {} /\ \A s \in Streams : arrived[s] = <<>> /\ Len(arrived[s]) = 0
  BY DEF Init, Built
<1>2. arrived \in [Streams -> Seq(Arrivals)]
  BY DEF Init
<1>3. \A s \in Streams : Of(queue, s) = {}
  BY <1>1 DEF Of
<1>4. TypeOK
  BY <1>1, <1>3 DEF TypeOK
<1>5. Timely /\ Kept /\ RunsAreBuilt /\ SentAreRuns
  BY <1>1, <1>2 DEF Timely, Kept, RunsAreBuilt, SentAreRuns
<1>6. QED
  BY <1>4, <1>5 DEF IInv

LEMMA SameLines ==
  ASSUME UNCHANGED arrived
  PROVE  /\ \A s, i : Entry(s, i)' = Entry(s, i)
         /\ \A s, i, j : Begins(s, i, j)' <=> Begins(s, i, j)
         /\ \A s, i, j : IsRun(s, i, j)' <=> IsRun(s, i, j)
         /\ \A s, i, j : TooOld(s, i, j)' <=> TooOld(s, i, j)
<1>1. \A s, i : Entry(s, i)' = Entry(s, i)
  BY DEF Entry
<1>2. \A s, i, j : Begins(s, i, j)' <=> Begins(s, i, j)
  BY DEF Begins
<1>3. \A s, i, j : IsRun(s, i, j)' <=> IsRun(s, i, j)
  BY <1>2 DEF IsRun
<1>4. \A s, i, j : TooOld(s, i, j)' <=> TooOld(s, i, j)
  BY DEF TooOld
<1>5. QED
  BY <1>1, <1>2, <1>3, <1>4

LEMMA StutterHolds ==
  ASSUME IInv, UNCHANGED vars
  PROVE  IInv'
<1>1. UNCHANGED <<queue, clock, arrived, Built>>
  BY DEF vars, Built
<1>2. TypeOK /\ Timely /\ Kept /\ RunsAreBuilt /\ SentAreRuns
  BY DEF IInv
<1>3. \A s : Of(queue', s) = Of(queue, s)
  BY <1>1 DEF Of
<1>4. \A s, i, j : Waits(s, i, j)' <=> Waits(s, i, j)
  BY <1>1, <1>3, SameLines, SMTT(60) DEF Waits
<1>5. TypeOK'
  BY <1>1, <1>2, <1>3, <1>4 DEF TypeOK
<1>6. Timely'
  BY <1>1, <1>2 DEF Timely
<1>7. Kept'
  BY <1>1, <1>2, SameLines DEF Kept
<1>8. RunsAreBuilt' /\ SentAreRuns'
  BY <1>1, <1>2, SameLines DEF RunsAreBuilt, SentAreRuns
<1>9. QED
  BY <1>5, <1>6, <1>7, <1>8 DEF IInv

LEMMA TickHolds ==
  ASSUME IInv, Tick
  PROVE  IInv'
<1>1. UNCHANGED <<queue, arrived, Built>> /\ clock' = clock + 1 /\ clock' \in 0..MaxTime /\ clock \in Nat
  BY DEF IInv, TypeOK, Tick, Built
<1>2. TypeOK /\ Timely /\ Kept /\ RunsAreBuilt /\ SentAreRuns
  BY DEF IInv
<1>3. TypeOK'
  <2>1. ASSUME NEW s \in Streams, NEW i \in 1..Len(arrived'[s])
        PROVE  arrived'[s][i] \in [count : Values \ {1}, number : Values, ID : IDs, time : 0..clock']
    BY <1>1, <1>2, SMTT(60) DEF TypeOK
  <2>2. ASSUME NEW s \in Streams, NEW first, NEW from, first \in 1..Len(arrived[s]),
               from \in 1..Len(arrived[s]), Waits(s, first, from)
        PROVE  Waits(s, first, from)'
    <3>1. \A i \in first..from - 1 : arrived[s][i].time \in Nat /\ arrived[s][i].time + Stale < clock
      <4>1. \A i \in first..from - 1 : i \in 1..Len(arrived[s])
        BY <1>2, <2>2, Places
      <4>2. QED
        BY <1>2, <2>2, <4>1, Places, Zenon DEF Waits, Arrivals
    <3>2. \A i \in first..from - 1 : arrived[s][i].time + Stale < clock'
      BY <1>1, <3>1
    <3>3. QED
      BY <1>1, <2>2, <3>2, SameLines, SMTT(60) DEF Waits, Of
  <2>3. ASSUME NEW s \in Streams
        PROVE  Of(queue', s) = {} \/ \E first, from \in 1..Len(arrived'[s]) : Waits(s, first, from)'
    BY <1>1, <1>2, <2>2, Zenon DEF TypeOK, Of
  <2>4. QED
    BY <1>1, <1>2, <2>1, <2>3 DEF TypeOK
<1>4. Timely'
  <2>1. \A s \in Streams : \A i \in 1..Len(arrived[s]) : arrived[s][i].time \in Nat /\ arrived[s][i].time <= clock
    <3>1. \A s \in Streams : \A i \in 1..Len(arrived[s]) : arrived[s][i] \in Arrivals
      BY <1>2, Places
    <3>2. QED
      BY <1>2, <3>1, SMTT(60) DEF Arrivals, Timely
  <2>2. \A s \in Streams : \A i \in 1..Len(arrived[s]) : arrived[s][i].time <= clock'
    BY <1>1, <2>1, SMTT(60)
  <2>3. QED
    BY <1>1, <1>2, <2>2 DEF Timely
<1>5. Kept'
  <2>1. ASSUME NEW s \in Streams, NEW first \in 1..Len(arrived[s]), arrived[s][first].time + Stale >= clock'
        PROVE  arrived[s][first].time + Stale >= clock
    <3>1. arrived[s][first] \in Arrivals
      BY <1>2, Places
    <3>2. arrived[s][first].time \in Nat
      BY <3>1 DEF Arrivals
    <3>3. QED
      BY <1>1, <2>1, <3>2, SMTT(60)
  <2>2. QED
    BY <1>1, <1>2, <2>1, SameLines DEF Kept
<1>6. RunsAreBuilt' /\ SentAreRuns'
  BY <1>1, <1>2, SameLines DEF RunsAreBuilt, SentAreRuns
<1>7. QED
  BY <1>3, <1>4, <1>5, <1>6 DEF IInv

LEMMA ArriveHolds ==
  ASSUME IInv, NEW s \in Streams, Arrive(s)
  PROVE  IInv'
<1>1. PICK line \in Line : Process(s, line)
  BY DEF Arrive
<1>2. UNCHANGED clock
  BY DEF Arrive
<1>3. CASE line.count = 1
  <2>1. UNCHANGED vars
    BY <1>1, <1>2, <1>3 DEF Process, vars
  <2>2. QED
    BY <2>1, StutterHolds
<1>4. CASE line.count # 1
  <2>1. Comes(s, line) /\ Submit(Queued(s, line))
    BY <1>1, <1>4 DEF Process, Comes, Queued
  <2>2. PICK l : l = Queued(s, line)
    OBVIOUS
  <2>3. Submit(l)
    BY <2>1, <2>2
  <2>4. PICK n : n = Len(arrived[s])
    OBVIOUS
  <2>5. TypeOK /\ Timely /\ Kept
    BY DEF IInv
  <2>6. TypeOK'
    BY <1>2, <1>4, <2>1, <2>2, <2>3, <2>4, <2>5, TypeStep
  <2>7. Timely'
    BY <1>2, <1>4, <2>1, <2>5, TimelyStep
  <2>8. Kept'
    BY <1>2, <1>4, <2>1, <2>2, <2>3, <2>4, <2>5, KeptStep
  <2>9. RunsAreBuilt' /\ SentAreRuns'
    BY <1>2, <1>4, <2>1, <2>2, <2>3, <2>4, SentStep
  <2>10. QED
    BY <2>6, <2>7, <2>8, <2>9 DEF IInv
<1>5. QED
  BY <1>3, <1>4

\* The inductive invariant of submitAIS, clean and search, whatever lines come.
THEOREM Invariance == Spec => []IInv
<1>1. IInv /\ [Next]_vars => IInv'
  <2> SUFFICES ASSUME IInv, [Next]_vars PROVE IInv'
    OBVIOUS
  <2>1. CASE UNCHANGED vars
    BY <2>1, StutterHolds
  <2>2. CASE Tick
    BY <2>2, TickHolds
  <2>3. CASE \E s \in Streams : Arrive(s)
    BY <2>3, ArriveHolds
  <2>4. QED
    BY <2>1, <2>2, <2>3 DEF Next
<1>2. QED
  BY <1>1, InitHolds, PTL DEF Spec

\* The queue of a stream has only lines of the message that is under way, whatever
\* comes: of submitAIS, clean and search.
THEOREM TypeCorrect == Spec => []TypeOK
<1>1. IInv => TypeOK
  BY DEF IInv
<1>2. QED
  BY <1>1, Invariance, PTL

\* submitAIS puts every message whose lines come in a row and soon enough together
\* from just these lines, and sends it unless it does not validate.
THEOREM RunsArePutTogether == Spec => []RunsAreBuilt
<1>1. IInv => RunsAreBuilt
  BY DEF IInv
<1>2. QED
  BY <1>1, Invariance, PTL

\* submitAIS puts nothing together but messages whose lines came in a row.
THEOREM OnlyRunsAreBuilt == Spec => []SentAreRuns
<1>1. IInv => SentAreRuns
  BY DEF IInv
<1>2. QED
  BY <1>1, Invariance, PTL
=============================================================================

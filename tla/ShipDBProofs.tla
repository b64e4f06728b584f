---------------------------- MODULE ShipDBProofs ----------------------------
(***************************************************************************)
(* Safety of ShipDB, and that it implements RecentShips, proved for any    *)
(* number of ships, slots, path points, messages and restarts.             *)
(***************************************************************************)
EXTENDS ShipDB, SequenceTheorems, WellFoundedInduction, TLAPS

USE ConstantsAssumption DEF NoShip

-----------------------------------------------------------------------------
(* The list *)

Databases == [first : Slots, last : Slots, count : 0..Nships, ships : [Slots -> Ship]]

\* The order when the slot at place j comes to the front.
Front(order, j) ==
  [k \in 1..Nships |-> IF k = 1 THEN order[j] ELSE IF k <= j THEN order[k - 1] ELSE order[k]]

\* Two records of a ship differ in their links at most.
SameShip(s, t) ==
  /\ s.mmsi = t.mmsi /\ s.count = t.count /\ s.path_ptr = t.path_ptr /\ s.last_signal = t.last_signal

LEMMA Smallest ==
  ASSUME NEW T \in SUBSET Nat, T # {}
  PROVE  \E x \in T : \A y \in T : x <= y
<1> DEFINE R == OpToRel(<, Nat)
<1>1. PICK x \in T : \A y \in T : ~ (<<y, x>> \in R)
  <2>1. IsWellFoundedOn(R, Nat)
    BY NatLessThanWellFounded
  <2> HIDE DEF R
  <2>2. QED
    BY <2>1, WFMin, Zenon
<1>2. \A y \in T : ~ (y < x)
  <2>1. \A y \in T : <<y, x>> \in Nat \X Nat /\ <<y, x>>[1] = y /\ <<y, x>>[2] = x
    OBVIOUS
  <2>2. QED
    BY <1>1, <2>1, Zenon DEF OpToRel
<1>3. \A y \in T : x <= y
  BY <1>2
<1>4. QED
  BY <1>1, <1>3

\* No slot is on the list twice: its place is one more than that of the slot before it.
LEMMA OncePlaced ==
  ASSUME NEW d, NEW order, Threads(d, order)
  PROVE  \A i, k \in 1..Nships : order[i] = order[k] => i = k
<1> DEFINE T == {i \in 1..Nships : \E k \in i + 1..Nships : order[i] = order[k]}
<1>1. SUFFICES ASSUME T # {} PROVE FALSE
  OBVIOUS
<1>2. PICK i \in T : \A y \in T : i <= y
  <2>1. T \in SUBSET Nat
    OBVIOUS
  <2>2. QED
    BY <1>1, <2>1, Smallest, Zenon
<1>3. PICK k \in i + 1..Nships : order[i] = order[k]
  BY <1>2
<1>4. k \in 1..Nships /\ i \in 1..Nships /\ k # 1 /\ k - 1 \in i..Nships
  BY <1>2
<1>5. d.ships[order[k]].prev = order[k - 1] /\ order[k - 1] \in Slots
  BY <1>4, SMTT(60) DEF Threads
<1>6. i # 1
  BY <1>3, <1>4, <1>5 DEF Threads, Slots
<1>7. d.ships[order[i]].prev = order[i - 1]
  BY <1>4, <1>6, Zenon DEF Threads
<1>8. order[i - 1] = order[k - 1]
  BY <1>3, <1>5, <1>7
<1>9. i - 1 \in T
  BY <1>3, <1>4, <1>6, <1>8
<1>10. QED
  BY <1>2, <1>9

\* The order of the list is the one that threads it.
LEMMA OrderIs ==
  ASSUME NEW d, NEW order, Threads(d, order)
  PROVE  Order(d) = order
<1>1. order \in [1..Nships -> Slots] /\ Follows(d, order)
  BY SMTT(60) DEF Threads, Follows
<1>2. ASSUME NEW other \in [1..Nships -> Slots], Follows(d, other)
      PROVE  other = order
  <2> DEFINE T == {i \in 1..Nships : other[i] # order[i]}
  <2>1. SUFFICES ASSUME T # {} PROVE FALSE
    BY <1>1
  <2>2. PICK i \in T : \A y \in T : i <= y
    <3>1. T \in SUBSET Nat
      OBVIOUS
    <3>2. QED
      BY <2>1, <3>1, Smallest, Zenon
  <2>3. i \in 1..Nships /\ i # 1
    BY <1>1, <1>2, <2>2 DEF Follows
  <2>4. i - 1 \in 1..Nships /\ i - 1 \notin T /\ i - 1 \in 1..Nships - 1 /\ i - 1 + 1 = i
    BY <2>2, <2>3
  <2>5. other[i - 1] = order[i - 1]
    BY <2>4
  <2>6. other[i - 1 + 1] = d.ships[other[i - 1]].next /\ order[i - 1 + 1] = d.ships[order[i - 1]].next
    BY <1>1, <1>2, <2>4 DEF Follows
  <2>7. QED
    BY <2>2, <2>4, <2>5, <2>6
<1>3. Follows(d, Order(d)) /\ Order(d) \in [1..Nships -> Slots]
  BY <1>1 DEF Order
<1>4. QED
  BY <1>2, <1>3

LEMMA FrontPlaces ==
  ASSUME NEW order \in [1..Nships -> Slots], NEW j \in 1..Nships,
         \A i \in Slots : \E k \in 1..Nships : order[k] = i
  PROVE  /\ Front(order, j) \in [1..Nships -> Slots]
         /\ \A i \in Slots : \E k \in 1..Nships : Front(order, j)[k] = i
<1>1. Front(order, j) \in [1..Nships -> Slots]
  BY DEF Front
<1>2. ASSUME NEW i \in Slots PROVE \E k \in 1..Nships : Front(order, j)[k] = i
  <2>1. PICK k \in 1..Nships : order[k] = i
    OBVIOUS
  <2>2. CASE k = j
    BY <2>1, <2>2 DEF Front
  <2>3. CASE k < j
    <3>1. k + 1 \in 1..Nships /\ k + 1 # 1 /\ k + 1 <= j /\ k + 1 - 1 = k
      BY <2>3
    <3>2. Front(order, j)[k + 1] = i
      BY <2>1, <3>1 DEF Front
    <3>3. QED
      BY <3>1, <3>2
  <2>4. CASE k > j
    BY <2>1, <2>4 DEF Front
  <2>5. QED
    BY <2>2, <2>3, <2>4
<1>3. QED
  BY <1>1, <1>2

LEMMA NextSet ==
  ASSUME NEW t \in Ship, NEW x \in -1..Nships - 1, NEW r, r = [t EXCEPT !.next = x]
  PROVE  r \in Ship /\ SameShip(r, t) /\ r.next = x /\ r.prev = t.prev
BY DEF Ship, SameShip

LEMMA PrevSet ==
  ASSUME NEW t \in Ship, NEW y \in -1..Nships - 1, NEW r, r = [t EXCEPT !.prev = y]
  PROVE  r \in Ship /\ SameShip(r, t) /\ r.next = t.next /\ r.prev = y
BY DEF Ship, SameShip

\* moveShipToFront keeps the list whole, and nothing else changes.
LEMMA MovesToFront ==
  ASSUME NEW d \in Databases, NEW order, Threads(d, order), NEW j \in 1..Nships,
         NEW e, e = MoveShipToFront(d, order[j])
  PROVE  /\ e \in Databases /\ Threads(e, Front(order, j)) /\ e.first = order[j] /\ e.count = d.count
         /\ \A i \in Slots : SameShip(e.ships[i], d.ships[i])
<1> DEFINE p == order[j]
           s == d.ships[p]
<1>1. /\ order \in [1..Nships -> Slots] /\ p \in Slots /\ d.ships \in [Slots -> Ship]
      /\ d.first = order[1] /\ d.last = order[Nships] /\ d.first \in Slots
      /\ \A i, k \in 1..Nships : order[i] = order[k] => i = k
      /\ \A k \in 1..Nships :
           /\ d.ships[order[k]].next = IF k = Nships THEN -1 ELSE order[k + 1]
           /\ d.ships[order[k]].prev = IF k = 1 THEN -1 ELSE order[k - 1]
  <2>1. /\ order \in [1..Nships -> Slots] /\ d.first = order[1] /\ d.last = order[Nships]
        /\ \A k \in 1..Nships :
           /\ d.ships[order[k]].next = IF k = Nships THEN -1 ELSE order[k + 1]
           /\ d.ships[order[k]].prev = IF k = 1 THEN -1 ELSE order[k - 1]
    BY DEF Threads
  <2>2. d.ships \in [Slots -> Ship] /\ d.first \in Slots
    BY DEF Databases
  <2>3. \A i, k \in 1..Nships : order[i] = order[k] => i = k
    BY OncePlaced
  <2>4. QED
    BY <2>1, <2>2, <2>3
<1>2. CASE j = 1
  <2>1. e = d
    BY <1>1, <1>2 DEF MoveShipToFront
  <2>2. Front(order, j) = order
    BY <1>1, <1>2 DEF Front
  <2>3. QED
    BY <1>1, <1>2, <2>1, <2>2 DEF SameShip
<1>3. CASE j # 1
  <2>1. p # d.first /\ j - 1 \in 1..Nships /\ s.prev = order[j - 1] /\ s.prev \in Slots
    BY <1>1, <1>3
  <2>2. s.next = IF j = Nships THEN -1 ELSE order[j + 1]
    BY <1>1, SMTT(60)
  <2> DEFINE out == [i \in Slots |->
                      CASE i = s.next -> [d.ships[i] EXCEPT !.prev = s.prev]
                        [] i = s.prev -> [d.ships[i] EXCEPT !.next = s.next]
                        [] OTHER -> d.ships[i]]
             moved == [out EXCEPT ![p].next = d.first, ![p].prev = -1, ![d.first].prev = p]
  <2>3. e = [d EXCEPT !.first = p, !.last = IF s.next = -1 THEN s.prev ELSE @, !.ships = moved]
    BY <2>1, Zenon DEF MoveShipToFront
  <2>4. /\ e.first = p /\ e.last = (IF s.next = -1 THEN s.prev ELSE d.last) /\ e.count = d.count
        /\ e.ships = moved
    BY <2>3, Zenon DEF Databases
  <2> HIDE DEF p, s
  <2>5. s.next # s.prev /\ p # s.next /\ p # s.prev /\ s.prev \in Slots /\ s.next \in -1..Nships - 1
    <3>1. j # Nships => j + 1 \in 1..Nships /\ order[j + 1] \in Slots
      BY <1>1
    <3>2. QED
      BY <1>1, <2>1, <2>2, <3>1, SMTT(60) DEF p, Slots
  <2>6. \A i \in Slots : out[i] \in Ship /\ SameShip(out[i], d.ships[i])
                         /\ out[i].next = (IF i = s.prev THEN s.next ELSE d.ships[i].next)
                         /\ out[i].prev = (IF i = s.next THEN s.prev ELSE d.ships[i].prev)
    <3>1. SUFFICES ASSUME NEW i \in Slots
                   PROVE  out[i] \in Ship /\ SameShip(out[i], d.ships[i])
                          /\ out[i].next = (IF i = s.prev THEN s.next ELSE d.ships[i].next)
                          /\ out[i].prev = (IF i = s.next THEN s.prev ELSE d.ships[i].prev)
      OBVIOUS
    <3>2. d.ships[i] \in Ship
      BY <1>1, SMTT(60)
    <3>3. CASE i = s.next
      <4>1. out[i] = [d.ships[i] EXCEPT !.prev = s.prev]
        BY <2>5, <3>3
      <4>2. s.prev \in -1..Nships - 1
        BY <2>5 DEF Slots
      <4>3. QED
        BY <2>5, <3>2, <3>3, <4>1, <4>2, PrevSet
    <3>4. CASE i = s.prev
      <4>1. out[i] = [d.ships[i] EXCEPT !.next = s.next]
        BY <2>5, <3>4
      <4>2. QED
        BY <2>5, <3>2, <3>4, <4>1, NextSet
    <3>5. CASE i # s.next /\ i # s.prev
      <4>1. out[i] = d.ships[i]
        BY <3>5, SMTT(60)
      <4>2. QED
        BY <3>2, <3>5, <4>1 DEF SameShip
    <3>6. QED
      BY <3>3, <3>4, <3>5
  <2>7. \A i \in Slots : moved[i] \in Ship /\ SameShip(moved[i], d.ships[i])
                         /\ moved[i].next = (IF i = p THEN d.first ELSE IF i = s.prev THEN s.next ELSE d.ships[i].next)
                         /\ moved[i].prev = (IF i = p THEN -1 ELSE IF i = d.first THEN p
                                             ELSE IF i = s.next THEN s.prev ELSE d.ships[i].prev)
    <3>1. SUFFICES ASSUME NEW i \in Slots
                   PROVE  moved[i] \in Ship /\ SameShip(moved[i], d.ships[i])
                          /\ moved[i].next = (IF i = p THEN d.first ELSE IF i = s.prev THEN s.next ELSE d.ships[i].next)
                          /\ moved[i].prev = (IF i = p THEN -1 ELSE IF i = d.first THEN p
                                              ELSE IF i = s.next THEN s.prev ELSE d.ships[i].prev)
      BY Zenon
    <3>2. out[i] \in Ship /\ SameShip(out[i], d.ships[i])
          /\ out[i].next = (IF i = s.prev THEN s.next ELSE d.ships[i].next)
          /\ out[i].prev = (IF i = s.next THEN s.prev ELSE d.ships[i].prev)
      BY <2>6, SMTT(60)
    <3>3. p \in Slots /\ d.first \in Slots /\ out \in [Slots -> Ship]
      BY <1>1, <2>6, SMTT(60) DEF p
    <3> HIDE DEF out
    <3>4. CASE i = p
      <4>1. moved[i] = [out[i] EXCEPT !.next = d.first, !.prev = -1]
        BY <2>1, <3>3, <3>4, Zenon DEF p
      <4>2. d.first \in -1..Nships - 1 /\ -1 \in -1..Nships - 1
        BY <3>3, SMTT(60) DEF Slots
      <4>3. moved[i] \in Ship /\ SameShip(moved[i], out[i]) /\ moved[i].next = d.first /\ moved[i].prev = -1
        <5>1. PICK r : r = moved[i]
          OBVIOUS
        <5>2. r \in Ship /\ SameShip(r, out[i]) /\ r.next = d.first /\ r.prev = -1
          <6>1. r = [out[i] EXCEPT !.next = d.first, !.prev = -1]
            BY <4>1, <5>1, SMTT(60)
          <6> HIDE DEF moved
          <6>2. QED
            <7>1. PICK u : u = [out[i] EXCEPT !.next = d.first]
              BY ZenonT(60)
            <7>2. u \in Ship /\ SameShip(u, out[i]) /\ u.next = d.first
              BY <3>2, <4>2, <7>1, NextSet
            <7>3. r = [u EXCEPT !.prev = -1]
              BY <6>1, <7>1
            <7>4. r \in Ship /\ SameShip(r, u) /\ r.next = u.next /\ r.prev = -1
              BY <4>2, <7>2, <7>3, PrevSet
            <7>5. QED
              BY <7>2, <7>4 DEF SameShip
        <5>3. QED
          BY <5>1, <5>2
      <4>4. QED
        BY <3>2, <3>4, <4>3 DEF SameShip
    <3>5. CASE i = d.first
      <4>1. moved[i] = [out[i] EXCEPT !.prev = p]
        BY <2>1, <3>3, <3>5, SMTT(60) DEF p
      <4>2. p \in -1..Nships - 1
        BY <3>3 DEF Slots
      <4>3. moved[i] \in Ship /\ SameShip(moved[i], out[i]) /\ moved[i].next = out[i].next /\ moved[i].prev = p
        <5>1. PICK r : r = moved[i]
          OBVIOUS
        <5>2. r \in Ship /\ SameShip(r, out[i]) /\ r.next = out[i].next /\ r.prev = p
          <6>1. r = [out[i] EXCEPT !.prev = p]
            BY <4>1, <5>1
          <6> HIDE DEF moved
          <6>2. QED
            BY <3>2, <4>2, <6>1, PrevSet
        <5>3. QED
          BY <5>1, <5>2
      <4>4. QED
        BY <2>1, <3>2, <3>5, <4>3, ZenonT(60) DEF SameShip, p
    <3>6. CASE i # p /\ i # d.first
      <4>1. moved[i] = out[i]
        BY <3>3, <3>6
      <4>2. QED
        BY <3>2, <3>6, <4>1
    <3>7. QED
      BY <3>4, <3>5, <3>6, SMTT(60)
  <2> HIDE DEF out, moved
  <2> DEFINE f == Front(order, j)
  <2>8. /\ f \in [1..Nships -> Slots] /\ \A i \in Slots : \E k \in 1..Nships : f[k] = i
    <3>1. \A i \in Slots : \E k \in 1..Nships : order[k] = i
      BY DEF Threads
    <3>2. order \in [1..Nships -> Slots]
      BY <1>1
    <3>3. QED
      BY <3>1, <3>2, FrontPlaces, ZenonT(60)
  <2>9. /\ f[1] = p
        /\ \A k \in 2..j : f[k] = order[k - 1] /\ k - 1 \in 1..Nships /\ k - 1 # j
        /\ \A k \in j + 1..Nships : f[k] = order[k]
    BY <1>3 DEF Front, p
  <2> HIDE DEF f
  <2>10. ASSUME NEW k \in 1..Nships
         PROVE  /\ moved[f[k]].next = IF k = Nships THEN -1 ELSE f[k + 1]
                /\ moved[f[k]].prev = IF k = 1 THEN -1 ELSE f[k - 1]
    <3>1. CASE k = 1
      <4>1. f[2] = order[1] /\ k # Nships
        <5>1. 2 \in 2..j /\ 2 - 1 = 1
          BY <1>3
        <5>2. QED
          BY <1>3, <2>9, <3>1, <5>1
      <4>2. f[k] = p /\ p \in Slots
        BY <1>1, <2>9, <3>1 DEF p
      <4>3. moved[p].next = d.first /\ moved[p].prev = -1
        BY <2>7, <4>2
      <4>4. QED
        BY <1>1, <3>1, <4>1, <4>2, <4>3
    <3>2. CASE k \in 2..j
      <4> DEFINE i == k - 1
      <4>1. /\ f[k] = order[i] /\ i \in 1..Nships /\ i # j /\ order[i] # p /\ order[i] \in Slots /\ i < j
            /\ i # Nships /\ i + 1 = k
        BY <1>1, <2>9, <3>2 DEF p
      <4>2. moved[f[k]].next = IF i = j - 1 THEN s.next ELSE order[k]
        <5>1. order[i] = s.prev <=> i = j - 1
          BY <1>1, <2>1, <4>1, SMTT(60)
        <5>2. d.ships[order[i]].next = order[k]
          BY <1>1, <4>1, SMTT(60)
        <5>3. QED
          BY <2>7, <4>1, <5>1, <5>2
      <4>3. moved[f[k]].prev = IF i = 1 THEN p ELSE order[i - 1]
        <5>1. order[i] = d.first <=> i = 1
          BY <1>1, <4>1
        <5>2. order[i] # s.next
          BY <1>1, <2>2, <4>1, SMTT(60) DEF Slots
        <5>3. d.ships[order[i]].prev = IF i = 1 THEN -1 ELSE order[i - 1]
          BY <1>1, <4>1, Zenon
        <5>4. QED
          BY <2>7, <4>1, <5>1, <5>2, <5>3
      <4>4. k # j => f[k + 1] = order[k] /\ k # Nships
        <5>1. k # j => k + 1 \in 2..j /\ k + 1 - 1 = k
          BY <3>2
        <5>2. QED
          BY <2>9, <3>2, <5>1
      <4>5. k = j /\ k # Nships => f[k + 1] = order[k + 1]
        BY <2>9, <3>2
      <4>6. i # 1 => f[k - 1] = order[i - 1]
        <5>1. i # 1 => k - 1 \in 2..j
          BY <3>2
        <5>2. QED
          BY <2>9, <5>1
      <4>7. i = 1 => f[k - 1] = p
        BY <2>9, <3>2
      <4>8. k = j <=> i = j - 1
        BY <3>2
      <4>9. k # 1
        BY <3>2
      <4> HIDE DEF i
      <4>10. QED
        BY <2>2, <4>2, <4>3, <4>4, <4>5, <4>6, <4>7, <4>8, <4>9
    <3>3. CASE k \in j + 1..Nships
      <4>1. f[k] = order[k] /\ order[k] # p /\ order[k] # d.first /\ order[k] # s.prev /\ order[k] \in Slots /\ k # 1
        BY <1>1, <2>1, <2>9, <3>3, SMTT(60) DEF p
      <4>2. order[k] = s.next <=> k = j + 1
        BY <1>1, <2>2, <3>3, SMTT(60) DEF Slots
      <4>3. moved[f[k]].next = d.ships[order[k]].next
        BY <2>7, <4>1
      <4>4. moved[f[k]].prev = IF k = j + 1 THEN order[j - 1] ELSE order[k - 1]
        <5>1. d.ships[order[k]].prev = order[k - 1]
          BY <1>1, <4>1
        <5>2. QED
          BY <2>1, <2>7, <4>1, <4>2, <5>1
      <4>5. f[j] = order[j - 1]
        <5>1. j \in 2..j
          BY <1>3
        <5>2. QED
          BY <2>9, <5>1
      <4>6. k # j + 1 => f[k - 1] = order[k - 1]
        <5>1. k # j + 1 => k - 1 \in j + 1..Nships
          BY <3>3
        <5>2. QED
          BY <2>9, <5>1
      <4>7. k # Nships => f[k + 1] = order[k + 1]
        BY <2>9, <3>3
      <4>8. d.ships[order[k]].next = IF k = Nships THEN -1 ELSE order[k + 1]
        BY <1>1
      <4>9. k = j + 1 => k - 1 = j
        OBVIOUS
      <4>10. QED
        BY <4>1, <4>3, <4>4, <4>5, <4>6, <4>7, <4>8, <4>9
    <3>4. k = 1 \/ k \in 2..j \/ k \in j + 1..Nships
      OBVIOUS
    <3>5. QED
      BY <3>1, <3>2, <3>3, <3>4
  <2>11. e.last = f[Nships]
    <3>1. CASE j = Nships
      <4>1. s.next = -1 /\ Nships \in 2..j
        BY <1>3, <2>2, <3>1
      <4>2. QED
        BY <2>1, <2>4, <2>9, <3>1, <4>1
    <3>2. CASE j # Nships
      <4>1. s.next # -1 /\ Nships \in j + 1..Nships
        BY <1>1, <2>2, <3>2, SMTT(60) DEF Slots
      <4>2. QED
        BY <1>1, <2>4, <2>9, <4>1
    <3>3. QED
      BY <3>1, <3>2
  <2>12. Threads(e, f)
    BY <2>4, <2>8, <2>9, <2>10, <2>11 DEF Threads
  <2>13. e \in Databases
    <3>1. e.ships \in [Slots -> Ship]
      <4>1. out = [i \in Slots |-> out[i]]
        BY DEF out
      <4>2. moved = [i \in Slots |-> moved[i]]
        BY <4>1, ZenonT(60) DEF moved
      <4>3. QED
        BY <2>4, <2>7, <4>2
    <3>2. e.last \in Slots /\ e.first \in Slots
      <4>1. f[Nships] \in Slots
        BY <2>8
      <4>2. QED
        BY <1>1, <2>4, <2>11, <4>1 DEF p
    <3>3. e = [first |-> e.first, last |-> e.last, count |-> e.count, ships |-> e.ships]
      BY <2>3, Zenon DEF Databases
    <3>4. QED
      BY <2>4, <3>1, <3>2, <3>3 DEF Databases
  <2>14. \A i \in Slots : SameShip(e.ships[i], d.ships[i])
    BY <2>4, <2>7
  <2>15. QED
    BY <2>4, <2>12, <2>13, <2>14 DEF f, p
<1>4. QED
  BY <1>2, <1>3

-----------------------------------------------------------------------------
(* A ship comes to the front *)

\* The slots in use are the first of the list, each of a ship of its own.
InUse(d, order) ==
  /\ \A i \in 1..d.count : d.ships[order[i]].mmsi # NoShip
  /\ \A i, k \in 1..d.count : d.ships[order[i]].mmsi = d.ships[order[k]].mmsi => i = k

\* e is d with the slot of ship m, which was at place j, at the front.
Enters(d, e, order, j, m) ==
  /\ e \in Databases /\ Threads(e, Front(order, j)) /\ e.first = order[j]
  /\ \A i \in Slots : i # order[j] => SameShip(e.ships[i], d.ships[i])
  /\ \/ /\ FindShip(d, m) # {} /\ j <= d.count /\ d.ships[order[j]].mmsi = m
        /\ e.count = d.count /\ SameShip(e.ships[order[j]], d.ships[order[j]])
     \/ /\ FindShip(d, m) = {} /\ \A i \in 1..d.count : d.ships[order[i]].mmsi # m
        /\ j = Nships /\ e.count = IF d.count < Nships THEN d.count + 1 ELSE Nships
        /\ e.ships[order[j]].count = 0 /\ e.ships[order[j]].path_ptr = -1

\* createShip empties a slot, which stays where it is on the list.
LEMMA Created ==
  ASSUME NEW d \in Databases, NEW order, Threads(d, order), NEW c, c = CreateShip(d)
  PROVE  /\ c \in Databases /\ Threads(c, order) /\ c.last = order[Nships]
         /\ c.count = IF d.count < Nships THEN d.count + 1 ELSE Nships
         /\ c.ships[order[Nships]].count = 0 /\ c.ships[order[Nships]].path_ptr = -1
         /\ \A i \in Slots : i # order[Nships] => c.ships[i] = d.ships[i]
<1>1. /\ d.ships \in [Slots -> Ship] /\ d.last \in Slots /\ d.count \in 0..Nships /\ d.first \in Slots
      /\ d.last = order[Nships]
  BY DEF Databases, Threads
<1> DEFINE n == IF d.count < Nships THEN d.count + 1 ELSE d.count
           blank == Reset(d.ships[d.last])
<1>2. /\ c.first = d.first /\ c.last = d.last /\ c.count = n /\ c.ships = [d.ships EXCEPT ![d.last] = blank]
      /\ c = [first |-> c.first, last |-> c.last, count |-> c.count, ships |-> c.ships]
  BY Zenon DEF CreateShip, Databases
<1>3. n \in 0..Nships /\ n = IF d.count < Nships THEN d.count + 1 ELSE Nships
  BY <1>1
<1>4. /\ blank \in Ship /\ blank.next = d.ships[d.last].next /\ blank.prev = d.ships[d.last].prev
      /\ blank.count = 0 /\ blank.path_ptr = -1
  <2>1. PICK t \in Ship : t = d.ships[d.last]
    BY <1>1
  <2>2. -1 \in -1..Npaths - 1 /\ 0 \in 0..MaxTime
    OBVIOUS
  <2>3. blank = [mmsi |-> NoShip, count |-> 0, path_ptr |-> -1, last_signal |-> 0,
                 next |-> t.next, prev |-> t.prev]
    <3>1. t = [mmsi |-> t.mmsi, count |-> t.count, path_ptr |-> t.path_ptr, last_signal |-> t.last_signal,
               next |-> t.next, prev |-> t.prev]
      BY DEF Ship
    <3>2. blank = [t EXCEPT !.mmsi = NoShip, !.count = 0, !.path_ptr = -1, !.last_signal = 0]
      BY <2>1 DEF Reset
    <3> HIDE DEF blank
    <3>3. QED
      BY <3>1, <3>2, Zenon
  <2>4. t.next \in -1..Nships - 1 /\ t.prev \in -1..Nships - 1
    BY DEF Ship
  <2> HIDE DEF blank
  <2>5. blank \in Ship
    BY <2>2, <2>3, <2>4 DEF Ship
  <2>6. QED
    BY <2>1, <2>3, <2>5
<1> HIDE DEF n, blank
<1>5. c.ships \in [Slots -> Ship] /\ c.ships[d.last] = blank
      /\ \A i \in Slots : i # d.last => c.ships[i] = d.ships[i]
  BY <1>1, <1>2, <1>4
<1>6. \A i \in Slots : c.ships[i].next = d.ships[i].next /\ c.ships[i].prev = d.ships[i].prev
  BY <1>4, <1>5
<1>7. c \in Databases
  BY <1>1, <1>2, <1>3, <1>5 DEF Databases
<1>8. Threads(c, order)
  <2>1. order \in [1..Nships -> Slots]
    BY DEF Threads
  <2>2. \A k \in 1..Nships : order[k] \in Slots
    BY <2>1
  <2>3. QED
    BY <1>2, <1>6, <2>2, SMTT(60) DEF Threads
<1>9. QED
  BY <1>1, <1>2, <1>3, <1>4, <1>5, <1>7, <1>8

LEMMA Entered ==
  ASSUME NEW d \in Databases, NEW order, Threads(d, order), InUse(d, order), NEW m \in Ships,
         NEW e, e = Enter(d, m)
  PROVE  \E j \in 1..Nships : Enters(d, e, order, j, m)
<1>1. order \in [1..Nships -> Slots] /\ d.count \in 0..Nships
  BY DEF Threads, Databases
<1>2. FindShip(d, m) = {i \in {order[k] : k \in 1..d.count} : d.ships[i].mmsi = m}
  BY OrderIs DEF FindShip, Listed
<1>3. CASE FindShip(d, m) # {}
  <2>1. PICK i : i = (CHOOSE k \in FindShip(d, m) : TRUE) /\ i \in FindShip(d, m)
    BY <1>3
  <2>2. PICK j \in 1..d.count : order[j] = i
    BY <1>2, <2>1
  <2>3. d.ships[order[j]].mmsi = m /\ j \in 1..Nships
    BY <1>1, <1>2, <2>1, <2>2
  <2>4. e = MoveShipToFront(d, order[j])
    BY <1>3, <2>1, <2>2 DEF Enter
  <2>5. /\ e \in Databases /\ Threads(e, Front(order, j)) /\ e.first = order[j] /\ e.count = d.count
        /\ \A k \in Slots : SameShip(e.ships[k], d.ships[k])
    BY <2>3, <2>4, MovesToFront
  <2>6. j <= d.count /\ order[j] \in Slots
    BY <1>1, <2>2, <2>3
  <2>7. QED
    BY <1>3, <2>3, <2>5, <2>6 DEF Enters
<1>4. CASE FindShip(d, m) = {}
  <2>1. PICK c : c = CreateShip(d)
    OBVIOUS
  <2>2. /\ c \in Databases /\ Threads(c, order) /\ c.last = order[Nships]
        /\ c.count = IF d.count < Nships THEN d.count + 1 ELSE Nships
        /\ c.ships[order[Nships]].count = 0 /\ c.ships[order[Nships]].path_ptr = -1
        /\ \A i \in Slots : i # order[Nships] => c.ships[i] = d.ships[i]
    BY <2>1, Created
  <2>3. e = MoveShipToFront(c, order[Nships])
    <3>1. d.last = order[Nships]
      BY DEF Threads
    <3>2. QED
      BY <1>4, <2>1, <3>1 DEF Enter
  <2>4. Nships \in 1..Nships /\ order[Nships] \in Slots
    BY <1>1
  <2>5. /\ e \in Databases /\ Threads(e, Front(order, Nships)) /\ e.first = order[Nships] /\ e.count = c.count
        /\ \A k \in Slots : SameShip(e.ships[k], c.ships[k])
    BY <2>2, <2>3, <2>4, MovesToFront, SMTT(60)
  <2>6. \A i \in 1..d.count : d.ships[order[i]].mmsi # m
    BY <1>2, <1>4
  <2>7. \A i \in Slots : i # order[Nships] => SameShip(e.ships[i], d.ships[i])
    BY <2>2, <2>5 DEF SameShip
  <2>8. e.ships[order[Nships]].count = 0 /\ e.ships[order[Nships]].path_ptr = -1
    BY <2>2, <2>4, <2>5 DEF SameShip
  <2>9. Enters(d, e, order, Nships, m)
    BY <1>4, <2>2, <2>5, <2>6, <2>7, <2>8 DEF Enters
  <2>10. QED
    BY <2>4, <2>9
<1>5. QED
  BY <1>3, <1>4

\* f is e with what is known of the ship at the front.
Fills(f, e, m) ==
  /\ f \in Databases /\ f.first = e.first /\ f.last = e.last /\ f.count = e.count
  /\ \A i \in Slots : /\ f.ships[i].next = e.ships[i].next /\ f.ships[i].prev = e.ships[i].prev
                      /\ i # e.first => SameShip(f.ships[i], e.ships[i])
  /\ f.ships[e.first].mmsi = m

HeardOf(d, order) == [i \in 1..d.count |-> Heard(d.ships[order[i]])]

\* The place in the list before of what is at place i now, but for the first.
LEMMA Filled ==
  ASSUME NEW d \in Databases, NEW order, Threads(d, order), InUse(d, order), NEW m \in Ships,
         NEW e, NEW j \in 1..Nships, Enters(d, e, order, j, m), NEW f, Fills(f, e, m)
  PROVE  /\ Threads(f, Front(order, j)) /\ InUse(f, Front(order, j))
         /\ Front(order, j)[1] = order[j] /\ f.count \in 1..Nships
         /\ \A i \in 2..f.count :
              LET k == IF i <= j THEN i - 1 ELSE i
              IN /\ k \in 1..d.count /\ order[k] # order[j] /\ Front(order, j)[i] = order[k]
                 /\ SameShip(f.ships[order[k]], d.ships[order[k]])
<1> DEFINE fr == Front(order, j)
<1>1. /\ order \in [1..Nships -> Slots] /\ d.count \in 0..Nships
      /\ \A i, k \in 1..Nships : order[i] = order[k] => i = k
  <2>1. \A i, k \in 1..Nships : order[i] = order[k] => i = k
    BY OncePlaced
  <2>2. QED
    BY <2>1 DEF Threads, Databases
<1>2. Threads(e, fr) /\ e.first = order[j] /\ e \in Databases
  BY DEF Enters
<1>3. fr \in [1..Nships -> Slots] /\ fr[1] = order[j]
      /\ \A i \in 2..Nships : fr[i] = order[IF i <= j THEN i - 1 ELSE i]
  BY <1>1 DEF Front
<1>4. Threads(f, fr)
  <2>1. \A k \in 1..Nships : fr[k] \in Slots
    BY <1>3
  <2> HIDE DEF fr
  <2>2. \A k \in 1..Nships : /\ f.ships[fr[k]].next = e.ships[fr[k]].next
                             /\ f.ships[fr[k]].prev = e.ships[fr[k]].prev
    BY <2>1 DEF Fills
  <2>3. f.first = e.first /\ f.last = e.last
    BY DEF Fills
  <2>4. /\ fr \in [1..Nships -> Slots] /\ \A i \in Slots : \E k \in 1..Nships : fr[k] = i
        /\ fr[1] = e.first /\ fr[Nships] = e.last
        /\ \A k \in 1..Nships : /\ e.ships[fr[k]].next = IF k = Nships THEN -1 ELSE fr[k + 1]
                                /\ e.ships[fr[k]].prev = IF k = 1 THEN -1 ELSE fr[k - 1]
    BY <1>2 DEF Threads
  <2>5. \A k \in 1..Nships : /\ f.ships[fr[k]].next = IF k = Nships THEN -1 ELSE fr[k + 1]
                             /\ f.ships[fr[k]].prev = IF k = 1 THEN -1 ELSE fr[k - 1]
    BY <2>2, <2>4, SMTT(60)
  <2>6. QED
    BY <2>3, <2>4, <2>5 DEF Threads
<1>5. /\ f.count \in 1..Nships
      /\ \A i \in 2..f.count : (IF i <= j THEN i - 1 ELSE i) \in 1..d.count
      /\ \A i \in 1..Nships : i # 1 /\ (IF i <= j THEN i - 1 ELSE i) \in 1..d.count => i <= f.count
  <2>1. CASE j <= d.count /\ e.count = d.count
    BY <1>1, <2>1 DEF Fills
  <2>2. CASE j = Nships /\ e.count = IF d.count < Nships THEN d.count + 1 ELSE Nships
    <3>1. f.count = IF d.count < Nships THEN d.count + 1 ELSE Nships
      BY <2>2 DEF Fills
    <3>2. CASE d.count < Nships
      BY <1>1, <2>2, <3>1, <3>2
    <3>3. CASE d.count = Nships
      BY <1>1, <2>2, <3>1, <3>3
    <3>4. QED
      BY <1>1, <3>2, <3>3
  <2>3. QED
    BY <2>1, <2>2 DEF Enters
<1>6. ASSUME NEW k \in 1..Nships, k # j
      PROVE  order[k] # order[j] /\ SameShip(f.ships[order[k]], d.ships[order[k]])
  <2>1. order[k] \in Slots /\ order[k] # order[j]
    BY <1>1, <1>6
  <2>2. SameShip(f.ships[order[k]], e.ships[order[k]]) /\ SameShip(e.ships[order[k]], d.ships[order[k]])
    BY <1>2, <2>1 DEF Fills, Enters
  <2>3. QED
    BY <2>1, <2>2 DEF SameShip
<1>7. ASSUME NEW i \in 2..Nships
      PROVE  LET k == IF i <= j THEN i - 1 ELSE i
             IN /\ k \in 1..Nships /\ order[k] # order[j] /\ fr[i] = order[k]
                /\ SameShip(f.ships[order[k]], d.ships[order[k]])
  <2> DEFINE k == IF i <= j THEN i - 1 ELSE i
  <2>1. k \in 1..Nships /\ k # j
    OBVIOUS
  <2>2. fr[i] = order[k]
    BY <1>3
  <2> HIDE DEF k
  <2>3. order[k] # order[j] /\ SameShip(f.ships[order[k]], d.ships[order[k]])
    BY <1>6, <2>1, SMTT(60)
  <2>4. QED
    BY <2>1, <2>2, <2>3 DEF k
<1>8. f.ships[fr[1]].mmsi = m /\ m # NoShip
  BY <1>2, <1>3 DEF Fills
<1>9. ASSUME NEW k \in 1..d.count, k # j PROVE d.ships[order[k]].mmsi # m
  <2>1. CASE j <= d.count /\ d.ships[order[j]].mmsi = m
    BY <1>1, <1>9, <2>1 DEF InUse
  <2>2. CASE \A i \in 1..d.count : d.ships[order[i]].mmsi # m
    BY <2>2
  <2>3. QED
    BY <2>1, <2>2 DEF Enters
<1> HIDE DEF fr
<1>10. ASSUME NEW i \in 2..f.count
       PROVE  \E k \in 1..d.count : /\ k = (IF i <= j THEN i - 1 ELSE i) /\ k # j /\ fr[i] = order[k]
                                    /\ f.ships[fr[i]].mmsi = d.ships[order[k]].mmsi
  <2>1. i \in 2..Nships
    BY <1>5
  <2>2. QED
    BY <1>5, <1>7, <2>1 DEF SameShip
<1>11. ASSUME NEW i \in 1..f.count PROVE f.ships[fr[i]].mmsi # NoShip
  <2>1. CASE i = 1
    BY <1>8, <2>1
  <2>2. CASE i # 1
    <3>1. PICK k \in 1..d.count : f.ships[fr[i]].mmsi = d.ships[order[k]].mmsi
      BY <1>5, <1>10, <2>2
    <3>2. QED
      BY <3>1 DEF InUse
  <2>3. QED
    BY <2>1, <2>2
<1>12. ASSUME NEW i \in 1..f.count, NEW k \in 1..f.count, f.ships[fr[i]].mmsi = f.ships[fr[k]].mmsi
       PROVE  i = k
  <2>1. CASE i = 1 /\ k # 1
    <3>1. f.ships[fr[k]].mmsi # m
      BY <1>5, <1>9, <1>10, <2>1
    <3>2. QED
      BY <1>8, <1>12, <2>1, <3>1
  <2>2. CASE i # 1 /\ k = 1
    <3>1. f.ships[fr[i]].mmsi # m
      BY <1>5, <1>9, <1>10, <2>2
    <3>2. QED
      BY <1>8, <1>12, <2>2, <3>1
  <2>3. CASE i # 1 /\ k # 1
    <3>1. PICK x \in 1..d.count : /\ x = (IF i <= j THEN i - 1 ELSE i) /\ x # j
                                  /\ f.ships[fr[i]].mmsi = d.ships[order[x]].mmsi
      BY <1>5, <1>10, <2>3
    <3>2. PICK y \in 1..d.count : /\ y = (IF k <= j THEN k - 1 ELSE k) /\ y # j
                                  /\ f.ships[fr[k]].mmsi = d.ships[order[y]].mmsi
      BY <1>5, <1>10, <2>3
    <3>3. x = y
      BY <1>12, <3>1, <3>2, ZenonT(30) DEF InUse
    <3>4. QED
      BY <1>5, <3>1, <3>2, <3>3
  <2>4. QED
    BY <2>1, <2>2, <2>3
<1>13. InUse(f, fr)
  BY <1>11, <1>12 DEF InUse
<1>14. ASSUME NEW i \in 2..f.count
       PROVE  LET k == IF i <= j THEN i - 1 ELSE i
              IN /\ k \in 1..d.count /\ order[k] # order[j] /\ fr[i] = order[k]
                 /\ SameShip(f.ships[order[k]], d.ships[order[k]])
  <2>1. i \in 2..Nships
    BY <1>5
  <2>2. QED
    BY <1>5, <1>7, <2>1
<1>15. QED
  BY <1>3, <1>4, <1>5, <1>13, <1>14 DEF fr
-----------------------------------------------------------------------------
(* The inductive invariant *)

\* What a report says of the place, -1 for nothing.
Said == Nat \cup {-1}
Reports == Seq(Said)

\* The file has ships of the database, each once, with the reports they had.
IsFile(f) ==
  /\ f \in Seq([ship : Ship, reports : Reports]) /\ Len(f) <= Nships
  /\ \A i \in 1..Len(f) : f[i].ship.mmsi \in Ships /\ f[i].ship.count = Len(f[i].reports)
  /\ \A i, k \in 1..Len(f) : f[i].ship.mmsi = f[k].ship.mmsi => i = k
Filed == IsFile(file) /\ toLoad \in 0..Len(file)

\* While Load runs the list holds what it has read, and there are no paths.
Loading ==
  ~Free => /\ count = Len(file) - toLoad /\ paths = NoPaths
           /\ Loads(file, count)
           /\ \A i \in 1..Len(file) : reports[file[i].ship.mmsi] = file[i].reports
           /\ HeardLast = [i \in 1..count |-> Heard(file[count + 1 - i].ship)]

\* The count of a ship on the list is that of its reports.
Counts(used, slots, rs) ==
  \A i \in used : slots[i].mmsi # NoShip => slots[i].count = Len(rs[slots[i].mmsi])
Counted == reports \in [Ships -> Reports] /\ clock \in Times /\ Counts(Listed(DB), ships, reports)

\* The k-th report was of the place.
Says(known, k, place) == k \in 1..Len(known) /\ known[k] = place

Told(slots, rs, s, place) == Says(rs[slots[s].mmsi], slots[s].count, place)

\* The points of g are of the ships listed now, as they reported them, and g has
\* all that a path can come to.
Tracks(g, points, used, slots, rs) ==
  /\ \A i \in g : LET n == points[i].next
                  IN /\ points[i].mmsi # NoShip
                     /\ Says(rs[points[i].mmsi], points[i].count, points[i].place)
                     /\ n # -1 /\ points[n].mmsi = points[i].mmsi => n \in g
  /\ \A s \in used : LET n == slots[s].path_ptr
                     IN slots[s].mmsi # NoShip /\ n # -1 /\ points[n].mmsi = slots[s].mmsi => n \in g
Tracked == \E g \in SUBSET (0..Npaths - 1) : Tracks(g, paths, Listed(DB), ships, reports)

IInv == ListIsWhole /\ Filed /\ Loading /\ Counted /\ Tracked

SlotArrays == [Slots -> Ship]
Histories == [Ships -> Reports]
Rings == [0..Npaths - 1 -> [mmsi : Ships \cup {NoShip}, count : Nat, place : Nat, next : -1..Npaths - 1]]

LEMMA WholeOrder ==
  ASSUME ListIsWhole
  PROVE  /\ DB \in Databases /\ DB.first = first /\ DB.last = last /\ DB.count = count /\ DB.ships = ships
         /\ Threads(DB, Order(DB)) /\ InUse(DB, Order(DB))
         /\ count \in 0..Nships /\ ships \in [Slots -> Ship]
         /\ paths \in Rings /\ path_idx \in 0..Npaths - 1
         /\ Listed(DB) = {Order(DB)[i] : i \in 1..count} /\ Listed(DB) \in SUBSET Slots
<1>1. TypeOK
  BY DEF ListIsWhole
<1>2. first \in Slots /\ last \in Slots /\ count \in 0..Nships /\ ships \in [Slots -> Ship]
      /\ paths \in Rings /\ path_idx \in 0..Npaths - 1
  BY <1>1 DEF TypeOK, Rings
<1>3. DB.first = first /\ DB.last = last /\ DB.count = count /\ DB.ships = ships
  BY DEF DB
<1>4. DB \in Databases
  BY <1>2 DEF DB, Databases
<1>5. PICK order \in [1..Nships -> Slots] :
        /\ Threads(DB, order)
        /\ \A i \in 1..count : ships[order[i]].mmsi # NoShip
        /\ \A i, k \in 1..count : ships[order[i]].mmsi = ships[order[k]].mmsi => i = k
  BY SMTT(60) DEF ListIsWhole
<1>6. Order(DB) = order
  BY <1>5, OrderIs
<1>7. InUse(DB, order)
  BY <1>3, <1>5 DEF InUse
<1>8. Listed(DB) = {order[i] : i \in 1..count}
  BY <1>3, <1>6 DEF Listed
<1>9. Listed(DB) \in SUBSET Slots
  BY <1>2, <1>5, <1>8
<1>10. QED
  BY <1>2, <1>3, <1>4, <1>5, <1>6, <1>7, <1>8, <1>9

LEMMA Whole == ListIsWhole => Listed(DB) \in SUBSET Slots
BY WholeOrder

LEMMA WholeNext == (ListIsWhole => Listed(DB) \in SUBSET Slots)'
BY Whole, PTL

LEMMA WholeAgain ==
  ASSUME NEW f \in Databases, NEW order, Threads(f, order), InUse(f, order), DBIs(f),
         paths' \in Rings, path_idx' \in 0..Npaths - 1
  PROVE  /\ ListIsWhole' /\ DB' = f /\ Order(DB)' = order
         /\ Listed(DB)' = {order[i] : i \in 1..f.count}
<1>1. DB' = f
  <2>1. f = [first |-> f.first, last |-> f.last, count |-> f.count, ships |-> f.ships]
    BY DEF Databases
  <2>2. QED
    BY <2>1 DEF DB, DBIs
<1>2. first' = f.first /\ last' = f.last /\ count' = f.count /\ ships' = f.ships
  BY DEF DBIs
<1>3. TypeOK'
  <2>1. f.first \in Slots /\ f.last \in Slots /\ f.count \in 0..Nships /\ f.ships \in [Slots -> Ship]
    BY DEF Databases
  <2>2. QED
    BY <1>2, <2>1, Zenon DEF TypeOK, Rings
<1>4. order \in [1..Nships -> Slots]
  BY DEF Threads
<1>5. /\ \A i \in 1..count' : ships'[order[i]].mmsi # NoShip
      /\ \A i, k \in 1..count' : ships'[order[i]].mmsi = ships'[order[k]].mmsi => i = k
  BY <1>2 DEF InUse
<1>6. ListIsWhole'
  BY <1>1, <1>3, <1>4, <1>5, SMTT(60) DEF ListIsWhole
<1>7. Order(f) = order
  BY OrderIs
<1>8. Order(DB)' = order
  BY <1>1, <1>7
<1>9. Listed(DB)' = {order[i] : i \in 1..f.count}
  BY <1>1, <1>8 DEF Listed
<1>10. QED
  BY <1>1, <1>6, <1>8, <1>9

\* One record more about the ship at the front.
LEMMA FirstSet ==
  ASSUME NEW e, NEW m, NEW r, NEW f, e \in Databases, m \in Ships, r \in Ship, r.mmsi = m,
         r.next = e.ships[e.first].next, r.prev = e.ships[e.first].prev,
         f.first = e.first, f.last = e.last, f.count = e.count,
         f = [first |-> f.first, last |-> f.last, count |-> f.count, ships |-> f.ships],
         f.ships \in [Slots -> Ship], f.ships[e.first] = r,
         \A i \in Slots : i # e.first => f.ships[i] = e.ships[i]
  PROVE  Fills(f, e, m)
<1>1. e.first \in Slots /\ e.last \in Slots /\ e.count \in 0..Nships /\ e.ships \in [Slots -> Ship]
  BY DEF Databases
<1>2. f \in Databases
  BY <1>1 DEF Databases
<1>3. \A i \in Slots : f.ships[i].next = e.ships[i].next /\ f.ships[i].prev = e.ships[i].prev
  OBVIOUS
<1>4. QED
  BY <1>2, <1>3 DEF Fills, SameShip

LEMMA FilledTwice ==
  ASSUME NEW e \in Databases, NEW u, NEW f, NEW m, Fills(u, e, m), Fills(f, u, m)
  PROVE  Fills(f, e, m)
BY DEF Fills, SameShip

\* Receive's update of the ship at the front.
LEMMA UpdatedIs ==
  ASSUME NEW m \in Ships, clock \in Times, NEW e \in Databases, e = Enter(DB, m), NEW u, u = Updated(m)
  PROVE  /\ Fills(u, e, m) /\ u.ships[e.first].count = e.ships[e.first].count + 1
         /\ u.ships[e.first].path_ptr = e.ships[e.first].path_ptr /\ u.ships[e.first].last_signal = clock
<1> DEFINE t == e.ships[e.first]
           r == [e.ships[e.first] EXCEPT !.mmsi = m, !.count = @ + 1, !.last_signal = clock]
<1>1. t \in Ship /\ e.first \in Slots /\ e.ships \in [Slots -> Ship]
  BY SMTT(60) DEF Databases
<1>2. /\ r.mmsi = m /\ r.count = t.count + 1 /\ r.path_ptr = t.path_ptr /\ r.last_signal = clock
      /\ r.next = t.next /\ r.prev = t.prev /\ r \in Ship
  <2>1. /\ t.count \in Nat /\ t.path_ptr \in -1..Npaths - 1 /\ t.next \in -1..Nships - 1
        /\ t.prev \in -1..Nships - 1 /\ clock \in 0..MaxTime
        /\ t = [mmsi |-> t.mmsi, count |-> t.count, path_ptr |-> t.path_ptr, last_signal |-> t.last_signal,
                next |-> t.next, prev |-> t.prev]
    BY <1>1, SMTT(60) DEF Ship, Times
  <2>2. PICK q : q = r /\ q = [t EXCEPT !.mmsi = m, !.count = @ + 1, !.last_signal = clock]
    OBVIOUS
  <2> HIDE DEF t, r
  <2>3. q = [mmsi |-> m, count |-> t.count + 1, path_ptr |-> t.path_ptr, last_signal |-> clock,
             next |-> t.next, prev |-> t.prev]
    BY <2>1, <2>2, Zenon
  <2>4. q \in Ship
    BY <2>1, <2>3 DEF Ship
  <2> HIDE DEF r
  <2>5. QED
    BY <2>2, <2>3, <2>4, SMTT(60)
<1>3. PICK q : q = r
  OBVIOUS
<1>4. /\ u.first = e.first /\ u.last = e.last /\ u.count = e.count
      /\ u = [first |-> u.first, last |-> u.last, count |-> u.count, ships |-> u.ships]
      /\ u.ships \in [Slots -> Ship] /\ u.ships[e.first] = q
      /\ \A i \in Slots : i # e.first => u.ships[i] = e.ships[i]
  <2>1. u = [e EXCEPT !.ships[e.first] = [e.ships[e.first] EXCEPT !.mmsi = m, !.count = @ + 1, !.last_signal = clock]]
    BY DEF Updated
  <2>2. u = [e EXCEPT !.ships = [e.ships EXCEPT ![e.first] = q]]
    BY <1>3, <2>1, SMTT(60)
  <2> HIDE DEF r
  <2>3. QED
    BY <1>1, <1>2, <1>3, <2>2 DEF Databases
<1> HIDE DEF r
<1>5. Fills(u, e, m)
  <2>1. q \in Ship /\ q.mmsi = m /\ q.next = e.ships[e.first].next /\ q.prev = e.ships[e.first].prev
    BY <1>2, <1>3
  <2>2. QED
    BY <1>4, <2>1, FirstSet
<1>6. QED
  BY <1>2, <1>3, <1>4, <1>5

-----------------------------------------------------------------------------
(* Paths *)

\* The ship m in slot p has reported its place, and of the slots in use only p may be
\* new; before, the slots and reports were old and rs.
Hears(used, old, rs, used2, new, rs2, p, m, place) ==
  /\ p \in Slots /\ new[p].mmsi = m /\ used \in SUBSET Slots /\ used2 \subseteq used \cup {p}
  /\ \A i \in used : i # p => SameShip(new[i], old[i]) /\ old[i].mmsi # m
  /\ \/ /\ p \in used /\ old[p].mmsi = m /\ new[p].path_ptr = old[p].path_ptr
        /\ new[p].count = old[p].count + 1 /\ rs2 = [rs EXCEPT ![m] = Append(rs[m], place)]
     \/ new[p].path_ptr = -1 /\ new[p].count = 1 /\ rs2 = [rs EXCEPT ![m] = <<place>>]

LEMMA CountsOn ==
  ASSUME NEW used, NEW used2, NEW old, NEW rs, NEW new, NEW rs2, NEW p, NEW m, NEW place,
         old \in SlotArrays, new \in SlotArrays, rs \in Histories, m \in Ships, place \in Said,
         Hears(used, old, rs, used2, new, rs2, p, m, place), Counts(used, old, rs)
  PROVE  rs2 \in Histories /\ Counts(used2, new, rs2) /\ Told(new, rs2, p, place)
<1> USE DEF SlotArrays, Histories
<1>1. \A x \in Ships : x # m => rs2[x] = rs[x]
  BY DEF Hears
<1>2. /\ rs2[m] \in Reports /\ new[p].count = Len(rs2[m]) /\ new[p].count \in 1..Len(rs2[m])
      /\ rs2[m][new[p].count] = place
  <2>1. CASE /\ p \in used /\ old[p].mmsi = m /\ new[p].path_ptr = old[p].path_ptr /\ new[p].count = old[p].count + 1
             /\ rs2 = [rs EXCEPT ![m] = Append(rs[m], place)]
    <3>1. rs2[m] = Append(rs[m], place) /\ rs[m] \in Reports
      BY <2>1
    <3>2. old[p].count = Len(rs[m])
      BY <2>1, SMTT(60) DEF Hears, Counts
    <3>3. PICK q \in Reports : q = rs[m]
      BY <3>1
    <3>4. /\ Append(q, place) \in Reports /\ Len(Append(q, place)) = Len(q) + 1
          /\ Append(q, place)[Len(q) + 1] = place /\ Len(q) \in Nat
      BY DEF Reports
    <3>5. QED
      BY <2>1, <3>1, <3>2, <3>3, <3>4
  <2>2. CASE new[p].path_ptr = -1 /\ new[p].count = 1 /\ rs2 = [rs EXCEPT ![m] = <<place>>]
    <3>1. rs2[m] = <<place>>
      BY <2>2
    <3>2. <<place>> \in Reports /\ Len(<<place>>) = 1 /\ <<place>>[1] = place
      BY DEF Reports
    <3>3. QED
      BY <2>2, <3>1, <3>2
  <2>3. QED
    BY <2>1, <2>2 DEF Hears
<1>3. rs2 \in [Ships -> Reports]
  <2>1. rs2 = [x \in Ships |-> rs2[x]]
    BY DEF Hears
  <2>2. \A x \in Ships : rs2[x] \in Reports
    BY <1>1, <1>2
  <2>3. QED
    BY <2>1, <2>2
<1>4. Counts(used2, new, rs2)
  <2>1. SUFFICES ASSUME NEW i \in used2, new[i].mmsi # NoShip PROVE new[i].count = Len(rs2[new[i].mmsi])
    BY DEF Counts
  <2>2. CASE i = p
    BY <1>2, <2>2 DEF Hears
  <2>3. CASE i # p
    <3>1. i \in used /\ i \in Slots /\ SameShip(new[i], old[i]) /\ old[i].mmsi # m
      BY <2>3 DEF Hears
    <3>2. old[i].mmsi \in Ships /\ old[i].mmsi # NoShip
      BY <2>1, <3>1 DEF SameShip, Ship
    <3>3. QED
      BY <1>1, <3>1, <3>2 DEF SameShip, Counts
  <2>4. QED
    BY <2>2, <2>3
<1>5. QED
  BY <1>2, <1>3, <1>4 DEF Says, Told, Hears

\* The tracked points g are all right.
Right(g, points, used, slots, rs) ==
  /\ points \in Rings /\ slots \in SlotArrays /\ rs \in Histories
  /\ g \in SUBSET (0..Npaths - 1) /\ Tracks(g, points, used, slots, rs)

HearsSome(used, old, rs, used2, new, rs2) ==
  /\ new \in SlotArrays
  /\ \E p \in Slots, m \in Ships, place \in Said : Hears(used, old, rs, used2, new, rs2, p, m, place)

LEMMA TracksOn ==
  ASSUME NEW points, NEW used, NEW used2, NEW old, NEW rs, NEW new, NEW rs2, NEW g,
         Right(g, points, used, old, rs), HearsSome(used, old, rs, used2, new, rs2)
  PROVE  \E h \in SUBSET (0..Npaths - 1) : Tracks(h, points, used2, new, rs2)
<1> USE DEF SlotArrays, Histories
<1> points \in Rings /\ old \in SlotArrays /\ rs \in Histories /\ g \in SUBSET (0..Npaths - 1)
    /\ Tracks(g, points, used, old, rs) /\ new \in SlotArrays
  BY DEF Right, HearsSome
<1>0. PICK p \in Slots, m \in Ships, place \in Said : Hears(used, old, rs, used2, new, rs2, p, m, place)
  BY DEF HearsSome
<1>1. \A i \in g : points[i].mmsi \in Ships /\ points[i].count \in Nat /\ points[i].place \in Nat
  BY DEF Rings, Tracks
<1>2. CASE /\ p \in used /\ old[p].mmsi = m /\ new[p].path_ptr = old[p].path_ptr
           /\ rs2 = [rs EXCEPT ![m] = Append(rs[m], place)]
  <2>1. \A x \in Ships : \A k \in 1..Len(rs[x]) : k \in 1..Len(rs2[x]) /\ rs2[x][k] = rs[x][k]
    <3>1. SUFFICES ASSUME NEW x \in Ships, NEW k \in 1..Len(rs[x])
                   PROVE  k \in 1..Len(rs2[x]) /\ rs2[x][k] = rs[x][k]
      OBVIOUS
    <3>2. CASE x = m
      <4>1. PICK q \in Reports : q = rs[m]
        OBVIOUS
      <4>2. k \in 1..Len(q) /\ Len(Append(q, place)) = Len(q) + 1 /\ Append(q, place)[k] = q[k]
        BY <3>2, <4>1 DEF Reports
      <4>3. rs2[x] = Append(q, place) /\ Len(q) \in Nat
        BY <1>2, <3>2, <4>1 DEF Reports
      <4>4. QED
        BY <3>2, <4>1, <4>2, <4>3
    <3>3. CASE x # m
      BY <1>2, <3>3
    <3>4. QED
      BY <3>2, <3>3
  <2>2. ASSUME NEW s \in used2
        PROVE  s \in used /\ new[s].mmsi = old[s].mmsi /\ new[s].path_ptr = old[s].path_ptr
    BY <1>0, <1>2 DEF Hears, SameShip
  <2>3. \A x \in Ships, k \in Nat, y \in Nat : Says(rs[x], k, y) => Says(rs2[x], k, y)
    BY <2>1 DEF Says
  <2>4. Tracks(g, points, used2, new, rs2)
    BY <1>1, <2>2, <2>3 DEF Tracks
  <2>5. QED
    BY <2>4
<1>3. CASE new[p].path_ptr = -1 /\ rs2 = [rs EXCEPT ![m] = <<place>>]
  <2> DEFINE h == {i \in g : points[i].mmsi # m}
  <2>1. \A i \in h : rs2[points[i].mmsi] = rs[points[i].mmsi]
    BY <1>1, <1>3
  <2>2. ASSUME NEW i \in h
        PROVE  LET n == points[i].next
               IN /\ points[i].mmsi # NoShip
                  /\ Says(rs2[points[i].mmsi], points[i].count, points[i].place)
                  /\ n # -1 /\ points[n].mmsi = points[i].mmsi => n \in h
    BY <2>1 DEF Tracks
  <2>3. ASSUME NEW s \in used2
        PROVE  LET n == new[s].path_ptr
               IN new[s].mmsi # NoShip /\ n # -1 /\ points[n].mmsi = new[s].mmsi => n \in h
    <3>1. CASE s = p
      BY <1>3, <3>1
    <3>2. CASE s # p
      <4>1. s \in used /\ new[s].mmsi = old[s].mmsi /\ new[s].path_ptr = old[s].path_ptr /\ old[s].mmsi # m
        BY <1>0, <3>2 DEF Hears, SameShip
      <4>2. QED
        BY <4>1 DEF Tracks
    <3>3. QED
      BY <3>1, <3>2
  <2>4. Tracks(h, points, used2, new, rs2)
    BY <2>2, <2>3 DEF Tracks
  <2>5. QED
    BY <2>4, Zenon
<1>4. QED
  BY <1>0, <1>2, <1>3 DEF Hears

\* addToPath: the point the path ends in moves.
PointMoved(points, pts, x, slots, s, place) ==
  pts = [points EXCEPT ![x].place = place, ![x].count = slots[s].count]

\* The slot s in use has reported its place, which comes next into the ring.
MayAdd(used, slots, rs, s, place) ==
  /\ used \in SUBSET Slots /\ s \in used /\ slots[s].mmsi # NoShip /\ place \in Nat
  /\ Told(slots, rs, s, place)

LEMMA PointMoves ==
  ASSUME NEW points, NEW used, NEW slots, NEW rs, NEW g, NEW s, NEW x, NEW place, NEW pts,
         Right(g, points, used, slots, rs), MayAdd(used, slots, rs, s, place),
         x \in 0..Npaths - 1, x = slots[s].path_ptr, points[x].mmsi = slots[s].mmsi,
         PointMoved(points, pts, x, slots, s, place)
  PROVE  pts \in Rings /\ Tracks(g, pts, used, slots, rs)
<1> USE DEF SlotArrays, Histories, Right, MayAdd
<1> DEFINE m == slots[s].mmsi
<1>0. m \in Ships /\ Says(rs[m], slots[s].count, place)
  BY DEF Ship, Told
<1> HIDE DEF m
<1>1. slots[s].count \in Nat /\ points[x] \in [mmsi : Ships \cup {NoShip}, count : Nat, place : Nat, next : -1..Npaths - 1]
  BY ZenonT(60) DEF Ship, Rings
<1>2. /\ pts[x].mmsi = m /\ pts[x].count = slots[s].count /\ pts[x].place = place /\ pts[x].next = points[x].next
      /\ pts[x] \in [mmsi : Ships \cup {NoShip}, count : Nat, place : Nat, next : -1..Npaths - 1]
      /\ \A i \in 0..Npaths - 1 : i # x => pts[i] = points[i]
      /\ pts = [i \in 0..Npaths - 1 |-> pts[i]]
  BY <1>0, <1>1, ZenonT(60) DEF Rings, PointMoved, m
<1>3. pts \in Rings
  BY <1>2, SMTT(60) DEF Rings
<1>4. \A i \in 0..Npaths - 1 : pts[i].mmsi = points[i].mmsi /\ pts[i].next = points[i].next
  BY <1>2, Zenon DEF m
<1>5. \A i \in 0..Npaths - 1 : points[i].next \in -1..Npaths - 1
  BY Zenon DEF Rings
<1>6. x \in g
  BY <1>0 DEF Tracks, m
<1>7. ASSUME NEW i \in g
      PROVE  LET n == pts[i].next
             IN /\ pts[i].mmsi # NoShip
                /\ Says(rs[pts[i].mmsi], pts[i].count, pts[i].place)
                /\ n # -1 /\ pts[n].mmsi = pts[i].mmsi => n \in g
  <2>1. pts[i].mmsi # NoShip /\ Says(rs[pts[i].mmsi], pts[i].count, pts[i].place)
    <3>1. CASE i = x
      BY <1>0, <1>2, <3>1, Zenon
    <3>2. CASE i # x
      <4>1. pts[i] = points[i]
        BY <1>2, <3>2, Zenon
      <4>2. points[i].mmsi # NoShip /\ Says(rs[points[i].mmsi], points[i].count, points[i].place)
        BY Zenon DEF Tracks
      <4>3. QED
        BY <4>1, <4>2, Zenon
    <3>3. QED
      BY <3>1, <3>2
  <2>2. pts[i].next # -1 /\ pts[pts[i].next].mmsi = pts[i].mmsi => pts[i].next \in g
    <3>1. PICK n \in -1..Npaths - 1 : n = points[i].next
      BY <1>5
    <3>2. pts[i].next = n /\ pts[i].mmsi = points[i].mmsi /\ (n # -1 => pts[n].mmsi = points[n].mmsi)
      <4>1. i \in 0..Npaths - 1
        OBVIOUS
      <4>2. n # -1 => n \in 0..Npaths - 1
        BY <3>1
      <4>3. pts[i].next = n /\ pts[i].mmsi = points[i].mmsi
        BY <1>4, <3>1, <4>1
      <4>4. n # -1 => pts[n].mmsi = points[n].mmsi
        BY <1>4, <4>2
      <4>5. QED
        BY <4>3, <4>4
    <3>3. n # -1 /\ points[n].mmsi = points[i].mmsi => n \in g
      BY <3>1 DEF Tracks
    <3>4. QED
      BY <3>2, <3>3
  <2>3. QED
    BY <2>1, <2>2
<1>8. ASSUME NEW t \in used
      PROVE  LET n == slots[t].path_ptr
             IN slots[t].mmsi # NoShip /\ n # -1 /\ pts[n].mmsi = slots[t].mmsi => n \in g
  <2>1. slots[t].path_ptr \in -1..Npaths - 1
    BY DEF Ship
  <2>2. QED
    BY <1>4, <2>1 DEF Tracks
<1>9. QED
  BY <1>3, <1>7, <1>8 DEF Tracks

\* addToPath: a new point, over whatever the ring had there.
NewPoint(points, pts, x, slots, s, place) ==
  pts = [i \in 0..Npaths - 1 |-> IF i = x THEN [mmsi |-> slots[s].mmsi, count |-> slots[s].count,
                                               place |-> place, next |-> slots[s].path_ptr]
                                 ELSE points[i]]
PointsTo(slots, slots2, s, x) ==
  \A i \in Slots : /\ slots2[i].mmsi = slots[i].mmsi
                    /\ slots2[i].path_ptr = IF i = s THEN x ELSE slots[i].path_ptr

PointNew(points, pts, x, slots, slots2, s, place) ==
  x \in 0..Npaths - 1 /\ NewPoint(points, pts, x, slots, s, place) /\ PointsTo(slots, slots2, s, x)

LEMMA PointAdded ==
  ASSUME NEW points, NEW used, NEW slots, NEW rs, NEW g, NEW s, NEW x, NEW place, NEW pts, NEW slots2,
         Right(g, points, used, slots, rs), MayAdd(used, slots, rs, s, place),
         PointNew(points, pts, x, slots, slots2, s, place)
  PROVE  pts \in Rings /\ \E h \in SUBSET (0..Npaths - 1) : Tracks(h, pts, used, slots2, rs)
<1> USE DEF SlotArrays, Histories, Right, MayAdd, PointNew
<1> DEFINE h == g \cup {x}
           m == slots[s].mmsi
<1>0. m \in Ships /\ Says(rs[m], slots[s].count, place)
  BY DEF Ship, Told
<1>1. slots[s].count \in Nat /\ \A i \in Slots : slots[i].path_ptr \in -1..Npaths - 1
  BY DEF Ship
<1>2. /\ pts[x].mmsi = m /\ pts[x].count = slots[s].count /\ pts[x].place = place
      /\ pts[x].next = slots[s].path_ptr
      /\ pts[x] \in [mmsi : Ships \cup {NoShip}, count : Nat, place : Nat, next : -1..Npaths - 1]
      /\ \A i \in 0..Npaths - 1 : i # x => pts[i] = points[i]
      /\ pts = [i \in 0..Npaths - 1 |-> pts[i]]
  BY <1>0, <1>1 DEF NewPoint
<1>3. pts \in Rings
  BY <1>2, ZenonT(60) DEF Rings
<1>4. \A i \in 0..Npaths - 1 : points[i].next \in -1..Npaths - 1
  BY Zenon DEF Rings
<1>5. ASSUME NEW i \in h
      PROVE  LET n == pts[i].next
             IN /\ pts[i].mmsi # NoShip
                /\ Says(rs[pts[i].mmsi], pts[i].count, pts[i].place)
                /\ n # -1 /\ pts[n].mmsi = pts[i].mmsi => n \in h
  <2>1. CASE i = x
    <3>1. slots[s].path_ptr # -1 /\ slots[s].path_ptr # x /\ pts[slots[s].path_ptr].mmsi = m
          => slots[s].path_ptr \in g
      BY <1>1, <1>2, SMTT(60) DEF Tracks
    <3>2. QED
      BY <1>0, <1>2, <2>1, <3>1, SMTT(60)
  <2>2. CASE i # x
    <3>1. i \in g /\ pts[i] = points[i] /\ i \in 0..Npaths - 1
      BY <1>2, <2>2, SMTT(60)
    <3>2. points[i].next # -1 /\ points[i].next # x /\ pts[points[i].next].mmsi = points[i].mmsi
          => points[i].next \in g
      BY <1>2, <1>4, <3>1, SMTT(60) DEF Tracks
    <3>3. points[i].mmsi # NoShip /\ Says(rs[points[i].mmsi], points[i].count, points[i].place)
      BY <3>1 DEF Tracks
    <3>4. QED
      BY <3>1, <3>2, <3>3
  <2>3. QED
    BY <2>1, <2>2
<1>6. ASSUME NEW t \in used
      PROVE  LET n == slots2[t].path_ptr
             IN slots2[t].mmsi # NoShip /\ n # -1 /\ pts[n].mmsi = slots2[t].mmsi => n \in h
  <2>1. CASE t = s
    BY <2>1, SMTT(60) DEF PointsTo
  <2>2. CASE t # s
    BY <1>1, <1>2, <2>2, SMTT(60) DEF Tracks, PointsTo
  <2>3. QED
    BY <2>1, <2>2
<1>7. Tracks(h, pts, used, slots2, rs)
  BY <1>5, <1>6 DEF Tracks
<1>8. QED
  BY <1>3, <1>7

\* getSinglePathJSON never leaves the points that are tracked.
PathOf(s, path, n, points, used, slots) ==
  /\ paths = points /\ s \in used /\ slots[s].mmsi # NoShip
  /\ n \in 1..Npaths /\ path \in [1..n -> 0..Npaths - 1] /\ Goes(slots[s], path)

LEMMA PathTracked ==
  ASSUME NEW points, NEW used, NEW slots, NEW rs, NEW g, NEW s, NEW n, NEW path,
         PathOf(s, path, n, points, used, slots), Tracks(g, points, used, slots, rs)
  PROVE  \A k \in 1..n : path[k] \in g /\ points[path[k]].mmsi = slots[s].mmsi
<1>0. /\ Len(path) = n /\ paths = points /\ s \in used /\ slots[s].mmsi # NoShip
      /\ n \in 1..Npaths /\ path \in [1..n -> 0..Npaths - 1] /\ Goes(slots[s], path)
  <2>1. /\ paths = points /\ s \in used /\ slots[s].mmsi # NoShip
        /\ n \in 1..Npaths /\ path \in [1..n -> 0..Npaths - 1] /\ Goes(slots[s], path)
    BY DEF PathOf
  <2>2. QED
    BY <2>1
<1> DEFINE T == {k \in 1..n : ~ (path[k] \in g /\ points[path[k]].mmsi = slots[s].mmsi)}
<1>1. SUFFICES ASSUME T # {} PROVE FALSE
  OBVIOUS
<1>2. PICK k \in T : \A y \in T : k <= y
  <2>1. T \in SUBSET Nat
    OBVIOUS
  <2>2. QED
    BY <1>1, <2>1, Smallest, Zenon
<1>3. k # 1
  <2>1. path[1] = slots[s].path_ptr /\ path[1] # -1 /\ points[path[1]].mmsi = slots[s].mmsi
    BY <1>0 DEF Goes, IsNextPathPoint
  <2>2. path[1] \in g
    BY <1>0, <2>1 DEF Tracks
  <2>3. QED
    BY <2>1, <2>2
<1>4. k - 1 \in 1..n - 1 /\ k - 1 \notin T /\ k - 1 \in 1..n
  BY <1>0, <1>2, <1>3
<1>5. path[k - 1] \in g /\ points[path[k - 1]].mmsi = slots[s].mmsi
  BY <1>4
<1>6. path[k] = points[path[k - 1]].next /\ path[k] # -1 /\ points[path[k]].mmsi = slots[s].mmsi
  <2>1. PICK i \in 1..Len(path) - 1 : i = k - 1
    BY <1>0, <1>4
  <2>2. path[i + 1] = points[path[i]].next /\ path[i + 1] # -1 /\ points[path[i + 1]].mmsi = slots[s].mmsi
    BY <1>0, ZenonT(60) DEF Goes, IsNextPathPoint
  <2>3. k = i + 1
    BY <1>2, <2>1
  <2>4. QED
    BY <2>1, <2>2, <2>3
<1>7. path[k] \in g
  BY <1>5, <1>6 DEF Tracks
<1>8. QED
  BY <1>2, <1>6, <1>7

\* What holds of some slots holds of fewer.
LEMMA Fewer ==
  ASSUME NEW used, NEW less, less \subseteq used, NEW slots, NEW rs
  PROVE  /\ Counts(used, slots, rs) => Counts(less, slots, rs)
         /\ \A g, points : Tracks(g, points, used, slots, rs) => Tracks(g, points, less, slots, rs)
BY DEF Counts, Tracks

-----------------------------------------------------------------------------
(* Receive *)

\* The reports of a ship are those of its slot.
LEMMA ShipHears ==
  ASSUME ListIsWhole, NEW m \in Ships, NEW e, e = Enter(DB, m), NEW u, Fills(u, e, m),
         u.ships[e.first].count = e.ships[e.first].count + 1,
         u.ships[e.first].path_ptr = e.ships[e.first].path_ptr,
         reports \in [Ships -> Reports], NEW place, NEW rs,
         rs = [reports EXCEPT ![m] = Append(IF FindShip(DB, m) = {} THEN <<>> ELSE reports[m], place)]
  PROVE  /\ e \in Databases
         /\ Hears(Listed(DB), ships, reports, Listed(DB) \cup {e.first}, u.ships, rs, e.first, m, place)
<1>1. PICK order : order = Order(DB)
  OBVIOUS
<1>2. /\ DB \in Databases /\ DB.count = count /\ DB.ships = ships /\ Threads(DB, order) /\ InUse(DB, order)
      /\ count \in 0..Nships /\ ships \in [Slots -> Ship]
      /\ Listed(DB) = {order[i] : i \in 1..count} /\ Listed(DB) \in SUBSET Slots
  BY <1>1, WholeOrder, SMTT(60)
<1>3. PICK j \in 1..Nships : Enters(DB, e, order, j, m)
  BY <1>2, Entered, SMTT(60)
<1>4. order \in [1..Nships -> Slots] /\ e.first = order[j] /\ e.first \in Slots /\ e \in Databases
  BY <1>2, <1>3, SMTT(60) DEF Threads, Enters
<1>5. ASSUME NEW i \in Listed(DB), i # e.first PROVE SameShip(u.ships[i], ships[i]) /\ ships[i].mmsi # m
  <2> i \in Slots
    BY <1>2
  <2>1. SameShip(u.ships[i], ships[i])
    <3>1. SameShip(u.ships[i], e.ships[i])
      BY <1>5, SMTT(60) DEF Fills
    <3>2. SameShip(e.ships[i], ships[i])
      BY <1>2, <1>3, <1>4, <1>5, SMTT(60) DEF Enters
    <3>3. QED
      BY <3>1, <3>2, SMTT(60) DEF SameShip
  <2>2. PICK k \in 1..count : order[k] = i
    BY <1>2, SMTT(60)
  <2>3. ASSUME ships[i].mmsi = m PROVE FALSE
    <3>1. CASE j <= count /\ ships[order[j]].mmsi = m
      <4>1. j \in 1..count
        BY <1>2, <3>1, SMTT(60)
      <4>2. j = k
        BY <1>2, <2>2, <2>3, <3>1, <4>1, SMTT(60) DEF InUse
      <4>3. QED
        BY <1>4, <1>5, <2>2, <4>2, SMTT(60)
    <3>2. CASE \A x \in 1..count : ships[order[x]].mmsi # m
      BY <2>2, <2>3, <3>2
    <3>3. QED
      BY <1>2, <1>3, <3>1, <3>2, SMTT(60) DEF Enters
  <2>4. QED
    BY <2>1, <2>3
<1>6. CASE FindShip(DB, m) # {}
  <2>0. e.first \in Listed(DB)
    BY <1>2, <1>3, <1>4, <1>6 DEF Enters
  <2>1. ships[e.first].mmsi = m /\ SameShip(e.ships[e.first], ships[e.first])
    BY <1>2, <1>3, <1>4, <1>6 DEF Enters
  <2>2. rs = [reports EXCEPT ![m] = Append(reports[m], place)]
    BY <1>6, ZenonT(60)
  <2>3. QED
    BY <1>2, <1>4, <1>5, <2>0, <2>1, <2>2, ZenonT(60) DEF Hears, SameShip, Fills
<1>7. CASE FindShip(DB, m) = {}
  <2>1. e.ships[e.first].count = 0 /\ e.ships[e.first].path_ptr = -1
    BY <1>3, <1>4, <1>7 DEF Enters
  <2>2. rs = [reports EXCEPT ![m] = <<place>>]
    BY <1>7
  <2>3. u.ships[e.first].count = 1 /\ u.ships[e.first].path_ptr = -1 /\ u.ships[e.first].mmsi = m
    BY <2>1 DEF Fills
  <2>4. QED
    BY <1>2, <1>4, <1>5, <2>2, <2>3, ZenonT(60) DEF Hears
<1>8. QED
  BY <1>6, <1>7

\* The list after the first steps of Receive, and of a round of Load.
LEMMA ListStep ==
  ASSUME ListIsWhole, NEW m \in Ships, NEW e, e = Enter(DB, m), NEW f, Fills(f, e, m), DBIs(f),
         paths' \in Rings, path_idx' \in 0..Npaths - 1
  PROVE  /\ ListIsWhole' /\ Listed(DB)' \subseteq Listed(DB) \cup {e.first}
         /\ \E j \in 1..Nships :
              /\ Enters(DB, e, Order(DB), j, m)
              /\ HeardLast' = [i \in 1..count' |-> IF i = 1 THEN Heard(f.ships[e.first])
                                                 ELSE HeardLast[IF i <= j THEN i - 1 ELSE i]]
              /\ count' \in 1..Nships /\ count' = e.count
              /\ \A i \in 2..count' : (IF i <= j THEN i - 1 ELSE i) \in 1..count
<1>1. PICK order : order = Order(DB)
  OBVIOUS
<1>2. /\ DB \in Databases /\ DB.count = count /\ DB.ships = ships /\ Threads(DB, order) /\ InUse(DB, order)
      /\ count \in 0..Nships /\ Listed(DB) = {order[i] : i \in 1..count}
  BY <1>1, WholeOrder
<1>3. PICK j \in 1..Nships : Enters(DB, e, order, j, m)
  BY <1>2, Entered
<1>4. PICK fr : fr = Front(order, j)
  OBVIOUS
<1>5. /\ Threads(f, fr) /\ InUse(f, fr) /\ fr[1] = order[j] /\ f.count \in 1..Nships
      /\ \A i \in 2..f.count :
           LET k == IF i <= j THEN i - 1 ELSE i
           IN /\ k \in 1..count /\ fr[i] = order[k]
              /\ SameShip(f.ships[order[k]], ships[order[k]])
  BY <1>2, <1>3, <1>4, Filled, SMTT(60)
<1>6. f \in Databases /\ e.first = order[j] /\ f.count = e.count
  BY <1>3 DEF Fills, Enters
<1>7. ListIsWhole' /\ DB' = f /\ Order(DB)' = fr /\ Listed(DB)' = {fr[i] : i \in 1..f.count}
  BY <1>5, <1>6, WholeAgain
<1>8. count' = f.count /\ ships' = f.ships
  BY DEF DBIs
<1>9. HeardLast' = [i \in 1..count' |-> Heard(f.ships[fr[i]])]
  BY <1>7, <1>8 DEF HeardLast, Heard
<1>10. HeardLast = [i \in 1..count |-> Heard(ships[order[i]])]
  BY <1>1 DEF HeardLast
<1>11. ASSUME NEW i \in 1..count'
       PROVE  Heard(f.ships[fr[i]]) = IF i = 1 THEN Heard(f.ships[e.first])
                                      ELSE HeardLast[IF i <= j THEN i - 1 ELSE i]
  <2>1. CASE i = 1
    BY <1>5, <1>6, <2>1
  <2>2. CASE i # 1
    <3>1. i \in 2..f.count
      BY <1>5, <1>8, <2>2
    <3>2. PICK k \in 1..count : /\ k = (IF i <= j THEN i - 1 ELSE i) /\ fr[i] = order[k]
                                /\ SameShip(f.ships[order[k]], ships[order[k]])
      BY <1>5, <3>1
    <3>3. Heard(f.ships[fr[i]]) = Heard(ships[order[k]])
      BY <3>2 DEF SameShip, Heard
    <3>4. QED
      BY <1>10, <2>2, <3>2, <3>3
  <2>3. QED
    BY <2>1, <2>2
<1>12. HeardLast' = [i \in 1..count' |-> IF i = 1 THEN Heard(f.ships[e.first])
                                       ELSE HeardLast[IF i <= j THEN i - 1 ELSE i]]
  BY <1>9, <1>11
<1>13. \A i \in 2..count' : (IF i <= j THEN i - 1 ELSE i) \in 1..count
  BY <1>5, <1>8
<1>14. Listed(DB)' \subseteq Listed(DB) \cup {e.first}
  <2>1. \A i \in 1..f.count : i = 1 \/ i \in 2..f.count
    OBVIOUS
  <2>2. \A i \in 1..f.count : fr[i] \in Listed(DB) \cup {e.first}
    BY <1>2, <1>5, <1>6, <2>1, ZenonT(60)
  <2>3. QED
    BY <1>7, <2>2, Zenon
<1>15. QED
  BY <1>1, <1>3, <1>5, <1>6, <1>7, <1>8, <1>12, <1>13, <1>14, Zenon

\* Hearing a ship is a step of RecentShips.
LEMMA RecentHears ==
  ASSUME ListIsWhole, Free, NEW m \in Ships, NEW e, e = Enter(DB, m), NEW f, Fills(f, e, m), DBIs(f),
         f.ships[e.first].last_signal = clock,
         paths' \in Rings, path_idx' \in 0..Npaths - 1, UNCHANGED <<file, toLoad, clock>>
  PROVE  Recent!HearAgain(m) \/ Recent!HearNew(m)
<1>1. PICK order : order = Order(DB)
  OBVIOUS
<1>2. /\ DB \in Databases /\ DB.count = count /\ DB.ships = ships /\ Threads(DB, order)
      /\ count \in 0..Nships
  BY <1>1, WholeOrder
<1>3. PICK j \in 1..Nships :
        /\ Enters(DB, e, order, j, m)
        /\ HeardLast' = [i \in 1..count' |-> IF i = 1 THEN Heard(f.ships[e.first])
                                           ELSE HeardLast[IF i <= j THEN i - 1 ELSE i]]
        /\ count' \in 1..Nships /\ count' = e.count
        /\ \A i \in 2..count' : (IF i <= j THEN i - 1 ELSE i) \in 1..count
  BY <1>1, ListStep
<1>4. PICK h : h = HeardLast /\ h = [i \in 1..count |-> Heard(ships[order[i]])]
  BY <1>1, Zenon DEF HeardLast
<1>5. PICK h2 : h2 = HeardLast'
  OBVIOUS
<1>6. PICK r : r = [mmsi |-> m, time |-> clock] /\ r = Heard(f.ships[e.first])
  BY Zenon DEF Heard, Fills
<1>7. h2 = [i \in 1..count' |-> IF i = 1 THEN r ELSE h[IF i <= j THEN i - 1 ELSE i]]
  BY <1>3, <1>4, <1>5, <1>6, Zenon
<1>8. Len(h) = count /\ \A i \in 1..count : h[i].mmsi = ships[order[i]].mmsi
  BY <1>2, <1>4 DEF Heard
<1>9. /\ (IF Free THEN HeardLast ELSE Loaded(file)) = h
      /\ (IF Free' THEN HeardLast' ELSE Loaded(file)') = h2
      /\ clock' = clock /\ Kept(file)' = Kept(file)
  BY <1>4, <1>5 DEF Free
<1>10. CASE j <= count /\ ships[order[j]].mmsi = m /\ e.count = count
  <2>1. j \in 1..Len(h) /\ h[j].mmsi = m
    BY <1>2, <1>8, <1>10
  <2>2. h2 = [i \in 1..Len(h) |-> IF i = 1 THEN r ELSE IF i <= j THEN h[i - 1] ELSE h[i]]
    BY <1>3, <1>7, <1>8, <1>10
  <2>3. Recent!HearAgain(m)
    BY <1>6, <1>9, <2>1, <2>2 DEF Recent!HearAgain, Recent!InFront, Heard, Free
  <2>4. QED
    BY <2>3
<1>11. CASE /\ \A i \in 1..count : ships[order[i]].mmsi # m
            /\ j = Nships /\ e.count = IF count < Nships THEN count + 1 ELSE Nships
  <2>1. \A i \in 1..Len(h) : h[i].mmsi # m
    BY <1>8, <1>11
  <2>2. PICK n : n = (IF Len(h) < Nships THEN Len(h) + 1 ELSE Nships) /\ n = count'
    BY <1>3, <1>8, <1>11
  <2>3. h2 = [i \in 1..n |-> IF i = 1 THEN r ELSE IF i <= n THEN h[i - 1] ELSE h[i]]
    <3>1. \A i \in 1..n : i <= j /\ i <= n
      BY <1>3, <1>11, <2>2
    <3>2. QED
      BY <1>7, <2>2, <3>1
  <2>4. Recent!HearNew(m)
    BY <1>6, <1>9, <2>1, <2>2, <2>3 DEF Recent!HearNew, Recent!InFront, Heard, Free
  <2>5. QED
    BY <2>4
<1>12. QED
  BY <1>2, <1>3, <1>10, <1>11 DEF Enters

LEMMA EnterIs ==
  ASSUME ListIsWhole, NEW m \in Ships, NEW e, e = Enter(DB, m)
  PROVE  e \in Databases
<1>1. PICK order : order = Order(DB)
  OBVIOUS
<1>2. DB \in Databases /\ Threads(DB, order) /\ InUse(DB, order)
  BY <1>1, WholeOrder
<1>3. PICK j \in 1..Nships : Enters(DB, e, order, j, m)
  BY <1>2, Entered
<1>4. QED
  BY <1>3 DEF Enters

LEMMA OtherStep ==
  ASSUME IInv, NEW m \in Ships, ReceiveOther(m)
  PROVE  IInv' /\ (Recent!HearAgain(m) \/ Recent!HearNew(m))
<1>1. /\ ListIsWhole /\ Filed /\ Counted /\ Tracked /\ Free
      /\ Reported(m, -1) /\ DBIs(Updated(m)) /\ UNCHANGED <<paths, path_idx, file, toLoad, clock>>
  BY DEF IInv, ReceiveOther, Receive, ring
<1>2. paths \in Rings /\ path_idx \in 0..Npaths - 1 /\ ships \in [Slots -> Ship]
      /\ clock \in Times /\ reports \in [Ships -> Reports]
  BY <1>1, WholeOrder DEF Counted, Said
<1>3. PICK e : e = Enter(DB, m)
  OBVIOUS
<1>4. PICK u : u = Updated(m)
  OBVIOUS
<1>5. e \in Databases
  BY <1>1, <1>3, EnterIs
<1>6. /\ Fills(u, e, m) /\ u.ships[e.first].count = e.ships[e.first].count + 1
      /\ u.ships[e.first].path_ptr = e.ships[e.first].path_ptr /\ u.ships[e.first].last_signal = clock
  BY <1>2, <1>3, <1>4, <1>5, UpdatedIs, SMTT(60)
<1>7. reports' = [reports EXCEPT ![m] = Append(IF FindShip(DB, m) = {} THEN <<>> ELSE reports[m], -1)]
  BY <1>1 DEF Reported
<1>8. PICK rs : rs = reports'
  OBVIOUS
<1>9. Hears(Listed(DB), ships, reports, Listed(DB) \cup {e.first}, u.ships, rs, e.first, m, -1)
  BY <1>1, <1>2, <1>3, <1>6, <1>7, <1>8, ShipHears, ZenonT(60)
<1>10. DBIs(u) /\ ships' = u.ships /\ u.ships \in [Slots -> Ship]
  BY <1>1, <1>4, <1>6 DEF DBIs, Fills, Databases
<1>11. /\ ListIsWhole' /\ Listed(DB)' \subseteq Listed(DB) \cup {e.first}
       /\ (Recent!HearAgain(m) \/ Recent!HearNew(m))
  <2>1. paths' \in Rings /\ path_idx' \in 0..Npaths - 1
    BY <1>1, <1>2, SMTT(60)
  <2>2. ListIsWhole' /\ Listed(DB)' \subseteq Listed(DB) \cup {e.first}
    BY <1>1, <1>3, <1>6, <1>10, <2>1, ListStep
  <2>3. Recent!HearAgain(m) \/ Recent!HearNew(m)
    BY <1>1, <1>3, <1>6, <1>10, <2>1, RecentHears
  <2>4. QED
    BY <2>2, <2>3
<1>12. PICK used, used2, new, p :
         used = Listed(DB) /\ used2 = Listed(DB) \cup {e.first} /\ new = u.ships /\ p = e.first
  OBVIOUS
<1>13. /\ ships \in SlotArrays /\ new \in SlotArrays /\ reports \in Histories /\ -1 \in Said
       /\ Hears(used, ships, reports, used2, new, rs, p, m, -1) /\ Counts(used, ships, reports)
  BY <1>1, <1>2, <1>9, <1>10, <1>12 DEF SlotArrays, Histories, Said, Counted
<1>14. rs \in Histories /\ Counts(used2, new, rs)
  BY <1>13, CountsOn
<1>15. Counted'
  <2>1. Counts(Listed(DB)', new, rs)
    BY <1>11, <1>12, <1>14, Fewer
  <2>2. Counts(Listed(DB), ships, reports)' = Counts(Listed(DB)', new, rs)
    BY <1>8, <1>10, <1>12 DEF Counts
  <2>3. QED
    BY <1>1, <1>2, <1>8, <1>14, <2>1, <2>2 DEF Counted, Histories
<1>16. Tracked'
  <2>1. PICK g : g \in SUBSET (0..Npaths - 1) /\ Tracks(g, paths, used, ships, reports)
    BY <1>1, <1>12, Zenon DEF Tracked
  <2>2. HearsSome(used, ships, reports, used2, new, rs)
    BY <1>13 DEF Hears, HearsSome
  <2>3. PICK h \in SUBSET (0..Npaths - 1) : Tracks(h, paths, used2, new, rs)
    <3>1. Right(g, paths, used, ships, reports)
      BY <1>2, <1>13, <2>1 DEF Right
    <3>2. QED
      BY <2>2, <3>1, TracksOn, Zenon
  <2>4. Tracks(h, paths, Listed(DB)', new, rs)
    BY <1>11, <1>12, <2>3, Fewer
  <2>5. QED
    BY <1>1, <1>8, <1>10, <1>12, <2>4 DEF Tracked
<1>17. Filed' /\ Loading'
  BY <1>1 DEF Filed, Loading, Free
<1>18. QED
  BY <1>11, <1>15, <1>16, <1>17 DEF IInv

\* Only the path pointer of the ship at the front changes.
Pointed(u, f, x) == f = [u EXCEPT !.ships[u.first].path_ptr = x]

LEMMA PointedIs ==
  ASSUME NEW u, NEW m, NEW x, NEW f, u \in Databases, m \in Ships, u.ships[u.first].mmsi = m,
         x \in 0..Npaths - 1, Pointed(u, f, x)
  PROVE  /\ Fills(f, u, m) /\ f.ships[u.first].path_ptr = x
         /\ f.ships[u.first].count = u.ships[u.first].count
         /\ f.ships[u.first].last_signal = u.ships[u.first].last_signal
<1>1. PICK s \in Slots : s = u.first
  BY DEF Databases
<1>2. PICK slots \in [Slots -> Ship] : slots = u.ships
  BY DEF Databases
<1>3. PICK t \in Ship : t = slots[s]
  OBVIOUS
<1>4. PICK q : q = [t EXCEPT !.path_ptr = x]
  OBVIOUS
<1>5. /\ q \in Ship /\ q.path_ptr = x /\ q.mmsi = t.mmsi /\ q.count = t.count
      /\ q.last_signal = t.last_signal /\ q.next = t.next /\ q.prev = t.prev
  BY <1>4 DEF Ship
<1>6. f = [u EXCEPT !.ships = [slots EXCEPT ![s] = q]]
  <2>1. f = [u EXCEPT !.ships = [u.ships EXCEPT ![u.first] = [u.ships[u.first] EXCEPT !.path_ptr = x]]]
    BY DEF Pointed
  <2>2. QED
    BY <1>1, <1>2, <1>3, <1>4, <2>1
<1>7. /\ f.first = u.first /\ f.last = u.last /\ f.count = u.count
      /\ f = [first |-> f.first, last |-> f.last, count |-> f.count, ships |-> f.ships]
      /\ f.ships \in [Slots -> Ship] /\ f.ships[s] = q
      /\ \A i \in Slots : i # s => f.ships[i] = slots[i]
  BY <1>5, <1>6 DEF Databases
<1>8. Fills(f, u, m)
  <2>1. q.next = u.ships[u.first].next /\ q.prev = u.ships[u.first].prev /\ q.mmsi = m
    BY <1>1, <1>2, <1>3, <1>5
  <2>2. f.ships[u.first] = q /\ \A i \in Slots : i # u.first => f.ships[i] = u.ships[i]
    BY <1>1, <1>2, <1>7, SMTT(60)
  <2>3. QED
    BY <1>5, <1>7, <2>1, <2>2, FirstSet
<1>9. QED
  BY <1>1, <1>2, <1>3, <1>5, <1>7, <1>8

\* The ship is at the front, with the new message in its reports, when addToPath begins.
PathAgain(u, used, slots, s, rs, m) ==
  \E f \in Databases :
    /\ DBIs(f) /\ Fills(f, u, m) /\ f.ships[s].last_signal = slots[s].last_signal
    /\ Counts(used, f.ships, rs) /\ paths' \in Rings /\ path_idx' \in 0..Npaths - 1
    /\ \E h \in SUBSET (0..Npaths - 1) : Tracks(h, paths', used, f.ships, rs)

LEMMA PathStep ==
  ASSUME NEW points, NEW u, NEW used, NEW slots, NEW s, NEW rs, NEW g, NEW m, NEW place, m \in Ships, place \in Nat,
         points \in Rings, u \in Databases, slots \in SlotArrays, rs \in Histories,
         slots = u.ships, s = u.first, used \in SUBSET Slots, s \in used, slots[s].mmsi = m, Counts(used, slots, rs), Told(slots, rs, s, place),
         g \in SUBSET (0..Npaths - 1), Tracks(g, points, used, slots, rs),
         paths = points, path_idx \in 0..Npaths - 1, AddToPath(u, place)
  PROVE  PathAgain(u, used, slots, s, rs, m)
<1>1. s \in Slots /\ slots \in [Slots -> Ship] /\ slots[s] \in Ship /\ slots[s].mmsi # NoShip
  BY DEF Databases, SlotArrays
<1>2. PICK pts : pts = paths'
  OBVIOUS
<1>3. PICK ship : ship = slots[s]
  OBVIOUS
<1>4. ship.mmsi = m /\ ship.path_ptr \in -1..Npaths - 1
  BY <1>1, <1>3 DEF Ship
<1>5. CASE /\ Extends(ship, place)
           /\ paths' = [paths EXCEPT ![ship.path_ptr].place = place, ![ship.path_ptr].count = ship.count]
           /\ DBIs(u) /\ UNCHANGED path_idx
  <2>1. PICK x : x = ship.path_ptr
    BY SMTT(60)
  <2>2. x \in 0..Npaths - 1 /\ points[x].mmsi = m
    BY <1>4, <1>5, <2>1, SMTT(60) DEF Extends, IsNextPathPoint
  <2>3. PointMoved(points, pts, x, slots, s, place)
    BY <1>2, <1>3, <1>5, <2>1, Zenon DEF PointMoved
  <2>4. pts \in Rings /\ Tracks(g, pts, used, slots, rs)
    <3>1. Right(g, points, used, slots, rs) /\ MayAdd(used, slots, rs, s, place)
      BY <1>1 DEF Right, MayAdd
    <3>2. x = slots[s].path_ptr /\ points[x].mmsi = slots[s].mmsi
      BY <1>3, <2>1, <2>2
    <3>3. QED
      BY <2>2, <2>3, <3>1, <3>2, PointMoves, Zenon
  <2>5. Fills(u, u, m)
    BY SMTT(60) DEF Fills, SameShip
  <2>6. QED
    BY <1>2, <1>5, <2>4, <2>5, ZenonT(60) DEF PathAgain
<1>6. CASE /\ paths' = [paths EXCEPT ![path_idx] =
                [mmsi |-> ship.mmsi, count |-> ship.count, place |-> place, next |-> ship.path_ptr]]
           /\ DBIs([u EXCEPT !.ships[u.first].path_ptr = path_idx])
           /\ path_idx' = (path_idx + 1) % Npaths
  <2>1. PICK x \in 0..Npaths - 1 : x = path_idx
    OBVIOUS
  <2>2. PICK f : f = [u EXCEPT !.ships[u.first].path_ptr = x]
    OBVIOUS
  <2>3. PICK new : new = f.ships
    OBVIOUS
  <2>4. /\ Fills(f, u, m) /\ new[s].path_ptr = x /\ new[s].count = slots[s].count
        /\ new[s].last_signal = slots[s].last_signal
    <3>1. Pointed(u, f, x) /\ u.ships[u.first].mmsi = m
      BY <2>2 DEF Pointed
    <3>2. QED
      BY <2>3, <3>1, PointedIs
  <2>5. \A i \in Slots : /\ new[i].mmsi = slots[i].mmsi /\ new[i].count = slots[i].count
                         /\ new[i].path_ptr = IF i = s THEN x ELSE slots[i].path_ptr
    BY <2>3, <2>4 DEF Fills, SameShip
  <2>6. NewPoint(points, pts, x, slots, s, place) /\ PointsTo(slots, new, s, x)
    BY <1>2, <1>3, <1>6, <2>1, <2>5, ZenonT(60) DEF NewPoint, PointsTo, Rings
  <2>7. pts \in Rings /\ \E h \in SUBSET (0..Npaths - 1) : Tracks(h, pts, used, new, rs)
    <3>1. Right(g, points, used, slots, rs) /\ MayAdd(used, slots, rs, s, place)
      BY <1>1 DEF Right, MayAdd
    <3>2. PointNew(points, pts, x, slots, new, s, place)
      BY <2>6 DEF PointNew
    <3>3. QED
      BY <3>1, <3>2, PointAdded, ZenonT(60)
  <2>8. Counts(used, new, rs)
    BY <2>5, SMTT(60) DEF Counts
  <2>9. path_idx' \in 0..Npaths - 1
    BY <1>6
  <2>10. f \in Databases /\ DBIs(f)
    BY <1>6, <2>1, <2>2, <2>4, Zenon DEF Fills
  <2>11. QED
    BY <1>2, <2>3, <2>4, <2>7, <2>8, <2>9, <2>10 DEF PathAgain
<1>7. QED
  BY <1>3, <1>5, <1>6, Zenon DEF AddToPath

LEMMA PositionStep ==
  ASSUME IInv, NEW m \in Ships, NEW place \in Places, ReceivePosition(m, place)
  PROVE  IInv' /\ (Recent!HearAgain(m) \/ Recent!HearNew(m))
<1>1. /\ ListIsWhole /\ Filed /\ Counted /\ Tracked /\ Free
      /\ Reported(m, place) /\ AddToPath(Updated(m), place) /\ UNCHANGED <<file, toLoad, clock>>
  BY DEF IInv, ReceivePosition, Receive
<1>2. paths \in Rings /\ path_idx \in 0..Npaths - 1 /\ ships \in [Slots -> Ship]
      /\ clock \in Times /\ reports \in [Ships -> Reports] /\ place \in Nat /\ place \in Said
  BY <1>1, WholeOrder DEF Counted, Said
<1>3. PICK e : e = Enter(DB, m)
  OBVIOUS
<1>4. PICK u : u = Updated(m)
  OBVIOUS
<1>5. e \in Databases
  BY <1>1, <1>3, EnterIs
<1>6. /\ Fills(u, e, m) /\ u.ships[e.first].count = e.ships[e.first].count + 1
      /\ u.ships[e.first].path_ptr = e.ships[e.first].path_ptr /\ u.ships[e.first].last_signal = clock
  BY <1>2, <1>3, <1>4, <1>5, UpdatedIs
<1>7. reports' = [reports EXCEPT ![m] = Append(IF FindShip(DB, m) = {} THEN <<>> ELSE reports[m], place)]
  BY <1>1 DEF Reported
<1>8. PICK rs : rs = reports'
  OBVIOUS
<1>9. Hears(Listed(DB), ships, reports, Listed(DB) \cup {e.first}, u.ships, rs, e.first, m, place)
  BY <1>1, <1>2, <1>3, <1>6, <1>7, <1>8, ShipHears, ZenonT(60)
<1>10. PICK used, used2, slots, s :
         used = Listed(DB) /\ used2 = Listed(DB) \cup {e.first} /\ slots = u.ships /\ s = u.first
  OBVIOUS
<1>11. /\ u \in Databases /\ slots \in [Slots -> Ship] /\ s = e.first /\ slots[s].mmsi = m
       /\ slots[s].last_signal = clock
  BY <1>6, <1>10 DEF Fills, Databases
<1>12. /\ ships \in SlotArrays /\ slots \in SlotArrays /\ reports \in Histories
       /\ Hears(used, ships, reports, used2, slots, rs, s, m, place) /\ Counts(used, ships, reports)
       /\ used2 \in SUBSET Slots /\ s \in used2
  BY <1>1, <1>2, <1>9, <1>10, <1>11 DEF SlotArrays, Histories, Counted, Hears
<1>13. rs \in Histories /\ Counts(used2, slots, rs) /\ Told(slots, rs, s, place)
  BY <1>2, <1>12, CountsOn
<1>14. \E h \in SUBSET (0..Npaths - 1) : Tracks(h, paths, used2, slots, rs)
  <2>1. PICK g : g \in SUBSET (0..Npaths - 1) /\ Tracks(g, paths, used, ships, reports)
    BY <1>1, <1>10, Zenon DEF Tracked
  <2>2. HearsSome(used, ships, reports, used2, slots, rs)
    BY <1>2, <1>12 DEF Hears, HearsSome
  <2>3. Right(g, paths, used, ships, reports)
    BY <1>2, <1>12, <2>1 DEF Right
  <2>4. QED
    BY <2>2, <2>3, TracksOn, Zenon
<1>15. PICK f \in Databases :
           /\ DBIs(f) /\ Fills(f, u, m) /\ f.ships[s].last_signal = slots[s].last_signal
           /\ Counts(used2, f.ships, rs) /\ paths' \in Rings /\ path_idx' \in 0..Npaths - 1
           /\ \E h \in SUBSET (0..Npaths - 1) : Tracks(h, paths', used2, f.ships, rs)
  <2>1. PICK points : paths = points /\ points \in Rings
    BY <1>2
  <2>2. PICK g : g \in SUBSET (0..Npaths - 1) /\ Tracks(g, points, used2, slots, rs)
    BY <1>14, <2>1, Zenon
  <2>3. AddToPath(u, place)
    BY <1>1, <1>4
  <2>4. PathAgain(u, used2, slots, s, rs, m)
    BY <1>2, <1>10, <1>11, <1>12, <1>13, <2>1, <2>2, <2>3, PathStep, Zenon
  <2>5. QED
    BY <2>4 DEF PathAgain
<1>16. Fills(f, e, m) /\ f.ships[e.first].last_signal = clock
  BY <1>5, <1>6, <1>11, <1>15, FilledTwice
<1>17. ListIsWhole' /\ Listed(DB)' \subseteq used2
  BY <1>1, <1>3, <1>10, <1>15, <1>16, ListStep
<1>18. Recent!HearAgain(m) \/ Recent!HearNew(m)
  BY <1>1, <1>3, <1>15, <1>16, RecentHears
<1>19. ships' = f.ships
  BY <1>15 DEF DBIs
<1>20. Counted'
  <2>1. Counts(Listed(DB)', f.ships, rs)
    BY <1>15, <1>17, Fewer
  <2>2. Counts(Listed(DB), ships, reports)' = Counts(Listed(DB)', f.ships, rs)
    BY <1>8, <1>19 DEF Counts
  <2>3. QED
    BY <1>1, <1>2, <1>8, <1>13, <2>1, <2>2 DEF Counted, Histories
<1>21. Tracked'
  <2>1. PICK h \in SUBSET (0..Npaths - 1) : Tracks(h, paths', used2, f.ships, rs)
    BY <1>15
  <2>2. Tracks(h, paths', Listed(DB)', f.ships, rs)
    BY <1>17, <2>1, Fewer
  <2>3. QED
    BY <1>8, <1>19, <2>2 DEF Tracked
<1>22. Filed' /\ Loading'
  BY <1>1 DEF Filed, Loading, Free
<1>23. QED
  BY <1>17, <1>18, <1>20, <1>21, <1>22 DEF IInv

-----------------------------------------------------------------------------
(* Save *)

LEMMA SavedIs ==
  ASSUME ListIsWhole, Counted, NEW f, f = Saved
  PROVE  /\ IsFile(f) /\ Len(f) = count /\ count \in Nat
         /\ \A i \in 1..count : Heard(f[i].ship) = HeardLast[count + 1 - i]
<1>1. PICK order : order = Order(DB)
  OBVIOUS
<1>2. /\ DB.count = count /\ DB.ships = ships /\ InUse(DB, order) /\ Threads(DB, order)
      /\ count \in 0..Nships /\ ships \in [Slots -> Ship]
      /\ Listed(DB) = {order[i] : i \in 1..count}
  BY <1>1, WholeOrder
<1>3. order \in [1..Nships -> Slots] /\ count \in Nat
  BY <1>2 DEF Threads
<1>4. f = [i \in 1..count |-> SavedShip(ships[order[count + 1 - i]])]
  BY <1>1 DEF Saved
<1>5. f = [i \in 1..count |-> f[i]] /\ Len(f) = count
  BY <1>3, <1>4, SMTT(60)
<1>6. ASSUME NEW i \in 1..count
      PROVE  \E k \in 1..count :
               /\ k = count + 1 - i /\ f[i].ship = ships[order[k]] /\ f[i].ship.mmsi \in Ships
               /\ f[i] \in [ship : Ship, reports : Reports] /\ f[i].ship.count = Len(f[i].reports)
  <2>1. PICK k \in 1..count : k = count + 1 - i /\ k \in 1..Nships
    BY <1>2
  <2>2. PICK s \in Slots : s = order[k]
    BY <1>3, <2>1
  <2>3. PICK t \in Ship : t = ships[s]
    BY <1>2
  <2>4. f[i] = [ship |-> t, reports |-> reports[t.mmsi]]
    BY <1>4, <2>1, <2>2, <2>3 DEF SavedShip
  <2>5. t.mmsi # NoShip
    BY <1>2, <2>1, <2>2, <2>3 DEF InUse
  <2>6. t.mmsi \in Ships
    BY <2>5 DEF Ship
  <2>7. reports[t.mmsi] \in Reports /\ t.count = Len(reports[t.mmsi])
    BY <1>2, <2>1, <2>2, <2>3, <2>5, <2>6 DEF Counted, Counts
  <2>8. QED
    BY <2>1, <2>2, <2>3, <2>4, <2>6, <2>7, SMTT(60)
<1>7. f \in Seq([ship : Ship, reports : Reports])
  <2>1. \A i \in 1..count : f[i] \in [ship : Ship, reports : Reports]
    BY <1>6, Zenon
  <2>2. PICK n \in Nat : n = count
    BY <1>3
  <2>3. f \in [1..n -> [ship : Ship, reports : Reports]]
    BY <1>5, <2>1, <2>2
  <2>4. PICK S : S = [ship : Ship, reports : Reports]
    OBVIOUS
  <2>5. [1..n -> S] \in {[1..k -> S] : k \in Nat} /\ f \in [1..n -> S]
    BY <2>3, <2>4, SMTT(60)
  <2>6. f \in Seq(S)
    <3>1. Seq(S) = UNION {[1..k -> S] : k \in Nat}
      BY SeqDef
    <3>2. QED
      BY <2>5, <3>1, Zenon
  <2>7. QED
    BY <2>4, <2>6
<1>8. ASSUME NEW i \in 1..count, NEW k \in 1..count, f[i].ship.mmsi = f[k].ship.mmsi PROVE i = k
  <2>1. PICK x \in 1..count : x = count + 1 - i /\ f[i].ship = ships[order[x]]
    BY <1>6
  <2>2. PICK y \in 1..count : y = count + 1 - k /\ f[k].ship = ships[order[y]]
    BY <1>6
  <2>3. x = y
    BY <1>2, <1>8, <2>1, <2>2 DEF InUse
  <2>4. QED
    BY <1>3, <2>1, <2>2, <2>3
<1>9. ASSUME NEW i \in 1..count PROVE Heard(f[i].ship) = HeardLast[count + 1 - i]
  <2>1. PICK k \in 1..count : k = count + 1 - i /\ f[i].ship = ships[order[k]]
    BY <1>6
  <2>2. HeardLast[k] = Heard(ships[order[k]])
    BY <1>1 DEF HeardLast
  <2>3. QED
    BY <2>1, <2>2
<1>10. IsFile(f)
  <2>1. \A i \in 1..Len(f) : f[i].ship.mmsi \in Ships /\ f[i].ship.count = Len(f[i].reports)
    BY <1>5, <1>6, ZenonT(60)
  <2>2. \A i, k \in 1..Len(f) : f[i].ship.mmsi = f[k].ship.mmsi => i = k
    BY <1>5, <1>8, Zenon
  <2>3. Len(f) <= Nships
    BY <1>2, <1>5
  <2>4. QED
    BY <1>7, <2>1, <2>2, <2>3 DEF IsFile
<1>11. QED
  BY <1>3, <1>5, <1>9, <1>10

\* A file that was not written to its end.
LEMMA ShorterFile ==
  ASSUME NEW f, IsFile(f), NEW n \in 0..Len(f), NEW g, g = SubSeq(f, 1, n)
  PROVE  IsFile(g) /\ Len(g) = n /\ \A i \in 1..n : g[i] = f[i]
<1>1. f \in Seq([ship : Ship, reports : Reports]) /\ Len(f) \in Nat
  BY DEF IsFile
<1>2. g \in Seq([ship : Ship, reports : Reports]) /\ Len(g) = n /\ \A i \in 1..n : g[i] = f[i]
  <2>1. PICK S : S = [ship : Ship, reports : Reports]
    OBVIOUS
  <2>2. f \in Seq(S) /\ Len(f) \in Nat
    BY <1>1, <2>1
  <2>3. \A i \in 1..n : f[i] \in S
    BY <2>2
  <2>4. g \in Seq(S) /\ Len(g) = (IF 1 <= n THEN n - 1 + 1 ELSE 0) /\ \A i \in 1..n - 1 + 1 : g[i] = f[1 + i - 1]
    BY <2>3, SubSeqProperties
  <2>5. QED
    BY <2>1, <2>2, <2>4
<1>3. \A i \in 1..n : i \in 1..Len(f)
  BY <1>1
<1>4. QED
  BY <1>1, <1>2, <1>3 DEF IsFile

LEMMA ListUnchanged ==
  ASSUME ListIsWhole, UNCHANGED <<list, paths, path_idx>>
  PROVE  ListIsWhole' /\ HeardLast' = HeardLast /\ Listed(DB)' = Listed(DB)
<1>1. first' = first /\ last' = last /\ count' = count /\ ships' = ships
      /\ paths' = paths /\ path_idx' = path_idx
  BY DEF list
<1>2. DB' = DB
  BY <1>1 DEF DB
<1>3. TypeOK'
  BY <1>1, SMTT(60) DEF ListIsWhole, TypeOK
<1>4. ListIsWhole'
  BY <1>1, <1>2, <1>3, SMTT(60) DEF ListIsWhole
<1>5. HeardLast' = HeardLast
  BY <1>1, <1>2 DEF HeardLast
<1>6. Listed(DB)' = Listed(DB)
  BY <1>2 DEF Listed
<1>7. QED
  BY <1>4, <1>5, <1>6

LEMMA SaveStep ==
  ASSUME IInv, Save
  PROVE  IInv' /\ Recent!BackUp
<1>1. /\ ListIsWhole /\ Filed /\ Counted /\ Tracked /\ Free /\ file' = Saved
      /\ UNCHANGED <<list, paths, path_idx, toLoad, clock, reports>>
  BY DEF IInv, Save, ring
<1>2. PICK f : f = Saved
  OBVIOUS
<1>3. /\ IsFile(f) /\ Len(f) = count /\ count \in Nat
      /\ \A i \in 1..count : Heard(f[i].ship) = HeardLast[count + 1 - i]
  BY <1>1, <1>2, SavedIs
<1>4. ListIsWhole' /\ HeardLast' = HeardLast /\ Listed(DB)' = Listed(DB)
  BY <1>1, ListUnchanged
<1>5. Kept(f) = HeardLast
  <2>1. PICK h : h = HeardLast /\ h = [i \in 1..count |-> h[i]]
    BY Zenon DEF HeardLast
  <2>2. \A i \in 1..count : Heard(f[count + 1 - i].ship) = h[i]
    <3>1. SUFFICES ASSUME NEW i \in 1..count PROVE Heard(f[count + 1 - i].ship) = h[i]
      OBVIOUS
    <3>2. PICK k \in 1..count : k = count + 1 - i /\ count + 1 - k = i
      BY <1>3
    <3>3. Heard(f[k].ship) = h[count + 1 - k]
      BY <1>3, <2>1, Zenon
    <3>4. QED
      BY <3>2, <3>3
  <2>3. QED
    BY <1>3, <2>1, <2>2 DEF Kept
<1>6. Recent!BackUp
  <2>1. Kept(file)' = HeardLast
    BY <1>1, <1>2, <1>5
  <2>2. QED
    BY <1>1, <1>4, <2>1 DEF Recent!BackUp, Free
<1>7. Filed' /\ Loading'
  BY <1>1, <1>2, <1>3 DEF Filed, Loading, Free
<1>8. Counted' /\ Tracked'
  BY <1>1, <1>4 DEF Counted, Tracked, Counts, Tracks, list
<1>9. QED
  BY <1>4, <1>6, <1>7, <1>8 DEF IInv

-----------------------------------------------------------------------------
(* Load *)

\* How many ships of a file Load brings back.
LEMMA LoadedIs ==
  ASSUME NEW f, IsFile(f), NEW n \in 0..Len(f), Loads(f, n), n = Len(f) \/ ~Loads(f, n + 1)
  PROVE  Loaded(f) = [i \in 1..n |-> Heard(f[n + 1 - i].ship)]
<1> DEFINE Is(x) == Loads(f, x) /\ (x = Len(f) \/ ~Loads(f, x + 1))
<1>1. PICK len \in Nat : len = Len(f)
  BY DEF IsFile
<1>2. \A x, y \in Nat : x <= y /\ Loads(f, y) => Loads(f, x)
  BY DEF Loads
<1>3. ASSUME NEW x \in 0..len, NEW y \in 0..len, Is(x), Is(y), x < y PROVE FALSE
  <2>1. ~Loads(f, x + 1)
    BY <1>1, <1>3
  <2>2. x + 1 \in Nat /\ y \in Nat /\ x + 1 <= y
    BY <1>3
  <2>3. QED
    BY <1>2, <1>3, <2>1, <2>2
<1>4. PICK x : x = (CHOOSE y \in 0..Len(f) : Is(y))
  OBVIOUS
<1>5. x \in 0..Len(f) /\ Is(x)
  BY <1>4
<1>6. x = n
  <2>1. x \in 0..len /\ n \in 0..len /\ Is(n)
    BY <1>1, <1>5
  <2> HIDE DEF Is
  <2>2. ~(x < n) /\ ~(n < x)
    BY <1>3, <1>5, <2>1
  <2>3. QED
    BY <2>1, <2>2
<1>7. QED
  BY <1>4, <1>6, Zenon DEF Loaded

LEMMA LoadsSome ==
  ASSUME NEW f, IsFile(f)
  PROVE  \E n \in 0..Len(f) : Loads(f, n) /\ (n = Len(f) \/ ~Loads(f, n + 1))
<1>1. PICK len \in Nat : len = Len(f)
  BY DEF IsFile
<1> DEFINE T == {x \in 0..len : Loads(f, len - x)}
<1>2. PICK x \in T : \A y \in T : x <= y
  <2>1. len \in T
    BY DEF Loads
  <2>2. T \in SUBSET Nat
    OBVIOUS
  <2>3. QED
    BY <2>1, <2>2, Smallest, Zenon
<1>3. PICK n \in 0..len : n = len - x /\ len - n = x
  BY <1>2
<1>4. Loads(f, n)
  BY <1>2, <1>3
<1>5. ASSUME n # len PROVE ~Loads(f, n + 1)
  <2>1. x - 1 \in 0..len /\ len - (x - 1) = n + 1 /\ ~(x <= x - 1)
    BY <1>2, <1>3, <1>5
  <2>2. x - 1 \notin T
    BY <1>2, <2>1
  <2>3. QED
    BY <2>1, <2>2
<1>6. QED
  BY <1>1, <1>4, <1>5

\* What Load brings back is what RecentShips restores.
LEMMA LoadedRestores ==
  ASSUME NEW f, IsFile(f)
  PROVE  Loaded(f) = Recent!Restorable(Kept(f))
<1>1. PICK len \in Nat : len = Len(f)
  BY DEF IsFile
<1>2. PICK n \in 0..len : Loads(f, n) /\ (n = len \/ ~Loads(f, n + 1))
  BY <1>1, LoadsSome
<1>3. PICK k : k = Kept(f) /\ (\A i \in 1..len : k[i] = Heard(f[len + 1 - i].ship)) /\ Len(k) = len
  <2>1. PICK k : k = Kept(f) /\ k = [i \in 1..Len(f) |-> Heard(f[Len(f) + 1 - i].ship)]
    BY Zenon DEF Kept
  <2>2. Len(k) = len
    BY <1>1, <2>1
  <2>3. \A i \in 1..len : k[i] = Heard(f[len + 1 - i].ship)
    BY <1>1, <2>1
  <2>4. QED
    BY <2>1, <2>2, <2>3
<1>4. ASSUME NEW x \in 0..len
      PROVE  /\ Recent!Oldest(k, x) = [i \in 1..x |-> Heard(f[x + 1 - i].ship)]
             /\ Recent!InOrder(Recent!Oldest(k, x)) <=> Loads(f, x)
  <2>1. \A i \in 1..x : k[Len(k) - x + i] = Heard(f[x + 1 - i].ship)
    <3>1. SUFFICES ASSUME NEW i \in 1..x PROVE k[Len(k) - x + i] = Heard(f[x + 1 - i].ship)
      OBVIOUS
    <3>2. PICK y \in 1..len : y = Len(k) - x + i /\ len + 1 - y = x + 1 - i
      BY <1>3
    <3>3. k[y] = Heard(f[len + 1 - y].ship)
      BY <1>3
    <3>4. QED
      BY <3>2, <3>3, SMTT(60)
  <2>2. PICK o : o = Recent!Oldest(k, x)
    OBVIOUS
  <2>3. o = [i \in 1..x |-> Heard(f[x + 1 - i].ship)]
    BY <2>1, <2>2 DEF Recent!Oldest
  <2>4. Len(o) = x
    BY <2>3, SMTT(60)
  <2>5. Recent!InOrder(o) <=> \A i \in 1..x - 1 : f[x + 1 - i].ship.last_signal >= f[x - i].ship.last_signal
    <3>1. \A i \in 1..x - 1 : /\ o[i].time = f[x + 1 - i].ship.last_signal
                              /\ o[i + 1].time = f[x - i].ship.last_signal
      <4>1. SUFFICES ASSUME NEW i \in 1..x - 1
                     PROVE  /\ o[i].time = f[x + 1 - i].ship.last_signal
                            /\ o[i + 1].time = f[x - i].ship.last_signal
        OBVIOUS
      <4>2. i \in 1..x /\ i + 1 \in 1..x /\ x + 1 - (i + 1) = x - i
        OBVIOUS
      <4>3. QED
        BY <2>3, <4>2 DEF Heard
    <3>2. QED
      BY <2>4, <3>1 DEF Recent!InOrder
  <2>6. (\A i \in 1..x - 1 : f[x + 1 - i].ship.last_signal >= f[x - i].ship.last_signal) <=> Loads(f, x)
    <3>1. ASSUME NEW i \in 1..x - 1 PROVE f[i].ship.last_signal \in Nat /\ f[i + 1].ship.last_signal \in Nat
      <4>1. f \in Seq([ship : Ship, reports : Reports]) /\ i \in 1..Len(f) /\ i + 1 \in 1..Len(f)
        BY <1>1 DEF IsFile
      <4>2. f[i].ship \in Ship /\ f[i + 1].ship \in Ship
        <5>1. PICK S : S = [ship : Ship, reports : Reports]
          OBVIOUS
        <5>2. f \in Seq(S)
          BY <4>1, <5>1
        <5>3. f[i] \in S /\ f[i + 1] \in S
          BY <4>1, <5>2, ElementOfSeq
        <5>4. QED
          BY <5>1, <5>3
      <4>3. QED
        BY <4>2 DEF Ship
    <3>2. ASSUME \A i \in 1..x - 1 : f[x + 1 - i].ship.last_signal >= f[x - i].ship.last_signal,
                 NEW i \in 1..x - 1
          PROVE  f[i].ship.last_signal <= f[i + 1].ship.last_signal
      <4>1. PICK y \in 1..x - 1 : y = x - i /\ x + 1 - y = i + 1 /\ x - y = i
        OBVIOUS
      <4>2. f[x + 1 - y].ship.last_signal >= f[x - y].ship.last_signal
        BY <3>2
      <4>3. QED
        BY <3>1, <4>1, <4>2
    <3>3. ASSUME \A i \in 1..x - 1 : f[i].ship.last_signal <= f[i + 1].ship.last_signal,
                 NEW i \in 1..x - 1
          PROVE  f[x + 1 - i].ship.last_signal >= f[x - i].ship.last_signal
      <4>1. PICK y \in 1..x - 1 : y = x - i /\ y + 1 = x + 1 - i
        OBVIOUS
      <4>2. f[y].ship.last_signal <= f[y + 1].ship.last_signal
        BY <3>3
      <4>3. QED
        BY <3>1, <4>1, <4>2
    <3>4. QED
      BY <3>2, <3>3 DEF Loads
  <2>7. QED
    BY <2>2, <2>3, <2>5, <2>6
<1>5. \A x, y \in Nat : x <= y /\ Loads(f, y) => Loads(f, x)
  BY DEF Loads
<1>6. \A x \in 0..len : Loads(f, x) => x <= n
  <2>1. SUFFICES ASSUME NEW x \in 0..len, Loads(f, x), x > n PROVE FALSE
    OBVIOUS
  <2>2. n # len /\ n + 1 \in Nat /\ x \in Nat /\ n + 1 <= x
    BY <2>1
  <2>3. QED
    BY <1>2, <1>5, <2>1, <2>2
<1> DEFINE Most(x) == Recent!InOrder(Recent!Oldest(k, x))
                      /\ \A y \in 0..Len(k) : Recent!InOrder(Recent!Oldest(k, y)) => y <= x
<1>7. Most(n) /\ \A x \in 0..Len(k) : Most(x) => x = n
  <2>1. Most(n)
    BY <1>2, <1>3, <1>4, <1>6
  <2>2. ASSUME NEW x \in 0..Len(k), Most(x) PROVE x = n
    <3>1. n <= x
      BY <1>2, <1>3, <1>4, <2>2
    <3>2. x <= n
      BY <1>3, <1>4, <1>6, <2>2
    <3>3. QED
      BY <1>3, <3>1, <3>2
  <2>3. QED
    BY <2>1, <2>2
<1>8. n = CHOOSE x \in 0..Len(k) : Most(x)
  <2>1. n \in 0..Len(k)
    BY <1>3
  <2> HIDE DEF Most
  <2>2. QED
    BY <1>7, <2>1
<1>9. Recent!Restorable(k) = Recent!Oldest(k, n)
  BY <1>8 DEF Recent!Restorable
<1>10. Loaded(f) = [i \in 1..n |-> Heard(f[n + 1 - i].ship)]
  BY <1>1, <1>2, LoadedIs, ZenonT(30)
<1>11. QED
  BY <1>3, <1>4, <1>9, <1>10

\* No paths, nothing to track.
LEMMA NothingTracked ==
  ASSUME NEW used \in SUBSET Slots, NEW slots \in [Slots -> Ship], NEW rs
  PROVE  NoPaths \in Rings /\ Tracks({}, NoPaths, used, slots, rs)
<1>1. \A i \in 0..Npaths - 1 : NoPaths[i].mmsi = NoShip
  BY DEF NoPaths, NoPoint
<1>2. NoPaths \in Rings
  <2>1. 0 \in -1..Npaths - 1
    OBVIOUS
  <2>2. NoPoint \in [mmsi : Ships \cup {NoShip}, count : Nat, place : Nat, next : -1..Npaths - 1]
    BY <2>1 DEF NoPoint
  <2>3. QED
    BY <2>2 DEF NoPaths, Rings
<1>3. \A s \in Slots : slots[s].path_ptr \in -1..Npaths - 1
  BY DEF Ship
<1>4. QED
  BY <1>1, <1>2, <1>3 DEF Tracks

\* A ship of the file is not listed yet, and comes to the front as it was saved.
PutsBack(f, e, ship) ==
  f = [e EXCEPT !.ships[e.first] = [ship EXCEPT !.next = e.ships[e.first].next,
                                               !.prev = e.ships[e.first].prev]]
NextInFile(ship, m) == ship = file[count + 1].ship /\ m = ship.mmsi

LEMMA LoadedFirst ==
  ASSUME IInv, ~Free, NEW m, NEW ship, NEW e, NEW f, NextInFile(ship, m), e = Enter(DB, m),
         PutsBack(f, e, ship), DBIs(f), UNCHANGED <<paths, path_idx, reports>>
  PROVE  /\ ListIsWhole' /\ count' = count + 1 /\ count + 1 \in 1..Len(file)
         /\ HeardLast' = [i \in 1..count + 1 |-> Heard(file[count + 2 - i].ship)]
         /\ Counts(Listed(DB)', ships', reports') /\ ships' \in [Slots -> Ship]
<1>1. /\ ListIsWhole /\ IsFile(file) /\ toLoad \in 0..Len(file) /\ toLoad # 0 /\ Len(file) \in Nat
      /\ count = Len(file) - toLoad /\ count \in Nat
      /\ \A i \in 1..Len(file) : reports[file[i].ship.mmsi] = file[i].reports
      /\ HeardLast = [i \in 1..count |-> Heard(file[count + 1 - i].ship)]
      /\ reports \in [Ships -> Reports] /\ Counts(Listed(DB), ships, reports)
  <2>1. IsFile(file) /\ Len(file) \in Nat
    BY DEF IInv, Filed, IsFile
  <2>2. toLoad \in 0..Len(file) /\ toLoad # 0
    BY DEF IInv, Filed, Free
  <2>3. /\ count = Len(file) - toLoad
        /\ \A i \in 1..Len(file) : reports[file[i].ship.mmsi] = file[i].reports
        /\ HeardLast = [i \in 1..count |-> Heard(file[count + 1 - i].ship)]
    BY DEF IInv, Loading
  <2>4. ListIsWhole /\ reports \in [Ships -> Reports] /\ Counts(Listed(DB), ships, reports)
    BY DEF IInv, Counted
  <2>5. count \in Nat
    BY <2>1, <2>2, <2>3
  <2>6. QED
    BY <2>1, <2>2, <2>3, <2>4, <2>5
<1>2. PICK order : order = Order(DB)
  OBVIOUS
<1>3. /\ DB \in Databases /\ DB.count = count /\ DB.ships = ships /\ Threads(DB, order) /\ InUse(DB, order)
      /\ count \in 0..Nships /\ ships \in [Slots -> Ship] /\ paths \in Rings /\ path_idx \in 0..Npaths - 1
      /\ Listed(DB) \in SUBSET Slots
  BY <1>1, <1>2, WholeOrder
<1>4. PICK k \in 1..Len(file) : k = count + 1 /\ ship = file[k].ship /\ m = ship.mmsi
  <2>1. count + 1 \in 1..Len(file)
    BY <1>1
  <2>2. QED
    BY <2>1 DEF NextInFile
<1>5. ship \in Ship /\ m \in Ships /\ ship.count = Len(reports[m]) /\ count < Nships
  <2>1. PICK S : S = [ship : Ship, reports : Reports]
    OBVIOUS
  <2>2. file \in Seq(S)
    BY <1>1, <2>1 DEF IsFile
  <2>3. file[k] \in S
    BY <2>2, ElementOfSeq
  <2>4. ship \in Ship /\ m \in Ships /\ ship.count = Len(file[k].reports)
    BY <1>1, <1>4, <2>1, <2>3, ZenonT(60) DEF IsFile
  <2>5. reports[m] = file[k].reports
    BY <1>1, <1>4, SMTT(60)
  <2>6. count < Nships
    <3>1. Len(file) <= Nships
      BY <1>1 DEF IsFile
    <3>2. QED
      BY <1>1, <1>4, <3>1
  <2>7. QED
    BY <2>4, <2>5, <2>6
<1>6. e \in Databases
  BY <1>1, <1>5, EnterIs
<1>7. PICK s \in Slots : s = e.first
  BY <1>6 DEF Databases
<1>8. PICK slots \in [Slots -> Ship] : slots = e.ships
  BY <1>6 DEF Databases
<1>9. PICK t \in Ship : t = slots[s]
  OBVIOUS
<1>10. PICK r :
       /\ r = [ship EXCEPT !.next = t.next, !.prev = t.prev]
       /\ r \in Ship /\ r.mmsi = m /\ r.count = ship.count /\ r.last_signal = ship.last_signal
       /\ r.next = t.next /\ r.prev = t.prev
  <2>1. PICK r : r = [ship EXCEPT !.next = t.next, !.prev = t.prev]
    OBVIOUS
  <2>2. t.next \in -1..Nships - 1 /\ t.prev \in -1..Nships - 1
    BY DEF Ship
  <2>3. r = [mmsi |-> ship.mmsi, count |-> ship.count, path_ptr |-> ship.path_ptr,
             last_signal |-> ship.last_signal, next |-> t.next, prev |-> t.prev]
    <3>1. ship = [mmsi |-> ship.mmsi, count |-> ship.count, path_ptr |-> ship.path_ptr,
                  last_signal |-> ship.last_signal, next |-> ship.next, prev |-> ship.prev]
      BY <1>5 DEF Ship
    <3>2. QED
      BY <2>1, <3>1, Zenon
  <2>4. ship.mmsi \in Ships \cup {NoShip} /\ ship.count \in Nat /\ ship.path_ptr \in -1..Npaths - 1
        /\ ship.last_signal \in 0..MaxTime
    BY <1>5, Zenon DEF Ship
  <2>5. r \in Ship
    BY <2>2, <2>3, <2>4 DEF Ship
  <2>6. /\ r.mmsi = m /\ r.count = ship.count /\ r.last_signal = ship.last_signal
        /\ r.next = t.next /\ r.prev = t.prev
    BY <1>4, <2>3
  <2>7. QED
    BY <2>1, <2>5, <2>6, Zenon
<1>11. /\ f.first = e.first /\ f.last = e.last /\ f.count = e.count
       /\ f = [first |-> f.first, last |-> f.last, count |-> f.count, ships |-> f.ships]
       /\ f.ships \in [Slots -> Ship] /\ f.ships[s] = r
       /\ \A i \in Slots : i # s => f.ships[i] = slots[i]
  <2>1. f = [e EXCEPT !.ships = [slots EXCEPT ![s] = r]]
    <3>1. f = [e EXCEPT !.ships = [e.ships EXCEPT ![e.first] =
                [ship EXCEPT !.next = e.ships[e.first].next, !.prev = e.ships[e.first].prev]]]
      BY DEF PutsBack
    <3>2. QED
      BY <1>7, <1>8, <1>9, <1>10, <3>1, Zenon
  <2>2. QED
    BY <1>6, <1>10, <2>1 DEF Databases
<1>12. Fills(f, e, m)
  <2>1. r.next = e.ships[e.first].next /\ r.prev = e.ships[e.first].prev /\ r.mmsi = m
    BY <1>7, <1>8, <1>9, <1>10
  <2>2. f.ships[e.first] = r /\ \A i \in Slots : i # e.first => f.ships[i] = e.ships[i]
    BY <1>7, <1>8, <1>11
  <2>3. QED
    BY <1>5, <1>6, <1>10, <1>11, <2>1, <2>2, FirstSet, ZenonT(60)
<1>13. paths' \in Rings /\ path_idx' \in 0..Npaths - 1
  BY <1>3
<1>14. PICK j \in 1..Nships :
         /\ Enters(DB, e, order, j, m)
         /\ HeardLast' = [i \in 1..count' |-> IF i = 1 THEN Heard(f.ships[e.first])
                                            ELSE HeardLast[IF i <= j THEN i - 1 ELSE i]]
         /\ count' \in 1..Nships /\ count' = e.count
         /\ \A i \in 2..count' : (IF i <= j THEN i - 1 ELSE i) \in 1..count
  BY <1>1, <1>2, <1>5, <1>12, <1>13, ListStep, SMTT(60)
<1>15. ListIsWhole' /\ Listed(DB)' \subseteq Listed(DB) \cup {s}
  BY <1>1, <1>5, <1>7, <1>12, <1>13, ListStep, SMTT(60)
<1>16. ASSUME NEW i \in 1..count PROVE ships[order[i]].mmsi # m
  <2>1. HeardLast[i] = Heard(ships[order[i]])
    BY <1>2 DEF HeardLast
  <2>2. PICK x \in 1..Len(file) : x = count + 1 - i /\ x # k
    <3>1. count + 1 - i \in 1..count /\ count < k /\ count \in 0..Len(file)
      BY <1>1, <1>4, SMTT(60)
    <3>2. count + 1 - i # k /\ count + 1 - i \in 1..Len(file)
      BY <1>1, <1>4, <3>1, SMTT(60)
    <3>3. QED
      BY <3>2
  <2>3. HeardLast[i] = Heard(file[x].ship)
    BY <1>1, <2>2
  <2>4. file[x].ship.mmsi # file[k].ship.mmsi
    BY <1>1, <2>2, Zenon DEF IsFile
  <2>5. QED
    BY <1>4, <2>1, <2>3, <2>4 DEF Heard
<1>17. /\ j = Nships /\ count' = count + 1
       /\ \A i \in Slots : i # s => SameShip(slots[i], ships[i])
       /\ order[j] = s
  <2>1. CASE j <= count /\ ships[order[j]].mmsi = m
    <3>1. j \in 1..count
      BY <1>1, <2>1
    <3>2. QED
      BY <1>16, <2>1, <3>1
  <2>2. CASE j = Nships /\ e.count = IF count < Nships THEN count + 1 ELSE Nships
    BY <1>3, <1>5, <1>7, <1>8, <1>14, <2>2 DEF Enters
  <2>3. QED
    BY <1>3, <1>14, <2>1, <2>2 DEF Enters
<1>18. ASSUME NEW i \in 1..count + 1
       PROVE  (IF i = 1 THEN Heard(f.ships[e.first]) ELSE HeardLast[IF i <= j THEN i - 1 ELSE i])
              = Heard(file[count + 2 - i].ship)
  <2>1. CASE i = 1
    <3>1. count + 2 - i = k
      BY <1>1, <1>4, <2>1
    <3>2. Heard(f.ships[e.first]) = Heard(ship)
      BY <1>7, <1>10, <1>11 DEF Heard
    <3>3. QED
      BY <1>4, <2>1, <3>1, <3>2, ZenonT(60)
  <2>2. CASE i # 1
    <3>1. PICK x \in 1..count : x = i - 1 /\ count + 1 - x = count + 2 - i /\ i <= j
      <4>1. i - 1 \in 1..count /\ count + 1 - (i - 1) = count + 2 - i
        BY <1>1, <2>2
      <4>2. i <= j
        BY <1>1, <1>5, <1>17
      <4>3. QED
        BY <4>1, <4>2
    <3>2. HeardLast[x] = Heard(file[count + 1 - x].ship)
      BY <1>1
    <3>3. QED
      BY <2>2, <3>1, <3>2
  <2>3. QED
    BY <2>1, <2>2
<1>19. HeardLast' = [i \in 1..count + 1 |-> Heard(file[count + 2 - i].ship)]
  BY <1>14, <1>17, <1>18, SMTT(60)
<1>20. ships' = f.ships /\ reports' = reports
  BY DEF DBIs
<1>21. Counts(Listed(DB)', f.ships, reports)
  <2>1. SUFFICES ASSUME NEW i \in Listed(DB)', f.ships[i].mmsi # NoShip
                 PROVE  f.ships[i].count = Len(reports[f.ships[i].mmsi])
    BY DEF Counts
  <2>2. CASE i = s
    BY <1>5, <1>10, <1>11, <2>2, ZenonT(60)
  <2>3. CASE i # s
    <3>1. i \in Listed(DB) /\ i \in Slots
      BY <1>3, <1>15, <2>3
    <3>2. f.ships[i].mmsi = ships[i].mmsi /\ f.ships[i].count = ships[i].count
      BY <1>11, <1>17, <2>3, <3>1 DEF SameShip
    <3>3. QED
      BY <1>1, <2>1, <3>1, <3>2 DEF Counts
  <2>4. QED
    BY <2>2, <2>3
<1>22. QED
  BY <1>4, <1>11, <1>15, <1>17, <1>19, <1>20, <1>21, Zenon

\* A round of Load is no step of RecentShips, which has seen all of them.
LEMMA LoadStep ==
  ASSUME IInv, LoadShip
  PROVE  IInv' /\ UNCHANGED <<clock, IF Free THEN HeardLast ELSE Loaded(file), Kept(file)>>
<1>1. /\ ListIsWhole /\ Filed /\ Counted /\ Tracked /\ ~Free /\ toLoad \in 0..Len(file) /\ toLoad # 0
      /\ UNCHANGED <<paths, path_idx, file, clock, reports>>
  BY Zenon DEF IInv, LoadShip, Filed, Free, ring
<1>2. /\ IsFile(file) /\ Len(file) \in Nat /\ count = Len(file) - toLoad /\ count \in Nat
      /\ paths = NoPaths /\ Loads(file, count)
      /\ \A i \in 1..Len(file) : reports[file[i].ship.mmsi] = file[i].reports
      /\ HeardLast = [i \in 1..count |-> Heard(file[count + 1 - i].ship)]
  <2>1. IsFile(file) /\ Len(file) \in Nat
    BY <1>1 DEF Filed, IsFile
  <2>2. QED
    BY <1>1, <2>1 DEF IInv, Loading
<1>3. PICK k \in 1..Len(file) : k = count + 1 /\ Len(file) - toLoad + 1 = k
  <2>1. count + 1 \in 1..Len(file) /\ Len(file) - toLoad + 1 = count + 1
    BY <1>1, <1>2
  <2>2. QED
    BY <2>1
<1>4. PICK ship : ship = file[k].ship
  OBVIOUS
<1>5. PICK e : e = Enter(DB, ship.mmsi)
  OBVIOUS
<1>6. PICK f : f = [e EXCEPT !.ships[e.first] = [ship EXCEPT !.next = e.ships[e.first].next,
                                                            !.prev = e.ships[e.first].prev]]
  BY ZenonT(60)
<1>7. \/ k > 1 /\ ship.last_signal < file[k - 1].ship.last_signal /\ toLoad' = 0 /\ UNCHANGED list
      \/ /\ ~ (k > 1 /\ ship.last_signal < file[k - 1].ship.last_signal)
         /\ toLoad' = toLoad - 1 /\ DBIs(f)
  <2>1. LET x == Len(file) - toLoad + 1
            sh == file[x].ship
            d == Enter(DB, sh.mmsi)
        IN IF x > 1 /\ sh.last_signal < file[x - 1].ship.last_signal
           THEN toLoad' = 0 /\ UNCHANGED list
           ELSE /\ toLoad' = toLoad - 1
                /\ DBIs([d EXCEPT !.ships[d.first] = [sh EXCEPT !.next = d.ships[d.first].next,
                                                               !.prev = d.ships[d.first].prev]])
    BY Zenon DEF LoadShip
  <2>2. QED
    BY <1>3, <1>4, <1>5, <1>6, <2>1, ZenonT(60)
<1>8. Kept(file)' = Kept(file) /\ Loaded(file)' = Loaded(file) /\ IsFile(file)'
  BY <1>1, <1>2
<1>9. \A i \in 1..Len(file) : file[i].ship.last_signal \in Nat
  <2>1. SUFFICES ASSUME NEW i \in 1..Len(file) PROVE file[i].ship.last_signal \in Nat
    OBVIOUS
  <2>2. PICK S : S = [ship : Ship, reports : Reports]
    OBVIOUS
  <2>3. file \in Seq(S)
    BY <1>2, <2>2 DEF IsFile
  <2>4. file[i] \in S
    BY <2>3, ElementOfSeq
  <2>5. PICK r \in Ship : r = file[i].ship
    BY <2>2, <2>4
  <2>6. QED
    BY <2>5 DEF Ship, Times
<1>10. CASE k > 1 /\ ship.last_signal < file[k - 1].ship.last_signal /\ toLoad' = 0 /\ UNCHANGED list
  <2>1. ~Loads(file, count + 1)
    <3>1. PICK i \in 1..Len(file) : i = k - 1 /\ i \in 1..k - 1 /\ i + 1 = k
      BY <1>2, <1>10
    <3>2. ~(file[i].ship.last_signal <= file[i + 1].ship.last_signal)
      BY <1>4, <1>9, <1>10, <3>1, SMTT(60)
    <3>3. QED
      BY <1>3, <3>1, <3>2, SMTT(60) DEF Loads
  <2>2. Loaded(file) = HeardLast
    <3>1. count \in 0..Len(file)
      BY <1>2, <1>3
    <3>2. QED
      BY <1>2, <2>1, <3>1, LoadedIs, SMTT(60)
  <2>3. ListIsWhole' /\ HeardLast' = HeardLast /\ Listed(DB)' = Listed(DB)
    BY <1>1, <1>10, ListUnchanged
  <2>4. UNCHANGED <<clock, IF Free THEN HeardLast ELSE Loaded(file), Kept(file)>>
    <3>1. Free'
      BY <1>10 DEF Free
    <3>2. QED
      BY <1>1, <1>8, <2>2, <2>3, <3>1
  <2>5. Filed' /\ Loading'
    BY <1>1, <1>2, <1>8, <1>10 DEF Filed, Loading, Free
  <2>6. Counted' /\ Tracked'
    BY <1>1, <1>10, <2>3 DEF Counted, Tracked, Counts, Tracks, list
  <2>7. QED
    BY <2>3, <2>4, <2>5, <2>6 DEF IInv
<1>11. CASE /\ ~ (k > 1 /\ ship.last_signal < file[k - 1].ship.last_signal)
            /\ toLoad' = toLoad - 1 /\ DBIs(f)
  <2>1. PICK m : m = ship.mmsi
    BY SMTT(60)
  <2>2. NextInFile(ship, m) /\ PutsBack(f, e, ship) /\ e = Enter(DB, m)
    BY <1>3, <1>4, <1>5, <1>6, <2>1, Zenon DEF NextInFile, PutsBack
  <2>3. /\ ListIsWhole' /\ count' = count + 1
        /\ HeardLast' = [i \in 1..count + 1 |-> Heard(file[count + 2 - i].ship)]
        /\ Counts(Listed(DB)', ships', reports') /\ ships' \in [Slots -> Ship]
    BY <1>1, <1>11, <2>2, LoadedFirst, SMTT(60)
  <2>4. Loads(file, count + 1)
    <3>1. ASSUME NEW i \in 1..count
          PROVE  file[i].ship.last_signal <= file[i + 1].ship.last_signal
      <4>1. CASE i = count
        <5>1. k > 1 /\ k - 1 = i /\ k = i + 1 /\ i \in 1..Len(file) /\ i + 1 \in 1..Len(file)
          BY <1>2, <1>3, <4>1, SMTT(60)
        <5>2. QED
          BY <1>4, <1>9, <1>11, <5>1, SMTT(60)
      <4>2. CASE i # count
        <5>1. i \in 1..count - 1
          BY <1>2, <4>2
        <5>2. QED
          BY <1>2, <5>1 DEF Loads
      <4>3. QED
        BY <4>1, <4>2
    <3>2. PICK n \in Nat : n = count + 1 /\ n - 1 = count
      BY <1>2
    <3>3. Loads(file, n)
      BY <3>1, <3>2 DEF Loads
    <3>4. QED
      BY <3>2, <3>3
  <2>5. UNCHANGED <<clock, IF Free THEN HeardLast ELSE Loaded(file), Kept(file)>>
    <3>1. CASE Free'
      <4>1. count + 1 = Len(file)
        <5>1. toLoad' = 0
          BY <3>1 DEF Free
        <5>2. PICK x \in 0..Len(file) : x = toLoad
          BY <1>1
        <5>3. x - 1 = 0
          BY <1>11, <5>1, <5>2
        <5>4. QED
          BY <1>2, <5>2, <5>3
      <4>2. PICK n \in 0..Len(file) : n = count + 1 /\ n + 1 = count + 2 /\ n = Len(file)
        BY <1>2, <4>1
      <4>3. Loads(file, n)
        BY <2>4, <4>2
      <4>4. Loaded(file) = [i \in 1..n |-> Heard(file[n + 1 - i].ship)]
        <5>1. IsFile(file) /\ n \in 0..Len(file) /\ n = Len(file)
          BY <1>2, <4>2, Zenon
        <5>2. QED
          BY <4>3, <5>1, LoadedIs, ZenonT(60)
      <4>5. HeardLast' = Loaded(file)
        <5>1. \A i \in 1..n : count + 2 - i = n + 1 - i
          BY <1>2, <4>2, SMTT(60)
        <5>2. HeardLast' = [i \in 1..n |-> Heard(file[count + 2 - i].ship)]
          BY <2>3, <4>2
        <5>3. QED
          BY <4>4, <5>1, <5>2, Zenon
      <4>6. QED
        BY <1>1, <1>8, <3>1, <4>5
    <3>2. CASE ~Free'
      BY <1>1, <1>8, <3>2
    <3>3. QED
      BY <3>1, <3>2
  <2>6. Filed'
    <3>1. toLoad - 1 \in 0..Len(file)
      BY <1>1, <1>2
    <3>2. QED
      BY <1>1, <1>8, <1>11, <3>1 DEF Filed
  <2>7. Loading'
    <3>1. count' = Len(file') - toLoad' /\ paths' = NoPaths
      BY <1>1, <1>2, <1>11, <2>3
    <3>2. Loads(file', count')
      BY <1>1, <2>3, <2>4
    <3>3. \A i \in 1..Len(file') : reports'[file'[i].ship.mmsi] = file'[i].reports
      BY <1>1, <1>2
    <3>4. HeardLast' = [i \in 1..count' |-> Heard(file'[count' + 1 - i].ship)]
      <4>1. count' = count + 1 /\ file' = file
        BY <1>1, <2>3
      <4>2. \A i \in 1..count + 1 : count + 2 - i = count + 1 + 1 - i
        BY <1>2
      <4>3. HeardLast' = [i \in 1..count + 1 |-> Heard(file[count + 1 + 1 - i].ship)]
        BY <2>3, <4>2, Zenon
      <4>4. QED
        BY <4>1, <4>3, Zenon
    <3>5. QED
      BY <3>1, <3>2, <3>3, <3>4 DEF Loading
  <2>8. Counted'
    BY <1>1, <2>3 DEF Counted, Counts
  <2>9. Tracked'
    <3>1. PICK slots \in [Slots -> Ship] : slots = ships'
      BY <2>3
    <3>2. PICK rs, used : rs = reports' /\ used = Listed(DB)'
      OBVIOUS
    <3>3. used \in SUBSET Slots
      BY <2>3, <3>2, WholeNext
    <3>4. Tracks({}, NoPaths, used, slots, rs)
      BY <3>3, NothingTracked
    <3>5. QED
      BY <1>1, <1>2, <3>1, <3>2, <3>4, ZenonT(60) DEF Tracked, Tracks
  <2>10. QED
    BY <2>3, <2>5, <2>6, <2>7, <2>8, <2>9 DEF IInv
<1>12. QED
  BY <1>7, <1>10, <1>11, SMTT(60)

-----------------------------------------------------------------------------
(* Restart *)

LEMMA LinkedIs ==
  ASSUME NEW t \in Ship, NEW i \in Slots
  PROVE  /\ Linked(t, i) \in Ship /\ Linked(t, i).next = i - 1
         /\ Linked(t, i).prev = IF i = Nships - 1 THEN -1 ELSE i + 1
<1>1. PICK y : y = IF i = Nships - 1 THEN -1 ELSE i + 1
  OBVIOUS
<1>2. y \in -1..Nships - 1 /\ i - 1 \in -1..Nships - 1
  BY <1>1 DEF Slots
<1>3. PICK u : u = [t EXCEPT !.next = i - 1]
  OBVIOUS
<1>4. u \in Ship /\ u.next = i - 1
  BY <1>2, <1>3, NextSet
<1>5. PICK r : r = [u EXCEPT !.prev = y]
  OBVIOUS
<1>6. r \in Ship /\ r.next = i - 1 /\ r.prev = y
  BY <1>2, <1>4, <1>5, PrevSet
<1>7. Linked(t, i) = r
  BY <1>1, <1>3, <1>5, Zenon DEF Linked
<1>8. QED
  BY <1>1, <1>6, <1>7

\* setup() threads all slots, and none is in use.
LEMMA SetUpIs ==
  ASSUME NEW old \in [Slots -> Ship], NEW e, e = SetUp(old)
  PROVE  e \in Databases /\ e.count = 0 /\ \E order : Threads(e, order) /\ InUse(e, order)
<1>1. PICK slots : slots = [i \in Slots |-> Linked(old[i], i)]
  OBVIOUS
<1>2. e = [first |-> Nships - 1, last |-> 0, count |-> 0, ships |-> slots]
  BY <1>1, Zenon DEF SetUp
<1>3. /\ \A i \in Slots : slots[i].next = i - 1
                        /\ slots[i].prev = IF i = Nships - 1 THEN -1 ELSE i + 1
      /\ slots \in [Slots -> Ship]
  <2>1. ASSUME NEW i \in Slots
        PROVE  /\ slots[i] \in Ship /\ slots[i].next = i - 1
               /\ slots[i].prev = IF i = Nships - 1 THEN -1 ELSE i + 1
    <3>1. PICK t : t = old[i] /\ t \in Ship
      OBVIOUS
    <3>2. slots[i] = Linked(t, i)
      BY <1>1, <3>1
    <3>3. QED
      BY <3>1, <3>2, LinkedIs
  <2>2. slots = [i \in Slots |-> slots[i]]
    BY <1>1
  <2>3. QED
    BY <2>1, <2>2
<1>4. e \in Databases
  <2>1. Nships - 1 \in Slots /\ 0 \in Slots /\ 0 \in 0..Nships
    BY DEF Slots
  <2>2. QED
    BY <1>2, <1>3, <2>1 DEF Databases
<1>5. PICK order : order = [k \in 1..Nships |-> Nships - k]
  OBVIOUS
<1>6. Threads(e, order)
  <2>1. order \in [1..Nships -> Slots]
    BY <1>5 DEF Slots
  <2>2. ASSUME NEW i \in Slots PROVE \E k \in 1..Nships : order[k] = i
    <3>1. Nships - i \in 1..Nships /\ order[Nships - i] = i
      BY <1>5 DEF Slots
    <3>2. QED
      BY <3>1
  <2>3. order[1] = e.first /\ order[Nships] = e.last
    BY <1>2, <1>5
  <2>4. ASSUME NEW k \in 1..Nships
        PROVE  /\ e.ships[order[k]].next = IF k = Nships THEN -1 ELSE order[k + 1]
               /\ e.ships[order[k]].prev = IF k = 1 THEN -1 ELSE order[k - 1]
    <3>1. PICK s \in Slots : s = order[k] /\ s = Nships - k
      BY <1>5, <2>1
    <3>2. slots[s].next = s - 1 /\ slots[s].prev = IF s = Nships - 1 THEN -1 ELSE s + 1
      BY <1>3
    <3>3. s - 1 = IF k = Nships THEN -1 ELSE order[k + 1]
      BY <1>5, <3>1
    <3>4. (IF s = Nships - 1 THEN -1 ELSE s + 1) = IF k = 1 THEN -1 ELSE order[k - 1]
      BY <1>5, <3>1
    <3>5. QED
      BY <1>2, <3>1, <3>2, <3>3, <3>4
  <2>5. QED
    BY <2>1, <2>2, <2>3, <2>4, Zenon DEF Threads
<1>7. InUse(e, order)
  BY <1>2 DEF InUse
<1>8. QED
  BY <1>2, <1>4, <1>6, <1>7

\* A process begins with it.
LEMMA NoneIs == [i \in Slots |-> NoneHeard] \in [Slots -> Ship]
<1>1. -1 \in -1..Npaths - 1 /\ -1 \in -1..Nships - 1 /\ 0 \in 0..MaxTime
  OBVIOUS
<1>2. QED
  BY <1>1 DEF NoneHeard, Ship

LEMMA EmptyIs ==
  ASSUME NEW e, e = Empty
  PROVE  e \in Databases /\ e.count = 0 /\ \E order : Threads(e, order) /\ InUse(e, order)
BY NoneIs, SetUpIs DEF Empty

\* A database that was set up: the list is whole, and nothing is on it.
LEMMA SetUpAgain ==
  ASSUME NEW old \in [Slots -> Ship], NEW e, e = SetUp(old), DBIs(e),
         paths' \in Rings, path_idx' \in 0..Npaths - 1
  PROVE  /\ ListIsWhole' /\ count' = 0 /\ ships' \in [Slots -> Ship] /\ Listed(DB)' = {}
         /\ HeardLast' = <<>>
<1>1. PICK order : e \in Databases /\ e.count = 0 /\ Threads(e, order) /\ InUse(e, order)
  BY SetUpIs
<1>2. ListIsWhole' /\ Listed(DB)' = {order[i] : i \in 1..e.count}
  BY <1>1, WholeAgain
<1>3. count' = 0 /\ ships' \in [Slots -> Ship]
  BY <1>1 DEF DBIs, Databases
<1>4. Listed(DB)' = {}
  BY <1>1, <1>2
<1>5. HeardLast' = <<>>
  BY <1>3 DEF HeardLast
<1>6. QED
  BY <1>2, <1>3, <1>4, <1>5

\* What the backup holds when the process ends in the middle of Save.
LEMMA CutShort ==
  ASSUME ListIsWhole, Counted, NEW n \in 0..count, NEW f, f = SubSeq(Saved, 1, n)
  PROVE  /\ IsFile(f)
         /\ Kept(f) = Recent!Oldest(HeardLast, n)
         /\ Len(HeardLast) = count
<1>1. PICK g : g = Saved
  OBVIOUS
<1>2. /\ IsFile(g) /\ Len(g) = count /\ count \in Nat
      /\ \A i \in 1..count : Heard(g[i].ship) = HeardLast[count + 1 - i]
  BY <1>1, SavedIs, SMTT(60)
<1>3. n \in 0..Len(g)
  BY <1>2
<1>4. IsFile(f) /\ Len(f) = n /\ \A i \in 1..n : f[i] = g[i]
  <2>1. IsFile(g) /\ f = SubSeq(g, 1, n)
    BY <1>1, <1>2, Zenon
  <2>2. QED
    BY <1>3, <2>1, ShorterFile, ZenonT(60)
<1>5. PICK h : h = HeardLast
  OBVIOUS
<1>6. Len(h) = count
  <2>1. \E S : h \in [1..count -> S]
    <3>1. h \in [1..count -> {HeardLast[i] : i \in 1..count}]
      BY <1>5 DEF HeardLast
    <3>2. QED
      BY <3>1, Zenon
  <2>2. QED
    BY <1>2, <2>1
<1>7. ASSUME NEW i \in 1..n
      PROVE  Heard(f[n + 1 - i].ship) = h[count - n + i]
  <2>1. PICK k \in 1..n : k = n + 1 - i /\ k \in 1..count /\ count + 1 - k = count - n + i
    BY <1>2
  <2>2. f[k] = g[k] /\ Heard(g[k].ship) = h[count + 1 - k]
    BY <1>2, <1>4, <1>5, <2>1
  <2>3. QED
    BY <2>1, <2>2
<1>8. Kept(f) = Recent!Oldest(h, n)
  BY <1>4, <1>6, <1>7, SMTT(60) DEF Kept, Recent!Oldest
<1>9. QED
  BY <1>4, <1>5, <1>6, <1>8

\* After a restart every ship of the backup has the reports that were saved with it.
Restored(f) ==
  [m \in Ships |-> IF \E i \in 1..Len(f) : f[i].ship.mmsi = m
                   THEN f[CHOOSE i \in 1..Len(f) : f[i].ship.mmsi = m].reports ELSE <<>>]

LEMMA ReportsBack ==
  ASSUME NEW f, IsFile(f), NEW rs, rs = Restored(f)
  PROVE  /\ rs \in [Ships -> Reports]
         /\ \A i \in 1..Len(f) : rs[f[i].ship.mmsi] = f[i].reports
<1>1. ASSUME NEW i \in 1..Len(f) PROVE f[i].reports \in Reports
  <2>1. PICK S : S = [ship : Ship, reports : Reports]
    OBVIOUS
  <2>2. f \in Seq(S)
    BY <2>1 DEF IsFile
  <2>3. f[i] \in S
    BY <2>2, ElementOfSeq
  <2>4. QED
    BY <2>1, <2>3
<1>2. ASSUME NEW m \in Ships PROVE rs[m] \in Reports
  <2>1. CASE \E i \in 1..Len(f) : f[i].ship.mmsi = m
    <3>1. PICK i \in 1..Len(f) : i = CHOOSE x \in 1..Len(f) : f[x].ship.mmsi = m
      BY <2>1
    <3>2. rs[m] = f[i].reports
      BY <2>1, <3>1 DEF Restored
    <3>3. QED
      BY <1>1, <3>2
  <2>2. CASE ~ \E i \in 1..Len(f) : f[i].ship.mmsi = m
    <3>1. rs[m] = <<>>
      BY <2>2 DEF Restored
    <3>2. <<>> \in Seq(Said)
      OBVIOUS
    <3>3. QED
      BY <3>1, <3>2 DEF Reports
  <2>3. QED
    BY <2>1, <2>2
<1>3. ASSUME NEW i \in 1..Len(f) PROVE rs[f[i].ship.mmsi] = f[i].reports
  <2>1. PICK m \in Ships : m = f[i].ship.mmsi
    BY DEF IsFile
  <2>2. PICK k \in 1..Len(f) : k = CHOOSE x \in 1..Len(f) : f[x].ship.mmsi = m
    BY <2>1, SMTT(60)
  <2>3. f[k].ship.mmsi = m
    BY <2>1, <2>2, SMTT(60)
  <2>4. k = i
    BY <2>1, <2>3, SMTT(60) DEF IsFile
  <2>5. rs[m] = f[k].reports
    BY <2>1, <2>2, Zenon DEF Restored
  <2>6. QED
    BY <2>1, <2>4, <2>5
<1>4. QED
  BY <1>2, <1>3, Zenon DEF Restored

\* A restart goes back to the backup, which may be cut short.
LEMMA RestartStep ==
  ASSUME IInv, Restart
  PROVE  IInv' /\ Recent!Restart
<1>1. /\ ListIsWhole /\ Filed /\ Counted /\ DBIs(Empty) /\ toLoad' = Len(file')
      /\ paths' = NoPaths /\ path_idx' = 0 /\ UNCHANGED clock
      /\ (UNCHANGED file \/ (Free /\ \E n \in 0..count : file' = SubSeq(Saved, 1, n)))
      /\ reports' = Restored(file')
  <2>1. ListIsWhole /\ Filed /\ Counted
    BY DEF IInv
  <2>2. reports' = Restored(file')
    BY Zenon DEF Restart, Restored
  <2>3. DBIs(Empty) /\ toLoad' = Len(file') /\ paths' = NoPaths /\ path_idx' = 0 /\ UNCHANGED clock
    BY Zenon DEF Restart
  <2>4. \/ UNCHANGED file
        \/ Free /\ \E n \in 0..count : file' = SubSeq(Saved, 1, n)
    BY DEF Restart
  <2>5. QED
    BY <2>1, <2>2, <2>3, <2>4, Zenon
<1>2. PICK f : f = file'
  OBVIOUS
<1>3. PICK r : r = IF Free THEN HeardLast ELSE Loaded(file)
  OBVIOUS
<1>4. IsFile(f) /\ Kept(f) \in {Kept(file)} \cup {Recent!Oldest(r, n) : n \in 0..Len(r)}
  <2>1. CASE UNCHANGED file
    BY <1>1, <1>2, <2>1 DEF Filed
  <2>2. CASE Free /\ \E n \in 0..count : file' = SubSeq(Saved, 1, n)
    <3>1. PICK n \in 0..count : f = SubSeq(Saved, 1, n)
      BY <1>2, <2>2
    <3>2. IsFile(f) /\ Kept(f) = Recent!Oldest(HeardLast, n) /\ Len(HeardLast) = count
      BY <1>1, <3>1, CutShort, Zenon
    <3>3. r = HeardLast
      BY <1>3, <2>2
    <3>4. QED
      BY <3>1, <3>2, <3>3
  <2>3. QED
    BY <1>1, <2>1, <2>2
<1>5. PICK old \in [Slots -> Ship] : Empty = SetUp(old)
  BY NoneIs DEF Empty
<1>6. paths' \in Rings /\ path_idx' \in 0..Npaths - 1
  BY <1>1, <1>5, NothingTracked
<1>7. ListIsWhole' /\ count' = 0 /\ ships' \in [Slots -> Ship] /\ Listed(DB)' = {} /\ HeardLast' = <<>>
  BY <1>1, <1>5, <1>6, SetUpAgain
<1>8. PICK rs : rs = reports'
  OBVIOUS
<1>9. rs \in [Ships -> Reports] /\ \A i \in 1..Len(f) : rs[f[i].ship.mmsi] = f[i].reports
  <2>1. rs = Restored(f)
    BY <1>1, <1>2, <1>8, Zenon
  <2>2. QED
    BY <1>4, <2>1, ReportsBack
<1>10. Len(f) \in Nat
  BY <1>4 DEF IsFile
<1>11. Filed'
  BY <1>1, <1>2, <1>4, <1>10 DEF Filed
<1>13. Loading'
  <2>1. count' = Len(file') - toLoad' /\ paths' = NoPaths
    BY <1>1, <1>2, <1>7, <1>10
  <2>2. Loads(file', count')
    BY <1>7 DEF Loads
  <2>3. \A i \in 1..Len(file') : reports'[file'[i].ship.mmsi] = file'[i].reports
    BY <1>2, <1>8, <1>9
  <2>4. HeardLast' = [i \in 1..count' |-> Heard(file'[count' + 1 - i].ship)]
    BY <1>7
  <2>5. QED
    BY <2>1, <2>2, <2>3, <2>4 DEF Loading
<1>14. Counted'
  BY <1>1, <1>7, <1>8, <1>9 DEF Counted, Counts
<1>15. Tracked'
  BY <1>1, <1>7 DEF Tracked, Tracks
<1>16. (IF Free THEN HeardLast ELSE Loaded(file))' = Loaded(f)
  <2>1. CASE Free'
    <3>1. Len(f) = 0
      BY <1>1, <1>2, <2>1 DEF Free
    <3>2. 0 \in 0..Len(f) /\ Loads(f, 0)
      BY <3>1 DEF Loads
    <3>3. Loaded(f) = [i \in 1..0 |-> Heard(f[0 + 1 - i].ship)]
      BY <1>4, <3>1, <3>2, LoadedIs
    <3>4. QED
      BY <1>7, <2>1, <3>3
  <2>2. CASE ~Free'
    BY <1>2, <2>2
  <2>3. QED
    BY <2>1, <2>2
<1>17. Recent!Restart
  <2>1. Loaded(f) = Recent!Restorable(Kept(f))
    BY <1>4, LoadedRestores
  <2>2. Kept(file)' = Kept(f)
    BY <1>2
  <2>3. QED
    BY <1>1, <1>3, <1>4, <1>16, <2>1, <2>2 DEF Recent!Restart
<1>18. QED
  BY <1>7, <1>11, <1>13, <1>14, <1>15, <1>17 DEF IInv

\* setup() in the same process forgets the ships, and the backup stays.
LEMMA SetupStep ==
  ASSUME IInv, Setup
  PROVE  IInv' /\ Recent!Forget
<1>1. /\ ListIsWhole /\ Filed /\ Counted /\ Free /\ DBIs(SetUp(ships))
      /\ UNCHANGED <<paths, path_idx, file, toLoad, clock, reports>>
  BY DEF IInv, Setup, ring
<1>2. ships \in [Slots -> Ship] /\ paths \in Rings /\ path_idx \in 0..Npaths - 1
  BY <1>1, WholeOrder
<1>3. ListIsWhole' /\ count' = 0 /\ ships' \in [Slots -> Ship] /\ Listed(DB)' = {} /\ HeardLast' = <<>>
  BY <1>1, <1>2, SetUpAgain
<1>4. Filed' /\ Loading'
  BY <1>1 DEF Filed, Loading, Free
<1>5. Counted' /\ Tracked'
  <2>1. Counted'
    BY <1>1, <1>3 DEF Counted, Counts
  <2>2. Tracks({}, paths, {}, ships', reports)
    BY DEF Tracks
  <2>3. QED
    BY <1>1, <1>3, <2>1 DEF Tracked, Tracks
<1>6. Recent!Forget
  BY <1>1, <1>3 DEF Recent!Forget, Free
<1>7. QED
  BY <1>3, <1>4, <1>5, <1>6 DEF IInv

LEMMA ClockStep ==
  ASSUME IInv, Clock
  PROVE  IInv' /\ Recent!SetClock
<1>1. /\ ListIsWhole /\ Filed /\ Loading /\ Counted /\ Tracked /\ clock' \in Times
      /\ UNCHANGED <<list, paths, path_idx, file, toLoad, reports>>
  BY DEF IInv, Clock, ring, Times
<1>2. ListIsWhole' /\ HeardLast' = HeardLast /\ Listed(DB)' = Listed(DB)
  BY <1>1, ListUnchanged
<1>3. count' = count /\ ships' = ships
  BY <1>1 DEF list
<1>4. Filed' /\ Loading'
  BY <1>1, <1>2, <1>3 DEF Filed, Loading, Free
<1>5. Counted' /\ Tracked'
  BY <1>1, <1>2, <1>3 DEF Counted, Tracked, Counts, Tracks
<1>6. Recent!SetClock
  BY <1>1, <1>2 DEF Recent!SetClock, Free
<1>7. QED
  BY <1>2, <1>4, <1>5, <1>6 DEF IInv

-----------------------------------------------------------------------------
(* The theorems *)

LEMMA InitHolds == Init => IInv /\ Recent!Init
<1>1. SUFFICES ASSUME Init PROVE IInv /\ Recent!Init
  OBVIOUS
<1>2. PICK e : e = Empty
  OBVIOUS
<1>3. /\ DB = e /\ paths = NoPaths /\ path_idx = 0 /\ file = <<>> /\ toLoad = 0 /\ clock = 1
      /\ reports = [m \in Ships |-> <<>>]
      /\ first = e.first /\ last = e.last /\ count = e.count /\ ships = e.ships
  <2>1. e = [first |-> e.first, last |-> e.last, count |-> e.count, ships |-> e.ships]
    BY <1>2, Zenon DEF Empty, SetUp
  <2>2. QED
    BY <1>1, <1>2, <2>1 DEF Init, DB
<1>4. PICK order : e \in Databases /\ e.count = 0 /\ Threads(e, order) /\ InUse(e, order)
  BY <1>2, EmptyIs
<1>5. e.ships \in [Slots -> Ship]
  BY <1>4 DEF Databases
<1>6. ListIsWhole
  <2>1. NoPaths \in Rings
    BY <1>5, NothingTracked
  <2>2. TypeOK
    BY <1>3, <1>4, <2>1, SMTT(60) DEF TypeOK, Databases, Rings
  <2>3. order \in [1..Nships -> Slots]
    BY <1>4 DEF Threads
  <2>4. QED
    BY <1>3, <1>4, <2>2, <2>3 DEF ListIsWhole, InUse
<1>7. IsFile(file) /\ Kept(file) = <<>>
  <2>1. PICK f : f = <<>>
    OBVIOUS
  <2>2. \A S : f \in Seq(S)
    BY <2>1
  <2>3. Len(f) = 0
    BY <2>1
  <2>4. IsFile(f)
    BY <2>2, <2>3 DEF IsFile
  <2>5. Kept(f) = <<>>
    BY <2>3 DEF Kept
  <2>6. QED
    BY <1>3, <2>1, <2>4, <2>5
<1>8. Filed /\ Loading
  BY <1>3, <1>7 DEF Filed, IsFile, Loading, Free
<1>9. Counted /\ Tracked
  <2>1. Listed(DB) = {}
    BY <1>3, <1>4 DEF Listed
  <2>2. <<>> \in Seq(Said)
    OBVIOUS
  <2>3. Counted
    BY <1>3, <2>1, <2>2 DEF Counted, Counts, Reports, Times
  <2>4. Tracks({}, paths, {}, ships, reports)
    BY DEF Tracks
  <2>5. QED
    BY <2>1, <2>3, <2>4 DEF Tracked
<1>10. Recent!Init
  <2>1. HeardLast = <<>>
    BY <1>3, <1>4 DEF HeardLast
  <2>2. QED
    BY <1>3, <1>7, <2>1 DEF Recent!Init, Free, Times
<1>11. QED
  BY <1>6, <1>8, <1>9, <1>10 DEF IInv

LEMMA NextHolds ==
  IInv /\ [Next]_vars =>
    IInv' /\ [Recent!Next]_<<clock, IF Free THEN HeardLast ELSE Loaded(file), Kept(file)>>
<1>1. SUFFICES ASSUME IInv, [Next]_vars
               PROVE  IInv' /\ [Recent!Next]_<<clock, IF Free THEN HeardLast ELSE Loaded(file), Kept(file)>>
  OBVIOUS
<1>2. CASE \E m \in Ships, place \in Places : ReceivePosition(m, place)
  BY <1>1, <1>2, PositionStep DEF Recent!Next
<1>3. CASE \E m \in Ships : ReceiveOther(m)
  BY <1>1, <1>3, OtherStep DEF Recent!Next
<1>4. CASE Save
  BY <1>1, <1>4, SaveStep DEF Recent!Next
<1>5. CASE LoadShip
  BY <1>1, <1>5, LoadStep
<1>6. CASE Restart
  BY <1>1, <1>6, RestartStep DEF Recent!Next
<1>7. CASE Setup
  BY <1>1, <1>7, SetupStep DEF Recent!Next
<1>8. CASE Clock
  BY <1>1, <1>8, ClockStep DEF Recent!Next
<1>9. CASE UNCHANGED vars
  <2>1. UNCHANGED <<list, paths, path_idx, file, toLoad, clock, reports>>
    BY <1>9 DEF vars, ring
  <2>2. ListIsWhole' /\ HeardLast' = HeardLast /\ Listed(DB)' = Listed(DB)
    BY <1>1, <2>1, ListUnchanged DEF IInv
  <2>3. count' = count /\ ships' = ships
    BY <2>1 DEF list
  <2>4. Filed' /\ Loading' /\ Counted' /\ Tracked'
    <3>1. Filed /\ Loading /\ Counted /\ Tracked
      BY <1>1 DEF IInv
    <3>2. QED
      BY <2>1, <2>2, <2>3, <3>1 DEF Filed, Loading, Free, Counted, Tracked, Counts, Tracks
  <2>5. UNCHANGED <<clock, IF Free THEN HeardLast ELSE Loaded(file), Kept(file)>>
    BY <2>1, <2>2 DEF Free
  <2>6. QED
    BY <2>2, <2>4, <2>5 DEF IInv
<1>10. QED
  BY <1>1, <1>2, <1>3, <1>4, <1>5, <1>6, <1>7, <1>8, <1>9 DEF Next

LEMMA Invariance == Spec => []IInv
BY InitHolds, NextHolds, PTL DEF Spec

\* The list of the database threads every slot, and the ships on it are different
\* ones, whatever moveShipToFront, createShip, setup and Load do.
THEOREM ListStaysWhole == Spec => []ListIsWhole
<1>1. IInv => ListIsWhole
  BY DEF IInv
<1>2. QED
  BY <1>1, Invariance, PTL

\* Every place that getSinglePathJSON shows of a ship is one the ship reported, with
\* the message that it is shown with.
THEOREM PathsAreOwn == Spec => []PathIsOwn
<1>1. ASSUME IInv PROVE PathIsOwn
  <2>1. PICK g \in SUBSET (0..Npaths - 1) : Tracks(g, paths, Listed(DB), ships, reports)
    BY <1>1 DEF IInv, Tracked
  <2>2. SUFFICES ASSUME NEW s \in Listed(DB), NEW n \in 1..Npaths, NEW path \in [1..n -> 0..Npaths - 1],
                        Goes(ships[s], path)
                 PROVE  LET known == reports[ships[s].mmsi]
                            point == paths[path[n]]
                        IN point.count \in 1..Len(known) /\ known[point.count] = point.place
    BY DEF PathIsOwn
  <2>3. s \in Slots /\ ships[s].mmsi # NoShip
    <3>1. /\ DB.count = count /\ DB.ships = ships /\ Threads(DB, Order(DB)) /\ InUse(DB, Order(DB))
          /\ count \in 0..Nships
      BY <1>1, WholeOrder DEF IInv
    <3>2. PICK i \in 1..count : s = Order(DB)[i]
      BY <3>1 DEF Listed
    <3>3. i \in 1..Nships
      BY <3>1
    <3>4. QED
      BY <3>1, <3>2, <3>3, SMTT(60) DEF Threads, InUse
  <2>4. n \in 1..n
    OBVIOUS
  <2>5. path[n] \in g /\ paths[path[n]].mmsi = ships[s].mmsi
    <3>1. PICK points, used, slots, rs : points = paths /\ used = Listed(DB) /\ slots = ships /\ rs = reports
      OBVIOUS
    <3>2. PathOf(s, path, n, points, used, slots) /\ Tracks(g, points, used, slots, rs)
      BY <2>1, <2>2, <2>3, <3>1 DEF PathOf
    <3>3. \A k \in 1..n : path[k] \in g /\ points[path[k]].mmsi = slots[s].mmsi
      BY <3>2, PathTracked, SMTT(60)
    <3>4. QED
      BY <2>4, <3>1, <3>3
  <2>6. Says(reports[paths[path[n]].mmsi], paths[path[n]].count, paths[path[n]].place)
    BY <2>1, <2>5 DEF Tracks
  <2>7. QED
    BY <2>5, <2>6, SMTT(60) DEF Says
<1>2. QED
  BY <1>1, Invariance, PTL

\* The database implements RecentShips: receiving, saving, restarting and loading
\* are steps of it, or none.
THEOREM ImplementsRecent == Spec => RefinesRecent
<1>1. Spec => Recent!Init /\ [][Recent!Next]_<<clock, IF Free THEN HeardLast ELSE Loaded(file), Kept(file)>>
  BY InitHolds, NextHolds, Invariance, PTL DEF Spec
<1>2. QED
  BY <1>1 DEF RefinesRecent, Recent!Spec
=============================================================================

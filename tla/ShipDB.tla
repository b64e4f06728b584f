------------------------------- MODULE ShipDB -------------------------------
(***************************************************************************)
(* The ship database of the engine's web viewer (Tracking/DB.cpp): a fixed *)
(* array of ships threaded on a doubly linked list, the one heard last     *)
(* first; a ring of path points that all ships share, in which each point  *)
(* names the ship's point before it; and the backup file that Save writes  *)
(* and Load reads after a restart (Ships.cpp, WebViewer.cpp).              *)
(*                                                                         *)
(* Every operation but setup() holds the mutex, so each is one action; Load*)
(* is one for each ship of the file, and others wait until it ends.        *)
(* setup() comes before the engine runs: with one engine nobody else is in *)
(* the database then.  A position is a place on a line; Near stands for a  *)
(* distance of 100 metres.  Nothing takes a point out of the ring when its *)
(* ship goes, and the backup has the ships' pointers into the ring but not *)
(* the ring: isNextPathPoint alone decides what belongs to a ship's path.  *)
(***************************************************************************)
EXTENDS Integers, Sequences, FiniteSets, TLC

CONSTANTS
  Ships,         \* MMSIs
  Nships, Npaths,
  Places, Near,
  MaxMessages,   \* bound: messages received
  MaxTime,       \* bound: the clock
  MaxRestarts    \* bound: restarts of the process

NoShip == 0                       \* mmsi of a slot not in use, which Receive refuses

ASSUME ConstantsAssumption ==
  /\ Nships \in Nat \ {0} /\ Npaths \in Nat \ {0} /\ NoShip \notin Ships
  /\ Places \subseteq Nat /\ MaxTime \in Nat \ {0}

VARIABLES
  first, last, count,   \* the list and the number of slots in use
  ships,                \* the array: links and what is known of a ship
  paths, path_idx,      \* the ring and where it is written next
  file,                 \* the backup: ships, the last heard last
  toLoad,               \* ships of the file that Load has still to read
  clock,
  reports,              \* history: where each ship was, by message
  messages, restarts    \* so far

list == <<first, last, count, ships>>
ring == <<paths, path_idx>>
vars == <<list, ring, file, toLoad, clock, reports, messages, restarts>>

Slots == 0..Nships - 1
NoPoint == [mmsi |-> NoShip, count |-> 0, place |-> 0, next |-> 0]

\* reset() of a ship, whose links stay.
Reset(s) == [s EXCEPT !.mmsi = NoShip, !.count = 0, !.path_ptr = -1, !.last_signal = 0]

\* A database is the list part of the state, as a value.
DB == [first |-> first, last |-> last, count |-> count, ships |-> ships]
DBIs(d) == first' = d.first /\ last' = d.last /\ count' = d.count /\ ships' = d.ships

\* setup(): none is in use and all are linked, from the last to slot 0.  What the slots
\* and the ring hold stays.
Linked(s, i) == [s EXCEPT !.next = i - 1, !.prev = IF i = Nships - 1 THEN -1 ELSE i + 1]
SetUp(slots) ==
  [first |-> Nships - 1, last |-> 0, count |-> 0, ships |-> [i \in Slots |-> Linked(slots[i], i)]]

\* The database of a process that has just begun.
NoneHeard == [mmsi |-> NoShip, count |-> 0, path_ptr |-> -1, last_signal |-> 0,
              next |-> -1, prev |-> -1]
Empty == SetUp([i \in Slots |-> NoneHeard])
NoPaths == [i \in 0..Npaths - 1 |-> NoPoint]

\* The slots in the order of the list, from the first.
Follows(d, order) ==
  order[1] = d.first /\ \A i \in 1..Nships - 1 : order[i + 1] = d.ships[order[i]].next
Order(d) == CHOOSE order \in [1..Nships -> Slots] : Follows(d, order)

\* findShip looks at the slots in use only.
Listed(d) == {Order(d)[i] : i \in 1..d.count}
FindShip(d, m) == {i \in Listed(d) : d.ships[i].mmsi = m}

\* createShip takes the slot at the end, in use or not.
CreateShip(d) ==
  [d EXCEPT !.count = IF d.count < Nships THEN @ + 1 ELSE @,
            !.ships[d.last] = Reset(@)]

\* Mutant: the end of the list stays where it was.
MoveOnlyLinks(d, p) ==
  IF p = d.first THEN d
  ELSE LET s == d.ships[p]
           out == [i \in Slots |->
                     CASE i = s.next -> [d.ships[i] EXCEPT !.prev = s.prev]
                       [] i = s.prev -> [d.ships[i] EXCEPT !.next = s.next]
                       [] OTHER -> d.ships[i]]
       IN [d EXCEPT !.first = p,
                    !.ships = [out EXCEPT ![p].next = d.first, ![p].prev = -1, ![d.first].prev = p]]

\* moveShipToFront: out of the list, and in again before the first.
MoveShipToFront(d, p) ==
  IF p = d.first THEN d
  ELSE LET s == d.ships[p]
           out == [i \in Slots |->
                     CASE i = s.next -> [d.ships[i] EXCEPT !.prev = s.prev]
                       [] i = s.prev -> [d.ships[i] EXCEPT !.next = s.next]
                       [] OTHER -> d.ships[i]]
       IN [d EXCEPT !.first = p, !.last = IF s.next = -1 THEN s.prev ELSE @,
                    !.ships = [out EXCEPT ![p].next = d.first, ![p].prev = -1, ![d.first].prev = p]]

\* The first steps of Receive, and of Load for each ship: the ship's slot, found
\* or made, comes to the front.
Enter(d, m) ==
  IF FindShip(d, m) # {} THEN MoveShipToFront(d, CHOOSE i \in FindShip(d, m) : TRUE)
  ELSE MoveShipToFront(CreateShip(d), d.last)

-----------------------------------------------------------------------------
(* The path of a ship. *)

\* Mutant: any older point continues the path.
AnyNextPathPoint(i, m, c) == i # -1 /\ paths[i].count < c /\ paths[i].mmsi # NoShip

IsNextPathPoint(i, m, c) == i # -1 /\ paths[i].mmsi = m /\ paths[i].count < c

\* getSinglePathJSON goes from the ship's point back through the ring.
Goes(ship, path) ==
  /\ path[1] = ship.path_ptr /\ IsNextPathPoint(path[1], ship.mmsi, ship.count + 1)
  /\ \A i \in 1..Len(path) - 1 :
       /\ path[i + 1] = paths[path[i]].next
       /\ IsNextPathPoint(path[i + 1], ship.mmsi, paths[path[i]].count)

Distance(a, b) == IF a > b THEN a - b ELSE b - a

\* The point the path ends in stands for the ship's new place too: it is the same,
\* or the point before it is near.
Extends(ship, place) ==
  LET i == ship.path_ptr
      n == paths[i].next
  IN /\ IsNextPathPoint(i, ship.mmsi, ship.count)
     /\ \/ paths[i].place = place
        \/ IsNextPathPoint(n, ship.mmsi, paths[i].count) /\ Distance(paths[n].place, place) < Near

\* addToPath: the last point moves with the ship, or the ring gets a new one.
AddToPath(d, place) ==
  LET ship == d.ships[d.first]
  IN IF Extends(ship, place)
     THEN /\ paths' = [paths EXCEPT ![ship.path_ptr].place = place, ![ship.path_ptr].count = ship.count]
          /\ DBIs(d) /\ UNCHANGED path_idx
     ELSE /\ paths' = [paths EXCEPT ![path_idx] =
               [mmsi |-> ship.mmsi, count |-> ship.count, place |-> place, next |-> ship.path_ptr]]
          /\ DBIs([d EXCEPT !.ships[d.first].path_ptr = path_idx])
          /\ path_idx' = (path_idx + 1) % Npaths

-----------------------------------------------------------------------------
Init ==
  /\ first = Empty.first /\ last = Empty.last /\ count = Empty.count /\ ships = Empty.ships
  /\ paths = NoPaths /\ path_idx = 0
  /\ file = <<>> /\ toLoad = 0
  /\ clock = 1 /\ reports = [m \in Ships |-> <<>>]
  /\ messages = 0 /\ restarts = 0

\* Receive and updateShip: the ship comes to the front and counts the message.
Updated(m) ==
  LET d == Enter(DB, m)
      ship == d.ships[d.first]
  IN [d EXCEPT !.ships[d.first] = [ship EXCEPT !.mmsi = m, !.count = @ + 1, !.last_signal = clock]]

\* What its reports are then; a ship that was not listed starts afresh.
Reported(m, place) ==
  LET known == IF FindShip(DB, m) = {} THEN <<>> ELSE reports[m]
  IN reports' = [reports EXCEPT ![m] = Append(known, place)]

\* No other operation has the mutex.
Free == toLoad = 0

Receive == Free /\ messages < MaxMessages /\ messages' = messages + 1

\* A position report of a class A or B ship or an aircraft.
ReceivePosition(m, place) ==
  /\ Receive
  /\ Reported(m, place)
  /\ AddToPath(Updated(m), place)
  /\ UNCHANGED <<file, toLoad, clock, restarts>>

\* Any other message.
ReceiveOther(m) ==
  /\ Receive
  /\ Reported(m, -1)
  /\ DBIs(Updated(m))
  /\ UNCHANGED <<ring, file, toLoad, clock, restarts>>

-----------------------------------------------------------------------------
SavedShip(s) == [ship |-> s, reports |-> reports[s.mmsi]]

\* Mutant: the file has the ship heard last first.
SavedForward == [i \in 1..count |-> SavedShip(ships[Order(DB)[i]])]

\* Save: from the last slot in use back to the first.
Saved == [i \in 1..count |-> SavedShip(ships[Order(DB)[count + 1 - i]])]

Save ==
  /\ Free
  /\ file' = Saved
  /\ UNCHANGED <<list, ring, toLoad, clock, reports, messages, restarts>>

\* One round of Load: the rest of the file is left when its ships are not in the
\* order of time.
LoadShip ==
  LET k == Len(file) - toLoad + 1
      ship == file[k].ship
      d == Enter(DB, ship.mmsi)
  IN /\ ~Free
     /\ IF k > 1 /\ ship.last_signal < file[k - 1].ship.last_signal
        THEN toLoad' = 0 /\ UNCHANGED list
        ELSE /\ toLoad' = toLoad - 1
             /\ DBIs([d EXCEPT !.ships[d.first] = [ship EXCEPT !.next = d.ships[d.first].next,
                                                              !.prev = d.ships[d.first].prev]])
     /\ UNCHANGED <<ring, file, clock, reports, messages, restarts>>

\* The process ends and starts again.  It may end in the middle of Save, which has
\* truncated the file and written the first n ships.
Restart ==
  /\ restarts < MaxRestarts /\ restarts' = restarts + 1
  /\ \/ UNCHANGED file
     \/ Free /\ \E n \in 0..count : file' = SubSeq(Saved, 1, n)
  /\ DBIs(Empty) /\ toLoad' = Len(file')
  /\ reports' = [m \in Ships |-> IF \E i \in 1..Len(file') : file'[i].ship.mmsi = m
       THEN file'[CHOOSE i \in 1..Len(file') : file'[i].ship.mmsi = m].reports ELSE <<>>]
  /\ paths' = NoPaths /\ path_idx' = 0
  /\ UNCHANGED <<clock, messages>>

\* The viewer starts again in the same process, as it does for every run of the
\* engine, or its statistics are reset.  No backup is read: a viewer that has one is
\* started once.
Setup ==
  /\ Free
  /\ DBIs(SetUp(ships))
  /\ UNCHANGED <<ring, file, toLoad, clock, reports, messages, restarts>>

\* Time passes, or the clock is set back.
Clock ==
  /\ clock' \in 1..MaxTime \ {clock}
  /\ UNCHANGED <<list, ring, file, toLoad, reports, messages, restarts>>

Next ==
  \/ \E m \in Ships, place \in Places : ReceivePosition(m, place)
  \/ \E m \in Ships : ReceiveOther(m)
  \/ Save \/ LoadShip \/ Restart \/ Setup \/ Clock

Spec == Init /\ [][Next]_vars

-----------------------------------------------------------------------------
Symmetry == Permutations(Ships)
Times == 1..MaxTime
Ship == [mmsi : Ships \cup {NoShip}, count : Nat, path_ptr : -1..Npaths - 1,
         last_signal : 0..MaxTime, next : -1..Nships - 1, prev : -1..Nships - 1]

\* What the database holds.
TypeOK ==
  /\ {first, last} \subseteq Slots /\ count \in 0..Nships
  /\ ships \in [Slots -> Ship]
  /\ paths \in [0..Npaths - 1 -> [mmsi : Ships \cup {NoShip}, count : Nat,
                                 place : Nat, next : -1..Npaths - 1]]
  /\ path_idx \in 0..Npaths - 1

\* The list goes through every slot once, last is its end, the links back are those
\* forward.
Threads(d, order) ==
  /\ order \in [1..Nships -> Slots] /\ \A i \in Slots : \E k \in 1..Nships : order[k] = i
  /\ order[1] = d.first /\ order[Nships] = d.last
  /\ \A k \in 1..Nships :
       /\ d.ships[order[k]].next = IF k = Nships THEN -1 ELSE order[k + 1]
       /\ d.ships[order[k]].prev = IF k = 1 THEN -1 ELSE order[k - 1]

\* The list threads every slot, and the first count of it, the slots in use, are each
\* of a ship of its own: a slot that moveShipToFront lost could never be used again.
\* The others may still show a ship that setup() forgot.
ListIsWhole ==
  /\ TypeOK
  /\ \E order \in [1..Nships -> Slots] :
       /\ Threads(DB, order)
       /\ \A i \in 1..count : ships[order[i]].mmsi # NoShip
       /\ \A i, k \in 1..count : ships[order[i]].mmsi = ships[order[k]].mmsi => i = k

\* The path of a ship has only places it reported itself, each with the message
\* that brought it, whatever ships and points came and went in between, and after
\* a restart too: reused points and old pointers are told by isNextPathPoint.
PathIsOwn ==
  \A s \in Listed(DB), n \in 1..Npaths : \A path \in [1..n -> 0..Npaths - 1] :
    Goes(ships[s], path) => LET known == reports[ships[s].mmsi]
                                point == paths[path[n]]
                            IN point.count \in 1..Len(known) /\ known[point.count] = point.place

\* The ships of the file that Load brings back, as they are in the list then.
Heard(s) == [mmsi |-> s.mmsi, time |-> s.last_signal]
Loads(f, n) == \A i \in 1..n - 1 : f[i].ship.last_signal <= f[i + 1].ship.last_signal
Loaded(f) ==
  LET n == CHOOSE n \in 0..Len(f) : Loads(f, n) /\ (n = Len(f) \/ ~Loads(f, n + 1))
  IN [i \in 1..n |-> Heard(f[n + 1 - i].ship)]

\* The database implements RecentShips: the list holds the ships heard last, the
\* one heard longest ago makes room for a new one, setup() forgets them, and a restart
\* brings back what the backup has, in the same order.
HeardLast == [i \in 1..count |-> Heard(ships[Order(DB)[i]])]
Kept(f) == [i \in 1..Len(f) |-> Heard(f[Len(f) + 1 - i].ship)]
Recent == INSTANCE RecentShips WITH
  Size <- Nships, now <- clock,
  recent <- IF Free THEN HeardLast ELSE Loaded(file), backup <- Kept(file)
RefinesRecent == Recent!Spec
=============================================================================

----------------------------- MODULE RecentShips ----------------------------
(***************************************************************************)
(* What the ship database of the web viewer promises: the ships heard last *)
(* in the order in which they were heard since the viewer started, and     *)
(* after a restart those of the backup.  ShipDB implements it.             *)
(***************************************************************************)
EXTENDS Integers, Sequences

CONSTANTS Ships, Times, Size

VARIABLES
  now,      \* the clock, which may be set to any time
  recent,   \* ships with the time they were heard, the last one first
  backup    \* the ships of the file, in the same order

\* The n ships of s that were heard first.
Oldest(s, n) == [i \in 1..n |-> s[Len(s) - n + i]]

\* The most of them of which none was heard before the one that follows it.
InOrder(s) == \A i \in 1..Len(s) - 1 : s[i].time >= s[i + 1].time
Restorable(s) ==
  Oldest(s, CHOOSE n \in 0..Len(s) :
    InOrder(Oldest(s, n)) /\ \A k \in 0..Len(s) : InOrder(Oldest(s, k)) => k <= n)

Init == now \in Times /\ recent = <<>> /\ backup = <<>>

SetClock == now' \in Times /\ UNCHANGED <<recent, backup>>

\* The first n ships, with one put before the first k - 1 of them, in place of the k-th.
InFront(r, k, n) == [i \in 1..n |-> IF i = 1 THEN r ELSE IF i <= k THEN recent[i - 1] ELSE recent[i]]

\* A ship is heard again.
HearAgain(m) ==
  /\ UNCHANGED <<now, backup>>
  /\ \E k \in 1..Len(recent) :
       recent[k].mmsi = m /\ recent' = InFront([mmsi |-> m, time |-> now], k, Len(recent))

\* A ship that is not known is heard, and makes the last one go if there are too many.
HearNew(m) ==
  /\ UNCHANGED <<now, backup>>
  /\ \A i \in 1..Len(recent) : recent[i].mmsi # m
  /\ LET n == IF Len(recent) < Size THEN Len(recent) + 1 ELSE Size
     IN recent' = InFront([mmsi |-> m, time |-> now], n, n)

BackUp == UNCHANGED <<now, recent>> /\ backup' = recent

\* The process ends: with a backup that was written in full, in part, or before.
Restart ==
  /\ UNCHANGED now
  /\ backup' \in {backup} \cup {Oldest(recent, n) : n \in 0..Len(recent)}
  /\ recent' = Restorable(backup')

\* The viewer is started again in the same process.
Forget == recent' = <<>> /\ UNCHANGED <<now, backup>>

Next == SetClock \/ Forget \/ (\E m \in Ships : HearAgain(m) \/ HearNew(m)) \/ BackUp \/ Restart

Spec == Init /\ [][Next]_<<now, recent, backup>>
=============================================================================

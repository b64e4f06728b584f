-------------------------- MODULE SampleFifoProofs --------------------------
(***************************************************************************)
(* What the FIFO keeps, for every block size, every number of blocks and   *)
(* every size of the chunks that are read: the block being sent stays what *)
(* it is, the FIFO of a live source implements BlockStream, and a file that*)
(* is done was sent whole.                                                 *)
(*                                                                         *)
(* The invariant says which bytes the ring holds: those accepted and not   *)
(* yet taken, from head on, of which blocks_filled blocks are complete.  A *)
(* file keeps it until Halt(), after which a chunk that waited for space   *)
(* goes over what is there.                                                *)
(***************************************************************************)
EXTENDS SampleFifo, SequenceTheorems, TLAPS

\* Bytes that were sent and are still in the ring, and bytes that left it.
InFlight == IF runner = "pop" /\ nblocks > 0 THEN nblocks * BlockSize ELSE 0
Taken == Len(delivered) - InFlight

\* What the ring holds, and where its i-th byte is.
Held == Len(accepted) - Taken
Place(i) == IF head + i - 1 < Size THEN head + i - 1 ELSE head + i - 1 - Size

\* Until Halt() somebody may look at the ring, and after it who is about to send.
Sending == runner \in {"front", "count", "send", "pop"}
Looked == blocks_filled # -1 \/ Sending

Aligned == \E q \in 0 .. NBlocks - 1 : head = q * BlockSize

Counted ==
  blocks_filled # -1 =>
    /\ blocks_filled * BlockSize <= Held
    /\ tail = IF head + Held < Size THEN head + Held ELSE head + Held - Size
    /\ tail % BlockSize = Held - blocks_filled * BlockSize

Window ==
  Looked =>
    /\ 0 <= Taken /\ 0 <= Held /\ Held <= Size
    /\ \A i \in 1 .. Held : data[Place(i)] = accepted[Taken + i]

Prefix ==
  /\ Len(delivered) <= Len(accepted)
  /\ \A i \in 1 .. Len(delivered) : delivered[i] = accepted[i] \/ Overrun(i)

\* Front reads blocks_filled again only if there are two blocks up to the wrap.
Due ==
  /\ runner \in {"front", "count"} => BlockSize <= Held /\ blocks_filled # 0
  /\ runner = "count" /\ blocks_filled # -1 => wholeRun /\ head + 2 * BlockSize <= Size
  /\ runner \in {"send", "pop"} =>
       /\ nblocks * BlockSize <= Held
       /\ \/ head + nblocks * BlockSize <= Size
          \/ wholeRun /\ NBlocks > 2
       /\ blocks_filled # -1 => 1 <= nblocks /\ nblocks <= blocks_filled

Threads ==
  /\ ~IsFile => reader \in {"read", "push", "ended"}
  /\ reader \in {"push", "parked"} => 1 <= chunk /\ chunk <= produced
  /\ stopper # "idle" => ~streaming
  /\ blocks_filled = -1 <=> Halted

Ring == Aligned /\ Counted /\ Window /\ Prefix /\ Due
IInv == TypeOK /\ Threads /\ Ring

Orderly == ~(IsFile /\ Halted)

-----------------------------------------------------------------------------
(* Arithmetic of blocks and of the ring *)

\* What was added can be taken away again.
LEMMA TakesBack ==
  ASSUME NEW a \in Nat, NEW b \in Nat, NEW c, c = a + b
  PROVE  c - b = a
OBVIOUS

\* A product with a count of bytes grows with the other factor.
LEMMA Grows ==
  ASSUME NEW a \in Int, NEW b \in Int, NEW n \in Nat, a <= b
  PROVE  a * n <= b * n
BY SMT

\* A product spreads over a sum and a difference.
LEMMA Spreads ==
  ASSUME NEW a \in Int, NEW b \in Int, NEW n \in Int
  PROVE  (a + b) * n = a * n + b * n /\ (a - b) * n = a * n - b * n
BY SMT

\* What division with remainder returns, and that the two give the number back.
LEMMA DivMod ==
  ASSUME NEW x \in Int, NEW n \in Nat \ {0}
  PROVE  /\ x \div n \in Int /\ x % n \in 0 .. n - 1
         /\ x = (x \div n) * n + (x % n)
BY SMT

\* Quotient and remainder are what the division by a block gives.
LEMMA Unique ==
  ASSUME NEW n \in Nat \ {0}, NEW q \in Int, NEW r \in 0 .. n - 1
  PROVE  (q * n + r) % n = r /\ (q * n + r) \div n = q
BY SMT

\* A place up to one round before or behind the ring.
LEMMA AroundTheRing ==
  ASSUME NEW n \in Nat \ {0}, NEW x \in Int
  PROVE  /\ x \in 0 .. n - 1 => x % n = x
         /\ x \in n .. 2 * n - 1 => x % n = x - n
         /\ x \in -n .. -1 => x % n = x + n
BY SMT

\* The place c behind t in a ring of n places, as Push and Pop compute it.
LEMMA InTheRing ==
  ASSUME NEW n \in Nat \ {0}, NEW t \in 0 .. n - 1, NEW c \in 0 .. n
  PROVE  (t + c) % n = IF t + c < n THEN t + c ELSE t + c - n
<1>1. t + c \in Int /\ n \in Int
  OBVIOUS
<1> DEFINE x == t + c
<1>2. /\ x \in 0 .. n - 1 => x % n = x
      /\ x \in n .. 2 * n - 1 => x % n = x - n
  BY <1>1, AroundTheRing, Zenon
<1>3. x < n => x \in 0 .. n - 1
  OBVIOUS
<1>4. ~(x < n) => x \in n .. 2 * n - 1
  OBVIOUS
<1>5. QED
  BY <1>2, <1>3, <1>4

\* The writer's place after c more bytes: the ring then holds held + c from h on.
LEMMA Advances ==
  ASSUME NEW n \in Nat \ {0}, NEW h \in 0 .. n - 1, NEW held \in 0 .. n - 1,
         NEW c \in 1 .. n, held + c <= n,
         NEW t, t = IF h + held < n THEN h + held ELSE h + held - n,
         NEW u, u = IF t + c < n THEN t + c ELSE t + c - n
  PROVE  u = IF h + (held + c) < n THEN h + (held + c) ELSE h + (held + c) - n
OBVIOUS

\* How far behind the writer's place t, counted around the ring, the place of the
\* i-th byte behind h is.
LEMMA Behind ==
  ASSUME NEW n \in Nat \ {0}, NEW h \in 0 .. n - 1, NEW held \in 0 .. n - 1,
         NEW c \in 1 .. n, held + c <= n, NEW i \in 1 .. held + c,
         NEW t, t = IF h + held < n THEN h + held ELSE h + held - n,
         NEW j, j = IF h + i - 1 < n THEN h + i - 1 ELSE h + i - 1 - n
  PROVE  (j - t) % n = IF i <= held THEN i - 1 - held + n ELSE i - 1 - held
<1>1. t \in 0 .. n - 1 /\ j \in 0 .. n - 1
  OBVIOUS
<1> DEFINE x == j - t
<1>2. x \in Int
  BY <1>1
<1>3. /\ x \in 0 .. n - 1 => x % n = x
      /\ x \in -n .. -1 => x % n = x + n
  BY <1>2, AroundTheRing, Zenon
<1>4. CASE i <= held
  <2>1. \/ x \in -n .. -1 /\ x = i - 1 - held
        \/ x \in 0 .. n - 1 /\ x = i - 1 - held + n
    BY <1>1, <1>4
  <2>2. QED
    BY <1>3, <1>4, <2>1
<1>5. CASE ~(i <= held)
  <2>1. \/ x \in 0 .. n - 1 /\ x = i - 1 - held
        \/ x \in -n .. -1 /\ x = i - 1 - held - n
    BY <1>1, <1>5
  <2>2. QED
    BY <1>3, <1>5, <2>1
<1>6. QED
  BY <1>4, <1>5

\* The reader's place after c bytes: the writer's place
\* and those of the bytes left are the same ones, counted from there.
LEMMA Leaves ==
  ASSUME NEW n \in Nat \ {0}, NEW h \in 0 .. n - 1, NEW held \in 0 .. n,
         NEW c \in 1 .. held,
         NEW g, g = IF h + c < n THEN h + c ELSE h + c - n
  PROVE  /\ (IF h + held < n THEN h + held ELSE h + held - n)
              = IF g + (held - c) < n THEN g + (held - c) ELSE g + (held - c) - n
         /\ \A i \in 1 .. held - c :
              (IF g + i - 1 < n THEN g + i - 1 ELSE g + i - 1 - n)
                = IF h + (c + i) - 1 < n THEN h + (c + i) - 1 ELSE h + (c + i) - 1 - n
OBVIOUS

\* A block's beginning moved over whole blocks and past the end is a block's beginning.
LEMMA Wraps ==
  ASSUME NEW b \in Nat \ {0}, NEW n \in Nat \ {0}, NEW k \in Nat, k < 2 * n, n * b <= k * b
  PROVE  k - n \in 0 .. n - 1 /\ k * b - n * b = (k - n) * b
<1>1. (k - n) * b = k * b - n * b
  BY Spreads
<1>2. n <= k
  <2>1. CASE k + 1 <= n
    <3>1. (k + 1) * b <= n * b
      BY <2>1, Grows
    <3>2. (k + 1) * b = k * b + 1 * b
      BY Spreads
    <3>3. QED
      BY <3>1, <3>2
  <2>2. QED
    BY <2>1
<1>3. QED
  BY <1>1, <1>2

\* The ring has a place, and room for a block.
LEMMA SizeIsPositive ==
  /\ Size \in Nat \ {0} /\ BlockSize \in Nat \ {0} /\ NBlocks \in Nat \ {0}
  /\ BlockSize <= Size
<1>1. BlockSize \in Nat \ {0} /\ NBlocks \in Nat \ {0}
  BY SizesArePositive
<1>2. 1 * BlockSize <= NBlocks * BlockSize
  BY <1>1, Grows
<1>3. QED
  BY <1>1, <1>2, SMT DEF Size

\* From a block's beginning there are whole blocks up to the wrap.
LEMMA ToTheWrap ==
  ASSUME Aligned
  PROVE  /\ (Size - head) \div BlockSize \in 1 .. NBlocks
         /\ head + ((Size - head) \div BlockSize) * BlockSize = Size
         /\ head \in 0 .. Size - 1
<1> USE SizeIsPositive
<1>1. PICK q \in 0 .. NBlocks - 1 : head = q * BlockSize
  BY DEF Aligned
<1>2. Size - head = (NBlocks - q) * BlockSize + 0
  BY <1>1, Spreads DEF Size
<1>3. (Size - head) \div BlockSize = NBlocks - q
  <2>1. NBlocks - q \in Int /\ 0 \in 0 .. BlockSize - 1
    OBVIOUS
  <2>2. ((NBlocks - q) * BlockSize + 0) \div BlockSize = NBlocks - q
    BY <2>1, Unique
  <2>3. QED
    BY <1>2, <2>2
<1>4. 1 * BlockSize <= (NBlocks - q) * BlockSize /\ 0 * BlockSize <= q * BlockSize
  BY Grows
<1>5. QED
  BY <1>1, <1>2, <1>3, <1>4, SMT

-----------------------------------------------------------------------------
(* The initial state, and steps that leave the ring as it is *)

\* The counts of bytes are integers, whatever is in flight.
LEMMA HeldIsInt ==
  ASSUME TypeOK
  PROVE  /\ InFlight \in Int /\ Taken \in Int /\ Held \in Int
         /\ Len(accepted) \in Nat /\ Len(delivered) \in Nat
BY SizeIsPositive DEF TypeOK, InFlight, Taken, Held

\* The invariant holds at first: an empty ring from which nothing was taken.
LEMMA Initial ==
  ASSUME Init PROVE IInv
<1> USE SizeIsPositive DEF Init
<1>1. TypeOK
  <2>1. data \in [0 .. Size - 1 -> 0 .. MaxBytes]
    BY SizesArePositive
  <2>2. accepted \in Seq(1 .. MaxBytes) /\ delivered \in Seq(-1 .. MaxBytes)
    OBVIOUS
  <2>3. wholeRun \in BOOLEAN
    OBVIOUS
  <2>4. QED
    BY <2>1, <2>2, <2>3, SizesArePositive DEF TypeOK
<1>2. Threads
  BY DEF Threads, Halted
<1>3. Taken = 0 /\ Held = 0
  BY DEF Taken, Held, InFlight
<1>4. Aligned
  BY DEF Aligned
<1>5. Counted
  <2>1. (0 * BlockSize + 0) % BlockSize = 0
    BY Unique
  <2>2. QED
    BY <1>3, <2>1 DEF Counted
<1>6. Window /\ Prefix /\ Due
  BY <1>3 DEF Window, Prefix, Due
<1>7. QED
  BY <1>1, <1>2, <1>4, <1>5, <1>6 DEF IInv, Ring

\* What is in the ring does not depend on who looks at it.
LEMMA RingFrame ==
  ASSUME Ring, UNCHANGED <<fifo, history>>, InFlight' = InFlight, Looked' => Looked, Due'
  PROVE  Ring'
<1>1. UNCHANGED <<data, head, tail, blocks_filled, accepted, delivered>>
  BY DEF fifo, history
<1>2. Taken' = Taken /\ Held' = Held
  BY <1>1 DEF Taken, Held
<1>3. Aligned' /\ Counted' /\ Prefix'
  BY <1>1, <1>2 DEF Ring, Aligned, Counted, Prefix, Overrun
<1>4. Window'
  BY <1>1, <1>2 DEF Ring, Window, Place
<1>5. QED
  BY <1>3, <1>4 DEF Ring

\* Whoever waits or rests has nothing in flight.
LEMMA AtRest ==
  ASSUME Ring, UNCHANGED <<fifo, history>>,
         runner # "pop", runner' \notin {"front", "count", "send", "pop"}
  PROVE  Ring'
<1>1. InFlight' = InFlight
  BY DEF InFlight
<1>2. Looked' => Looked
  BY DEF Looked, Sending, fifo
<1>3. Due'
  BY DEF Due
<1>4. QED
  BY <1>1, <1>2, <1>3, RingFrame

\* The reader and Stop() leave the run thread alone.
LEMMA OthersFrame ==
  ASSUME Ring, UNCHANGED <<fifo, history, runner, nblocks, wholeRun>>
  PROVE  Ring'
<1>1. InFlight' = InFlight
  BY DEF InFlight
<1>2. Looked' => Looked
  BY DEF Looked, Sending, fifo
<1>3. Held' = Held
  BY <1>1 DEF Held, Taken, history
<1>4. Due'
  BY <1>3 DEF Ring, Due, fifo
<1>5. QED
  BY <1>1, <1>2, <1>4, RingFrame

-----------------------------------------------------------------------------
(* Push *)

\* HasSpace leaves room for the chunk, and completes no more blocks than there are.
LEMMA Fits ==
  ASSUME IInv, blocks_filled # -1, NEW sz \in Nat \ {0}, HasSpace(sz)
  PROVE  /\ Held + sz <= Size
         /\ Ready(sz) \in Nat /\ blocks_filled + Ready(sz) <= NBlocks
         /\ Held + sz = (blocks_filled + Ready(sz)) * BlockSize
                          + (((tail % BlockSize) + sz) % BlockSize)
<1> USE SizeIsPositive
<1> DEFINE r == tail % BlockSize
<1>1. blocks_filled \in 0 .. NBlocks /\ tail \in Nat /\ Held \in Int
  BY HeldIsInt DEF IInv, TypeOK
<1>2. r \in 0 .. BlockSize - 1 /\ Held = blocks_filled * BlockSize + r
  <2>1. r \in 0 .. BlockSize - 1
    <3>1. tail \in Int /\ BlockSize \in Nat \ {0}
      BY <1>1
    <3>2. QED
      BY <3>1, DivMod, Zenon
  <2>2. r = Held - blocks_filled * BlockSize
    BY DEF IInv, Ring, Counted
  <2>3. QED
    BY <1>1, <2>1, <2>2
<1>3. Held + sz <= Size
  <2> DEFINE y == r + sz - 1
             d == y \div BlockSize
  <2>1. y \in Int /\ d \in Int /\ y = d * BlockSize + (y % BlockSize) /\ y % BlockSize \in 0 .. BlockSize - 1
    <3>1. y \in Int
      BY <1>2
    <3>2. QED
      BY <3>1, DivMod, Zenon
  <2>2. r + sz <= (d + 1) * BlockSize
    BY <1>2, <2>1, Spreads, SMT
  <2>3. blocks_filled + (d + 1) <= NBlocks
    BY DEF HasSpace, Needed
  <2>4. (blocks_filled + (d + 1)) * BlockSize <= Size
    BY <1>1, <2>1, <2>3, Grows DEF Size
  <2>5. (blocks_filled + (d + 1)) * BlockSize = blocks_filled * BlockSize + (d + 1) * BlockSize
    BY <1>1, <2>1, Spreads
  <2> HIDE DEF y, d
  <2>6. QED
    BY <1>1, <1>2, <2>1, <2>2, <2>4, <2>5, SMT
<1> DEFINE x == r + sz
<1>4. x \in Int /\ Ready(sz) \in Int /\ x % BlockSize \in 0 .. BlockSize - 1
      /\ x = Ready(sz) * BlockSize + (x % BlockSize)
  <2>1. x \in Int
    BY <1>2
  <2>2. QED
    BY <2>1, DivMod, Zenon DEF Ready
<1>5. Ready(sz) \in Nat
  <2>1. CASE Ready(sz) <= -1
    <3>1. Ready(sz) * BlockSize <= (-1) * BlockSize
      BY <1>4, <2>1, Grows
    <3>2. QED
      BY <1>2, <1>4, <3>1, SMT
  <2>2. QED
    BY <1>4, <2>1
<1>6. (blocks_filled + Ready(sz)) * BlockSize = blocks_filled * BlockSize + Ready(sz) * BlockSize
  BY <1>1, <1>4, Spreads
<1>7. Held + sz = (blocks_filled + Ready(sz)) * BlockSize + (x % BlockSize)
  BY <1>1, <1>2, <1>4, <1>6, SMTT(60)
<1>8. blocks_filled + Ready(sz) <= NBlocks
  <2>1. CASE NBlocks + 1 <= blocks_filled + Ready(sz)
    <3>1. (NBlocks + 1) * BlockSize <= (blocks_filled + Ready(sz)) * BlockSize
      BY <1>1, <1>4, <2>1, Grows
    <3>2. (NBlocks + 1) * BlockSize = Size + BlockSize
      BY Spreads DEF Size
    <3>3. QED
      BY <1>1, <1>3, <1>4, <1>7, <3>1, <3>2, SMT
  <2>2. QED
    BY <1>1, <1>4, <2>1
<1>9. QED
  BY <1>3, <1>5, <1>7, <1>8

\* The chunk goes behind what the ring holds and over nothing of it.
LEMMA CopyKeepsRing ==
  ASSUME IInv, blocks_filled # -1, 1 <= chunk, HasSpace(chunk), Copy(chunk),
         UNCHANGED <<runner, nblocks, wholeRun, delivered>>
  PROVE  Ring'
<1> USE SizeIsPositive
<1> DEFINE first == produced - chunk
           new == [i \in 1 .. chunk |-> first + i]
<1>1. /\ blocks_filled \in 0 .. NBlocks /\ head \in 0 .. Size - 1 /\ tail \in 0 .. Size - 1
      /\ chunk \in Nat \ {0} /\ first \in Int
      /\ accepted \in Seq(1 .. MaxBytes) /\ delivered \in Seq(-1 .. MaxBytes)
  BY DEF IInv, TypeOK
<1>2. Aligned /\ Counted /\ Window /\ Prefix /\ Due
  BY DEF IInv, Ring
<1>3. /\ Held + chunk <= Size /\ Ready(chunk) \in Nat /\ blocks_filled + Ready(chunk) <= NBlocks
      /\ Held + chunk = (blocks_filled + Ready(chunk)) * BlockSize
                          + (((tail % BlockSize) + chunk) % BlockSize)
  BY <1>1, Fits
<1>4. /\ Held \in Int /\ Taken \in Int /\ Len(accepted) \in Nat
      /\ Held = Len(accepted) - Taken
  BY HeldIsInt DEF IInv, Held
<1>5. /\ new \in Seq(Int) /\ Len(new) = chunk
      /\ accepted' = accepted \o new
  BY <1>1, SMTT(60) DEF Copy
<1>6. /\ Len(accepted') = Len(accepted) + chunk
      /\ \A i \in 1 .. Len(accepted) : accepted'[i] = accepted[i]
      /\ \A i \in 1 .. chunk : accepted'[Len(accepted) + i] = first + i
  BY <1>1, <1>4, <1>5
<1>7. InFlight' = InFlight /\ Taken' = Taken /\ Held' = Held + chunk
  <2>1. InFlight' = InFlight
    BY DEF InFlight
  <2>2. Taken' = Taken
    BY <2>1 DEF Taken
  <2>3. QED
    BY <1>1, <1>4, <1>6, <2>1, <2>2 DEF Held
<1>8. head' = head /\ blocks_filled' = blocks_filled + Ready(chunk) /\ tail' = (tail + chunk) % Size
  BY DEF Copy
<1> HIDE DEF first, new
<1>9. 0 <= Taken /\ 0 <= Held
  BY <1>2 DEF Window, Looked
<1>10. Aligned'
  BY <1>2, <1>8 DEF Aligned
<1>11. Prefix'
  BY <1>1, <1>2, <1>6, <1>4 DEF Prefix, Overrun
<1>12. Due'
  <2>1. nblocks \in Int /\ nblocks * BlockSize \in Int
    BY DEF IInv, TypeOK
  <2>2. UNCHANGED <<head, runner, nblocks, wholeRun>>
    BY <1>8
  <2> DEFINE ready == Ready(chunk)
  <2>3. ready \in Nat /\ blocks_filled' = blocks_filled + ready
    BY <1>3, <1>8
  <2> HIDE DEF ready
  <2>4. runner' \in {"front", "count"} => BlockSize <= Held' /\ blocks_filled' # 0
    BY <1>1, <1>2, <1>4, <1>7, <2>2, <2>3 DEF Due
  <2>5. runner' = "count" => wholeRun' /\ head' + 2 * BlockSize <= Size
    BY <1>1, <1>2, <2>2 DEF Due
  <2>6. runner' \in {"send", "pop"} =>
          /\ nblocks' * BlockSize <= Held'
          /\ \/ head' + nblocks' * BlockSize <= Size
             \/ wholeRun' /\ NBlocks > 2
          /\ 1 <= nblocks' /\ nblocks' <= blocks_filled'
    BY <1>1, <1>2, <1>4, <1>7, <2>1, <2>2, <2>3 DEF Due
  <2>7. QED
    BY <2>4, <2>5, <2>6 DEF Due
<1>12a. tail' = IF tail + chunk < Size THEN tail + chunk ELSE tail + chunk - Size
  <2>1. chunk \in 0 .. Size
    BY <1>1, <1>3, <1>4, <1>9
  <2>2. (tail + chunk) % Size = IF tail + chunk < Size THEN tail + chunk ELSE tail + chunk - Size
    BY <1>1, <2>1, InTheRing, Zenon
  <2>3. QED
    BY <1>8, <2>2
<1>12b. chunk \in 1 .. Size /\ Held \in 0 .. Size - 1 /\ Held + chunk <= Size
  BY <1>1, <1>3, <1>4, <1>9, SMTT(60)
<1>12c. tail = IF head + Held < Size THEN head + Held ELSE head + Held - Size
  BY <1>2 DEF Counted
<1>13. tail' = IF head' + Held' < Size THEN head' + Held' ELSE head' + Held' - Size
  <2>1. tail' = IF head + (Held + chunk) < Size THEN head + (Held + chunk)
                ELSE head + (Held + chunk) - Size
    BY <1>1, <1>12a, <1>12b, <1>12c, Advances
  <2>2. QED
    BY <1>7, <1>8, <2>1
<1>14. tail' % BlockSize = ((tail % BlockSize) + chunk) % BlockSize
  <2> DEFINE r == tail % BlockSize
             k == tail \div BlockSize
             rr == (r + chunk) % BlockSize
             n == Ready(chunk)
  <2>1. k \in Int /\ r \in 0 .. BlockSize - 1 /\ tail = k * BlockSize + r
    <3>1. tail \in Int
      BY <1>1
    <3>2. QED
      BY <3>1, DivMod, Zenon
  <2>2. rr \in 0 .. BlockSize - 1 /\ n \in Int /\ r + chunk = n * BlockSize + rr
    <3>1. r + chunk \in Int
      BY <1>1, <2>1
    <3>2. QED
      BY <3>1, DivMod, Zenon DEF Ready
  <2>3. (k + n) * BlockSize = k * BlockSize + n * BlockSize
        /\ (k + n - NBlocks) * BlockSize = k * BlockSize + n * BlockSize - NBlocks * BlockSize
    BY <2>1, <2>2, Spreads, SMTT(60)
  <2>5. tail' = tail + chunk \/ tail' = tail + chunk - Size
    BY <1>12a
  <2> HIDE DEF r, k, rr, n
  <2>6. tail' = (k + n) * BlockSize + rr \/ tail' = (k + n - NBlocks) * BlockSize + rr
    BY <1>1, <2>1, <2>2, <2>3, <2>5, SMTT(60) DEF Size
  <2>7. k + n \in Int /\ k + n - NBlocks \in Int
    BY <2>1, <2>2
  <2>8. tail' % BlockSize = rr
    BY <2>2, <2>6, <2>7, Unique, ZenonT(60)
  <2>9. QED
    BY <2>8 DEF rr, r
<1>15. Counted'
  <2> DEFINE rr == ((tail % BlockSize) + chunk) % BlockSize
             b == blocks_filled + Ready(chunk)
  <2>1. rr \in 0 .. BlockSize - 1
    <3>1. tail \in Int
      BY <1>1
    <3>2. tail % BlockSize \in 0 .. BlockSize - 1
      BY <3>1, DivMod, Zenon
    <3>3. (tail % BlockSize) + chunk \in Int
      BY <1>1, <3>2
    <3>4. QED
      BY <3>3, DivMod, Zenon
  <2>2. Held' = b * BlockSize + rr /\ blocks_filled' = b /\ tail' % BlockSize = rr /\ b \in Int
    BY <1>1, <1>3, <1>7, <1>8, <1>14, SMTT(60)
  <2> HIDE DEF rr, b
  <2>3. b * BlockSize \in Int
    BY <2>2
  <2>4. b * BlockSize <= Held' /\ rr = Held' - b * BlockSize
    BY <2>1, <2>2, <2>3
  <2>5. QED
    BY <1>13, <2>2, <2>4 DEF Counted
<1>16. ASSUME NEW i \in 1 .. Held' PROVE data'[Place(i)'] = accepted'[Taken' + i]
  <2> DEFINE j == Place(i)
             k == (j - tail) % Size
  <2>1. Place(i)' = j /\ j \in 0 .. Size - 1 /\ i \in 1 .. Held + chunk
    BY <1>1, <1>3, <1>4, <1>7, <1>8, SMTT(60) DEF Place
  <2>2. data'[j] = IF k < chunk THEN first + k + 1 ELSE data[j]
    BY <2>1 DEF Copy, first
  <2>3. j = IF head + i - 1 < Size THEN head + i - 1 ELSE head + i - 1 - Size
    BY DEF Place
  <2> HIDE DEF j
  <2>4. k = IF i <= Held THEN i - 1 - Held + Size ELSE i - 1 - Held
    BY <1>1, <1>12b, <1>12c, <2>1, <2>3, Behind, SMTT(60)
  <2> HIDE DEF k
  <2>5. CASE i <= Held
    <3>1. ~(k < chunk)
      BY <1>12b, <2>1, <2>4, <2>5
    <3>2. data'[j] = data[j] /\ data[j] = accepted[Taken + i]
      BY <1>2, <1>4, <2>1, <2>2, <2>5, <3>1 DEF Window, Looked, j
    <3>3. Taken + i \in 1 .. Len(accepted)
      BY <1>4, <1>9, <2>1, <2>5
    <3>4. QED
      BY <1>6, <1>7, <2>1, <3>2, <3>3
  <2>6. CASE Held < i
    <3>1. k = i - 1 - Held /\ k < chunk
      BY <1>12b, <2>1, <2>4, <2>6
    <3>2. data'[j] = first + (i - Held)
      BY <1>1, <1>4, <2>1, <2>2, <3>1
    <3>3. i - Held \in 1 .. chunk /\ Taken + i = Len(accepted) + (i - Held)
      BY <1>1, <1>4, <2>1, <2>6
    <3>4. QED
      BY <1>6, <1>7, <2>1, <3>2, <3>3, SMTT(60)
  <2>7. QED
    BY <1>12b, <2>1, <2>5, <2>6
<1>17. Window'
  <2>1. 0 <= Taken' /\ 0 <= Held' /\ Held' <= Size
    BY <1>7, <1>9, <1>12b
  <2>2. QED
    BY <1>16, <2>1 DEF Window
<1>18. QED
  BY <1>10, <1>11, <1>12, <1>15, <1>17 DEF Ring
-----------------------------------------------------------------------------
(* The run thread *)

\* Wait() that finds a block.
LEMMA ToFront ==
  ASSUME IInv, UNCHANGED <<fifo, history>>, runner # "pop", runner' = "front",
         blocks_filled > 0
  PROVE  Ring'
<1> USE SizeIsPositive
<1>1. blocks_filled \in 1 .. NBlocks /\ Held \in Int
  BY HeldIsInt DEF IInv, TypeOK
<1>2. InFlight' = InFlight
  BY DEF InFlight
<1>3. Looked' => Looked
  BY <1>1 DEF Looked
<1>4. BlockSize <= Held
  <2>1. 1 * BlockSize <= blocks_filled * BlockSize
    BY <1>1, Grows
  <2>2. blocks_filled * BlockSize <= Held
    BY <1>1 DEF IInv, Ring, Counted
  <2>3. QED
    BY <1>1, <2>1, <2>2
<1>5. Held' = Held
  BY <1>2 DEF Held, Taken, history
<1>6. Due'
  BY <1>1, <1>4, <1>5 DEF Due, fifo
<1>7. QED
  BY <1>2, <1>3, <1>6, RingFrame DEF IInv

\* Front asks for blocks up to the wrap, one or all, or counts once more.
LEMMA FrontKeepsRing ==
  ASSUME IInv, Front PROVE Ring'
<1> USE SizeIsPositive
<1> DEFINE w == (Size - head) \div BlockSize
<1>1. /\ blocks_filled \in -1 .. NBlocks /\ Held \in Int
      /\ head \in 0 .. Size - 1 /\ wholeRun \in BOOLEAN
  BY HeldIsInt DEF IInv, TypeOK
<1>2. w \in 1 .. NBlocks /\ head + w * BlockSize = Size
  BY ToTheWrap DEF IInv, Ring
<1>3. /\ BlockSize <= Held /\ blocks_filled # 0
      /\ blocks_filled # -1 => blocks_filled * BlockSize <= Held
  BY DEF IInv, Ring, Due, Counted, Front
<1>4. /\ runner = "front" /\ UNCHANGED <<fifo, history, wholeRun>>
      /\ \/ /\ runner' = "count" /\ UNCHANGED nblocks
            /\ wholeRun /\ blocks_filled < w
         \/ /\ runner' = "send" /\ nblocks' = IF wholeRun THEN w ELSE 1
            /\ ~(wholeRun /\ blocks_filled < w)
  BY DEF Front, history, device
<1> HIDE DEF w
<1>5. InFlight' = InFlight /\ (Looked' => Looked)
  BY <1>4 DEF InFlight, Looked, Sending
<1>6. Held' = Held
  BY <1>4, <1>5 DEF Held, Taken, history
<1>7. CASE runner' = "count"
  <2>1. blocks_filled # -1 => 2 <= w
    BY <1>1, <1>2, <1>3, <1>4, <1>7
  <2>2. 2 <= w => 2 * BlockSize <= w * BlockSize
    BY <1>2, Grows
  <2>3. blocks_filled # -1 => head + 2 * BlockSize <= Size
    BY <1>1, <1>2, <2>1, <2>2
  <2>4. Due'
    BY <1>3, <1>4, <1>6, <1>7, <2>3 DEF Due, fifo
  <2>5. QED
    BY <1>4, <1>5, <2>4, RingFrame DEF IInv
<1>8. CASE runner' = "send"
  <2>1. nblocks' * BlockSize <= Held
    <3>1. CASE nblocks' = 1
      BY <1>3, <3>1
    <3>2. CASE wholeRun /\ nblocks' = w
      <4>1. w * BlockSize <= blocks_filled * BlockSize /\ blocks_filled # -1
        BY <1>1, <1>2, <1>4, <1>8, <3>2, Grows
      <4>2. blocks_filled * BlockSize \in Int /\ w * BlockSize \in Int
        BY <1>1, <1>2
      <4>3. QED
        BY <1>1, <1>3, <3>2, <4>1, <4>2
    <3>3. QED
      BY <1>4, <1>8, <3>1, <3>2
  <2>2. head + nblocks' * BlockSize <= Size
    <3>1. 1 * BlockSize <= w * BlockSize
      BY <1>2, Grows
    <3>2. QED
      BY <1>1, <1>2, <1>4, <1>8, <3>1
  <2>3. blocks_filled # -1 => 1 <= nblocks' /\ nblocks' <= blocks_filled
    BY <1>1, <1>2, <1>3, <1>4, <1>8
  <2>4. Due'
    BY <1>4, <1>6, <1>8, <2>1, <2>2, <2>3 DEF Due, fifo
  <2>5. QED
    BY <1>4, <1>5, <2>4, RingFrame DEF IInv
<1>9. QED
  BY <1>4, <1>7, <1>8

\* The second count is of complete blocks, too, but may reach past the wrap: then
\* one block lies before head and two or more behind it.
LEMMA CountKeepsRing ==
  ASSUME IInv, Count PROVE Ring'
<1> USE SizeIsPositive
<1>1. /\ blocks_filled \in -1 .. NBlocks /\ Held \in Int
      /\ head \in 0 .. Size - 1 /\ wholeRun \in BOOLEAN
  BY HeldIsInt DEF IInv, TypeOK
<1>2. /\ runner = "count" /\ runner' = "send" /\ nblocks' = blocks_filled
      /\ UNCHANGED <<fifo, history, wholeRun>>
  BY DEF Count, history, device
<1>3. /\ BlockSize <= Held /\ blocks_filled # 0
      /\ blocks_filled # -1 => /\ wholeRun /\ head + 2 * BlockSize <= Size
                               /\ blocks_filled * BlockSize <= Held
  BY <1>2 DEF IInv, Ring, Due, Counted
<1>4. blocks_filled * BlockSize <= Held /\ (blocks_filled = -1 => head + blocks_filled * BlockSize <= Size)
  <2>1. blocks_filled = -1 => blocks_filled * BlockSize <= 0
    OBVIOUS
  <2>2. blocks_filled * BlockSize \in Int
    BY <1>1
  <2>3. QED
    BY <1>1, <1>3, <2>1, <2>2
<1>5. ASSUME blocks_filled # -1, ~(NBlocks > 2) PROVE head + blocks_filled * BlockSize <= Size
  <2>1. 2 * BlockSize <= NBlocks * BlockSize /\ NBlocks * BlockSize <= 2 * BlockSize
    <3>1. NBlocks <= 2
      BY <1>5
    <3>2. NBlocks * BlockSize <= 2 * BlockSize
      BY <3>1, Grows
    <3>3. QED
      BY <1>1, <1>3, <1>5, <3>2 DEF Size
  <2>2. head = 0
    BY <1>1, <1>3, <1>5, <2>1 DEF Size
  <2>3. blocks_filled * BlockSize <= NBlocks * BlockSize
    BY <1>1, Grows
  <2>4. QED
    BY <1>1, <2>2, <2>3 DEF Size
<1>6. InFlight' = InFlight /\ (Looked' => Looked)
  BY <1>2 DEF InFlight, Looked, Sending
<1>7. Held' = Held
  BY <1>2, <1>6 DEF Held, Taken, history
<1>8. Due'
  BY <1>1, <1>2, <1>3, <1>4, <1>5, <1>7 DEF Due, fifo
<1>9. QED
  BY <1>2, <1>6, <1>8, RingFrame DEF IInv

\* What Send is given: the bytes that follow those delivered before, as far as the ring
\* goes.
LEMMA SendsNext ==
  ASSUME IInv, runner = "send"
  PROVE  /\ Taken = Len(delivered) /\ 0 <= Held
         /\ Len(delivered) + nblocks * BlockSize <= Len(accepted)
         /\ head + nblocks * BlockSize > Size => wholeRun /\ NBlocks > 2
         /\ \A i \in 1 .. nblocks * BlockSize :
              /\ Len(delivered) + i <= Len(accepted)
              /\ head + i - 1 < Size =>
                   /\ head + i - 1 \in 0 .. Size - 1
                   /\ data[head + i - 1] = accepted[Len(delivered) + i]
<1> USE SizeIsPositive
<1>1. /\ nblocks \in Int /\ nblocks * BlockSize \in Int /\ head \in 0 .. Size - 1
      /\ Len(accepted) \in Nat /\ Len(delivered) \in Nat /\ Held \in Int
  BY HeldIsInt DEF IInv, TypeOK
<1>2. Taken = Len(delivered) /\ Held = Len(accepted) - Len(delivered)
  BY <1>1 DEF Held, Taken, InFlight
<1>3. /\ nblocks * BlockSize <= Held
      /\ head + nblocks * BlockSize > Size => wholeRun /\ NBlocks > 2
  BY <1>1 DEF IInv, Ring, Due
<1>4. 0 <= Held /\ \A i \in 1 .. Held : data[Place(i)] = accepted[Taken + i]
  BY DEF IInv, Ring, Window, Looked, Sending
<1>5. Len(delivered) + nblocks * BlockSize <= Len(accepted)
  BY <1>1, <1>2, <1>3
<1> DEFINE n == nblocks * BlockSize
<1> HIDE DEF n
<1>6. ASSUME NEW i \in 1 .. n
      PROVE  /\ Len(delivered) + i <= Len(accepted)
             /\ head + i - 1 < Size =>
                  /\ head + i - 1 \in 0 .. Size - 1
                  /\ data[head + i - 1] = accepted[Len(delivered) + i]
  <2>1. n \in Int /\ n <= Held
    BY <1>1, <1>3 DEF n
  <2>2. i \in 1 .. Held /\ Len(delivered) + i <= Len(accepted)
    BY <1>1, <1>2, <2>1
  <2>3. SUFFICES ASSUME head + i - 1 < Size
                 PROVE  /\ head + i - 1 \in 0 .. Size - 1
                        /\ data[head + i - 1] = accepted[Len(delivered) + i]
    BY <2>2
  <2>4. Place(i) = head + i - 1 /\ head + i - 1 \in 0 .. Size - 1
    BY <1>1, <2>2, <2>3 DEF Place
  <2>5. QED
    BY <1>1, <1>2, <1>4, <2>2, <2>4
<1>7. QED
  BY <1>2, <1>3, <1>4, <1>5, <1>6 DEF n

\* Of no block, or of a halted FIFO, Send is given nothing.
LEMMA SendsNothing ==
  ASSUME IInv, Send, nblocks <= 0
  PROVE  UNCHANGED delivered
<1>1. nblocks \in Int /\ delivered \in Seq(-1 .. MaxBytes)
  BY DEF IInv, TypeOK
<1> DEFINE none == [i \in 1 .. 0 |-> IF head + i - 1 < Size THEN data[head + i - 1] ELSE Garbage]
<1>2. UNCHANGED delivered \/ delivered' = delivered \o none
  BY <1>1 DEF Send
<1>3. none = <<>>
  OBVIOUS
<1> HIDE DEF none
<1>4. QED
  BY <1>1, <1>2, <1>3

\* Send appends those bytes, and garbage for the ones behind the ring.
LEMMA SendAppends ==
  ASSUME IInv, Send, nblocks >= 0, runner' = "pop"
  PROVE  /\ Len(delivered') = Len(delivered) + nblocks * BlockSize
         /\ \A i \in 1 .. Len(delivered) : delivered'[i] = delivered[i]
         /\ \A i \in 1 .. nblocks * BlockSize :
              \/ delivered'[Len(delivered) + i] = accepted[Len(delivered) + i]
              \/ delivered'[Len(delivered) + i] = Garbage /\ NBlocks > 2
         /\ delivered' \in Seq(-1 .. MaxBytes)
<1> USE SizeIsPositive
<1> DEFINE n == nblocks * BlockSize
           sent == [i \in 1 .. n |->
                      IF head + i - 1 < Size THEN data[head + i - 1] ELSE Garbage]
<1>1. n \in Nat /\ delivered \in Seq(-1 .. MaxBytes) /\ head \in 0 .. Size - 1
  <2>1. nblocks \in Nat /\ delivered \in Seq(-1 .. MaxBytes) /\ head \in 0 .. Size - 1
    BY DEF IInv, TypeOK
  <2>2. 0 * BlockSize <= nblocks * BlockSize
    BY <2>1, Grows
  <2>3. QED
    BY <2>1, <2>2
<1>2. n = IF nblocks > 0 THEN nblocks * BlockSize ELSE 0
  BY DEF IInv, TypeOK
<1>3. delivered' = delivered \o sent
  BY <1>2, Zenon DEF Send
<1>4. runner = "send"
  BY DEF Send
<1>5. /\ \A i \in 1 .. n : head + i - 1 < Size =>
           /\ head + i - 1 \in 0 .. Size - 1
           /\ data[head + i - 1] = accepted[Len(delivered) + i]
      /\ head + n > Size => NBlocks > 2
  BY <1>4, SendsNext
<1>6. data \in [0 .. Size - 1 -> 0 .. MaxBytes] /\ MaxBytes \in Nat
  BY SizesArePositive DEF IInv, TypeOK
<1> HIDE DEF n
<1>7. sent \in Seq(-1 .. MaxBytes) /\ Len(sent) = n
  <2>1. \A i \in 1 .. n : sent[i] \in -1 .. MaxBytes
    BY <1>5, <1>6, SMTT(60) DEF Garbage
  <2>2. QED
    BY <1>1, <2>1
<1>8. ASSUME NEW i \in 1 .. n
      PROVE  \/ sent[i] = accepted[Len(delivered) + i]
             \/ sent[i] = Garbage /\ NBlocks > 2
  <2>1. sent[i] = IF head + i - 1 < Size THEN data[head + i - 1] ELSE Garbage
    OBVIOUS
  <2>2. ~(head + i - 1 < Size) => head + n > Size
    BY <1>1
  <2>3. QED
    BY <1>5, <2>1, <2>2, Zenon
<1> HIDE DEF sent
<1>9. /\ Len(delivered') = Len(delivered) + n
      /\ \A i \in 1 .. Len(delivered) : delivered'[i] = delivered[i]
      /\ \A i \in 1 .. n : delivered'[Len(delivered) + i] = sent[i]
      /\ delivered' \in Seq(-1 .. MaxBytes)
  <2>1. Len(delivered') = Len(delivered) + n
    BY <1>1, <1>3, <1>7, ConcatProperties, ZenonT(60)
  <2>2. \A i \in 1 .. Len(delivered) : delivered'[i] = delivered[i]
    BY <1>1, <1>3, <1>7
  <2>3. ASSUME NEW i \in 1 .. n PROVE delivered'[Len(delivered) + i] = sent[i]
    <3>1. Len(delivered) \in Nat
      BY <1>1
    <3>2. /\ Len(delivered) + i \in 1 .. Len(delivered) + Len(sent)
          /\ ~(Len(delivered) + i <= Len(delivered))
          /\ Len(delivered) + i - Len(delivered) = i
      BY <1>1, <1>7, <3>1
    <3>3. QED
      BY <1>1, <1>3, <1>7, <3>2, ConcatProperties
  <2>4. delivered' \in Seq(-1 .. MaxBytes)
    BY <1>1, <1>3, <1>7
  <2>5. QED
    BY <2>1, <2>2, <2>3, <2>4
<1>10. QED
  BY <1>8, <1>9 DEF n

\* Send hands the bytes on and takes none out of the ring: they are in flight
\* until Pop.
LEMMA SendKeepsRing ==
  ASSUME IInv, Send PROVE Ring'
<1> USE SizeIsPositive
<1> DEFINE n == nblocks * BlockSize
<1>1. /\ runner = "send" /\ UNCHANGED <<fifo, nblocks, wholeRun, accepted>>
      /\ \/ runner' = "crashed" /\ UNCHANGED delivered
         \/ runner' = "pop"
  BY DEF Send, device
<1>2. /\ nblocks \in -1 .. NBlocks /\ n \in Int /\ head \in 0 .. Size - 1
      /\ Len(accepted) \in Nat /\ Len(delivered) \in Nat /\ Held \in Int
  BY HeldIsInt DEF IInv, TypeOK
<1>3. CASE UNCHANGED delivered /\ runner' = "crashed"
  BY <1>1, <1>3, AtRest DEF history, IInv
<1>4. CASE runner' = "pop" /\ nblocks < 0
  <2>1. UNCHANGED history
    BY <1>1, <1>2, <1>4, SendsNothing DEF history
  <2>2. InFlight' = InFlight
    BY <1>1, <1>2, <1>4 DEF InFlight
  <2>3. Looked' => Looked
    BY <1>1 DEF Looked, Sending
  <2>4. Held' = Held
    BY <2>1, <2>2 DEF Held, Taken, history
  <2>5. Due'
    BY <1>1, <1>4, <2>4 DEF IInv, Ring, Due, fifo
  <2>6. QED
    BY <1>1, <2>1, <2>2, <2>3, <2>5, RingFrame DEF IInv
<1>5. CASE runner' = "pop" /\ nblocks >= 0
  <2>1. /\ Len(delivered') = Len(delivered) + n
        /\ \A i \in 1 .. Len(delivered) : delivered'[i] = delivered[i]
        /\ \A i \in 1 .. n :
             \/ delivered'[Len(delivered) + i] = accepted[Len(delivered) + i]
             \/ delivered'[Len(delivered) + i] = Garbage /\ NBlocks > 2
    BY <1>5, SendAppends, SMTT(60)
  <2>2. Taken = Len(delivered) /\ Len(delivered) + n <= Len(accepted)
    BY <1>1, SendsNext
  <2>3. InFlight' = n
    BY <1>1, <1>2, <1>5 DEF InFlight
  <2>4. UNCHANGED <<data, head, tail, blocks_filled>>
    BY <1>1 DEF fifo
  <2> HIDE DEF n
  <2>5. Taken' = Taken
    BY <1>2, <2>1, <2>2, <2>3 DEF Taken
  <2>6. Held' = Held
    BY <1>1, <2>5 DEF Held
  <2>7. Prefix'
    <3>1. ASSUME NEW i \in 1 .. Len(delivered') PROVE delivered'[i] = accepted'[i] \/ Overrun(i)'
      <4>1. CASE i <= Len(delivered)
        BY <1>1, <1>2, <2>1, <4>1 DEF IInv, Ring, Prefix, Overrun
      <4>2. CASE Len(delivered) < i
        <5>1. i - Len(delivered) \in 1 .. n /\ Len(delivered) + (i - Len(delivered)) = i
          BY <1>2, <2>1, <4>2 DEF n
        <5>2. QED
          BY <1>1, <2>1, <5>1 DEF Overrun
      <4>3. QED
        BY <1>2, <2>1, <4>1, <4>2 DEF n
    <3>2. QED
      BY <1>1, <2>1, <2>2, <3>1 DEF Prefix
  <2>8. Aligned' /\ Counted'
    BY <2>4, <2>6 DEF IInv, Ring, Aligned, Counted
  <2>9. Window'
    BY <1>1, <2>4, <2>5, <2>6 DEF IInv, Ring, Window, Looked, Sending, Place
  <2>10. Due'
    BY <1>1, <1>5, <2>4, <2>6 DEF IInv, Ring, Due
  <2>11. QED
    BY <2>7, <2>8, <2>9, <2>10 DEF Ring
<1>6. QED
  BY <1>1, <1>2, <1>3, <1>4, <1>5

\* Pop moves head over the blocks that were sent; a halted ring nobody looks at.
LEMMA PopKeepsRing ==
  ASSUME IInv, Pop PROVE Ring'
<1> USE SizeIsPositive
<1> DEFINE n == nblocks * BlockSize
<1>1. /\ runner = "pop" /\ runner' = "wait"
      /\ UNCHANGED <<data, tail, nblocks, accepted, delivered>>
  BY DEF Pop, history
<1>2. /\ nblocks \in -1 .. NBlocks /\ blocks_filled \in -1 .. NBlocks
      /\ n \in Int /\ head \in 0 .. Size - 1
      /\ Len(accepted) \in Nat /\ Len(delivered) \in Nat /\ Held \in Int /\ Taken \in Int
  BY HeldIsInt, SMTT(60) DEF IInv, TypeOK
<1>3. /\ n <= Held /\ 0 <= Taken /\ 0 <= Held /\ Held <= Size
      /\ blocks_filled # -1 => 1 <= nblocks /\ nblocks <= blocks_filled
  BY <1>1 DEF IInv, Ring, Due, Window, Looked, Sending
<1>4. Prefix' /\ Due'
  BY <1>1 DEF IInv, Ring, Prefix, Overrun, Due
<1>5. CASE blocks_filled = -1
  <2>1. UNCHANGED <<head, blocks_filled>>
    BY <1>2, <1>5 DEF Pop
  <2>2. Aligned'
    BY <2>1 DEF IInv, Ring, Aligned
  <2>3. Counted' /\ Window'
    BY <1>1, <1>5, <2>1 DEF Counted, Window, Looked, Sending
  <2>4. QED
    BY <1>4, <2>2, <2>3 DEF Ring
<1>6. CASE blocks_filled # -1
  <2>1. blocks_filled' = blocks_filled - nblocks /\ head' = (head + n) % Size
    BY <1>2, <1>3, <1>6 DEF Pop
  <2>2. 1 * BlockSize <= n
    BY <1>2, <1>3, <1>6, Grows
  <2>3. InFlight = n /\ InFlight' = 0
    BY <1>1, <1>2, <1>3, <1>6 DEF InFlight
  <2>4. blocks_filled * BlockSize \in Int
        /\ (blocks_filled - nblocks) * BlockSize = blocks_filled * BlockSize - n
    BY <1>2, Spreads
  <2>5. PICK q \in 0 .. NBlocks - 1 : head = q * BlockSize
    BY DEF IInv, Ring, Aligned
  <2>6. (q + nblocks) * BlockSize = head + n
    BY <1>2, <2>5, Spreads
  <2>7. PICK k \in Nat : k = q + nblocks
    BY <1>2, <1>3, <1>6, <2>5
  <2>8. n = nblocks * BlockSize
    OBVIOUS
  <2> HIDE DEF n
  <2>9. Taken' = Taken + n /\ Held' = Held - n
    <3>1. Taken' = Taken + n
      BY <1>1, <1>2, <2>3 DEF Taken
    <3>2. QED
      BY <1>1, <1>2, <3>1 DEF Held
  <2>10. head' = IF head + n < Size THEN head + n ELSE head + n - Size
    <3>1. n \in 0 .. Size
      BY <1>2, <1>3, <2>2
    <3>2. QED
      BY <1>2, <2>1, <3>1, InTheRing, Zenon
  <2>11. Aligned'
    <3>1. k * BlockSize = head + n /\ k < 2 * NBlocks
      BY <1>2, <2>5, <2>6, <2>7
    <3>2. CASE head + n < Size
      <4>1. NBlocks <= k => NBlocks * BlockSize <= k * BlockSize
        BY Grows
      <4>2. k \in 0 .. NBlocks - 1
        BY <1>2, <3>1, <3>2, <4>1 DEF Size
      <4>3. QED
        BY <2>10, <3>1, <3>2, <4>2, Zenon DEF Aligned
    <3>3. CASE ~(head + n < Size)
      <4>1. NBlocks * BlockSize <= k * BlockSize
        BY <1>2, <3>1, <3>3 DEF Size
      <4>2. k - NBlocks \in 0 .. NBlocks - 1 /\ k * BlockSize - Size = (k - NBlocks) * BlockSize
        BY <3>1, <4>1, Wraps DEF Size
      <4>3. QED
        <5>1. head' = (k - NBlocks) * BlockSize
          <6>1. head' = head + n - Size
            BY <2>10, <3>3, Zenon
          <6>2. head' = k * BlockSize - Size
            BY <1>2, <3>1, <6>1, SMTT(60)
          <6>3. QED
            BY <4>2, <6>2, Zenon
        <5>2. QED
          BY <4>2, <5>1, Zenon DEF Aligned
    <3>4. QED
      BY <3>2, <3>3
  <2>12. n \in 1 .. Held /\ Held \in 0 .. Size
    BY <1>2, <1>3, <2>2
  <2>13. /\ (IF head + Held < Size THEN head + Held ELSE head + Held - Size)
              = IF head' + (Held - n) < Size THEN head' + (Held - n)
                ELSE head' + (Held - n) - Size
         /\ \A i \in 1 .. Held - n :
              (IF head' + i - 1 < Size THEN head' + i - 1 ELSE head' + i - 1 - Size)
                = IF head + (n + i) - 1 < Size THEN head + (n + i) - 1
                  ELSE head + (n + i) - 1 - Size
    BY <1>2, <1>3, <2>10, <2>12, Leaves
  <2>14. Counted'
    <3>1. /\ blocks_filled * BlockSize <= Held
          /\ tail = IF head + Held < Size THEN head + Held ELSE head + Held - Size
          /\ tail % BlockSize = Held - blocks_filled * BlockSize
      BY <1>6 DEF IInv, Ring, Counted
    <3>2. tail' = IF head' + Held' < Size THEN head' + Held' ELSE head' + Held' - Size
      BY <1>1, <2>9, <2>13, <3>1
    <3> DEFINE r == tail % BlockSize
    <3>3. r = Held - blocks_filled * BlockSize
      BY <3>1
    <3>4. tail' % BlockSize = r
      BY <1>1
    <3> HIDE DEF r
    <3>5. blocks_filled' * BlockSize <= Held' /\ r = Held' - blocks_filled' * BlockSize
      BY <1>2, <2>1, <2>4, <2>9, <3>1, <3>3
    <3>6. QED
      BY <3>2, <3>4, <3>5 DEF Counted
  <2>15. Window'
    <3>1. ASSUME NEW i \in 1 .. Held' PROVE data'[Place(i)'] = accepted'[Taken' + i]
      <4>1. n + i \in 1 .. Held /\ i \in 1 .. Held - n
        BY <1>2, <2>9, <2>12
      <4>2. Place(i)' = Place(n + i)
        BY <2>13, <4>1 DEF Place
      <4>3. data[Place(n + i)] = accepted[Taken + (n + i)]
        BY <1>6, <4>1 DEF IInv, Ring, Window, Looked
      <4>4. Taken' + i = Taken + (n + i)
        BY <1>2, <2>9, <2>12
      <4>5. QED
        BY <1>1, <4>2, <4>3, <4>4
    <3>2. 0 <= Taken' /\ 0 <= Held' /\ Held' <= Size
      BY <1>2, <1>3, <2>9, <2>12
    <3>3. QED
      BY <3>1, <3>2 DEF Window
  <2>16. QED
    BY <1>4, <2>11, <2>14, <2>15 DEF Ring
<1>7. QED
  BY <1>5, <1>6

\* Halt() takes the count away; the run thread may still be about to send.
LEMMA HaltKeepsRing ==
  ASSUME IInv, Halt PROVE Ring'
<1>1. /\ blocks_filled' = -1
      /\ UNCHANGED <<data, head, tail, runner, nblocks, wholeRun, accepted, delivered>>
  BY DEF Halt, rn, device, history
<1>2. Taken' = Taken /\ Held' = Held
  BY <1>1 DEF Held, Taken, InFlight
<1>3. Aligned' /\ Prefix' /\ Counted'
  BY <1>1 DEF IInv, Ring, Aligned, Prefix, Overrun, Counted
<1>4. Window'
  <2>1. Looked' => Looked
    BY <1>1 DEF Looked, Sending
  <2>2. QED
    BY <1>1, <1>2, <2>1 DEF IInv, Ring, Window, Place
<1>5. Due'
  BY <1>1, <1>2 DEF IInv, Ring, Due
<1>6. QED
  BY <1>3, <1>4, <1>5 DEF Ring

-----------------------------------------------------------------------------
(* Every step keeps the types, the threads' states and the ring *)

\* As long as the ring is in order, a Push copies a chunk that has space or leaves
\* the FIFO alone, whether or not it waits.
LEMMA PushCases ==
  ASSUME IInv, Orderly, PushLive \/ PushFile \/ PushWakes
  PROVE  \/ /\ blocks_filled # -1 /\ 1 <= chunk /\ HasSpace(chunk) /\ Copy(chunk)
            /\ chunk <= produced
            /\ UNCHANGED <<runner, nblocks, wholeRun, delivered, stopper, produced, chunk>>
         \/ UNCHANGED <<fifo, history, runner, nblocks, wholeRun, readySignal>>
BY DEF IInv, Threads, Orderly, PushLive, PushFile, PushWakes, device, rn, history

\* What Copy writes has its type: the count stays within the blocks, the bytes are
\* those just read.
LEMMA CopyKeepsTypes ==
  ASSUME IInv, blocks_filled # -1, 1 <= chunk, HasSpace(chunk), Copy(chunk),
         chunk <= produced
  PROVE  /\ data' \in [0 .. Size - 1 -> 0 .. MaxBytes]
         /\ tail' \in 0 .. Size - 1 /\ blocks_filled' \in 0 .. NBlocks
         /\ readySignal' \in BOOLEAN /\ accepted' \in Seq(1 .. MaxBytes)
         /\ UNCHANGED <<head, last_input>>
<1> USE SizeIsPositive
<1> DEFINE first == produced - chunk
           new == [i \in 1 .. chunk |-> first + i]
<1>1. /\ data \in [0 .. Size - 1 -> 0 .. MaxBytes] /\ tail \in 0 .. Size - 1
      /\ blocks_filled \in -1 .. NBlocks /\ accepted \in Seq(1 .. MaxBytes)
      /\ chunk \in 1 .. MaxBytes /\ produced \in 0 .. MaxBytes /\ readySignal \in BOOLEAN
      /\ MaxBytes \in Nat
  BY SizesArePositive DEF IInv, TypeOK
<1>2. Ready(chunk) \in Nat /\ blocks_filled + Ready(chunk) <= NBlocks
  BY <1>1, Fits
<1>3. blocks_filled' \in 0 .. NBlocks
  <2> DEFINE ready == Ready(chunk)
  <2>1. ready \in Nat /\ blocks_filled + ready <= NBlocks /\ blocks_filled' = blocks_filled + ready
    BY <1>2 DEF Copy
  <2> HIDE DEF ready
  <2>2. QED
    BY <1>1, <2>1
<1>4. tail' \in 0 .. Size - 1
  <2>1. tail + chunk \in Int /\ Size \in Nat \ {0}
    BY <1>1
  <2>2. (tail + chunk) % Size \in 0 .. Size - 1
    BY <2>1, DivMod, Zenon
  <2>3. QED
    BY <2>2 DEF Copy
<1>5. accepted' \in Seq(1 .. MaxBytes)
  <2>1. new \in Seq(1 .. MaxBytes)
    BY <1>1
  <2>2. accepted' = accepted \o new
    BY DEF Copy
  <2> HIDE DEF new
  <2>3. QED
    BY <1>1, <2>1, <2>2
<1>6. data' \in [0 .. Size - 1 -> 0 .. MaxBytes]
  <2>1. ASSUME NEW i \in 0 .. Size - 1 PROVE data'[i] \in 0 .. MaxBytes
    <3> DEFINE k == (i - tail) % Size
    <3>1. i - tail \in Int /\ Size \in Nat \ {0}
      BY <1>1
    <3>2. k \in 0 .. Size - 1
      BY <3>1, DivMod, Zenon
    <3>3. data'[i] = IF k < chunk THEN first + k + 1 ELSE data[i]
      BY DEF Copy
    <3> HIDE DEF k
    <3>4. QED
      BY <1>1, <3>2, <3>3
  <2>2. data' = [i \in 0 .. Size - 1 |-> data'[i]]
    BY DEF Copy
  <2>3. QED
    BY <2>1, <2>2
<1>7. readySignal' \in BOOLEAN /\ UNCHANGED <<head, last_input>>
  <2>1. (readySignal \/ Ready(chunk) > 0) \in BOOLEAN
    OBVIOUS
  <2>2. QED
    BY <2>1 DEF Copy
<1>8. QED
  BY <1>3, <1>4, <1>5, <1>6, <1>7, SMTT(60)

\* Once Halted() always.
LEMMA OrderlyBefore ==
  ASSUME [Next]_vars, Orderly' PROVE Orderly
BY DEF Orderly, Halted, Next, vars, Reader, Runner, ReadLive, ReadFile, PushLive, PushFile, PushWakes,
   PushFinished, EndOfInput, SourceBreaks, Wait, WaitWakes, WaitTimesOut, WaitReturns, Idle, Front, Count, Send,
   Pop, StopFlag, Halt, Join

\* The actions of a file do not happen to a live source.
LEMMA LiveSteps ==
  ASSUME ~IsFile, IInv, Next
  PROVE  \/ ReadLive \/ SourceBreaks \/ PushLive \/ StopFlag \/ Halt \/ Join
         \/ Wait \/ WaitWakes \/ WaitTimesOut \/ Idle \/ Front \/ Count \/ Send \/ Pop
BY DEF IInv, Threads, Next, Reader, Runner, ReadFile, PushFile, PushWakes, PushFinished, EndOfInput

\* No step of any thread breaks the ring.
LEMMA RingIsKept ==
  ASSUME IInv, Orderly, [Next]_vars PROVE Ring'
<1>1. CASE ReadLive \/ ReadFile \/ SourceBreaks \/ EndOfInput \/ StopFlag \/ Join \/ UNCHANGED vars
  <2>1. UNCHANGED <<fifo, history, runner, nblocks, wholeRun>>
    BY <1>1 DEF ReadLive, ReadFile, SourceBreaks, EndOfInput, StopFlag, Join, vars, device, rn
  <2>2. QED
    BY <2>1, OthersFrame DEF IInv
<1>2. CASE PushFinished
  <2>1. UNCHANGED <<data, head, tail, blocks_filled, runner, nblocks, wholeRun, accepted, delivered>>
    BY <1>2 DEF PushFinished, device, rn, history
  <2>2. Taken' = Taken /\ Held' = Held
    BY <2>1 DEF Taken, Held, InFlight
  <2>3. Looked' = Looked
    BY <2>1 DEF Looked, Sending
  <2>4. QED
    BY <2>1, <2>2, <2>3 DEF IInv, Ring, Aligned, Counted, Window, Prefix, Overrun, Due, Place
<1>3. CASE PushLive \/ PushFile \/ PushWakes
  BY <1>3, PushCases, CopyKeepsRing, OthersFrame DEF IInv
<1>4. CASE Wait \/ WaitWakes \/ WaitTimesOut
  <2>1. /\ UNCHANGED <<fifo, history>> /\ runner \in {"wait", "parked"}
        /\ \/ runner' \in {"wait", "ended", "parked", "idle"}
           \/ blocks_filled > 0 /\ runner' = "front"
    BY <1>4 DEF Wait, WaitWakes, WaitTimesOut, WaitReturns
  <2>2. QED
    BY <2>1, AtRest, ToFront DEF IInv
<1>5. CASE Idle
  <2>1. UNCHANGED <<fifo, history>> /\ runner = "idle" /\ runner' = "wait"
    BY <1>5 DEF Idle
  <2>2. QED
    BY <2>1, AtRest DEF IInv
<1>6. QED
  BY <1>1, <1>2, <1>3, <1>4, <1>5, FrontKeepsRing, CountKeepsRing, SendKeepsRing, PopKeepsRing, HaltKeepsRing
     DEF Next, Reader, Runner

\* No step breaks what is known of the threads: the count is -1 exactly after Halt.
LEMMA ThreadsAreKept ==
  ASSUME IInv, Orderly, [Next]_vars PROVE Threads'
<1>1. TypeOK /\ Threads
  BY DEF IInv
<1>2. CASE ReadLive \/ ReadFile
  <2>1. UNCHANGED <<stopper, streaming, blocks_filled>>
    BY <1>2 DEF ReadLive, ReadFile, fifo, device
  <2>2. reader' = "push" => 1 <= chunk' /\ chunk' <= produced'
    BY <1>1, <1>2, SizesArePositive, SMTT(60) DEF ReadLive, ReadFile, TypeOK
  <2>3. reader' \in {"push", "finish", "ended"} /\ (~IsFile => reader' \in {"push", "ended"})
    BY <1>2 DEF ReadLive, ReadFile
  <2>4. QED
    BY <1>1, <2>1, <2>2, <2>3 DEF Threads, Halted
<1>3. CASE SourceBreaks \/ PushFinished \/ EndOfInput
  <2>1. /\ UNCHANGED <<stopper, streaming, blocks_filled>>
        /\ reader' \in {"eoi", "ended"} /\ (~IsFile => reader' = "ended")
    BY <1>1, <1>3 DEF SourceBreaks, PushFinished, EndOfInput, Threads, fifo, device
  <2>2. QED
    BY <1>1, <2>1 DEF Threads, Halted
<1>4. CASE PushLive \/ PushFile \/ PushWakes
  <2>1. /\ UNCHANGED <<stopper, streaming, chunk, produced>>
        /\ reader' \in {"read", "parked"} /\ (~IsFile => reader' = "read")
        /\ reader \in {"push", "parked"}
    BY <1>1, <1>4 DEF PushLive, PushFile, PushWakes, device, Threads
  <2>2. blocks_filled' = -1 <=> blocks_filled = -1
    <3>1. CASE blocks_filled # -1 /\ 1 <= chunk /\ HasSpace(chunk) /\ Copy(chunk) /\ chunk <= produced
      BY <3>1, CopyKeepsTypes
    <3>2. CASE UNCHANGED fifo
      BY <3>2 DEF fifo
    <3>3. QED
      BY <1>4, <3>1, <3>2, PushCases
  <2>3. QED
    BY <1>1, <2>1, <2>2 DEF Threads, Halted
<1>5. CASE Wait \/ WaitWakes \/ WaitTimesOut \/ Idle \/ Front \/ Count \/ Send
  <2>1. UNCHANGED <<reader, chunk, produced, stopper, streaming, blocks_filled>>
    BY <1>5 DEF Wait, WaitWakes, WaitTimesOut, Idle, Front, Count, Send, fifo, device, rd
  <2>2. QED
    BY <1>1, <2>1 DEF Threads, Halted
<1>6. CASE Pop
  <2>1. UNCHANGED <<reader, chunk, produced, stopper, streaming>>
    BY <1>6 DEF Pop, device, rd
  <2>2. blocks_filled' = -1 <=> blocks_filled = -1
    BY <1>1, <1>6, SMTT(60) DEF Pop, TypeOK, IInv, Ring, Due
  <2>3. QED
    BY <1>1, <2>1, <2>2 DEF Threads, Halted
<1>7. CASE StopFlag
  BY <1>1, <1>7 DEF StopFlag, Threads, Halted, fifo, rd
<1>8. CASE Halt
  BY <1>1, <1>8 DEF Halt, Threads, Halted, device, rd
<1>9. CASE Join
  BY <1>1, <1>9 DEF Join, Threads, Halted, fifo, device, rd
<1>10. CASE UNCHANGED vars
  BY <1>1, <1>10 DEF vars, fifo, device, rd, Threads, Halted
<1>11. QED
  BY <1>2, <1>3, <1>4, <1>5, <1>6, <1>7, <1>8, <1>9, <1>10 DEF Next, Reader, Runner

\* Every step keeps the types: no index leaves the ring, no count its range.
LEMMA TypesAreKept ==
  ASSUME IInv, Orderly, [Next]_vars PROVE TypeOK'
<1> USE SizeIsPositive
<1>1. TypeOK
  BY DEF IInv
<1>2. CASE ReadLive \/ ReadFile
  <2>1. reader' \in {"push", "finish", "ended"} /\ chunk' \in 0 .. MaxBytes /\ produced' \in 0 .. MaxBytes
    BY <1>1, <1>2, SizesArePositive, SMTT(60) DEF ReadLive, ReadFile, TypeOK
  <2>2. UNCHANGED <<fifo, signals, device, rn, stopper, history>>
    BY <1>2 DEF ReadLive, ReadFile
  <2>3. QED
    BY <1>1, <2>1, <2>2, SMTT(60) DEF TypeOK, fifo, signals, device, rn, history
<1>3. CASE SourceBreaks \/ EndOfInput
  <2>1. lost' \in BOOLEAN /\ eoi' \in BOOLEAN /\ reader' = "ended"
    BY <1>1, <1>3, Zenon DEF TypeOK, SourceBreaks, EndOfInput
  <2>2. UNCHANGED <<fifo, signals, wholeRun, streaming, done, chunk, produced, rn, stopper, history>>
    BY <1>3 DEF SourceBreaks, EndOfInput
  <2>3. QED
    BY <1>1, <2>1, <2>2 DEF TypeOK, fifo, signals, rn, history
<1>3a. CASE PushFinished
  BY <1>1, <1>3a DEF TypeOK, PushFinished, device, rn, history
<1>4. CASE PushLive \/ PushFile \/ PushWakes
  <2>1. /\ reader' \in {"read", "parked"} /\ spaceSignal' \in BOOLEAN
        /\ UNCHANGED <<device, chunk, produced, rn, stopper, delivered>>
    BY <1>1, <1>4, Zenon DEF PushLive, PushFile, PushWakes, TypeOK
  <2>2. /\ data' \in [0 .. Size - 1 -> 0 .. MaxBytes]
        /\ tail' \in 0 .. Size - 1 /\ blocks_filled' \in -1 .. NBlocks
        /\ readySignal' \in BOOLEAN /\ accepted' \in Seq(1 .. MaxBytes)
        /\ UNCHANGED <<head, last_input>>
    <3>1. CASE UNCHANGED <<fifo, history, readySignal>>
      BY <1>1, <3>1 DEF TypeOK, fifo, history
    <3>2. CASE /\ blocks_filled # -1 /\ 1 <= chunk /\ HasSpace(chunk) /\ Copy(chunk)
               /\ chunk <= produced
      <4>1. blocks_filled' \in 0 .. NBlocks
        BY <3>2, CopyKeepsTypes
      <4>2. blocks_filled' \in -1 .. NBlocks
        BY <4>1
      <4>3. QED
        BY <3>2, <4>2, CopyKeepsTypes, SMTT(60)
    <3>3. QED
      BY <1>4, <3>1, <3>2, PushCases, SMTT(60)
  <2>3. QED
    BY <1>1, <2>1, <2>2, SMTT(60) DEF TypeOK, device, rn
<1>5. CASE Wait \/ WaitWakes \/ WaitTimesOut
  <2>1. /\ UNCHANGED <<fifo, spaceSignal, device, rd, nblocks, stopper, history>>
        /\ readySignal' \in {FALSE, readySignal}
        /\ runner' \in {runner, "ended", "parked", "front", "idle"}
        /\ gaveUp' \in {gaveUp, blocks_filled = 0 /\ ~last_input}
    BY <1>5, Zenon DEF Wait, WaitWakes, WaitTimesOut, WaitReturns, signals
  <2>2. readySignal' \in BOOLEAN /\ gaveUp' \in BOOLEAN
    BY <1>1, <2>1, Zenon DEF TypeOK
  <2>3. QED
    BY <1>1, <2>1, <2>2 DEF TypeOK, fifo, device, rd, history
<1>6. CASE Idle
  <2>1. /\ UNCHANGED <<fifo, signals, wholeRun, streaming, lost, eoi, rd, nblocks, gaveUp,
                       stopper, history>>
        /\ runner' = "wait" /\ done' \in BOOLEAN
    BY <1>6 DEF Idle
  <2>2. QED
    BY <1>1, <2>1 DEF TypeOK, fifo, signals, rd, history
<1>7. CASE Front
  <2> DEFINE w == (Size - head) \div BlockSize
  <2>1. w \in 1 .. NBlocks
    BY ToTheWrap DEF IInv, Ring
  <2>2. nblocks' \in {nblocks, w, 1} /\ runner' \in {"count", "send"}
    BY <1>7 DEF Front
  <2> HIDE DEF w
  <2>3. nblocks' \in -1 .. NBlocks
    BY <1>1, <2>1, <2>2, SMTT(60) DEF TypeOK
  <2>4. UNCHANGED <<fifo, signals, device, rd, gaveUp, stopper, history>>
    BY <1>7 DEF Front
  <2>5. QED
    BY <1>1, <2>2, <2>3, <2>4, SMTT(60) DEF TypeOK, fifo, signals, device, rd, history
<1>7a. CASE Count
  BY <1>1, <1>7a, SMTT(60) DEF Count, TypeOK, fifo, signals, device, rd, history
<1>8. CASE Send
  <2>1. /\ UNCHANGED <<fifo, signals, device, rd, nblocks, gaveUp, stopper, accepted>>
        /\ runner' \in {"crashed", "pop"}
    BY <1>8 DEF Send
  <2>2. delivered' \in Seq(-1 .. MaxBytes)
    <3>1. CASE UNCHANGED delivered
      BY <1>1, <3>1 DEF TypeOK
    <3>2. CASE runner' = "pop" /\ nblocks < 0
      <4>1. UNCHANGED delivered
        BY <1>1, <1>8, <3>2, SendsNothing DEF TypeOK
      <4>2. QED
        BY <3>1, <4>1
    <3>3. CASE runner' = "pop" /\ nblocks >= 0
      BY <1>8, <3>3, SendAppends
    <3>4. QED
      BY <1>1, <1>8, <3>1, <3>2, <3>3 DEF Send, TypeOK
  <2>3. QED
    BY <1>1, <2>1, <2>2, SMTT(60) DEF TypeOK, fifo, signals, device, rd
<1>9. CASE Pop
  <2>1. /\ UNCHANGED <<data, tail, last_input, readySignal, device, rd, nblocks, gaveUp,
                       stopper, history>>
        /\ runner' = "wait"
    BY <1>9 DEF Pop
  <2>2. CASE blocks_filled = -1
    <3>1. UNCHANGED <<head, blocks_filled, spaceSignal>>
      BY <1>1, <1>9, <2>2 DEF Pop, TypeOK
    <3>2. QED
      BY <1>1, <2>1, <3>1 DEF TypeOK, device, rd, history
  <2>3. CASE blocks_filled # -1
    <3>1. 1 <= nblocks /\ nblocks <= blocks_filled
      BY <1>9, <2>3 DEF IInv, Ring, Due, Pop
    <3>2. /\ blocks_filled' = blocks_filled - nblocks /\ spaceSignal' = TRUE
          /\ head' = (head + nblocks * BlockSize) % Size
      BY <1>1, <1>9, <2>3, <3>1 DEF Pop, TypeOK
    <3>3. blocks_filled' \in -1 .. NBlocks
      BY <1>1, <3>1, <3>2 DEF TypeOK
    <3>4. head' \in 0 .. Size - 1
      <4>1. head + nblocks * BlockSize \in Int /\ Size \in Nat \ {0}
        BY <1>1 DEF TypeOK
      <4>2. (head + nblocks * BlockSize) % Size \in 0 .. Size - 1
        BY <4>1, DivMod, Zenon
      <4>3. QED
        BY <3>2, <4>2
    <3>5. QED
      BY <1>1, <2>1, <3>2, <3>3, <3>4, SMTT(60) DEF TypeOK, device, rd, history
  <2>4. QED
    BY <2>2, <2>3
<1>10. CASE StopFlag
  <2>1. streaming' \in BOOLEAN /\ stopper' \in {"idle", "halt", "join", "stopped"}
    BY <1>10, Zenon DEF StopFlag
  <2>2. UNCHANGED <<fifo, signals, wholeRun, lost, done, eoi, rd, rn, history>>
    BY <1>10 DEF StopFlag
  <2>3. QED
    BY <1>1, <2>1, <2>2 DEF TypeOK, fifo, signals, rd, rn, history
<1>11. CASE Halt
  <2>1. -1 \in -1 .. NBlocks
    OBVIOUS
  <2>2. QED
    BY <1>1, <1>11, <2>1 DEF TypeOK, Halt, device, rd, rn, history
<1>12. CASE Join
  BY <1>1, <1>12 DEF TypeOK, Join, fifo, signals, device, rd, rn, history
<1>13. CASE UNCHANGED vars
  BY <1>1, <1>13 DEF TypeOK, vars, fifo, signals, device, rd, rn, history
<1>14. QED
  BY <1>2, <1>3, <1>3a, <1>4, <1>5, <1>6, <1>7, <1>7a, <1>8, <1>9, <1>10, <1>11, <1>12, <1>13
     DEF Next, Reader, Runner

\* So every step keeps the invariant.
LEMMA Step ==
  ASSUME IInv, Orderly, [Next]_vars PROVE IInv'
BY TypesAreKept, ThreadsAreKept, RingIsKept DEF IInv

\* The invariant holds throughout every run, of a file until Halt(): the ring holds
\* the bytes accepted and not yet taken, in order from head on, and blocks_filled
\* of their blocks are complete.
THEOREM Invariant == Spec => [](Orderly => IInv)
<1>1. Init => (Orderly => IInv)
  BY Initial
<1>2. (Orderly => IInv) /\ [Next]_vars => (Orderly' => IInv')
  BY Step, OrderlyBefore
<1>3. QED
  BY <1>1, <1>2, PTL DEF Spec

\* Of a live source: head, tail and the count of blocks never leave their ranges.
THEOREM TypeCorrect ==
  ASSUME ~IsFile PROVE Spec => []TypeOK
<1>1. (Orderly => IInv) => TypeOK
  BY DEF IInv, Orderly
<1>2. QED
  BY <1>1, Invariant, PTL

\* For every size of block, ring and read: while Send works on a block, Push writes
\* into none of it; of a live source not even after Halt().
THEOREM NobodyOverwrites == Spec => []FrontIntact
<1>1. (Orderly => IInv) => FrontIntact
  BY SendsNext DEF FrontIntact, Orderly
<1>2. QED
  BY <1>1, Invariant, PTL

-----------------------------------------------------------------------------
(* A file is sent whole *)

\* How far a file's reader is, until Halt(): what it accepted, that it ends at the
\* end of the file, and that nothing more comes once that was told.
Reading ==
  IsFile /\ ~Halted =>
    /\ Len(accepted) = IF reader \in {"push", "parked"} THEN produced - chunk ELSE produced
    /\ reader \in {"finish", "eoi", "ended"} => ~streaming \/ produced = MaxBytes
    /\ last_input <=> reader \in {"eoi", "ended"}
    /\ eoi => reader = "ended"

\* What the run thread sent are whole blocks, and when it found nothing at the end
\* of the input there is none left.
WholeBlocks == \E q \in Nat : Len(delivered) = q * BlockSize
Drained == runner = "idle" /\ ~gaveUp => last_input /\ blocks_filled = 0
Playing == IsFile /\ ~Halted => WholeBlocks /\ Drained

\* When the run is done neither thread does anything more.  A stop comes before
\* Halt(), so a run that ended itself was not halted.
Over ==
  /\ done => reader = "ended" /\ runner \in {"wait", "ended"}
  /\ stopper # "idle" => ~streaming

Whole == (Orderly => IInv) /\ Reading /\ Playing /\ Over /\ DoneIsDrained

LEMMA ReadingIsKept ==
  ASSUME IInv, Orderly, Reading, [Next]_vars PROVE Reading'
<1> SUFFICES ASSUME IsFile, ~Halted' PROVE Reading'
  BY DEF Reading
<1>1. ~Halted /\ TypeOK /\ Threads
  BY OrderlyBefore DEF Orderly, IInv
<1>2. CASE ReadFile
  <2>1. UNCHANGED <<accepted, last_input, eoi, streaming, stopper>> /\ reader = "read"
    BY <1>2 DEF ReadFile, fifo, device, history
  <2>2. CASE reader' = "push" /\ chunk' \in Nat /\ produced' = produced + chunk'
    <3>1. produced \in Nat /\ Len(accepted) = produced
      BY <1>1, <2>1, SizesArePositive DEF Reading, TypeOK
    <3>2. Len(accepted') = produced' - chunk'
      <4>1. Len(accepted') = produced
        BY <2>1, <3>1
      <4>2. produced' - chunk' = produced
        BY <2>2, <3>1, TakesBack, Zenon
      <4>3. QED
        BY <4>1, <4>2
    <3>3. QED
      BY <1>1, <2>1, <2>2, <3>2 DEF Reading, Halted
  <2>3. CASE reader' = "finish" /\ UNCHANGED produced /\ (~streaming \/ produced = MaxBytes)
    BY <1>1, <2>1, <2>3 DEF Reading, TypeOK, Halted
  <2>4. QED
    BY <1>1, <1>2, <2>2, <2>3, SizesArePositive, SMTT(60) DEF ReadFile, TypeOK
<1>3. CASE PushFile \/ PushWakes
  <2>1. /\ UNCHANGED <<last_input, eoi, streaming, stopper, chunk, produced>>
        /\ reader \in {"push", "parked"}
        /\ \/ reader' = "parked" /\ UNCHANGED accepted
           \/ reader' = "read" /\ Copy(chunk)
    BY <1>1, <1>3, Zenon DEF PushFile, PushWakes, Copy, device, fifo, Threads
  <2>2. CASE Copy(chunk)
    <3> DEFINE new == [i \in 1 .. chunk |-> produced - chunk + i]
    <3>1. accepted' = accepted \o new
      BY <2>2 DEF Copy
    <3>2. new \in Seq(Int) /\ Len(new) = chunk
      BY <1>1, <2>1 DEF TypeOK, Threads
    <3>3. accepted \in Seq(Int)
      <4>1. accepted \in Seq(1 .. MaxBytes) /\ 1 .. MaxBytes \subseteq Int
        BY <1>1, SizesArePositive DEF TypeOK
      <4>2. QED
        BY <4>1, SeqMonotonic, Zenon
    <3> HIDE DEF new
    <3>4. Len(accepted') = Len(accepted) + chunk
      BY <3>1, <3>2, <3>3, ConcatProperties, Zenon
    <3>5. QED
      BY <1>1, <2>1, <2>2, <3>4, SMTT(60) DEF Reading, TypeOK, Halted, Copy
  <2>3. QED
    BY <1>1, <2>1, <2>2 DEF Reading, Halted
<1>4. CASE PushFinished
  BY <1>1, <1>4 DEF PushFinished, Reading, Halted, device, history
<1>5. CASE EndOfInput
  BY <1>1, <1>5 DEF EndOfInput, Reading, Halted, fifo, history
<1>6. CASE Wait \/ WaitWakes \/ WaitTimesOut \/ Idle \/ Front \/ Count \/ Send \/ Pop
  <2>1. UNCHANGED <<accepted, rd, streaming, last_input, eoi, stopper>>
    BY <1>6 DEF Wait, WaitWakes, WaitTimesOut, Idle, Front, Count, Send, Pop, fifo, device, history
  <2>2. QED
    BY <1>1, <2>1 DEF Reading, Halted, rd
<1>7. CASE StopFlag \/ Join \/ UNCHANGED vars
  <2>1. UNCHANGED <<accepted, rd, last_input, eoi>> /\ (~streaming => ~streaming')
    BY <1>7 DEF StopFlag, Join, vars, fifo, device, history
  <2>2. QED
    BY <1>1, <2>1 DEF Reading, rd
<1>8. QED
  BY <1>2, <1>3, <1>4, <1>5, <1>6, <1>7 DEF Next, Reader, Runner, ReadLive, PushLive, SourceBreaks, Halt,
     Halted

LEMMA WholeBlocksAreKept ==
  ASSUME IInv, WholeBlocks, [Next]_vars PROVE WholeBlocks'
<1> USE SizeIsPositive
<1>1. CASE UNCHANGED delivered
  BY <1>1 DEF WholeBlocks
<1>2. CASE Send
  <2>1. nblocks \in Int /\ delivered \in Seq(-1 .. MaxBytes) /\ (UNCHANGED delivered \/ runner' = "pop")
    BY <1>2 DEF IInv, TypeOK, Send
  <2>2. CASE nblocks < 0
    <3>1. UNCHANGED delivered
      BY <1>2, <2>1, <2>2, SendsNothing
    <3>2. QED
      BY <1>1, <3>1
  <2>3. CASE nblocks >= 0 /\ runner' = "pop"
    <3>1. Len(delivered') = Len(delivered) + nblocks * BlockSize
      BY <1>2, <2>3, SendAppends
    <3>2. PICK q \in Nat : Len(delivered) = q * BlockSize
      BY DEF WholeBlocks
    <3>3. (q + nblocks) * BlockSize = q * BlockSize + nblocks * BlockSize
      BY <2>1, <3>2, Spreads
    <3>4. q + nblocks \in Nat
      BY <2>1, <2>3, <3>2
    <3>5. QED
      BY <3>1, <3>2, <3>3, <3>4, Zenon DEF WholeBlocks
  <2>4. QED
    BY <1>1, <2>1, <2>2, <2>3
<1>3. QED
  BY <1>1, <1>2 DEF Next, vars, Reader, Runner, ReadLive, ReadFile, PushLive, PushFile, PushWakes,
     PushFinished, EndOfInput, SourceBreaks, Wait, WaitWakes, WaitTimesOut, Idle, Front, Count, Pop, StopFlag,
     Halt, Join, history

LEMMA PlayingIsKept ==
  ASSUME IInv, Orderly, Reading, Playing, [Next]_vars PROVE Playing'
<1> SUFFICES ASSUME IsFile, ~Halted' PROVE Drained'
  BY OrderlyBefore, WholeBlocksAreKept DEF Playing, Orderly
<1>1. ~Halted /\ Threads /\ blocks_filled # -1 /\ blocks_filled \in -1 .. NBlocks /\ Drained
  BY OrderlyBefore DEF Orderly, IInv, Threads, Playing, TypeOK
<1>2. CASE Reader
  <2>1. UNCHANGED <<runner, gaveUp>>
    BY <1>2 DEF Reader, ReadLive, ReadFile, PushLive, PushFile, PushWakes, PushFinished, EndOfInput, rn
  <2>2. last_input => reader \in {"eoi", "ended"}
    BY <1>1 DEF Reading
  <2>3. last_input => UNCHANGED <<last_input, blocks_filled>>
    BY <1>2, <2>2, Zenon DEF Reader, ReadLive, ReadFile, PushLive, PushFile, PushWakes, PushFinished, EndOfInput,
       fifo
  <2>4. QED
    BY <1>1, <2>1, <2>3 DEF Drained
<1>3. CASE Wait \/ WaitWakes \/ WaitTimesOut
  <2>1. UNCHANGED <<blocks_filled, last_input>> /\ (runner' = "idle" => WaitReturns)
    BY <1>3 DEF Wait, WaitWakes, WaitTimesOut, fifo
  <2>2. runner' = "idle" => blocks_filled = 0
    BY <1>1, <2>1, SizesArePositive DEF WaitReturns
  <2>3. runner' = "idle" => gaveUp' = (blocks_filled = 0 /\ ~last_input)
    BY <2>1 DEF WaitReturns
  <2>4. QED
    BY <2>1, <2>2, <2>3, Zenon DEF Drained
<1>4. CASE Idle \/ Front \/ Count \/ Send \/ Pop
  BY <1>4 DEF Idle, Front, Count, Send, Pop, Drained
<1>5. CASE SourceBreaks \/ StopFlag \/ Join \/ UNCHANGED vars
  <2>1. UNCHANGED <<runner, gaveUp, last_input, blocks_filled>>
    BY <1>5 DEF SourceBreaks, StopFlag, Join, vars, fifo, rn
  <2>2. QED
    BY <1>1, <2>1 DEF Drained
<1>6. QED
  BY <1>2, <1>3, <1>4, <1>5 DEF Next, Runner, Halt, Halted

\* With the bytes from behind the ring put right, what was sent is what came in.
LEMMA RepairedIsPrefix ==
  IInv => Repaired = SubSeq(accepted, 1, Len(delivered)) /\ Len(Repaired) = Len(delivered)
<1> SUFFICES ASSUME IInv
             PROVE  Repaired = SubSeq(accepted, 1, Len(delivered)) /\ Len(Repaired) = Len(delivered)
  OBVIOUS
<1> DEFINE m == Len(delivered)
           t == SubSeq(accepted, 1, m)
<1>1. /\ accepted \in Seq(1 .. MaxBytes) /\ delivered \in Seq(-1 .. MaxBytes)
      /\ m \in Nat /\ m <= Len(accepted) /\ Len(accepted) \in Nat
      /\ \A i \in 1 .. m : delivered[i] = accepted[i] \/ Overrun(i)
  BY HeldIsInt DEF IInv, TypeOK, Ring, Prefix
<1>2. \A i \in 1 .. m : accepted[i] \in 1 .. MaxBytes
  <2>1. ASSUME NEW i \in 1 .. m PROVE accepted[i] \in 1 .. MaxBytes
    <3>1. i \in 1 .. Len(accepted)
      BY <1>1
    <3>2. QED
      BY <1>1, <3>1, ElementOfSeq, Zenon
  <2>2. QED
    BY <2>1
<1>3. t \in Seq(1 .. MaxBytes) /\ Len(t) = m /\ \A i \in 1 .. m : t[i] = accepted[i]
  BY <1>1, <1>2, SubSeqProperties
<1>4. /\ Repaired \in Seq(1 .. MaxBytes) /\ Len(Repaired) = m
      /\ \A i \in 1 .. m : Repaired[i] = accepted[i]
  BY <1>1, <1>2 DEF Repaired
<1> HIDE DEF t, m
<1>5. Repaired = t
  BY <1>3, <1>4, SeqEqual, Zenon
<1>6. QED
  BY <1>4, <1>5 DEF t, m

\* When Idle ends the run the whole blocks of the file are sent: less than a block
\* is left in the ring.
LEMMA EndsDrained ==
  ASSUME IInv, Orderly, Reading, Playing, Idle, ~done, done', ~gaveUp
  PROVE  /\ IsFile /\ reader = "ended"
         /\ produced = MaxBytes /\ Len(delivered) = (MaxBytes \div BlockSize) * BlockSize
         /\ Repaired = SubSeq(accepted, 1, Len(delivered))
<1> USE SizeIsPositive
<1>1. IsFile /\ eoi /\ streaming /\ ~Halted /\ runner = "idle"
  BY Zenon DEF Idle, IsStreaming, Orderly
<1>2. reader = "ended" /\ produced = MaxBytes /\ Len(accepted) = MaxBytes /\ blocks_filled = 0
  BY <1>1 DEF Reading, Playing, Drained
<1>3. Held = MaxBytes - Len(delivered) /\ Len(accepted) \in Nat /\ Len(delivered) \in Nat
  BY <1>1, <1>2, HeldIsInt DEF Held, Taken, InFlight, IInv
<1>4. tail % BlockSize = MaxBytes - Len(delivered)
  BY <1>2, <1>3 DEF IInv, Ring, Counted
<1>5. tail % BlockSize \in 0 .. BlockSize - 1
  <2>1. tail \in Int /\ BlockSize \in Nat \ {0}
    BY DEF IInv, TypeOK
  <2>2. QED
    BY <2>1, DivMod, Zenon
<1>6. PICK q \in Nat : Len(delivered) = q * BlockSize
  BY <1>1 DEF Playing, WholeBlocks
<1>7. MaxBytes \div BlockSize = q
  <2> DEFINE r == MaxBytes - Len(delivered)
  <2>1. r \in 0 .. BlockSize - 1 /\ MaxBytes = q * BlockSize + r
    BY <1>3, <1>4, <1>5, <1>6, SizesArePositive
  <2> HIDE DEF r
  <2>2. (q * BlockSize + r) \div BlockSize = q
    BY <1>6, <2>1, Unique
  <2>3. QED
    BY <2>1, <2>2
<1>8. Repaired = SubSeq(accepted, 1, Len(delivered))
  BY RepairedIsPrefix
<1>9. QED
  BY <1>1, <1>2, <1>6, <1>7, <1>8

LEMMA OverIsKept ==
  ASSUME Whole, [Next]_vars PROVE Over' /\ DoneIsDrained'
<1>. USE DEF Whole
<1>0. stopper' # "idle" => ~streaming'
  BY DEF Over, Next, vars, Reader, Runner, ReadLive, ReadFile, PushLive, PushFile, PushWakes,
     PushFinished, EndOfInput, SourceBreaks, Wait, WaitWakes, WaitTimesOut, Idle, Front, Count, Send, Pop,
     StopFlag, Halt, Join, device
<1>1. CASE done
  <2>1. reader = "ended" /\ runner \in {"wait", "ended"} /\ ~IsStreaming
    BY <1>1 DEF Over, IsStreaming
  <2>2. Wait \/ StopFlag \/ Halt \/ Join \/ UNCHANGED vars
    BY <2>1 DEF Next, Reader, Runner, ReadLive, ReadFile, PushLive, PushFile, PushWakes, PushFinished,
       EndOfInput, SourceBreaks, WaitWakes, WaitTimesOut, Idle, Front, Count, Send, Pop
  <2>3. UNCHANGED <<done, gaveUp, reader, produced, delivered, accepted>> /\ runner' \in {runner, "ended"}
    BY <2>1, <2>2 DEF Wait, StopFlag, Halt, Join, vars, device, rd, rn, history
  <2>4. QED
    BY <1>0, <1>1, <2>1, <2>3 DEF Over, DoneIsDrained, Repaired, Overrun
<1>2. CASE ~done /\ done'
  <2>1. Idle
    BY <1>2, Zenon DEF Next, vars, Reader, Runner, ReadLive, ReadFile, PushLive, PushFile, PushWakes,
       PushFinished, EndOfInput, SourceBreaks, Wait, WaitWakes, WaitTimesOut, Front, Count, Send, Pop, StopFlag,
       Halt, Join, device
  <2>2. /\ IsFile /\ eoi /\ streaming /\ runner' = "wait"
        /\ UNCHANGED <<gaveUp, reader, produced, delivered, accepted>>
    BY <1>2, <2>1, Zenon DEF Idle, IsStreaming, rd, history
  <2>3. Orderly /\ IInv
    BY <2>2 DEF Orderly, Over, Halted
  <2>4. ~gaveUp => /\ produced = MaxBytes /\ Len(delivered) = (MaxBytes \div BlockSize) * BlockSize
                   /\ Repaired = SubSeq(accepted, 1, Len(delivered))
    BY <1>2, <2>1, <2>3, EndsDrained
  <2>5. reader = "ended"
    BY <2>2, <2>3 DEF Reading, Orderly
  <2>6. QED
    BY <1>0, <2>2, <2>4, <2>5 DEF Over, DoneIsDrained, Repaired, Overrun
<1>3. CASE ~done'
  BY <1>0, <1>3 DEF Over, DoneIsDrained
<1>4. QED
  BY <1>1, <1>2, <1>3

\* A file that is done was sent whole, up to its last whole block and in order, for
\* every size of file, block, ring and read, also when it is stopped afterwards.
THEOREM FileIsDrained == Spec => []DoneIsDrained
<1>1. Init => Whole
  <2> SUFFICES ASSUME Init PROVE Whole
    OBVIOUS
  <2>1. Len(accepted) = 0 /\ Len(delivered) = 0
    BY DEF Init
  <2>2. WholeBlocks
    <3>1. 0 = 0 * BlockSize
      BY SizeIsPositive
    <3>2. QED
      BY <2>1, <3>1 DEF WholeBlocks
  <2>3. QED
    BY <2>1, <2>2, Initial, Zenon DEF Init, Whole, Reading, Playing, Drained, Over, DoneIsDrained
<1>2. Whole /\ [Next]_vars => Whole'
  <2> SUFFICES ASSUME Whole, [Next]_vars PROVE Whole'
    OBVIOUS
  <2>1. Orderly' => IInv' /\ Reading' /\ Playing'
    BY OrderlyBefore, Step, ReadingIsKept, PlayingIsKept DEF Whole
  <2>2. ~Orderly' => Reading' /\ Playing'
    BY DEF Orderly, Reading, Playing
  <2>3. QED
    BY <2>1, <2>2, OverIsKept DEF Whole
<1>3. Whole => DoneIsDrained
  BY DEF Whole
<1>4. QED
  BY <1>1, <1>2, <1>3, PTL DEF Spec

-----------------------------------------------------------------------------
(* What is sent is in the order of the source *)

\* The bytes that the reader is through with, and what it accepted of them.
Begun == IF reader \in {"push", "parked"} THEN produced - chunk ELSE produced
Numbered ==
  /\ \A i \in 1 .. Len(accepted) : accepted[i] <= Begun
  /\ \A i, j \in 1 .. Len(accepted) : i < j => accepted[i] < accepted[j]
  /\ IsFile => Len(accepted) = Begun /\ \A i \in 1 .. Len(accepted) : accepted[i] = i

\* A chunk that is accepted goes on where the reader is.
LEMMA CopyNumbers ==
  ASSUME TypeOK, Threads, Numbered, Copy(chunk), reader \in {"push", "parked"}, reader' = "read",
         produced' = produced
  PROVE  Numbered'
<1> DEFINE m == Len(accepted)
           first == produced - chunk
           new == [i \in 1 .. chunk |-> first + i]
<1>1. /\ accepted \in Seq(Int) /\ m \in Nat /\ chunk \in Nat /\ first \in Nat
      /\ first + chunk = produced /\ Begun = first /\ Begun' = produced
  <2>1. accepted \in Seq(1 .. MaxBytes) /\ 1 .. MaxBytes \subseteq Int
    BY SizesArePositive DEF TypeOK
  <2>2. accepted \in Seq(Int) /\ m \in Nat
    BY <2>1, SeqMonotonic, LenProperties, Zenon
  <2>3. chunk \in Nat /\ produced \in Nat /\ chunk <= produced
    BY SizesArePositive DEF TypeOK, Threads
  <2>4. QED
    BY <2>2, <2>3 DEF Begun
<1>2. accepted' = accepted \o new
  BY DEF Copy
<1>3. new \in Seq(Int) /\ Len(new) = chunk /\ \A i \in 1 .. chunk : new[i] = first + i
  BY <1>1
<1> HIDE DEF new, m, first
<1>4. /\ Len(accepted') = m + chunk
      /\ \A i \in 1 .. m : accepted'[i] = accepted[i]
      /\ \A i \in 1 .. chunk : accepted'[m + i] = first + i
  <2>1. /\ Len(accepted') = m + chunk
        /\ \A i \in 1 .. m + chunk : accepted'[i] = IF i <= m THEN accepted[i] ELSE new[i - m]
    BY <1>1, <1>2, <1>3, ConcatProperties, ZenonT(60) DEF m
  <2>2. ASSUME NEW i \in 1 .. m PROVE accepted'[i] = accepted[i]
    BY <1>1, <2>1
  <2>3. ASSUME NEW i \in 1 .. chunk PROVE accepted'[m + i] = first + i
    <3>1. m + i \in 1 .. m + chunk /\ ~(m + i <= m) /\ (m + i) - m = i
      BY <1>1
    <3>2. QED
      BY <1>3, <2>1, <3>1, Zenon
  <2>4. QED
    BY <2>1, <2>2, <2>3
<1>5. /\ \A i \in 1 .. m : accepted[i] <= first
      /\ \A i, j \in 1 .. m : i < j => accepted[i] < accepted[j]
      /\ IsFile => m = first /\ \A i \in 1 .. m : accepted[i] = i
  BY <1>1, Zenon DEF Numbered, m
<1>6. ASSUME NEW i \in 1 .. m + chunk
      PROVE  \/ i \in 1 .. m /\ accepted'[i] = accepted[i] /\ accepted[i] \in Int
             \/ i - m \in 1 .. chunk /\ accepted'[i] = first + (i - m)
  <2>1. CASE i \in 1 .. m
    BY <1>1, <1>4, <2>1, ElementOfSeq, Zenon DEF m
  <2>2. CASE i \notin 1 .. m
    <3>1. i - m \in 1 .. chunk /\ m + (i - m) = i
      BY <1>1, <2>2
    <3>2. QED
      BY <1>4, <3>1, Zenon
  <2>3. QED
    BY <2>1, <2>2
<1>7. ASSUME NEW i \in 1 .. m + chunk PROVE accepted'[i] <= produced
  BY <1>1, <1>5, <1>6, SMTT(60)
<1>8. ASSUME NEW i \in 1 .. m + chunk, NEW j \in 1 .. m + chunk, i < j
      PROVE  accepted'[i] < accepted'[j]
  <2>1. CASE j \in 1 .. m
    <3>1. i \in 1 .. m
      BY <1>1, <1>8, <2>1
    <3>2. QED
      BY <1>4, <1>5, <1>8, <2>1, <3>1, Zenon
  <2>2. CASE j \notin 1 .. m
    <3>1. j - m \in 1 .. chunk /\ accepted'[j] = first + (j - m)
      BY <1>6, <2>2, Zenon
    <3>2. QED
      BY <1>1, <1>5, <1>6, <1>8, <3>1, SMTT(60)
  <2>3. QED
    BY <2>1, <2>2
<1>9. ASSUME IsFile, NEW i \in 1 .. m + chunk PROVE accepted'[i] = i
  BY <1>1, <1>5, <1>6, <1>9, SMTT(60)
<1>10. IsFile => Len(accepted') = produced
  BY <1>1, <1>4, <1>5
<1>11. QED
  BY <1>1, <1>4, <1>7, <1>8, <1>9, <1>10, Zenon DEF Numbered

LEMMA NumberedIsKept ==
  ASSUME IInv, Orderly, Numbered, [Next]_vars PROVE Numbered'
<1>1. TypeOK /\ Threads
  BY DEF IInv
<1>2. produced \in Int /\ chunk \in Int /\ produced - chunk <= produced
  BY <1>1, SizesArePositive DEF TypeOK
<1>3. CASE UNCHANGED accepted /\ Begun' = Begun
  BY <1>3 DEF Numbered
<1>4. CASE ReadLive \/ ReadFile
  <2>1. UNCHANGED accepted /\ reader = "read"
    BY <1>4 DEF ReadLive, ReadFile, history
  <2>2. \/ reader' = "push" /\ chunk' \in Int /\ produced' = produced + chunk'
        \/ reader' \in {"ended", "finish"} /\ produced' = produced
    BY <1>2, <1>4, SizesArePositive, SMTT(60) DEF ReadLive, ReadFile
  <2>3. Begun' = Begun
    BY <1>2, <2>1, <2>2 DEF Begun
  <2>4. QED
    BY <1>3, <2>1, <2>3
<1>5. CASE SourceBreaks \/ PushFinished \/ EndOfInput
  <2>1. UNCHANGED <<accepted, produced>> /\ {reader, reader'} \cap {"push", "parked"} = {}
    BY <1>5 DEF SourceBreaks, PushFinished, EndOfInput, history
  <2>2. QED
    BY <1>3, <2>1 DEF Begun
<1>6. CASE PushLive \/ PushFile \/ PushWakes
  <2>1. /\ reader \in {"push", "parked"} /\ UNCHANGED <<produced, chunk>>
        /\ reader' \in {"read", "parked"} /\ (~IsFile => reader' = "read")
    BY <1>1, <1>6 DEF PushLive, PushFile, PushWakes, Threads
  <2>2. CASE Copy(chunk) /\ reader' = "read"
    BY <1>1, <2>1, <2>2, CopyNumbers
  <2>3. CASE reader' = "parked" /\ UNCHANGED accepted
    <3>1. Begun' = Begun
      BY <2>1, <2>3 DEF Begun
    <3>2. QED
      BY <1>3, <2>3, <3>1
  <2>4. CASE ~IsFile /\ UNCHANGED accepted
    <3>1. Begun = produced - chunk /\ Begun' = produced
      BY <2>1, <2>4 DEF Begun
    <3>2. \A i \in 1 .. Len(accepted) : accepted[i] \in Int
      <4>1. accepted \in Seq(1 .. MaxBytes)
        BY <1>1 DEF TypeOK
      <4>2. QED
        BY <4>1, SizesArePositive
    <3>3. \A i \in 1 .. Len(accepted) : accepted[i] <= Begun'
      BY <1>2, <3>1, <3>2 DEF Numbered
    <3>4. QED
      BY <2>4, <3>3 DEF Numbered
  <2>5. IsFile => blocks_filled # -1
    BY <1>1 DEF Threads, Orderly
  <2>6. QED
    BY <1>6, <2>2, <2>3, <2>4, <2>5, <1>1 DEF PushLive, PushFile, PushWakes, Threads
<1>7. CASE Runner \/ WaitTimesOut \/ StopFlag \/ Halt \/ Join \/ UNCHANGED vars
  <2>1. UNCHANGED <<accepted, rd>>
    BY <1>7 DEF Runner, Wait, WaitWakes, WaitTimesOut, Idle, Front, Count, Send, Pop, StopFlag, Halt, Join, vars,
                history
  <2>2. QED
    BY <1>3, <2>1 DEF Begun, rd
<1>8. QED
  BY <1>4, <1>5, <1>6, <1>7 DEF Next, Reader

\* For every size of block, ring and read: the bytes that are sent come in the order of the
\* source and none comes twice; of a file every byte comes, until it is stopped.
THEOREM PlaysInOrder == Spec => []PlayedInOrder
<1>1. Init => (Orderly => IInv /\ Numbered)
  <2>1. Init => Numbered
    BY SizesArePositive DEF Init, Numbered, Begun
  <2>2. QED
    BY <2>1, Initial
<1>2. (Orderly => IInv /\ Numbered) /\ [Next]_vars => (Orderly => IInv /\ Numbered)'
  BY Step, OrderlyBefore, NumberedIsKept
<1>3. (Orderly => IInv /\ Numbered) => PlayedInOrder
  <2>1. SUFFICES ASSUME Orderly, IInv, Numbered PROVE PlayedInOrder
    BY DEF PlayedInOrder, Orderly
  <2>2. /\ Len(delivered) <= Len(accepted)
        /\ \A i \in 1 .. Len(delivered) : delivered[i] = accepted[i] \/ Overrun(i)
    BY <2>1 DEF IInv, Ring, Prefix
  <2>3. Len(delivered) \in Nat /\ Len(accepted) \in Nat
    <3>1. accepted \in Seq(1 .. MaxBytes) /\ delivered \in Seq(-1 .. MaxBytes)
      BY <2>1 DEF IInv, TypeOK
    <3>2. QED
      BY <3>1, LenProperties
  <2>4. \A i \in 1 .. Len(delivered) : i \in 1 .. Len(accepted)
    BY <2>2, <2>3
  <2>5. QED
    BY <2>1, <2>2, <2>4, Zenon DEF PlayedInOrder, Numbered
<1>4. QED
  BY <1>1, <1>2, <1>3, PTL DEF Spec

-----------------------------------------------------------------------------
(* The FIFO is a block stream *)

\* A chunk that Push copies is bytes the stream accepts, within its capacity.
LEMMA CopyAccepts ==
  ASSUME IInv, blocks_filled # -1, 1 <= chunk, HasSpace(chunk), Copy(chunk),
         UNCHANGED delivered, IInv'
  PROVE  Stream!Accept
<1> USE SizeIsPositive
<1> DEFINE first == produced - chunk
           new == [i \in 1 .. chunk |-> first + i]
<1>1. /\ accepted \in Seq(Int) /\ chunk \in Nat \ {0} /\ produced \in Int
      /\ Len(accepted) \in Nat /\ Len(delivered) \in Nat /\ Held \in Int /\ InFlight \in Int
  <2>1. accepted \in Seq(1 .. MaxBytes) /\ 1 .. MaxBytes \subseteq Int
    BY SizesArePositive DEF IInv, TypeOK
  <2>2. accepted \in Seq(Int)
    BY <2>1, SeqMonotonic, Zenon
  <2>3. chunk \in Nat \ {0} /\ produced \in Int
    BY DEF IInv, TypeOK
  <2>4. QED
    BY <2>2, <2>3, HeldIsInt DEF IInv
<1>2. new \in Seq(Int) /\ Len(new) = chunk /\ accepted' = accepted \o new
  BY <1>1 DEF Copy
<1> HIDE DEF new
<1>3. /\ accepted' \in Seq(Int) /\ Len(accepted') = Len(accepted) + chunk
      /\ \A i \in 1 .. Len(accepted) : accepted'[i] = accepted[i]
  <2>1. \A i \in 1 .. Len(accepted) + Len(new) :
          accepted'[i] = IF i <= Len(accepted) THEN accepted[i] ELSE new[i - Len(accepted)]
    BY <1>1, <1>2, ConcatProperties, SMTT(60)
  <2>2. accepted' \in Seq(Int) /\ Len(accepted') = Len(accepted) + chunk
    BY <1>1, <1>2, ConcatProperties, ZenonT(60)
  <2>3. ASSUME NEW i \in 1 .. Len(accepted) PROVE accepted'[i] = accepted[i]
    <3>1. i \in 1 .. Len(accepted) + Len(new) /\ i <= Len(accepted)
      BY <1>1, <1>2
    <3>2. QED
      BY <2>1, <3>1
  <2>4. QED
    BY <2>2, <2>3
<1>4. accepted = SubSeq(accepted', 1, Len(accepted))
  <2> DEFINE s == SubSeq(accepted', 1, Len(accepted))
  <2>1. \A i \in 1 .. Len(accepted) : accepted'[i] \in Int
    BY <1>1, <1>3
  <2>2. /\ s \in Seq(Int) /\ Len(s) = Len(accepted)
        /\ \A i \in 1 .. Len(accepted) : s[i] = accepted'[i]
    BY <1>1, <2>1, SubSeqProperties, SMTT(60)
  <2> HIDE DEF s
  <2>3. accepted = s
    BY <1>1, <1>3, <2>2, SeqEqual, Zenon
  <2>4. QED
    BY <2>3 DEF s
<1>5. Held + chunk <= Size
  BY <1>1, Fits
<1>6. 0 <= InFlight
  <2>1. nblocks \in Int
    BY DEF IInv, TypeOK
  <2>2. nblocks > 0 => 0 * BlockSize <= nblocks * BlockSize
    BY <2>1, Grows
  <2>3. QED
    BY <2>1, <2>2 DEF InFlight
<1>7. Len(accepted') <= Len(delivered) + Size
  BY <1>1, <1>3, <1>5, <1>6 DEF Held, Taken
<1>8. UNCHANGED Repaired /\ Len(Repaired) = Len(delivered)
  <2> DEFINE m == Len(delivered)
             s == SubSeq(accepted, 1, m)
             t == SubSeq(accepted', 1, m)
  <2>1. m <= Len(accepted)
    BY DEF IInv, Ring, Prefix
  <2>2. Repaired = s /\ Len(Repaired) = m
    BY RepairedIsPrefix
  <2>3. (IInv => Repaired = SubSeq(accepted, 1, Len(delivered)) /\ Len(Repaired) = Len(delivered))'
    BY RepairedIsPrefix, PTL
  <2>4. Repaired' = t
    BY <2>3
  <2>5. s \in Seq(Int) /\ Len(s) = m /\ \A i \in 1 .. m : s[i] = accepted[i]
    BY <1>1, <2>1, SubSeqProperties, SMTT(60)
  <2>6. t \in Seq(Int) /\ Len(t) = m /\ \A i \in 1 .. m : t[i] = accepted[i]
    BY <1>1, <1>3, <2>1, SubSeqProperties, SMTT(60)
  <2> HIDE DEF s, t
  <2>7. s = t
    BY <2>5, <2>6, SeqEqual, Zenon
  <2>8. QED
    BY <2>2, <2>4, <2>7
<1>9. QED
  BY <1>1, <1>3, <1>4, <1>7, <1>8, SMTT(60) DEF Stream!Accept, Size

\* What Send hands on is the next whole blocks of the stream, or nothing.
LEMMA SendDelivers ==
  ASSUME IInv, Send, IInv'
  PROVE  Stream!Deliver \/ UNCHANGED <<accepted, delivered>>
<1> USE SizeIsPositive
<1>1. /\ nblocks \in -1 .. NBlocks /\ runner = "send" /\ UNCHANGED accepted
      /\ UNCHANGED delivered \/ runner' = "pop"
  BY DEF IInv, TypeOK, Send
<1>2. CASE nblocks <= 0
  BY <1>1, <1>2, SendsNothing
<1>3. CASE runner' = "pop" /\ ~(nblocks <= 0)
  <2>1. nblocks \in 1 .. NBlocks /\ nblocks >= 0
    BY <1>1, <1>3
  <2>2. Len(delivered') = Len(delivered) + nblocks * BlockSize
    BY <1>3, <2>1, SendAppends
  <2>3. Len(delivered) + nblocks * BlockSize <= Len(accepted)
    BY <1>1, SendsNext
  <2>4. Len(Repaired) = Len(delivered)
    BY RepairedIsPrefix
  <2>5. (IInv => Repaired = SubSeq(accepted, 1, Len(delivered)) /\ Len(Repaired) = Len(delivered))'
    BY RepairedIsPrefix, PTL
  <2>6. QED
    BY <1>1, <2>1, <2>2, <2>3, <2>4, <2>5, Zenon DEF Stream!Deliver
<1>4. QED
  BY <1>1, <1>2, <1>3

\* The FIFO of a live source implements BlockStream: the bytes it accepted come out
\* in order and in whole blocks, none twice and none skipped.
THEOREM ImplementsStream ==
  ASSUME ~IsFile PROVE Spec => RefinesStream
<1>1. Init => Stream!Init
  BY DEF Init, Stream!Init, Repaired
<1>2. IInv /\ [Next]_vars => [Stream!Next]_<<accepted, Repaired>>
  <2> SUFFICES ASSUME IInv, [Next]_vars
               PROVE  [Stream!Next]_<<accepted, Repaired>>
    OBVIOUS
  <2>0. IInv'
    BY Step DEF Orderly
  <2>1. CASE PushLive
    <3>1. CASE UNCHANGED history
      BY <3>1 DEF history, Repaired, Overrun
    <3>2. CASE /\ blocks_filled # -1 /\ 1 <= chunk /\ HasSpace(chunk) /\ Copy(chunk)
               /\ UNCHANGED delivered
      BY <2>0, <3>2, CopyAccepts DEF Stream!Next
    <3>3. QED
      BY <2>1, <3>1, <3>2, PushCases DEF Orderly
  <2>2. CASE Send
    BY <2>0, <2>2, SendDelivers DEF Stream!Next, Repaired, Overrun
  <2>3. CASE \/ ReadLive \/ SourceBreaks \/ StopFlag \/ Halt \/ Join \/ Wait \/ WaitWakes
             \/ WaitTimesOut \/ Idle \/ Front \/ Count \/ Pop \/ UNCHANGED vars
    BY <2>3 DEF ReadLive, SourceBreaks, StopFlag, Halt, Join, Wait, WaitWakes, WaitTimesOut,
       Idle, Front, Count, Pop, vars, history, Repaired, Overrun
  <2>4. QED
    BY <2>1, <2>2, <2>3, LiveSteps
<1>3. (Orderly => IInv) => IInv
  BY DEF Orderly
<1>4. QED
  BY <1>1, <1>2, <1>3, Invariant, PTL DEF Spec, RefinesStream, Stream!Spec
=============================================================================

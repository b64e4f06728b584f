----------------------------- MODULE SampleFifo -----------------------------
(***************************************************************************)
(* The block FIFO between the thread that reads samples and the thread that*)
(* decodes them (FIFO.h), with the device code around it: the reader thread*)
(* (RunAsync, ReadAsync, the libusb callback), the run thread (Run) and    *)
(* Stop().                                                                 *)
(*                                                                         *)
(* Every FIFO method holds fifo_mutex throughout and is one step, but      *)
(* Front, which takes no lock and reads blocks_filled twice, and the two   *)
(* condition waits, which release it: a thread that waits is "parked" until*)
(* it is notified.                                                         *)
(***************************************************************************)
EXTENDS Integers, Sequences

CONSTANTS
  BlockSize,   \* BLOCK_SIZE
  NBlocks,     \* N_BLOCKS
  Chunks,      \* the sizes a read of the source returns
  MaxBytes,    \* bound: bytes the source produces; of a file, its length
  IsFile       \* FileRAW: Push waits for space, the end of the file is told

ASSUME SizesArePositive ==
  /\ BlockSize \in Nat \ {0}
  /\ NBlocks \in Nat \ {0}
  /\ Chunks \subseteq Nat \ {0}
  /\ MaxBytes \in Nat
ASSUME IsFileIsBool == IsFile \in BOOLEAN

Size == NBlocks * BlockSize
Garbage == -1   \* a byte from behind the buffer

VARIABLES
  \* the FIFO; bytes are the numbers 1, 2, ... the source gave them, 0 is none
  data, head, tail, blocks_filled, last_input,
  \* the condition variables: has the parked thread been notified?
  readySignal, spaceSignal,
  \* the device: does Run() take all blocks up to the wrap (RTLTCP, FileRAW) or
  \* one; Device::streaming, the flags that end it earlier, eoi
  wholeRun, streaming, lost, done, eoi,
  \* reader thread: step, the chunk it is about to push, bytes read so far
  reader, chunk, produced,
  \* run thread: step, blocks in flight, whether its last Wait gave up
  runner, nblocks, gaveUp,
  \* the thread in Stop()
  stopper,
  \* history: bytes that entered the FIFO, bytes handed to Send
  accepted, delivered

fifo    == <<data, head, tail, blocks_filled, last_input>>
signals == <<readySignal, spaceSignal>>
device  == <<wholeRun, streaming, lost, done, eoi>>
rd      == <<reader, chunk, produced>>
rn      == <<runner, nblocks, gaveUp>>
history == <<accepted, delivered>>
vars == <<fifo, signals, device, rd, rn, stopper, history>>

IsStreaming == streaming /\ ~lost /\ ~done
Running == runner # "crashed"

Init ==
  /\ data = [i \in 0 .. Size - 1 |-> 0]
  /\ head = 0 /\ tail = 0 /\ blocks_filled = 0 /\ last_input = FALSE
  /\ readySignal = FALSE /\ spaceSignal = FALSE
  /\ wholeRun \in IF IsFile THEN {TRUE} ELSE BOOLEAN
  /\ streaming = TRUE /\ lost = FALSE /\ done = FALSE /\ eoi = FALSE
  /\ reader = "read" /\ chunk = 0 /\ produced = 0
  /\ runner = "wait" /\ nblocks = 0 /\ gaveUp = FALSE
  /\ stopper = "idle"
  /\ accepted = <<>> /\ delivered = <<>>

-----------------------------------------------------------------------------
(* FIFO *)

\* Mutants: a block counts as soon as it is begun; the tail block is free.
ReadyWhenBegun(sz) == ((tail % BlockSize) + sz + BlockSize - 1) \div BlockSize
NeededWhenComplete(sz) == ((tail % BlockSize) + sz) \div BlockSize

\* blocks this chunk completes, and blocks it needs
Ready(sz)  == ((tail % BlockSize) + sz) \div BlockSize
Needed(sz) == ((tail % BlockSize) + sz - 1) \div BlockSize + 1
HasSpace(sz) == blocks_filled + Needed(sz) <= NBlocks

\* Mutant: Push completes a block and tells nobody.
CopySilently(sz) ==
  LET first == produced - sz IN
  /\ data' = [i \in 0 .. Size - 1 |->
                LET k == (i - tail) % Size IN
                IF k < sz THEN first + k + 1 ELSE data[i]]
  /\ tail' = (tail + sz) % Size
  /\ blocks_filled' = blocks_filled + Ready(sz)
  /\ accepted' = accepted \o [i \in 1 .. sz |-> first + i]
  /\ UNCHANGED <<head, last_input, readySignal>>

\* The second half of Push: copy, around the end of the buffer if need be.
Copy(sz) ==
  LET first == produced - sz IN
  /\ data' = [i \in 0 .. Size - 1 |->
                LET k == (i - tail) % Size IN
                IF k < sz THEN first + k + 1 ELSE data[i]]
  /\ tail' = (tail + sz) % Size
  /\ blocks_filled' = blocks_filled + Ready(sz)
  /\ readySignal' = (readySignal \/ Ready(sz) > 0)
  /\ accepted' = accepted \o [i \in 1 .. sz |-> first + i]
  /\ UNCHANGED <<head, last_input>>

\* Mutant: the end of the input outranks the blocks that are left.
WaitReturnsAtEnd ==
  /\ runner' = IF blocks_filled > 0 /\ ~last_input THEN "front" ELSE "idle"
  /\ gaveUp' = (blocks_filled = 0 /\ ~last_input)

\* The outcome of Wait() once it stops waiting.
WaitReturns ==
  /\ runner' = IF blocks_filled > 0 THEN "front" ELSE "idle"
  /\ gaveUp' = (blocks_filled = 0 /\ ~last_input)

-----------------------------------------------------------------------------
(* Reader thread *)

\* Loop head and read of a live source, which may keep silent for ever.
ReadLive ==
  /\ Running /\ reader = "read" /\ ~IsFile
  /\ \/ /\ ~IsStreaming
        /\ reader' = "ended"
        /\ UNCHANGED <<chunk, produced>>
     \/ /\ IsStreaming
        /\ \E sz \in Chunks :
             /\ produced + sz <= MaxBytes
             /\ chunk' = sz /\ produced' = produced + sz
        /\ reader' = "push"
  /\ UNCHANGED <<fifo, signals, device, rn, stopper, history>>

\* The dongle or the connection is gone.
SourceBreaks ==
  /\ Running /\ reader = "read" /\ ~IsFile /\ IsStreaming
  /\ lost' = TRUE /\ reader' = "ended"
  /\ UNCHANGED <<fifo, signals, wholeRun, streaming, done, eoi, chunk, produced, rn,
                 stopper, history>>

\* A file is read in chunks of the buffer's size, the last one may be shorter.
ReadFile ==
  /\ Running /\ reader = "read" /\ IsFile
  /\ IF streaming /\ produced < MaxBytes
     THEN \E c \in Chunks :
            LET sz == IF produced + c <= MaxBytes THEN c ELSE MaxBytes - produced IN
            /\ chunk' = sz /\ produced' = produced + sz
            /\ reader' = "push"
     ELSE reader' = "finish" /\ UNCHANGED <<chunk, produced>>
  /\ UNCHANGED <<fifo, signals, device, rn, stopper, history>>

\* Push without waiting: a halted or full FIFO refuses, and the chunk is lost.
PushLive ==
  /\ Running /\ reader = "push" /\ ~IsFile
  /\ reader' = "read"
  /\ IF IsStreaming /\ blocks_filled # -1 /\ HasSpace(chunk)
     THEN Copy(chunk)
     ELSE UNCHANGED <<fifo, readySignal, accepted>>
  /\ UNCHANGED <<spaceSignal, device, chunk, produced, rn, stopper, delivered>>

\* Mutant: a file is pushed like a live source.
PushFileAtOnce ==
  /\ Running /\ reader = "push" /\ IsFile
  /\ reader' = "read"
  /\ IF blocks_filled # -1 /\ HasSpace(chunk)
     THEN Copy(chunk)
     ELSE UNCHANGED <<fifo, readySignal, accepted>>
  /\ UNCHANGED <<spaceSignal, device, chunk, produced, rn, stopper, delivered>>

\* Push that waits for space.
PushFile ==
  /\ Running /\ reader = "push" /\ IsFile
  /\ IF blocks_filled # -1 /\ ~HasSpace(chunk)
     THEN /\ reader' = "parked" /\ spaceSignal' = FALSE
          /\ UNCHANGED <<fifo, readySignal, accepted>>
     ELSE /\ reader' = "read" /\ UNCHANGED spaceSignal
          /\ IF blocks_filled # -1
             THEN Copy(chunk)
             ELSE UNCHANGED <<fifo, readySignal, accepted>>
  /\ UNCHANGED <<device, chunk, produced, rn, stopper, delivered>>

\* The wait for space ends when there is some or the FIFO is halted.  After a
\* halt the chunk is copied all the same, and blocks_filled counts on from -1.
PushWakes ==
  /\ Running /\ reader = "parked" /\ spaceSignal
  /\ spaceSignal' = FALSE
  /\ IF blocks_filled # -1 /\ ~HasSpace(chunk)
     THEN UNCHANGED <<fifo, readySignal, accepted, reader>>
     ELSE Copy(chunk) /\ reader' = "read"
  /\ UNCHANGED <<device, chunk, produced, rn, stopper, delivered>>

PushFinished ==
  /\ Running /\ reader = "finish"
  /\ last_input' = TRUE /\ readySignal' = TRUE
  /\ reader' = "eoi"
  /\ UNCHANGED <<data, head, tail, blocks_filled, spaceSignal, device, chunk,
                 produced, rn, stopper, history>>

EndOfInput ==
  /\ Running /\ reader = "eoi"
  /\ eoi' = TRUE /\ reader' = "ended"
  /\ UNCHANGED <<fifo, signals, wholeRun, streaming, lost, done, chunk, produced, rn,
                 stopper, history>>

Reader == ReadLive \/ ReadFile \/ PushLive \/ PushFile \/ PushWakes
          \/ PushFinished \/ EndOfInput

-----------------------------------------------------------------------------
(* Run thread *)

\* Loop head and Wait() up to the wait itself.
Wait ==
  /\ Running /\ runner = "wait"
  /\ IF ~IsStreaming
     THEN runner' = "ended" /\ UNCHANGED <<gaveUp, readySignal>>
     ELSE IF blocks_filled = 0 /\ ~last_input
     THEN runner' = "parked" /\ readySignal' = FALSE /\ UNCHANGED gaveUp
     ELSE WaitReturns /\ UNCHANGED readySignal
  /\ UNCHANGED <<fifo, spaceSignal, device, rd, nblocks, stopper, history>>

\* A notification: look again.
WaitWakes ==
  /\ Running /\ runner = "parked" /\ readySignal
  /\ readySignal' = FALSE
  /\ IF blocks_filled # 0 \/ last_input
     THEN WaitReturns
     ELSE UNCHANGED <<runner, gaveUp>>
  /\ UNCHANGED <<fifo, spaceSignal, device, rd, nblocks, stopper, history>>

\* The timeout of wait_for.
WaitTimesOut ==
  /\ Running /\ runner = "parked"
  /\ WaitReturns
  /\ UNCHANGED <<fifo, signals, device, rd, nblocks, stopper, history>>

\* Nothing came: at the end of a file this is the end of the run.
Idle ==
  /\ Running /\ runner = "idle"
  /\ done' = (done \/ (IsFile /\ eoi /\ IsStreaming))
  /\ runner' = "wait"
  /\ UNCHANGED <<fifo, signals, wholeRun, streaming, lost, eoi, rd, nblocks, gaveUp,
                 stopper, history>>

\* Front(nblocks) without the lock: blocks_filled is compared with the blocks up to
\* the wrap, and if it is less it is read again.  Front() reads nothing.
Front ==
  LET toWrap == (Size - head) \div BlockSize IN
  /\ Running /\ runner = "front"
  /\ IF wholeRun /\ blocks_filled < toWrap
     THEN runner' = "count" /\ UNCHANGED nblocks
     ELSE runner' = "send" /\ nblocks' = IF wholeRun THEN toWrap ELSE 1
  /\ UNCHANGED <<fifo, signals, device, rd, gaveUp, stopper, history>>

\* The second read: a Push in between can have made it more than is left to the wrap.
Count ==
  /\ Running /\ runner = "count"
  /\ nblocks' = blocks_filled
  /\ runner' = "send"
  /\ UNCHANGED <<fifo, signals, device, rd, gaveUp, stopper, history>>

\* Send: the bytes from head on.  With nblocks = -1 the size is negative: the
\* converter for raw samples throws, other consumers loop zero times.  What lies
\* behind the buffer is garbage, or may not be read at all.
Send ==
  /\ Running /\ runner = "send"
  /\ \/ /\ nblocks < 0 \/ head + nblocks * BlockSize > Size
        /\ runner' = "crashed"
        /\ UNCHANGED delivered
     \/ /\ runner' = "pop"
        /\ delivered' = delivered \o
             [i \in 1 .. (IF nblocks > 0 THEN nblocks * BlockSize ELSE 0) |->
                IF head + i - 1 < Size THEN data[head + i - 1] ELSE Garbage]
  /\ UNCHANGED <<fifo, signals, device, rd, nblocks, gaveUp, stopper, accepted>>

\* Mutant: Pop takes what it is told, without looking at what is there.
PopUnchecked ==
  /\ Running /\ runner = "pop"
  /\ runner' = "wait"
  /\ head' = (head + nblocks * BlockSize) % Size
  /\ blocks_filled' = blocks_filled - nblocks
  /\ spaceSignal' = TRUE
  /\ UNCHANGED <<data, tail, last_input, readySignal, device, rd, nblocks,
                 gaveUp, stopper, history>>

\* Pop(nblocks): of a halted FIFO nothing is taken.
Pop ==
  LET count == IF blocks_filled < nblocks THEN blocks_filled ELSE nblocks IN
  /\ Running /\ runner = "pop"
  /\ runner' = "wait"
  /\ IF count > 0
     THEN /\ head' = (head + count * BlockSize) % Size
          /\ blocks_filled' = blocks_filled - count
          /\ spaceSignal' = TRUE
     ELSE UNCHANGED <<head, blocks_filled, spaceSignal>>
  /\ UNCHANGED <<data, tail, last_input, readySignal, device, rd, nblocks,
                 gaveUp, stopper, history>>

Runner == Wait \/ WaitWakes \/ Idle \/ Front \/ Count \/ Send \/ Pop

-----------------------------------------------------------------------------
(* Stop(): the flag, Halt(), the joins *)

StopFlag ==
  /\ Running /\ stopper = "idle" /\ streaming
  /\ streaming' = FALSE /\ stopper' = "halt"
  /\ UNCHANGED <<fifo, signals, wholeRun, lost, done, eoi, rd, rn, history>>

\* Mutant: Halt() sets the mark and notifies nobody.
HaltSilently ==
  /\ Running /\ stopper = "halt"
  /\ blocks_filled' = -1
  /\ stopper' = "join"
  /\ UNCHANGED <<data, head, tail, last_input, signals, device, rd, rn, history>>

Halt ==
  /\ Running /\ stopper = "halt"
  /\ blocks_filled' = -1
  /\ readySignal' = TRUE /\ spaceSignal' = TRUE
  /\ stopper' = "join"
  /\ UNCHANGED <<data, head, tail, last_input, device, rd, rn, history>>

Join ==
  /\ Running /\ stopper = "join"
  /\ reader = "ended" /\ runner = "ended"
  /\ stopper' = "stopped"
  /\ UNCHANGED <<fifo, signals, device, rd, rn, history>>

-----------------------------------------------------------------------------
Next == Reader \/ SourceBreaks \/ Runner \/ WaitTimesOut \/ StopFlag \/ Halt \/ Join

Spec == Init /\ [][Next]_vars

\* Every thread runs on; the timeout of Wait is never relied upon.
FairSpec == Spec /\ WF_vars(Reader) /\ WF_vars(Runner) /\ WF_vars(Halt \/ Join)

Halted == stopper \in {"join", "stopped"}

TypeOK ==
  /\ data \in [0 .. Size - 1 -> 0 .. MaxBytes]
  /\ head \in 0 .. Size - 1 /\ tail \in 0 .. Size - 1
  /\ blocks_filled \in -1 .. NBlocks /\ last_input \in BOOLEAN
  /\ readySignal \in BOOLEAN /\ spaceSignal \in BOOLEAN
  /\ wholeRun \in BOOLEAN
  /\ streaming \in BOOLEAN /\ lost \in BOOLEAN /\ done \in BOOLEAN
  /\ eoi \in BOOLEAN
  /\ reader \in {"read", "push", "parked", "finish", "eoi", "ended"}
  /\ chunk \in 0 .. MaxBytes /\ produced \in 0 .. MaxBytes
  /\ runner \in {"wait", "parked", "idle", "front", "count", "send", "pop", "ended",
                 "crashed"}
  /\ nblocks \in -1 .. NBlocks /\ gaveUp \in BOOLEAN
  /\ stopper \in {"idle", "halt", "join", "stopped"}
  /\ accepted \in Seq(1 .. MaxBytes) /\ delivered \in Seq(-1 .. MaxBytes)

\* The one thing that goes wrong in the FIFO: bytes from behind the buffer.  It takes
\* a ring of three blocks or more and a device that takes several at once, which the
\* ones that read text are; those that take raw samples so have two blocks.
Overrun(i) == delivered[i] = Garbage /\ NBlocks > 2
Repaired == [i \in 1 .. Len(delivered) |->
               IF Overrun(i) THEN accepted[i] ELSE delivered[i]]

\* While Send works on a block nobody writes into it: the blocks in flight stay
\* the next bytes of the stream, and they end with the ring, unless blocks_filled
\* grew between the two reads of Front and there are more than two blocks.  (A file's
\* reader that was waiting for space writes on after Halt().)
FrontIntact ==
  runner = "send" /\ ~(IsFile /\ Halted) =>
    /\ head + nblocks * BlockSize > Size => wholeRun /\ NBlocks > 2
    /\ \A i \in 1 .. nblocks * BlockSize :
         /\ Len(delivered) + i <= Len(accepted)
         /\ head + i - 1 < Size => data[head + i - 1] = accepted[Len(delivered) + i]

\* What Send is given is in the order of the source, none of it twice, and of a file
\* nothing is missing before it: the bytes are numbered as the source gave them, so
\* this also covers what happens before Push and a Pop that frees less than was sent.
PlayedInOrder ==
  ~(IsFile /\ Halted) =>
    /\ \A i, j \in 1 .. Len(delivered) :
         i < j /\ ~Overrun(i) /\ ~Overrun(j) => delivered[i] < delivered[j]
    /\ IsFile => \A i \in 1 .. Len(delivered) : delivered[i] = i \/ Overrun(i)

\* The FIFO is a block stream, but for the bytes from behind the buffer.
Stream == INSTANCE BlockStream WITH
  BlockSize <- BlockSize, NBlocks <- NBlocks,
  accepted <- accepted, delivered <- Repaired
RefinesStream == Stream!Spec

\* Stop() returns: Halt() frees whatever the two threads wait for.
StopReturns == (stopper # "idle") ~> (stopper = "stopped" \/ ~Running)

\* A file run is done when every whole block of the file was sent, unless the
\* last Wait gave up: eoi can come between its timeout and the test of eoi.
DoneIsDrained ==
  done /\ ~gaveUp =>
    /\ produced = MaxBytes /\ Len(delivered) = (MaxBytes \div BlockSize) * BlockSize
    /\ Repaired = SubSeq(accepted, 1, Len(delivered))

\* A file that nobody stops is played to its end: neither the reader waits for ever
\* for space nor the run thread for a block that is there.
FileEnds == <>(done \/ ~streaming \/ ~Running)
=============================================================================

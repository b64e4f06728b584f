----------------------------- MODULE BlockStream -----------------------------
(***************************************************************************)
(* What a sample FIFO promises its reader: the bytes it accepted, in order *)
(* and in whole blocks, none twice and none skipped, and at most its       *)
(* capacity of them undelivered (FIFO.h).                                  *)
(***************************************************************************)
EXTENDS Naturals, Sequences

CONSTANTS
  BlockSize,   \* BLOCK_SIZE
  NBlocks      \* N_BLOCKS

VARIABLES accepted, delivered

Init == accepted = <<>> /\ delivered = <<>>

\* The writer adds bytes at the end.
Accept ==
  /\ Len(accepted) < Len(accepted')
  /\ accepted = SubSeq(accepted', 1, Len(accepted))
  /\ Len(accepted') <= Len(delivered) + NBlocks * BlockSize
  /\ UNCHANGED delivered

\* The reader is handed the next blocks.
Deliver ==
  \E n \in 1 .. NBlocks :
    /\ Len(delivered) + n * BlockSize <= Len(accepted)
    /\ delivered' = SubSeq(accepted, 1, Len(delivered) + n * BlockSize)
    /\ UNCHANGED accepted

Next == Accept \/ Deliver

Spec == Init /\ [][Next]_<<accepted, delivered>>
=============================================================================

----------------------------- MODULE MCGuestHeap -----------------------------
(* A heap of five grains in words of 256.  The sizes reach every branch of *)
(* allocate: the null size, one grain, a grain and a byte (so that capacity *)
(* and size differ), a block big enough that reuse splits off 0x20 or more, *)
(* or leaves a remainder of one grain with the block, a size that takes the *)
(* bump pointer past the end of the word, and one whose rounding wraps.     *)
EXTENDS GuestHeap, FiniteSets

MCRequests == {0, 16, 17, 48, 240, 250}

(* Bound: after a wrap the blocks overlap and can be split without end, so  *)
(* only the states with at most this many of them are explored further.     *)
MaxWrappedBlocks == 3

Explored ==
  wrapped => Cardinality(Live(heap)) + Cardinality(heap.free) <= MaxWrappedBlocks
==============================================================================

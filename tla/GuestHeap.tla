------------------------------ MODULE GuestHeap ------------------------------
(***************************************************************************)
(* The guest heap: CeMemory's block metadata (ce_memory.h) and the         *)
(* allocator every guest-visible allocation goes through                   *)
(* (coredll_memory_runtime.cpp), driven by the Local*, Heap*, Virtual*,    *)
(* malloc and operator new/delete exports (coredll_memory.cpp).            *)
(*                                                                         *)
(* The heap is a range that a bump pointer eats from the bottom; released  *)
(* blocks are reused best fit, split when the rest is worth keeping, and   *)
(* never coalesced.  Contents of the blocks are not modelled.              *)
(***************************************************************************)
EXTENDS Integers, Functions

CONSTANTS
  HeapStart,   \* first address the bump pointer hands out (0x30010000)
  HeapLimit,   \* end of the mapped heap (0x34000000)
  WordSize,    \* 2^32: addresses and sizes are uint32_t
  Requests,    \* the sizes a guest asks for, any uint32_t values
  MaxHandles   \* bound on the heap handles HeapCreate makes

Grain    == 16   \* every capacity is rounded up to a multiple of 0x10
MinSplit == 32   \* a remainder under 0x20 stays with the block

(* The exports check no size: a guest may ask for anything that fits a word. *)
ASSUME HeapAssumption ==
  /\ HeapStart \in Nat /\ HeapStart > 0 /\ HeapStart % Grain = 0
  /\ HeapLimit \in Nat /\ HeapStart <= HeapLimit
  /\ WordSize \in Nat /\ WordSize % Grain = 0 /\ HeapLimit < WordSize
  /\ Requests \subseteq 0 .. (WordSize - 1)
  /\ MaxHandles \in Nat

VARIABLES
  heap,        \* CeMemory: [live, free, next], see HeapType
  heaps,       \* handles of kind GuestHeap, numbered in creation order
  heapsMade,   \* how many such handles were made
  processHeap, \* processHeapHandle_, 0 until GetProcessHeap
  lastError,   \* the runtime's lastError_
  wrapped      \* history: an allocation succeeded through a sum that wrapped

vars == <<heap, heaps, heapsMade, processHeap, lastError, wrapped>>

----------------------------------------------------------------------------
(* The allocator as operators on the heap's metadata.                       *)

(* The sum of two uint32_t values wraps at most once.                       *)
Wrap(x) == IF x >= WordSize THEN x - WordSize ELSE x

(* Rounding this size up passes the end of the word: its capacity is 0.     *)
RoundingWraps(size) == size + Grain - 1 >= WordSize

(* Mutant: rounds down.                                                     *)
RoundDown(size) == size - (size % Grain)

(* (size + 0x0f) & ~0x0f                                                    *)
RoundUp(size) == LET s == Wrap(size + Grain - 1) IN s - (s % Grain)

Live(h) == DOMAIN h.live

NoBlocks == [a \in {} |-> [size |-> 0, cap |-> 0]]

(* allocationSizes()[a] = size and allocationCapacities()[a] = cap.         *)
Record(live, a, size, cap) ==
  [x \in DOMAIN live \cup {a} |->
     IF x = a THEN [size |-> size, cap |-> cap] ELSE live[x]]

(* Mutant: the remainder is recorded at the block's own address.            *)
RestAtBlock(f, capacity) ==
  IF f.cap - capacity >= MinSplit
  THEN {[cap |-> f.cap - capacity, addr |-> f.addr]} ELSE {}

(* What is split off free block f when capacity of it is used: nothing when *)
(* the remainder is under 0x20, which then stays with the block.            *)
Remainder(f, capacity) ==
  IF f.cap - capacity >= MinSplit
  THEN {[cap |-> f.cap - capacity, addr |-> Wrap(f.addr + capacity)]} ELSE {}

(* Reuse free block f.                                                      *)
TakeFree(h, f, size, capacity) ==
  LET rest == Remainder(f, capacity)
      cap  == IF rest = {} THEN f.cap ELSE capacity
  IN  [addr  |-> f.addr,
       wraps |-> RoundingWraps(size),
       heap  |-> [live |-> Record(h.live, f.addr, size, cap),
                  free |-> (h.free \ {f}) \cup rest,
                  next |-> h.next]]

(* Take fresh space at the bump pointer.                                    *)
Bump(h, size, capacity) ==
  [addr  |-> h.next,
   wraps |-> RoundingWraps(size) \/ h.next + capacity >= WordSize,
   heap  |-> [live |-> Record(h.live, h.next, size, capacity),
              free |-> h.free,
              next |-> Wrap(h.next + capacity)]]

Fitting(h, capacity) == {f \in h.free : f.cap >= capacity}

(* lower_bound on the capacity: any smallest block that fits (the multimap  *)
(* takes the oldest of equals; the model takes any of them).                *)
BestFits(h, capacity) ==
  {f \in Fitting(h, capacity) : \A g \in Fitting(h, capacity) : f.cap <= g.cap}

(* Mutant: tests the bump pointer before the request is added.              *)
ExhaustedBefore(h, capacity) == h.next > HeapLimit

Exhausted(h, capacity) == Wrap(h.next + capacity) > HeapLimit

(* What allocate leaves when it finds no room.                              *)
NoRoom(h) == [addr |-> 0, wraps |-> FALSE, heap |-> h]

(* The outcomes of allocate(request): the address (0 when the heap is       *)
(* exhausted), the heap it leaves, and whether a sum wrapped on the way.    *)
(* Nothing refuses a size that wraps: one whose rounding does is a request  *)
(* for no bytes, which any free block satisfies without being used up, and  *)
(* one that takes the bump pointer past 2^32 moves it under the limit.      *)
Allocate(h, request) ==
  LET size     == IF request = 0 THEN 1 ELSE request
      capacity == RoundUp(size)
  IN  IF Fitting(h, capacity) # {}
      THEN {TakeFree(h, f, size, capacity) : f \in BestFits(h, capacity)}
      ELSE IF Exhausted(h, capacity)
           THEN {NoRoom(h)}
           ELSE {Bump(h, size, capacity)}

(* What goes back to the free blocks with block a, of capacity cap.         *)
Freed(a, cap) == IF cap = 0 THEN {} ELSE {[cap |-> cap, addr |-> a]}

(* Mutant: gives back what was asked for, not what was held.                *)
ReleaseSize(h, a) ==
  IF a = 0 \/ a \notin Live(h) THEN h
  ELSE [live |-> Restrict(h.live, Live(h) \ {a}),
        free |-> h.free \cup Freed(a, RoundUp(h.live[a].size)),
        next |-> h.next]

(* releaseAllocation(a): null, or an address that is not live, is ignored.  *)
Release(h, a) ==
  IF a = 0 \/ a \notin Live(h) THEN h
  ELSE [live |-> Restrict(h.live, Live(h) \ {a}),
        free |-> h.free \cup Freed(a, h.live[a].cap),
        next |-> h.next]

(* The outcomes of re-allocating a: a new block first, and the old one      *)
(* released only when there was one and the new one could be had.           *)
Reallocate(h, a, request) ==
  {[r EXCEPT !.heap = IF r.addr # 0 /\ a \in Live(h) THEN Release(@, a) ELSE @]
     : r \in Allocate(h, request)}

----------------------------------------------------------------------------
(* The exports.                                                             *)

(* The addresses a guest passes: blocks it holds, blocks it freed before    *)
(* (double free), and null.                                                 *)
Pointers == {0} \cup Live(heap) \cup {f.addr : f \in heap.free}

(* An allocation came out as r.                                             *)
Obtain(r) ==
  /\ heap' = r.heap
  /\ wrapped' = (wrapped \/ r.wraps)

(* LocalAlloc, malloc, operator new, VirtualAlloc: lastError_ 14 on failure.*)
LocalAlloc(request) ==
  /\ \E r \in Allocate(heap, request) :
       /\ Obtain(r)
       /\ lastError' = IF r = NoRoom(heap) THEN 14 ELSE 0
  /\ UNCHANGED <<heaps, heapsMade, processHeap>>

(* LocalFree, free, operator delete, VirtualFree.                           *)
LocalFree(a) ==
  /\ heap' = Release(heap, a)
  /\ UNCHANGED <<heaps, heapsMade, processHeap, lastError, wrapped>>

(* LocalReAlloc and realloc: a null size frees.                             *)
LocalReAlloc(a, request) ==
  /\ IF request = 0
     THEN /\ heap' = Release(heap, a)
          /\ UNCHANGED <<lastError, wrapped>>
     ELSE \E r \in Reallocate(heap, a, request) :
            /\ Obtain(r)
            /\ lastError' = IF r = NoRoom(heap) THEN 14 ELSE 0
  /\ UNCHANGED <<heaps, heapsMade, processHeap>>

HeapCreate ==
  /\ heapsMade < MaxHandles
  /\ heapsMade' = heapsMade + 1
  /\ heaps' = heaps \cup {heapsMade + 1}
  /\ UNCHANGED <<heap, processHeap, lastError, wrapped>>

GetProcessHeap ==
  /\ IF processHeap = 0
     THEN /\ heapsMade < MaxHandles
          /\ heapsMade' = heapsMade + 1
          /\ heaps' = heaps \cup {heapsMade + 1}
          /\ processHeap' = heapsMade + 1
     ELSE UNCHANGED <<heaps, heapsMade, processHeap>>
  /\ UNCHANGED <<heap, lastError, wrapped>>

(* HeapDestroy refuses the process heap, and frees no block of the heap.    *)
HeapDestroy(handle) ==
  /\ IF handle \notin heaps \/ handle = processHeap
     THEN /\ lastError' = 6
          /\ UNCHANGED heaps
     ELSE /\ lastError' = 0
          /\ heaps' = heaps \ {handle}
  /\ UNCHANGED <<heap, heapsMade, processHeap, wrapped>>

InvalidHeapCall ==
  /\ lastError' = 6
  /\ UNCHANGED <<heap, heaps, heapsMade, processHeap, wrapped>>

HeapAlloc(handle, request) ==
  IF handle \notin heaps THEN InvalidHeapCall
  ELSE /\ \E r \in Allocate(heap, request) :
            /\ Obtain(r)
            /\ lastError' = IF r.addr = 0 THEN 8 ELSE 0
       /\ UNCHANGED <<heaps, heapsMade, processHeap>>

(* Unlike LocalReAlloc, a null size makes a block of one byte.              *)
HeapReAlloc(handle, a, request) ==
  IF handle \notin heaps \/ a = 0 THEN InvalidHeapCall
  ELSE /\ \E r \in Reallocate(heap, a, request) :
            /\ Obtain(r)
            /\ lastError' = IF r.addr = 0 THEN 8 ELSE 0
       /\ UNCHANGED <<heaps, heapsMade, processHeap>>

HeapFree(handle, a) ==
  IF handle \notin heaps \/ a = 0 THEN InvalidHeapCall
  ELSE /\ heap' = Release(heap, a)
       /\ lastError' = 0
       /\ UNCHANGED <<heaps, heapsMade, processHeap, wrapped>>

----------------------------------------------------------------------------
Init ==
  /\ heap = [live |-> NoBlocks, free |-> {}, next |-> HeapStart]
  /\ heaps = {}
  /\ heapsMade = 0
  /\ processHeap = 0
  /\ lastError = 0
  /\ wrapped = FALSE

Next ==
  \/ \E n \in Requests : LocalAlloc(n)
  \/ \E a \in Pointers : LocalFree(a)
  \/ \E a \in Pointers, n \in Requests : LocalReAlloc(a, n)
  \/ HeapCreate
  \/ GetProcessHeap
  \/ \E handle \in 1..MaxHandles :
       \/ HeapDestroy(handle)
       \/ \E n \in Requests : HeapAlloc(handle, n)
       \/ \E a \in Pointers, n \in Requests : HeapReAlloc(handle, a, n)
       \/ \E a \in Pointers : HeapFree(handle, a)

Spec == Init /\ [][Next]_vars

----------------------------------------------------------------------------
(* Properties.                                                              *)

(* The end of a live or free block.                                         *)
LiveEnd(h, a) == a + h.live[a].cap
FreeEnd(f)    == f.addr + f.cap

LiveType(h) ==
  /\ h.live = [a \in Live(h) |-> h.live[a]]
  /\ \A a \in Live(h) :
       /\ a \in Nat /\ a % Grain = 0 /\ a < WordSize
       /\ h.live[a] \in [size : Nat, cap : Nat]
       /\ h.live[a].size > 0 /\ h.live[a].cap % Grain = 0

FreeType(h) ==
  \A f \in h.free :
    /\ f \in [cap : Nat, addr : Nat]
    /\ f.addr % Grain = 0 /\ f.addr < WordSize
    /\ f.cap > 0 /\ f.cap % Grain = 0

HeapType(h) ==
  /\ h = [live |-> h.live, free |-> h.free, next |-> h.next]
  /\ h.next \in Nat /\ h.next % Grain = 0 /\ h.next <= HeapLimit
  /\ LiveType(h)
  /\ FreeType(h)

(* Every block lies between the heap's start and the bump pointer.          *)
InHeap(h) ==
  /\ HeapStart <= h.next
  /\ \A a \in Live(h) : HeapStart <= a /\ LiveEnd(h, a) <= h.next
  /\ \A f \in h.free : HeapStart <= f.addr /\ FreeEnd(f) <= h.next

(* Every block lies on the 16-byte grid and the bump pointer never passes   *)
(* the heap's limit, whatever is asked for; and until a sum has wrapped,    *)
(* every block lies between the heap's start and the bump pointer           *)
(* (allocate's check and its rounding).                                     *)
TypeOK ==
  /\ HeapType(heap)
  /\ wrapped \in BOOLEAN
  /\ ~wrapped => InHeap(heap)
  /\ heaps \subseteq 1..heapsMade
  /\ heapsMade \in 0..MaxHandles
  /\ processHeap \in 0..heapsMade
  /\ lastError \in {0, 6, 8, 14}

Disjoint(h) ==
  /\ \A a, b \in Live(h) : a < b => LiveEnd(h, a) <= b
  /\ \A f, g \in h.free : f # g => FreeEnd(f) <= g.addr \/ FreeEnd(g) <= f.addr
  /\ \A a \in Live(h), f \in h.free : LiveEnd(h, a) <= f.addr \/ FreeEnd(f) <= a

(* However blocks are split, reused and freed (twice, too), no two blocks,  *)
(* live or free, share a byte: allocate never hands out memory that someone *)
(* else holds, as long as no allocation has succeeded through a sum that    *)
(* wrapped.  Nothing but such an allocation can break it, so a size within  *)
(* the heap's own limit is always safe.                                     *)
BlocksDisjoint == ~wrapped => Disjoint(heap)

Covered(h) ==
  \A x \in HeapStart .. (h.next - 1) :
    \/ \E a \in Live(h) : a <= x /\ x < LiveEnd(h, a)
    \/ \E f \in h.free : f.addr <= x /\ x < FreeEnd(f)

(* No byte under the bump pointer is lost: each belongs to a live block or  *)
(* to one that can be reused, so splitting keeps its remainder and release  *)
(* gives back the whole capacity; until an allocation has wrapped, as above.*)
NoByteLost == ~wrapped => Covered(heap)

Fits(h) ==
  \A a \in Live(h) :
    /\ RoundingWraps(h.live[a].size) \/ h.live[a].size <= h.live[a].cap
    /\ h.live[a].cap < h.live[a].size + Grain + MinSplit

(* A block holds what was asked for, and keeps less than one grain and one  *)
(* split of slack, whatever block it was carved from.  Only a size whose    *)
(* rounding wraps is not held, and such a block spoils no other.            *)
LiveBlocksFit == Fits(heap)
==============================================================================

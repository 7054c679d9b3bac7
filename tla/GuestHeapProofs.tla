--------------------------- MODULE GuestHeapProofs ---------------------------
(***************************************************************************)
(* Theorems about the guest heap, for every heap size and whatever sizes    *)
(* the guest asks for.                                                      *)
(*                                                                         *)
(* The inductive invariant has two parts.  Whatever is asked for, blocks    *)
(* stay on the grid and hold what was asked for (Sound); and until an       *)
(* allocation has succeeded through a sum that wrapped, the blocks tile the *)
(* heap under the bump pointer (Tiled).  Both are properties of the         *)
(* metadata alone that each allocator operator preserves; the exports are   *)
(* compositions of those operators, so a lemma per operator is enough.      *)
(***************************************************************************)
EXTENDS GuestHeap, TLAPS

Sound(h) == HeapType(h) /\ Fits(h)

(* Every live block is as large as what was asked for.                      *)
Held(h) == \A a \in Live(h) : h.live[a].size <= h.live[a].cap

Tiled(h) == InHeap(h) /\ Disjoint(h) /\ Covered(h) /\ Held(h)

(* A size as allocate sees it, once the null size has been made 1.          *)
Size(n) == n \in Nat /\ n > 0 /\ n < WordSize

(* Rounding up gives a multiple of the grid less than one step above, and   *)
(* not below unless the sum wraps.                                          *)
LEMMA RoundUpFacts ==
  ASSUME NEW n, Size(n)
  PROVE  /\ RoundUp(n) \in Nat /\ RoundUp(n) % Grain = 0 /\ RoundUp(n) < WordSize
         /\ RoundingWraps(n) \/ n <= RoundUp(n)
         /\ RoundUp(n) < n + Grain
<1> DEFINE s == Wrap(n + Grain - 1)
<1>1. RoundUp(n) = s - (s % 16)
  BY DEF RoundUp, Grain
<1>2. WordSize \in Nat /\ n \in Nat
  BY HeapAssumption DEF Size
<1>3. CASE n + Grain - 1 < WordSize
  <2>1. s = n + 15
    BY <1>2, <1>3 DEF Wrap, Grain
  <2> HIDE DEF s
  <2> QED BY <1>1, <1>2, <1>3, <2>1 DEF Grain, Size
<1>4. CASE ~(n + Grain - 1 < WordSize)
  <2>1. s = n + 15 - WordSize /\ s \in 0 .. 14
    BY <1>2, <1>4 DEF Wrap, Grain, Size
  <2>2. s - (s % 16) = 0
    <3> HIDE DEF s
    <3> QED BY <2>1
  <2> HIDE DEF s
  <2> QED BY <1>1, <1>2, <1>4, <2>2 DEF Grain, Size, RoundingWraps
<1> QED BY <1>3, <1>4

(* Wrapping keeps an address on the grid and inside the word.               *)
LEMMA WrapFacts ==
  ASSUME NEW x \in Nat, NEW y \in Nat, x < WordSize, y < WordSize,
         x % Grain = 0, y % Grain = 0
  PROVE  /\ Wrap(x + y) \in Nat /\ Wrap(x + y) % Grain = 0 /\ Wrap(x + y) < WordSize
<1>1. WordSize \in Nat /\ WordSize % 16 = 0
  BY HeapAssumption DEF Grain
<1> QED BY <1>1 DEF Wrap, Grain

----------------------------------------------------------------------------
(* Sound, whatever is asked for.                                            *)

(* A recorded block of n bytes, its capacity on the grid and wide enough.   *)
LEMMA RecordSound ==
  ASSUME NEW h, Sound(h), NEW a, a \in Nat, a % Grain = 0, a < WordSize,
         NEW n, Size(n), NEW cap, cap \in Nat, cap % Grain = 0,
         RoundingWraps(n) \/ n <= cap, cap < n + Grain + MinSplit,
         NEW g, g.live = Record(h.live, a, n, cap)
  PROVE  LiveType(g) /\ Fits(g)
<1>1. /\ Live(g) = Live(h) \cup {a}
      /\ g.live[a] = [size |-> n, cap |-> cap]
      /\ \A b \in Live(h) : b # a => g.live[b] = h.live[b]
      /\ g.live = [b \in Live(g) |-> g.live[b]]
  BY DEF Live, Record
<1>2. ASSUME NEW b \in Live(g)
      PROVE  /\ b \in Nat /\ b % Grain = 0 /\ b < WordSize
             /\ g.live[b] \in [size : Nat, cap : Nat]
             /\ g.live[b].size > 0 /\ g.live[b].cap % Grain = 0
             /\ RoundingWraps(g.live[b].size) \/ g.live[b].size <= g.live[b].cap
             /\ g.live[b].cap < g.live[b].size + Grain + MinSplit
  <2>1. CASE b = a
    BY <2>1, <1>1 DEF Size
  <2>2. CASE b # a
    BY <2>2, <1>1 DEF Sound, HeapType, LiveType, Fits
  <2> QED BY <2>1, <2>2
<1> QED BY <1>1, <1>2 DEF LiveType, Fits

(* What TakeFree makes of free block f.                                     *)
LEMMA TakeFreeParts ==
  ASSUME NEW h, Sound(h), NEW f \in h.free, NEW n, Size(n),
         NEW c, c = RoundUp(n), f.cap >= c
  PROVE  LET rest == Remainder(f, c)
             cap  == IF rest = {} THEN f.cap ELSE c
         IN  /\ f.addr \in Nat /\ f.cap \in Nat /\ f.cap % Grain = 0 /\ f.cap > 0
             /\ f.addr % Grain = 0 /\ f.addr < WordSize
             /\ cap \in Nat /\ cap % Grain = 0 /\ c <= cap /\ cap <= f.cap
             /\ cap < c + MinSplit
             /\ \A r \in rest : /\ r = [cap |-> f.cap - c, addr |-> Wrap(f.addr + c)]
                                /\ cap = c /\ r.cap >= MinSplit
             /\ cap < f.cap => /\ rest = {[cap |-> f.cap - c,
                                             addr |-> Wrap(f.addr + c)]}
                               /\ cap = c
<1> DEFINE rest == Remainder(f, c)
           cap  == IF rest = {} THEN f.cap ELSE c
<1>1. c \in Nat /\ c % Grain = 0 /\ c < WordSize
  BY RoundUpFacts
<1>2. /\ f \in [cap : Nat, addr : Nat] /\ f.addr \in Nat /\ f.cap \in Nat
      /\ f.cap > 0 /\ f.cap % Grain = 0
      /\ f.addr % Grain = 0 /\ f.addr < WordSize
  BY DEF Sound, HeapType, FreeType
<1>3. CASE f.cap - c >= 32
  <2>1. rest = {[cap |-> f.cap - c, addr |-> Wrap(f.addr + c)]}
    BY <1>3 DEF Remainder, MinSplit
  <2>2. cap = c
    BY <2>1
  <2> QED BY <2>1, <2>2, <1>1, <1>2, <1>3 DEF MinSplit
<1>4. CASE ~(f.cap - c >= 32)
  <2>1. rest = {} /\ cap = f.cap
    BY <1>4 DEF Remainder, MinSplit
  <2> QED BY <2>1, <1>1, <1>2, <1>4 DEF MinSplit
<1> QED BY <1>3, <1>4

(* Reusing a free block, whole or split.                                    *)
LEMMA TakeFreeSound ==
  ASSUME NEW h, Sound(h), NEW f \in h.free, NEW n, Size(n),
         NEW c, c = RoundUp(n), f.cap >= c
  PROVE  Sound(TakeFree(h, f, n, c).heap)
<1> DEFINE rest == Remainder(f, c)
           cap  == IF rest = {} THEN f.cap ELSE c
           free == (h.free \ {f}) \cup rest
           g    == [live |-> Record(h.live, f.addr, n, cap), free |-> free, next |-> h.next]
<1>1. TakeFree(h, f, n, c).heap = g
  BY DEF TakeFree
<1>2. /\ c \in Nat /\ c % Grain = 0 /\ c < WordSize /\ c < n + Grain /\ n \in Nat
      /\ RoundingWraps(n) \/ n <= c
  BY RoundUpFacts DEF Size
<1>3. /\ f.addr \in Nat /\ f.cap \in Nat /\ f.cap % Grain = 0
      /\ f.addr % Grain = 0 /\ f.addr < WordSize
      /\ cap \in Nat /\ cap % Grain = 0 /\ c <= cap /\ cap < c + MinSplit
      /\ \A r \in rest : /\ r = [cap |-> f.cap - c, addr |-> Wrap(f.addr + c)]
                         /\ r.cap >= MinSplit
  BY TakeFreeParts
<1> HIDE DEF cap, rest
<1>4. LiveType(g) /\ Fits(g)
  <2>1. g.live = Record(h.live, f.addr, n, cap)
    OBVIOUS
  <2>2. RoundingWraps(n) \/ n <= cap
    <3>1. CASE RoundingWraps(n)
      BY <3>1
    <3>2. CASE n <= c
      BY <3>2, <1>2, <1>3
    <3> QED BY <3>1, <3>2, <1>2
  <2>3. cap < n + Grain + MinSplit
    BY <1>2, <1>3 DEF Grain, MinSplit
  <2> HIDE DEF g
  <2> QED BY <2>1, <2>2, <2>3, <1>3, RecordSound
<1>5. FreeType(g)
  <2>1. ASSUME NEW r \in rest
        PROVE  /\ r \in [cap : Nat, addr : Nat]
               /\ r.addr % Grain = 0 /\ r.addr < WordSize
               /\ r.cap > 0 /\ r.cap % Grain = 0
    <3>1. r = [cap |-> f.cap - c, addr |-> Wrap(f.addr + c)] /\ r.cap >= 32
      BY <1>3 DEF MinSplit
    <3>2. f.cap - c \in Nat /\ (f.cap - c) % 16 = 0 /\ f.cap - c > 0
      BY <3>1, <1>2, <1>3 DEF Grain
    <3>3. /\ Wrap(f.addr + c) \in Nat /\ Wrap(f.addr + c) % Grain = 0
          /\ Wrap(f.addr + c) < WordSize
      BY <1>2, <1>3, WrapFacts
    <3> QED BY <3>1, <3>2, <3>3 DEF Grain
  <2> QED BY <2>1 DEF FreeType, Sound, HeapType
<1>6. g = [live |-> g.live, free |-> g.free, next |-> g.next]
  OBVIOUS
<1> QED BY <1>1, <1>4, <1>5, <1>6 DEF Sound, HeapType

(* Fresh space at the bump pointer, which stays under the limit.            *)
LEMMA BumpSound ==
  ASSUME NEW h, Sound(h), NEW n, Size(n), NEW c, c = RoundUp(n), ~Exhausted(h, c)
  PROVE  Sound(Bump(h, n, c).heap)
<1> DEFINE g == Bump(h, n, c).heap
<1>1. /\ c \in Nat /\ c % Grain = 0 /\ c < WordSize /\ c < n + Grain /\ n \in Nat
      /\ RoundingWraps(n) \/ n <= c
      /\ HeapLimit \in Nat /\ HeapLimit < WordSize /\ WordSize \in Nat
  BY RoundUpFacts, HeapAssumption DEF Size
<1>2. /\ h.next \in Nat /\ h.next % Grain = 0 /\ h.next <= HeapLimit /\ h.next < WordSize
  BY <1>1 DEF Sound, HeapType
<1>3. /\ Wrap(h.next + c) \in Nat /\ Wrap(h.next + c) % Grain = 0
      /\ Wrap(h.next + c) <= HeapLimit
  <2>1. Wrap(h.next + c) \in Nat /\ Wrap(h.next + c) % Grain = 0
    BY <1>1, <1>2, WrapFacts
  <2> QED BY <2>1, <1>1 DEF Exhausted
<1>4. g = [live |-> Record(h.live, h.next, n, c), free |-> h.free,
           next |-> Wrap(h.next + c)]
  BY DEF Bump
<1>5. LiveType(g) /\ Fits(g)
  <2>1. g.live = Record(h.live, h.next, n, c)
    BY <1>4
  <2>2. c < n + Grain + MinSplit
    BY <1>1 DEF Grain, MinSplit
  <2> HIDE DEF g
  <2> QED BY <2>1, <2>2, <1>1, <1>2, RecordSound
<1>6. FreeType(g)
  BY <1>4 DEF Sound, HeapType, FreeType
<1> QED BY <1>3, <1>4, <1>5, <1>6 DEF Sound, HeapType

(* The size allocate works with.                                            *)
LEMMA RequestSize ==
  ASSUME NEW n \in Requests
  PROVE  Size(IF n = 0 THEN 1 ELSE n)
<1>1. n \in 0 .. (WordSize - 1) /\ WordSize \in Nat /\ WordSize > 1
  BY HeapAssumption DEF Grain
<1> QED BY <1>1 DEF Size

(* So every outcome of allocate is sound.                                   *)
LEMMA AllocateSound ==
  ASSUME NEW h, Sound(h), NEW n \in Requests, NEW r \in Allocate(h, n)
  PROVE  Sound(r.heap) /\ r.wraps \in BOOLEAN
<1> DEFINE size == IF n = 0 THEN 1 ELSE n
           c    == RoundUp(size)
<1>1. Size(size)
  BY RequestSize
<1>2. CASE Fitting(h, c) # {}
  <2>1. PICK f \in BestFits(h, c) : r = TakeFree(h, f, size, c)
    BY <1>2 DEF Allocate
  <2>2. f \in h.free /\ f.cap >= c
    BY DEF BestFits, Fitting
  <2>3. r.wraps = RoundingWraps(size)
    BY <2>1 DEF TakeFree
  <2>4. r.wraps \in BOOLEAN
    BY <2>3 DEF RoundingWraps
  <2> QED BY <1>1, <2>1, <2>2, <2>4, TakeFreeSound
<1>3. CASE Fitting(h, c) = {} /\ Exhausted(h, c)
  <2>1. r = NoRoom(h)
    BY <1>3 DEF Allocate
  <2> QED BY <2>1 DEF NoRoom
<1>4. CASE Fitting(h, c) = {} /\ ~Exhausted(h, c)
  <2>1. r = Bump(h, size, c)
    BY <1>4 DEF Allocate
  <2>2. r.wraps \in BOOLEAN
    BY <2>1 DEF Bump, RoundingWraps
  <2> QED BY <1>1, <1>4, <2>1, <2>2, BumpSound
<1> QED BY <1>2, <1>3, <1>4

(* Releasing any address, live or not.                                      *)
LEMMA ReleaseSound ==
  ASSUME NEW h, Sound(h), NEW a
  PROVE  Sound(Release(h, a))
<1>1. CASE a = 0 \/ a \notin Live(h)
  BY <1>1 DEF Release
<1>2. CASE ~(a = 0 \/ a \notin Live(h))
  <2> DEFINE g == Release(h, a)
  <2>1. g = [live |-> Restrict(h.live, Live(h) \ {a}),
             free |-> h.free \cup Freed(a, h.live[a].cap), next |-> h.next]
    BY <1>2 DEF Release
  <2>2. /\ Live(g) = Live(h) \ {a}
        /\ \A b \in Live(g) : g.live[b] = h.live[b]
        /\ g.live = [b \in Live(g) |-> g.live[b]]
        /\ g.free = h.free \cup Freed(a, h.live[a].cap) /\ g.next = h.next
    BY <2>1 DEF Live, Restrict
  <2>3. LiveType(g) /\ Fits(g)
    BY <2>2 DEF Sound, HeapType, LiveType, Fits
  <2>4. FreeType(g)
    <3>1. ASSUME NEW r \in Freed(a, h.live[a].cap)
          PROVE  /\ r \in [cap : Nat, addr : Nat]
                 /\ r.addr % Grain = 0 /\ r.addr < WordSize
                 /\ r.cap > 0 /\ r.cap % Grain = 0
      <4>1. r = [cap |-> h.live[a].cap, addr |-> a] /\ h.live[a].cap # 0
        BY DEF Freed
      <4>2. /\ a \in Nat /\ a % Grain = 0 /\ a < WordSize
            /\ h.live[a] \in [size : Nat, cap : Nat] /\ h.live[a].cap \in Nat
            /\ h.live[a].cap % Grain = 0
        BY <1>2 DEF Sound, HeapType, LiveType
      <4> QED BY <4>1, <4>2
    <3> QED BY <3>1, <2>2 DEF FreeType, Sound, HeapType
  <2> QED BY <2>1, <2>2, <2>3, <2>4 DEF Sound, HeapType
<1> QED BY <1>1, <1>2

(* Resizing a block is allocating, then releasing.                          *)
LEMMA ReallocateSound ==
  ASSUME NEW h, Sound(h), NEW a, NEW n \in Requests, NEW r \in Reallocate(h, a, n)
  PROVE  Sound(r.heap) /\ r.wraps \in BOOLEAN
<1>1. PICK q \in Allocate(h, n) :
        r = [q EXCEPT !.heap = IF q.addr # 0 /\ a \in Live(h) THEN Release(@, a) ELSE @]
  BY DEF Reallocate
<1>2. Sound(q.heap) /\ q.wraps \in BOOLEAN /\ Sound(Release(q.heap, a))
  BY AllocateSound, ReleaseSound
<1>3. q = [addr |-> q.addr, wraps |-> q.wraps, heap |-> q.heap]
  BY DEF Allocate, TakeFree, NoRoom, Bump
<1> QED BY <1>1, <1>2, <1>3

----------------------------------------------------------------------------
(* Tiled, until a sum wraps.                                                *)

HeapInv(h) == Sound(h) /\ Tiled(h)

(* Reusing a free block, whole or split, keeps the tiling.                  *)
LEMMA TakeFreeTiled ==
  ASSUME NEW h, HeapInv(h), NEW f \in h.free, NEW n, Size(n), ~RoundingWraps(n),
         NEW c, c = RoundUp(n), f.cap >= c
  PROVE  Tiled(TakeFree(h, f, n, c).heap)
<1> DEFINE rest == Remainder(f, c)
           cap  == IF rest = {} THEN f.cap ELSE c
           live == Record(h.live, f.addr, n, cap)
           free == (h.free \ {f}) \cup rest
           g    == [live |-> live, free |-> free, next |-> h.next]
<1>1. TakeFree(h, f, n, c).heap = g
  BY DEF TakeFree
<1>2. /\ c \in Nat /\ c % Grain = 0 /\ n <= c /\ c < n + Grain /\ n \in Nat /\ n > 0
      /\ HeapStart \in Nat /\ HeapStart > 0 /\ HeapLimit \in Nat
      /\ HeapLimit < WordSize /\ WordSize \in Nat
  BY RoundUpFacts, HeapAssumption DEF Size
<1>3. /\ f \in [cap : Nat, addr : Nat] /\ f.addr \in Nat /\ f.cap \in Nat
      /\ f.addr >= HeapStart
      /\ f.cap > 0 /\ f.addr + f.cap <= h.next
      /\ h.next \in Nat /\ h.next <= HeapLimit
  BY DEF HeapInv, Sound, HeapType, FreeType, Tiled, InHeap, FreeEnd
<1>4. /\ f.addr \notin Live(h)
      /\ \A a \in Live(h) : a + h.live[a].cap <= f.addr \/ f.addr + f.cap <= a
      /\ \A a \in Live(h) : /\ a \in Nat /\ h.live[a] \in [size : Nat, cap : Nat]
                            /\ h.live[a].cap \in Nat /\ h.live[a].size \in Nat
                            /\ h.live[a].cap >= h.live[a].size /\ h.live[a].size > 0
                            /\ HeapStart <= a /\ a + h.live[a].cap <= h.next
  BY <1>3 DEF HeapInv, Sound, Tiled, HeapType, LiveType, InHeap, Disjoint, Held,
              LiveEnd, FreeEnd
<1>5. /\ cap \in Nat /\ c <= cap /\ cap <= f.cap /\ cap < c + MinSplit
      /\ \A r \in rest : /\ r = [cap |-> f.cap - c, addr |-> f.addr + c]
                         /\ cap = c /\ r.cap >= MinSplit
      /\ cap < f.cap => rest = {[cap |-> f.cap - c, addr |-> f.addr + c]} /\ cap = c
  <2>1. Wrap(f.addr + c) = f.addr + c
    BY <1>2, <1>3 DEF Wrap
  <2>2. Sound(h)
    BY DEF HeapInv
  <2> QED BY <2>1, <2>2, TakeFreeParts
<1> HIDE DEF cap, rest
<1>6. /\ Live(g) = Live(h) \cup {f.addr}
      /\ g.live[f.addr] = [size |-> n, cap |-> cap]
      /\ \A a \in Live(h) : g.live[a] = h.live[a]
      /\ g.live[f.addr].cap = cap
      /\ g.free = free /\ g.next = h.next
  BY <1>4 DEF Live, Record
<1> HIDE DEF g, live
<1>7. InHeap(g)
  <2>1. ASSUME NEW a \in Live(g)
        PROVE  HeapStart <= a /\ LiveEnd(g, a) <= g.next
    <3>1. CASE a = f.addr
      BY <3>1, <1>2, <1>3, <1>5, <1>6 DEF LiveEnd
    <3>2. CASE a # f.addr
      BY <3>2, <1>4, <1>6 DEF LiveEnd
    <3> QED BY <3>1, <3>2
  <2>2. ASSUME NEW r \in rest
        PROVE  HeapStart <= r.addr /\ FreeEnd(r) <= h.next
    BY <1>2, <1>3, <1>5 DEF FreeEnd
  <2>3. HeapStart <= h.next /\ \A x \in h.free : HeapStart <= x.addr /\ FreeEnd(x) <= h.next
    BY DEF HeapInv, Tiled, InHeap
  <2> QED BY <2>1, <2>2, <2>3, <1>6 DEF InHeap
<1>8. Disjoint(g)
  <2>1. ASSUME NEW a \in Live(g), NEW b \in Live(g), a < b
        PROVE  LiveEnd(g, a) <= b
    <3>1. CASE a = f.addr
      BY <2>1, <3>1, <1>3, <1>4, <1>5, <1>6 DEF LiveEnd
    <3>2. CASE b = f.addr
      <4>1. a # f.addr
        BY <2>1, <3>2, <1>3
      <4>2. a \in Live(h)
        BY <4>1, <1>6
      <4>3. g.live[a] = h.live[a] /\ a \in Nat /\ h.live[a].cap \in Nat
        BY <4>2, <1>4, <1>6
      <4>4. a + h.live[a].cap <= f.addr \/ f.addr + f.cap <= a
        BY <4>2, <1>4
      <4> QED BY <2>1, <3>2, <4>3, <4>4, <1>3 DEF LiveEnd
    <3>3. CASE a # f.addr /\ b # f.addr
      BY <2>1, <3>3, <1>6 DEF HeapInv, Tiled, Disjoint, LiveEnd
    <3> QED BY <3>1, <3>2, <3>3
  <2>2. ASSUME NEW x \in h.free \ {f}
        PROVE  /\ x.addr \in Nat /\ x.cap \in Nat
               /\ x.addr + x.cap <= f.addr \/ f.addr + f.cap <= x.addr
    BY DEF HeapInv, Sound, Tiled, HeapType, FreeType, Disjoint, FreeEnd
  <2>3. ASSUME NEW x \in free, NEW y \in free, x # y
        PROVE  FreeEnd(x) <= y.addr \/ FreeEnd(y) <= x.addr
    <3>1. CASE x \in rest
      BY <3>1, <2>2, <2>3, <1>2, <1>3, <1>5 DEF FreeEnd
    <3>2. CASE y \in rest
      BY <3>2, <2>2, <2>3, <1>2, <1>3, <1>5 DEF FreeEnd
    <3>3. CASE x \notin rest /\ y \notin rest
      BY <3>3, <2>3 DEF HeapInv, Tiled, Disjoint
    <3> QED BY <3>1, <3>2, <3>3
  <2>4. ASSUME NEW a \in Live(g), NEW x \in free
        PROVE  LiveEnd(g, a) <= x.addr \/ FreeEnd(x) <= a
    <3>1. CASE a = f.addr /\ x \in rest
      BY <3>1, <1>2, <1>3, <1>5, <1>6 DEF LiveEnd, FreeEnd
    <3>2. CASE a = f.addr /\ x \notin rest
      BY <3>2, <2>2, <1>2, <1>3, <1>5, <1>6 DEF LiveEnd, FreeEnd
    <3>3. CASE a # f.addr /\ x \in rest
      BY <3>3, <1>2, <1>3, <1>4, <1>5, <1>6 DEF LiveEnd, FreeEnd
    <3>4. CASE a # f.addr /\ x \notin rest
      BY <3>4, <1>6 DEF HeapInv, Tiled, Disjoint, LiveEnd
    <3> QED BY <3>1, <3>2, <3>3, <3>4
  <2> QED BY <2>1, <2>3, <2>4, <1>6 DEF Disjoint
<1>9. Covered(g)
  <2> SUFFICES ASSUME NEW x \in HeapStart .. (h.next - 1)
               PROVE  \/ \E a \in Live(g) : a <= x /\ x < LiveEnd(g, a)
                      \/ \E y \in free : y.addr <= x /\ x < FreeEnd(y)
    BY <1>6 DEF Covered
  <2>1. CASE \E a \in Live(h) : a <= x /\ x < LiveEnd(h, a)
    BY <2>1, <1>6 DEF LiveEnd
  <2>2. CASE \E y \in h.free \ {f} : y.addr <= x /\ x < FreeEnd(y)
    BY <2>2
  <2>3. CASE f.addr <= x /\ x < FreeEnd(f)
    <3>1. CASE x < f.addr + cap
      BY <3>1, <2>3, <1>5, <1>6 DEF LiveEnd
    <3>2. CASE ~(x < f.addr + cap)
      <4>1. cap < f.cap
        BY <3>2, <2>3, <1>2, <1>3, <1>5 DEF FreeEnd
      <4> DEFINE r == [cap |-> f.cap - c, addr |-> f.addr + c]
      <4>2. r \in free /\ cap = c
        BY <4>1, <1>5
      <4>3. r.addr <= x /\ x < FreeEnd(r)
        BY <4>2, <3>2, <2>3, <1>2, <1>3 DEF FreeEnd
      <4> QED BY <4>2, <4>3
    <3> QED BY <3>1, <3>2
  <2> QED BY <2>1, <2>2, <2>3 DEF HeapInv, Tiled, Covered
<1>10. Held(g)
  BY <1>2, <1>4, <1>5, <1>6 DEF Held
<1> QED BY <1>1, <1>7, <1>8, <1>9, <1>10 DEF Tiled

(* Fresh space at the bump pointer extends the tiling, when it fits.        *)
LEMMA BumpTiled ==
  ASSUME NEW h, HeapInv(h), NEW n, Size(n), ~RoundingWraps(n), NEW c, c = RoundUp(n),
         ~Exhausted(h, c), ~(h.next + c >= WordSize)
  PROVE  Tiled(Bump(h, n, c).heap)
<1> DEFINE live == Record(h.live, h.next, n, c)
           g    == [live |-> live, free |-> h.free, next |-> h.next + c]
<1>1. /\ c \in Nat /\ n <= c /\ c < n + Grain /\ n \in Nat /\ n > 0
      /\ HeapStart \in Nat /\ HeapStart > 0 /\ HeapLimit \in Nat /\ WordSize \in Nat
  BY RoundUpFacts, HeapAssumption DEF Size
<1>2. h.next \in Nat /\ HeapStart <= h.next /\ h.next <= HeapLimit
  BY DEF HeapInv, Sound, Tiled, HeapType, InHeap
<1>3. Wrap(h.next + c) = h.next + c /\ h.next + c <= HeapLimit
  BY <1>1, <1>2 DEF Wrap, Exhausted
<1>4. Bump(h, n, c).heap = g
  BY <1>3 DEF Bump
<1>5. \A a \in Live(h) : /\ a \in Nat /\ h.live[a] \in [size : Nat, cap : Nat]
                         /\ h.live[a].cap \in Nat /\ h.live[a].cap > 0
                         /\ HeapStart <= a /\ a + h.live[a].cap <= h.next /\ a # h.next
  BY <1>2 DEF HeapInv, Sound, Tiled, HeapType, LiveType, InHeap, Held, LiveEnd
<1>6. \A f \in h.free : /\ f.addr \in Nat /\ f.cap \in Nat /\ f.cap > 0
                        /\ HeapStart <= f.addr /\ f.addr + f.cap <= h.next
  BY DEF HeapInv, Sound, Tiled, HeapType, FreeType, InHeap, FreeEnd
<1>7. /\ Live(g) = Live(h) \cup {h.next}
      /\ g.live[h.next] = [size |-> n, cap |-> c]
      /\ \A a \in Live(h) : g.live[a] = h.live[a]
      /\ g.free = h.free /\ g.next = h.next + c
  BY <1>5 DEF Live, Record
<1>8. InHeap(g)
  <2>1. ASSUME NEW a \in Live(g)
        PROVE  HeapStart <= a /\ LiveEnd(g, a) <= g.next
    <3>1. CASE a = h.next
      BY <3>1, <1>1, <1>2, <1>7 DEF LiveEnd
    <3>2. CASE a # h.next
      BY <3>2, <1>1, <1>2, <1>5, <1>7 DEF LiveEnd
    <3> QED BY <3>1, <3>2
  <2>2. \A f \in g.free : HeapStart <= f.addr /\ FreeEnd(f) <= g.next
    BY <1>1, <1>2, <1>6, <1>7 DEF FreeEnd
  <2> QED BY <2>1, <2>2, <1>1, <1>2, <1>7 DEF InHeap
<1>9. Disjoint(g)
  BY <1>1, <1>2, <1>5, <1>6, <1>7 DEF HeapInv, Tiled, Disjoint, LiveEnd, FreeEnd
<1>10. Covered(g)
  <2> SUFFICES ASSUME NEW x \in HeapStart .. (g.next - 1)
               PROVE  \/ \E a \in Live(g) : a <= x /\ x < LiveEnd(g, a)
                      \/ \E y \in g.free : y.addr <= x /\ x < FreeEnd(y)
    BY Zenon DEF Covered
  <2>1. x \in Int /\ HeapStart <= x /\ x < h.next + c
    BY <1>1, <1>2, <1>7
  <2>2. CASE x < h.next
    <3>1. x \in HeapStart .. (h.next - 1)
      BY <2>1, <2>2, <1>1, <1>2
    <3> QED BY <3>1, <1>7 DEF HeapInv, Tiled, Covered, LiveEnd
  <2>3. CASE ~(x < h.next)
    BY <2>1, <2>3, <1>1, <1>2, <1>7 DEF LiveEnd
  <2> QED BY <2>2, <2>3
<1>11. Held(g)
  BY <1>1, <1>7 DEF Held, HeapInv, Tiled
<1> QED BY <1>4, <1>8, <1>9, <1>10, <1>11 DEF Tiled

(* So allocate keeps the tiling whatever it does, unless a sum wraps.       *)
LEMMA AllocateTiled ==
  ASSUME NEW h, HeapInv(h), NEW n \in Requests, NEW r \in Allocate(h, n), ~r.wraps
  PROVE  Tiled(r.heap)
<1> DEFINE size == IF n = 0 THEN 1 ELSE n
           c    == RoundUp(size)
<1>1. Size(size)
  BY RequestSize
<1>2. CASE Fitting(h, c) # {}
  <2>1. PICK f \in BestFits(h, c) : r = TakeFree(h, f, size, c)
    BY <1>2 DEF Allocate
  <2>2. f \in h.free /\ f.cap >= c
    BY DEF BestFits, Fitting
  <2>3. ~RoundingWraps(size)
    BY <2>1 DEF TakeFree
  <2> QED BY <1>1, <2>1, <2>2, <2>3, TakeFreeTiled
<1>3. CASE Fitting(h, c) = {} /\ Exhausted(h, c)
  <2>1. r = NoRoom(h)
    BY <1>3 DEF Allocate
  <2> QED BY <2>1 DEF NoRoom, HeapInv
<1>4. CASE Fitting(h, c) = {} /\ ~Exhausted(h, c)
  <2>1. r = Bump(h, size, c)
    BY <1>4 DEF Allocate
  <2>2. ~RoundingWraps(size) /\ ~(h.next + c >= WordSize)
    BY <2>1 DEF Bump
  <2> QED BY <1>1, <1>4, <2>1, <2>2, BumpTiled
<1> QED BY <1>2, <1>3, <1>4

(* Releasing any address, live or not, keeps the tiling.                    *)
LEMMA ReleaseTiled ==
  ASSUME NEW h, HeapInv(h), NEW a
  PROVE  Tiled(Release(h, a))
<1>1. CASE a = 0 \/ a \notin Live(h)
  BY <1>1 DEF Release, HeapInv
<1>2. CASE a # 0 /\ a \in Live(h)
  <2> DEFINE block == [cap |-> h.live[a].cap, addr |-> a]
             g == Release(h, a)
  <2>1. /\ a \in Nat /\ a >= HeapStart
        /\ h.live[a] \in [size : Nat, cap : Nat] /\ h.live[a].cap \in Nat
        /\ h.live[a].cap > 0 /\ a + h.live[a].cap <= h.next
    BY <1>2 DEF HeapInv, Sound, Tiled, HeapType, LiveType, InHeap, Held, LiveEnd
  <2>2. g = [live |-> Restrict(h.live, Live(h) \ {a}),
             free |-> h.free \cup {block}, next |-> h.next]
    <3>1. Freed(a, h.live[a].cap) = {block}
      BY <2>1 DEF Freed
    <3> QED BY <3>1, <1>2 DEF Release
  <2>3. /\ Live(g) = Live(h) \ {a}
        /\ \A b \in Live(g) : g.live[b] = h.live[b]
        /\ g.free = h.free \cup {block} /\ g.next = h.next
    BY <2>2 DEF Live, Restrict
  <2>4. InHeap(g)
    BY <2>1, <2>3 DEF HeapInv, Tiled, InHeap, LiveEnd, FreeEnd
  <2>5. Disjoint(g)
    <3>1. \A x, y \in Live(g) : x < y => LiveEnd(g, x) <= y
      BY <2>3 DEF HeapInv, Tiled, Disjoint, LiveEnd
    <3>2. ASSUME NEW x \in g.free, NEW y \in g.free, x # y
          PROVE  FreeEnd(x) <= y.addr \/ FreeEnd(y) <= x.addr
      BY <3>2, <1>2, <2>3 DEF HeapInv, Tiled, Disjoint, LiveEnd, FreeEnd
    <3>3. ASSUME NEW x \in Live(g), NEW y \in g.free
          PROVE  LiveEnd(g, x) <= y.addr \/ FreeEnd(y) <= x
      <4>1. CASE y \in h.free
        BY <4>1, <2>3 DEF HeapInv, Tiled, Disjoint, LiveEnd
      <4>2. CASE y = block
        BY <4>2, <1>2, <2>1, <2>3
           DEF HeapInv, Sound, Tiled, HeapType, LiveType, Disjoint, LiveEnd, FreeEnd
      <4> QED BY <4>1, <4>2, <2>3
    <3> QED BY <3>1, <3>2, <3>3 DEF Disjoint
  <2>6. Covered(g)
    <3> SUFFICES ASSUME NEW x \in HeapStart .. (h.next - 1)
                 PROVE  \/ \E b \in Live(g) : b <= x /\ x < LiveEnd(g, b)
                        \/ \E y \in g.free : y.addr <= x /\ x < FreeEnd(y)
      BY <2>3 DEF Covered
    <3>1. CASE a <= x /\ x < LiveEnd(h, a)
      <4>1. block.addr <= x /\ x < FreeEnd(block)
        BY <3>1 DEF LiveEnd, FreeEnd
      <4> QED BY <4>1, <2>3
    <3>2. CASE ~(a <= x /\ x < LiveEnd(h, a))
      BY <3>2, <2>3 DEF HeapInv, Tiled, Covered, LiveEnd
    <3> QED BY <3>1, <3>2
  <2>7. Held(g)
    BY <2>3 DEF HeapInv, Tiled, Held
  <2> QED BY <2>4, <2>5, <2>6, <2>7 DEF Tiled
<1> QED BY <1>1, <1>2

(* Resizing a block keeps the tiling: it is allocating, then releasing.     *)
LEMMA ReallocateTiled ==
  ASSUME NEW h, HeapInv(h), NEW a, NEW n \in Requests, NEW r \in Reallocate(h, a, n),
         ~r.wraps
  PROVE  Tiled(r.heap)
<1>1. PICK q \in Allocate(h, n) :
        r = [q EXCEPT !.heap = IF q.addr # 0 /\ a \in Live(h) THEN Release(@, a) ELSE @]
  BY DEF Reallocate
<1>2. q = [addr |-> q.addr, wraps |-> q.wraps, heap |-> q.heap]
  BY DEF Allocate, TakeFree, NoRoom, Bump
<1>3. ~q.wraps
  BY <1>1, <1>2
<1>4. HeapInv(q.heap)
  BY <1>3, AllocateSound, AllocateTiled DEF HeapInv
<1>5. Tiled(q.heap) /\ Tiled(Release(q.heap, a))
  BY <1>4, ReleaseTiled DEF HeapInv
<1> QED BY <1>1, <1>2, <1>5

----------------------------------------------------------------------------
IInv == TypeOK /\ Sound(heap) /\ (~wrapped => Tiled(heap))

(* Taking the outcome of an allocation keeps it.                            *)
LEMMA ObtainIInv ==
  ASSUME IInv, NEW r, Obtain(r), Sound(r.heap), r.wraps \in BOOLEAN,
         HeapInv(heap) /\ ~r.wraps => Tiled(r.heap)
  PROVE  Sound(heap') /\ wrapped' \in BOOLEAN /\ (~wrapped' => Tiled(heap'))
<1>1. heap' = r.heap /\ wrapped' = (wrapped \/ r.wraps) /\ wrapped \in BOOLEAN
  BY DEF Obtain, IInv, TypeOK
<1>2. ~wrapped' => Tiled(heap')
  BY <1>1 DEF IInv, HeapInv
<1> QED BY <1>1, <1>2

(* Releasing a block keeps it.                                              *)
LEMMA ReleaseIInv ==
  ASSUME IInv, NEW a, heap' = Release(heap, a), wrapped' = wrapped
  PROVE  Sound(heap') /\ wrapped' \in BOOLEAN /\ (~wrapped' => Tiled(heap'))
BY ReleaseSound, ReleaseTiled DEF IInv, HeapInv, TypeOK

(* The invariant holds of the empty heap.                                   *)
LEMMA InitIInv == Init => IInv
<1> SUFFICES ASSUME Init PROVE IInv
  OBVIOUS
<1>1. /\ heap = [live |-> NoBlocks, free |-> {}, next |-> HeapStart]
      /\ heap.live = NoBlocks /\ heap.free = {} /\ heap.next = HeapStart
  BY DEF Init
<1>2. Live(heap) = {}
  BY <1>1 DEF Live, NoBlocks
<1>3. HeapType(heap)
  <2>1. LiveType(heap)
    <3>1. heap.live = [a \in Live(heap) |-> heap.live[a]]
      BY <1>1, <1>2 DEF NoBlocks
    <3> QED BY <3>1, <1>2 DEF LiveType
  <2>2. FreeType(heap)
    BY <1>1 DEF FreeType
  <2>3. heap = [live |-> heap.live, free |-> heap.free, next |-> heap.next]
    BY <1>1
  <2> QED BY <2>1, <2>2, <2>3, <1>1, HeapAssumption DEF HeapType
<1>4. Covered(heap)
  BY <1>1, HeapAssumption DEF Covered
<1>5. Disjoint(heap) /\ Fits(heap) /\ Held(heap)
  BY <1>1, <1>2 DEF Disjoint, Fits, Held
<1>7. InHeap(heap)
  BY <1>1, <1>2, HeapAssumption DEF InHeap
<1>6. heaps = {} /\ heapsMade = 0 /\ processHeap = 0 /\ lastError = 0 /\ wrapped = FALSE
  BY DEF Init
<1>8. TypeOK
  <2>1. wrapped \in BOOLEAN
    BY <1>6
  <2>2. heaps \subseteq 1 .. heapsMade /\ heapsMade \in 0 .. MaxHandles
        /\ processHeap \in 0 .. heapsMade /\ lastError \in {0, 6, 8, 14}
    BY <1>6, HeapAssumption
  <2> QED BY <2>1, <2>2, <1>3, <1>7 DEF TypeOK
<1> QED BY <1>3, <1>4, <1>5, <1>7, <1>8 DEF IInv, Sound, Tiled

(* Every export keeps the invariant.                                        *)
LEMMA NextIInv == IInv /\ [Next]_vars => IInv'
<1> SUFFICES ASSUME IInv, [Next]_vars PROVE IInv'
  OBVIOUS
<1> USE DEF IInv
<1>1. SUFFICES /\ Sound(heap') /\ wrapped' \in BOOLEAN /\ (~wrapped' => Tiled(heap'))
               /\ heaps' \subseteq 1..heapsMade' /\ heapsMade' \in 0..MaxHandles
               /\ processHeap' \in 0..heapsMade' /\ lastError' \in {0, 6, 8, 14}
  BY DEF TypeOK, Sound, Tiled, HeapType, LiveType, FreeType, InHeap, Disjoint, Covered,
         Fits, Held, Live, LiveEnd, FreeEnd
<1>2. ASSUME NEW n \in Requests, LocalAlloc(n) PROVE <1>1!1
  <2>1. PICK r \in Allocate(heap, n) : Obtain(r)
    BY <1>2 DEF LocalAlloc
  <2>2. /\ Sound(r.heap) /\ r.wraps \in BOOLEAN
        /\ HeapInv(heap) /\ ~r.wraps => Tiled(r.heap)
    BY AllocateSound, AllocateTiled
  <2> QED BY <1>2, <2>1, <2>2, ObtainIInv DEF LocalAlloc, TypeOK
<1>3. ASSUME NEW a \in Pointers, LocalFree(a) PROVE <1>1!1
  BY <1>3, ReleaseIInv DEF LocalFree, TypeOK
<1>4. ASSUME NEW a \in Pointers, NEW n \in Requests, LocalReAlloc(a, n) PROVE <1>1!1
  <2>1. CASE n = 0
    BY <1>4, <2>1, ReleaseIInv DEF LocalReAlloc, TypeOK
  <2>2. CASE n # 0
    <3>1. PICK r \in Reallocate(heap, a, n) : Obtain(r)
      BY <1>4, <2>2 DEF LocalReAlloc
    <3>2. /\ Sound(r.heap) /\ r.wraps \in BOOLEAN
          /\ HeapInv(heap) /\ ~r.wraps => Tiled(r.heap)
      BY ReallocateSound, ReallocateTiled
    <3> QED BY <1>4, <2>2, <3>1, <3>2, ObtainIInv DEF LocalReAlloc, TypeOK
  <2> QED BY <2>1, <2>2
<1>5. CASE HeapCreate
  BY <1>5, HeapAssumption DEF HeapCreate, TypeOK
<1>6. CASE GetProcessHeap
  <2>1. CASE processHeap = 0
    <3>1. heapsMade' = heapsMade + 1 /\ heaps' = heaps \cup {heapsMade + 1}
          /\ processHeap' = heapsMade + 1 /\ heapsMade < MaxHandles
          /\ heap' = heap /\ lastError' = lastError /\ wrapped' = wrapped
      BY <1>6, <2>1 DEF GetProcessHeap
    <3>2. heapsMade \in Nat /\ heaps \subseteq 1..heapsMade /\ MaxHandles \in Nat
      BY HeapAssumption DEF TypeOK
    <3> QED BY <3>1, <3>2 DEF TypeOK
  <2>2. CASE processHeap # 0
    BY <1>6, <2>2 DEF GetProcessHeap, TypeOK
  <2> QED BY <2>1, <2>2
<1>7. ASSUME NEW k \in 1..MaxHandles, HeapDestroy(k) PROVE <1>1!1
  BY <1>7 DEF HeapDestroy, TypeOK
<1>8. ASSUME InvalidHeapCall PROVE <1>1!1
  BY <1>8 DEF InvalidHeapCall, TypeOK
<1>9. ASSUME NEW k \in 1..MaxHandles, NEW n \in Requests, HeapAlloc(k, n) PROVE <1>1!1
  <2>1. CASE k \notin heaps
    BY <1>8, <1>9, <2>1 DEF HeapAlloc
  <2>2. CASE k \in heaps
    <3>1. PICK r \in Allocate(heap, n) : Obtain(r)
      BY <1>9, <2>2 DEF HeapAlloc
    <3>2. /\ Sound(r.heap) /\ r.wraps \in BOOLEAN
          /\ HeapInv(heap) /\ ~r.wraps => Tiled(r.heap)
      BY AllocateSound, AllocateTiled
    <3> QED BY <1>9, <2>2, <3>1, <3>2, ObtainIInv DEF HeapAlloc, TypeOK
  <2> QED BY <2>1, <2>2
<1>10. ASSUME NEW k \in 1..MaxHandles, NEW a \in Pointers, NEW n \in Requests,
              HeapReAlloc(k, a, n)
       PROVE  <1>1!1
  <2>1. CASE k \notin heaps \/ a = 0
    BY <1>8, <1>10, <2>1 DEF HeapReAlloc
  <2>2. CASE k \in heaps /\ a # 0
    <3>1. PICK r \in Reallocate(heap, a, n) : Obtain(r)
      BY <1>10, <2>2 DEF HeapReAlloc
    <3>2. /\ Sound(r.heap) /\ r.wraps \in BOOLEAN
          /\ HeapInv(heap) /\ ~r.wraps => Tiled(r.heap)
      BY ReallocateSound, ReallocateTiled
    <3> QED BY <1>10, <2>2, <3>1, <3>2, ObtainIInv DEF HeapReAlloc, TypeOK
  <2> QED BY <2>1, <2>2
<1>11. ASSUME NEW k \in 1..MaxHandles, NEW a \in Pointers, HeapFree(k, a) PROVE <1>1!1
  BY <1>8, <1>11, ReleaseIInv DEF HeapFree, TypeOK
<1>12. CASE UNCHANGED vars
  BY <1>12 DEF vars, TypeOK
<1> QED BY <1>2, <1>3, <1>4, <1>5, <1>6, <1>7, <1>9, <1>10, <1>11, <1>12 DEF Next

(* The inductive invariant of the whole component.                          *)
THEOREM HeapInvariant == Spec => []IInv
BY InitIInv, NextIInv, PTL DEF Spec

(* Whatever sizes are asked for, blocks stay on the grid and the bump       *)
(* pointer under the limit, and inside the heap until a sum wraps.          *)
THEOREM TypeCorrect == Spec => []TypeOK
BY HeapInvariant, PTL DEF IInv

(* No two blocks ever share a byte, for any heap and any requests, until an *)
(* allocation succeeds through a sum that wraps: that is the only way.      *)
THEOREM AllocationsDisjoint == Spec => []BlocksDisjoint
<1>1. IInv => BlocksDisjoint
  BY DEF IInv, Tiled, BlocksDisjoint
<1> QED BY <1>1, HeapInvariant, PTL

(* Nor does any byte of the heap leak out of the metadata before that.      *)
THEOREM HeapIsTiled == Spec => []NoByteLost
<1>1. IInv => NoByteLost
  BY DEF IInv, Tiled, NoByteLost
<1> QED BY <1>1, HeapInvariant, PTL

(* Every live block is as large as what was asked for, and little larger,   *)
(* wrapped sums or not, but for a size whose own rounding wraps.            *)
THEOREM AllocationsFit == Spec => []LiveBlocksFit
<1>1. IInv => LiveBlocksFit
  BY DEF IInv, Sound, LiveBlocksFit
<1> QED BY <1>1, HeapInvariant, PTL
==============================================================================

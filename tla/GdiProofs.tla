----------------------------- MODULE GdiProofs -----------------------------
(***************************************************************************)
(* The objects of GdiObjects, in the whole of Graphics.                    *)
(*                                                                         *)
(* Blocks of the guest heap and the bitmaps that own them: BitsOwned       *)
(* counts owners; BInv has the handle table know the owner of each block,  *)
(* which the lemmas show each operation on the tables to keep.             *)
(*                                                                         *)
(* The two copies of every object: CopiesAgree; CInv adds what the copies  *)
(* are made of, and that the bitmap of a device context and the stock      *)
(* objects are what they are taken for as long as the guest has a handle   *)
(* of them, so that a call through one never writes in another's copies.   *)
(***************************************************************************)
EXTENDS Graphics, FiniteSetTheorems, SequenceTheorems, TLAPS

Lists == INSTANCE SequenceLemmas

Fields == {"made", "handles", "copies", "mirrors", "clips", "regions", "stock", "taken", "orphans"}

(* The copy of the bitmap h has its pixels where its handle says.           *)
BitmapCopy(g, h) ==
  /\ h \in DOMAIN g.copies
  /\ DOMAIN g.copies[h] = {"bits", "palette", "stock"}
  /\ g.copies[h].bits = g.handles[h].pointer

(* The tables g and the blocks B in use: handles were made; a clip is not   *)
(* a bitmap's; each bitmap's pixels are a block in use or none, and each    *)
(* block in use, but the orphans, is one bitmap's.                          *)
TablesInv(g) ==
  /\ DOMAIN g = Fields
  /\ g.made \in Nat
  /\ DOMAIN g.handles \subseteq 1 .. g.made
  /\ DOMAIN g.clips \subseteq 1 .. g.made
  /\ \A h \in DOMAIN g.clips : ~IsKind(g, h, "bitmap")
  /\ \A h \in DOMAIN g.handles : IsKind(g, h, "bitmap") => BitmapCopy(g, h)

BlocksInv(g, B) ==
  /\ B \subseteq Blocks /\ g.orphans \subseteq B
  /\ \A h \in DOMAIN g.handles :
       IsKind(g, h, "bitmap") => g.handles[h].pointer \in (B \ g.orphans) \cup {0}
  /\ \A b \in B \ g.orphans :
       \E h \in DOMAIN g.handles : IsKind(g, h, "bitmap") /\ g.handles[h].pointer = b
  /\ \A h, o \in DOMAIN g.handles :
       /\ IsKind(g, h, "bitmap") /\ IsKind(g, o, "bitmap")
       /\ g.handles[h].pointer = g.handles[o].pointer /\ g.handles[h].pointer # 0
       => h = o

Owned(g, B) == TablesInv(g) /\ BlocksInv(g, B)

BInv == Owned(gdi, blocks)

----------------------------------------------------------------------------
(* A call that changes no handle and no bitmap's pixels keeps Owned.        *)
LEMMA Kept ==
  ASSUME NEW g, NEW B, NEW n, Owned(g, B),
         DOMAIN n = Fields, n.made = g.made, n.handles = g.handles, n.orphans = g.orphans,
         DOMAIN n.clips = DOMAIN g.clips,
         \A h \in DOMAIN g.handles : IsKind(g, h, "bitmap") =>
           /\ h \in DOMAIN n.copies
           /\ DOMAIN n.copies[h] = DOMAIN g.copies[h]
           /\ n.copies[h].bits = g.copies[h].bits
  PROVE  Owned(n, B)
  <1>1. \A h \in DOMAIN g.handles : IsKind(n, h, "bitmap") <=> IsKind(g, h, "bitmap")
    BY DEF IsKind
  <1>2. TablesInv(n)
    BY <1>1 DEF Owned, TablesInv, BitmapCopy, IsKind
  <1>3. BlocksInv(n, B)
    BY <1>1 DEF Owned, BlocksInv
  <1> QED
    BY <1>2, <1>3 DEF Owned

(* A new handle: an object that is no bitmap, or a bitmap with a free       *)
(* block or none.                                                           *)
LEMMA MadeOwned ==
  ASSUME NEW g, NEW B, Owned(g, B), NEW n, NEW new,
         NEW kind, NEW pointer,
         DOMAIN n = Fields, n.made = g.made + 1, n.orphans = g.orphans,
         n.handles = Put(g.handles, n.made, [kind |-> kind, pointer |-> pointer]),
         DOMAIN n.clips \subseteq DOMAIN g.clips \cup {n.made},
         \A h \in DOMAIN g.copies : h # n.made => h \in DOMAIN n.copies /\ n.copies[h] = g.copies[h],
         kind = "bitmap" =>
           /\ n.clips = g.clips
           /\ BitmapCopy(n, n.made)
           /\ pointer \in (Blocks \ B) \cup {0}
           /\ new = {pointer} \cap Blocks,
         kind # "bitmap" => new = {}
  PROVE  Owned(n, B \cup new)
  <1> DEFINE m == n.made
  <1>1. /\ DOMAIN n.handles = DOMAIN g.handles \cup {m}
        /\ n.handles[m] = [kind |-> kind, pointer |-> pointer]
        /\ \A h \in DOMAIN g.handles : h # m => n.handles[h] = g.handles[h]
    BY DEF Put
  <1>2. m \notin DOMAIN g.handles /\ m \notin DOMAIN g.clips /\ m \in Nat /\ 1 .. g.made \subseteq 1 .. m
        /\ m \in 1 .. m
    BY DEF Owned, TablesInv
  <1>3. \A h \in DOMAIN g.handles : IsKind(n, h, "bitmap") <=> IsKind(g, h, "bitmap")
    BY <1>1, <1>2 DEF IsKind
  <1>4. IsKind(n, m, "bitmap") <=> kind = "bitmap"
    BY <1>1 DEF IsKind
  <1>5. TablesInv(n)
    <2>1. DOMAIN n.handles \subseteq 1 .. m /\ DOMAIN n.clips \subseteq 1 .. m
      BY <1>1, <1>2 DEF Owned, TablesInv
    <2>2. \A h \in DOMAIN n.clips : ~IsKind(n, h, "bitmap")
      BY <1>1, <1>2, <1>3, <1>4 DEF Owned, TablesInv, IsKind
    <2>3. \A h \in DOMAIN n.handles : IsKind(n, h, "bitmap") => BitmapCopy(n, h)
      BY <1>1, <1>2, <1>3, <1>4 DEF Owned, TablesInv, BitmapCopy
    <2> QED
      BY <1>2, <2>1, <2>2, <2>3 DEF TablesInv
  <1>6. BlocksInv(n, B \cup new)
    <2>1. B \cup new \subseteq Blocks /\ n.orphans \subseteq B \cup new
      BY DEF Owned, BlocksInv
    <2>2. \A h \in DOMAIN n.handles :
            IsKind(n, h, "bitmap") => n.handles[h].pointer \in ((B \cup new) \ n.orphans) \cup {0}
      BY <1>1, <1>2, <1>3, <1>4 DEF Owned, BlocksInv
    <2>3. \A b \in (B \cup new) \ n.orphans :
            \E h \in DOMAIN n.handles : IsKind(n, h, "bitmap") /\ n.handles[h].pointer = b
      BY <1>1, <1>2, <1>3, <1>4 DEF Owned, BlocksInv
    <2>4. \A h, o \in DOMAIN n.handles :
            /\ IsKind(n, h, "bitmap") /\ IsKind(n, o, "bitmap")
            /\ n.handles[h].pointer = n.handles[o].pointer /\ n.handles[h].pointer # 0
            => h = o
      <3>1. \A h \in DOMAIN g.handles : IsKind(g, h, "bitmap") /\ kind = "bitmap" =>
              pointer = 0 \/ g.handles[h].pointer # pointer
        BY GdiAssumption DEF Owned, BlocksInv
      <3> QED
        BY <1>1, <1>2, <1>3, <1>4, <3>1 DEF Owned, BlocksInv
    <2> QED
      BY <2>1, <2>2, <2>3, <2>4 DEF BlocksInv
  <1> QED
    BY <1>5, <1>6 DEF Owned

(* The object k is gone: the others are as they were.                       *)
LEMMA GoneTables ==
  ASSUME NEW g, TablesInv(g), NEW n, NEW k,
         DOMAIN n = Fields, n.made = g.made, n.handles = Erase(g.handles, k),
         DOMAIN n.clips \subseteq DOMAIN g.clips,
         \A h \in DOMAIN g.copies : h # k => h \in DOMAIN n.copies /\ n.copies[h] = g.copies[h]
  PROVE  /\ TablesInv(n)
         /\ DOMAIN n.handles = DOMAIN g.handles \ {k}
         /\ \A h \in DOMAIN n.handles :
              n.handles[h] = g.handles[h] /\ (IsKind(n, h, "bitmap") <=> IsKind(g, h, "bitmap"))
  <1>1. /\ DOMAIN n.handles = DOMAIN g.handles \ {k}
        /\ \A h \in DOMAIN n.handles : n.handles[h] = g.handles[h]
    BY DEF Erase
  <1>2. \A h \in DOMAIN n.handles : IsKind(n, h, "bitmap") <=> IsKind(g, h, "bitmap")
    BY <1>1 DEF IsKind
  <1>3. DOMAIN n.handles \subseteq 1 .. n.made /\ DOMAIN n.clips \subseteq 1 .. n.made /\ n.made \in Nat
    BY <1>1 DEF TablesInv
  <1>4. \A h \in DOMAIN n.clips : ~IsKind(n, h, "bitmap")
    BY <1>1 DEF TablesInv, IsKind
  <1>5. \A h \in DOMAIN n.handles : IsKind(n, h, "bitmap") => BitmapCopy(n, h)
    BY <1>1, <1>2 DEF TablesInv, BitmapCopy
  <1> QED
    BY <1>1, <1>2, <1>3, <1>4, <1>5 DEF TablesInv

(* The object k is gone, and with it, if it is a bitmap, its block.         *)
LEMMA GoneOwned ==
  ASSUME NEW g, NEW B, Owned(g, B), NEW n, NEW k, NEW R,
         DOMAIN n = Fields, n.made = g.made, n.handles = Erase(g.handles, k),
         DOMAIN n.clips \subseteq DOMAIN g.clips, n.orphans = g.orphans,
         \A h \in DOMAIN g.copies : h # k => h \in DOMAIN n.copies /\ n.copies[h] = g.copies[h],
         R = IF IsKind(g, k, "bitmap") THEN B \ {g.handles[k].pointer} ELSE B
  PROVE  Owned(n, R)
  <1>1. /\ TablesInv(n)
        /\ DOMAIN n.handles = DOMAIN g.handles \ {k}
        /\ \A h \in DOMAIN n.handles :
             n.handles[h] = g.handles[h] /\ (IsKind(n, h, "bitmap") <=> IsKind(g, h, "bitmap"))
    BY GoneTables DEF Owned
  <1>2. IsKind(g, k, "bitmap") => k \in DOMAIN g.handles
    BY DEF IsKind
  <1>3. R \subseteq Blocks /\ n.orphans \subseteq R
    BY <1>2, GdiAssumption DEF Owned, BlocksInv
  <1>4. \A h \in DOMAIN n.handles :
          IsKind(n, h, "bitmap") => n.handles[h].pointer \in (R \ n.orphans) \cup {0}
    BY <1>1, <1>2 DEF Owned, BlocksInv
  <1>5. ASSUME NEW b \in R \ n.orphans
        PROVE  \E h \in DOMAIN n.handles : IsKind(n, h, "bitmap") /\ n.handles[h].pointer = b
    <2>1. PICK h \in DOMAIN g.handles : IsKind(g, h, "bitmap") /\ g.handles[h].pointer = b
      BY DEF Owned, BlocksInv
    <2>2. h # k
      BY <2>1
    <2> QED
      BY <1>1, <2>1, <2>2
  <1>6. \A h, o \in DOMAIN n.handles :
          /\ IsKind(n, h, "bitmap") /\ IsKind(n, o, "bitmap")
          /\ n.handles[h].pointer = n.handles[o].pointer /\ n.handles[h].pointer # 0
          => h = o
    BY <1>1 DEF Owned, BlocksInv
  <1> QED
    BY <1>1, <1>3, <1>4, <1>5, <1>6 DEF Owned, BlocksInv

(* The handle k is gone, and if it is a bitmap's its block is an orphan.    *)
LEMMA OrphanOwned ==
  ASSUME NEW g, NEW B, Owned(g, B), NEW n, NEW k,
         DOMAIN n = Fields, n.made = g.made, n.handles = Erase(g.handles, k),
         n.clips = g.clips, n.copies = g.copies,
         n.orphans = IF IsKind(g, k, "bitmap")
                     THEN g.orphans \cup ({g.handles[k].pointer} \ {0}) ELSE g.orphans
  PROVE  Owned(n, B)
  <1>1. /\ TablesInv(n)
        /\ DOMAIN n.handles = DOMAIN g.handles \ {k}
        /\ \A h \in DOMAIN n.handles :
             n.handles[h] = g.handles[h] /\ (IsKind(n, h, "bitmap") <=> IsKind(g, h, "bitmap"))
    BY GoneTables DEF Owned
  <1>2. IsKind(g, k, "bitmap") => k \in DOMAIN g.handles
    BY DEF IsKind
  <1>3. B \subseteq Blocks /\ n.orphans \subseteq B /\ 0 \notin B
    BY <1>2, GdiAssumption DEF Owned, BlocksInv
  <1>4. \A h \in DOMAIN n.handles :
          IsKind(n, h, "bitmap") => n.handles[h].pointer \in (B \ n.orphans) \cup {0}
    BY <1>1, <1>2 DEF Owned, BlocksInv
  <1>5. ASSUME NEW b \in B \ n.orphans
        PROVE  \E h \in DOMAIN n.handles : IsKind(n, h, "bitmap") /\ n.handles[h].pointer = b
    <2>1. b \in B \ g.orphans
      OBVIOUS
    <2>2. PICK h \in DOMAIN g.handles : IsKind(g, h, "bitmap") /\ g.handles[h].pointer = b
      BY <2>1 DEF Owned, BlocksInv
    <2>3. h # k
      BY <1>3, <2>2
    <2> QED
      BY <1>1, <2>2, <2>3
  <1>6. \A h, o \in DOMAIN n.handles :
          /\ IsKind(n, h, "bitmap") /\ IsKind(n, o, "bitmap")
          /\ n.handles[h].pointer = n.handles[o].pointer /\ n.handles[h].pointer # 0
          => h = o
    BY <1>1 DEF Owned, BlocksInv
  <1> QED
    BY <1>1, <1>3, <1>4, <1>5, <1>6 DEF Owned, BlocksInv

----------------------------------------------------------------------------
(* The operators on the tables                                              *)

(* A new object that has no block keeps the invariant.                      *)
LEMMA MakeOwned ==
  ASSUME NEW g, NEW B, Owned(g, B), NEW kind, kind # "bitmap", NEW pointer, NEW copy
  PROVE  Owned(Make(g, kind, pointer, copy), B)
  <1> DEFINE n == Make(g, kind, pointer, copy)
  <1>1. /\ DOMAIN n = Fields /\ n.made = g.made + 1 /\ n.clips = g.clips /\ n.orphans = g.orphans
        /\ n.handles = Put(g.handles, n.made, [kind |-> kind, pointer |-> pointer])
        /\ n.copies = Put(g.copies, n.made, copy)
    BY DEF Owned, TablesInv, Make, Fields
  <1>2. \A h \in DOMAIN g.copies : h # n.made => h \in DOMAIN n.copies /\ n.copies[h] = g.copies[h]
    BY <1>1 DEF Put
  <1> HIDE DEF n
  <1>3. Owned(n, B \cup {})
    BY <1>1, <1>2, MadeOwned
  <1> QED
    BY <1>3 DEF n

(* A new bitmap gets a block nobody has.                                    *)
LEMMA MakeBitmapOwned ==
  ASSUME NEW g, NEW B, Owned(g, B), NEW pointer, pointer \in (Blocks \ B) \cup {0},
         NEW palette, NEW stock
  PROVE  Owned(Make(g, "bitmap", pointer, Bitmap(pointer, palette, stock)), B \cup ({pointer} \cap Blocks))
  <1> DEFINE copy == Bitmap(pointer, palette, stock)
             n == Make(g, "bitmap", pointer, copy)
  <1>1. /\ DOMAIN n = Fields /\ n.made = g.made + 1 /\ n.clips = g.clips /\ n.orphans = g.orphans
        /\ n.handles = Put(g.handles, n.made, [kind |-> "bitmap", pointer |-> pointer])
        /\ n.copies = Put(g.copies, n.made, copy)
    BY DEF Owned, TablesInv, Make, Fields
  <1>2. \A h \in DOMAIN g.copies : h # n.made => h \in DOMAIN n.copies /\ n.copies[h] = g.copies[h]
    BY <1>1 DEF Put
  <1>3. DOMAIN copy = {"bits", "palette", "stock"} /\ copy.bits = pointer
    BY DEF Bitmap
  <1> HIDE DEF n, copy
  <1>4. BitmapCopy(n, n.made)
    BY <1>1, <1>3 DEF BitmapCopy, Put
  <1>5. Owned(n, B \cup ({pointer} \cap Blocks))
    BY <1>1, <1>2, <1>4, MadeOwned
  <1> QED
    BY <1>5 DEF n, copy

(* Remembering a stock object keeps the invariant.                          *)
LEMMA StockedOwned ==
  ASSUME NEW g, NEW B, Owned(g, B), NEW kind
  PROVE  Owned(Stocked(g, kind), B)
  <1> DEFINE n == Stocked(g, kind)
  <1>1. /\ DOMAIN n = Fields /\ n.made = g.made /\ n.clips = g.clips
        /\ n.handles = g.handles /\ n.copies = g.copies /\ n.orphans = g.orphans
    BY DEF Owned, TablesInv, Stocked, Fields
  <1>2. \A h \in DOMAIN g.handles : IsKind(g, h, "bitmap") => h \in DOMAIN g.copies
    BY DEF Owned, TablesInv, BitmapCopy
  <1> HIDE DEF n
  <1>3. Owned(n, B)
    BY <1>1, <1>2, Kept
  <1> QED
    BY <1>3 DEF n

(* Making a stock object, or finding it made, keeps the invariant.          *)
LEMMA MakeStockOwned ==
  ASSUME NEW g, NEW B, Owned(g, B), NEW kind
  PROVE  Owned(MakeStockObject(g, kind), B)
  <1>1. CASE kind \in DOMAIN g.stock
    BY <1>1 DEF MakeStockObject
  <1>2. CASE kind \notin DOMAIN g.stock /\ kind = "bitmap"
    <2>1. Owned(Make(g, "bitmap", 0, Bitmap(0, <<0, 1>>, TRUE)), B \cup ({0} \cap Blocks))
      BY MakeBitmapOwned
    <2>2. B \cup ({0} \cap Blocks) = B
      BY GdiAssumption
    <2> QED
      BY <1>2, <2>1, <2>2, StockedOwned DEF MakeStockObject
  <1>3. CASE kind \notin DOMAIN g.stock /\ kind # "bitmap"
    BY <1>3, MakeOwned, StockedOwned DEF MakeStockObject
  <1> QED
    BY <1>1, <1>2, <1>3

(* Making a clip region keeps the invariant.                                *)
LEMMA ClipOwned ==
  ASSUME NEW g, NEW B, Owned(g, B), NEW h, h \in 1 .. g.made, ~IsKind(g, h, "bitmap"), NEW systemClip
  PROVE  Owned(Clip(g, h, systemClip), B)
  <1> DEFINE n == Clip(g, h, systemClip)
  <1>1. /\ DOMAIN n = Fields /\ n.made = g.made /\ n.handles = g.handles /\ n.copies = g.copies
        /\ DOMAIN n.clips = DOMAIN g.clips \cup {h} /\ n.orphans = g.orphans
    BY DEF Owned, TablesInv, Clip, Fields, Put
  <1> HIDE DEF n
  <1>2. Owned(n, B)
    BY <1>1 DEF Owned, TablesInv, BlocksInv, BitmapCopy, IsKind
  <1> QED
    BY <1>2 DEF n

(* Making a device context keeps the invariant.                             *)
LEMMA MakeDcOwned ==
  ASSUME NEW g, NEW B, Owned(g, B), NEW hwnd, NEW systemClip
  PROVE  /\ Owned(MakeGuestDc(g, hwnd, systemClip), B)
         /\ LET n == MakeGuestDc(g, hwnd, systemClip)
            IN  IsKind(n, n.made, "dc")
  <1> DEFINE s == WithTools(g)
  <1>1. Owned(s, B)
    BY MakeStockOwned DEF WithTools
  <1> HIDE DEF s
  <1> DEFINE copy == [hwnd |-> hwnd, brush |-> s.stock["brush"], pen |-> s.stock["pen"],
                      font |-> s.stock["font"], bitmap |-> None, color |-> 0]
             n == Make(s, "dc", 0, copy)
  <1>2. Owned(n, B)
    BY <1>1, MakeOwned
  <1>3. /\ n.made = s.made + 1 /\ s.made + 1 \in 1 .. n.made
        /\ DOMAIN n = Fields
        /\ n.made \in DOMAIN n.handles /\ n.handles[n.made].kind = "dc"
    BY <1>1 DEF Owned, TablesInv, Make, Fields, Put
  <1> HIDE DEF n
  <1>4. Owned(Clip(n, s.made + 1, systemClip), B)
    BY <1>2, <1>3, ClipOwned DEF IsKind
  <1>5. MakeGuestDc(g, hwnd, systemClip) = Clip(n, s.made + 1, systemClip)
    BY DEF MakeGuestDc, MakeDc, n, s
  <1>6. LET c == Clip(n, s.made + 1, systemClip)
        IN  IsKind(c, c.made, "dc")
    BY <1>3 DEF Clip, IsKind, Fields
  <1> QED
    BY <1>4, <1>5, <1>6

(* Changing an object that is not a bitmap keeps the invariant.             *)
LEMMA SetOwned ==
  ASSUME NEW g, NEW B, Owned(g, B), NEW h, ~IsKind(g, h, "bitmap"), NEW field, NEW value
  PROVE  Owned(SetBoth(g, h, field, value), B)
  <1> DEFINE n == SetBoth(g, h, field, value)
  <1>1. /\ DOMAIN n = Fields /\ n.made = g.made /\ n.handles = g.handles /\ n.clips = g.clips
        /\ DOMAIN n.copies = DOMAIN g.copies /\ n.orphans = g.orphans
        /\ \A o \in DOMAIN g.copies : o # h => n.copies[o] = g.copies[o]
    BY DEF Owned, TablesInv, SetBoth, Fields
  <1>2. \A o \in DOMAIN g.handles : IsKind(g, o, "bitmap") => o \in DOMAIN g.copies /\ o # h
    BY DEF Owned, TablesInv, BitmapCopy
  <1> HIDE DEF n
  <1>3. Owned(n, B)
    BY <1>1, <1>2, Kept
  <1> QED
    BY <1>3 DEF n

----------------------------------------------------------------------------
(* The calls                                                                *)

(* GetDC keeps the invariant.                                               *)
LEMMA GetDCStep ==
  ASSUME BInv, NEW hwnd, NEW systemClip, GetDC(hwnd, systemClip)
  PROVE  BInv'
  <1>1. Owned(MakeGuestDc(gdi, hwnd, systemClip), blocks)
    BY MakeDcOwned DEF BInv
  <1> QED
    BY <1>1 DEF BInv, GetDC, Becomes

(* The device context just made is one still when the stock bitmap is made. *)
LEMMA StockBitmapKeepsDc ==
  ASSUME NEW g, NEW B, Owned(g, B), IsKind(g, g.made, "dc")
  PROVE  IsKind(MakeStockObject(g, "bitmap"), g.made, "dc")
  <1> DEFINE copy == Bitmap(0, <<0, 1>>, TRUE)
             c == Make(g, "bitmap", 0, copy)
             n == MakeStockObject(g, "bitmap")
  <1>1. CASE "bitmap" \in DOMAIN g.stock
    BY <1>1 DEF MakeStockObject
  <1>2. CASE "bitmap" \notin DOMAIN g.stock
    <2>1. n = Stocked(c, "bitmap")
      BY <1>2 DEF MakeStockObject
    <2> HIDE DEF copy, n
    <2>2. DOMAIN c = Fields /\ c.handles = Put(g.handles, g.made + 1, [kind |-> "bitmap", pointer |-> 0])
      BY DEF Make, Owned, TablesInv, Fields
    <2> HIDE DEF c
    <2>3. n.handles = c.handles
      BY <2>1, <2>2 DEF Stocked, Fields
    <2>4. g.made # g.made + 1
      BY DEF Owned, TablesInv
    <2>5. IsKind(n, g.made, "dc")
      BY <2>2, <2>3, <2>4 DEF IsKind, Put
    <2> QED
      BY <2>5 DEF n
  <1> QED
    BY <1>1, <1>2

(* CreateCompatibleDC keeps the invariant.                                  *)
LEMMA CreateCompatibleDCStep ==
  ASSUME BInv, CreateCompatibleDC
  PROVE  BInv'
  <1> DEFINE g == MakeGuestDc(gdi, None, Unclipped)
             n == MakeStockObject(g, "bitmap")
  <1>1. Owned(g, blocks) /\ IsKind(g, g.made, "dc")
    BY MakeDcOwned DEF BInv
  <1> HIDE DEF g
  <1>2. Owned(n, blocks)
    BY <1>1, MakeStockOwned
  <1>3. ~IsKind(n, g.made, "bitmap")
    BY <1>1, StockBitmapKeepsDc DEF IsKind
  <1> HIDE DEF n
  <1>4. Owned(SetBoth(n, g.made, "bitmap", n.stock["bitmap"]), blocks)
    BY <1>2, <1>3, SetOwned
  <1> QED
    BY <1>4 DEF BInv, CreateCompatibleDC, WithBitmap, SelectStock, Select, Becomes, g, n

(* A device context that goes keeps the invariant.                          *)
LEMMA DestroyDcStep ==
  ASSUME BInv, NEW h, ~IsKind(gdi, h, "bitmap"), DestroyDc(h)
  PROVE  BInv'
  <1>1. /\ DOMAIN gdi' = Fields /\ gdi'.made = gdi.made
        /\ gdi'.handles = Erase(gdi.handles, h) /\ gdi'.copies = Erase(gdi.copies, h)
        /\ DOMAIN gdi'.clips \subseteq DOMAIN gdi.clips /\ blocks' = blocks
        /\ gdi'.orphans = gdi.orphans
    BY DEF BInv, Owned, TablesInv, DestroyDc, Erase, Fields
  <1>2. \A o \in DOMAIN gdi.copies : o # h => o \in DOMAIN gdi'.copies /\ gdi'.copies[o] = gdi.copies[o]
    BY <1>1 DEF Erase
  <1>3. Owned(gdi', blocks)
    BY <1>1, <1>2, GoneOwned DEF BInv
  <1> QED
    BY <1>1, <1>3 DEF BInv

(* The pixels of a bitmap that loses its handle so are orphans.             *)
LEMMA DropHandleStep ==
  ASSUME BInv, NEW h, DropHandle(h)
  PROVE  BInv'
  <1>1. /\ DOMAIN gdi' = Fields /\ gdi'.made = gdi.made /\ gdi'.clips = gdi.clips
        /\ gdi'.handles = Erase(gdi.handles, h) /\ gdi'.copies = gdi.copies /\ blocks' = blocks
        /\ gdi'.orphans = IF IsKind(gdi, h, "bitmap")
                          THEN gdi.orphans \cup ({gdi.handles[h].pointer} \ {0}) ELSE gdi.orphans
    BY DEF BInv, Owned, TablesInv, DropHandle, Fields
  <1>2. Owned(gdi', blocks)
    BY <1>1, OrphanOwned DEF BInv
  <1> QED
    BY <1>1, <1>2 DEF BInv

(* The calls that create a bitmap keep the invariant.                       *)
LEMMA CreateBitmapStep ==
  ASSUME BInv, NEW block, NEW palette, CreateBitmap(block, palette)
  PROVE  BInv'
  <1>1. block \in (Blocks \ blocks) \cup {0}
    BY DEF CreateBitmap, Given
  <1>2. Owned(Make(gdi, "bitmap", block, Bitmap(block, palette, FALSE)), blocks \cup ({block} \cap Blocks))
    BY <1>1, MakeBitmapOwned DEF BInv
  <1> QED
    BY <1>2 DEF BInv, CreateBitmap, Becomes

(* An image has no pixels in the heap.                                      *)
LEMMA LoadImageStep ==
  ASSUME BInv, LoadImage
  PROVE  BInv'
  <1> DEFINE m == gdi.made + 1
             image == [kind |-> "image", pointer |-> 0]
  <1>1. /\ DOMAIN gdi' = Fields /\ gdi'.made = m /\ gdi'.handles = Put(gdi.handles, m, image)
        /\ gdi'.clips = gdi.clips /\ gdi'.copies = gdi.copies /\ gdi'.orphans = gdi.orphans
        /\ blocks' = blocks
    BY DEF BInv, Owned, TablesInv, LoadImage, Becomes, Fields
  <1>2. Owned(gdi', blocks \cup {})
    BY <1>1, MadeOwned DEF BInv
  <1> QED
    BY <1>1, <1>2 DEF BInv

(* The calls that create pens, brushes and fonts, or fetch stock objects,   *)
(* keep the invariant.                                                      *)
LEMMA CreateToolStep ==
  ASSUME BInv, NEW kind \in Tools, NEW bitmap,
         \/ CreateTool(kind) \/ GetStockObject(kind) \/ CreatePatternBrush(bitmap)
  PROVE  BInv'
  <1>1. CASE CreateTool(kind)
    <2>1. Owned(Make(gdi, kind, 0, Tool(None, FALSE)), blocks)
      BY MakeOwned DEF BInv, Tools
    <2> QED
      BY <1>1, <2>1 DEF BInv, CreateTool, Becomes
  <1>2. CASE GetStockObject(kind)
    <2>1. Owned(MakeStockObject(gdi, kind), blocks)
      BY MakeStockOwned DEF BInv
    <2> QED
      BY <1>2, <2>1 DEF BInv, GetStockObject, Becomes
  <1>3. CASE CreatePatternBrush(bitmap)
    <2>1. Owned(Make(gdi, "brush", 0, Tool(bitmap, FALSE)), blocks)
      BY MakeOwned DEF BInv
    <2> QED
      BY <1>3, <2>1 DEF BInv, CreatePatternBrush, Becomes
  <1> QED
    BY <1>1, <1>2, <1>3

(* SelectObject keeps the invariant.                                        *)
LEMMA SelectStep ==
  ASSUME BInv, NEW h, NEW object, NEW color, SelectObject(h, object) \/ SetTextColor(h, color)
  PROVE  BInv'
  <1>1. ~IsKind(gdi, h, "bitmap") /\ blocks' = blocks
    BY DEF SelectObject, SetTextColor, LookupGuestDc, IsKind
  <1>2. CASE SelectObject(h, object)
    <2>1. PICK kind \in {gdi.handles[object].kind} : gdi' = SetBoth(gdi, h, kind, object)
      BY <1>2 DEF SelectObject, Select
    <2>2. Owned(SetBoth(gdi, h, kind, object), blocks)
      BY <1>1, SetOwned DEF BInv
    <2> QED
      BY <1>1, <2>1, <2>2 DEF BInv
  <1>3. CASE SetTextColor(h, color)
    <2>1. Owned(SetBoth(gdi, h, "color", color), blocks)
      BY <1>1, SetOwned DEF BInv
    <2> QED
      BY <1>1, <1>3, <2>1 DEF BInv, SetTextColor
  <1> QED
    BY <1>2, <1>3

(* Removing a bitmap with its block keeps the invariant.                    *)
LEMMA DeletedOwned ==
  ASSUME BInv, NEW h, NEW B, gdi' = Deleted(h),
         B = IF IsKind(gdi, h, "bitmap") THEN blocks \ {gdi.handles[h].pointer} ELSE blocks
  PROVE  Owned(gdi', B)
  <1>1. /\ DOMAIN gdi' = Fields /\ gdi'.made = gdi.made /\ gdi'.clips = gdi.clips
        /\ gdi'.orphans = gdi.orphans
        /\ gdi'.handles = Erase(gdi.handles, h) /\ gdi'.copies = Erase(gdi.copies, h)
    BY DEF BInv, Owned, TablesInv, Deleted, Fields
  <1>2. \A o \in DOMAIN gdi.copies : o # h => o \in DOMAIN gdi'.copies /\ gdi'.copies[o] = gdi.copies[o]
    BY <1>1 DEF Erase
  <1> QED
    BY <1>1, <1>2, GoneOwned DEF BInv

(* DeleteObject keeps the invariant.                                        *)
LEMMA DeleteObjectStep ==
  ASSUME BInv, NEW h, DeleteObject(h)
  PROVE  BInv'
  <1>1. blocks' = IF IsKind(gdi, h, "bitmap") THEN blocks \ {gdi.handles[h].pointer} ELSE blocks
    BY GdiAssumption DEF BInv, Owned, BlocksInv, DeleteObject, Released, IsKind
  <1>2. Owned(gdi', blocks')
    BY <1>1, DeletedOwned DEF DeleteObject
  <1> QED
    BY <1>2 DEF BInv

(* Closing a handle keeps the invariant.                                    *)
LEMMA CloseHandleStep ==
  ASSUME BInv, NEW h, CloseHandle(h)
  PROVE  BInv'
  <1>1. /\ DOMAIN gdi' = Fields /\ gdi'.made = gdi.made /\ gdi'.clips = gdi.clips
        /\ gdi'.orphans = gdi.orphans
        /\ gdi'.handles = Erase(gdi.handles, h)
        /\ gdi'.copies = Erase(gdi.copies, h) \/ gdi'.copies = gdi.copies
    BY DEF BInv, Owned, TablesInv, CloseHandle, Fields
  <1>2. \A o \in DOMAIN gdi.copies : o # h => o \in DOMAIN gdi'.copies /\ gdi'.copies[o] = gdi.copies[o]
    BY <1>1 DEF Erase
  <1>3. blocks' = IF IsKind(gdi, h, "bitmap") THEN blocks \ {gdi.handles[h].pointer} ELSE blocks
    BY DEF CloseHandle, Released, IsKind
  <1>4. Owned(gdi', blocks')
    BY <1>1, <1>2, <1>3, GoneOwned DEF BInv
  <1> QED
    BY <1>4 DEF BInv

(* A change of colours changes no bitmap's block.                           *)
LEMMA PaletteKept ==
  ASSUME BInv, NEW k, NEW new, blocks' = blocks,
         DOMAIN gdi' = Fields, gdi'.made = gdi.made, gdi'.handles = gdi.handles,
         gdi'.clips = gdi.clips, gdi'.orphans = gdi.orphans,
         gdi'.copies = gdi.copies \/ gdi'.copies = [gdi.copies EXCEPT ![k].palette = new]
  PROVE  BInv'
  <1>1. \A o \in DOMAIN gdi.handles : IsKind(gdi, o, "bitmap") =>
           /\ o \in DOMAIN gdi'.copies
           /\ DOMAIN gdi'.copies[o] = DOMAIN gdi.copies[o]
           /\ gdi'.copies[o].bits = gdi.copies[o].bits
    BY DEF BInv, Owned, TablesInv, BitmapCopy
  <1>2. Owned(gdi', blocks)
    BY <1>1, Kept DEF BInv
  <1> QED
    BY <1>2 DEF BInv

(* The palette calls keep the invariant.                                    *)
LEMMA PaletteStep ==
  ASSUME BInv, NEW h, NEW start, NEW color, SetDIBColorTable(h, start, color) \/ DrawInBitmap(h)
  PROVE  BInv'
  <1> DEFINE k == gdi.mirrors[h].bitmap
  <1>0. DOMAIN gdi = Fields
    BY DEF BInv, Owned, TablesInv
  <1>1. CASE SetDIBColorTable(h, start, color)
    <2> DEFINE old  == gdi.mirrors[k].palette
               full == [i \in 1 .. PaletteSize |-> IF i <= Len(old) THEN old[i] ELSE 0]
               new  == [full EXCEPT ![start] = color]
    <2>1. /\ blocks' = blocks
          /\ \/ gdi' = [gdi EXCEPT !.mirrors[k].palette = full]
             \/ gdi' = [gdi EXCEPT !.mirrors[k].palette = new, !.copies[k].palette = new]
      BY <1>1 DEF SetDIBColorTable
    <2> HIDE DEF full, new, k
    <2>2. CASE gdi' = [gdi EXCEPT !.mirrors[k].palette = full]
      BY <1>0, <2>1, <2>2, PaletteKept DEF Fields
    <2>3. CASE gdi' = [gdi EXCEPT !.mirrors[k].palette = new, !.copies[k].palette = new]
      BY <1>0, <2>1, <2>3, PaletteKept DEF Fields
    <2> QED
      BY <2>1, <2>2, <2>3
  <1>2. CASE DrawInBitmap(h)
    <2> DEFINE new == gdi.mirrors[k].palette
    <2>1. blocks' = blocks /\ (gdi' = gdi \/ gdi' = [gdi EXCEPT !.copies[k].palette = new])
      BY <1>2 DEF DrawInBitmap
    <2> HIDE DEF new, k
    <2>2. CASE gdi' = gdi
      BY <2>1, <2>2 DEF BInv
    <2>3. CASE gdi' = [gdi EXCEPT !.copies[k].palette = new]
      BY <1>0, <2>1, <2>3, PaletteKept DEF Fields
    <2> QED
      BY <2>1, <2>2, <2>3
  <1> QED
    BY <1>1, <1>2

(* CreateRectRgn keeps the invariant.                                       *)
LEMMA CreateRectRgnStep ==
  ASSUME BInv, NEW left, NEW right, CreateRectRgn(left, right)
  PROVE  BInv'
  <1> DEFINE h == gdi.made + 1
             new == [kind |-> "region", pointer |-> 0]
  <1>1. /\ DOMAIN gdi' = Fields /\ gdi'.made = h /\ gdi'.clips = gdi.clips
        /\ gdi'.handles = Put(gdi.handles, h, new) /\ gdi'.copies = gdi.copies /\ blocks' = blocks
        /\ gdi'.orphans = gdi.orphans
    BY DEF BInv, Owned, TablesInv, CreateRectRgn, TrackRegion, Becomes, Fields
  <1>2. Owned(gdi', blocks \cup {})
    BY <1>1, MadeOwned DEF BInv
  <1> QED
    BY <1>1, <1>2 DEF BInv

(* The calls on regions keep the invariant.                                 *)
LEMMA RegionsStep ==
  ASSUME BInv,
         NEW h, NEW left, NEW right, NEW src1, NEW src2, NEW mode, NEW region, NEW origin, NEW S,
         \/ SetRectRgn(h, left, right) \/ CombineRgn(h, src1, src2, mode)
         \/ SelectClipRgn(h, region, origin) \/ SetWindowRgn(h) \/ GetWindowRgn(h, S)
  PROVE  BInv'
  <1>0. DOMAIN gdi = Fields
    BY DEF BInv, Owned, TablesInv
  <1>1. CASE \/ SetRectRgn(h, left, right) \/ CombineRgn(h, src1, src2, mode)
             \/ SelectClipRgn(h, region, origin) \/ GetWindowRgn(h, S)
    <2>1. /\ DOMAIN gdi' = Fields /\ gdi'.made = gdi.made /\ gdi'.handles = gdi.handles
          /\ gdi'.copies = gdi.copies /\ DOMAIN gdi'.clips = DOMAIN gdi.clips /\ blocks' = blocks
          /\ gdi'.orphans = gdi.orphans
      <3>1. CASE SetRectRgn(h, left, right)
        BY <1>0, <3>1 DEF SetRectRgn, TrackRegion, Fields
      <3>2. CASE CombineRgn(h, src1, src2, mode)
        BY <1>0, <3>2 DEF CombineRgn, TrackRegion, Fields
      <3>3. CASE SelectClipRgn(h, region, origin)
        BY <1>0, <3>3 DEF SelectClipRgn, Fields
      <3>4. CASE GetWindowRgn(h, S)
        BY <1>0, <3>4 DEF GetWindowRgn, Fields
      <3> QED
        BY <1>1, <3>1, <3>2, <3>3, <3>4
    <2>2. \A o \in DOMAIN gdi.handles : IsKind(gdi, o, "bitmap") => o \in DOMAIN gdi.copies
      BY DEF BInv, Owned, TablesInv, BitmapCopy
    <2>3. Owned(gdi', blocks)
      BY <2>1, <2>2, Kept DEF BInv
    <2> QED
      BY <2>1, <2>3 DEF BInv
  <1>2. CASE SetWindowRgn(h)
    <2>1. ~IsKind(gdi, h, "bitmap") /\ gdi' = Deleted(h) /\ blocks' = blocks
      BY <1>2 DEF SetWindowRgn, IsKind
    <2>2. Owned(gdi', blocks)
      BY <2>1, DeletedOwned
    <2> QED
      BY <2>1, <2>2 DEF BInv
  <1> QED
    BY <1>1, <1>2

----------------------------------------------------------------------------
(* The invariant holds at first.                                            *)
LEMMA InitOwned ==
  ASSUME Init
  PROVE  BInv
  BY DEF Init, GdiInit, BInv, Owned, TablesInv, BlocksInv, IsKind, Fields

(* Every call on objects keeps the invariant.                               *)
LEMMA ObjectStepOwned ==
  ASSUME BInv, ObjectStep
  PROVE  BInv'
  <1>1. ASSUME NEW w \in Targets, NEW systemClip \in {published[w].visible}, GetDC(w, systemClip)
        PROVE  BInv'
    BY <1>1, GetDCStep
  <1>2. ASSUME NEW w \in Targets, NEW left \in Pixels, GetDC(w, <<left, published[w].visible[2]>>)
        PROVE  BInv'
    BY <1>2, GetDCStep
  <1>3. CASE CreateCompatibleDC
    BY <1>3, CreateCompatibleDCStep
  <1>4. ASSUME NEW h \in Handles, ReleaseDC(h) \/ EndPaint(h)
        PROVE  BInv'
    <2>1. CASE ReleaseDC(h) \/ (h \in DOMAIN gdi.clips /\ DestroyDc(h))
      <3>1. ~IsKind(gdi, h, "bitmap") /\ DestroyDc(h)
        BY <2>1 DEF ReleaseDC, IsKind, BInv, Owned, TablesInv
      <3> QED
        BY <3>1, DestroyDcStep
    <2>2. CASE DropHandle(h)
      BY <2>2, DropHandleStep
    <2> QED
      BY <1>4, <2>1, <2>2 DEF EndPaint
  <1>5. ASSUME NEW h \in Handles, DeleteObject(h) \/ CloseHandle(h)
        PROVE  BInv'
    BY <1>5, DeleteObjectStep, CloseHandleStep
  <1>6. ASSUME NEW h \in Handles, NEW object \in Handles, SelectObject(h, object)
        PROVE  BInv'
    BY <1>6, SelectStep
  <1>7. ASSUME NEW h \in Handles, NEW color \in Colour, SetTextColor(h, color)
        PROVE  BInv'
    BY <1>7, SelectStep
  <1>8. ASSUME NEW h \in Handles, NEW start \in 1 .. PaletteSize, NEW color \in Colour \cup {NoColor},
               SetDIBColorTable(h, start, color)
        PROVE  BInv'
    BY <1>8, PaletteStep
  <1>9. ASSUME NEW h \in Handles, DrawInBitmap(h)
        PROVE  BInv'
    BY <1>9, PaletteStep
  <1>10. ASSUME NEW block \in Blocks \cup {0}, NEW palette \in {<< >>, << 1 >>}, CreateBitmap(block, palette)
         PROVE  BInv'
    BY <1>10, CreateBitmapStep
  <1>11. ASSUME NEW kind \in Tools, CreateTool(kind) \/ GetStockObject(kind)
         PROVE  BInv'
    BY <1>11, CreateToolStep
  <1>12. ASSUME NEW bitmap \in Handles, CreatePatternBrush(bitmap)
         PROVE  BInv'
    BY <1>12, CreateToolStep DEF Tools
  <1>13. CASE LoadImage
    BY <1>13, LoadImageStep
  <1> QED
    BY <1>1, <1>2, <1>3, <1>4, <1>5, <1>6, <1>7, <1>8, <1>9, <1>10, <1>11, <1>12, <1>13 DEF ObjectStep

(* Every call on regions keeps the invariant.                               *)
LEMMA RegionStepOwned ==
  ASSUME BInv, RegionStep
  PROVE  BInv'
  <1>1. ASSUME NEW left \in Points, NEW right \in Points, CreateRectRgn(left, right)
        PROVE  BInv'
    BY <1>1, CreateRectRgnStep
  <1>2. ASSUME NEW h \in Handles, NEW left \in Points, NEW right \in Points, SetRectRgn(h, left, right)
        PROVE  BInv'
    BY <1>2, RegionsStep
  <1>3. ASSUME NEW h \in Handles, SetWindowRgn(h)
        PROVE  BInv'
    BY <1>3, RegionsStep
  <1>4. ASSUME NEW h \in Handles, NEW src1 \in Handles, NEW src2 \in Handles,
               NEW mode \in {"and", "or", "diff", "xor", "copy"}, CombineRgn(h, src1, src2, mode)
        PROVE  BInv'
    BY <1>4, RegionsStep
  <1>5. ASSUME NEW h \in Handles, NEW region \in Handles \cup {None},
               SelectClipRgn(h, region, Origin(windows, gdi.copies[h].hwnd))
        PROVE  BInv'
    BY <1>5, RegionsStep
  <1>6. ASSUME NEW h \in Handles, NEW S \in SUBSET Points, GetWindowRgn(h, S)
        PROVE  BInv'
    BY <1>6, RegionsStep
  <1> QED
    BY <1>1, <1>2, <1>3, <1>4, <1>5, <1>6 DEF RegionStep

(* Every step of the graphics keeps the invariant.                          *)
LEMMA StepOwned ==
  ASSUME BInv, [Next]_vars
  PROVE  BInv'
  <1>1. CASE UNCHANGED gdiVars
    BY <1>1 DEF BInv, gdiVars
  <1>2. CASE ObjectStep
    BY <1>2, ObjectStepOwned
  <1>3. CASE RegionStep
    BY <1>3, RegionStepOwned
  <1> QED
    BY <1>1, <1>2, <1>3 DEF Next, vars, gdiVars

(* The invariant implies BitsOwned.                                         *)
LEMMA InvImplies ==
  ASSUME BInv
  PROVE  BitsOwned
  <1> DEFINE owners(b) == {h \in DOMAIN gdi.handles : IsKind(gdi, h, "bitmap") /\ gdi.copies[h].bits = b}
  <1>1. \A h \in DOMAIN gdi.handles : IsKind(gdi, h, "bitmap") => gdi.copies[h].bits = gdi.handles[h].pointer
    BY DEF BInv, Owned, TablesInv, BitmapCopy
  <1>2. ASSUME NEW b \in blocks \ gdi.orphans
        PROVE  Cardinality(owners(b)) = 1
    <2>1. PICK h \in DOMAIN gdi.handles : IsKind(gdi, h, "bitmap") /\ gdi.handles[h].pointer = b
      BY DEF BInv, Owned, BlocksInv
    <2>2. b # 0
      BY GdiAssumption DEF BInv, Owned, BlocksInv
    <2>3. owners(b) = {h}
      BY <1>1, <2>1, <2>2 DEF BInv, Owned, BlocksInv
    <2> QED
      BY <2>3, FS_Singleton
  <1>3. \A h \in DOMAIN gdi.handles :
          IsKind(gdi, h, "bitmap") => gdi.copies[h].bits \in (blocks \ gdi.orphans) \cup {0}
    BY <1>1 DEF BInv, Owned, BlocksInv
  <1> QED
    BY <1>2, <1>3 DEF BitsOwned

(* Every block of pixels belongs to exactly one bitmap with a handle, and   *)
(* no bitmap with a handle has pixels that were freed, for every heap, set  *)
(* of windows and number of handles, whatever calls the guest makes in      *)
(* whatever order (CreateBitmap, CreateDIBSection, DeleteObject,            *)
(* CloseHandle, and all that must leave bitmaps alone); only the pixels of  *)
(* a bitmap whose handle the guest gives to EndPaint stay without an owner. *)
THEOREM BlocksHaveOneBitmap == Spec => []BitsOwned
  <1>1. Init => BInv
    BY InitOwned
  <1>2. BInv /\ [Next]_vars => BInv'
    BY StepOwned
  <1>3. BInv => BitsOwned
    BY InvImplies
  <1> QED
    BY <1>1, <1>2, <1>3, PTL DEF Spec

----------------------------------------------------------------------------
(* The two copies of every object                                           *)

DcFields == {"hwnd", "brush", "pen", "font", "bitmap", "color"}

Palettes == {p \in Seq(Colour) : Len(p) <= PaletteSize}

(* What is kept under the number o is of the given kind, if the guest still *)
(* has a handle of it.                                                      *)
Names(g, o, kind) ==
  o \in 0 .. g.made /\ (o \in DOMAIN g.handles => g.handles[o].kind = kind)

RegionAlike(g, h) ==
  /\ h \in DOMAIN g.regions /\ g.regions[h] \subseteq Points
  /\ h \in g.taken \/ Box(g.regions[h]) = Box(Between(g.mirrors[h].bounds))

BitmapAlike(g, h) ==
  LET fields == {"bits", "palette", "stock"}
  IN  /\ h \in DOMAIN g.copies /\ DOMAIN g.copies[h] = fields /\ DOMAIN g.mirrors[h] = fields
      /\ g.copies[h].bits = g.mirrors[h].bits
      /\ g.copies[h].palette \in Palettes /\ g.mirrors[h].palette \in Palettes
      /\ SamePalette(g.copies[h].palette, g.mirrors[h].palette)

(* The two copies of the object with handle h, if it has any, and what a    *)
(* device context's selected bitmap is                                      *)
Alike(g, h) ==
  ~IsKind(g, h, "image") =>
    /\ h \in DOMAIN g.mirrors
    /\ IsKind(g, h, "region") => RegionAlike(g, h)
    /\ IsKind(g, h, "bitmap") => BitmapAlike(g, h)
    /\ g.handles[h].kind \notin {"region", "bitmap"} =>
         h \in DOMAIN g.copies /\ g.copies[h] = g.mirrors[h]
    /\ IsKind(g, h, "dc") =>
         DOMAIN g.mirrors[h] = DcFields /\ Names(g, g.mirrors[h].bitmap, "bitmap")

AlikeInv(g) ==
  /\ \A h \in DOMAIN g.handles : Alike(g, h)
  /\ \A kind \in DOMAIN g.stock : Names(g, g.stock[kind], kind)

----------------------------------------------------------------------------
(* A finite set in a total order has a last element: a subset that had      *)
(* none, with as few elements as possible, would have none without one of   *)
(* them either.                                                             *)
LEMMA LastInOrder ==
  ASSUME NEW S, IsFiniteSet(S), S # {}, NEW R,
         \A k, m \in S : <<k, m>> \in R \/ <<m, k>> \in R,
         \A k, m, n \in S : <<k, m>> \in R /\ <<m, n>> \in R => <<k, n>> \in R
  PROVE  \E m \in S : \A k \in S : <<k, m>> \in R
  <1> DEFINE Ends(T, m) == \A k \in T : <<k, m>> \in R
             Bad == {T \in SUBSET S : T # {} /\ ~\E m \in T : Ends(T, m)}
             Sizes == {n \in Nat : \E T \in Bad : Cardinality(T) = n}
  <1> SUFFICES ASSUME Bad # {}
               PROVE  FALSE
    OBVIOUS
  <1>1. \A T \in SUBSET S : IsFiniteSet(T) /\ Cardinality(T) \in Nat
    BY FS_Subset, FS_CardinalityType
  <1>2. Sizes \in SUBSET Nat /\ Sizes # {}
    BY <1>1
  <1>3. PICK n \in Sizes : \A k \in Sizes : n <= k
    <2> HIDE DEF Sizes
    <2> QED
      BY <1>2, Lists!LeastNat
  <1>4. PICK T \in Bad : Cardinality(T) = n
    BY <1>3
  <1>5. PICK x \in T : TRUE
    BY <1>4
  <1> DEFINE U == T \ {x}
  <1>6. U \in SUBSET S /\ Cardinality(U) = n - 1 /\ n - 1 \in Nat
    <2>1. Cardinality(U) = Cardinality(T) - 1
      BY <1>1, <1>4, <1>5, FS_RemoveElement
    <2>2. U \in SUBSET S
      BY <1>4
    <2>3. Cardinality(U) \in Nat
      BY <1>1, <2>2
    <2> QED
      BY <1>4, <2>1, <2>2, <2>3
  <1>7. U \notin Bad
    <2>1. n \in Nat /\ ~(n <= n - 1)
      BY <1>2, <1>3
    <2>2. n - 1 \notin Sizes
      <3> HIDE DEF Sizes
      <3> QED
        BY <1>3, <2>1
    <2> QED
      BY <1>6, <2>2
  <1>8. <<x, x>> \in R /\ T \subseteq S /\ x \in S
    BY <1>4, <1>5
  <1>9. CASE U = {}
    <2>1. T = {x}
      BY <1>5, <1>9
    <2> QED
      BY <1>4, <1>8, <2>1
  <1>10. CASE U # {}
    <2>1. PICK m \in U : Ends(U, m)
      BY <1>6, <1>7, <1>10
    <2>2. CASE <<x, m>> \in R
      <3>1. Ends(T, m)
        BY <2>1, <2>2
      <3> QED
        BY <1>4, <2>1, <3>1
    <2>3. CASE <<m, x>> \in R
      <3>1. Ends(T, x)
        BY <1>8, <2>1, <2>3
      <3> QED
        BY <1>4, <1>5, <3>1
    <2> QED
      BY <1>8, <2>1, <2>2, <2>3
  <1> QED
    BY <1>9, <1>10

(* Max and Min of a finite set of integers are its greatest and its least.  *)
LEMMA MaxMin ==
  ASSUME NEW S \in SUBSET Int, IsFiniteSet(S), S # {}
  PROVE  /\ Max(S) \in S /\ \A k \in S : k <= Max(S)
         /\ Min(S) \in S /\ \A k \in S : Min(S) <= k
  <1>1. \E m \in S : \A k \in S : m >= k
    <2> DEFINE R == {p \in Int \X Int : p[1] <= p[2]}
    <2>1. \A k, m \in S : <<k, m>> \in R <=> k <= m
      OBVIOUS
    <2> HIDE DEF R
    <2>2. \E m \in S : \A k \in S : <<k, m>> \in R
      <3>1. /\ \A k, m \in S : <<k, m>> \in R \/ <<m, k>> \in R
            /\ \A k, m, n \in S : <<k, m>> \in R /\ <<m, n>> \in R => <<k, n>> \in R
        BY <2>1
      <3> QED
        BY <3>1, LastInOrder
    <2> QED
      BY <2>1, <2>2
  <1>2. \E m \in S : \A k \in S : m <= k
    <2> DEFINE R == {p \in Int \X Int : p[2] <= p[1]}
    <2>1. \A k, m \in S : <<k, m>> \in R <=> m <= k
      OBVIOUS
    <2> HIDE DEF R
    <2>2. \E m \in S : \A k \in S : <<k, m>> \in R
      <3>1. /\ \A k, m \in S : <<k, m>> \in R \/ <<m, k>> \in R
            /\ \A k, m, n \in S : <<k, m>> \in R /\ <<m, n>> \in R => <<k, n>> \in R
        BY <2>1
      <3> QED
        BY <3>1, LastInOrder
    <2> QED
      BY <2>1, <2>2
  <1> QED
    BY <1>1, <1>2 DEF Max, Min

(* The bounds of a region are those of the whole stretch they bound: taking *)
(* the bounds of a region's mirror loses nothing that is asked of it.       *)
LEMMA BoxOfBounds ==
  ASSUME NEW S \in SUBSET Points
  PROVE  Box(Between(Box(S))) = Box(S)
  <1>1. CASE S = {}
    <2>1. \A p \in Points : ~(0 <= p /\ p < 0)
      BY GdiAssumption
    <2>2. Between(<<0, 0>>) = {p \in Points : 0 <= p /\ p < 0}
      BY DEF Between
    <2>3. Between(<<0, 0>>) = {}
      BY <2>1, <2>2
    <2> QED
      BY <1>1, <2>3 DEF Box
  <1>2. CASE S # {}
    <2> DEFINE T == Between(Box(S))
    <2>1. S \in SUBSET Int /\ IsFiniteSet(S)
      BY GdiAssumption, FS_Subset
    <2>2. /\ Max(S) \in S /\ \A k \in S : k <= Max(S)
          /\ Min(S) \in S /\ \A k \in S : Min(S) <= k
      BY <1>2, <2>1, MaxMin
    <2>3. T = {p \in Points : Min(S) <= p /\ p < Max(S) + 1}
      BY <1>2 DEF Box, Between
    <2>4. T \in SUBSET Int /\ IsFiniteSet(T) /\ S \subseteq T /\ T # {}
      <3>1. T \subseteq Points
        BY <2>3
      <3>2. IsFiniteSet(T)
        BY <3>1, GdiAssumption, FS_Subset
      <3>3. \A k \in S : k \in Points /\ Min(S) <= k /\ k < Max(S) + 1
        <4>1. \A k, m \in Int : k <= m => k < m + 1
          OBVIOUS
        <4>2. S \subseteq Int /\ Max(S) \in Int
          BY <2>1, <2>2
        <4>3. \A k \in S : k < Max(S) + 1
          BY <2>2, <4>1, <4>2
        <4> QED
          BY <2>2, <4>3
      <3> QED
        BY <1>2, <2>3, <3>1, <3>2, <3>3, GdiAssumption
    <2>5. /\ Max(T) \in T /\ \A k \in T : k <= Max(T)
          /\ Min(T) \in T /\ \A k \in T : Min(T) <= k
      BY <2>4, MaxMin
    <2>6. Min(T) = Min(S) /\ Max(T) = Max(S)
      <3>1. Min(S) \in Int /\ Max(S) \in Int /\ Min(T) \in Int /\ Max(T) \in Int
        BY <2>1, <2>2, <2>4, <2>5
      <3>2. Min(T) <= Min(S) /\ Max(S) <= Max(T)
        BY <2>2, <2>4, <2>5
      <3>3. Min(S) <= Min(T) /\ Max(T) < Max(S) + 1
        BY <2>3, <2>5
      <3> QED
        BY <3>1, <3>2, <3>3
    <2> QED
      BY <1>2, <2>4, <2>6 DEF Box
  <1> QED
    BY <1>1, <1>2

(* A combination of regions is a region.                                    *)
LEMMA CombineRegions ==
  ASSUME NEW S \in SUBSET Points, NEW T \in SUBSET Points,
         NEW mode \in {"and", "or", "diff", "xor", "copy"}
  PROVE  Combine(mode, S, T) \in SUBSET Points
  BY DEF Combine

(* An object is kept alike by what leaves its handle, its copies and its    *)
(* region alone, and makes no object under a number already used.           *)
LEMMA AlikeKept ==
  ASSUME NEW g, NEW n, NEW h \in DOMAIN g.handles, Alike(g, h),
         g.made \in Nat, n.made \in Nat, g.made <= n.made,
         h \in DOMAIN n.handles, n.handles[h] = g.handles[h],
         h \in DOMAIN g.mirrors => h \in DOMAIN n.mirrors /\ n.mirrors[h] = g.mirrors[h],
         h \in g.taken => h \in n.taken,
         h \in DOMAIN g.copies => h \in DOMAIN n.copies /\ n.copies[h] = g.copies[h],
         h \in DOMAIN g.regions => h \in DOMAIN n.regions /\ n.regions[h] = g.regions[h],
         \A o \in DOMAIN n.handles : o \in 0 .. g.made =>
           o \in DOMAIN g.handles /\ n.handles[o].kind = g.handles[o].kind
  PROVE  Alike(n, h)
  <1>1. \A kind : IsKind(n, h, kind) <=> IsKind(g, h, kind)
    BY DEF IsKind
  <1>2. \A o, kind : Names(g, o, kind) => Names(n, o, kind)
    BY DEF Names
  <1> SUFFICES ASSUME ~IsKind(n, h, "image")
               PROVE  Alike(n, h)
    BY DEF Alike
  <1>3. h \in DOMAIN g.mirrors /\ h \in DOMAIN n.mirrors /\ n.mirrors[h] = g.mirrors[h]
    BY <1>1 DEF Alike
  <1>4. IsKind(n, h, "region") => RegionAlike(n, h)
    BY <1>1, <1>3 DEF Alike, RegionAlike
  <1>5. IsKind(n, h, "bitmap") => BitmapAlike(n, h)
    BY <1>1, <1>3 DEF Alike, BitmapAlike
  <1>6. n.handles[h].kind \notin {"region", "bitmap"} => h \in DOMAIN n.copies /\ n.copies[h] = n.mirrors[h]
    BY <1>1, <1>3 DEF Alike
  <1>7. IsKind(n, h, "dc") =>
          DOMAIN n.mirrors[h] = DcFields /\ Names(n, n.mirrors[h].bitmap, "bitmap")
    BY <1>1, <1>2, <1>3 DEF Alike
  <1> QED
    BY <1>3, <1>4, <1>5, <1>6, <1>7 DEF Alike

(* The stock objects are of their kinds after what makes no object under a  *)
(* number already used.                                                     *)
LEMMA StockKept ==
  ASSUME NEW g, NEW n, AlikeInv(g), n.stock = g.stock,
         g.made \in Nat, n.made \in Nat, g.made <= n.made,
         \A o \in DOMAIN n.handles : o \in 0 .. g.made =>
           o \in DOMAIN g.handles /\ n.handles[o].kind = g.handles[o].kind
  PROVE  \A kind \in DOMAIN n.stock : Names(n, n.stock[kind], kind)
  BY DEF AlikeInv, Names

----------------------------------------------------------------------------
(* The operators on the tables                                              *)

(* A copy of a bitmap, of a device context or of a tool as it is made       *)
Fresh(g, kind, copy) ==
  /\ kind \in Kinds \ {"region", "image"}
  /\ kind = "bitmap" =>
       /\ DOMAIN copy = {"bits", "palette", "stock"}
       /\ copy.palette \in Palettes
  /\ kind = "dc" => DOMAIN copy = DcFields /\ copy.bitmap = None

(* A new object starts with two copies that agree.                          *)
LEMMA MakeAlike ==
  ASSUME NEW g, NEW B, Owned(g, B), AlikeInv(g), NEW kind, NEW pointer, NEW copy,
         Fresh(g, kind, copy)
  PROVE  AlikeInv(Make(g, kind, pointer, copy))
  <1> DEFINE n == Make(g, kind, pointer, copy)
             m == g.made + 1
  <1>1. /\ n.made = m /\ n.regions = g.regions /\ n.stock = g.stock /\ n.taken = g.taken
        /\ n.handles = Put(g.handles, m, [kind |-> kind, pointer |-> pointer])
        /\ n.copies = Put(g.copies, m, copy) /\ n.mirrors = Put(g.mirrors, m, copy)
    BY DEF Owned, TablesInv, Make, Fields
  <1> HIDE DEF n
  <1>2. g.made \in Nat /\ m \in Nat /\ m \notin 0 .. g.made /\ DOMAIN g.handles \subseteq 1 .. g.made
    BY DEF Owned, TablesInv
  <1>3. /\ DOMAIN n.handles = DOMAIN g.handles \cup {m}
        /\ n.handles[m] = [kind |-> kind, pointer |-> pointer]
        /\ \A h \in DOMAIN g.handles : n.handles[h] = g.handles[h]
    BY <1>1, <1>2 DEF Put
  <1>4. \A o \in DOMAIN n.handles : o \in 0 .. g.made =>
           o \in DOMAIN g.handles /\ n.handles[o].kind = g.handles[o].kind
    BY <1>2, <1>3
  <1>5. ASSUME NEW h \in DOMAIN g.handles
        PROVE  Alike(n, h)
    <2>1. h # m /\ Alike(g, h)
      BY <1>2 DEF AlikeInv
    <2>2. h \in DOMAIN g.mirrors => h \in DOMAIN n.mirrors /\ n.mirrors[h] = g.mirrors[h]
      BY <1>1, <2>1 DEF Put
    <2>3. h \in DOMAIN g.copies => h \in DOMAIN n.copies /\ n.copies[h] = g.copies[h]
      BY <1>1, <2>1 DEF Put
    <2> QED
      BY <1>1, <1>2, <1>3, <1>4, <2>1, <2>2, <2>3, AlikeKept
  <1>6. Alike(n, m)
    <2>1. m \in DOMAIN n.copies /\ n.copies[m] = copy /\ m \in DOMAIN n.mirrors /\ n.mirrors[m] = copy
      BY <1>1 DEF Put
    <2>2. \A k : IsKind(n, m, k) <=> k = kind
      BY <1>3 DEF IsKind
    <2>3. IsKind(n, m, "bitmap") => BitmapAlike(n, m)
      <3>1. ASSUME NEW p \in Palettes
            PROVE  SamePalette(p, p)
        BY DEF SamePalette, Palettes
      <3> QED
        BY <2>1, <2>2, <3>1 DEF BitmapAlike, Fresh
    <2>4. IsKind(n, m, "dc") => DOMAIN n.mirrors[m] = DcFields /\ Names(n, n.mirrors[m].bitmap, "bitmap")
      <3>1. 0 \notin DOMAIN n.handles /\ 0 \in 0 .. n.made
        BY <1>1, <1>2, <1>3
      <3> QED
        BY <2>1, <2>2, <3>1 DEF Names, Fresh, None
    <2> QED
      BY <2>1, <2>2, <2>3, <2>4 DEF Alike, Fresh
  <1>7. \A k \in DOMAIN n.stock : Names(n, n.stock[k], k)
    BY <1>1, <1>2, <1>4, StockKept
  <1>8. AlikeInv(n)
    BY <1>3, <1>5, <1>6, <1>7 DEF AlikeInv
  <1> QED
    BY <1>8 DEF n

(* Making a stock object, or finding it made.                               *)
LEMMA MakeStockAlike ==
  ASSUME NEW g, NEW B, Owned(g, B), AlikeInv(g), NEW kind \in Tools \cup {"bitmap"}
  PROVE  LET n == MakeStockObject(g, kind)
         IN  AlikeInv(n) /\ kind \in DOMAIN n.stock
  <1>1. ASSUME NEW pointer, NEW copy, Fresh(g, kind, copy), NEW n,
               n = Stocked(Make(g, kind, pointer, copy), kind)
        PROVE  AlikeInv(n) /\ kind \in DOMAIN n.stock
    <2> DEFINE c == Make(g, kind, pointer, copy)
    <2>1. AlikeInv(c)
      BY <1>1, MakeAlike
    <2>2. /\ DOMAIN c = Fields /\ c.made = g.made + 1 /\ c.stock = g.stock /\ c.taken = g.taken
          /\ c.handles = Put(g.handles, c.made, [kind |-> kind, pointer |-> pointer])
      BY DEF Owned, TablesInv, Make, Fields
    <2> HIDE DEF c
    <2>3. c.made \in Nat
      BY <2>2 DEF Owned, TablesInv
    <2>4. /\ n.made = c.made /\ n.handles = c.handles /\ n.copies = c.copies
          /\ n.mirrors = c.mirrors /\ n.regions = c.regions /\ n.taken = c.taken
          /\ n.stock = Put(c.stock, kind, c.made)
      BY <1>1, <2>2 DEF Stocked, Fields, c
    <2>5. ASSUME NEW h \in DOMAIN n.handles
          PROVE  Alike(n, h)
      <3>1. h \in DOMAIN c.handles /\ Alike(c, h)
        BY <2>1, <2>4 DEF AlikeInv, Alike
      <3> QED
        BY <2>3, <2>4, <3>1, AlikeKept
    <2>6. ASSUME NEW k \in DOMAIN n.stock
          PROVE  Names(n, n.stock[k], k)
      <3>1. CASE k = kind
        <4>1. n.stock[k] = c.made /\ c.handles[c.made].kind = kind
          BY <2>2, <2>4, <3>1 DEF Put
        <4> QED
          BY <2>3, <2>4, <3>1, <4>1 DEF Names
      <3>2. CASE k # kind
        <4>1. k \in DOMAIN c.stock /\ n.stock[k] = c.stock[k]
          BY <2>4, <3>2 DEF Put
        <4>2. Names(c, c.stock[k], k)
          BY <2>1, <4>1 DEF AlikeInv
        <4> QED
          BY <2>4, <4>1, <4>2 DEF Names
      <3> QED
        BY <3>1, <3>2
    <2>7. kind \in DOMAIN n.stock
      BY <2>4 DEF Put
    <2> QED
      BY <2>5, <2>6, <2>7 DEF AlikeInv
  <1>2. CASE kind \in DOMAIN g.stock
    BY <1>2 DEF MakeStockObject
  <1>3. CASE kind \notin DOMAIN g.stock /\ kind = "bitmap"
    <2> DEFINE copy == Bitmap(0, <<0, 1>>, TRUE)
    <2>1. Fresh(g, kind, copy)
      <3>1. <<0, 1>> \in Palettes
        BY DEF Palettes, Colour, PaletteSize
      <3> QED
        BY <1>3, <3>1 DEF Fresh, Bitmap, Kinds
    <2> HIDE DEF copy
    <2>2. MakeStockObject(g, kind) = Stocked(Make(g, kind, 0, copy), kind)
      BY <1>3 DEF MakeStockObject, copy
    <2> QED
      BY <1>1, <2>1, <2>2
  <1>4. CASE kind \notin DOMAIN g.stock /\ kind # "bitmap"
    <2> DEFINE copy == Tool(None, TRUE)
    <2>1. Fresh(g, kind, copy)
      BY <1>4 DEF Fresh, Kinds, Tools
    <2> HIDE DEF copy
    <2>2. MakeStockObject(g, kind) = Stocked(Make(g, kind, 1, copy), kind)
      BY <1>4 DEF MakeStockObject, copy
    <2> QED
      BY <1>1, <2>1, <2>2
  <1> QED
    BY <1>2, <1>3, <1>4

(* Making a device context.                                                 *)
LEMMA MakeDcAlike ==
  ASSUME NEW g, NEW B, Owned(g, B), AlikeInv(g), NEW hwnd, NEW systemClip
  PROVE  AlikeInv(MakeGuestDc(g, hwnd, systemClip))
  <1> DEFINE s == WithTools(g)
  <1>1. Owned(s, B) /\ AlikeInv(s)
    BY MakeStockOwned, MakeStockAlike DEF WithTools, Tools
  <1> HIDE DEF s
  <1> DEFINE copy == [hwnd |-> hwnd, brush |-> s.stock["brush"], pen |-> s.stock["pen"],
                      font |-> s.stock["font"], bitmap |-> None, color |-> 0]
             n == Make(s, "dc", 0, copy)
             c == Clip(n, s.made + 1, systemClip)
  <1>2. Owned(n, B)
    BY <1>1, MakeOwned
  <1>3. Fresh(s, "dc", copy)
    BY DEF Fresh, DcFields, Kinds, Tools
  <1> HIDE DEF copy
  <1>4. AlikeInv(n)
    BY <1>1, <1>3, MakeAlike
  <1> HIDE DEF n
  <1>5. /\ c.made = n.made /\ c.handles = n.handles /\ c.copies = n.copies
        /\ c.mirrors = n.mirrors /\ c.regions = n.regions /\ c.stock = n.stock /\ c.taken = n.taken
    BY <1>2 DEF Clip, Owned, TablesInv, Fields
  <1> HIDE DEF c
  <1>6. n.made \in Nat
    BY <1>2 DEF Owned, TablesInv
  <1>7. ASSUME NEW h \in DOMAIN c.handles
        PROVE  Alike(c, h)
    <2>1. h \in DOMAIN n.handles /\ Alike(n, h)
      BY <1>4, <1>5 DEF AlikeInv, Alike
    <2> QED
      BY <1>5, <1>6, <2>1, AlikeKept
  <1>8. \A k \in DOMAIN c.stock : Names(c, c.stock[k], k)
    BY <1>4, <1>5, <1>6, StockKept
  <1>9. MakeGuestDc(g, hwnd, systemClip) = c
    BY DEF MakeGuestDc, MakeDc, c, n, s, copy
  <1> QED
    BY <1>7, <1>8, <1>9 DEF AlikeInv

(* One field of a device context changes in both copies; a bitmap is the    *)
(* only thing that goes in the field of that name.                          *)
LEMMA SetAlike ==
  ASSUME NEW g, NEW B, Owned(g, B), AlikeInv(g), NEW h, IsKind(g, h, "dc"),
         NEW field, NEW value, field = "bitmap" => Names(g, value, "bitmap")
  PROVE  AlikeInv(SetBoth(g, h, field, value))
  <1> DEFINE n == SetBoth(g, h, field, value)
             dc == [g.mirrors[h] EXCEPT ![field] = value]
  <1>1. /\ h \in DOMAIN g.handles /\ h \in DOMAIN g.copies /\ h \in DOMAIN g.mirrors
        /\ g.copies[h] = g.mirrors[h] /\ DOMAIN g.mirrors[h] = DcFields
        /\ Names(g, g.mirrors[h].bitmap, "bitmap")
    BY DEF AlikeInv, Alike, IsKind
  <1>2. /\ n.made = g.made /\ n.handles = g.handles /\ n.regions = g.regions /\ n.stock = g.stock
        /\ n.taken = g.taken
        /\ DOMAIN n.copies = DOMAIN g.copies /\ DOMAIN n.mirrors = DOMAIN g.mirrors
        /\ n.copies[h] = dc /\ n.mirrors[h] = dc
        /\ \A o \in DOMAIN g.copies : o # h => n.copies[o] = g.copies[o]
        /\ \A o \in DOMAIN g.mirrors : o # h => n.mirrors[o] = g.mirrors[o]
    BY <1>1 DEF Owned, TablesInv, SetBoth, Fields
  <1> HIDE DEF n
  <1>3. g.made \in Nat
    BY DEF Owned, TablesInv
  <1>4. ASSUME NEW o \in DOMAIN n.handles, o # h
        PROVE  Alike(n, o)
    <2>1. o \in DOMAIN g.handles /\ Alike(g, o)
      BY <1>2 DEF AlikeInv, Alike
    <2> QED
      BY <1>2, <1>3, <1>4, <2>1, AlikeKept
  <1>5. Alike(n, h)
    <2>1. DOMAIN dc = DcFields
      BY <1>1
    <2>2. Names(g, dc.bitmap, "bitmap")
      <3>1. CASE field = "bitmap"
        BY <1>1, <3>1 DEF DcFields
      <3>2. CASE field # "bitmap"
        BY <1>1, <3>2 DEF DcFields
      <3> QED
        BY <3>1, <3>2
    <2> HIDE DEF dc
    <2>3. Names(n, dc.bitmap, "bitmap")
      BY <1>2, <2>2 DEF Names
    <2>4. IsKind(n, h, "dc") /\ n.handles[h].kind = "dc"
      BY <1>2 DEF IsKind
    <2> QED
      BY <1>1, <1>2, <2>1, <2>3, <2>4 DEF Alike, IsKind
  <1>6. \A k \in DOMAIN n.stock : Names(n, n.stock[k], k)
    BY <1>2, <1>3, StockKept
  <1>7. AlikeInv(n)
    BY <1>4, <1>5, <1>6 DEF AlikeInv
  <1> QED
    BY <1>7 DEF n

(* What is left when the handle k goes is as it was.                        *)
LEMMA GoneAlike ==
  ASSUME NEW g, NEW B, Owned(g, B), AlikeInv(g), NEW n, NEW k,
         n.made = g.made, n.stock = g.stock, n.handles = Erase(g.handles, k),
         \A h \in g.taken : h # k => h \in n.taken,
         \A h \in DOMAIN g.copies : h # k => h \in DOMAIN n.copies /\ n.copies[h] = g.copies[h],
         \A h \in DOMAIN g.mirrors : h # k => h \in DOMAIN n.mirrors /\ n.mirrors[h] = g.mirrors[h],
         \A h \in DOMAIN g.regions : h # k => h \in DOMAIN n.regions /\ n.regions[h] = g.regions[h]
  PROVE  AlikeInv(n)
  <1>1. g.made \in Nat
    BY DEF Owned, TablesInv
  <1>2. /\ DOMAIN n.handles = DOMAIN g.handles \ {k}
        /\ \A h \in DOMAIN n.handles : n.handles[h] = g.handles[h]
    BY DEF Erase
  <1>3. ASSUME NEW h \in DOMAIN n.handles
        PROVE  Alike(n, h)
    <2>1. h \in DOMAIN g.handles /\ h # k /\ Alike(g, h)
      BY <1>2 DEF AlikeInv, Alike
    <2> QED
      BY <1>1, <1>2, <2>1, AlikeKept
  <1>4. \A kind \in DOMAIN n.stock : Names(n, n.stock[kind], kind)
    BY <1>1, <1>2, StockKept
  <1> QED
    BY <1>3, <1>4 DEF AlikeInv

(* Blocks have their bitmaps, and copies agree.                             *)
CInv == BInv /\ AlikeInv(gdi)

----------------------------------------------------------------------------
(* The calls                                                                *)

(* The calls that make an object other than a region keep the copies alike. *)
LEMMA CreateAlike ==
  ASSUME CInv, NEW hwnd, NEW systemClip, NEW kind \in Tools, NEW bitmap,
         NEW block, NEW palette \in {<< >>, << 1 >>},
         \/ GetDC(hwnd, systemClip) \/ CreateCompatibleDC
         \/ CreateTool(kind) \/ GetStockObject(kind) \/ CreatePatternBrush(bitmap)
         \/ CreateBitmap(block, palette)
  PROVE  AlikeInv(gdi')
  <1>0. Owned(gdi, blocks) /\ AlikeInv(gdi)
    BY DEF CInv, BInv
  <1>1. CASE GetDC(hwnd, systemClip)
    BY <1>0, <1>1, MakeDcAlike DEF GetDC, Becomes
  <1>2. CASE CreateCompatibleDC
    <2> DEFINE g == MakeGuestDc(gdi, None, Unclipped)
               n == MakeStockObject(g, "bitmap")
    <2>1. Owned(g, blocks) /\ IsKind(g, g.made, "dc") /\ AlikeInv(g)
      BY <1>0, MakeDcOwned, MakeDcAlike
    <2> HIDE DEF g
    <2>2. Owned(n, blocks) /\ AlikeInv(n) /\ "bitmap" \in DOMAIN n.stock
      BY <2>1, MakeStockOwned, MakeStockAlike
    <2>3. IsKind(n, g.made, "dc")
      BY <2>1, StockBitmapKeepsDc
    <2> HIDE DEF n
    <2>4. Names(n, n.stock["bitmap"], "bitmap")
      BY <2>2 DEF AlikeInv
    <2>5. AlikeInv(SetBoth(n, g.made, "bitmap", n.stock["bitmap"]))
      BY <2>2, <2>3, <2>4, SetAlike
    <2> QED
      BY <1>2, <2>5 DEF CreateCompatibleDC, WithBitmap, SelectStock, Select, Becomes, g, n
  <1>3. \A k \in Tools : \A pattern, stock : Fresh(gdi, k, Tool(pattern, stock))
    BY DEF Fresh, Tools, Kinds
  <1>4. CASE CreateTool(kind)
    BY <1>0, <1>3, <1>4, MakeAlike DEF CreateTool, Becomes
  <1>5. CASE GetStockObject(kind)
    BY <1>0, <1>5, MakeStockAlike DEF GetStockObject, Becomes
  <1>6. CASE CreatePatternBrush(bitmap)
    <2>1. "brush" \in Tools
      BY DEF Tools
    <2> QED
      BY <1>0, <1>3, <1>6, <2>1, MakeAlike DEF CreatePatternBrush, Becomes
  <1>7. CASE CreateBitmap(block, palette)
    <2> DEFINE copy == Bitmap(block, palette, FALSE)
    <2>1. palette \in Palettes
      <3>1. << >> \in Palettes /\ << 1 >> \in Palettes
        BY DEF Palettes, Colour, PaletteSize
      <3> QED
        BY <3>1
    <2>2. Fresh(gdi, "bitmap", copy)
      BY <2>1 DEF Fresh, Bitmap, Kinds
    <2>3. gdi' = Make(gdi, "bitmap", block, copy)
      BY <1>7 DEF CreateBitmap, Becomes
    <2> HIDE DEF copy
    <2> QED
      BY <1>0, <2>2, <2>3, MakeAlike
  <1> QED
    BY <1>1, <1>2, <1>4, <1>5, <1>6, <1>7

(* The calls on a device context keep the copies alike.                     *)
LEMMA SelectAlike ==
  ASSUME CInv, NEW h, NEW object, NEW color, SelectObject(h, object) \/ SetTextColor(h, color)
  PROVE  AlikeInv(gdi')
  <1>0. Owned(gdi, blocks) /\ AlikeInv(gdi) /\ IsKind(gdi, h, "dc")
    BY DEF CInv, BInv, SelectObject, SetTextColor, LookupGuestDc
  <1>1. CASE SelectObject(h, object)
    <2>1. PICK kind \in {gdi.handles[object].kind} : gdi' = SetBoth(gdi, h, kind, object)
      BY <1>1 DEF SelectObject, Select
    <2>2. object \in DOMAIN gdi.handles /\ object \in 0 .. gdi.made
      BY <1>1 DEF SelectObject, CInv, BInv, Owned, TablesInv
    <2>3. kind = "bitmap" => Names(gdi, object, "bitmap")
      BY <2>1, <2>2 DEF Names
    <2> QED
      BY <1>0, <2>1, <2>3, SetAlike
  <1>2. CASE SetTextColor(h, color)
    BY <1>0, <1>2, SetAlike DEF SetTextColor
  <1> QED
    BY <1>1, <1>2

(* The calls after which a handle is gone keep the copies of others alike.  *)
LEMMA GoneStepAlike ==
  ASSUME CInv, NEW h,
         \/ DestroyDc(h) \/ DropHandle(h) \/ DeleteObject(h) \/ CloseHandle(h)
         \/ SetWindowRgn(h)
  PROVE  AlikeInv(gdi')
  <1>0. Owned(gdi, blocks) /\ AlikeInv(gdi) /\ DOMAIN gdi = Fields
    BY DEF CInv, BInv, Owned, TablesInv
  <1>1. /\ gdi'.made = gdi.made /\ gdi'.stock = gdi.stock
        /\ gdi'.handles = Erase(gdi.handles, h)
        /\ gdi'.copies = Erase(gdi.copies, h) \/ gdi'.copies = gdi.copies
        /\ gdi'.mirrors = Erase(gdi.mirrors, h) \/ gdi'.mirrors = gdi.mirrors
        /\ gdi'.regions = Erase(gdi.regions, h) \/ gdi'.regions = gdi.regions
        /\ gdi'.taken = gdi.taken \ {h} \/ gdi'.taken = gdi.taken
    <2>1. CASE DestroyDc(h) \/ DropHandle(h)
      BY <1>0, <2>1 DEF DestroyDc, DropHandle, Fields
    <2>2. CASE DeleteObject(h) \/ SetWindowRgn(h)
      BY <1>0, <2>2 DEF DeleteObject, SetWindowRgn, Deleted, Fields
    <2>3. CASE CloseHandle(h)
      BY <1>0, <2>3 DEF CloseHandle, Fields
    <2> QED
      BY <2>1, <2>2, <2>3
  <1>2. \A table, o : o \in DOMAIN table /\ o # h =>
          o \in DOMAIN Erase(table, h) /\ Erase(table, h)[o] = table[o]
    BY DEF Erase
  <1>3. /\ \A o \in DOMAIN gdi.copies : o # h => o \in DOMAIN gdi'.copies /\ gdi'.copies[o] = gdi.copies[o]
        /\ \A o \in DOMAIN gdi.mirrors : o # h => o \in DOMAIN gdi'.mirrors /\ gdi'.mirrors[o] = gdi.mirrors[o]
        /\ \A o \in DOMAIN gdi.regions : o # h => o \in DOMAIN gdi'.regions /\ gdi'.regions[o] = gdi.regions[o]
        /\ \A o \in gdi.taken : o # h => o \in gdi'.taken
    BY <1>1, <1>2
  <1> QED
    BY <1>0, <1>1, <1>3, GoneAlike

(* A table of PaletteSize colours is a palette.                             *)
LEMMA FullPalette ==
  ASSUME NEW p \in [1 .. PaletteSize -> Colour]
  PROVE  p \in Palettes /\ Len(p) = PaletteSize
  <1>1. PaletteSize \in Nat
    BY DEF PaletteSize
  <1>2. p \in Seq(Colour) /\ DOMAIN p = 1 .. PaletteSize
    BY <1>1
  <1>3. Len(p) \in Nat /\ DOMAIN p = 1 .. Len(p)
    BY <1>2, LenProperties
  <1>4. Len(p) = PaletteSize
    BY <1>1, <1>2, <1>3
  <1> HIDE DEF PaletteSize
  <1> QED
    BY <1>1, <1>2, <1>4 DEF Palettes

(* The palettes of one bitmap change; it has no handle any more, or its     *)
(* copies still agree.                                                      *)
LEMMA RecolourAlike ==
  ASSUME NEW g, NEW B, Owned(g, B), AlikeInv(g), NEW n, NEW k, Names(g, k, "bitmap"),
         n.made = g.made, n.handles = g.handles, n.regions = g.regions, n.stock = g.stock,
         n.taken = g.taken,
         DOMAIN n.copies = DOMAIN g.copies, DOMAIN n.mirrors = DOMAIN g.mirrors,
         \A o \in DOMAIN g.copies : o # k => n.copies[o] = g.copies[o],
         \A o \in DOMAIN g.mirrors : o # k => n.mirrors[o] = g.mirrors[o],
         k \in DOMAIN g.handles => BitmapAlike(n, k)
  PROVE  AlikeInv(n)
  <1>1. g.made \in Nat
    BY DEF Owned, TablesInv
  <1>2. ASSUME NEW o \in DOMAIN n.handles, o # k
        PROVE  Alike(n, o)
    <2>1. o \in DOMAIN g.handles /\ Alike(g, o)
      BY DEF AlikeInv, Alike
    <2> QED
      BY <1>1, <1>2, <2>1, AlikeKept
  <1>3. ASSUME k \in DOMAIN n.handles
        PROVE  Alike(n, k)
    <2>1. n.handles[k].kind = "bitmap" /\ k \in DOMAIN n.mirrors
      BY <1>3 DEF Names, AlikeInv, Alike, IsKind
    <2>2. IsKind(n, k, "bitmap") /\ ~IsKind(n, k, "region") /\ ~IsKind(n, k, "dc")
      BY <1>3, <2>1 DEF IsKind
    <2>3. BitmapAlike(n, k)
      BY <1>3
    <2> QED
      BY <2>1, <2>2, <2>3 DEF Alike
  <1>4. \A kind \in DOMAIN n.stock : Names(n, n.stock[kind], kind)
    <2>1. g.made <= n.made /\ n.made \in Nat
      BY <1>1
    <2>2. \A o \in DOMAIN n.handles : o \in DOMAIN g.handles /\ n.handles[o].kind = g.handles[o].kind
      OBVIOUS
    <2> QED
      BY <1>1, <2>1, <2>2, StockKept
  <1>5. \A o \in DOMAIN n.handles : Alike(n, o)
    BY <1>2, <1>3
  <1> QED
    BY <1>4, <1>5 DEF AlikeInv

(* The palette calls keep the copies alike, whatever the device context's   *)
(* bitmap has become: a closed one's tables are changed too.                *)
LEMMA PaletteAlike ==
  ASSUME CInv, NEW h, NEW start \in 1 .. PaletteSize, NEW color \in Colour \cup {NoColor},
         SetDIBColorTable(h, start, color) \/ DrawInBitmap(h)
  PROVE  AlikeInv(gdi')
  <1> DEFINE k == gdi.mirrors[h].bitmap
             old == gdi.mirrors[k].palette
             full == [i \in 1 .. PaletteSize |-> IF i <= Len(old) THEN old[i] ELSE 0]
             new == [full EXCEPT ![start] = color]
             Copies(p) == [gdi.copies EXCEPT ![k].palette = p]
             Mirrors(p) == [gdi.mirrors EXCEPT ![k].palette = p]
  <1>0. Owned(gdi, blocks) /\ AlikeInv(gdi) /\ DOMAIN gdi = Fields
    BY DEF CInv, BInv, Owned, TablesInv
  <1>1. Names(gdi, k, "bitmap") /\ k \in DOMAIN gdi.copies
    BY <1>0 DEF SetDIBColorTable, DrawInBitmap, DrawsInBitmap, LookupGuestDc, IsKind, AlikeInv, Alike
  <1>2. k \in DOMAIN gdi.handles => k \in DOMAIN gdi.mirrors /\ BitmapAlike(gdi, k)
    BY <1>0, <1>1 DEF Names, AlikeInv, Alike, IsKind
  <1>3. \A p \in Palettes : Len(p) \in Nat /\ SamePalette(p, p)
    BY DEF SamePalette, Palettes
  <1>4. k \in DOMAIN gdi.handles =>
          /\ full \in Palettes /\ SamePalette(gdi.copies[k].palette, full)
          /\ color # NoColor => new \in Palettes
    <2> SUFFICES ASSUME k \in DOMAIN gdi.handles
                 PROVE  /\ full \in Palettes /\ SamePalette(gdi.copies[k].palette, full)
                        /\ color # NoColor => new \in Palettes
      OBVIOUS
    <2> DEFINE short == gdi.copies[k].palette
    <2>1. old \in Palettes /\ short \in Palettes /\ SamePalette(short, old)
      BY <1>2 DEF BitmapAlike
    <2> HIDE DEF old, short
    <2>2. old \in Seq(Colour) /\ Len(old) \in Nat /\ Len(old) <= 2 /\ DOMAIN old = 1 .. Len(old)
      BY <2>1, LenProperties DEF Palettes, PaletteSize
    <2>3. full \in [1 .. PaletteSize -> Colour]
      <3>1. ASSUME NEW i \in 1 .. PaletteSize
            PROVE  (IF i <= Len(old) THEN old[i] ELSE 0) \in Colour
        BY <2>2, ElementOfSeq DEF PaletteSize, Colour
      <3> QED
        BY <3>1
    <2>4. color # NoColor => new \in [1 .. PaletteSize -> Colour]
      <3> HIDE DEF full
      <3> QED
        BY <2>3
    <2>5. /\ short \in Seq(Colour) /\ Len(short) \in Nat /\ DOMAIN short = 1 .. Len(short)
          /\ Len(short) <= Len(old) /\ \A i \in 1 .. Len(short) : short[i] = old[i]
      BY <2>1, LenProperties DEF Palettes, SamePalette
    <2>6. \A i \in 1 .. Len(short) : i \in 1 .. PaletteSize /\ i <= Len(old)
      BY <2>2, <2>5 DEF PaletteSize
    <2>7. \A i \in 1 .. Len(short) : short[i] = full[i]
      BY <2>5, <2>6
    <2> HIDE DEF full, new
    <2>8. full \in Palettes /\ Len(full) = 2
      BY <2>3, FullPalette DEF PaletteSize
    <2>9. SamePalette(short, full)
      BY <2>2, <2>5, <2>7, <2>8 DEF SamePalette
    <2>10. color # NoColor => new \in Palettes
      BY <2>4, FullPalette
    <2> QED
      BY <2>8, <2>9, <2>10 DEF short
  <1>5. \/ /\ gdi' = [gdi EXCEPT !.mirrors = Mirrors(full)]
        \/ /\ color # NoColor
           /\ gdi' = [gdi EXCEPT !.mirrors = Mirrors(new), !.copies = Copies(new)]
        \/ /\ k \in DOMAIN gdi.mirrors
           /\ gdi' = [gdi EXCEPT !.copies = Copies(old)]
        \/ gdi' = gdi
    <2>1. CASE SetDIBColorTable(h, start, color)
      <3>1. \/ color = NoColor /\ gdi' = [gdi EXCEPT !.mirrors[k].palette = full]
            \/ color # NoColor /\ gdi' = [gdi EXCEPT !.mirrors[k].palette = new, !.copies[k].palette = new]
        BY <2>1 DEF SetDIBColorTable
      <3> HIDE DEF full, new, old, k
      <3> QED
        BY <3>1 DEF Mirrors, Copies
    <2>2. CASE DrawInBitmap(h)
      BY <2>2 DEF DrawInBitmap
    <2> QED
      BY <2>1, <2>2
  <1> HIDE DEF full, new
  <1>6. CASE gdi' = [gdi EXCEPT !.mirrors = Mirrors(full)]
    <2>1. /\ gdi'.made = gdi.made /\ gdi'.handles = gdi.handles /\ gdi'.regions = gdi.regions
          /\ gdi'.stock = gdi.stock /\ gdi'.taken = gdi.taken
          /\ gdi'.copies = gdi.copies /\ gdi'.mirrors = Mirrors(full)
      BY <1>0, <1>6 DEF Fields
    <2>2. k \in DOMAIN gdi.handles => BitmapAlike(gdi', k)
      BY <1>2, <1>4, <2>1 DEF BitmapAlike
    <2> HIDE DEF k
    <2> QED
      BY <1>0, <1>1, <2>1, <2>2, RecolourAlike
  <1>7. CASE color # NoColor /\ gdi' = [gdi EXCEPT !.mirrors = Mirrors(new), !.copies = Copies(new)]
    <2>1. /\ gdi'.made = gdi.made /\ gdi'.handles = gdi.handles /\ gdi'.regions = gdi.regions
          /\ gdi'.stock = gdi.stock /\ gdi'.taken = gdi.taken
          /\ gdi'.copies = Copies(new) /\ gdi'.mirrors = Mirrors(new)
      BY <1>0, <1>7 DEF Fields
    <2>2. k \in DOMAIN gdi.handles => new \in Palettes /\ SamePalette(new, new)
      BY <1>3, <1>4, <1>7
    <2>3. k \in DOMAIN gdi.handles => BitmapAlike(gdi', k)
      BY <1>2, <2>1, <2>2 DEF BitmapAlike
    <2> HIDE DEF k
    <2> QED
      BY <1>0, <1>1, <2>1, <2>3, RecolourAlike
  <1>8. CASE k \in DOMAIN gdi.mirrors /\ gdi' = [gdi EXCEPT !.copies = Copies(old)]
    <2>1. /\ gdi'.made = gdi.made /\ gdi'.handles = gdi.handles /\ gdi'.regions = gdi.regions
          /\ gdi'.stock = gdi.stock /\ gdi'.taken = gdi.taken
          /\ gdi'.copies = Copies(old) /\ gdi'.mirrors = gdi.mirrors
      BY <1>0, <1>8 DEF Fields
    <2>2. k \in DOMAIN gdi.handles => BitmapAlike(gdi', k)
      BY <1>2, <1>3, <2>1 DEF BitmapAlike
    <2> HIDE DEF k, old
    <2> QED
      BY <1>0, <1>1, <2>1, <2>2, RecolourAlike
  <1>9. CASE gdi' = gdi
    BY <1>0, <1>9
  <1> QED
    BY <1>5, <1>6, <1>7, <1>8, <1>9

(* A region, new or known, and its bounds                                   *)
LEMMA TrackAlike ==
  ASSUME CInv, NEW h, NEW n, NEW bounds, NEW S \in SUBSET Points,
         Box(S) = Box(Between(bounds)),
         \/ IsKind(gdi, h, "region") /\ n = gdi
         \/ /\ h = gdi.made + 1
            /\ n = [gdi EXCEPT !.made = h, !.handles = Put(@, h, [kind |-> "region", pointer |-> 0])]
  PROVE  AlikeInv(TrackRegion(n, h, bounds, S))
  <1> DEFINE t == TrackRegion(n, h, bounds, S)
             new == [kind |-> "region", pointer |-> 0]
             Added == [gdi EXCEPT !.made = h, !.handles = Put(@, h, new)]
  <1>0. Owned(gdi, blocks) /\ AlikeInv(gdi) /\ DOMAIN gdi = Fields
    BY DEF CInv, BInv, Owned, TablesInv
  <1>1. /\ DOMAIN n = Fields /\ n.copies = gdi.copies /\ n.mirrors = gdi.mirrors
        /\ n.regions = gdi.regions /\ n.stock = gdi.stock /\ n.taken = gdi.taken
        /\ n.made \in Nat /\ gdi.made \in Nat /\ gdi.made <= n.made
    <2>1. gdi.made \in Nat
      BY <1>0 DEF Owned, TablesInv
    <2>2. CASE n = gdi
      BY <1>0, <2>1, <2>2
    <2>3. CASE h = gdi.made + 1 /\ n = Added
      <3>1. DOMAIN n = Fields /\ n.made = h /\ n.copies = gdi.copies /\ n.mirrors = gdi.mirrors
            /\ n.regions = gdi.regions /\ n.stock = gdi.stock /\ n.taken = gdi.taken
        BY <1>0, <2>3 DEF Fields
      <3> QED
        BY <2>1, <2>3, <3>1
    <2> QED
      BY <2>2, <2>3
  <1>2. /\ IsKind(n, h, "region") /\ n.handles[h].kind = "region"
        /\ DOMAIN n.handles = DOMAIN gdi.handles \cup {h}
        /\ \A o \in DOMAIN gdi.handles : n.handles[o] = gdi.handles[o]
        /\ h \in 0 .. gdi.made => h \in DOMAIN gdi.handles
    <2>1. CASE IsKind(gdi, h, "region") /\ n = gdi
      BY <2>1 DEF IsKind
    <2>2. CASE h = gdi.made + 1 /\ n = Added
      <3>1. n.handles = Put(gdi.handles, h, new)
        BY <1>0, <2>2 DEF Fields
      <3>2. h \notin 0 .. gdi.made /\ h \notin DOMAIN gdi.handles
        BY <1>0, <1>1, <2>2 DEF Owned, TablesInv
      <3> QED
        BY <3>1, <3>2 DEF Put, IsKind
    <2> QED
      BY <2>1, <2>2
  <1>3. /\ t.made = n.made /\ t.handles = n.handles /\ t.copies = gdi.copies /\ t.stock = gdi.stock
        /\ t.mirrors = Put(gdi.mirrors, h, [bounds |-> bounds]) /\ t.regions = Put(gdi.regions, h, S)
        /\ t.taken = gdi.taken \ {h}
    BY <1>1 DEF TrackRegion, Fields
  <1> HIDE DEF t
  <1>4. \A o \in DOMAIN t.handles : o \in 0 .. gdi.made =>
          o \in DOMAIN gdi.handles /\ t.handles[o].kind = gdi.handles[o].kind
    BY <1>2, <1>3
  <1>5. ASSUME NEW o \in DOMAIN t.handles, o # h
        PROVE  Alike(t, o)
    <2>1. o \in DOMAIN gdi.handles /\ Alike(gdi, o)
      BY <1>0, <1>2, <1>3, <1>5 DEF AlikeInv, Alike
    <2>2. /\ o \in DOMAIN gdi.mirrors => o \in DOMAIN t.mirrors /\ t.mirrors[o] = gdi.mirrors[o]
          /\ o \in gdi.taken => o \in t.taken
          /\ o \in DOMAIN gdi.regions => o \in DOMAIN t.regions /\ t.regions[o] = gdi.regions[o]
      BY <1>3, <1>5, <2>1 DEF Put
    <2> QED
      BY <1>1, <1>2, <1>3, <1>4, <2>1, <2>2, AlikeKept
  <1>6. Alike(t, h)
    <2>1. /\ h \in DOMAIN t.mirrors /\ t.mirrors[h].bounds = bounds
          /\ h \in DOMAIN t.regions /\ t.regions[h] = S
      BY <1>3 DEF Put
    <2> QED
      BY <1>2, <1>3, <2>1 DEF Alike, RegionAlike, IsKind
  <1>7. \A k \in DOMAIN t.stock : Names(t, t.stock[k], k)
    BY <1>0, <1>1, <1>3, <1>4, StockKept
  <1> QED
    BY <1>5, <1>6, <1>7 DEF AlikeInv, t

(* The calls on rectangular regions keep the copies alike.                  *)
LEMMA RectAlike ==
  ASSUME CInv, NEW h, NEW left, NEW right, CreateRectRgn(left, right) \/ SetRectRgn(h, left, right)
  PROVE  AlikeInv(gdi')
  <1>1. \A bounds : Between(bounds) \in SUBSET Points
    BY DEF Between
  <1>2. CASE CreateRectRgn(left, right)
    <2> DEFINE m == gdi.made + 1
               new == [kind |-> "region", pointer |-> 0]
               n == [gdi EXCEPT !.made = m, !.handles = Put(@, m, new)]
               bounds == <<left, right>>
    <2>1. gdi' = TrackRegion(n, m, bounds, Between(bounds))
      BY <1>2 DEF CreateRectRgn, Becomes
    <2>2. Between(bounds) \in SUBSET Points
      BY <1>1
    <2> HIDE DEF bounds
    <2>3. AlikeInv(TrackRegion(n, m, bounds, Between(bounds)))
      BY <2>2, TrackAlike
    <2> QED
      BY <2>1, <2>3
  <1>3. CASE SetRectRgn(h, left, right)
    <2> DEFINE bounds == <<left, right>>
    <2>1. gdi' = TrackRegion(gdi, h, bounds, Between(bounds)) /\ IsKind(gdi, h, "region")
      BY <1>3 DEF SetRectRgn
    <2>2. Between(bounds) \in SUBSET Points
      BY <1>1
    <2> HIDE DEF bounds
    <2>3. AlikeInv(TrackRegion(gdi, h, bounds, Between(bounds)))
      BY <2>1, <2>2, TrackAlike
    <2> QED
      BY <2>1, <2>3
  <1> QED
    BY <1>2, <1>3

(* CombineRgn keeps the copies alike: the bounds that the mirror is given   *)
(* are the region's.                                                        *)
LEMMA CombineAlike ==
  ASSUME CInv, NEW h, NEW src1, NEW src2, NEW mode \in {"and", "or", "diff", "xor", "copy"},
         CombineRgn(h, src1, src2, mode)
  PROVE  AlikeInv(gdi')
  <1> DEFINE other == IF mode = "copy" THEN {} ELSE gdi.regions[src2]
             S == Combine(mode, gdi.regions[src1], other)
  <1>1. /\ IsKind(gdi, h, "region") /\ IsKind(gdi, src1, "region")
        /\ mode = "copy" \/ IsKind(gdi, src2, "region")
    BY DEF CombineRgn
  <1>2. gdi' = TrackRegion(gdi, h, Box(S), S)
    BY DEF CombineRgn
  <1>3. \A o : IsKind(gdi, o, "region") => gdi.regions[o] \in SUBSET Points
    BY DEF CInv, AlikeInv, Alike, RegionAlike, IsKind
  <1>4. S \in SUBSET Points
    BY <1>1, <1>3, CombineRegions
  <1> HIDE DEF S
  <1>5. Box(S) = Box(Between(Box(S)))
    BY <1>4, BoxOfBounds
  <1>6. AlikeInv(TrackRegion(gdi, h, Box(S), S))
    BY <1>1, <1>4, <1>5, TrackAlike
  <1> QED
    BY <1>2, <1>6

(* A region that GetWindowRgn wrote is taken, and no other is changed.      *)
LEMMA TakenAlike ==
  ASSUME CInv, NEW h, NEW S \in SUBSET Points, GetWindowRgn(h, S)
  PROVE  AlikeInv(gdi')
  <1>0. AlikeInv(gdi) /\ DOMAIN gdi = Fields /\ gdi.made \in Nat /\ IsKind(gdi, h, "region")
    BY DEF CInv, BInv, Owned, TablesInv, GetWindowRgn
  <1>1. /\ gdi'.made = gdi.made /\ gdi'.handles = gdi.handles /\ gdi'.copies = gdi.copies
        /\ gdi'.mirrors = gdi.mirrors /\ gdi'.stock = gdi.stock
        /\ gdi'.regions = [gdi.regions EXCEPT ![h] = S] /\ gdi'.taken = gdi.taken \cup {h}
    BY <1>0 DEF GetWindowRgn, Fields
  <1>2. ASSUME NEW o \in DOMAIN gdi'.handles, o # h
        PROVE  Alike(gdi', o)
    <2>1. o \in DOMAIN gdi.handles /\ Alike(gdi, o)
      BY <1>0, <1>1 DEF AlikeInv
    <2>2. o \in DOMAIN gdi.regions =>
            o \in DOMAIN gdi'.regions /\ gdi'.regions[o] = gdi.regions[o]
      BY <1>1, <1>2
    <2> QED
      BY <1>0, <1>1, <2>1, <2>2, AlikeKept
  <1>3. Alike(gdi', h)
    <2>1. h \in DOMAIN gdi.handles /\ Alike(gdi, h) /\ gdi.handles[h].kind = "region"
      BY <1>0 DEF AlikeInv, IsKind
    <2>2. h \in DOMAIN gdi'.mirrors /\ h \in DOMAIN gdi'.regions /\ gdi'.regions[h] = S
      BY <1>0, <1>1, <2>1 DEF Alike, RegionAlike, IsKind
    <2> QED
      BY <1>1, <2>1, <2>2 DEF Alike, RegionAlike, IsKind
  <1>4. \A kind \in DOMAIN gdi'.stock : Names(gdi', gdi'.stock[kind], kind)
    BY <1>0, <1>1, StockKept
  <1> QED
    BY <1>2, <1>3, <1>4 DEF AlikeInv

(* A bitmap of the host's has no copies.                                    *)
LEMMA ImageAlike ==
  ASSUME CInv, LoadImage
  PROVE  AlikeInv(gdi')
  <1> DEFINE m == gdi.made + 1
             image == [kind |-> "image", pointer |-> 0]
  <1>0. Owned(gdi, blocks) /\ AlikeInv(gdi) /\ DOMAIN gdi = Fields
    BY DEF CInv, BInv, Owned, TablesInv
  <1>1. /\ gdi'.made = m /\ gdi'.handles = Put(gdi.handles, m, image) /\ gdi'.copies = gdi.copies
        /\ gdi'.mirrors = gdi.mirrors /\ gdi'.regions = gdi.regions /\ gdi'.stock = gdi.stock
        /\ gdi'.taken = gdi.taken
    BY <1>0 DEF LoadImage, Becomes, Fields
  <1>2. gdi.made \in Nat /\ m \in Nat /\ m \notin 0 .. gdi.made /\ DOMAIN gdi.handles \subseteq 1 .. gdi.made
    BY <1>0 DEF Owned, TablesInv
  <1>3. /\ DOMAIN gdi'.handles = DOMAIN gdi.handles \cup {m} /\ gdi'.handles[m] = image
        /\ \A o \in DOMAIN gdi.handles : gdi'.handles[o] = gdi.handles[o]
    BY <1>1, <1>2 DEF Put
  <1>4. \A o \in DOMAIN gdi'.handles : o \in 0 .. gdi.made =>
           o \in DOMAIN gdi.handles /\ gdi'.handles[o].kind = gdi.handles[o].kind
    BY <1>2, <1>3
  <1>5. ASSUME NEW o \in DOMAIN gdi.handles
        PROVE  Alike(gdi', o)
    <2>1. Alike(gdi, o)
      BY <1>0 DEF AlikeInv
    <2> QED
      BY <1>1, <1>2, <1>3, <1>4, <2>1, AlikeKept
  <1>6. Alike(gdi', m)
    BY <1>3 DEF Alike, IsKind
  <1>7. \A kind \in DOMAIN gdi'.stock : Names(gdi', gdi'.stock[kind], kind)
    BY <1>0, <1>1, <1>2, <1>4, StockKept
  <1> QED
    BY <1>3, <1>5, <1>6, <1>7 DEF AlikeInv

(* SelectClipRgn changes neither copy.                                      *)
LEMMA ClipAlike ==
  ASSUME CInv, NEW h, NEW region, NEW origin, SelectClipRgn(h, region, origin)
  PROVE  AlikeInv(gdi')
  <1>0. Owned(gdi, blocks) /\ AlikeInv(gdi) /\ DOMAIN gdi = Fields /\ gdi.made \in Nat
    BY DEF CInv, BInv, Owned, TablesInv
  <1>1. /\ gdi'.made = gdi.made /\ gdi'.handles = gdi.handles /\ gdi'.copies = gdi.copies
        /\ gdi'.mirrors = gdi.mirrors /\ gdi'.regions = gdi.regions /\ gdi'.stock = gdi.stock
        /\ gdi'.taken = gdi.taken
    BY <1>0 DEF SelectClipRgn, Fields
  <1>2. ASSUME NEW o \in DOMAIN gdi'.handles
        PROVE  Alike(gdi', o)
    <2>1. o \in DOMAIN gdi.handles /\ Alike(gdi, o)
      BY <1>0, <1>1 DEF AlikeInv, Alike
    <2> QED
      BY <1>0, <1>1, <2>1, AlikeKept
  <1>3. \A kind \in DOMAIN gdi'.stock : Names(gdi', gdi'.stock[kind], kind)
    BY <1>0, <1>1, StockKept
  <1> QED
    BY <1>2, <1>3 DEF AlikeInv

----------------------------------------------------------------------------
(* The invariant holds at first.                                            *)
LEMMA InitAlike ==
  ASSUME Init
  PROVE  CInv
  BY InitOwned DEF Init, GdiInit, CInv, AlikeInv

(* Every call on objects keeps the copies alike.                            *)
LEMMA ObjectStepAlike ==
  ASSUME CInv, ObjectStep
  PROVE  AlikeInv(gdi')
  <1>0. "brush" \in Tools /\ << >> \in {<< >>, << 1 >>}
    BY DEF Tools
  <1>1. ASSUME NEW w \in Targets, NEW systemClip, GetDC(w, systemClip)
        PROVE  AlikeInv(gdi')
    BY <1>0, <1>1, CreateAlike
  <1>2. ASSUME NEW w \in Targets, NEW left \in Pixels, GetDC(w, <<left, published[w].visible[2]>>)
        PROVE  AlikeInv(gdi')
    BY <1>0, <1>2, CreateAlike
  <1>3. CASE CreateCompatibleDC
    BY <1>0, <1>3, CreateAlike
  <1>4. ASSUME NEW h \in Handles, ReleaseDC(h) \/ EndPaint(h) \/ DeleteObject(h) \/ CloseHandle(h)
        PROVE  AlikeInv(gdi')
    BY <1>4, GoneStepAlike DEF ReleaseDC, EndPaint
  <1>5. ASSUME NEW h \in Handles, NEW object \in Handles, SelectObject(h, object)
        PROVE  AlikeInv(gdi')
    BY <1>5, SelectAlike
  <1>6. ASSUME NEW h \in Handles, NEW color \in Colour, SetTextColor(h, color)
        PROVE  AlikeInv(gdi')
    BY <1>6, SelectAlike
  <1>7. ASSUME NEW h \in Handles, NEW start \in 1 .. PaletteSize, NEW color \in Colour \cup {NoColor},
               SetDIBColorTable(h, start, color)
        PROVE  AlikeInv(gdi')
    BY <1>7, PaletteAlike
  <1>8. ASSUME NEW h \in Handles, DrawInBitmap(h)
        PROVE  AlikeInv(gdi')
    <2>1. 1 \in 1 .. PaletteSize /\ NoColor \in Colour \cup {NoColor}
      BY DEF PaletteSize
    <2> QED
      BY <1>8, <2>1, PaletteAlike
  <1>9. ASSUME NEW block \in Blocks \cup {0}, NEW palette \in {<< >>, << 1 >>}, CreateBitmap(block, palette)
        PROVE  AlikeInv(gdi')
    BY <1>0, <1>9, CreateAlike
  <1>10. ASSUME NEW kind \in Tools, CreateTool(kind) \/ GetStockObject(kind)
         PROVE  AlikeInv(gdi')
    BY <1>0, <1>10, CreateAlike
  <1>11. ASSUME NEW bitmap \in Handles, CreatePatternBrush(bitmap)
         PROVE  AlikeInv(gdi')
    BY <1>0, <1>11, CreateAlike
  <1>12. CASE LoadImage
    BY <1>12, ImageAlike
  <1> QED
    BY <1>1, <1>2, <1>3, <1>4, <1>5, <1>6, <1>7, <1>8, <1>9, <1>10, <1>11, <1>12 DEF ObjectStep

(* Every call on regions keeps the copies alike.                            *)
LEMMA RegionStepAlike ==
  ASSUME CInv, RegionStep
  PROVE  AlikeInv(gdi')
  <1>1. ASSUME NEW left \in Points, NEW right \in Points, CreateRectRgn(left, right)
        PROVE  AlikeInv(gdi')
    BY <1>1, RectAlike
  <1>2. ASSUME NEW h \in Handles, NEW left \in Points, NEW right \in Points, SetRectRgn(h, left, right)
        PROVE  AlikeInv(gdi')
    BY <1>2, RectAlike
  <1>3. ASSUME NEW h \in Handles, SetWindowRgn(h)
        PROVE  AlikeInv(gdi')
    BY <1>3, GoneStepAlike
  <1>4. ASSUME NEW h \in Handles, NEW src1 \in Handles, NEW src2 \in Handles,
               NEW mode \in {"and", "or", "diff", "xor", "copy"}, CombineRgn(h, src1, src2, mode)
        PROVE  AlikeInv(gdi')
    BY <1>4, CombineAlike
  <1>5. ASSUME NEW h \in Handles, NEW region \in Handles \cup {None},
               SelectClipRgn(h, region, Origin(windows, gdi.copies[h].hwnd))
        PROVE  AlikeInv(gdi')
    BY <1>5, ClipAlike
  <1>6. ASSUME NEW h \in Handles, NEW S \in SUBSET Points, GetWindowRgn(h, S)
        PROVE  AlikeInv(gdi')
    BY <1>6, TakenAlike
  <1> QED
    BY <1>1, <1>2, <1>3, <1>4, <1>5, <1>6 DEF RegionStep

(* Every step of the graphics keeps the invariant.                          *)
LEMMA StepAlike ==
  ASSUME CInv, [Next]_vars
  PROVE  CInv'
  <1>1. CASE UNCHANGED gdiVars
    BY <1>1, StepOwned DEF CInv, gdiVars
  <1>2. CASE ObjectStep
    BY <1>2, StepOwned, ObjectStepAlike DEF CInv
  <1>3. CASE RegionStep
    BY <1>3, StepOwned, RegionStepAlike DEF CInv
  <1> QED
    BY <1>1, <1>2, <1>3 DEF Next, vars, gdiVars

(* The two copies of every object the guest has a handle of agree, for      *)
(* every set of windows, heap, line and number of handles: the selections   *)
(* and colours of a device context, the pixels and palette of a bitmap, the *)
(* bounds of a region, whatever calls made, changed, closed or deleted it   *)
(* and in whatever order (SelectObject, SetDIBColorTable, CombineRgn,       *)
(* closeGuestHandle, DeleteObject).  Excepted are the two that CeMgdi is    *)
(* not told of: the bitmaps of LoadImageW, and a region from the            *)
(* GetWindowRgn that wrote it to the next SetRectRgn or CombineRgn of it.   *)
THEOREM MirrorsAgree == Spec => []CopiesAgree
  <1>1. Init => CInv
    BY InitAlike
  <1>2. CInv /\ [Next]_vars => CInv'
    BY StepAlike
  <1>3. CInv => CopiesAgree
    <2> SUFFICES ASSUME CInv, NEW h \in DOMAIN gdi.handles, gdi.handles[h].kind # "image"
                 PROVE  /\ h \in DOMAIN gdi.mirrors
                        /\ CASE gdi.handles[h].kind = "region" ->
                                  \/ h \in gdi.taken
                                  \/ Box(gdi.regions[h]) = Box(Between(gdi.mirrors[h].bounds))
                             [] gdi.handles[h].kind = "bitmap" ->
                                  /\ h \in DOMAIN gdi.copies
                                  /\ gdi.copies[h].bits = gdi.mirrors[h].bits
                                  /\ SamePalette(gdi.copies[h].palette, gdi.mirrors[h].palette)
                             [] OTHER -> h \in DOMAIN gdi.copies /\ gdi.copies[h] = gdi.mirrors[h]
      BY DEF CopiesAgree
    <2>1. Alike(gdi, h) /\ ~IsKind(gdi, h, "image")
      BY DEF CInv, AlikeInv, IsKind
    <2>2. CASE gdi.handles[h].kind = "region"
      BY <2>1, <2>2 DEF Alike, RegionAlike, IsKind
    <2>3. CASE gdi.handles[h].kind = "bitmap"
      BY <2>1, <2>3 DEF Alike, BitmapAlike, IsKind
    <2>4. CASE gdi.handles[h].kind \notin {"region", "bitmap"}
      BY <2>1, <2>4 DEF Alike
    <2> QED
      BY <2>2, <2>3, <2>4
  <1> QED
    BY <1>1, <1>2, <1>3, PTL DEF Spec
=============================================================================

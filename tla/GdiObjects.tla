----------------------------- MODULE GdiObjects -----------------------------
(***************************************************************************)
(* Device contexts and the objects selected into them (coredll_paint.cpp,  *)
(* coredll_bitmap.cpp, coredll_named_dispatch.cpp, ce_mgdi.h).  Every      *)
(* object is kept twice: the copy that drawing works with (dcs_, bitmaps_, *)
(* brushes_, ...) and a mirror in CeMgdi's states.  Some calls look at     *)
(* one, some at the other, most change both.                               *)
(*                                                                         *)
(* A bitmap's pixels are a block of the guest heap, a palette is a short   *)
(* sequence of colours, and a region is a set of points of a line.         *)
(***************************************************************************)
EXTENDS Integers, SequencesExt

CONSTANTS
  MaxHandles,   \* handles made; the counter of makeGuestHandle never comes back
  Blocks,       \* blocks of the guest heap that bitmaps may be given
  Points,       \* the line the regions lie on
  Targets       \* windows a device context may be made for

ASSUME GdiAssumption ==
  /\ MaxHandles \in Nat \ {0} /\ IsFiniteSet(Blocks) /\ 0 \notin Blocks
  /\ Points \subseteq Int /\ IsFiniteSet(Points)

Handles == 1 .. MaxHandles
None    == 0
Tools   == {"brush", "pen", "font"}
Kinds   == Tools \cup {"dc", "bitmap", "image", "region"}   \* image: a bitmap of the host's
Colour  == {0, 1}
PaletteSize == 2      \* 1u << bpp of an indexed bitmap

VARIABLES
  gdi,      \* the object tables: see GdiType
  blocks    \* the blocks of the heap in use for bitmaps

gdiVars == <<gdi, blocks>>

Tables(R) == UNION {[S -> R] : S \in SUBSET Handles}

GdiType ==
  /\ DOMAIN gdi = {"made", "handles", "copies", "mirrors", "clips", "regions", "stock",
                   "taken", "orphans"}
  /\ gdi.made \in 0 .. MaxHandles
  /\ \A h \in DOMAIN gdi.handles : gdi.handles[h].kind \in Kinds
  /\ UNION {DOMAIN gdi.handles, DOMAIN gdi.copies, DOMAIN gdi.mirrors} \subseteq 1 .. gdi.made
  /\ \A h \in DOMAIN gdi.regions : gdi.regions[h] \subseteq Points
  /\ gdi.taken \subseteq DOMAIN gdi.regions
  /\ gdi.orphans \subseteq blocks /\ blocks \subseteq Blocks

----------------------------------------------------------------------------
(* The tables as values g.                                                  *)

IsKind(g, h, kind) == h \in DOMAIN g.handles /\ g.handles[h].kind = kind

Put(table, h, value) ==
  [o \in DOMAIN table \cup {h} |-> IF o = h THEN value ELSE table[o]]

Erase(table, h) == [o \in DOMAIN table \ {h} |-> table[o]]

(* makeGuestHandle, with a copy of the object in both tables                *)
Make(g, kind, pointer, copy) ==
  LET h == g.made + 1
  IN  [g EXCEPT !.made = h,
                !.handles = Put(@, h, [kind |-> kind, pointer |-> pointer]),
                !.copies  = Put(@, h, copy),
                !.mirrors = Put(@, h, copy)]

Tool(pattern, stock) == [pattern |-> pattern, stock |-> stock]
Bitmap(bits, palette, stock) == [bits |-> bits, palette |-> palette, stock |-> stock]

(* makeStockObject: one of each kind.  The pointer of a tool is its stock   *)
(* mark.                                                                    *)
Stocked(g, kind) == [g EXCEPT !.stock = Put(@, kind, g.made)]
MakeStockObject(g, kind) ==
  IF kind \in DOMAIN g.stock THEN g
  ELSE IF kind = "bitmap" THEN Stocked(Make(g, kind, 0, Bitmap(0, <<0, 1>>, TRUE)), kind)
  ELSE Stocked(Make(g, kind, 1, Tool(None, TRUE)), kind)

Unclipped == << >>
Clip(g, h, systemClip) == [g EXCEPT !.clips = Put(@, h, [system |-> systemClip, app |-> Unclipped])]

(* makeGuestDc: the mirror alone knows the clips                            *)
MakeDc(g, hwnd, systemClip) ==
  Clip(Make(g, "dc", 0, [hwnd |-> hwnd, brush |-> g.stock["brush"], pen |-> g.stock["pen"],
                         font |-> g.stock["font"], bitmap |-> None, color |-> 0]),
       g.made + 1, systemClip)

WithTools(g) ==
  MakeStockObject(MakeStockObject(MakeStockObject(g, "brush"), "pen"), "font")

MakeGuestDc(g, hwnd, systemClip) == MakeDc(WithTools(g), hwnd, systemClip)

(* lookupGuestDc                                                            *)
LookupGuestDc(g, h) == IsKind(g, h, "dc") /\ h \in DOMAIN g.copies

(* One field of a device context, in its copy and its mirror                *)
SetBoth(g, h, field, value) ==
  [g EXCEPT !.copies[h]  = [@ EXCEPT ![field] = value],
            !.mirrors[h] = [@ EXCEPT ![field] = value]]

(* Mutant: the mirror is told of tools, not of bitmaps.                     *)
SetCopy(g, h, field, value) ==
  IF field = "bitmap" THEN [g EXCEPT !.copies[h] = [@ EXCEPT ![field] = value]]
  ELSE SetBoth(g, h, field, value)

(* Selecting in the device context h                                        *)
Select(g, h, field, value) == SetBoth(g, h, field, value)

----------------------------------------------------------------------------
GdiInit ==
  /\ gdi = [made |-> 0, handles |-> << >>, copies |-> << >>, mirrors |-> << >>,
            clips |-> << >>, regions |-> << >>, stock |-> << >>, taken |-> {}, orphans |-> {}]
  /\ blocks = {}

(* Handles and heap are used as far as the bounds go.                       *)
Becomes(g) == g.made <= MaxHandles /\ gdi' = g

(* GetDC, BeginPaint: the clip is the window's visible part, cut to the     *)
(* update region by BeginPaint                                              *)
GetDC(hwnd, systemClip) == Becomes(MakeGuestDc(gdi, hwnd, systemClip)) /\ UNCHANGED blocks

SelectStock(g, h, kind) == Becomes(Select(g, h, kind, g.stock[kind]))
WithBitmap(g) == SelectStock(MakeStockObject(g, "bitmap"), g.made, "bitmap")

CreateCompatibleDC == WithBitmap(MakeGuestDc(gdi, None, Unclipped)) /\ UNCHANGED blocks

(* A device context leaves all tables                                       *)
DestroyDc(h) ==
  /\ gdi' = [gdi EXCEPT !.handles = Erase(@, h), !.copies = Erase(@, h),
                        !.mirrors = Erase(@, h), !.clips = Erase(@, h)]
  /\ UNCHANGED blocks

(* ReleaseDC, DeleteDC                                                      *)
ReleaseDC(h) == IsKind(gdi, h, "dc") /\ DestroyDc(h)

(* Only the handle goes, and the pixels of a bitmap are orphans (kept to    *)
(* state BitsOwned).                                                        *)
DropHandle(h) ==
  /\ h \in DOMAIN gdi.handles
  /\ gdi' = [gdi EXCEPT !.handles = Erase(@, h),
                        !.orphans = IF IsKind(gdi, h, "bitmap")
                                    THEN @ \cup ({gdi.handles[h].pointer} \ {0}) ELSE @]
  /\ UNCHANGED blocks

(* EndPaint takes the handle from the guest's PAINTSTRUCT, whatever it is.  *)
EndPaint(h) == IF h \in DOMAIN gdi.clips THEN DestroyDc(h) ELSE DropHandle(h)

(* The block that allocate gives, or 0 when there is none                   *)
Given(block) == IF block \in Blocks THEN block \notin blocks ELSE block = 0 /\ blocks = Blocks

(* CreateBitmap, CreateDIBSection and CreateCompatibleBitmap, whose bitmaps *)
(* differ in their palettes; a handle is made even without a block          *)
CreateBitmap(block, palette) ==
  /\ Given(block)
  /\ Becomes(Make(gdi, "bitmap", block, Bitmap(block, palette, FALSE)))
  /\ blocks' = blocks \cup ({block} \cap Blocks)

(* CreateSolidBrush, CreatePen, CreatePenIndirect, CreateFontIndirectW      *)
CreateTool(kind) ==
  Becomes(Make(gdi, kind, 0, Tool(None, FALSE))) /\ UNCHANGED blocks

(* createPatternBrushFromBitmap, whatever handle it is given                *)
CreatePatternBrush(bitmap) ==
  Becomes(Make(gdi, "brush", 0, Tool(bitmap, FALSE))) /\ UNCHANGED blocks

(* LoadImageW: the host's bitmap, in neither table                          *)
LoadImage ==
  /\ LET h == gdi.made + 1
     IN  Becomes([gdi EXCEPT !.made = h, !.handles = Put(@, h, [kind |-> "image", pointer |-> 0])])
  /\ UNCHANGED blocks

GetStockObject(kind) == Becomes(MakeStockObject(gdi, kind)) /\ UNCHANGED blocks

SelectObject(h, object) ==
  /\ LookupGuestDc(gdi, h)
  /\ object \in DOMAIN gdi.handles
  /\ LET kind == gdi.handles[object].kind
     IN  /\ kind \in Tools \/ (kind = "bitmap" /\ object \in DOMAIN gdi.mirrors)
         /\ gdi' = Select(gdi, h, kind, object)
  /\ UNCHANGED blocks

(* SetTextColor, SetBkColor, SetBkMode, SetTextAlign                        *)
SetTextColor(h, color) ==
  LookupGuestDc(gdi, h) /\ gdi' = SetBoth(gdi, h, "color", color) /\ UNCHANGED blocks

(* Mutant: the pixels stay allocated.                                       *)
NotReleased(h) == blocks

(* The blocks in use when the object of handle h is gone                    *)
Released(h) == blocks \ {gdi.handles[h].pointer}

Deleted(h) ==
  [gdi EXCEPT !.handles = Erase(@, h), !.copies = Erase(@, h),
              !.mirrors = Erase(@, h), !.regions = Erase(@, h), !.taken = @ \ {h}]

(* DeleteObject: a stock tool is refused by its mark, the stock bitmap by   *)
(* its mirror                                                               *)
DeleteObject(h) ==
  /\ h \in DOMAIN gdi.handles /\ gdi.handles[h].kind # "dc"
  /\ IF gdi.handles[h].kind = "bitmap" THEN ~gdi.mirrors[h].stock ELSE gdi.handles[h].pointer = 0
  /\ gdi' = Deleted(h)
  /\ blocks' = Released(h)

(* closeGuestHandle: the copy goes, except a pen's, and the mirror stays    *)
CloseHandle(h) ==
  /\ h \in DOMAIN gdi.handles
  /\ gdi' = [gdi EXCEPT !.handles = Erase(@, h), !.regions = Erase(@, h), !.taken = @ \ {h},
                        !.copies = IF gdi.handles[h].kind \in {"dc", "brush", "font", "bitmap"}
                                   THEN Erase(@, h) ELSE @]
  /\ blocks' = IF gdi.handles[h].kind = "bitmap" THEN Released(h) ELSE blocks

(* SetDIBColorTable of one entry; the guest's colours cannot be read when   *)
(* color is None: by then the mirror's palette has been filled up           *)
NoColor == -1
SetDIBColorTable(h, start, color) ==
  /\ LookupGuestDc(gdi, h)
  /\ LET bitmap == gdi.mirrors[h].bitmap
     IN  /\ bitmap \in DOMAIN gdi.mirrors /\ bitmap \in DOMAIN gdi.copies
         /\ gdi.mirrors[bitmap].palette # << >>
         /\ LET old  == gdi.mirrors[bitmap].palette
                full == [i \in 1 .. PaletteSize |-> IF i <= Len(old) THEN old[i] ELSE 0]
                new  == [full EXCEPT ![start] = color]
            IN  IF color = NoColor
                THEN gdi' = [gdi EXCEPT !.mirrors[bitmap].palette = full]
                ELSE gdi' = [gdi EXCEPT !.mirrors[bitmap].palette = new,
                                        !.copies[bitmap].palette = new]
  /\ UNCHANGED blocks

(* The bitmap that drawing in the device context h goes to                  *)
DrawsInBitmap(h) ==
  gdi.mirrors[h].bitmap \in DOMAIN gdi.copies

(* fillDcRect, drawDcLine into a bitmap: syncBitmapPaletteFromMgdi          *)
DrawInBitmap(h) ==
  /\ LookupGuestDc(gdi, h) /\ DrawsInBitmap(h)
  /\ LET bitmap == gdi.mirrors[h].bitmap
     IN  gdi' = IF bitmap \in DOMAIN gdi.mirrors /\ gdi.mirrors[bitmap].palette # << >>
                THEN [gdi EXCEPT !.copies[bitmap].palette = gdi.mirrors[bitmap].palette]
                ELSE gdi
  /\ UNCHANGED blocks

----------------------------------------------------------------------------
(* Regions.  The mirror is the bounds of the host's region, taken the       *)
(* regions that GetWindowRgn wrote and no call has tracked since (kept to   *)
(* state CopiesAgree).                                                      *)

Between(bounds) == {p \in Points : bounds[1] <= p /\ p < bounds[2]}

Box(S) == IF S = {} THEN <<0, 0>> ELSE <<Min(S), Max(S) + 1>>

Combine(mode, S, T) ==
  CASE mode = "and" -> S \cap T [] mode = "or" -> S \cup T
    [] mode = "diff" -> S \ T   [] mode = "xor" -> (S \cup T) \ (S \cap T)
    [] mode = "copy" -> S

TrackRegion(g, h, bounds, S) ==
  [g EXCEPT !.mirrors = Put(@, h, [bounds |-> bounds]), !.regions = Put(@, h, S),
            !.taken = @ \ {h}]

(* CreateRectRgn                                                            *)
CreateRectRgn(left, right) ==
  /\ LET h == gdi.made + 1
         g == [gdi EXCEPT !.made = h, !.handles = Put(@, h, [kind |-> "region", pointer |-> 0])]
     IN  Becomes(TrackRegion(g, h, <<left, right>>, Between(<<left, right>>)))
  /\ UNCHANGED blocks

SetRectRgn(h, left, right) ==
  /\ IsKind(gdi, h, "region")
  /\ gdi' = TrackRegion(gdi, h, <<left, right>>, Between(<<left, right>>))
  /\ UNCHANGED blocks

(* CombineRgn; the regions may be the same, and RGN_COPY has no second      *)
CombineRgn(dest, src1, src2, mode) ==
  /\ IsKind(gdi, dest, "region") /\ IsKind(gdi, src1, "region")
  /\ mode = "copy" \/ IsKind(gdi, src2, "region")
  /\ LET other == IF mode = "copy" THEN {} ELSE gdi.regions[src2]
         S     == Combine(mode, gdi.regions[src1], other)
     IN  gdi' = TrackRegion(gdi, dest, Box(S), S)
  /\ UNCHANGED blocks

(* SelectClipRgn: the bounds of region, or nothing                          *)
SelectClipRgn(h, region, origin) ==
  /\ LookupGuestDc(gdi, h)
  /\ \/ region = None /\ gdi' = [gdi EXCEPT !.clips[h].app = Unclipped]
     \/ /\ region \in DOMAIN gdi.mirrors /\ "bounds" \in DOMAIN gdi.mirrors[region]
        /\ LET bounds == gdi.mirrors[region].bounds
               shift  == IF DrawsInBitmap(h) THEN 0 ELSE origin
           IN  gdi' = [gdi EXCEPT !.clips[h].app = <<bounds[1] + shift, bounds[2] + shift>>]
  /\ UNCHANGED blocks

(* SetWindowRgn: the host's window takes the region                         *)
SetWindowRgn(h) ==
  /\ IsKind(gdi, h, "region") /\ gdi' = Deleted(h) /\ UNCHANGED blocks

(* GetWindowRgn: the host writes a window's region S, whichever the window  *)
(* was given, in the region h, and CeMgdi is not told                       *)
GetWindowRgn(h, S) ==
  /\ IsKind(gdi, h, "region")
  /\ gdi' = [gdi EXCEPT !.regions[h] = S, !.taken = @ \cup {h}]
  /\ UNCHANGED blocks

(* effectiveClipForDc                                                       *)
EffectiveClip(h) ==
  LET clip == gdi.clips[h]
  IN  IF clip.system = Unclipped THEN clip.app
      ELSE IF clip.app = Unclipped THEN clip.system
      ELSE <<Max({clip.system[1], clip.app[1]}), Min({clip.system[2], clip.app[2]})>>

----------------------------------------------------------------------------
(* Properties                                                               *)

(* Whatever was created, selected, deleted or closed before, the two copies *)
(* of an object whose handle the guest holds are there and say the same:    *)
(* the selections and colours of a device context, the bits of a bitmap,    *)
(* the bounds of a region.  Palettes may differ by the entries a failed     *)
(* SetDIBColorTable filled up, until the bitmap is drawn in.  Two calls     *)
(* leave CeMgdi out and are excepted: a bitmap of LoadImageW is the host's  *)
(* alone, and the mirror of a region that GetWindowRgn wrote is stale until *)
(* SetRectRgn or CombineRgn tracks it again.                                *)
SamePalette(short, long) ==
  Len(short) <= Len(long) /\ \A i \in DOMAIN short : short[i] = long[i]

CopiesAgree ==
  \A h \in DOMAIN gdi.handles : gdi.handles[h].kind # "image" =>
    /\ h \in DOMAIN gdi.mirrors
    /\ CASE gdi.handles[h].kind = "region" ->
              h \in gdi.taken \/ Box(gdi.regions[h]) = Box(Between(gdi.mirrors[h].bounds))
         [] gdi.handles[h].kind = "bitmap" ->
              /\ h \in DOMAIN gdi.copies
              /\ gdi.copies[h].bits = gdi.mirrors[h].bits
              /\ SamePalette(gdi.copies[h].palette, gdi.mirrors[h].palette)
         [] OTHER -> h \in DOMAIN gdi.copies /\ gdi.copies[h] = gdi.mirrors[h]

(* A block of the heap belongs to one bitmap, which has a handle: nothing   *)
(* is leaked, shared or freed while the guest can still draw in it by a     *)
(* handle (CreateBitmap, CreateDIBSection, DeleteObject, CloseHandle).      *)
(* Only an EndPaint with a bitmap's handle in its PAINTSTRUCT leaks pixels. *)
BitsOwned ==
  LET owners(b) == {h \in DOMAIN gdi.handles : IsKind(gdi, h, "bitmap") /\ gdi.copies[h].bits = b}
  IN  /\ \A b \in blocks \ gdi.orphans : Cardinality(owners(b)) = 1
      /\ \A h \in DOMAIN gdi.handles :
           IsKind(gdi, h, "bitmap") => gdi.copies[h].bits \in (blocks \ gdi.orphans) \cup {0}

=============================================================================

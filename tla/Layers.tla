------------------------------- MODULE Layers -------------------------------
(***************************************************************************)
(* The framebuffer and the pictures that popups keep of what they cover    *)
(* (coredll_bitmap.cpp, coredll_window_runtime.cpp).  All windows draw on  *)
(* one framebuffer.  A popup copies what it will cover before its first    *)
(* paint; from then on, what windows below it draw goes into that copy,    *)
(* its backing, and hiding the popup puts the copy back.                   *)
(*                                                                         *)
(* The screen is one line of Width pixels, a pixel is the window that      *)
(* painted it, or Black.  One guest thread owns the windows; their         *)
(* messages are CeGwe's.                                                   *)
(***************************************************************************)
EXTENDS Integers, SequencesExt

CONSTANTS
  Windows,   \* window handles
  Width,     \* framebufferWidth_
  Black      \* the picture before any window is painted, and erased areas

ASSUME LayersAssumption ==
  /\ Windows \subseteq Nat \ {0} /\ IsFiniteSet(Windows)
  /\ Width \in Nat \ {0} /\ Black \notin Windows

NoWindow == 0
Pixels   == 0 .. Width - 1
Colours  == Windows \cup {Black}
Pictures == UNION {[S -> Colours] : S \in SUBSET Pixels}
NoPicture == << >>

(* A popup has WS_POPUP, and a parent if it is owned; a secondary window    *)
(* has a parent and neither WS_CHILD nor WS_POPUP.                          *)
Styles   == {"plain", "child", "owned", "popup", "secondary"}

VARIABLES
  windows,      \* windows_: see WindowType
  order,        \* zOrder: the windows made so far, lowest first
  published,    \* windowRegions_: see RegionType
  framebuffer   \* framebuffer_

layerVars == <<windows, order, published, framebuffer>>

WindowType ==
  [state: {"none", "live", "erasing", "destroying", "destroyed"}, style: Styles,
   parent: Windows \cup {NoWindow}, visible: BOOLEAN,
   x: Int, width: 1 .. Width,
   backing: Pictures]    \* empty when it is not valid

Clips == Int \X Int
NoClip == <<0, Width>>      \* as good as none: drawing stays on the screen

RegionType == [known: BOOLEAN, owner: Windows \cup {NoWindow}, visible: Clips]

LayersType ==
  /\ windows \in [Windows -> WindowType]
  /\ order \in Seq(Windows)
  /\ published \in [Windows -> RegionType]
  /\ framebuffer \in [Pixels -> Colours]

----------------------------------------------------------------------------
(* Geometry and stacking, for the table of windows ws in the order z.       *)

Exists(ws, w)  == w # NoWindow /\ ws[w].state \in {"live", "erasing", "destroying"}
Visible(ws, w) == Exists(ws, w) /\ ws[w].visible
Child(ws, w)      == ws[w].style = "child"
OwnedPopup(ws, w) == ws[w].style \in {"owned", "secondary"}

ZOrder(z, w) == IF w = NoWindow THEN 0 ELSE CHOOSE i \in DOMAIN z : z[i] = w
Topmost(z, S) == IF S = {} THEN NoWindow ELSE CHOOSE w \in S : \A v \in S : ZOrder(z, v) <= ZOrder(z, w)

(* nextWindowZOrder                                                         *)
Raise(z, w) == Append(SelectSeq(z, LAMBDA v : v # w), w)

(* inferredWindowOwner: a popup without a parent is on the topmost window   *)
(* below it that is plain, or else secondary                                *)
Candidates(ws, z, w, style) ==
  {v \in Windows : Visible(ws, v) /\ ws[v].style = style /\ ZOrder(z, v) < ZOrder(z, w)}

Owner(ws, z, w) ==
  IF ~Exists(ws, w) THEN NoWindow
  ELSE IF OwnedPopup(ws, w) THEN ws[w].parent
  ELSE IF ws[w].style # "popup" THEN NoWindow
  ELSE IF Candidates(ws, z, w, "plain") # {} THEN Topmost(z, Candidates(ws, z, w, "plain"))
  ELSE Topmost(z, Candidates(ws, z, w, "secondary"))

(* w and the windows that following next leads to                           *)
Along(next, S) == S \cup {next[v] : v \in S \ {NoWindow}}
Chain(w, next) ==
  LET up[n \in 0 .. Cardinality(Windows)] == IF n = 0 THEN {w} ELSE Along(next, up[n - 1])
  IN  up[Cardinality(Windows)] \ {NoWindow}

ByParent(ws) == [v \in Windows |-> ws[v].parent]
ByChild(ws)  == [v \in Windows |-> IF Child(ws, v) THEN ws[v].parent ELSE NoWindow]
ByStack(ws, z) ==
  [v \in Windows |-> IF Child(ws, v) THEN ws[v].parent ELSE Owner(ws, z, v)]

IsWindowOrDescendant(ws, w, ancestor) == w # NoWindow /\ ancestor \in Chain(w, ByChild(ws))

(* isWindowInGweStack: the stack under w as last published, and as it is     *)
ByPublished(ws) ==
  [v \in Windows |-> IF ~published[v].known THEN NoWindow
                     ELSE IF Child(ws, v) THEN ws[v].parent ELSE published[v].owner]

GweStack(ws, z, w) == Chain(w, ByPublished(ws)) \cup Chain(w, ByStack(ws, z))

(* guestWindowOrigin                                                        *)
Origin(ws, w) ==
  IF w = NoWindow THEN 0
  ELSE FoldFunctionOnSet(+, 0, [v \in Windows |-> ws[v].x], Chain(w, ByChild(ws)))

(* The pixels from left up to right that are on the screen                  *)
Span(left, right) == {p \in Pixels : left <= p /\ p < right}
Extent(left, width) == <<left, left + width>>
Bounds(ws, w) == Extent(Origin(ws, w), ws[w].width)
Within(bounds) == Span(bounds[1], bounds[2])
Area(ws, w) == Within(Bounds(ws, w))
CoversFramebuffer(ws, w) == Exists(ws, w) /\ Area(ws, w) = Pixels

FullScreenPopups(ws) ==
  {p \in Windows : Visible(ws, p) /\ OwnedPopup(ws, p) /\ CoversFramebuffer(ws, p)}

(* coveringFullScreenOwnedPopup                                             *)
CoveringPopups(ws, z, w) ==
  {p \in FullScreenPopups(ws) \ Chain(w, ByParent(ws)) :
     \/ ZOrder(z, p) > ZOrder(z, w)
     \/ ws[p].parent # w /\ IsWindowOrDescendant(ws, w, ws[p].parent)}

CoveringPopup(ws, z, w) ==
  IF w = NoWindow THEN NoWindow ELSE Topmost(z, CoveringPopups(ws, z, w))

(* publishGuestWindowState                                                  *)
Publish(ws, z) ==
  [w \in Windows |->
    IF Exists(ws, w)
    THEN [known |-> TRUE, owner |-> Owner(ws, z, w),
          visible |-> IF ws[w].visible THEN Bounds(ws, w) ELSE NoClip]
    ELSE [known |-> FALSE, owner |-> NoWindow, visible |-> NoClip]]

(* The windows whose pixels w may not draw over                             *)
Above(ws, z, w) ==
  IF w = NoWindow THEN {}
  ELSE {v \in {u \in Windows : Visible(ws, u)} \ GweStack(ws, z, w) : ZOrder(z, v) > ZOrder(z, w)}

(* visibleWindowCoversTargetPixel                                           *)
CoversTargetPixel(ws, z, w, p) == \E v \in Above(ws, z, w) : p \in Area(ws, v)

(* visibleWindowCoversTargetRect                                            *)
CoversTargetRect(ws, z, w, span) == \E v \in Above(ws, z, w) : Area(ws, v) \cap span # {}

----------------------------------------------------------------------------
(* Backings.  A picture pic is the windows and the framebuffer together.    *)

Drop(ws, S) == [v \in S |-> [ws[v] EXCEPT !.backing = NoPicture]] @@ ws

(* The full-screen popups below the full-screen popup w                     *)
Older(ws, z, w) ==
  {v \in FullScreenPopups(ws) : ZOrder(z, v) < ZOrder(z, w)}

(* retireOlderFullScreenOwnedPopupsForPopup                                 *)
Retire(ws, S) ==
  [v \in S |-> [ws[v] EXCEPT !.visible = FALSE, !.backing = NoPicture]] @@ ws

(* Mutant: a popup without an owner keeps nothing.                          *)
KeepsBackingOwned(ws, w) ==
  OwnedPopup(ws, w) \/ (Child(ws, w) /\ ws[ws[w].parent].parent # NoWindow)

(* The windows that keep a backing                                          *)
KeepsBacking(ws, w) ==
  \/ ws[w].style = "popup" /\ ~CoversFramebuffer(ws, w)
  \/ OwnedPopup(ws, w)
  \/ Child(ws, w) /\ ws[ws[w].parent].parent # NoWindow

Keep(ws, fb, w) ==
  IF ~KeepsBacking(ws, w) \/ ws[w].backing # NoPicture THEN ws
  ELSE [ws EXCEPT ![w].backing = @ @@ Restrict(fb, Area(ws, w))]

(* captureGuestWindowBacking                                                *)
Capture(ws, z, fb, w) ==
  IF ~Visible(ws, w) THEN ws
  ELSE IF w \in FullScreenPopups(ws) THEN Keep(Retire(ws, Older(ws, z, w)), fb, w)
  ELSE IF CoveringPopup(ws, z, w) # NoWindow THEN ws
  ELSE Keep(ws, fb, w)

Painted(picture, S, colour) == [p \in S |-> colour] @@ picture

(* Mutant: a child's drawing goes into its own parent's backing.            *)
LayersButSelf(ws, z, w) ==
  {v \in Windows \ {w} :
     /\ Visible(ws, v) /\ ws[v].backing # NoPicture
     /\ w = NoWindow \/ ZOrder(z, v) >= ZOrder(z, w) \/ v = CoveringPopup(ws, z, w)}

(* The windows whose backing takes what w draws                             *)
Layers(ws, z, w) ==
  {v \in Windows : /\ Visible(ws, v) /\ ws[v].backing # NoPicture
                   /\ ~IsWindowOrDescendant(ws, w, v)
                   /\ w = NoWindow \/ ZOrder(z, v) >= ZOrder(z, w) \/ v = CoveringPopup(ws, z, w)}

(* The pixels of span that reach the screen past the layers                 *)
Open(ws, z, w, span, layers) ==
  IF CoveringPopup(ws, z, w) # NoWindow THEN {}
  ELSE {p \in span : (\A v \in layers : p \notin DOMAIN ws[v].backing) /\ ~CoversTargetPixel(ws, z, w, p)}

WriteLayers(ws, layers, span, colour) ==
  [v \in layers |-> [ws[v] EXCEPT !.backing = Painted(@, DOMAIN @ \cap span, colour)]] @@ ws

(* writeFramebufferTargetPixel, for every pixel of span: what one pixel      *)
(* does to a backing changes nothing for the next                           *)
WritePixels(ws, z, fb, w, span, colour, layers) ==
  [windows |-> WriteLayers(ws, layers, span, colour),
   framebuffer |-> Painted(fb, Open(ws, z, w, span, layers), colour)]

WriteSpan(ws, fb, span, colour) == [windows |-> ws, framebuffer |-> Painted(fb, span, colour)]

Meets(ws, layers, span) == \E v \in layers : DOMAIN ws[v].backing \cap span # {}

NeedsLayeredWrite(ws, z, w, span) ==
  \/ CoveringPopup(ws, z, w) # NoWindow
  \/ CoversTargetRect(ws, z, w, span)
  \/ Meets(ws, Layers(ws, z, w), span)

(* What is drawn from left up to right, in w's coordinates, within the      *)
(* device context's clip                                                    *)
Target(origin, left, right, clip) ==
  Span(Max({origin + left, clip[1]}), Min({origin + right, clip[2]}))

(* fillFramebufferRect                                                      *)
Fill(ws, z, fb, w, span, colour) ==
  IF NeedsLayeredWrite(ws, z, w, span)
  THEN WritePixels(ws, z, fb, w, span, colour, Layers(ws, z, w))
  ELSE WriteSpan(ws, fb, span, colour)

FillFramebuffer(ws, z, fb, w, left, right, clip, colour) ==
  Fill(Capture(ws, z, fb, w), z, fb, w, Target(Origin(ws, w), left, right, clip), colour)

(* bitBltToFramebuffer of an opaque source as wide as the destination: rows *)
(* are copied at once where nothing of another window is met                *)
Blit(ws, z, fb, w, span, colour, layers) ==
  IF ~Meets(ws, layers, span) /\ CoveringPopup(ws, z, w) = NoWindow /\ ~CoversTargetRect(ws, z, w, span)
  THEN WriteSpan(ws, fb, span, colour)
  ELSE WritePixels(ws, z, fb, w, span, colour, layers)

BlitOver(ws, z, fb, w, span, colour) == Blit(ws, z, fb, w, span, colour, Layers(ws, z, w))

BitBlt(ws, z, fb, w, left, right, clip, colour) ==
  BlitOver(Capture(ws, z, fb, w), z, fb, w, Target(Origin(ws, w), left, right, clip), colour)

(* The full-screen popups that keep w's backing from being put back         *)
Newer(ws, z, w) ==
  {v \in FullScreenPopups(ws) : ZOrder(z, v) > ZOrder(z, w)}

(* restoreGuestWindowBacking                                                *)
Stale(ws, z, w) ==
  OwnedPopup(ws, w) /\ IF CoversFramebuffer(ws, w) THEN Newer(ws, z, w) # {}
                       ELSE CoveringPopup(ws, z, w) # NoWindow

Restore(ws, z, fb, w) ==
  [windows |-> Drop(ws, {w}),
   framebuffer |-> IF Stale(ws, z, w) THEN fb ELSE ws[w].backing @@ fb]

(* eraseGuestWindowArea                                                     *)
EraseBlack(ws, z, fb, w) ==
  Fill(ws, z, fb, NoWindow, Area(ws, w), Black)

OwnerStackPopup(ws, z, w) ==
  ws[w].style \in {"owned", "popup"} /\ Owner(ws, z, w) # NoWindow

Forget(pic, w) == [pic EXCEPT !.windows = Drop(@, {w})]

EraseWindowArea(ws, z, fb, w) ==
  IF Child(ws, w)
  THEN IF ws[ws[w].parent].parent = NoWindow THEN Forget([windows |-> ws, framebuffer |-> fb], w)
       ELSE Forget(EraseBlack(ws, z, fb, w), w)
  ELSE IF ws[w].backing # NoPicture /\ (CoversFramebuffer(ws, w) \/ ~OwnerStackPopup(ws, z, w))
  THEN Restore(ws, z, fb, w)
  ELSE IF OwnerStackPopup(ws, z, w) \/ OwnedPopup(ws, w)
  THEN Forget([windows |-> ws, framebuffer |-> fb], w)
  ELSE EraseBlack(ws, z, fb, w)

----------------------------------------------------------------------------
NeverMade ==
  [state |-> "none", style |-> "plain", parent |-> NoWindow, visible |-> FALSE,
   x |-> 0, width |-> 1, backing |-> NoPicture]

LayersInit ==
  /\ windows = [w \in Windows |-> NeverMade]
  /\ order = << >>
  /\ published = Publish(windows, order)
  /\ framebuffer = [p \in Pixels |-> Black]

Shows(pic) == windows' = pic.windows /\ framebuffer' = pic.framebuffer

(* CreateWindowExW                                                          *)
CreateWindow(w, style, parent, visible, x, width) ==
  /\ windows[w].state = "none" /\ \A v \in Windows : v < w => windows[v].state # "none"
  /\ IF style \in {"child", "owned", "secondary"} THEN Exists(windows, parent) ELSE parent = NoWindow
  /\ windows' = [windows EXCEPT ![w] =
       [state |-> "live", style |-> style, parent |-> parent, visible |-> visible,
        x |-> x, width |-> width, backing |-> NoPicture]]
  /\ order' = Raise(order, w)
  /\ published' = Publish(windows', order')
  /\ UNCHANGED framebuffer

(* ShowWindow, SetWindowPos with SWP_SHOWWINDOW and SWP_NOZORDER            *)
ShowWindow(w) ==
  /\ windows[w].state = "live" /\ ~windows[w].visible
  /\ windows' = [windows EXCEPT ![w].visible = TRUE]
  /\ order' = Raise(order, w)
  /\ published' = Publish(windows', order')
  /\ UNCHANGED framebuffer

(* ShowWindow, SetWindowPos with SWP_HIDEWINDOW                             *)
Hide(w, hidden) ==
  Shows(EraseWindowArea(hidden, order, framebuffer, w)) /\ published' = Publish(hidden, order)

HideWindow(w) ==
  /\ windows[w].state = "live" /\ windows[w].visible
  /\ Hide(w, [windows EXCEPT ![w].visible = FALSE])
  /\ UNCHANGED order

(* MoveWindow, SetWindowPos with SWP_NOZORDER                               *)
MoveWindow(w, x) ==
  /\ windows[w].state = "live" /\ windows[w].x # x
  /\ windows' = [windows EXCEPT ![w].x = x]
  /\ published' = Publish(windows', order)
  /\ UNCHANGED <<order, framebuffer>>

(* SetWindowPos with HWND_TOP                                               *)
RaiseWindow(w) ==
  /\ windows[w].state = "live"
  /\ order' = Raise(order, w) /\ order' # order
  /\ published' = Publish(windows, order')
  /\ UNCHANGED <<windows, framebuffer>>

(* DestroyWindow until WM_DESTROY and WM_NCDESTROY have run                 *)
DestroyWindow(w) ==
  /\ windows[w].state = "live"
  /\ windows' = [windows EXCEPT ![w].state = IF windows[w].visible THEN "erasing" ELSE "destroying",
                                ![w].visible = FALSE]
  /\ UNCHANGED <<order, published, framebuffer>>

(* finalizeDestroyedWindow                                                  *)
Gone(pic, w) == [pic EXCEPT !.windows[w].state = "destroyed", !.windows[w].backing = NoPicture]

Finalize(pic) == Shows(pic) /\ published' = Publish(pic.windows, order)

FinalizeDestroyedWindow(w) ==
  /\ \/ /\ windows[w].state = "erasing"
        /\ Finalize(Gone(EraseWindowArea(windows, order, framebuffer, w), w))
     \/ /\ windows[w].state = "destroying"
        /\ Finalize(Gone([windows |-> windows, framebuffer |-> framebuffer], w))
  /\ UNCHANGED order

(* What the guest draws in w through a device context with the clip         *)
ColourOf(w) == IF w = NoWindow THEN Black ELSE w

Draw(w, left, right, clip) ==
  /\ \/ Shows(FillFramebuffer(windows, order, framebuffer, w, left, right, clip, ColourOf(w)))
     \/ Shows(BitBlt(windows, order, framebuffer, w, left, right, clip, ColourOf(w)))
  /\ UNCHANGED <<order, published>>

----------------------------------------------------------------------------
(* Repainting every visible window, in the order of                         *)
(* queueExposedWindowRepaints, each through a device context of its own.    *)
Depth(ws, z, w) == Cardinality(Chain(w, ByStack(ws, z)))
PaintedBefore(ws, z, v, w) ==
  \/ Depth(ws, z, v) < Depth(ws, z, w)
  \/ Depth(ws, z, v) = Depth(ws, z, w) /\ ZOrder(z, v) < ZOrder(z, w)

Repainted(ws, z) ==
  SetToSortSeq({w \in Windows : Visible(ws, w) /\ CoveringPopup(ws, z, w) = NoWindow},
               LAMBDA v, w : \/ v \in GweStack(ws, z, w)
                             \/ w \notin GweStack(ws, z, v) /\ PaintedBefore(ws, z, v, w))

Repaint(ws, z, fb) ==
  FoldLeft(LAMBDA pic, w : FillFramebuffer(pic.windows, z, pic.framebuffer, w, 0, ws[w].width,
                                           published[w].visible, w),
           [windows |-> ws, framebuffer |-> fb], Repainted(ws, z))

=============================================================================

------------------------------ MODULE Graphics ------------------------------
(***************************************************************************)
(* Windows, their layers and the device contexts that draw in them.  A     *)
(* scene fixes the windows the guest makes, in the order it makes them,    *)
(* and the calls it uses, so that each combination is explored on its own. *)
(***************************************************************************)
EXTENDS Layers, GdiObjects

CONSTANT Scenes    \* [cast |-> windows to make, calls |-> names of calls, handles |-> made at most]

VARIABLE scene
vars == <<layerVars, gdiVars, scene>>

Calls(name) == name \in scene.calls

Init == LayersInit /\ GdiInit /\ scene \in Scenes

(* Windows come and go.                                                     *)
WindowStep ==
  \/ \E w \in DOMAIN scene.cast, visible \in BOOLEAN :
       LET role == scene.cast[w]
       IN  CreateWindow(w, role.style, role.parent, visible, role.x, role.width)
  \/ \E w \in Windows :
       \/ Calls("show") /\ (ShowWindow(w) \/ HideWindow(w))
       \/ Calls("raise") /\ RaiseWindow(w)
       \/ Calls("move") /\ \E x \in Pixels : MoveWindow(w, x)
       \/ Calls("destroy") /\ (DestroyWindow(w) \/ FinalizeDestroyedWindow(w))

(* A window draws, through a device context made for it and at once given   *)
(* back.                                                                    *)
PaintStep ==
  \E w \in Windows, left \in Pixels, right \in 1 .. Width :
    /\ Calls("draw") /\ left < right /\ Exists(windows, w)
    /\ Visible(windows, w) \/ Calls("hidden")
    /\ Draw(w, left, right, published[w].visible)

ObjectStep ==
  \/ \E w \in Targets :
       /\ Exists(windows, w)
       /\ \/ Calls("dc") /\ GetDC(w, published[w].visible)
          \/ Calls("paint") /\ \E left \in Pixels : GetDC(w, <<left, published[w].visible[2]>>)
  \/ Calls("memory") /\ CreateCompatibleDC
  \/ \E h \in Handles :
       \/ Calls("release") /\ (ReleaseDC(h) \/ EndPaint(h))
       \/ Calls("delete") /\ DeleteObject(h)
       \/ Calls("close") /\ CloseHandle(h)
       \/ Calls("select") /\ \E object \in Handles : SelectObject(h, object)
       \/ Calls("color") /\ \E color \in Colour : SetTextColor(h, color)
       \/ Calls("palette") /\ \E start \in 1 .. PaletteSize, color \in Colour \cup {NoColor} :
            SetDIBColorTable(h, start, color)
       \/ Calls("bitmap") /\ DrawInBitmap(h)
  \/ Calls("bitmap") /\ \E block \in Blocks \cup {0}, palette \in {<< >>, <<1>>} :
       CreateBitmap(block, palette)
  \/ Calls("tool") /\ \E kind \in Tools : CreateTool(kind) \/ GetStockObject(kind)
  \/ Calls("image") /\ LoadImage
  \/ Calls("pattern") /\ \E bitmap \in Handles : CreatePatternBrush(bitmap)

(* Regions, in a scene with device contexts after the first of them         *)
RegionStep ==
  /\ Calls("region") /\ (Calls("paint") => gdi.clips # << >>)
  /\ \/ \E left, right \in Points : left <= right /\ CreateRectRgn(left, right)
     \/ \E h \in Handles :
          \/ \E left, right \in Points : left <= right /\ SetRectRgn(h, left, right)
          \/ SetWindowRgn(h)
          \/ Calls("window region") /\ \E S \in SUBSET Points : GetWindowRgn(h, S)
          \/ \E src1, src2 \in Handles, mode \in {"and", "or", "diff", "xor", "copy"} :
               CombineRgn(h, src1, src2, mode)
          \/ \E region \in Handles \cup {None} :
               /\ h \in DOMAIN gdi.copies /\ IsKind(gdi, h, "dc")
               /\ SelectClipRgn(h, region, Origin(windows, gdi.copies[h].hwnd))

(* FillRect through the device context h.  A device context whose bitmap is *)
(* gone draws on the screen.                                                *)
FillRect(h, left, right) ==
  /\ LookupGuestDc(gdi, h) /\ ~DrawsInBitmap(h)
  /\ LET hwnd   == gdi.copies[h].hwnd
         clip   == IF EffectiveClip(h) = Unclipped THEN NoClip ELSE EffectiveClip(h)
         colour == IF hwnd = NoWindow THEN Black ELSE hwnd
     IN  Shows(FillFramebuffer(windows, order, framebuffer, hwnd, left, right, clip, colour))
  /\ UNCHANGED <<order, published>>

Next ==
  \/ (WindowStep \/ PaintStep) /\ UNCHANGED <<gdiVars, scene>>
  \/ (ObjectStep \/ RegionStep) /\ gdi'.made <= scene.handles /\ UNCHANGED <<layerVars, scene>>
  \/ /\ Calls("fill")
     /\ \E h \in Handles, left \in Pixels, right \in 1 .. Width : left < right /\ FillRect(h, left, right)
     /\ UNCHANGED <<gdiVars, scene>>

Spec == Init /\ [][Next]_vars

----------------------------------------------------------------------------
(* Properties                                                               *)

TypeOK == LayersType /\ GdiType

(* v is above w: it is stacked on w, or neither is on the other and it was  *)
(* raised later.                                                            *)
OnTop(ws, z, v, w) ==
  \/ w \in GweStack(ws, z, v)
  \/ v \notin GweStack(ws, z, w) /\ ZOrder(z, v) > ZOrder(z, w)

(* On every pixel that a window covers is the topmost window's picture.     *)
RightPicture(ws, z, fb) ==
  \A p \in Pixels :
    LET there == {w \in Windows : Visible(ws, w) /\ p \in Area(ws, w)}
    IN  there # {} => fb[p] \in there /\ \A w \in there \ {fb[p]} : OnTop(ws, z, fb[p], w)

(* Whatever was shown, hidden, raised, destroyed and drawn before, once     *)
(* every window has painted itself in the order of                          *)
(* queueExposedWindowRepaints, the screen is what the stacking order says:  *)
(* no window's drawing ends in a backing it should not, and no backing      *)
(* keeps it from the screen (fillFramebufferRect,                           *)
(* writeFramebufferTargetPixel).                                            *)
Right(pic, z) == RightPicture(pic.windows, z, pic.framebuffer)

RepaintConverges == Right(Repaint(windows, order, framebuffer), order)

(* A popup that is shown over a right picture, painted and hidden again     *)
(* leaves a right picture, with nobody painting anything: what was copied   *)
(* before its first paint is what it covered, and is put back               *)
(* (captureGuestWindowBacking, restoreGuestWindowBacking).  Popups that     *)
(* retire another, and partial popups with an owner, whose backing is       *)
(* dropped, leave that to the repaints.                                     *)
Hidden(pic, w) == [pic EXCEPT !.windows[w].visible = FALSE]
AfterHiding(pic, z, w) == EraseWindowArea(pic.windows, z, pic.framebuffer, w)
AfterComing(w) ==
  FillFramebuffer([windows EXCEPT ![w].visible = TRUE], Raise(order, w), framebuffer,
                  w, 0, windows[w].width, NoClip, w)

PutsBack(w) ==
  IF CoversFramebuffer(windows, w) THEN FullScreenPopups(windows) = {}
  ELSE ~OwnerStackPopup(windows, Raise(order, w), w)

PopupLeavesNoTrace ==
  RightPicture(windows, order, framebuffer) =>
    \A w \in Windows :
      /\ windows[w].state = "live" /\ ~windows[w].visible
      /\ windows[w].style \in {"popup", "owned", "secondary"}
      /\ PutsBack(w)
      => Right(AfterHiding(Hidden(AfterComing(w), w), Raise(order, w), w), Raise(order, w))

=============================================================================

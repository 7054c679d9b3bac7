------------------------------- MODULE CeGwe -------------------------------
(***************************************************************************)
(* Windows, timers, host input and the message queue they share: CeGwe     *)
(* (ce_gwe.h) driven by the coredll exports that make windows and post and *)
(* retrieve messages (coredll_named_dispatch.cpp, synthetic_dll.cpp) and   *)
(* by the host window procedure (coredll_window_runtime.cpp).              *)
(*                                                                         *)
(* Window procedures are guest code: what they do is a later action.  Of   *)
(* geometry only what decides a branch is kept: a window is plain, a       *)
(* child, an owned popup, or an owned popup that covers the framebuffer.   *)
(***************************************************************************)
EXTENDS GweQueue

CONSTANTS
  MainThread,   \* the pseudo-handle of the main thread
  Scenes        \* what a behaviour is limited to

(* Handles are numbers: several windows are painted in handle order.        *)
ASSUME GweAssumption ==
  /\ Windows \subseteq Nat /\ IsFiniteSet(Windows)
  /\ NoWindow \notin Windows /\ NoOwner \notin Owners
  /\ \A s \in Scenes :
       /\ s.owners \subseteq Owners /\ s.windows \subseteq Windows
       /\ s.timers \subseteq s.windows \cup {NoWindow}
       /\ s.styles \subseteq {"plain", "child", "owned", "full"}
       /\ s.calls \subseteq {"post", "send", "show", "paint", "key", "touch"}
       /\ s.messages \in Nat      \* bound on the messages queued

VARIABLES
  scene,        \* the scene of this behaviour
  queue,        \* messages_, threadQueues_, messageOwners_, nextMessageId_
  windows,      \* windows_: see WindowType
  windowOwners, \* windowOwners_, NoOwner where it has no entry
  below,        \* zOrder: <<v, w>> when v is below w
  regions,      \* windowRegions_: the windows last published as visible
  creating,     \* pendingCreateWindows_
  destroying,   \* pendingDestroyWindows_
  timers,       \* timers_, one per window
  pointer       \* host pointer state: see PointerType

windowVars == <<windows, windowOwners, below, regions, creating, destroying>>
vars == <<scene, queue, windowVars, timers, pointer>>

Pointer == {"move", "down", "up"}
Whats   == Pointer \cup {"user", "size", "show", "paint", "erase", "focus",
                         "unfocus", "key", "timer", "quit"}

WindowType ==
  [state: {"none", "live", "destroyed"}, ownerThread: Owners \cup {NoOwner},
   parent: Windows \cup {NoWindow}, style: {"none", "plain", "child", "owned", "full"},
   visible: BOOLEAN]

PointerType ==
  [held: BOOLEAN,                          \* the host button is down
   dropping: BOOLEAN,                      \* hostPointerDropUntilRelease_
   capture: Windows \cup {NoWindow},       \* hostPointerCaptureWindow_
   focused: Windows \cup {NoWindow},       \* focusedWindow_
   pendingChildUp: Windows \cup {NoWindow}] \* pendingSyntheticChildButtonUpWindow_

----------------------------------------------------------------------------
(* The window tree, for the table of windows ws.                            *)

Live(ws, w)    == w # NoWindow /\ ws[w].state = "live"
Visible(ws, w) == Live(ws, w) /\ ws[w].visible
OwnedPopup(ws, w) == ws[w].style \in {"owned", "full"}
FullPopup(ws, w)  == Visible(ws, w) /\ ws[w].style = "full"

(* w and the windows its chain of parents passes through, as long as it is  *)
(* in Through.                                                              *)
Chain(ws, w, Through) ==
  LET up[n \in 0 .. Cardinality(Windows)] ==
        IF n = 0 THEN {w}
        ELSE up[n - 1] \cup {ws[v].parent : v \in up[n - 1] \cap Through}
  IN  up[Cardinality(Windows)] \ {NoWindow}

(* isWindowInOwnedPopupStack                                                *)
InOwnedPopupStack(ws, w, ancestor) == ancestor \in Chain(ws, w, Windows)

Children(ws) == {v \in Windows : ws[v].style = "child"}

IsWindowOrDescendant(ws, w, ancestor) == ancestor \in Chain(ws, w, Children(ws))

(* isWindowInGweStack: a destroyed popup has no owner any more.             *)
InGweStack(ws, w, ancestor) ==
  ancestor \in Chain(ws, w, Children(ws) \cup {v \in Windows : Live(ws, v)})

(* coveringFullScreenOwnedPopup: a full-screen popup hides w from input.    *)
Covered(ws, z, w) ==
  \E p \in Windows :
    /\ FullPopup(ws, p) /\ ~InOwnedPopupStack(ws, w, p)
    /\ \/ <<w, p>> \in z
       \/ ws[p].parent # w /\ IsWindowOrDescendant(ws, w, ws[p].parent)

(* publishGuestWindowState                                                  *)
Published(ws) == {w \in Windows : Visible(ws, w)}

(* nextWindowZOrder                                                         *)
Raise(z, ws, w) ==
  {p \in z : p[1] # w} \cup
  {<<v, w>> : v \in {x \in Windows : ws[x].state # "none"} \ {w}}

----------------------------------------------------------------------------
(* Painting and popups.                                                     *)

MessagesOf(q, w, kinds) == {m \in Queued(q) : m.hwnd = w /\ m.what \in kinds}

HasQueued(q, w, what) == MessagesOf(q, w, {what}) # {}

(* Mutant: the queue is not searched.                                       *)
PostAgain(q, w, what) == Post(q, windowOwners, Message(w, what))

PostOnce(q, w, what) ==
  IF HasQueued(q, w, what) THEN q ELSE Post(q, windowOwners, Message(w, what))

(* queueGuestPaint with erase                                               *)
QueueGuestPaint(q, ws, w) ==
  IF Visible(ws, w) THEN PostOnce(PostOnce(q, w, "erase"), w, "paint") ELSE q

InHandleOrder(S) ==
  CHOOSE s \in [1 .. Cardinality(S) -> S] : \A i, j \in DOMAIN s : i < j => s[i] < s[j]

PaintInOrder(q, ws, order) ==
  ForEach(LAMBDA acc, w : QueueGuestPaint(acc, ws, w), q, order)

PaintAll(q, ws, S) == PaintInOrder(q, ws, InHandleOrder(S))

(* The order in which queueExposedWindowRepaints paints.                    *)
ParentsFirst(ws, S) ==
  LET depth(w) == Cardinality(Chain(ws, w, Windows))
      first(v, w) == \/ depth(v) < depth(w)
                     \/ depth(v) = depth(w) /\ <<v, w>> \in below
  IN  CHOOSE s \in [1 .. Cardinality(S) -> S] :
        \A i, j \in DOMAIN s : i < j => first(s[i], s[j])

PrioritizeQueuedWindowMessages(q, w) ==
  MoveToFront(q, windowOwners, {m \in Queued(q) : m.hwnd = w})

QueueVisiblePopupPaintsAbove(q, ws, z, w) ==
  LET popups == {p \in Windows : Visible(ws, p) /\ OwnedPopup(ws, p) /\ <<w, p>> \in z}
  IN  ForEach(PrioritizeQueuedWindowMessages, PaintAll(q, ws, popups),
              Reverse(InHandleOrder(popups)))

(* repaintOwnerAfterStackChange                                             *)
RepaintOwner(q, ws, z, w) ==
  LET parent == ws[w].parent
      painted == QueueGuestPaint(q, ws, parent)
  IN  IF parent = NoWindow THEN q
      ELSE IF ws[w].style = "child" THEN painted
      ELSE QueueVisiblePopupPaintsAbove(painted, ws, z, parent)

(* The windows a full-screen popup that has just been made replaces.        *)
Replaced(ws, w) ==
  IF FullPopup(ws, w)
  THEN {p \in Windows : FullPopup(ws, p) /\ <<p, w>> \in below} ELSE {}

Retire(ws, S) == [w \in Windows |-> IF w \in S THEN [ws[w] EXCEPT !.visible = FALSE]
                                    ELSE ws[w]]

(* queueVisibleFullScreenPopupPaint, then queueVisiblePopupPaint: of the    *)
(* two one at most does something.                                          *)
QueuePopupPaint(q, ws, w) ==
  LET retired == Replaced(ws, w)
      rest == Erase(q, {m \in Queued(q) : m.hwnd \in retired})
      paint(p) == QueueGuestPaint(PostOnce(p, w, "show"), ws, w)
      noMoves(p) == Erase(p, {m \in Queued(p) : /\ m.what = "move"
                                                /\ ~InOwnedPopupStack(ws, m.hwnd, w)})
  IN  IF ~Visible(ws, w) \/ ~OwnedPopup(ws, w) THEN q
      ELSE IF ws[w].style = "owned"
           THEN PrioritizeQueuedWindowMessages(noMoves(paint(q)), w)
      ELSE IF retired # {} THEN PrioritizeQueuedWindowMessages(paint(rest), w)
      ELSE q

----------------------------------------------------------------------------
(* Discarding messages.                                                     *)

DiscardQueuedWindowUpdateMessages(q, w) ==
  Erase(q, {m \in Queued(q) : /\ m.what \in {"paint", "erase", "show"}
                              /\ m.hwnd # NoWindow
                              /\ InOwnedPopupStack(windows, m.hwnd, w)})

(* discardQueuedPointerMessagesForWindowStack: the messages, and what the   *)
(* host pointer remembers of the windows.                                   *)
DiscardQueuedPointerMessages(q, w) ==
  Erase(q, {m \in Queued(q) : m.what \in Pointer /\ InGweStack(windows, m.hwnd, w)})

ForgetStack(w) ==
  LET kept(x) == IF x # NoWindow /\ InGweStack(windows, x, w) THEN NoWindow ELSE x
  IN  [pointer EXCEPT !.capture = kept(@), !.pendingChildUp = kept(@)]

(* finalizeDestroyedWindow's resets                                         *)
ForgetWindow(w) ==
  [pointer EXCEPT !.capture = IF @ = w THEN NoWindow ELSE @,
                  !.focused = IF @ = w THEN NoWindow ELSE @,
                  !.pendingChildUp = IF @ = w THEN NoWindow ELSE @]

----------------------------------------------------------------------------
Init ==
  /\ scene \in Scenes
  /\ queue = EmptyQueue
  /\ windows = [w \in Windows |-> [state |-> "none", ownerThread |-> NoOwner,
                  parent |-> NoWindow, style |-> "none", visible |-> FALSE]]
  /\ windowOwners = [w \in Windows |-> NoOwner]
  /\ below = {} /\ regions = {} /\ creating = {} /\ destroying = {} /\ timers = {}
  /\ pointer = [held |-> FALSE, dropping |-> FALSE, capture |-> NoWindow,
                focused |-> NoWindow, pendingChildUp |-> NoWindow]

(* Every action that queues leaves the queue within the bound.              *)
Bounded == queue'.nextId <= scene.messages + 1

(* A thread whose sent message is still queued is parked.                   *)
Runs(t) == \A m \in Queued(queue) : m.sender # t

(* CreateWindowExW up to WM_NCCREATE                                        *)
CreateWindow(t, w, style, parent, visible) ==
  /\ Runs(t)
  /\ windows[w].state = "none"
  /\ \A v \in Windows : v < w => windows[v].state # "none"   \* handles only grow
  /\ \/ style = "plain" /\ parent = NoWindow
     \/ style # "plain" /\ Live(windows, parent)
  /\ windows' = [windows EXCEPT ![w] = [state |-> "live", ownerThread |-> t,
                   parent |-> parent, style |-> style, visible |-> visible]]
  /\ windowOwners' = [windowOwners EXCEPT ![w] = t]
  /\ below' = Raise(below, windows', w)
  /\ regions' = Published(windows')
  /\ creating' = creating \cup {w}
  /\ queue' = Post(queue, windowOwners', Message(w, "size"))
  /\ UNCHANGED <<destroying, timers, pointer>>

(* The continuation when WM_CREATE has returned                             *)
CreateComplete(w) ==
  /\ w \in creating /\ Live(windows, w)
  /\ creating' = creating \ {w}
  /\ queue' = QueuePopupPaint(queue, windows, w)
  /\ windows' = Retire(windows, Replaced(windows, w))
  /\ UNCHANGED <<windowOwners, below, regions, destroying, timers, pointer>>

(* finalizeDestroyedWindow                                                  *)
FinalizeDestroyedWindow(w, wasVisible) ==
  LET gone == [windows EXCEPT ![w].visible = FALSE, ![w].state = "destroyed"]
      parentPainted == IF wasVisible THEN QueueGuestPaint(queue, gone, windows[w].parent)
                       ELSE queue
      exposed == {v \in Windows : Visible(gone, v) /\ ~Covered(gone, below, v)}
  IN  /\ windows' = gone
      /\ regions' = Published(gone)
      /\ windowOwners' = [windowOwners EXCEPT ![w] = NoOwner]
      /\ timers' = timers \ {w}
      /\ pointer' = ForgetWindow(w)
      /\ queue' = IF wasVisible /\ windows[w].style = "full"
                  THEN PaintInOrder(parentPainted, gone, ParentsFirst(gone, exposed))
                  ELSE parentPainted
      /\ UNCHANGED <<below>>

(* WM_NCCREATE or WM_CREATE refuses, or the window was destroyed meanwhile  *)
CreateFails(w) ==
  /\ w \in creating
  /\ creating' = creating \ {w}
  /\ FinalizeDestroyedWindow(w, windows[w].visible)
  /\ UNCHANGED destroying

(* DestroyWindow up to WM_DESTROY                                           *)
DestroyWindow(w) ==
  /\ Live(windows, w)
  /\ \A d \in destroying : d.hwnd # w    \* a procedure does not destroy it again
  /\ queue' = Erase(queue, {m \in Queued(queue) : m.hwnd = w})
  /\ windows' = [windows EXCEPT ![w].visible = FALSE]
  /\ destroying' = destroying \cup {[hwnd |-> w, wasVisible |-> windows[w].visible]}
  /\ UNCHANGED <<windowOwners, below, regions, creating, timers, pointer>>

(* The continuation when WM_NCDESTROY has returned                          *)
DestroyComplete(d) ==
  /\ d \in destroying
  /\ destroying' = destroying \ {d}
  /\ FinalizeDestroyedWindow(d.hwnd, d.wasVisible)
  /\ UNCHANGED creating

(* ShowWindow                                                               *)
ShowWindow(w) ==
  /\ Live(windows, w)
  /\ windows' = [windows EXCEPT ![w].visible = TRUE]
  /\ below' = IF windows[w].visible THEN below ELSE Raise(below, windows, w)
  /\ queue' = IF windows[w].visible THEN queue
              ELSE Post(queue, windowOwners, Message(w, "show"))
  /\ regions' = Published(windows')
  /\ UNCHANGED <<windowOwners, creating, destroying, timers, pointer>>

HideWindow(w) ==
  LET hidden == [windows EXCEPT ![w].visible = FALSE]
      kept   == DiscardQueuedPointerMessages(DiscardQueuedWindowUpdateMessages(queue, w), w)
      posted == RepaintOwner(Post(kept, windowOwners, Message(w, "show")), hidden, below, w)
  IN
  /\ Live(windows, w)
  /\ windows' = hidden
  /\ queue' = IF ~windows[w].visible THEN kept
              ELSE IF windows[w].style = "full" THEN PaintAll(posted, hidden, Windows)
              ELSE posted
  /\ pointer' = ForgetStack(w)
  /\ regions' = Published(hidden)
  /\ UNCHANGED <<windowOwners, below, creating, destroying, timers>>

(* InvalidateRect with erase, or UpdateWindow where it only queues          *)
InvalidateRect(w) ==
  /\ Visible(windows, w)
  /\ queue' = QueueGuestPaint(queue, windows, w)
  /\ UNCHANGED <<windowVars, timers, pointer>>

----------------------------------------------------------------------------
(* Posting.                                                                 *)

PostUser(q, w) == Post(q, windowOwners, Message(w, "user"))

(* PostMessageW to a window: one that was destroyed still has its record.   *)
PostMessage(w) ==
  /\ windows[w].state # "none"
  /\ queue' = PostUser(queue, w)
  /\ UNCHANGED <<windowVars, timers, pointer>>

(* PostMessageW to hwnd 0xffff                                              *)
BroadcastMessage ==
  /\ queue' = ForEach(PostUser, queue,
                InHandleOrder({w \in Windows : /\ Live(windows, w)
                                               /\ windows[w].parent = NoWindow}))
  /\ UNCHANGED <<windowVars, timers, pointer>>

(* PostMessageW to hwnd 0: the caller's own queue                           *)
PostThreadMessage(t) ==
  /\ Runs(t)
  /\ queue' = PostBack(queue, windowOwners,
                [Message(NoWindow, "user") EXCEPT !.kind = "Thread"], t)
  /\ UNCHANGED <<windowVars, timers, pointer>>

PostQuitMessage ==
  /\ queue' = Post(queue, windowOwners, Message(NoWindow, "quit"))
  /\ UNCHANGED <<windowVars, timers, pointer>>

(* SendMessageW from t to a window of another thread, up to the park.  The  *)
(* owner comes from the window's record, which outlives windowOwners_.      *)
SendMessage(t, w) ==
  /\ Runs(t) /\ t # MainThread    \* the main thread calls the procedure itself
  /\ windows[w].ownerThread \notin {NoOwner, t}
  /\ queue' = PostBeforeFirstMatch(queue, windowOwners,
                [Message(w, "user") EXCEPT !.kind = "Sent", !.sender = t],
                {m \in Queued(queue) : m.sender = NoOwner})
  /\ UNCHANGED <<windowVars, timers, pointer>>

(* SetFocus                                                                 *)
SetFocus(w) ==
  /\ Live(windows, w)
  /\ pointer' = [pointer EXCEPT !.focused = w]
  /\ queue' = Post(queue, windowOwners, Message(w, "focus"))
  /\ UNCHANGED <<windowVars, timers>>

SetTimer(w) ==
  /\ w \in scene.timers \ timers
  /\ w = NoWindow \/ windows[w].state # "none"
  /\ timers' = timers \cup {w}
  /\ UNCHANGED <<queue, windowVars, pointer>>

KillTimer(w) ==
  /\ w \in timers
  /\ timers' = timers \ {w}
  /\ UNCHANGED <<queue, windowVars, pointer>>

(* enqueueDueTimers; due are the timers whose time has come                 *)
EnqueueDueTimers(q, due) ==
  LET post(acc, w) ==
        IF HasQueued(acc, w, "timer") THEN acc
        ELSE PostBack(acc, windowOwners,
                      [Message(w, "timer") EXCEPT !.kind = "Timer"], NoOwner)
  IN  ForEach(post, q, SetToSeq(due))

TimersFire(due) ==
  /\ queue' = EnqueueDueTimers(queue, due)
  /\ UNCHANGED <<windowVars, timers, pointer>>

----------------------------------------------------------------------------
(* Host input.                                                              *)

(* A remote or host key, to the focused window or the presenter's.          *)
HostKey(w) ==
  /\ Live(windows, w)
  /\ queue' = PostBack(queue, windowOwners, [Message(w, "key") EXCEPT !.kind = "Input"], NoOwner)
  /\ UNCHANGED <<windowVars, timers, pointer>>

(* compactQueuedPointerMotion: the last two moves of a window stay.         *)
CompactQueuedPointerMotion(q) ==
  LET later(m) == {i \in 1 .. Len(q.messages) :
                     /\ q.messages[i].what = "move" /\ q.messages[i].hwnd = m.hwnd
                     /\ \E j \in 1 .. i - 1 : q.messages[j] = m}
  IN  Erase(q, {m \in Queued(q) : m.what = "move" /\ Cardinality(later(m)) >= 2})

(* Mutant: a touch may begin while one is queued.                           *)
MoveQueued(q) == \E m \in Queued(q) : m.what = "move"

PointerQueued(q) == \E m \in Queued(q) : m.what \in Pointer

InputPriority(q) == {m \in Queued(q) : m.what \in Pointer \cup {"focus", "unfocus"}}

(* Mutant: input passes the messages of a window's creation.                *)
QueueInputFirst(q, w, what) ==
  PostAfterLeadingMatches(q, windowOwners, [Message(w, what) EXCEPT !.kind = "Input"],
                          InputPriority(q))

(* queueInputMessage: after the input already waiting at the head of the    *)
(* queue, or at the end while the window has yet to be created and shown.   *)
QueueInputMessage(q, w, what) ==
  LET input == [Message(w, what) EXCEPT !.kind = "Input"]
      lifecycle == MessagesOf(q, w, {"size", "show"}) # {}
  IN  CompactQueuedPointerMotion(
        IF lifecycle THEN PostBack(q, windowOwners, input, NoOwner)
        ELSE PostAfterLeadingMatches(q, windowOwners, input, InputPriority(q)))

(* canUseCapturedWindow                                                     *)
Usable(w) == \A v \in Chain(windows, w, Windows) : Live(windows, v) /\ v \in regions

(* windowAtPoint, which reads the published windows: w may be under a       *)
(* point.  Owned popups have no WS_POPUP style, so they are not modal.      *)
UnderPoint(w) ==
  LET live == {v \in Windows : Live(windows, v)}
  IN  /\ \A v \in Chain(windows, w, Children(windows) \cap live) \cap live : v \in regions
      /\ w \in regions
      /\ \A p \in regions \ {w} :
           windows[p].style = "full" => OwnedPopup(windows, w) /\ <<p, w>> \in below

(* queueHostMouseMessage.  hit is the window under the point; refused says  *)
(* that the point is outside a modal popup or that a move is too small.     *)
HostMouse(what, hit, refused) ==
  LET captured == what = "up" /\ pointer.capture # NoWindow
      lost     == captured /\ ~Usable(pointer.capture)
      target   == IF captured /\ ~lost THEN pointer.capture ELSE hit
      base     == [pointer EXCEPT !.held = what = "down" \/ (@ /\ what # "up"),
                                  !.capture = IF lost THEN NoWindow ELSE @]
      queued   == PointerQueued(queue)
      childUp  == base.pendingChildUp
      drop(p)  == pointer' = p /\ UNCHANGED queue
      focus(q) == IF base.focused = target THEN q
                  ELSE QueueInputMessage(
                         IF Live(windows, base.focused)
                         THEN QueueInputMessage(q, base.focused, "unfocus") ELSE q,
                         target, "focus")
      release(q) == IF Live(windows, childUp) THEN QueueInputMessage(q, childUp, "up") ELSE q
  IN
  /\ what = "down" <=> ~pointer.held
  /\ \/ /\ pointer.dropping
        /\ drop(IF what = "up" THEN [pointer EXCEPT !.held = FALSE, !.dropping = FALSE,
                                                    !.capture = NoWindow]
                ELSE [pointer EXCEPT !.held = TRUE])
     \/ /\ ~pointer.dropping /\ target = NoWindow
        /\ drop(base)
     \/ /\ ~pointer.dropping /\ target # NoWindow /\ queued /\ what = "down"
        /\ drop([base EXCEPT !.dropping = TRUE])
     \/ /\ ~pointer.dropping /\ target # NoWindow
        /\ \/ what = "move" /\ (queued \/ base.capture = NoWindow \/ refused)
           \/ what = "up" /\ base.capture = NoWindow /\ ~queued
           \/ what # "move" /\ refused /\ ~(queued /\ what = "down")
        /\ drop(IF what = "up" /\ base.capture = target
                THEN [base EXCEPT !.capture = NoWindow] ELSE base)
     \/ /\ ~pointer.dropping /\ target # NoWindow /\ ~refused
        /\ what = "down" /\ ~queued
        /\ queue' = QueueInputMessage(focus(queue), target, "down")
        /\ pointer' = [base EXCEPT !.capture = target, !.focused = target]
     \/ /\ ~pointer.dropping /\ target # NoWindow /\ ~refused
        /\ what = "move" /\ ~queued /\ base.capture # NoWindow
        /\ queue' = QueueInputMessage(queue, target, "move")
        /\ pointer' = base
     \/ /\ ~pointer.dropping /\ target # NoWindow /\ ~refused
        /\ what = "up" /\ (queued \/ base.capture # NoWindow)
        /\ queue' = QueueInputMessage(release(queue), target, "up")
        /\ pointer' = [base EXCEPT !.capture = NoWindow, !.pendingChildUp = NoWindow]
  /\ UNCHANGED <<windowVars, timers>>

(* SendMessageW(child, WM_LBUTTONDOWN, 0, 0) from the child's own thread,   *)
(* before the window procedure runs: the release that its parent is to get  *)
(* is mirrored to the child.                                                *)
SendButtonDown(w) ==
  LET releases == {m \in Queued(queue) : /\ m.what = "up" /\ m.hwnd # NoWindow
                                         /\ IsWindowOrDescendant(windows, w, m.hwnd)}
      input == [Message(w, "up") EXCEPT !.kind = "Input"]
  IN
  /\ Live(windows, w) /\ windows[w].style = "child"
  /\ IF ~HasQueued(queue, w, "up") /\ releases # {}
     THEN /\ queue' = PostBeforeFirstMatch(queue, windowOwners, input, releases)
          /\ pointer' = [pointer EXCEPT !.pendingChildUp = NoWindow]
     ELSE pointer' = [pointer EXCEPT !.pendingChildUp = w] /\ UNCHANGED queue
  /\ UNCHANGED <<windowVars, timers>>

----------------------------------------------------------------------------
(* Retrieval.                                                               *)

CoveredModalInput(m) ==
  /\ m.sender = NoOwner /\ m.what \in Pointer
  /\ m.hwnd # NoWindow /\ Covered(windows, below, m.hwnd)

(* The hwnds that pass the hwnd argument: all, those of a window and its    *)
(* children, or (0xffffffff) none but messages without a window.            *)
Filters ==
  {Windows \cup {NoWindow}, {NoWindow}} \cup
  {{v \in Windows : IsWindowOrDescendant(windows, v, w)} : w \in scene.windows}

(* GetMessageW, and PeekMessageW where it may leave the message: the timers *)
(* that are due are queued, input that a full-screen popup covers is thrown *)
(* away, and the first message for t that passes the filter is retrieved.   *)
GetMessage(t, filter, remove, due) ==
  LET timed == EnqueueDueTimers(queue, due)
      open  == IF ~remove THEN timed
               ELSE Erase(timed, {m \in Queued(timed) :
                                    /\ OwnerForMessage(timed, windowOwners, m) = t
                                    /\ CoveredModalInput(m)})
      found == FirstMatchingForOwner(open, windowOwners, t,
                 {m \in Queued(open) : m.hwnd \in filter /\ ~CoveredModalInput(m)})
  IN
  /\ Runs(t)
  /\ queue' = IF remove THEN Erase(open, found) ELSE open
  /\ UNCHANGED <<windowVars, timers, pointer>>

Parents == Windows \cup {NoWindow}

WindowCalls ==
  \/ \E t \in scene.owners, w \in scene.windows, s \in scene.styles,
        p \in scene.windows \cup {NoWindow} :
       \E v \in IF "show" \in scene.calls THEN BOOLEAN ELSE {TRUE} : CreateWindow(t, w, s, p, v)
  \/ \E w \in scene.windows : CreateComplete(w) \/ CreateFails(w) \/ DestroyWindow(w)
  \/ \E d \in destroying : DestroyComplete(d)

ShowCalls ==
  "show" \in scene.calls /\ \E w \in scene.windows : ShowWindow(w) \/ HideWindow(w)

PaintCalls ==
  "paint" \in scene.calls /\ \E w \in scene.windows : InvalidateRect(w)

PostCalls ==
  /\ "post" \in scene.calls
  /\ \/ \E w \in scene.windows : PostMessage(w) \/ SetFocus(w)
     \/ \E t \in scene.owners : PostThreadMessage(t)
     \/ BroadcastMessage
     \/ PostQuitMessage

SendCalls ==
  /\ "send" \in scene.calls
  /\ \/ \E t \in scene.owners, w \in scene.windows : SendMessage(t, w)
     \/ \E w \in scene.windows : SendButtonDown(w)

TimerCalls ==
  \/ \E w \in scene.timers : SetTimer(w) \/ KillTimer(w)
  \/ \E due \in SUBSET timers : TimersFire(due)

HostInput ==
  \/ "key" \in scene.calls /\ \E w \in scene.windows : HostKey(w)
  \/ /\ "touch" \in scene.calls
     /\ \E what \in Pointer, hit \in scene.windows \cup {NoWindow}, refused \in BOOLEAN :
          /\ hit # NoWindow => UnderPoint(hit)
          /\ HostMouse(what, hit, refused)

Retrieval ==
  \E t \in scene.owners, f \in Filters, r \in BOOLEAN, due \in SUBSET timers :
    GetMessage(t, f, r, due)

Next ==
  /\ \/ WindowCalls \/ ShowCalls \/ PaintCalls \/ PostCalls \/ SendCalls
     \/ TimerCalls \/ HostInput \/ Retrieval
  /\ UNCHANGED scene
  /\ Bounded

Spec == Init /\ [][Next]_vars

----------------------------------------------------------------------------
(* Properties.                                                              *)

(* The variables have their types; a message is queued once.                *)
TypeOK ==
  /\ queue.nextId \in 1 .. scene.messages + 1
  /\ \A m \in Queued(queue) :
       /\ m.id \in 1 .. queue.nextId - 1 /\ m.hwnd \in Parents
       /\ m.what \in Whats /\ m.kind \in Kinds /\ m.sender \in Owners \cup {NoOwner}
  /\ Cardinality({m.id : m \in Queued(queue)}) = Len(queue.messages)
  /\ windows \in [Windows -> WindowType]
  /\ windowOwners \in [Windows -> Owners \cup {NoOwner}]
  /\ regions \subseteq Windows /\ timers \subseteq scene.timers
  /\ pointer \in PointerType

(* The lanes mirror the flat queue: through every post, insertion, erasure  *)
(* and move to the front, a thread's lane of a kind holds exactly the       *)
(* queued messages of that kind whose recorded owner it is, and no owner is *)
(* remembered for a message that has left.                                  *)
LanesMirrorQueue ==
  /\ \A t \in Owners, k \in Kinds :
       queue.lanes[t][k] = {m.id : m \in {x \in Queued(queue) :
          x.kind = k /\ x.id \in DOMAIN queue.ownerOf /\ queue.ownerOf[x.id] = t}}
  /\ DOMAIN queue.ownerOf \subseteq {m.id : m \in Queued(queue)}

(* A thread in GetMessage is parked, and woken, by the size of its lanes,   *)
(* but messages are retrieved from the flat queue by their owner as it is   *)
(* then: whatever windows came and went in between, the two agree, so no    *)
(* thread sleeps on a message it could have and none wakes for nothing.     *)
WakeTestAgrees ==
  \A t \in Owners : HasMessagesForOwner(queue, t) <=>
    \E m \in Queued(queue) : OwnerForMessage(queue, windowOwners, m) = t

(* Posted messages of a window stay in the order they were posted, although *)
(* popups move whole windows to the front and input is put in between.      *)
PostedInOrder ==
  \A i, j \in 1 .. Len(queue.messages) :
    LET m == queue.messages[i]
        n == queue.messages[j]
    IN  i < j /\ m.hwnd = n.hwnd /\ m.kind = "Posted" /\ n.kind = "Posted" => m.id < n.id

(* Repainting coalesces: however often windows and popups ask for it, a     *)
(* window has one paint and one erase waiting.                              *)
Coalesced ==
  \A m, n \in Queued(queue) :
    m.hwnd = n.hwnd /\ m.what = n.what /\ m.what \in {"paint", "erase"} => m = n

(* Input backpressure: a touch is taken only when the queue holds nothing   *)
(* of an earlier one, so at most one button-down waits.                     *)
TouchesDoNotOverlap ==
  \A m, n \in Queued(queue) : m.what = "down" /\ n.what = "down" => m = n

(* Input is more urgent than painting, but a window is created, sized and   *)
(* shown first: a touch that was queued later than these does not overtake  *)
(* them, wherever popups and other input move it.  The release mirrored to  *)
(* a child is the exception: it goes before its parent's, wherever that is. *)
InputAfterLifecycle ==
  \A i, j \in 1 .. Len(queue.messages) :
    LET m == queue.messages[i]
        n == queue.messages[j]
        mirrored == m.what = "up" /\ windows[m.hwnd].style = "child"
    IN  i < j /\ m.hwnd = n.hwnd /\ m.what \in Pointer /\ n.what \in {"size", "show"}
          => m.id < n.id \/ mirrored

(* Every queued message is in the lane of some owner, as the documents say  *)
(* of posted, sent, input, timer and thread messages.                       *)
EveryMessageHasALane ==
  \A m \in Queued(queue) : \E t \in Owners : m.id \in queue.lanes[t][m.kind]
=============================================================================

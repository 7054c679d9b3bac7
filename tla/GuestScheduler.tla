--------------------------- MODULE GuestScheduler ---------------------------
(***************************************************************************)
(* Who has the one CPU: the switching of guest threads                     *)
(* (coredll_thread_runtime.cpp), the loop that runs the guest in slices    *)
(* (runHostMessageLoopUntilClosed), and the calls that run a window        *)
(* procedure or park their thread (SyntheticDllRuntime::dispatch).         *)
(*                                                                         *)
(* There is one set of CPU registers.  A thread that is not running is     *)
(* captured in its record, the main thread in mainThreadContext; nothing   *)
(* ties the registers to activeGuestThread but the order of these calls.   *)
(* A window procedure is made to return to a stub, and what the stub needs *)
(* to go on is the last entry of one list for all threads,                 *)
(* pendingMessageTransfers.                                                *)
(*                                                                         *)
(* A context is reduced to the thread whose stack it runs on (sp), to      *)
(* whether it is about to enter blockingApiContinuationStub_, and to       *)
(* whether it is the latest of its stack.  Whether a wait is over is left  *)
(* open at each look at it: the clock and other threads decide it          *)
(* (CeKernel has the waits, CeGwe the queue in detail).  Nor are windows    *)
(* told apart: which messages are for a window that is destroyed, and       *)
(* whether a message's window still is there, is left open too.             *)
(***************************************************************************)
EXTENDS Integers, SequencesExt

CONSTANTS
  Workers,       \* handles of the guest threads, in creation order
  WindowOwners,  \* the threads that have windows
  Calls,         \* which of OptionalCalls the guest makes
  MaxQueued,     \* bound on the messages in the queue
  MaxTransfers,  \* bound on the window procedures in progress
  MaxBlocking    \* bound on the waits of the main thread in progress

Main    == 0                   \* activeGuestThread_ = 0
Threads == Workers \cup {Main}
Nobody  == -1

OptionalCalls ==
  {"mainWait",       \* the main thread waits with WaitForSingleObject
   "waitInside",     \* workers wait, and any thread waits for messages, within
                     \* a window procedure (a modal loop)
   "sendToWorker",   \* SendMessage to another thread that is a worker
   "destroyWindow"}  \* DestroyWindow, and CloseHandle on a window's handle

ASSUME SchedulerAssumption ==
  /\ Workers \subseteq Nat \ {0} /\ IsFiniteSet(Workers)
  /\ WindowOwners \subseteq Threads
  /\ Calls \subseteq OptionalCalls
  /\ MaxQueued \in Nat /\ MaxTransfers \in Nat /\ MaxBlocking \in Nat

VARIABLES
  sched,      \* the registers, who they are taken to belong to, the rest captured
  queue,      \* CeGwe's messages, each [owner, sender]
  got,        \* the message a thread has retrieved and not dispatched yet
  transfers,  \* pendingMessageTransfers_
  blocking,   \* how many calls wait in pendingBlockingApis_
  procs,      \* window procedures in progress on each thread's stack
  phase,      \* "slice": uc_emu_start runs; "host": the loop around it
  quit,       \* quitPosted_
  made,       \* history: whether an optional call but "destroyWindow" was made
  unheard     \* history: the senders whose message was lost

vars == <<sched, queue, got, transfers, blocking, procs, phase, quit, made, unheard>>

RunStates == {"Runnable", "Running", "Waiting", "WaitingForMessage",
              "WaitingForSendMessage", "Terminated"}

Context == [sp : Threads, at : {"code", "wait"}, latest : BOOLEAN]

Start(t) == [sp |-> t, at |-> "code", latest |-> TRUE]

(* A message for a window that was destroyed has no owner.                  *)
Message == [owner : WindowOwners \cup {Nobody}, sender : Workers \cup {Nobody}]

Retrieved == [owner : WindowOwners, sender : Workers \cup {Nobody}]

Nothing == [owner |-> Nobody, sender |-> Nobody]

(* owner and sender are fields of PendingMessageTransfer, then is the       *)
(* address it returns to; caller, the stack it was made on, is history.     *)
(* The procedure of a window that was destroyed runs for no owner.          *)
Transfer == [owner : WindowOwners \cup {Nobody}, sender : Workers \cup {Nobody},
             then : {"code", "wait"}, caller : Threads]

----------------------------------------------------------------------------
(* Switching.  s stands for sched, q for queue, b for blocking.             *)

(* restoreGuestCpuContext: whatever else is captured of the stack is old.   *)
Load(s, context) ==
  LET aged(c) == IF c.sp = context.sp THEN [c EXCEPT !.latest = FALSE] ELSE c
  IN  [s EXCEPT !.cpu   = context,
                !.main  = aged(@),
                !.saved = [w \in Workers |-> aged(@[w])]]

(* The registers become the main thread's context.                          *)
CaptureMain(s) == [s EXCEPT !.main = s.cpu, !.mainValid = TRUE]

CaptureActive(s) ==
  [s EXCEPT !.saved[s.active] = s.cpu,
            !.runState[s.active] = IF @ = "Running" THEN "Runnable" ELSE @]

(* Mutant: the main thread's place is not captured anew.                    *)
SwitchWithoutCapture(s, w) ==
  LET parked == IF s.active = Main /\ ~s.mainValid THEN CaptureMain(s)
                ELSE IF s.active = Main THEN s ELSE CaptureActive(s)
  IN  Load([parked EXCEPT !.runState[w] = "Running", !.active = w, !.last = w],
           parked.saved[w])

(* switchToRunnableGuestThread: switchTo                                    *)
SwitchTo(s, w) ==
  LET parked == IF s.active = Main THEN CaptureMain(s) ELSE CaptureActive(s)
  IN  Load([parked EXCEPT !.runState[w] = "Running", !.active = w, !.last = w],
           parked.saved[w])

(* restoreMainThreadContextIfRunnable; the context stays as it is.          *)
RestoreMain(s) == IF s.mainValid THEN Load(s, s.main) ELSE s

Runnable(s) == {w \in Workers : s.runState[w] = "Runnable"}

(* Messages without an owner are passed over.                               *)
FirstOwned(q) == SelectInSeq(q, LAMBDA m : m.owner # Nobody)

OldestOwner(q) == IF FirstOwned(q) = 0 THEN Nobody ELSE q[FirstOwned(q)].owner

(* After lastScheduledGuestThread in handle order, and round.               *)
InTurn(s) ==
  LET later == {w \in Runnable(s) : w > s.last}
      first(S) == CHOOSE w \in S : \A v \in S : w <= v
  IN  first(IF later # {} THEN later ELSE Runnable(s))

MainOwnsOldest(s, q, b) == OldestOwner(q) = Main /\ b = 0 /\ s.active # Main

Switches(s, q, b) == MainOwnsOldest(s, q, b) \/ Runnable(s) # {}

(* switchToRunnableGuestThread: the owner of the oldest message, the        *)
(* preferred thread, or the next in turn.                                   *)
SwitchToRunnable(s, q, b, preferred) ==
  IF MainOwnsOldest(s, q, b)
  THEN RestoreMain([CaptureActive(s) EXCEPT !.active = Main])
  ELSE IF OldestOwner(q) \in Runnable(s) THEN SwitchTo(s, OldestOwner(q))
  ELSE IF preferred \in Runnable(s) THEN SwitchTo(s, preferred)
  ELSE IF Runnable(s) # {} THEN SwitchTo(s, InTurn(s))
  ELSE s

YieldActive(s, q, b) ==
  SwitchToRunnable(IF s.active = Main THEN s ELSE CaptureActive(s), q, b, Nobody)

(* hasSchedulableGweMessageOwner                                            *)
Schedulable(s, q, b) ==
  LET owner == OldestOwner(q) IN
  /\ owner \notin {Nobody, s.active}
  /\ IF owner = Main THEN b = 0 /\ s.mainValid ELSE owner \in Runnable(s)

(* The active worker leaves the CPU in a state from which something else    *)
(* must wake it.                                                            *)
ParkActive(s, state) ==
  [s EXCEPT !.saved[s.active] = s.cpu, !.runState[s.active] = state,
            !.active = Main]

WakeMessageWaiters(s, q) ==
  [s EXCEPT !.runState = [w \in Workers |->
     IF @[w] = "WaitingForMessage" /\ \E m \in ToSet(q) : m.owner = w
     THEN "Runnable" ELSE @[w]]]

----------------------------------------------------------------------------
(* The guest's calls.  Their code takes activeGuestThread for the caller.   *)
(* What a guest does that runs on another thread's registers is anybody's   *)
(* guess, and is not followed further.                                      *)

Guest(at) ==
  phase = "slice" /\ sched.cpu.at = at /\ sched.cpu.sp = sched.active /\ sched.cpu.latest

Caller == sched.active

Sp == sched.cpu.sp

(* The handler found nobody else to run: uc_emu_stop.                       *)
SwitchOrStop(s, q, b, preferred) ==
  /\ sched' = SwitchToRunnable(s, q, b, preferred)
  /\ phase' = IF Switches(s, q, b) THEN "slice" ELSE "host"

(* A worker's call parks it.  The main thread goes on where it was; when it *)
(* waits itself the loop takes over.                                        *)
Park(state) ==
  LET s == ParkActive(sched, state) IN
  IF blocking > 0
  THEN sched' = s /\ phase' = "host"
  ELSE /\ sched' = IF s.mainValid THEN RestoreMain(s)
                   ELSE SwitchToRunnable(s, queue, blocking, Nobody)
       /\ UNCHANGED phase

(* A window of thread o, as CeGwe's owner table has it: one that was        *)
(* destroyed is still in the table of windows, and belongs to nobody.       *)
OwnersNow(o) == IF "destroyWindow" \in Calls THEN {o, Nobody} ELSE {o}

(* The window's handle was closed: it is in no table any more.              *)
HandleClosed == "destroyWindow" \in Calls

(* What happens to a message loses the answer to its sender.                *)
Lose(senders) == unheard' = unheard \cup (senders \ {Nobody})

(* PostMessageW; a worker then gives way to an owner that can run.          *)
PostMessage(o) ==
  /\ Guest("code") /\ Len(queue) < MaxQueued
  /\ \E owner \in OwnersNow(o) : queue' = Append(queue, [owner |-> owner, sender |-> Nobody])
  /\ LET s == WakeMessageWaiters(sched, queue') IN
       sched' = IF Caller # Main /\ Schedulable(s, queue', blocking)
                THEN YieldActive(s, queue', blocking) ELSE s
  /\ UNCHANGED <<got, transfers, blocking, procs, phase, quit, made, unheard>>

FirstFor(t) == SelectInSeq(queue, LAMBDA m : m.owner = t)

(* GetMessageW with a message for the caller ...                            *)
GetMessage ==
  /\ Guest("code") /\ got[Sp] = Nothing
  /\ FirstFor(Caller) # 0
  /\ got' = [got EXCEPT ![Sp] = queue[FirstFor(Caller)]]
  /\ queue' = RemoveAt(queue, FirstFor(Caller))
  /\ UNCHANGED <<sched, transfers, blocking, procs, phase, quit, made, unheard>>

(* The guest makes one of the optional calls if done is TRUE.               *)
Make(call, done) ==
  /\ done => call \in Calls
  /\ made' = (made \/ done)

(* ... and without one; when quitting it returns 0 instead.                 *)
GetMessageBlocks ==
  /\ Guest("code") /\ got[Sp] = Nothing /\ ~quit
  /\ Make("waitInside", procs[Sp] > 0)
  /\ FirstFor(Caller) = 0
  /\ IF Caller = Main
     THEN SwitchOrStop(sched, queue, blocking, Nobody)
     ELSE LET s == ParkActive(sched, "WaitingForMessage") IN
          /\ sched' = IF s.mainValid THEN RestoreMain(s)
                      ELSE SwitchToRunnable(s, queue, blocking, Nobody)
          /\ UNCHANGED phase
  /\ UNCHANGED <<queue, got, transfers, blocking, procs, quit, unheard>>

(* Enter a window procedure on the stack of s.cpu.                          *)
Enter(s, owner, sender, then) ==
  /\ Len(transfers) < MaxTransfers
  /\ transfers' = Append(transfers, [owner |-> owner, sender |-> sender,
                                     then |-> then, caller |-> s.cpu.sp])
  /\ procs' = [procs EXCEPT ![s.cpu.sp] = @ + 1]
  /\ sched' = [s EXCEPT !.cpu.at = "code",
                        !.active = IF owner = Main THEN Main ELSE @]

(* DispatchMessageW; with its window's handle closed it returns at once,    *)
(* and forgets the sender.                                                  *)
DispatchMessage ==
  /\ Guest("code") /\ got[Sp] # Nothing
  /\ got' = [got EXCEPT ![Sp] = Nothing]
  /\ \/ /\ \E owner \in OwnersNow(got[Sp].owner) :
             Enter(sched, owner, got[Sp].sender, "code")
        /\ UNCHANGED unheard
     \/ /\ HandleClosed
        /\ Lose({got[Sp].sender})
        /\ UNCHANGED <<sched, transfers, procs>>
  /\ UNCHANGED <<queue, blocking, phase, quit, made>>

(* The guest dispatches no message it has retrieved, but has the next one   *)
(* written over it: retrievedSyncSendersByMsgPtr_ forgets the sender.       *)
Discard ==
  /\ Guest("code") /\ got[Sp] # Nothing
  /\ got' = [got EXCEPT ![Sp] = Nothing]
  /\ Lose({got[Sp].sender})
  /\ UNCHANGED <<sched, queue, transfers, blocking, procs, phase, quit, made>>

(* DestroyWindow of a window of thread o discards what is queued for it.    *)
(* step counts the messages that stay, which keep their order.              *)
DestroyWindow(o) ==
  /\ Guest("code") /\ "destroyWindow" \in Calls
  /\ \E n \in 0 .. Len(queue) : \E step \in [1 .. n -> 1 .. Len(queue)] :
       LET gone == (1 .. Len(queue)) \ {step[i] : i \in 1 .. n} IN
       /\ \A i, j \in 1 .. n : i < j => step[i] < step[j]
       /\ \A i \in gone : queue[i].owner = o
       /\ queue' = [i \in 1 .. n |-> queue[step[i]]]
       /\ Lose({queue[i].sender : i \in gone})
  /\ UNCHANGED <<sched, got, transfers, blocking, procs, phase, quit, made>>

(* SendMessageW by the main thread, or to a window of one's own             *)
SendMessageInline(o) ==
  /\ Guest("code")
  /\ Caller \in {Main, o} /\ Make("sendToWorker", o \notin {Main, Caller})
  /\ \E owner \in OwnersNow(o) : Enter(sched, owner, Nobody, "code")
  /\ UNCHANGED <<queue, got, blocking, phase, quit, unheard>>

(* SendMessageW by a worker to a window of another thread: the message goes *)
(* behind the sent ones, and its receiver is preferred.  If the window was  *)
(* destroyed the message is queued all the same, and nobody retrieves it.   *)
SendMessage(o) ==
  /\ Guest("code") /\ Len(queue) < MaxQueued
  /\ Caller \notin {Main, o} /\ Make("sendToWorker", o # Main)
  /\ LET posted == SelectInSeq(queue, LAMBDA m : m.sender = Nobody)
         place  == IF posted = 0 THEN Len(queue) + 1 ELSE posted
     IN  \E owner \in OwnersNow(o) :
           /\ queue' = InsertAt(queue, place, [owner |-> owner, sender |-> Caller])
           /\ Lose(IF owner = Nobody THEN {Caller} ELSE {})
  /\ LET s == ParkActive(WakeMessageWaiters(sched, queue'), "WaitingForSendMessage") IN
       sched' = IF o # Main /\ Switches(s, queue', blocking)
                THEN SwitchToRunnable(s, queue', blocking, o)
                ELSE IF s.mainValid THEN RestoreMain(s)
                ELSE SwitchToRunnable(s, queue', blocking, Nobody)
  /\ UNCHANGED <<got, transfers, blocking, procs, phase, quit>>

(* Mutant: the sender is forgotten.                                         *)
ReturnWithoutAnswer ==
  /\ Guest("code") /\ procs[Sp] > 0 /\ transfers # << >>
  /\ LET r == Last(transfers) IN
       sched' = [sched EXCEPT !.active = IF r.owner = Main THEN Main ELSE @,
                              !.cpu.at = r.then]
  /\ transfers' = Front(transfers)
  /\ procs' = [procs EXCEPT ![Sp] = @ - 1]
  /\ UNCHANGED <<queue, got, blocking, phase, quit, made, unheard>>

(* A window procedure returns to messageTransferContinuationStub_.          *)
Return ==
  /\ Guest("code") /\ procs[Sp] > 0 /\ transfers # << >>
  /\ LET r == Last(transfers)
         answered(w) == w = r.sender /\ sched.runState[w] = "WaitingForSendMessage"
     IN  sched' = [sched EXCEPT
           !.runState = [w \in Workers |-> IF answered(w) THEN "Runnable" ELSE @[w]],
           !.active   = IF r.owner = Main THEN Main ELSE @,
           !.cpu.at   = r.then]
  /\ transfers' = Front(transfers)
  /\ procs' = [procs EXCEPT ![Sp] = @ - 1]
  /\ UNCHANGED <<queue, got, blocking, phase, quit, made, unheard>>

(* Sleep and the waits of a worker                                          *)
WorkerWait ==
  /\ Guest("code") /\ Caller # Main
  /\ Make("waitInside", procs[Sp] > 0)
  /\ \E state \in {"Waiting", "Runnable"} : Park(state)    \* Sleep(0) does not wait
  /\ UNCHANGED <<queue, got, transfers, blocking, procs, quit, unheard>>

(* refreshSignaledGuestWaits finds a worker's wait over.                    *)
WaitOver(w) ==
  /\ sched.runState[w] = "Waiting"
  /\ sched' = [sched EXCEPT !.runState[w] = "Runnable"]
  /\ UNCHANGED <<queue, got, transfers, blocking, procs, phase, quit, made, unheard>>

(* The thread function returns to threadExitStub_, or calls ExitThread.     *)
(* When nobody else can run the stub takes it for the main thread's end;    *)
(* ExitThread returns to the ended thread.                                  *)
FinishActive ==
  /\ Guest("code") /\ Caller # Main /\ procs[Sp] = 0 /\ got[Sp] = Nothing
  /\ LET s == [ParkActive(sched, "Terminated") EXCEPT !.last = IF @ = Caller THEN 0 ELSE @]
         restored == blocking = 0 /\ s.mainValid
     IN  /\ sched' = IF restored THEN RestoreMain(s)
                     ELSE SwitchToRunnable(s, queue, blocking, Nobody)
         /\ \/ UNCHANGED <<phase, quit>>
            \/ /\ ~restored /\ ~Switches(s, queue, blocking)
               /\ phase' = "host" /\ quit' = TRUE
  /\ UNCHANGED <<queue, got, transfers, blocking, procs, made, unheard>>

----------------------------------------------------------------------------
(* The main thread's WaitForSingleObject.                                   *)

FirstSentToMain == SelectInSeq(queue, LAMBDA m : m.owner = Main /\ m.sender # Nobody)

(* Mutant: the procedure's return finds no sender to answer.                *)
HandleUnanswered(s) ==
  /\ FirstSentToMain # 0
  /\ Enter([s EXCEPT !.active = Main], Main, Nobody, "wait")
  /\ queue' = RemoveAt(queue, FirstSentToMain)
  /\ UNCHANGED <<phase, unheard>>

(* dispatchReceivedSendForMainWait: the message is handled ...              *)
HandleSent(s) ==
  /\ FirstSentToMain # 0
  /\ Enter([s EXCEPT !.active = Main], Main, queue[FirstSentToMain].sender, "wait")
  /\ queue' = RemoveAt(queue, FirstSentToMain)
  /\ UNCHANGED <<phase, unheard>>

(* ... or dropped, its window's handle being closed.                        *)
DropSent ==
  /\ FirstSentToMain # 0 /\ HandleClosed
  /\ queue' = RemoveAt(queue, FirstSentToMain)
  /\ Lose({queue[FirstSentToMain].sender})

NothingSent ==
  /\ FirstSentToMain = 0
  /\ UNCHANGED <<queue, unheard>>

(* The main thread waits: it handles a sent message, or somebody else runs. *)
WaitForMain(b, preferred) ==
  LET s == CaptureMain([sched EXCEPT !.cpu.at = "wait"]) IN
  \/ HandleSent(s)
  \/ /\ DropSent \/ NothingSent
     /\ SwitchOrStop(s, queue', b, preferred)
     /\ UNCHANGED <<transfers, procs>>

MainWait ==
  /\ Guest("code") /\ Caller = Main /\ blocking < MaxBlocking /\ Make("mainWait", TRUE)
  /\ blocking' = blocking + 1
  /\ \E thread \in Workers \cup {Nobody} :    \* the object, where it is a thread
       WaitForMain(blocking + 1, thread)
  /\ UNCHANGED <<got, quit>>

(* blockingApiContinuationStub_: the wait is over ...                       *)
WaitReturns ==
  /\ Guest("wait") /\ blocking > 0
  /\ blocking' = blocking - 1
  /\ LET s == [sched EXCEPT !.cpu.at = "code"] IN
       sched' = IF Caller # Main THEN YieldActive(s, queue, blocking - 1) ELSE s
  /\ UNCHANGED <<queue, got, transfers, procs, phase, quit, made, unheard>>

(* ... or not.                                                              *)
WaitGoesOn ==
  /\ Guest("wait") /\ blocking > 0
  /\ WaitForMain(blocking, Nobody)
  /\ UNCHANGED <<got, blocking, quit, made>>

----------------------------------------------------------------------------
(* runHostMessageLoopUntilClosed.                                           *)

(* The slice's time or budget is used up.                                   *)
SliceEnds ==
  /\ phase = "slice"
  /\ sched' = IF Caller # Main THEN YieldActive(sched, queue, blocking)
              ELSE CaptureMain(sched)
  /\ phase' = "host"
  /\ UNCHANGED <<queue, got, transfers, blocking, procs, quit, made, unheard>>

(* Input arrives and stops the slice, or a timer is due and does not.       *)
HostInput(o) ==
  /\ Len(queue) < MaxQueued
  /\ queue' = Append(queue, [owner |-> o, sender |-> Nobody])
  /\ phase' \in {phase, "host"}
  /\ UNCHANGED <<sched, got, transfers, blocking, procs, quit, made, unheard>>

(* Mutant: the wait that is over was not looked for among the pending.      *)
ResumeMainUnchecked ==
  /\ phase = "host" /\ Caller = Main /\ sched.mainValid
  /\ sched' = [Load(sched, sched.main) EXCEPT !.mainValid = FALSE, !.cpu.at = "code"]
  /\ blocking' = blocking - 1
  /\ phase' = "slice"
  /\ UNCHANGED <<queue, got, transfers, procs, quit, made, unheard>>

(* completeReadyPendingBlockingMainContinuation; the context is used up.    *)
ResumeReadyMain ==
  /\ phase = "host" /\ Caller = Main /\ blocking > 0 /\ sched.mainValid
  /\ sched' = [Load(sched, sched.main) EXCEPT !.mainValid = FALSE, !.cpu.at = "code"]
  /\ blocking' = blocking - 1
  /\ phase' = "slice"
  /\ UNCHANGED <<queue, got, transfers, procs, quit, made, unheard>>

(* With the main thread parked a worker runs, or nothing does.              *)
RunWorker(s) ==
  LET t == IF s.active = Main THEN SwitchToRunnable(s, queue, blocking, Nobody) ELSE s
  IN  sched' = t /\ phase' = IF t.active # Main THEN "slice" ELSE "host"

TransferOwner == Last(transfers).owner

MainParkedInWait == blocking > 0 /\ sched.main.at = "wait"

(* Mutant: with no message queued, as if no window procedure was in progress. *)
RunAnyone ==
  /\ phase = "host" /\ transfers # << >>
  /\ ~(TransferOwner = Main /\ MainParkedInWait)
  /\ sched' = IF Caller = Main THEN SwitchToRunnable(sched, queue, blocking, Nobody)
              ELSE sched
  /\ phase' = "slice"
  /\ UNCHANGED <<queue, got, transfers, blocking, procs, quit, made, unheard>>

(* A window procedure is in progress: its owner runs, if it has one ...     *)
RunTransferOwner ==
  /\ phase = "host" /\ transfers # << >>
  /\ ~(TransferOwner = Main /\ MainParkedInWait)
  /\ sched' = IF TransferOwner = Main
              THEN IF Caller = Main THEN sched
                   ELSE RestoreMain([CaptureActive(sched) EXCEPT !.active = Main])
              ELSE IF TransferOwner \in {Nobody, Caller} THEN sched
              ELSE SwitchToRunnable(sched, queue, blocking, TransferOwner)
  /\ phase' = "slice"
  /\ UNCHANGED <<queue, got, transfers, blocking, procs, quit, made, unheard>>

(* ... unless it is the main thread and waits.                              *)
RunWhileOwnerWaits ==
  /\ phase = "host" /\ transfers # << >>
  /\ TransferOwner = Main /\ MainParkedInWait
  /\ RunWorker(sched)
  /\ UNCHANGED <<queue, got, transfers, blocking, procs, quit, made, unheard>>

(* Messages are queued.                                                     *)
RunForMessages ==
  /\ phase = "host" /\ transfers = << >> /\ queue # << >>
  /\ IF blocking > 0 /\ OldestOwner(queue) = Main
     THEN RunWorker(sched)
     ELSE /\ sched' = IF /\ Caller # Main /\ OldestOwner(queue) # Caller
                         /\ Schedulable(sched, queue, blocking)
                      THEN YieldActive(sched, queue, blocking) ELSE sched
          /\ phase' = "slice"
  /\ UNCHANGED <<queue, got, transfers, blocking, procs, quit, made, unheard>>

RunIdle ==
  /\ phase = "host" /\ transfers = << >> /\ queue = << >>
  /\ sched' = IF Caller = Main THEN SwitchToRunnable(sched, queue, blocking, Nobody)
              ELSE sched
  /\ phase' = "slice"
  /\ UNCHANGED <<queue, got, transfers, blocking, procs, quit, made, unheard>>

----------------------------------------------------------------------------
Init ==
  /\ sched = [cpu |-> Start(Main), active |-> Main, last |-> 0,
              main |-> [Start(Main) EXCEPT !.latest = FALSE], mainValid |-> FALSE,
              saved |-> [w \in Workers |-> Start(w)],
              runState |-> [w \in Workers |-> "Runnable"]]
  /\ queue = << >> /\ transfers = << >> /\ blocking = 0
  /\ got = [t \in Threads |-> Nothing]
  /\ procs = [t \in Threads |-> 0]
  /\ phase = "host" /\ quit = FALSE /\ made = FALSE
  /\ unheard = {}

MessageCalls ==
  \/ \E o \in WindowOwners : PostMessage(o) \/ SendMessageInline(o) \/ SendMessage(o)
  \/ \E o \in WindowOwners : DestroyWindow(o)
  \/ GetMessage \/ GetMessageBlocks \/ DispatchMessage \/ Discard \/ Return

ThreadCalls ==
  \/ WorkerWait \/ FinishActive
  \/ \E w \in Workers : WaitOver(w)
  \/ MainWait \/ WaitReturns \/ WaitGoesOn

HostLoop ==
  \/ SliceEnds \/ ResumeReadyMain
  \/ \E o \in WindowOwners : HostInput(o)
  \/ RunTransferOwner \/ RunWhileOwnerWaits \/ RunForMessages \/ RunIdle

Next == MessageCalls \/ ThreadCalls \/ HostLoop

Spec == Init /\ [][Next]_vars

----------------------------------------------------------------------------
(* Properties.                                                              *)

(* Every variable has its type.                                             *)
TypeOK ==
  /\ sched \in [cpu : Context, active : Threads, last : Workers \cup {0},
                main : Context, mainValid : BOOLEAN,
                saved : [Workers -> Context], runState : [Workers -> RunStates]]
  /\ queue \in Seq(Message) /\ transfers \in Seq(Transfer)
  /\ blocking \in 0 .. MaxBlocking
  /\ got \in [Threads -> Retrieved \cup {Nothing}]
  /\ unheard \in SUBSET Workers
  /\ procs \in [Threads -> 0 .. MaxTransfers]
  /\ phase \in {"slice", "host"} /\ quit \in BOOLEAN /\ made \in BOOLEAN

(* As long as none of the optional calls is made, DestroyWindow and closing *)
(* a window's handle excepted, switching neither loses a thread's place nor *)
(* mixes two up: the registers belong to the active thread, and every other *)
(* thread that has not ended is captured, by its own record, where it last  *)
(* was.                                                                     *)
EveryContextKept == ~made =>
  /\ sched.cpu.sp = sched.active /\ sched.cpu.latest
  /\ sched.active # Main => sched.mainValid /\ sched.main.sp = Main /\ sched.main.latest
  /\ \A w \in Workers \ {sched.active} : sched.runState[w] # "Terminated" =>
       sched.saved[w].sp = w /\ sched.saved[w].latest

(* As long as none of the optional calls is made, those on windows excepted,*)
(* and one worker at most has windows, a window procedure returns to the    *)
(* call that entered it, however the threads between whose procedures the   *)
(* one list is shared are switched.                                         *)
(* With two such workers SwitchToRunnable's preference for the owner of the *)
(* oldest message lets each return into the other's call.                   *)
ReturnsToCaller ==
  [][(~made /\ Cardinality(WindowOwners \ {Main}) <= 1 /\ Len(transfers') < Len(transfers))
       => Last(transfers).caller = sched.cpu.sp]_vars

(* A thread that waits for the answer to a message it has sent has that     *)
(* message on its way exactly once: queued for a thread, retrieved, or being*)
(* handled; so no switch, wait or return loses one or answers it twice.  The*)
(* others that wait, in vain, are known: what they sent was queued for a    *)
(* window already destroyed or discarded with one, found its window's handle*)
(* closed, or was not dispatched by the guest.                              *)
SendersAwaited ==
  \A w \in Workers :
    Cardinality({i \in 1 .. Len(queue) : queue[i].sender = w /\ queue[i].owner # Nobody}) +
    Cardinality({t \in Threads : got[t].sender = w}) +
    Cardinality({i \in 1 .. Len(transfers) : transfers[i].sender = w})
      = IF sched.runState[w] = "WaitingForSendMessage" /\ w \notin unheard THEN 1 ELSE 0

(* KNOWN_BUGS.md and PROGRESS.md: a worker that parks while the main thread *)
(* waits leaves the loop to resume the main thread or choose another        *)
(* worker, and no worker's context is turned into the main thread's.        *)
MainContextIsMains == sched.mainValid => sched.main.sp = Main
=============================================================================

------------------------------ MODULE CeKernel ------------------------------
(***************************************************************************)
(* The synthetic kernel's threads, events and waits: CeKernel              *)
(* (ce_kernel.cpp), the thread runtime on top of it                        *)
(* (coredll_thread_runtime.cpp), and the coredll calls that create, wait   *)
(* for and signal them (coredll_thread.cpp, synthetic_dll.cpp).            *)
(*                                                                         *)
(* Everything runs on one host thread: the guest's main context, which has *)
(* no thread record, and guest threads that the runtime switches between.  *)
(* A call that must wait parks its thread and leaves it to                 *)
(* refreshSignaledWaits, a loop over the threads in handle order, to find  *)
(* out later that the wait is over.  Each turn of that loop is a step      *)
(* here; no guest code and no other handler runs until the loop is done.   *)
(*                                                                         *)
(* Which runnable thread is switched to is left open (GuestScheduler has   *)
(* the choice the code makes), and a message queue is reduced to whether   *)
(* it is empty (CeGwe has the queues).                                     *)
(***************************************************************************)
EXTENDS Integers, Sequences

CONSTANTS
  MaxThreads,         \* bound on the threads the guest creates
  Events,             \* the events the guest may create
  ManualReset,        \* those of them created with manual reset
  MultiWaits,         \* arguments of the multiple-object waits, [handles, all]
  Receivers,          \* bound: the contexts that messages are sent to
  NoHandle            \* no handle

Threads == 1 .. MaxThreads    \* thread handles, in creation order
Main    == 0                  \* the main context: no active guest thread
Handles == Threads \cup Events

MaxWaitObjects == 64          \* readGuestWaitHandles takes no more

ASSUME KernelAssumption ==
  /\ MaxThreads \in Nat
  /\ Events \cap (Threads \cup {Main}) = {}
  /\ ManualReset \subseteq Events
  /\ Receivers \subseteq Threads \cup {Main}
  /\ NoHandle \notin Handles
  /\ \A w \in MultiWaits : w.handles \in Seq(Handles) /\ w.all \in BOOLEAN
                           /\ Len(w.handles) <= MaxWaitObjects

VARIABLES
  made,         \* handles made so far; a handle is never made twice
  open,         \* guestHandles_: those not closed
  signaled,     \* events whose eventSignaled is set
  runState,     \* guestThreads_: state; "None" when there is no record
  suspendCount,
  wait,         \* waitHandle(s), waitAll, waitForMessages, waitTimeoutResult
  deadline,     \* sleepUntilMs: "none" (0), "ahead" or "past"
  v0,           \* the result register in the thread's saved context
  active,       \* activeGuestThread_, 0 when the main context runs
  mainWait,     \* pendingBlockingApis_: what the main context waits for
  mainDeadline,
  mail,         \* the owners with a message in their queue
  scan,         \* the refresh in progress
  lastWait,     \* history: how each thread last parked
  granted       \* history: waits that an event satisfied, and that would reset
                \* it were it auto-reset, since it was last set

vars == <<made, open, signaled, runState, suspendCount, wait, deadline, v0,
          active, mainWait, mainDeadline, mail, scan, lastWait, granted>>

threadVars  == <<runState, suspendCount, wait, deadline, v0, lastWait>>
objectVars  == <<made, open, signaled, granted>>
contextVars == <<active, mainWait, mainDeadline>>

RunStates == {"None", "Suspended", "Runnable", "Running", "Waiting",
              "WaitingForMessage", "Terminated"}

WaitObject0 == 0
WaitTimeout == 258
WaitFailed  == -1

Sleeping == [handles |-> << >>, all |-> FALSE, msgs |-> FALSE, onTimeout |-> 0]

(* The wait of a call that returns WAIT_TIMEOUT when its time is up.        *)
WaitFor(handles, all, msgs) ==
  [handles |-> handles, all |-> all, msgs |-> msgs, onTimeout |-> WaitTimeout]

NoScan == [next |-> 0, then |-> "return", event |-> NoHandle]

----------------------------------------------------------------------------
(* Handles: queryWaitObject and consumeAutoResetEvent.                      *)

Missing(h) == h \notin open

(* Mutant: a thread object is signaled once the thread's record is gone.    *)
ReadyOnceErased(h) ==
  IF h \in Events THEN h \in signaled ELSE runState[h] = "None"

(* A thread object is signaled when its thread is terminated or erased.     *)
Ready(h) ==
  IF h \in Events THEN h \in signaled
                  ELSE runState[h] \in {"None", "Terminated"}

(* queryWaitObjects over a sequence of handles: wait-all fails on a missing *)
(* handle anywhere, wait-any on one that comes before any ready one.        *)
Decided(w, i) ==
  \/ Missing(w.handles[i])
  \/ ~w.all /\ Ready(w.handles[i])

FirstDecided(w, i) ==
  /\ Decided(w, i)
  /\ \A j \in 1 .. (i - 1) : ~Decided(w, j)

Undecided(w) == \A i \in DOMAIN w.handles : ~Decided(w, i)

AllReady(w) ==
  /\ w.all
  /\ \A i \in DOMAIN w.handles : ~Missing(w.handles[i]) /\ Ready(w.handles[i])

(* queryWaitObjects returns WAIT_TIMEOUT.                                   *)
NotSatisfied(w) == Undecided(w) /\ ~AllReady(w)

(* The events whose state satisfied the wait: the one at i, or all.         *)
Deciding(w, i) == {w.handles[i]} \cap Events
EventsOf(w)    == {w.handles[i] : i \in DOMAIN w.handles} \cap Events

AutoReset(es) == es \ ManualReset

(* History: the events in es have satisfied one more wait (2 stands for     *)
(* "more than one").                                                        *)
Grant(es) ==
  granted' = [e \in Events |->
    IF e \in es /\ granted[e] < 2 THEN granted[e] + 1 ELSE granted[e]]

(* Mutant: the event is left signaled.                                      *)
ConsumeNothing(es) ==
  /\ signaled' = signaled
  /\ Grant(es)

(* A wait that es satisfied resets those of them with automatic reset.      *)
Consume(es) ==
  /\ signaled' = signaled \ AutoReset(es)
  /\ Grant(es)

----------------------------------------------------------------------------
(* The refresh loop.                                                        *)

Idle == scan.next = 0

(* Mutant: the first thread is skipped.                                     *)
RefreshFromSecond(then) ==
  scan' = [next |-> 2, then |-> then, event |-> NoHandle]

(* Call refreshSignaledWaits, and then do the rest of the handler.          *)
Refresh(then) == scan' = [next |-> 1, then |-> then, event |-> NoHandle]

(* Thread t is made runnable and will see result in v0.  The deadline stays *)
(* as it is, except where time is what ended the wait.                      *)
Wake(t, result) ==
  /\ runState' = [runState EXCEPT ![t] = "Runnable"]
  /\ wait' = [wait EXCEPT ![t] = Sleeping]
  /\ v0' = [v0 EXCEPT ![t] = result]

(* Mutant: a thread with no object to wait for is passed over first.        *)
TimeUpOfWaits(t) == deadline[t] = "past" /\ wait[t].handles # << >>

TimeUp(t) == deadline[t] = "past"

(* Sleep and finite waits whose time is up; this comes before readiness.    *)
Expire(t) ==
  /\ TimeUp(t)
  /\ Wake(t, wait[t].onTimeout)
  /\ deadline' = [deadline EXCEPT ![t] = "none"]
  /\ UNCHANGED <<signaled, granted>>

(* A message wait, or a wait for any of several objects, whose owner has    *)
(* messages: the latter is given WAIT_OBJECT_0, as if its first object were *)
(* the queue's event.                                                       *)
WakeForMessage(t) ==
  LET w == wait[t] IN
  /\ ~TimeUp(t)
  /\ t \in mail
  /\ w.msgs \/ (~w.all /\ Len(w.handles) > 1)
  /\ Wake(t, IF w.msgs THEN WaitObject0 + Len(w.handles) ELSE WaitObject0)
  /\ UNCHANGED <<deadline, signaled, granted>>

HasMail(t) ==
  t \in mail /\ (wait[t].msgs \/ (~wait[t].all /\ Len(wait[t].handles) > 1))

(* The first object that decides the wait: a missing one fails it.          *)
WakeForObject(t) ==
  LET w == wait[t] IN
  /\ ~TimeUp(t) /\ ~HasMail(t)
  /\ \E i \in DOMAIN w.handles :
       /\ FirstDecided(w, i)
       /\ IF Missing(w.handles[i])
          THEN Wake(t, WaitFailed) /\ UNCHANGED <<signaled, granted>>
          ELSE Wake(t, WaitObject0 + i - 1) /\ Consume(Deciding(w, i))
  /\ UNCHANGED deadline

WakeForAll(t) ==
  LET w == wait[t] IN
  /\ ~TimeUp(t) /\ ~HasMail(t)
  /\ w.handles # << >>
  /\ AllReady(w)
  /\ Wake(t, WaitObject0)
  /\ Consume(EventsOf(w))
  /\ UNCHANGED deadline

StayParked(t) ==
  /\ ~TimeUp(t) /\ ~HasMail(t)
  /\ NotSatisfied(wait[t]) \/ wait[t].handles = << >>
  /\ UNCHANGED <<runState, wait, deadline, v0, signaled, granted>>

(* One turn of the loop in refreshSignaledWaits.                            *)
RefreshThread ==
  /\ scan.next \in Threads
  /\ LET t == scan.next IN
       IF runState[t] # "Waiting"
       THEN UNCHANGED <<runState, wait, deadline, v0, signaled, granted>>
       ELSE \/ Expire(t)
            \/ WakeForMessage(t)
            \/ WakeForObject(t)
            \/ WakeForAll(t)
            \/ StayParked(t)
  /\ scan' = [scan EXCEPT !.next = @ + 1]
  /\ UNCHANGED <<made, open, suspendCount, lastWait, mail, contextVars>>

Refreshed == scan.next = MaxThreads + 1

ReturnFromRefresh ==
  /\ Refreshed /\ scan.then = "return"
  /\ scan' = NoScan
  /\ UNCHANGED <<objectVars, threadVars, contextVars, mail>>

(* The rest of PulseEvent.                                                  *)
EndPulse ==
  /\ Refreshed /\ scan.then = "unpulse"
  /\ signaled' = signaled \ {scan.event}
  /\ scan' = NoScan
  /\ UNCHANGED <<made, open, granted, threadVars, contextVars, mail>>

(* wakeThreadsWaitingForMessage: every thread parked in GetMessageW whose   *)
(* own queue has messages.                                                  *)
WakeMessageWaiters ==
  /\ Refreshed /\ scan.then = "wake"
  /\ runState' = [t \in Threads |->
       IF runState[t] = "WaitingForMessage" /\ t \in mail
       THEN "Runnable" ELSE runState[t]]
  /\ scan' = NoScan
  /\ UNCHANGED <<suspendCount, wait, deadline, v0, lastWait, objectVars,
                 contextVars, mail>>

(* switchToRunnableGuestThread gives the CPU to a runnable thread ...       *)
SwitchTo(t) ==
  /\ Refreshed /\ scan.then = "switch"
  /\ runState[t] = "Runnable"
  /\ runState' = [u \in Threads |->
       IF u = t THEN "Running"
       ELSE IF u = active /\ runState[u] = "Running" THEN "Runnable"
       ELSE runState[u]]
  /\ active' = t
  /\ v0' = [v0 EXCEPT ![t] = 0]             \* now in the CPU's register
  /\ lastWait' = [lastWait EXCEPT ![t] = "none"]
  /\ scan' = NoScan
  /\ UNCHANGED <<suspendCount, wait, deadline, objectVars, mainWait,
                 mainDeadline, mail>>

(* ... or back to the main context when that owns the oldest message and is *)
(* not parked ...                                                           *)
SwitchToMain ==
  /\ Refreshed /\ scan.then = "switch"
  /\ Main \in mail /\ mainWait = NoHandle /\ active # Main
  /\ runState' = [runState EXCEPT ![active] =
       IF @ = "Running" THEN "Runnable" ELSE @]
  /\ active' = Main
  /\ scan' = NoScan
  /\ UNCHANGED <<suspendCount, wait, deadline, v0, lastWait, objectVars,
                 mainWait, mainDeadline, mail>>

(* ... or to nobody.                                                        *)
NothingToRun ==
  /\ Refreshed /\ scan.then = "switch"
  /\ \A t \in Threads : runState[t] # "Runnable"
  /\ scan' = NoScan
  /\ UNCHANGED <<objectVars, threadVars, contextVars, mail>>

----------------------------------------------------------------------------
(* The calls.  Guest(c): context c is executing guest code.                 *)

Guest(c) ==
  /\ Idle
  /\ active = c
  /\ c = Main => mainWait = NoHandle

(* Mutant: the parked thread stays the active one.                          *)
ParkButActive(state) ==
  /\ runState' = [runState EXCEPT ![active] = state]
  /\ UNCHANGED contextVars

(* The calling thread is set aside; the main context is restored, or, when  *)
(* that is parked, the host loop takes over.                                *)
ParkActive(state) ==
  /\ runState' = [runState EXCEPT ![active] = state]
  /\ active' = Main
  /\ UNCHANGED <<mainWait, mainDeadline>>

(* A starter call yields only in the main context.                          *)
YieldIfMain ==
  IF active = Main THEN Refresh("switch") ELSE UNCHANGED scan

CreateThread(suspended) ==
  /\ \E c \in Threads \cup {Main} : Guest(c)
  /\ \E t \in Threads \ made :
       /\ \A u \in Threads \ made : t <= u
       /\ made' = made \cup {t}
       /\ open' = open \cup {t}
       /\ suspendCount' = [suspendCount EXCEPT ![t] = IF suspended THEN 1 ELSE 0]
       /\ runState' = [runState EXCEPT ![t] =
            IF suspended THEN "Suspended" ELSE "Runnable"]
  /\ YieldIfMain
  /\ UNCHANGED <<signaled, granted, wait, deadline, v0, lastWait, contextVars,
                 mail>>

(* Mutant: the count is taken below zero.                                   *)
ResumeUnchecked(t) ==
  /\ \E c \in Threads \cup {Main} : Guest(c)
  /\ t \in open
  /\ runState[t] \notin {"None", "Terminated"}
  /\ suspendCount' = [suspendCount EXCEPT ![t] = @ - 1]
  /\ runState' = [runState EXCEPT ![t] =
       IF @ = "Suspended" /\ suspendCount[t] <= 1 THEN "Runnable" ELSE @]
  /\ YieldIfMain
  /\ UNCHANGED <<objectVars, wait, deadline, v0, lastWait, contextVars, mail>>

ResumeThread(t) ==
  /\ \E c \in Threads \cup {Main} : Guest(c)
  /\ t \in open
  /\ runState[t] \notin {"None", "Terminated"}
  /\ suspendCount' = [suspendCount EXCEPT ![t] = IF @ > 0 THEN @ - 1 ELSE 0]
  /\ runState' = [runState EXCEPT ![t] =
       IF @ = "Suspended" /\ suspendCount[t] <= 1 THEN "Runnable" ELSE @]
  /\ YieldIfMain
  /\ UNCHANGED <<objectVars, wait, deadline, v0, lastWait, contextVars, mail>>

(* finishActiveGuestThread, from ExitThread or by returning through the     *)
(* thread-exit stub.                                                        *)
ExitThread ==
  /\ \E c \in Threads : Guest(c)
  /\ ParkActive("Terminated")
  /\ IF mainWait = NoHandle THEN UNCHANGED scan ELSE Refresh("switch")
  /\ UNCHANGED <<objectVars, suspendCount, wait, deadline, v0, lastWait, mail>>

(* CloseHandle frees a terminated thread; a live one runs on without handle.*)
CloseHandle(h) ==
  /\ \E c \in Threads \cup {Main} : Guest(c)
  /\ h \in open
  /\ open' = open \ {h}
  /\ runState' = [t \in Threads |->
       IF t = h /\ runState[t] = "Terminated" THEN "None" ELSE runState[t]]
  /\ UNCHANGED <<made, signaled, granted, suspendCount, wait, deadline, v0,
                 lastWait, contextVars, mail, scan>>

CreateEvent(e, initial) ==
  /\ \E c \in Threads \cup {Main} : Guest(c)
  /\ e \notin made
  /\ made' = made \cup {e}
  /\ open' = open \cup {e}
  /\ signaled' = IF initial THEN signaled \cup {e} ELSE signaled
  /\ UNCHANGED <<granted, threadVars, contextVars, mail, scan>>

(* EventModify(3).                                                          *)
SetEvent(e) ==
  /\ \E c \in Threads \cup {Main} : Guest(c)
  /\ e \in open
  /\ signaled' = signaled \cup {e}
  /\ granted' = [granted EXCEPT ![e] = 0]
  /\ Refresh("return")
  /\ UNCHANGED <<made, open, threadVars, contextVars, mail>>

(* EventModify(2).                                                          *)
ResetEvent(e) ==
  /\ \E c \in Threads \cup {Main} : Guest(c)
  /\ e \in open
  /\ signaled' = signaled \ {e}
  /\ UNCHANGED <<made, open, granted, threadVars, contextVars, mail, scan>>

(* EventModify(1): set, let the parked threads see it, reset.               *)
PulseEvent(e) ==
  /\ \E c \in Threads \cup {Main} : Guest(c)
  /\ e \in open
  /\ signaled' = signaled \cup {e}
  /\ granted' = [granted EXCEPT ![e] = 0]
  /\ scan' = [next |-> 1, then |-> "unpulse", event |-> e]
  /\ UNCHANGED <<made, open, threadVars, contextVars, mail>>

(* WaitForSingleObject on a ready object, in any context.                   *)
WaitSingleReady(h) ==
  /\ \E c \in Threads \cup {Main} : Guest(c)
  /\ ~Missing(h) /\ Ready(h)
  /\ Consume({h} \cap Events)
  /\ UNCHANGED <<made, open, threadVars, contextVars, mail, scan>>

(* Mutant: sleepUntilMs is written only for a finite timeout.               *)
DeadlineIfFinite(finite) ==
  IF finite THEN "ahead"
  ELSE IF active = Main THEN mainDeadline ELSE deadline[active]

(* sleepUntilMs of a parked call.                                           *)
NewDeadline(finite) == IF finite THEN "ahead" ELSE "none"

(* The active thread parks in wait w.                                       *)
Park(w, finite, kind) ==
  /\ ParkActive("Waiting")
  /\ wait' = [wait EXCEPT ![active] = w]
  /\ deadline' = [deadline EXCEPT ![active] = NewDeadline(finite)]
  /\ v0' = [v0 EXCEPT ![active] = 0]
  /\ lastWait' = [lastWait EXCEPT ![active] = kind]
  /\ UNCHANGED <<objectVars, suspendCount, mail, scan>>

WaitSinglePark(h, finite) ==
  /\ \E c \in Threads : Guest(c)
  /\ ~Missing(h) /\ ~Ready(h)
  /\ Park(WaitFor(<<h>>, FALSE, FALSE), finite,
          IF finite THEN "finite" ELSE "infinite")

(* In the main context the call is pushed on pendingBlockingApis_ and       *)
(* another thread is looked for.                                            *)
MainWaitSinglePark(h, finite) ==
  /\ Guest(Main)
  /\ ~Missing(h) /\ ~Ready(h)
  /\ mainWait' = h
  /\ mainDeadline' = NewDeadline(finite)
  /\ Refresh("switch")
  /\ UNCHANGED <<objectVars, threadVars, active, mail>>

(* completeReadyPendingBlockingMainContinuation, and the continuation that  *)
(* tests the same things: the object is ready, or gone, or time is up.      *)
CompleteMainWait ==
  /\ Idle
  /\ active = Main /\ mainWait # NoHandle
  /\ \/ /\ ~Missing(mainWait) /\ Ready(mainWait)
        /\ Consume({mainWait} \cap Events)
     \/ /\ Missing(mainWait) \/ (~Ready(mainWait) /\ mainDeadline = "past")
        /\ UNCHANGED <<signaled, granted>>
  /\ mainWait' = NoHandle
  /\ mainDeadline' = "none"
  /\ UNCHANGED <<made, open, threadVars, active, mail, scan>>

Usable(w) == \A i \in DOMAIN w.handles : w.handles[i] \in made

(* WaitForMultipleObjects and MsgWaitForMultipleObjectsEx whose wait is     *)
(* decided when they are called: the call returns at once, and resets       *)
(* nothing, not even an auto-reset event it was satisfied by.               *)
WaitMultipleReady(w) ==
  /\ \E c \in Threads \cup {Main} : Guest(c)
  /\ Usable(w)
  /\ ~NotSatisfied(w)
  /\ UNCHANGED vars

WaitMultiplePark(w, finite) ==
  /\ \E c \in Threads : Guest(c)
  /\ Usable(w)
  /\ NotSatisfied(w)
  /\ Park(WaitFor(w.handles, w.all, FALSE), finite,
          IF finite THEN "finite" ELSE "infinite")

(* With a wake mask; wait-all parks even when messages are there.           *)
MsgWaitPark(w, finite) ==
  /\ \E c \in Threads : Guest(c)
  /\ Usable(w)
  /\ NotSatisfied(w) \/ w.handles = << >>
  /\ active \in mail => w.all /\ w.handles # << >>
  /\ Park(WaitFor(w.handles, w.all, TRUE), finite,
          IF finite THEN "finite" ELSE "infinite")

(* Sleep(0) makes the thread runnable and gives up the CPU.                 *)
SleepZero ==
  /\ \E c \in Threads : Guest(c)
  /\ ParkActive("Runnable")
  /\ v0' = [v0 EXCEPT ![active] = 0]
  /\ wait' = [wait EXCEPT ![active].onTimeout = 0]
  /\ deadline' = [deadline EXCEPT ![active] = "none"]
  /\ lastWait' = [lastWait EXCEPT ![active] = "sleep"]
  /\ UNCHANGED <<objectVars, suspendCount, mail, scan>>

Sleep ==
  /\ \E c \in Threads : Guest(c)
  /\ Park(Sleeping, TRUE, "sleep")

(* A main context with nothing to do (Sleep, an empty GetMessageW, a        *)
(* multiple-object wait, which it retries) looks for a thread to run.       *)
MainYield ==
  /\ Guest(Main)
  /\ Refresh("switch")
  /\ UNCHANGED <<objectVars, threadVars, contextVars, mail>>

(* yieldActiveGuestThread: after a call, or when a slice is over.           *)
Yield ==
  /\ \E c \in Threads : Guest(c)
  /\ runState' = [runState EXCEPT ![active] = "Runnable"]
  /\ lastWait' = [lastWait EXCEPT ![active] = "none"]
  /\ Refresh("switch")
  /\ UNCHANGED <<objectVars, suspendCount, wait, deadline, v0, contextVars, mail>>

----------------------------------------------------------------------------
(* Messages.                                                                *)

Owners == Receivers \cap ({Main} \cup made)

(* PostMessageW, a cross-process message and SendMessageW wake the threads  *)
(* that wait for messages.                                                  *)
PostMessage(owner) ==
  /\ Idle
  /\ owner \in Owners
  /\ mail' = mail \cup {owner}
  /\ Refresh("wake")
  /\ UNCHANGED <<objectVars, threadVars, contextVars>>

(* Timers, host input, paint and focus messages are queued and no more.     *)
EnqueueMessage(owner) ==
  /\ Idle
  /\ owner \in Owners
  /\ owner \notin mail
  /\ mail' = mail \cup {owner}
  /\ UNCHANGED <<objectVars, threadVars, contextVars, scan>>

(* The last message of the caller's queue is retrieved.                     *)
TakeLastMessage ==
  /\ \E c \in Threads \cup {Main} : Guest(c)
  /\ active \in mail
  /\ mail' = mail \ {active}
  /\ UNCHANGED <<objectVars, threadVars, contextVars, scan>>

(* GetMessageW in a guest thread whose queue is empty.                      *)
GetMessagePark ==
  /\ \E c \in Threads : Guest(c)
  /\ active \notin mail
  /\ ParkActive("WaitingForMessage")
  /\ UNCHANGED <<objectVars, suspendCount, wait, deadline, v0, lastWait, mail, scan>>

----------------------------------------------------------------------------
(* The host.                                                                *)

TimePasses(t) ==
  /\ Idle
  /\ deadline[t] = "ahead" /\ runState[t] = "Waiting"
  /\ deadline' = [deadline EXCEPT ![t] = "past"]
  /\ UNCHANGED <<objectVars, runState, suspendCount, wait, v0, lastWait,
                 contextVars, mail, scan>>

TimePassesForMain ==
  /\ Idle
  /\ mainDeadline = "ahead"
  /\ mainDeadline' = "past"
  /\ UNCHANGED <<objectVars, threadVars, active, mainWait, mail, scan>>

(* runHostMessageLoopUntilClosed refreshes once per turn, and after every   *)
(* slice of guest code.                                                     *)
HostRefresh ==
  /\ Idle
  /\ Refresh("return")
  /\ UNCHANGED <<objectVars, threadVars, contextVars, mail>>

(* It looks for a worker while the main context is parked.                  *)
HostSwitch ==
  /\ Idle
  /\ active = Main /\ mainWait # NoHandle
  /\ Refresh("switch")
  /\ UNCHANGED <<objectVars, threadVars, contextVars, mail>>

----------------------------------------------------------------------------
Init ==
  /\ made = {} /\ open = {} /\ signaled = {}
  /\ runState = [t \in Threads |-> "None"]
  /\ suspendCount = [t \in Threads |-> 0]
  /\ wait = [t \in Threads |-> Sleeping]
  /\ deadline = [t \in Threads |-> "none"]
  /\ v0 = [t \in Threads |-> 0]
  /\ active = Main
  /\ mainWait = NoHandle /\ mainDeadline = "none"
  /\ mail = {}
  /\ scan = NoScan
  /\ lastWait = [t \in Threads |-> "none"]
  /\ granted = [e \in Events |-> 0]

RefreshStep ==
  \/ RefreshThread
  \/ ReturnFromRefresh
  \/ EndPulse
  \/ WakeMessageWaiters
  \/ \E t \in Threads : SwitchTo(t)
  \/ SwitchToMain
  \/ NothingToRun

ThreadCall ==
  \/ \E suspended \in BOOLEAN : CreateThread(suspended)
  \/ \E t \in Threads : ResumeThread(t)
  \/ ExitThread
  \/ \E h \in Handles : CloseHandle(h)
  \/ SleepZero
  \/ Sleep
  \/ MainYield
  \/ Yield

EventCall ==
  \E e \in Events :
    \/ \E initial \in BOOLEAN : CreateEvent(e, initial)
    \/ SetEvent(e)
    \/ ResetEvent(e)
    \/ PulseEvent(e)

WaitCall ==
  \/ \E h \in Handles : WaitSingleReady(h)
  \/ \E h \in Handles, finite \in BOOLEAN : WaitSinglePark(h, finite)
  \/ \E h \in Handles, finite \in BOOLEAN : MainWaitSinglePark(h, finite)
  \/ CompleteMainWait
  \/ \E w \in MultiWaits : WaitMultipleReady(w)
  \/ \E w \in MultiWaits, finite \in BOOLEAN : WaitMultiplePark(w, finite)
  \/ \E w \in MultiWaits, finite \in BOOLEAN : MsgWaitPark(w, finite)

MessageCall ==
  \/ \E owner \in Receivers : PostMessage(owner)
  \/ \E owner \in Receivers : EnqueueMessage(owner)
  \/ TakeLastMessage
  \/ GetMessagePark

HostStep ==
  \/ \E t \in Threads : TimePasses(t)
  \/ TimePassesForMain
  \/ HostRefresh
  \/ HostSwitch

Next == RefreshStep \/ ThreadCall \/ EventCall \/ WaitCall \/ MessageCall \/ HostStep

Spec == Init /\ [][Next]_vars

(* The clock runs whatever the guest does; the host loop comes round again  *)
(* because every slice of guest code has an instruction budget, and what it *)
(* started it finishes.                                                     *)
Fairness ==
  /\ \A t \in Threads : SF_vars(TimePasses(t))
  /\ WF_vars(HostRefresh)
  /\ WF_vars(RefreshStep)

FairSpec == Spec /\ Fairness

----------------------------------------------------------------------------
(* Properties.                                                              *)

Waits == [handles : Seq(Handles), all : BOOLEAN, msgs : BOOLEAN,
          onTimeout : {0, WaitTimeout}]

Scans == [next : 0 .. (MaxThreads + 1),
          then : {"return", "unpulse", "wake", "switch"},
          event : Events \cup {NoHandle}]

(* The records keep the shape the code gives them; no suspend count is      *)
(* taken below zero, and only events that exist are signaled.               *)
TypeOK ==
  /\ made \subseteq Handles /\ open \subseteq made
  /\ signaled \subseteq Events \cap made
  /\ runState \in [Threads -> RunStates]
  /\ suspendCount \in [Threads -> 0 .. 1]
  /\ wait \in [Threads -> Waits]
  /\ deadline \in [Threads -> {"none", "ahead", "past"}]
  /\ v0 \in [Threads -> Int]
  /\ active \in Threads \cup {Main}
  /\ mainWait \in Handles \cup {NoHandle}
  /\ mainDeadline \in {"none", "ahead", "past"}
  /\ mail \subseteq Receivers
  /\ scan \in Scans
  /\ lastWait \in [Threads -> {"none", "finite", "infinite", "sleep"}]
  /\ granted \in [Events -> 0 .. 2]

(* The scheduler and the threads agree on who runs: a thread is Running     *)
(* only while it is activeGuestThread_, and when guest code executes the    *)
(* active thread is Running, never one that has parked, ended or been       *)
(* freed.                                                                   *)
OneRunner ==
  /\ \A t \in Threads : runState[t] = "Running" => t = active
  /\ Idle /\ active # Main => runState[active] = "Running"

(* No wake-up is lost: outside the loop no parked thread waits for an event *)
(* that is signaled, or for events that all are, whatever was signaled,     *)
(* consumed, pulsed, closed or parked in whatever order.                    *)
EventSignaled(h) == h \in open \cap signaled

OverdueForEvents(w) ==
  /\ w.handles # << >>
  /\ IF w.all THEN \A i \in DOMAIN w.handles : EventSignaled(w.handles[i])
              ELSE \E i \in DOMAIN w.handles : EventSignaled(w.handles[i])

NoLostWakeup ==
  Idle => \A t \in Threads :
            runState[t] = "Waiting" => ~OverdueForEvents(wait[t])

(* One SetEvent or PulseEvent of an auto-reset event ends at most one of    *)
(* the waits that reset it: parked waits of threads, the wait of the main   *)
(* context, and single-object waits that never park, together.              *)
AutoResetGrantsOnce == \A e \in AutoReset(Events) : granted[e] <= 1

(* A wait without a timeout never returns WAIT_TIMEOUT, though the deadline *)
(* of an earlier wait is left in the thread's record, and Sleep always      *)
(* returns 0, though it shares the timeout result with the waits.           *)
ResultFitsCall ==
  \A t \in Threads :
    /\ lastWait[t] = "infinite" => v0[t] # WaitTimeout
    /\ lastWait[t] = "sleep"    => v0[t] = 0

(* A Sleep or finite wait is over some time.                                *)
FiniteWaitEnds ==
  \A t \in Threads :
    (runState[t] = "Waiting" /\ deadline[t] # "none") ~> (runState[t] # "Waiting")

(* A thread that waits for another gets to know that this one has ended,    *)
(* though ending does not run the loop.                                     *)
JoinEnds ==
  \A t \in Threads, u \in Threads :
    (/\ runState[t] = "Waiting" /\ wait[t].handles = <<u>>
     /\ runState[u] = "Terminated") ~> (runState[t] # "Waiting")

(* A thread parked in GetMessageW whose queue has work is made runnable.    *)
MessageWakesItsOwner ==
  \A t \in Threads :
    (runState[t] = "WaitingForMessage" /\ t \in mail)
      ~> (runState[t] # "WaitingForMessage" \/ t \notin mail)

==============================================================================

---------------------------- MODULE CeKernelProofs ----------------------------
(***************************************************************************)
(* Theorems about CeKernel, for any number of threads and any events.      *)
(***************************************************************************)
EXTENDS CeKernel, TLAPS

(* What has not been made has no state, and waits are for what was made.    *)
MadeInv ==
  /\ \A t \in Threads \ made : runState[t] = "None"
  /\ \A e \in Events \ made : granted[e] = 0
  /\ \A t \in Threads : \A i \in DOMAIN wait[t].handles :
       wait[t].handles[i] \in made

(* The active thread is Running, but for a thread that has given up its     *)
(* turn, until another is chosen.                                           *)
RunnerInv ==
  /\ \A t \in Threads : runState[t] = "Running" => t = active
  /\ active # Main =>
       \/ runState[active] = "Running"
       \/ ~Idle /\ scan.then = "switch" /\ runState[active] = "Runnable"

(* An auto-reset event that is still signaled has satisfied no wait.        *)
GrantInv ==
  \A e \in AutoReset(Events) :
    /\ granted[e] <= 1
    /\ e \in signaled => granted[e] = 0

(* The loop leaves behind it no thread that ought to have been woken.       *)
WakeInv ==
  \A t \in Threads :
    (Idle \/ t < scan.next) /\ runState[t] = "Waiting"
      => ~OverdueForEvents(wait[t])

(* What a parked call has yet to return is settled: without a timeout it    *)
(* has no deadline, a Sleep waits for nothing else, and no index of an      *)
(* object comes near WAIT_TIMEOUT.                                          *)
FitInv ==
  \A t \in Threads :
    /\ lastWait[t] = "infinite" => v0[t] # WaitTimeout
    /\ lastWait[t] = "infinite" /\ runState[t] = "Waiting" => deadline[t] = "none"
    /\ lastWait[t] = "sleep" => v0[t] = 0
    /\ lastWait[t] = "sleep" /\ runState[t] = "Waiting" => wait[t] = Sleeping
    /\ Len(wait[t].handles) <= MaxWaitObjects

IInv == TypeOK /\ MadeInv /\ RunnerInv /\ GrantInv /\ WakeInv /\ FitInv

----------------------------------------------------------------------------
(* Type correctness.                                                        *)

(* The main thread is not one of the workers.                               *)
LEMMA MainIsNoThread == Main \notin Threads
BY KernelAssumption DEF Main, Threads

(* What the wake-ups of the loop write is of the right type.                *)
LEMMA WakeType ==
  ASSUME TypeOK, NEW t \in Threads, NEW r \in Int, Wake(t, r)
  PROVE  /\ runState' \in [Threads -> RunStates]
         /\ wait' \in [Threads -> Waits]
         /\ v0' \in [Threads -> Int]
<1>1. Sleeping \in Waits
  <2>1. << >> \in Seq(Handles)
    OBVIOUS
  <2>. QED
    BY <2>1 DEF Sleeping, Waits
<1>. QED
  BY <1>1 DEF TypeOK, Wake, RunStates

(* A wait that is satisfied takes a signal of the events it names, and no   *)
(* other.                                                                   *)
LEMMA ConsumeType ==
  ASSUME TypeOK, NEW es \in SUBSET Events, Consume(es)
  PROVE  /\ signaled' \subseteq Events \cap made
         /\ granted' \in [Events -> 0 .. 2]
<1>1. signaled' \subseteq signaled
  BY DEF Consume
<1>2. granted' = [e \in Events |->
        IF e \in es /\ granted[e] < 2 THEN granted[e] + 1 ELSE granted[e]]
  BY DEF Consume, Grant
<1>3. \A e \in Events :
        (IF e \in es /\ granted[e] < 2 THEN granted[e] + 1 ELSE granted[e])
          \in 0 .. 2
  BY DEF TypeOK
<1>. QED
  BY <1>1, <1>2, <1>3 DEF TypeOK

(* What one turn of the refresh loop makes of a thread has the types.       *)
LEMMA RefreshThreadType ==
  ASSUME TypeOK, RefreshThread
  PROVE  TypeOK'
<1>. DEFINE t == scan.next
            w == wait[t]
<1>1. t \in Threads
  BY DEF RefreshThread
<1>2. w \in Waits
  BY <1>1 DEF TypeOK
<1>3. w.handles \in Seq(Handles) /\ w.onTimeout \in Int
  BY <1>2 DEF Waits, WaitTimeout
<1>4. /\ UNCHANGED <<made, open, suspendCount, lastWait, mail, active, mainWait,
                     mainDeadline>>
      /\ scan' = [scan EXCEPT !.next = scan.next + 1]
  BY DEF RefreshThread, contextVars
<1>5. scan' \in Scans
  <2>1. scan.next + 1 \in 0 .. (MaxThreads + 1)
    BY <1>1, KernelAssumption DEF Threads
  <2>. QED
    BY <1>4, <2>1 DEF TypeOK, Scans
<1>6. /\ runState' \in [Threads -> RunStates]
      /\ wait' \in [Threads -> Waits]
      /\ deadline' \in [Threads -> {"none", "ahead", "past"}]
      /\ v0' \in [Threads -> Int]
      /\ signaled' \subseteq Events \cap made
      /\ granted' \in [Events -> 0 .. 2]
  <2>1. CASE UNCHANGED <<runState, wait, deadline, v0, signaled, granted>>
    BY <2>1 DEF TypeOK
  <2>2. CASE Expire(t)
    <3>1. Wake(t, w.onTimeout)
      BY <2>2 DEF Expire
    <3>2. deadline' \in [Threads -> {"none", "ahead", "past"}]
      BY <2>2 DEF Expire, TypeOK
    <3>. QED
      BY <1>1, <1>3, <2>2, <3>1, <3>2, WakeType DEF Expire, TypeOK
  <2>3. CASE WakeForMessage(t)
    <3>. DEFINE r == IF w.msgs THEN WaitObject0 + Len(w.handles) ELSE WaitObject0
    <3>1. Wake(t, r)
      BY <2>3 DEF WakeForMessage
    <3>2. r \in Int
      BY <1>3 DEF WaitObject0
    <3>3. UNCHANGED <<deadline, signaled, granted>>
      BY <2>3 DEF WakeForMessage
    <3>. HIDE DEF r
    <3>. QED
      BY <1>1, <3>1, <3>2, <3>3, WakeType DEF TypeOK
  <2>4. CASE WakeForObject(t)
    <3>1. PICK i \in DOMAIN w.handles :
            IF Missing(w.handles[i])
            THEN Wake(t, WaitFailed) /\ UNCHANGED <<signaled, granted>>
            ELSE Wake(t, WaitObject0 + i - 1) /\ Consume(Deciding(w, i))
      BY <2>4 DEF WakeForObject
    <3>2. UNCHANGED deadline
      BY <2>4 DEF WakeForObject
    <3>3. CASE Missing(w.handles[i])
      <4>1. Wake(t, WaitFailed) /\ UNCHANGED <<signaled, granted>>
        BY <3>1, <3>3
      <4>2. WaitFailed \in Int
        BY DEF WaitFailed
      <4>. QED
        BY <1>1, <3>2, <4>1, <4>2, WakeType DEF TypeOK
    <3>4. CASE ~Missing(w.handles[i])
      <4>1. Wake(t, WaitObject0 + i - 1) /\ Consume(Deciding(w, i))
        BY <3>1, <3>4
      <4>2. WaitObject0 + i - 1 \in Int
        BY <1>3 DEF WaitObject0
      <4>3. Deciding(w, i) \in SUBSET Events
        BY DEF Deciding
      <4>. QED
        BY <1>1, <3>2, <4>1, <4>2, <4>3, WakeType, ConsumeType DEF TypeOK
    <3>. QED
      BY <3>3, <3>4
  <2>5. CASE WakeForAll(t)
    <3>1. Wake(t, WaitObject0) /\ Consume(EventsOf(w)) /\ UNCHANGED deadline
      BY <2>5 DEF WakeForAll
    <3>2. WaitObject0 \in Int /\ EventsOf(w) \in SUBSET Events
      BY DEF WaitObject0, EventsOf
    <3>. QED
      BY <1>1, <3>1, <3>2, WakeType, ConsumeType DEF TypeOK
  <2>. QED
    BY <2>1, <2>2, <2>3, <2>4, <2>5 DEF RefreshThread, StayParked
<1>. QED
  BY <1>4, <1>5, <1>6 DEF TypeOK

(* What Refresh leaves behind.                                              *)
LEMMA RefreshType ==
  ASSUME NEW then \in {"return", "unpulse", "wake", "switch"},
         NEW e \in Events \cup {NoHandle},
         scan' = [next |-> 1, then |-> then, event |-> e]
  PROVE  scan' \in Scans
<1>1. 1 \in 0 .. (MaxThreads + 1)
  BY KernelAssumption
<1>. QED
  BY <1>1 DEF Scans

(* No refresh under way is a state of the loop.                             *)
LEMMA NoScanType == NoScan \in Scans
<1>1. 0 \in 0 .. (MaxThreads + 1)
  BY KernelAssumption
<1>. QED
  BY <1>1 DEF Scans, NoScan

(* The active thread is a thread in every call that parks it.               *)
LEMMA ParkType ==
  ASSUME TypeOK, NEW w \in Waits, NEW finite \in BOOLEAN,
         NEW kind \in {"finite", "infinite", "sleep"},
         active \in Threads, Park(w, finite, kind)
  PROVE  TypeOK'
<1>1. runState' \in [Threads -> RunStates]
  BY DEF Park, ParkActive, TypeOK, RunStates
<1>2. wait' \in [Threads -> Waits]
  BY DEF Park, TypeOK
<1>3. deadline' \in [Threads -> {"none", "ahead", "past"}]
  BY DEF Park, NewDeadline, TypeOK
<1>4. v0' \in [Threads -> Int] /\ lastWait' \in [Threads -> {"none", "finite", "infinite", "sleep"}]
  BY DEF Park, TypeOK
<1>. QED
  BY <1>1, <1>2, <1>3, <1>4 DEF Park, ParkActive, TypeOK, objectVars

(* A wait's record has its type.                                            *)
LEMMA WaitForType ==
  ASSUME NEW h \in Seq(Handles), NEW all \in BOOLEAN, NEW msgs \in BOOLEAN
  PROVE  WaitFor(h, all, msgs) \in Waits
BY DEF WaitFor, Waits

(* The types hold at first.                                                 *)
LEMMA TypeInit == Init => TypeOK
<1>. SUFFICES ASSUME Init PROVE TypeOK
  OBVIOUS
<1>1. Sleeping \in Waits
  <2>1. << >> \in Seq(Handles)
    OBVIOUS
  <2>. QED
    BY <2>1 DEF Sleeping, Waits
<1>. QED
  BY <1>1, NoScanType DEF Init, TypeOK, RunStates, Main

(* Every call and every turn of the host loop keeps the types.              *)
LEMMA TypeStep == TypeOK /\ [Next]_vars => TypeOK'
<1>. SUFFICES ASSUME TypeOK, [Next]_vars PROVE TypeOK'
  OBVIOUS
<1>. USE DEF threadVars, objectVars, contextVars
<1>1. CASE RefreshStep
  <2>1. CASE RefreshThread
    BY <2>1, RefreshThreadType
  <2>2. CASE ReturnFromRefresh
    BY <2>2, NoScanType DEF ReturnFromRefresh, TypeOK
  <2>3. CASE EndPulse
    BY <2>3, NoScanType DEF EndPulse, TypeOK
  <2>4. CASE WakeMessageWaiters
    BY <2>4, NoScanType DEF WakeMessageWaiters, TypeOK, RunStates
  <2>5. ASSUME NEW t \in Threads, SwitchTo(t) PROVE TypeOK'
    BY <2>5, NoScanType DEF SwitchTo, TypeOK, RunStates
  <2>6. CASE SwitchToMain
    BY <2>6, NoScanType DEF SwitchToMain, TypeOK, RunStates
  <2>7. CASE NothingToRun
    BY <2>7, NoScanType DEF NothingToRun, TypeOK
  <2>. QED
    BY <1>1, <2>1, <2>2, <2>3, <2>4, <2>5, <2>6, <2>7 DEF RefreshStep
<1>2. CASE ThreadCall
  <2>1. ASSUME NEW suspended \in BOOLEAN, CreateThread(suspended) PROVE TypeOK'
    <3>1. scan' \in Scans
      BY <2>1, RefreshType DEF CreateThread, YieldIfMain, Refresh, TypeOK
    <3>. QED
      BY <2>1, <3>1 DEF CreateThread, TypeOK, RunStates, Handles
  <2>2. ASSUME NEW t \in Threads, ResumeThread(t) PROVE TypeOK'
    <3>1. scan' \in Scans
      BY <2>2, RefreshType DEF ResumeThread, YieldIfMain, Refresh, TypeOK
    <3>2. suspendCount' \in [Threads -> 0 .. 1]
      BY <2>2 DEF ResumeThread, TypeOK
    <3>. QED
      BY <2>2, <3>1, <3>2 DEF ResumeThread, TypeOK, RunStates
  <2>3. CASE ExitThread
    <3>1. scan' \in Scans
      BY <2>3, RefreshType DEF ExitThread, Refresh, TypeOK
    <3>. QED
      BY <2>3, <3>1 DEF ExitThread, ParkActive, TypeOK, RunStates
  <2>4. ASSUME NEW h \in Handles, CloseHandle(h) PROVE TypeOK'
    BY <2>4 DEF CloseHandle, TypeOK, RunStates
  <2>5. CASE SleepZero
    <3>1. wait' \in [Threads -> Waits]
      BY <2>5, ZenonT(40) DEF SleepZero, Guest, TypeOK, Waits
    <3>. QED
      BY <2>5, <3>1 DEF SleepZero, ParkActive, TypeOK, RunStates
  <2>6. CASE Sleep
    <3>1. Sleeping \in Waits
      <4>1. << >> \in Seq(Handles)
        OBVIOUS
      <4>. QED
        BY <4>1 DEF Sleeping, Waits
    <3>2. active \in Threads
      BY <2>6 DEF Sleep, Guest
    <3>. QED
      BY <2>6, <3>1, <3>2, ParkType DEF Sleep
  <2>7. CASE MainYield
    BY <2>7, RefreshType DEF MainYield, Refresh, TypeOK
  <2>8. CASE Yield
    <3>1. scan' \in Scans
      BY <2>8, RefreshType DEF Yield, Refresh
    <3>. QED
      BY <2>8, <3>1 DEF Yield, TypeOK, RunStates
  <2>. QED
    BY <1>2, <2>1, <2>2, <2>3, <2>4, <2>5, <2>6, <2>7, <2>8 DEF ThreadCall
<1>3. CASE EventCall
  <2>. PICK e \in Events :
         \/ \E initial \in BOOLEAN : CreateEvent(e, initial)
         \/ SetEvent(e)
         \/ ResetEvent(e)
         \/ PulseEvent(e)
    BY <1>3 DEF EventCall
  <2>1. ASSUME NEW initial \in BOOLEAN, CreateEvent(e, initial) PROVE TypeOK'
    BY <2>1 DEF CreateEvent, TypeOK, Handles
  <2>2. CASE SetEvent(e)
    <3>1. scan' \in Scans
      BY <2>2, RefreshType DEF SetEvent, Refresh
    <3>. QED
      BY <2>2, <3>1 DEF SetEvent, TypeOK
  <2>3. CASE ResetEvent(e)
    BY <2>3 DEF ResetEvent, TypeOK
  <2>4. CASE PulseEvent(e)
    <3>1. scan' \in Scans
      BY <2>4, RefreshType DEF PulseEvent
    <3>. QED
      BY <2>4, <3>1 DEF PulseEvent, TypeOK
  <2>. QED
    BY <2>1, <2>2, <2>3, <2>4
<1>4. CASE WaitCall
  <2>1. ASSUME NEW h \in Handles, WaitSingleReady(h) PROVE TypeOK'
    <3>1. Consume({h} \cap Events) /\ {h} \cap Events \in SUBSET Events
      BY <2>1 DEF WaitSingleReady
    <3>. QED
      BY <2>1, <3>1, ConsumeType DEF WaitSingleReady, TypeOK
  <2>2. ASSUME NEW h \in Handles, NEW finite \in BOOLEAN, WaitSinglePark(h, finite)
        PROVE  TypeOK'
    <3>1. WaitFor(<<h>>, FALSE, FALSE) \in Waits
      <4>1. <<h>> \in Seq(Handles)
        OBVIOUS
      <4>. QED
        BY <4>1, WaitForType
    <3>2. active \in Threads
      BY <2>2 DEF WaitSinglePark, Guest
    <3>. QED
      BY <2>2, <3>1, <3>2, ParkType DEF WaitSinglePark
  <2>3. ASSUME NEW h \in Handles, NEW finite \in BOOLEAN, MainWaitSinglePark(h, finite)
        PROVE  TypeOK'
    BY <2>3, RefreshType DEF MainWaitSinglePark, NewDeadline, Refresh, TypeOK
  <2>4. CASE CompleteMainWait
    <3>1. signaled' \subseteq Events \cap made /\ granted' \in [Events -> 0 .. 2]
      BY <2>4, ConsumeType DEF CompleteMainWait, TypeOK
    <3>. QED
      BY <2>4, <3>1 DEF CompleteMainWait, TypeOK
  <2>5. ASSUME NEW w \in MultiWaits, WaitMultipleReady(w) PROVE TypeOK'
    BY <2>5 DEF WaitMultipleReady, TypeOK, vars
  <2>6. ASSUME NEW w \in MultiWaits, NEW finite \in BOOLEAN,
               WaitMultiplePark(w, finite) \/ MsgWaitPark(w, finite)
        PROVE  TypeOK'
    <3>1. w.handles \in Seq(Handles) /\ w.all \in BOOLEAN
      BY KernelAssumption
    <3>2. \A msgs \in BOOLEAN : WaitFor(w.handles, w.all, msgs) \in Waits
      BY <3>1, WaitForType
    <3>3. active \in Threads
      BY <2>6 DEF WaitMultiplePark, MsgWaitPark, Guest
    <3>. QED
      BY <2>6, <3>2, <3>3, ParkType DEF WaitMultiplePark, MsgWaitPark
  <2>. QED
    BY <1>4, <2>1, <2>2, <2>3, <2>4, <2>5, <2>6 DEF WaitCall
<1>5. CASE MessageCall
  <2>1. ASSUME NEW owner \in Receivers, PostMessage(owner) PROVE TypeOK'
    BY <2>1, RefreshType DEF PostMessage, Refresh, TypeOK
  <2>2. ASSUME NEW owner \in Receivers, EnqueueMessage(owner) PROVE TypeOK'
    BY <2>2 DEF EnqueueMessage, TypeOK
  <2>3. CASE TakeLastMessage
    BY <2>3 DEF TakeLastMessage, TypeOK
  <2>4. CASE GetMessagePark
    BY <2>4 DEF GetMessagePark, ParkActive, TypeOK, RunStates
  <2>. QED
    BY <1>5, <2>1, <2>2, <2>3, <2>4 DEF MessageCall
<1>6. CASE HostStep
  <2>1. ASSUME NEW t \in Threads, TimePasses(t) PROVE TypeOK'
    BY <2>1 DEF TimePasses, TypeOK
  <2>2. CASE TimePassesForMain
    BY <2>2 DEF TimePassesForMain, TypeOK
  <2>3. CASE HostRefresh \/ HostSwitch
    BY <2>3, RefreshType DEF HostRefresh, HostSwitch, Refresh, TypeOK
  <2>. QED
    BY <1>6, <2>1, <2>2, <2>3 DEF HostStep
<1>7. CASE UNCHANGED vars
  BY <1>7 DEF TypeOK, vars
<1>. QED
  BY <1>1, <1>2, <1>3, <1>4, <1>5, <1>6, <1>7 DEF Next

----------------------------------------------------------------------------
(* What a turn of the loop can do: it lets its thread go on, and then it    *)
(* resets signaled events only, or it leaves a thread whose wait is not     *)
(* satisfied where it is.                                                   *)
LEMMA RefreshShape ==
  ASSUME TypeOK, RefreshThread
  PROVE  /\ scan.next \in Threads
         /\ \A u \in Threads \ {scan.next} :
              runState'[u] = runState[u] /\ wait'[u] = wait[u]
         /\ \/ /\ runState[scan.next] = "Waiting"
               /\ runState'[scan.next] = "Runnable"
               /\ wait'[scan.next] = Sleeping
            \/ /\ runState'[scan.next] = runState[scan.next]
               /\ wait'[scan.next] = wait[scan.next]
               /\ \/ runState[scan.next] # "Waiting"
                  \/ NotSatisfied(wait[scan.next])
                  \/ wait[scan.next].handles = << >>
         /\ \/ UNCHANGED <<signaled, granted>>
            \/ \E es \in SUBSET signaled : Consume(es)
<1>. DEFINE t == scan.next
            w == wait[t]
<1>1. t \in Threads
  BY DEF RefreshThread
<1>2. ASSUME NEW r, Wake(t, r), runState[t] = "Waiting"
      PROVE  /\ runState[t] = "Waiting" /\ runState'[t] = "Runnable"
             /\ wait'[t] = Sleeping
             /\ \A u \in Threads \ {t} :
                  runState'[u] = runState[u] /\ wait'[u] = wait[u]
  BY <1>1, <1>2 DEF Wake, TypeOK
<1>3. CASE runState[t] # "Waiting"
  BY <1>1, <1>3 DEF RefreshThread
<1>4. CASE runState[t] = "Waiting" /\ Expire(t)
  BY <1>1, <1>2, <1>4 DEF Expire
<1>5. CASE runState[t] = "Waiting" /\ WakeForMessage(t)
  BY <1>1, <1>2, <1>5 DEF WakeForMessage
<1>6. CASE runState[t] = "Waiting" /\ WakeForObject(t)
  <2>1. PICK i \in DOMAIN w.handles :
          /\ FirstDecided(w, i)
          /\ IF Missing(w.handles[i])
             THEN Wake(t, WaitFailed) /\ UNCHANGED <<signaled, granted>>
             ELSE Wake(t, WaitObject0 + i - 1) /\ Consume(Deciding(w, i))
    BY <1>6 DEF WakeForObject
  <2>2. CASE Missing(w.handles[i])
    BY <1>1, <1>2, <1>6, <2>1, <2>2
  <2>3. CASE ~Missing(w.handles[i])
    <3>1. Deciding(w, i) \in SUBSET signaled
      BY <2>1, <2>3 DEF FirstDecided, Decided, Ready, Deciding
    <3>. QED
      BY <1>1, <1>2, <1>6, <2>1, <2>3, <3>1
  <2>. QED
    BY <2>2, <2>3
<1>7. CASE runState[t] = "Waiting" /\ WakeForAll(t)
  <2>1. EventsOf(w) \in SUBSET signaled
    BY <1>7 DEF WakeForAll, EventsOf, AllReady, Ready
  <2>. QED
    BY <1>1, <1>2, <1>7, <2>1 DEF WakeForAll
<1>8. CASE runState[t] = "Waiting" /\ StayParked(t)
  BY <1>1, <1>8 DEF StayParked
<1>. QED
  BY <1>3, <1>4, <1>5, <1>6, <1>7, <1>8 DEF RefreshThread

(* What a step outside the loop can do to the events: nothing, take a set   *)
(* away, let a wait be satisfied, or signal one afresh.                     *)
LEMMA EventShape ==
  ASSUME TypeOK, MadeInv, [Next]_vars
  PROVE  \/ signaled' \subseteq signaled /\ granted' = granted
         \/ \E es \in SUBSET signaled : Consume(es)
         \/ \E e \in Events :
              /\ signaled' \subseteq signaled \cup {e}
              /\ granted' \in [Events -> 0 .. 2]
              /\ granted'[e] = 0
              /\ \A f \in Events \ {e} : granted'[f] = granted[f]
<1>. USE DEF threadVars, objectVars, contextVars
<1>1. CASE RefreshStep
  <2>1. CASE RefreshThread
    BY <2>1, RefreshShape
  <2>2. CASE ~RefreshThread
    BY <1>1, <2>2 DEF RefreshStep, ReturnFromRefresh, EndPulse,
         WakeMessageWaiters, SwitchTo, SwitchToMain, NothingToRun
  <2>. QED
    BY <2>1, <2>2
<1>2. CASE ThreadCall
  BY <1>2 DEF ThreadCall, CreateThread, ResumeThread, ExitThread, CloseHandle,
       SleepZero, Sleep, Park, MainYield, Yield
<1>3. CASE EventCall
  <2>. PICK e \in Events :
         \/ \E initial \in BOOLEAN : CreateEvent(e, initial)
         \/ SetEvent(e)
         \/ ResetEvent(e)
         \/ PulseEvent(e)
    BY <1>3 DEF EventCall
  <2>1. CASE \E initial \in BOOLEAN : CreateEvent(e, initial)
    <3>1. signaled' \subseteq signaled \cup {e} /\ granted' = granted /\ e \notin made
      BY <2>1 DEF CreateEvent
    <3>2. granted[e] = 0
      BY <3>1 DEF MadeInv
    <3>. QED
      BY <3>1, <3>2 DEF TypeOK
  <2>2. CASE SetEvent(e) \/ PulseEvent(e)
    BY <2>2 DEF SetEvent, PulseEvent, TypeOK
  <2>3. CASE ResetEvent(e)
    BY <2>3 DEF ResetEvent
  <2>. QED
    BY <2>1, <2>2, <2>3
<1>4. CASE WaitCall
  <2>1. ASSUME NEW h \in Handles, WaitSingleReady(h)
        PROVE  \E es \in SUBSET signaled : Consume(es)
    <3>1. {h} \cap Events \in SUBSET signaled
      BY <2>1 DEF WaitSingleReady, Ready
    <3>. QED
      BY <2>1, <3>1 DEF WaitSingleReady
  <2>2. CASE CompleteMainWait
    <3>1. CASE /\ ~Missing(mainWait) /\ Ready(mainWait)
               /\ Consume({mainWait} \cap Events)
      <4>1. {mainWait} \cap Events \in SUBSET signaled
        BY <3>1 DEF Ready
      <4>. QED
        BY <3>1, <4>1
    <3>2. CASE UNCHANGED <<signaled, granted>>
      BY <3>2
    <3>. QED
      BY <2>2, <3>1, <3>2 DEF CompleteMainWait
  <2>3. CASE \/ \E h \in Handles, finite \in BOOLEAN :
                  WaitSinglePark(h, finite) \/ MainWaitSinglePark(h, finite)
             \/ \E w \in MultiWaits : WaitMultipleReady(w)
             \/ \E w \in MultiWaits, finite \in BOOLEAN :
                  WaitMultiplePark(w, finite) \/ MsgWaitPark(w, finite)
    BY <2>3 DEF WaitSinglePark, MainWaitSinglePark, WaitMultipleReady,
         WaitMultiplePark, MsgWaitPark, Park, vars
  <2>. QED
    BY <1>4, <2>1, <2>2, <2>3 DEF WaitCall
<1>5. CASE MessageCall
  BY <1>5 DEF MessageCall, PostMessage, EnqueueMessage, TakeLastMessage,
       GetMessagePark
<1>6. CASE HostStep
  BY <1>6 DEF HostStep, TimePasses, TimePassesForMain, HostRefresh, HostSwitch
<1>7. CASE UNCHANGED vars
  BY <1>7 DEF vars
<1>. QED
  BY <1>1, <1>2, <1>3, <1>4, <1>5, <1>6, <1>7 DEF Next

(* Every step keeps GrantInv: an event that is still signalled has ended no *)
(* wait.                                                                    *)
LEMMA GrantStep ==
  TypeOK /\ MadeInv /\ GrantInv /\ [Next]_vars => GrantInv'
<1>. SUFFICES ASSUME TypeOK, MadeInv, GrantInv, [Next]_vars,
                     NEW e \in AutoReset(Events)
              PROVE  /\ granted'[e] <= 1
                     /\ e \in signaled' => granted'[e] = 0
  BY DEF GrantInv
<1>1. e \in Events /\ granted[e] \in 0 .. 2
  BY DEF AutoReset, TypeOK
<1>2. granted[e] <= 1 /\ (e \in signaled => granted[e] = 0)
  BY DEF GrantInv
<1>3. CASE signaled' \subseteq signaled /\ granted' = granted
  BY <1>2, <1>3
<1>4. ASSUME NEW es \in SUBSET signaled, Consume(es)
      PROVE  granted'[e] <= 1 /\ (e \in signaled' => granted'[e] = 0)
  <2>1. granted'[e] = IF e \in es /\ granted[e] < 2 THEN granted[e] + 1 ELSE granted[e]
    BY <1>1, <1>4 DEF Consume, Grant
  <2>2. signaled' = signaled \ AutoReset(es)
    BY <1>4 DEF Consume
  <2>3. e \in es => e \in AutoReset(es)
    BY DEF AutoReset
  <2>. QED
    BY <1>1, <1>2, <2>1, <2>2, <2>3
<1>5. ASSUME NEW f \in Events,
             signaled' \subseteq signaled \cup {f},
             granted' \in [Events -> 0 .. 2],
             granted'[f] = 0,
             \A g \in Events \ {f} : granted'[g] = granted[g]
      PROVE  granted'[e] <= 1 /\ (e \in signaled' => granted'[e] = 0)
  BY <1>1, <1>2, <1>5
<1>. QED
  BY <1>3, <1>4, <1>5, EventShape

----------------------------------------------------------------------------
(* What is not made has no state.                                           *)

(* A thread parks only on handles that were made.                           *)
LEMMA ParkMade ==
  ASSUME TypeOK, MadeInv, NEW w, NEW finite, NEW kind,
         active \in Threads, runState[active] # "None", Park(w, finite, kind),
         \A i \in DOMAIN w.handles : w.handles[i] \in made
  PROVE  MadeInv'
<1>1. made' = made /\ granted' = granted
  BY DEF Park, objectVars
<1>2. \A t \in Threads : t # active => runState'[t] = runState[t] /\ wait'[t] = wait[t]
  BY DEF Park, ParkActive, TypeOK
<1>3. active \in made
  BY DEF MadeInv
<1>4. wait'[active] = w
  BY DEF Park, TypeOK
<1>. QED
  BY <1>1, <1>2, <1>3, <1>4 DEF MadeInv

(* Every step keeps MadeInv: what was not made has no state.                *)
LEMMA MadeStep ==
  TypeOK /\ MadeInv /\ RunnerInv /\ [Next]_vars => MadeInv'
<1>. SUFFICES ASSUME TypeOK, MadeInv, RunnerInv, [Next]_vars PROVE MadeInv'
  OBVIOUS
<1>. USE DEF threadVars, objectVars, contextVars
<1>1. made \subseteq made'
  BY DEF Next, RefreshStep, RefreshThread, ReturnFromRefresh, EndPulse,
     WakeMessageWaiters, SwitchTo, SwitchToMain, NothingToRun, ThreadCall,
     CreateThread, ResumeThread, ExitThread, CloseHandle, SleepZero, Sleep,
     Park, MainYield, Yield, EventCall, CreateEvent, SetEvent, ResetEvent,
     PulseEvent, WaitCall, WaitSingleReady, WaitSinglePark,
     MainWaitSinglePark, CompleteMainWait, WaitMultipleReady,
     WaitMultiplePark, MsgWaitPark, MessageCall, PostMessage, EnqueueMessage,
     TakeLastMessage, GetMessagePark, HostStep, TimePasses,
     TimePassesForMain, HostRefresh, HostSwitch, vars
<1>2. \A e \in Events \ made' : granted'[e] = 0
  <2>. TAKE e \in Events \ made'
  <2>1. e \notin made /\ granted[e] = 0
    BY <1>1 DEF MadeInv
  <2>2. ASSUME NEW es \in SUBSET signaled, Consume(es) PROVE granted'[e] = 0
    <3>1. e \notin es
      BY <2>1 DEF TypeOK
    <3>. QED
      BY <2>1, <2>2, <3>1 DEF Consume, Grant
  <2>. QED
    BY <2>1, <2>2, EventShape
<1>3. active # Main => active \in made /\ runState[active] # "None"
  BY DEF RunnerInv, MadeInv, TypeOK, Main
<1>4. /\ \A t \in Threads \ made' : runState'[t] = "None"
      /\ \A t \in Threads : \A i \in DOMAIN wait'[t].handles :
           wait'[t].handles[i] \in made'
  <2>1. CASE RefreshStep
    <3>1. CASE RefreshThread
      <4>1. made' = made
        BY <3>1 DEF RefreshThread
      <4>2. Sleeping.handles = << >>
        BY DEF Sleeping
      <4>. QED
        BY <3>1, <4>1, <4>2, RefreshShape DEF MadeInv
    <3>2. CASE ReturnFromRefresh \/ EndPulse \/ NothingToRun
      BY <3>2 DEF ReturnFromRefresh, EndPulse, NothingToRun, MadeInv
    <3>3. CASE WakeMessageWaiters
      BY <3>3 DEF WakeMessageWaiters, MadeInv
    <3>4. CASE \E t \in Threads : SwitchTo(t)
      BY <3>4 DEF SwitchTo, MadeInv
    <3>5. CASE SwitchToMain
      BY <1>3, <3>5 DEF SwitchToMain, MadeInv, TypeOK
    <3>. QED
      BY <2>1, <3>1, <3>2, <3>3, <3>4, <3>5 DEF RefreshStep
  <2>2. CASE ThreadCall
    <3>1. CASE \E suspended \in BOOLEAN : CreateThread(suspended)
      <4>. PICK suspended \in BOOLEAN : CreateThread(suspended)
        BY <3>1
      <4>. PICK t \in Threads \ made :
             /\ made' = made \cup {t}
             /\ runState' = [runState EXCEPT ![t] =
                  IF suspended THEN "Suspended" ELSE "Runnable"]
        BY DEF CreateThread
      <4>1. wait' = wait
        BY DEF CreateThread
      <4>. QED
        BY <4>1 DEF MadeInv, TypeOK
    <3>2. CASE \E t \in Threads : ResumeThread(t)
      BY <3>2 DEF ResumeThread, MadeInv, TypeOK
    <3>3. CASE ExitThread
      BY <1>3, <3>3, MainIsNoThread DEF ExitThread, ParkActive, Guest, MadeInv, TypeOK
    <3>4. CASE \E h \in Handles : CloseHandle(h)
      BY <3>4 DEF CloseHandle, MadeInv, TypeOK
    <3>5. CASE SleepZero
      <4>1. /\ made' = made
            /\ \A t \in Threads \ made : runState'[t] = runState[t]
        BY <1>3, <3>5, MainIsNoThread DEF SleepZero, ParkActive, Guest, TypeOK
      <4>2. \A t \in Threads : wait'[t].handles = wait[t].handles
        BY <3>5 DEF SleepZero, TypeOK, Waits
      <4>. QED
        BY <4>1, <4>2 DEF MadeInv
    <3>6. CASE Sleep
      <4>1. active \in Threads /\ active # Main
        BY <3>6, MainIsNoThread DEF Sleep, Guest
      <4>2. \A i \in DOMAIN Sleeping.handles : Sleeping.handles[i] \in made
        BY DEF Sleeping
      <4>3. MadeInv'
        BY <1>3, <3>6, <4>1, <4>2, ParkMade DEF Sleep
      <4>. QED
        BY <4>3 DEF MadeInv
    <3>7. CASE MainYield
      BY <3>7 DEF MainYield, MadeInv
    <3>8. CASE Yield
      BY <1>3, <3>8, MainIsNoThread DEF Yield, Guest, MadeInv, TypeOK
    <3>. QED
      BY <2>2, <3>1, <3>2, <3>3, <3>4, <3>5, <3>6, <3>7, <3>8 DEF ThreadCall
  <2>3. CASE EventCall
    BY <2>3 DEF EventCall, CreateEvent, SetEvent, ResetEvent, PulseEvent, MadeInv
  <2>4. CASE WaitCall
    <3>1. ASSUME NEW h \in Handles, NEW finite \in BOOLEAN, WaitSinglePark(h, finite)
          PROVE  MadeInv'
      <4>1. active \in Threads /\ active # Main
        BY <3>1, MainIsNoThread DEF WaitSinglePark, Guest
      <4>. DEFINE w == WaitFor(<<h>>, FALSE, FALSE)
      <4>2. \A i \in DOMAIN w.handles : w.handles[i] \in made
        BY <3>1 DEF WaitFor, WaitSinglePark, Missing, TypeOK
      <4>3. PICK kind : Park(w, finite, kind)
        BY <3>1 DEF WaitSinglePark
      <4>. HIDE DEF w
      <4>. QED
        BY <1>3, <4>1, <4>2, <4>3, ParkMade
    <3>2. ASSUME NEW w \in MultiWaits, NEW finite \in BOOLEAN,
                 WaitMultiplePark(w, finite) \/ MsgWaitPark(w, finite)
          PROVE  MadeInv'
      <4>1. active \in Threads /\ active # Main
        BY <3>2, MainIsNoThread DEF WaitMultiplePark, MsgWaitPark, Guest
      <4>2. /\ \A msgs \in BOOLEAN : WaitFor(w.handles, w.all, msgs).handles = w.handles
            /\ \A i \in DOMAIN w.handles : w.handles[i] \in made
        BY <3>2 DEF WaitFor, WaitMultiplePark, MsgWaitPark, Usable
      <4>. QED
        BY <1>3, <3>2, <4>1, <4>2, ParkMade DEF WaitMultiplePark, MsgWaitPark
    <3>3. CASE \/ \E h \in Handles : WaitSingleReady(h)
               \/ \E h \in Handles, finite \in BOOLEAN : MainWaitSinglePark(h, finite)
               \/ CompleteMainWait
               \/ \E w \in MultiWaits : WaitMultipleReady(w)
      BY <3>3 DEF WaitSingleReady, MainWaitSinglePark, CompleteMainWait,
           WaitMultipleReady, MadeInv, vars
    <3>. QED
      BY <2>4, <3>1, <3>2, <3>3 DEF WaitCall, MadeInv
  <2>5. CASE MessageCall
    <3>1. CASE GetMessagePark
      BY <1>3, <3>1, MainIsNoThread DEF GetMessagePark, ParkActive, Guest, MadeInv, TypeOK
    <3>2. CASE ~GetMessagePark
      BY <2>5, <3>2 DEF MessageCall, PostMessage, EnqueueMessage, TakeLastMessage, MadeInv
    <3>. QED
      BY <3>1, <3>2
  <2>6. CASE HostStep
    BY <2>6 DEF HostStep, TimePasses, TimePassesForMain, HostRefresh, HostSwitch, MadeInv
  <2>7. CASE UNCHANGED vars
    BY <2>7 DEF vars, MadeInv
  <2>. QED
    BY <2>1, <2>2, <2>3, <2>4, <2>5, <2>6, <2>7 DEF Next
<1>. QED
  BY <1>2, <1>4 DEF MadeInv

----------------------------------------------------------------------------
(* Who runs.                                                                *)

(* A thread that parks leaves the processor.                                *)
LEMMA ParkRunner ==
  ASSUME TypeOK, RunnerInv, active \in Threads, NEW state, state # "Running",
         ParkActive(state)
  PROVE  RunnerInv'
BY DEF ParkActive, RunnerInv, TypeOK, Main

(* A step that starts no loop for a switch, and leaves the active and the   *)
(* running threads be.                                                      *)
LEMMA SameRunner ==
  ASSUME RunnerInv, active' = active, Idle,
         active # Main => runState'[active] = runState[active],
         \A t \in Threads : runState'[t] = "Running" => runState[t] = "Running"
  PROVE  RunnerInv'
BY DEF RunnerInv, Idle

(* Every step keeps RunnerInv: one thread runs, or a switch is under way.   *)
LEMMA RunnerStep ==
  TypeOK /\ MadeInv /\ RunnerInv /\ [Next]_vars => RunnerInv'
<1>. SUFFICES ASSUME TypeOK, MadeInv, RunnerInv, [Next]_vars PROVE RunnerInv'
  OBVIOUS
<1>. USE DEF threadVars, objectVars, contextVars
<1>1. CASE RefreshStep
  <2>1. CASE RefreshThread
    <3>1. active' = active /\ scan'.then = scan.then /\ ~Idle /\ ~Idle'
      BY <2>1, MainIsNoThread, KernelAssumption
         DEF RefreshThread, Idle, TypeOK, Scans, Threads, Main
    <3>2. \A t \in Threads : runState'[t] = "Running" => runState[t] = "Running"
      BY <2>1, RefreshShape
    <3>3. \A t \in Threads :
            runState[t] # "Waiting" => runState'[t] = runState[t]
      BY <2>1, RefreshShape
    <3>. QED
      BY <3>1, <3>2, <3>3 DEF RunnerInv, TypeOK
  <2>2. CASE ReturnFromRefresh \/ EndPulse
    BY <2>2 DEF ReturnFromRefresh, EndPulse, RunnerInv, Idle
  <2>3. CASE WakeMessageWaiters
    BY <2>3, NoScanType DEF WakeMessageWaiters, RunnerInv, Idle, TypeOK
  <2>4. ASSUME NEW t \in Threads, SwitchTo(t) PROVE RunnerInv'
    BY <2>4 DEF SwitchTo, RunnerInv, TypeOK
  <2>5. CASE SwitchToMain
    BY <2>5 DEF SwitchToMain, RunnerInv, TypeOK
  <2>6. CASE NothingToRun
    BY <2>6 DEF NothingToRun, RunnerInv, TypeOK
  <2>. QED
    BY <1>1, <2>1, <2>2, <2>3, <2>4, <2>5, <2>6 DEF RefreshStep
<1>2. CASE ThreadCall
  <2>1. ASSUME NEW suspended \in BOOLEAN, CreateThread(suspended) PROVE RunnerInv'
    <3>1. PICK t \in Threads \ made :
            runState' = [runState EXCEPT ![t] =
              IF suspended THEN "Suspended" ELSE "Runnable"]
      BY <2>1 DEF CreateThread
    <3>2. active # Main => active # t
      BY <3>1 DEF RunnerInv, MadeInv
    <3>. QED
      BY <2>1, <3>1, <3>2, SameRunner DEF CreateThread, Guest, TypeOK
  <2>2. ASSUME NEW t \in Threads, ResumeThread(t) PROVE RunnerInv'
    <3>1. active # Main => runState[active] # "Suspended"
      BY DEF RunnerInv
    <3>2. /\ runState' = [runState EXCEPT ![t] =
              IF @ = "Suspended" /\ suspendCount[t] <= 1 THEN "Runnable" ELSE @]
          /\ Idle /\ active' = active
      BY <2>2 DEF ResumeThread, Guest
    <3>3. active # Main => runState'[active] = runState[active]
      BY <3>1, <3>2 DEF TypeOK
    <3>4. \A u \in Threads : runState'[u] = "Running" => runState[u] = "Running"
      BY <3>2 DEF TypeOK
    <3>. QED
      BY <3>2, <3>3, <3>4, SameRunner
  <2>3. CASE ExitThread
    BY <2>3, ParkRunner DEF ExitThread, Guest
  <2>4. ASSUME NEW h \in Handles, CloseHandle(h) PROVE RunnerInv'
    <3>1. active # Main => runState[active] = "Running"
      BY <2>4 DEF RunnerInv, CloseHandle, Guest
    <3>. QED
      BY <2>4, <3>1, SameRunner DEF CloseHandle, Guest, TypeOK
  <2>5. CASE SleepZero
    BY <2>5, ParkRunner DEF SleepZero, Guest
  <2>6. CASE Sleep
    BY <2>6, ParkRunner DEF Sleep, Park, Guest
  <2>7. CASE MainYield
    BY <2>7 DEF MainYield, Guest, RunnerInv
  <2>8. CASE Yield
    <3>1. active \in Threads /\ active' = active
      BY <2>8 DEF Yield, Guest
    <3>2. scan'.then = "switch" /\ ~Idle'
      BY <2>8 DEF Yield, Refresh, Idle
    <3>3. runState' = [runState EXCEPT ![active] = "Runnable"]
      BY <2>8 DEF Yield
    <3>. QED
      BY <3>1, <3>2, <3>3 DEF RunnerInv, TypeOK
  <2>. QED
    BY <1>2, <2>1, <2>2, <2>3, <2>4, <2>5, <2>6, <2>7, <2>8 DEF ThreadCall
<1>3. CASE EventCall
  BY <1>3, SameRunner
     DEF EventCall, CreateEvent, SetEvent, ResetEvent, PulseEvent, Guest
<1>4. CASE WaitCall
  <2>1. CASE \/ \E h \in Handles, finite \in BOOLEAN : WaitSinglePark(h, finite)
             \/ \E w \in MultiWaits, finite \in BOOLEAN :
                  WaitMultiplePark(w, finite) \/ MsgWaitPark(w, finite)
    <3>1. active \in Threads /\ ParkActive("Waiting")
      BY <2>1 DEF WaitSinglePark, WaitMultiplePark, MsgWaitPark, Park, Guest
    <3>. QED
      BY <3>1, ParkRunner
  <2>2. CASE \/ \E h \in Handles : WaitSingleReady(h)
             \/ \E h \in Handles, finite \in BOOLEAN : MainWaitSinglePark(h, finite)
             \/ CompleteMainWait
    BY <2>2, SameRunner
       DEF WaitSingleReady, MainWaitSinglePark, CompleteMainWait, Guest
  <2>3. CASE \E w \in MultiWaits : WaitMultipleReady(w)
    BY <2>3 DEF WaitMultipleReady, vars, RunnerInv, Idle
  <2>. QED
    BY <1>4, <2>1, <2>2, <2>3 DEF WaitCall
<1>5. CASE MessageCall
  <2>1. CASE GetMessagePark
    BY <2>1, ParkRunner DEF GetMessagePark, Guest
  <2>2. CASE ~GetMessagePark
    BY <1>5, <2>2, SameRunner
       DEF MessageCall, PostMessage, EnqueueMessage, TakeLastMessage, Guest
  <2>. QED
    BY <2>1, <2>2
<1>6. CASE HostStep
  BY <1>6, SameRunner
     DEF HostStep, TimePasses, TimePassesForMain, HostRefresh, HostSwitch
<1>7. CASE UNCHANGED vars
  BY <1>7 DEF vars, RunnerInv, Idle
<1>. QED
  BY <1>1, <1>2, <1>3, <1>4, <1>5, <1>6, <1>7 DEF Next

----------------------------------------------------------------------------
(* No lost wake-up.                                                         *)

(* The threads the loop has dealt with: all of them, when it is not running.*)
Settled(t) == Idle \/ t < scan.next

(* A thread whose wait is neither satisfied nor at its deadline is not      *)
(* overdue.                                                                 *)
LEMMA NotOverdue ==
  ASSUME TypeOK, NEW w, NotSatisfied(w)
  PROVE  ~OverdueForEvents(w)
<1>1. \A h : EventSignaled(h) => Ready(h) /\ ~Missing(h)
  BY DEF EventSignaled, Ready, Missing, TypeOK
<1>. QED
  BY <1>1 DEF NotSatisfied, Undecided, Decided, AllReady, OverdueForEvents

(* A step that signals nothing, and after which the threads parked and      *)
(* settled are some that were before.                                       *)
LEMMA QuietStep ==
  ASSUME WakeInv,
         open' \cap signaled' \subseteq open \cap signaled,
         \A t \in Threads :
           Settled(t)' /\ runState'[t] = "Waiting"
             => \/ Settled(t) /\ runState[t] = "Waiting" /\ wait'[t] = wait[t]
                \/ ~OverdueForEvents(wait[t]) /\ wait'[t] = wait[t]
  PROVE  WakeInv'
<1>1. \A w : OverdueForEvents(w)' => OverdueForEvents(w)
  BY DEF OverdueForEvents, EventSignaled
<1>. QED
  BY <1>1 DEF WakeInv, Settled

(* While a loop is at its start nothing is settled.                         *)
LEMMA LoopBegins ==
  ASSUME scan'.next = 1
  PROVE  WakeInv'
<1>1. \A t \in Threads : ~(t < 1)
  BY KernelAssumption DEF Threads
<1>2. ~Idle'
  BY DEF Idle
<1>. QED
  BY <1>1, <1>2 DEF WakeInv

(* A thread that parks is not overdue.                                      *)
LEMMA ParkWake ==
  ASSUME TypeOK, WakeInv, Idle, active \in Threads,
         NEW w \in Waits, NEW finite, NEW kind, Park(w, finite, kind),
         ~OverdueForEvents(w)
  PROVE  WakeInv'
<1>1. /\ open' = open /\ signaled' = signaled
      /\ \A t \in Threads \ {active} :
           runState'[t] = runState[t] /\ wait'[t] = wait[t]
      /\ wait'[active] = w
  BY DEF Park, ParkActive, objectVars, TypeOK
<1>2. ASSUME NEW t \in Threads, runState'[t] = "Waiting"
      PROVE  ~OverdueForEvents(wait'[t])
  BY <1>1, <1>2 DEF WakeInv
<1>3. \A t \in Threads : OverdueForEvents(wait[t])' <=> OverdueForEvents(wait'[t])
  BY <1>1 DEF OverdueForEvents, EventSignaled
<1>. QED
  BY <1>2, <1>3 DEF WakeInv

(* Every step keeps WakeInv: the refresh loop leaves nobody overdue behind  *)
(* it.                                                                      *)
LEMMA WakeStep ==
  TypeOK /\ MadeInv /\ WakeInv /\ [Next]_vars => WakeInv'
<1>. SUFFICES ASSUME TypeOK, MadeInv, WakeInv, [Next]_vars PROVE WakeInv'
  OBVIOUS
<1>. USE DEF threadVars, objectVars, contextVars
<1>1. CASE RefreshStep
  <2>0. \A t \in Threads : Refreshed => t < scan.next
    BY KernelAssumption DEF Refreshed, Threads
  <2>1. CASE RefreshThread
    <3>1. scan' = [scan EXCEPT !.next = scan.next + 1] /\ open' = open
      BY <2>1 DEF RefreshThread
    <3>2. signaled' \subseteq signaled
      BY <2>1, RefreshShape DEF Consume
    <3>3. \A t \in Threads :
            Settled(t)' => t < scan.next \/ t = scan.next
      BY <2>1, <3>1, KernelAssumption
         DEF RefreshThread, Settled, Idle, TypeOK, Scans, Threads
    <3>4. ASSUME runState'[scan.next] = "Waiting"
          PROVE  ~OverdueForEvents(wait[scan.next]) /\ wait'[scan.next] = wait[scan.next]
      <4>1. /\ wait'[scan.next] = wait[scan.next]
            /\ \/ NotSatisfied(wait[scan.next])
               \/ wait[scan.next].handles = << >>
        BY <2>1, <3>4, RefreshShape
      <4>2. wait[scan.next].handles = << >> => ~OverdueForEvents(wait[scan.next])
        BY DEF OverdueForEvents
      <4>. QED
        BY <4>1, <4>2, NotOverdue
    <3>5. \A t \in Threads : t # scan.next =>
            runState'[t] = runState[t] /\ wait'[t] = wait[t]
      BY <2>1, RefreshShape
    <3>. QED
      BY <3>1, <3>2, <3>3, <3>4, <3>5, QuietStep DEF Settled
  <2>2. CASE ReturnFromRefresh
    BY <2>0, <2>2, QuietStep DEF ReturnFromRefresh, Settled
  <2>3. CASE EndPulse
    BY <2>0, <2>3, QuietStep DEF EndPulse, Settled
  <2>4. CASE WakeMessageWaiters
    BY <2>0, <2>4, QuietStep DEF WakeMessageWaiters, Settled, TypeOK
  <2>5. ASSUME NEW t \in Threads, SwitchTo(t) PROVE WakeInv'
    <3>1. \A u \in Threads : runState'[u] = "Waiting" => runState[u] = "Waiting"
      BY <2>5 DEF SwitchTo, TypeOK
    <3>. QED
      BY <2>0, <2>5, <3>1, QuietStep DEF SwitchTo, Settled
  <2>6. CASE SwitchToMain
    <3>1. \A u \in Threads : runState'[u] = "Waiting" => runState[u] = "Waiting"
      BY <2>6 DEF SwitchToMain, TypeOK
    <3>. QED
      BY <2>0, <2>6, <3>1, QuietStep DEF SwitchToMain, Settled
  <2>7. CASE NothingToRun
    BY <2>0, <2>7, QuietStep DEF NothingToRun, Settled
  <2>. QED
    BY <1>1, <2>1, <2>2, <2>3, <2>4, <2>5, <2>6, <2>7 DEF RefreshStep
<1>2. CASE ThreadCall
  <2>1. ASSUME NEW suspended \in BOOLEAN, CreateThread(suspended) PROVE WakeInv'
    <3>1. CASE scan'.next = 1
      BY <3>1, LoopBegins
    <3>2. CASE scan' = scan
      <4>1. PICK t \in Threads \ made :
              /\ open' = open \cup {t}
              /\ runState' = [runState EXCEPT ![t] =
                   IF suspended THEN "Suspended" ELSE "Runnable"]
        BY <2>1 DEF CreateThread
      <4>2. signaled' = signaled /\ wait' = wait /\ Idle
        BY <2>1 DEF CreateThread, Guest
      <4>3. open' \cap signaled' \subseteq open \cap signaled
        BY <4>1, <4>2 DEF TypeOK
      <4>4. \A u \in Threads : runState'[u] = "Waiting" => runState[u] = "Waiting"
        BY <4>1 DEF TypeOK
      <4>. QED
        BY <4>2, <4>3, <4>4, QuietStep DEF Settled
    <3>. QED
      BY <2>1, <3>1, <3>2 DEF CreateThread, YieldIfMain, Refresh
  <2>2. ASSUME NEW t \in Threads, ResumeThread(t) PROVE WakeInv'
    <3>1. CASE scan'.next = 1
      BY <3>1, LoopBegins
    <3>2. CASE scan' = scan
      <4>1. \A u \in Threads : runState'[u] = "Waiting" => runState[u] = "Waiting"
        BY <2>2 DEF ResumeThread, TypeOK
      <4>2. open' = open /\ signaled' = signaled /\ wait' = wait /\ Idle
        BY <2>2 DEF ResumeThread, Guest
      <4>. QED
        BY <4>1, <4>2, QuietStep DEF Settled
    <3>. QED
      BY <2>2, <3>1, <3>2 DEF ResumeThread, YieldIfMain, Refresh
  <2>3. CASE ExitThread
    <3>1. CASE scan'.next = 1
      BY <3>1, LoopBegins
    <3>2. CASE scan' = scan
      <4>1. \A u \in Threads : runState'[u] = "Waiting" => runState[u] = "Waiting"
        BY <2>3 DEF ExitThread, ParkActive, TypeOK
      <4>2. open' = open /\ signaled' = signaled /\ wait' = wait /\ Idle
        BY <2>3 DEF ExitThread, Guest
      <4>. QED
        BY <4>1, <4>2, QuietStep DEF Settled
    <3>. QED
      BY <2>3, <3>1, <3>2 DEF ExitThread, Refresh
  <2>4. ASSUME NEW h \in Handles, CloseHandle(h) PROVE WakeInv'
    <3>1. \A u \in Threads : runState'[u] = "Waiting" => runState[u] = "Waiting"
      BY <2>4 DEF CloseHandle, TypeOK
    <3>2. open' \subseteq open /\ signaled' = signaled /\ wait' = wait /\ Idle
      BY <2>4 DEF CloseHandle, Guest
    <3>. QED
      BY <3>1, <3>2, QuietStep DEF Settled
  <2>5. CASE SleepZero
    <3>1. /\ active \in Threads /\ Idle
          /\ runState' = [runState EXCEPT ![active] = "Runnable"]
          /\ wait' = [wait EXCEPT ![active].onTimeout = 0]
          /\ open' = open /\ signaled' = signaled
      BY <2>5 DEF SleepZero, Guest, ParkActive
    <3>2. \A u \in Threads : runState'[u] = "Waiting" =>
            runState[u] = "Waiting" /\ wait'[u] = wait[u]
      BY <3>1 DEF TypeOK
    <3>. QED
      BY <3>1, <3>2, QuietStep DEF Settled
  <2>6. CASE Sleep
    <3>1. Sleeping \in Waits
      <4>1. << >> \in Seq(Handles)
        OBVIOUS
      <4>. QED
        BY <4>1 DEF Sleeping, Waits
    <3>2. ~OverdueForEvents(Sleeping)
      BY DEF OverdueForEvents, Sleeping
    <3>. QED
      BY <2>6, <3>1, <3>2, ParkWake DEF Sleep, Guest
  <2>7. CASE MainYield \/ Yield
    BY <2>7, LoopBegins DEF MainYield, Yield, Refresh
  <2>. QED
    BY <1>2, <2>1, <2>2, <2>3, <2>4, <2>5, <2>6, <2>7 DEF ThreadCall
<1>3. CASE EventCall
  <2>. PICK e \in Events :
         \/ \E initial \in BOOLEAN : CreateEvent(e, initial)
         \/ SetEvent(e)
         \/ ResetEvent(e)
         \/ PulseEvent(e)
    BY <1>3 DEF EventCall
  <2>1. CASE SetEvent(e) \/ PulseEvent(e)
    BY <2>1, LoopBegins DEF SetEvent, PulseEvent, Refresh
  <2>2. CASE ResetEvent(e)
    BY <2>2, QuietStep DEF ResetEvent, Settled, Guest
  <2>3. CASE \E initial \in BOOLEAN : CreateEvent(e, initial)
    <3>1. /\ e \notin made /\ Idle /\ Idle'
          /\ open' = open \cup {e} /\ signaled' \subseteq signaled \cup {e}
          /\ runState' = runState /\ wait' = wait
      BY <2>3 DEF CreateEvent, Guest, Idle
    <3>2. ASSUME NEW t \in Threads, runState[t] = "Waiting"
          PROVE  ~OverdueForEvents(wait[t])'
      <4>1. ~OverdueForEvents(wait[t])
        BY <3>1, <3>2 DEF WakeInv
      <4>2. \A i \in DOMAIN wait[t].handles : wait[t].handles[i] # e
        BY <3>1 DEF MadeInv
      <4>3. \A i \in DOMAIN wait[t].handles :
              EventSignaled(wait[t].handles[i])' => EventSignaled(wait[t].handles[i])
        BY <3>1, <4>2 DEF EventSignaled
      <4>. QED
        BY <3>1, <4>1, <4>3 DEF OverdueForEvents
    <3>. QED
      BY <3>1, <3>2 DEF WakeInv
  <2>. QED
    BY <2>1, <2>2, <2>3
<1>4. CASE WaitCall
  <2>1. ASSUME NEW h \in Handles, NEW finite \in BOOLEAN, WaitSinglePark(h, finite)
        PROVE  WakeInv'
    <3>. DEFINE w == WaitFor(<<h>>, FALSE, FALSE)
    <3>1. <<h>> \in Seq(Handles)
      OBVIOUS
    <3>2. w \in Waits
      BY <3>1, WaitForType
    <3>3. ~EventSignaled(h)
      BY <2>1 DEF WaitSinglePark, EventSignaled, Ready, TypeOK
    <3>4. ~OverdueForEvents(w)
      BY <3>3 DEF OverdueForEvents, WaitFor
    <3>5. PICK kind : Park(w, finite, kind)
      BY <2>1 DEF WaitSinglePark
    <3>6. Idle /\ active \in Threads
      BY <2>1 DEF WaitSinglePark, Guest
    <3>. HIDE DEF w
    <3>. QED
      BY <3>2, <3>4, <3>5, <3>6, ParkWake
  <2>2. ASSUME NEW w \in MultiWaits, NEW finite \in BOOLEAN,
               WaitMultiplePark(w, finite) \/ MsgWaitPark(w, finite)
        PROVE  WakeInv'
    <3>1. w.handles \in Seq(Handles) /\ w.all \in BOOLEAN
      BY KernelAssumption
    <3>2. PICK msgs \in BOOLEAN, kind \in {"finite", "infinite"} :
            Park(WaitFor(w.handles, w.all, msgs), finite, kind)
      BY <2>2 DEF WaitMultiplePark, MsgWaitPark
    <3>. DEFINE p == WaitFor(w.handles, w.all, msgs)
    <3>3. p \in Waits
      BY <3>1, WaitForType
    <3>4. ~OverdueForEvents(w)
      <4>1. NotSatisfied(w) \/ w.handles = << >>
        BY <2>2 DEF WaitMultiplePark, MsgWaitPark
      <4>. QED
        BY <4>1, NotOverdue DEF OverdueForEvents
    <3>5. ~OverdueForEvents(p)
      BY <3>4 DEF OverdueForEvents, WaitFor
    <3>6. Idle /\ active \in Threads
      BY <2>2 DEF WaitMultiplePark, MsgWaitPark, Guest
    <3>7. Park(p, finite, kind)
      BY <3>2
    <3>. HIDE DEF p
    <3>. QED
      BY <3>3, <3>5, <3>6, <3>7, ParkWake
  <2>3. ASSUME NEW h \in Handles, WaitSingleReady(h) PROVE WakeInv'
    BY <2>3, QuietStep DEF WaitSingleReady, Consume, Settled, Guest
  <2>4. CASE CompleteMainWait
    BY <2>4, QuietStep DEF CompleteMainWait, Consume, Settled
  <2>5. CASE \E h \in Handles, finite \in BOOLEAN : MainWaitSinglePark(h, finite)
    BY <2>5, LoopBegins DEF MainWaitSinglePark, Refresh
  <2>6. CASE \E w \in MultiWaits : WaitMultipleReady(w)
    BY <2>6, QuietStep DEF WaitMultipleReady, vars, Settled, Idle
  <2>. QED
    BY <1>4, <2>1, <2>2, <2>3, <2>4, <2>5, <2>6 DEF WaitCall
<1>5. CASE MessageCall
  <2>1. ASSUME NEW owner \in Receivers, PostMessage(owner) PROVE WakeInv'
    BY <2>1, LoopBegins DEF PostMessage, Refresh
  <2>2. CASE (\E owner \in Receivers : EnqueueMessage(owner)) \/ TakeLastMessage
    BY <2>2, QuietStep DEF EnqueueMessage, TakeLastMessage, Settled, Guest
  <2>3. CASE GetMessagePark
    <3>1. \A u \in Threads : runState'[u] = "Waiting" => runState[u] = "Waiting"
      BY <2>3 DEF GetMessagePark, ParkActive, TypeOK
    <3>. QED
      BY <2>3, <3>1, QuietStep DEF GetMessagePark, Guest, Settled
  <2>. QED
    BY <1>5, <2>1, <2>2, <2>3 DEF MessageCall
<1>6. CASE HostStep
  <2>1. CASE (\E t \in Threads : TimePasses(t)) \/ TimePassesForMain
    BY <2>1, QuietStep DEF TimePasses, TimePassesForMain, Settled, Idle
  <2>2. CASE HostRefresh \/ HostSwitch
    BY <2>2, LoopBegins DEF HostRefresh, HostSwitch, Refresh
  <2>. QED
    BY <1>6, <2>1, <2>2 DEF HostStep
<1>7. CASE UNCHANGED vars
  BY <1>7, QuietStep DEF vars, Settled, Idle
<1>. QED
  BY <1>1, <1>2, <1>3, <1>4, <1>5, <1>6, <1>7 DEF Next

----------------------------------------------------------------------------
(* What a parked call returns.                                              *)

(* What changes no thread's record keeps FitInv.                            *)
LEMMA FitQuiet ==
  ASSUME FitInv, UNCHANGED <<lastWait, v0, deadline, wait>>,
         \A t \in Threads : runState'[t] = "Waiting" => runState[t] = "Waiting"
  PROVE  FitInv'
BY DEF FitInv

(* readGuestWaitHandles takes at most MaxWaitObjects handles, so no index of
   a handle is the code of a timeout. *)
LEMMA OneFits == 1 <= MaxWaitObjects /\ 0 <= MaxWaitObjects
BY DEF MaxWaitObjects

(* The index of a handle is not the value of a time-out.                    *)
LEMMA IndexIsNoTimeout ==
  /\ \A n \in Nat : n <= MaxWaitObjects => WaitObject0 + n # WaitTimeout
  /\ WaitObject0 # WaitTimeout
BY DEF WaitObject0, WaitTimeout, MaxWaitObjects

(* A call parks: what it may return is settled by its deadline and its wait.*)
LEMMA ParkFit ==
  ASSUME TypeOK, FitInv, active \in Threads, NEW w \in Waits, NEW finite \in BOOLEAN,
         NEW kind, Park(w, finite, kind), Len(w.handles) <= MaxWaitObjects,
         kind = "infinite" => ~finite, kind = "sleep" => w = Sleeping
  PROVE  FitInv'
<1>1. /\ deadline' = [deadline EXCEPT ![active] = IF finite THEN "ahead" ELSE "none"]
      /\ v0' = [v0 EXCEPT ![active] = 0]
      /\ lastWait' = [lastWait EXCEPT ![active] = kind]
      /\ wait' = [wait EXCEPT ![active] = w]
      /\ runState' = [runState EXCEPT ![active] = "Waiting"]
  BY DEF Park, ParkActive, NewDeadline
<1>2. \A t \in Threads \ {active} :
        /\ deadline'[t] = deadline[t] /\ v0'[t] = v0[t] /\ lastWait'[t] = lastWait[t]
        /\ wait'[t] = wait[t] /\ runState'[t] = runState[t]
  BY <1>1 DEF TypeOK
<1>3. /\ v0'[active] = 0 /\ lastWait'[active] = kind /\ wait'[active] = w
      /\ ~finite => deadline'[active] = "none"
  BY <1>1 DEF TypeOK
<1>. QED
  BY <1>2, <1>3 DEF FitInv, WaitTimeout

(* A turn of the loop.                                                      *)
LEMMA RefreshFit ==
  ASSUME TypeOK, FitInv, RefreshThread
  PROVE  FitInv'
<1>. DEFINE t == scan.next
            w == wait[t]
<1>1. t \in Threads /\ UNCHANGED lastWait
  BY DEF RefreshThread
<1>2. w \in Waits /\ w.handles \in Seq(Handles) /\ Len(w.handles) \in Nat
      /\ Len(w.handles) <= MaxWaitObjects
  BY <1>1 DEF TypeOK, Waits, FitInv
<1>3. ASSUME NEW r, Wake(t, r), deadline' \in [Threads -> {"none", "ahead", "past"}],
             \A u \in Threads \ {t} : deadline'[u] = deadline[u],
             lastWait[t] = "infinite" => r # WaitTimeout,
             lastWait[t] = "sleep" => r = 0
      PROVE  FitInv'
  <2>1. \A u \in Threads \ {t} :
          /\ runState'[u] = runState[u] /\ wait'[u] = wait[u] /\ v0'[u] = v0[u]
    BY <1>3 DEF Wake, TypeOK
  <2>2. runState'[t] = "Runnable" /\ wait'[t] = Sleeping /\ v0'[t] = r
    BY <1>1, <1>3 DEF Wake, TypeOK
  <2>3. Len(Sleeping.handles) <= MaxWaitObjects
    BY DEF Sleeping, MaxWaitObjects
  <2>. QED
    BY <1>1, <1>3, <2>1, <2>2, <2>3 DEF FitInv
<1>4. CASE UNCHANGED <<runState, wait, deadline, v0, signaled, granted>>
  BY <1>1, <1>4 DEF FitInv
<1>5. CASE runState[t] = "Waiting" /\ Expire(t)
  <2>1. /\ deadline[t] = "past" /\ Wake(t, w.onTimeout)
        /\ deadline' = [deadline EXCEPT ![t] = "none"]
    BY <1>5 DEF Expire, TimeUp
  <2>2. lastWait[t] # "infinite"
    BY <1>1, <1>5, <2>1 DEF FitInv
  <2>3. lastWait[t] = "sleep" => w.onTimeout = 0
    BY <1>1, <1>5 DEF FitInv, Sleeping
  <2>. QED
    BY <1>1, <1>3, <2>1, <2>2, <2>3 DEF TypeOK
<1>6. CASE runState[t] = "Waiting" /\ WakeForMessage(t)
  <2>. DEFINE r == IF w.msgs THEN WaitObject0 + Len(w.handles) ELSE WaitObject0
  <2>1. Wake(t, r) /\ UNCHANGED deadline /\ (w.msgs \/ Len(w.handles) > 1)
    BY <1>6 DEF WakeForMessage
  <2>2. r # WaitTimeout
    <3>1. PICK n \in Nat : n = Len(w.handles) /\ n <= MaxWaitObjects
      BY <1>2
    <3>2. WaitObject0 + n # WaitTimeout /\ WaitObject0 # WaitTimeout
      BY <3>1, IndexIsNoTimeout
    <3>. QED
      BY <3>1, <3>2
  <2>3. lastWait[t] # "sleep"
    BY <1>1, <1>6, <2>1 DEF FitInv, Sleeping
  <2>. HIDE DEF r
  <2>. QED
    BY <1>1, <1>3, <2>1, <2>2, <2>3 DEF TypeOK
<1>7. ASSUME w = Sleeping PROVE ~WakeForObject(t) /\ ~WakeForAll(t)
  BY <1>7 DEF WakeForObject, WakeForAll, Sleeping
<1>8. CASE runState[t] = "Waiting" /\ WakeForObject(t)
  <2>1. PICK i \in DOMAIN w.handles :
          IF Missing(w.handles[i])
          THEN Wake(t, WaitFailed) /\ UNCHANGED <<signaled, granted>>
          ELSE Wake(t, WaitObject0 + i - 1) /\ Consume(Deciding(w, i))
    BY <1>8 DEF WakeForObject
  <2>2. lastWait[t] # "sleep" /\ UNCHANGED deadline
    BY <1>1, <1>7, <1>8 DEF FitInv, WakeForObject
  <2>3. i \in 1 .. Len(w.handles)
    BY <1>2, <2>1
  <2>4. WaitFailed # WaitTimeout /\ WaitObject0 + i - 1 # WaitTimeout
    BY <1>2, <2>3 DEF WaitFailed, WaitObject0, WaitTimeout, MaxWaitObjects
  <2>5. PICK r : Wake(t, r) /\ r # WaitTimeout
    BY <2>1, <2>4
  <2>. QED
    BY <1>1, <1>3, <2>2, <2>5 DEF TypeOK
<1>9. CASE runState[t] = "Waiting" /\ WakeForAll(t)
  <2>1. Wake(t, WaitObject0) /\ UNCHANGED deadline
    BY <1>9 DEF WakeForAll
  <2>2. lastWait[t] # "sleep"
    BY <1>1, <1>7, <1>9 DEF FitInv
  <2>3. WaitObject0 # WaitTimeout
    BY DEF WaitObject0, WaitTimeout
  <2>. QED
    BY <1>1, <1>3, <2>1, <2>2, <2>3 DEF TypeOK
<1>. QED
  BY <1>4, <1>5, <1>6, <1>8, <1>9 DEF RefreshThread, StayParked

(* Every step keeps FitInv: a record holds what its wait's result is made   *)
(* from.                                                                    *)
LEMMA FitStep ==
  TypeOK /\ FitInv /\ [Next]_vars => FitInv'
<1>. SUFFICES ASSUME TypeOK, FitInv, [Next]_vars PROVE FitInv'
  OBVIOUS
<1>. USE DEF threadVars, objectVars, contextVars
<1>1. CASE RefreshStep
  <2>1. CASE RefreshThread
    BY <2>1, RefreshFit
  <2>2. CASE ReturnFromRefresh \/ EndPulse \/ NothingToRun
    BY <2>2, FitQuiet DEF ReturnFromRefresh, EndPulse, NothingToRun
  <2>3. CASE WakeMessageWaiters
    <3>1. \A t \in Threads : runState'[t] = "Waiting" => runState[t] = "Waiting"
      BY <2>3 DEF WakeMessageWaiters
    <3>. QED
      BY <2>3, <3>1, FitQuiet DEF WakeMessageWaiters
  <2>4. ASSUME NEW t \in Threads, SwitchTo(t) PROVE FitInv'
    <3>1. /\ \A u \in Threads : runState'[u] = "Waiting" => runState[u] = "Waiting"
          /\ v0'[t] = 0 /\ lastWait'[t] = "none" /\ UNCHANGED <<wait, deadline>>
          /\ \A u \in Threads \ {t} : v0'[u] = v0[u] /\ lastWait'[u] = lastWait[u]
      BY <2>4 DEF SwitchTo, TypeOK
    <3>. QED
      BY <3>1 DEF FitInv
  <2>5. CASE SwitchToMain
    <3>1. \A u \in Threads : runState'[u] = "Waiting" => runState[u] = "Waiting"
      BY <2>5 DEF SwitchToMain, TypeOK
    <3>. QED
      BY <2>5, <3>1, FitQuiet DEF SwitchToMain
  <2>. QED
    BY <1>1, <2>1, <2>2, <2>3, <2>4, <2>5 DEF RefreshStep
<1>2. CASE ThreadCall
  <2>1. ASSUME NEW suspended \in BOOLEAN, CreateThread(suspended) PROVE FitInv'
    <3>1. \A u \in Threads : runState'[u] = "Waiting" => runState[u] = "Waiting"
      BY <2>1 DEF CreateThread, TypeOK
    <3>. QED
      BY <2>1, <3>1, FitQuiet DEF CreateThread
  <2>2. ASSUME NEW t \in Threads, ResumeThread(t) PROVE FitInv'
    <3>1. \A u \in Threads : runState'[u] = "Waiting" => runState[u] = "Waiting"
      BY <2>2 DEF ResumeThread, TypeOK
    <3>. QED
      BY <2>2, <3>1, FitQuiet DEF ResumeThread
  <2>3. CASE ExitThread
    <3>1. \A u \in Threads : runState'[u] = "Waiting" => runState[u] = "Waiting"
      BY <2>3 DEF ExitThread, ParkActive, TypeOK
    <3>. QED
      BY <2>3, <3>1, FitQuiet DEF ExitThread
  <2>4. ASSUME NEW h \in Handles, CloseHandle(h) PROVE FitInv'
    <3>1. \A u \in Threads : runState'[u] = "Waiting" => runState[u] = "Waiting"
      BY <2>4 DEF CloseHandle, TypeOK
    <3>. QED
      BY <2>4, <3>1, FitQuiet DEF CloseHandle
  <2>5. CASE SleepZero
    <3>1. /\ active \in Threads
          /\ runState' = [runState EXCEPT ![active] = "Runnable"]
          /\ v0' = [v0 EXCEPT ![active] = 0]
          /\ wait' = [wait EXCEPT ![active].onTimeout = 0]
          /\ deadline' = [deadline EXCEPT ![active] = "none"]
          /\ lastWait' = [lastWait EXCEPT ![active] = "sleep"]
      BY <2>5 DEF SleepZero, Guest, ParkActive
    <3>2. \A t \in Threads \ {active} :
            /\ deadline'[t] = deadline[t] /\ v0'[t] = v0[t] /\ lastWait'[t] = lastWait[t]
            /\ wait'[t] = wait[t] /\ runState'[t] = runState[t]
      BY <3>1 DEF TypeOK
    <3>3. /\ v0'[active] = 0 /\ lastWait'[active] = "sleep" /\ runState'[active] = "Runnable"
      BY <3>1 DEF TypeOK
    <3>4. wait'[active].handles = wait[active].handles
      BY <3>1 DEF TypeOK, Waits
    <3>. QED
      BY <3>1, <3>2, <3>3, <3>4 DEF FitInv
  <2>6. CASE Sleep
    <3>1. active \in Threads /\ Park(Sleeping, TRUE, "sleep")
      BY <2>6 DEF Sleep, Guest
    <3>2. Sleeping \in Waits /\ Len(Sleeping.handles) <= MaxWaitObjects
      <4>1. << >> \in Seq(Handles)
        OBVIOUS
      <4>. QED
        BY <4>1 DEF Sleeping, Waits, MaxWaitObjects
    <3>. QED
      BY <3>1, <3>2, ParkFit
  <2>7. CASE MainYield
    BY <2>7, FitQuiet DEF MainYield
  <2>8. CASE Yield
    <3>1. /\ active \in Threads
          /\ runState' = [runState EXCEPT ![active] = "Runnable"]
          /\ lastWait' = [lastWait EXCEPT ![active] = "none"]
          /\ UNCHANGED <<wait, deadline, v0>>
      BY <2>8 DEF Yield, Guest
    <3>2. /\ \A t \in Threads \ {active} :
               lastWait'[t] = lastWait[t] /\ runState'[t] = runState[t]
          /\ lastWait'[active] = "none" /\ runState'[active] = "Runnable"
      BY <3>1 DEF TypeOK
    <3>. QED
      BY <3>1, <3>2 DEF FitInv
  <2>. QED
    BY <1>2, <2>1, <2>2, <2>3, <2>4, <2>5, <2>6, <2>7, <2>8 DEF ThreadCall
<1>3. CASE EventCall
  BY <1>3, FitQuiet DEF EventCall, CreateEvent, SetEvent, ResetEvent, PulseEvent
<1>4. CASE WaitCall
  <2>1. ASSUME NEW h \in Handles, NEW finite \in BOOLEAN, WaitSinglePark(h, finite)
        PROVE  FitInv'
    <3>. DEFINE w == WaitFor(<<h>>, FALSE, FALSE)
                kind == IF finite THEN "finite" ELSE "infinite"
    <3>1. <<h>> \in Seq(Handles) /\ Len(<<h>>) = 1
      OBVIOUS
    <3>2. w \in Waits /\ w.handles = <<h>>
      BY <3>1, WaitForType DEF WaitFor
    <3>3. Len(w.handles) <= MaxWaitObjects
      BY <3>1, <3>2, OneFits
    <3>4. active \in Threads /\ Park(w, finite, kind)
      BY <2>1 DEF WaitSinglePark, Guest
    <3>5. (kind = "infinite" => ~finite) /\ kind # "sleep"
      OBVIOUS
    <3>. HIDE DEF w, kind
    <3>. QED
      BY <3>2, <3>3, <3>4, <3>5, ParkFit
  <2>2. ASSUME NEW m \in MultiWaits, NEW finite \in BOOLEAN,
               WaitMultiplePark(m, finite) \/ MsgWaitPark(m, finite)
        PROVE  FitInv'
    <3>. DEFINE kind == IF finite THEN "finite" ELSE "infinite"
    <3>1. m.handles \in Seq(Handles) /\ m.all \in BOOLEAN /\ Len(m.handles) <= MaxWaitObjects
      BY KernelAssumption
    <3>2. PICK msgs \in BOOLEAN : Park(WaitFor(m.handles, m.all, msgs), finite, kind)
      BY <2>2 DEF WaitMultiplePark, MsgWaitPark
    <3>. DEFINE w == WaitFor(m.handles, m.all, msgs)
    <3>3. w \in Waits /\ w.handles = m.handles
      BY <3>1, WaitForType DEF WaitFor
    <3>4. active \in Threads /\ Park(w, finite, kind)
      BY <2>2, <3>2 DEF WaitMultiplePark, MsgWaitPark, Guest
    <3>5. (kind = "infinite" => ~finite) /\ kind # "sleep"
      OBVIOUS
    <3>. HIDE DEF w, kind
    <3>. QED
      BY <3>1, <3>3, <3>4, <3>5, ParkFit
  <2>3. CASE \/ \E h \in Handles : WaitSingleReady(h)
             \/ \E h \in Handles, finite \in BOOLEAN : MainWaitSinglePark(h, finite)
             \/ CompleteMainWait
             \/ \E m \in MultiWaits : WaitMultipleReady(m)
    BY <2>3, FitQuiet DEF WaitSingleReady, MainWaitSinglePark, CompleteMainWait,
         WaitMultipleReady, vars
  <2>. QED
    BY <1>4, <2>1, <2>2, <2>3 DEF WaitCall
<1>5. CASE MessageCall
  <2>1. CASE (\E o \in Receivers : PostMessage(o) \/ EnqueueMessage(o)) \/ TakeLastMessage
    BY <2>1, FitQuiet DEF PostMessage, EnqueueMessage, TakeLastMessage
  <2>2. CASE GetMessagePark
    <3>1. \A u \in Threads : runState'[u] = "Waiting" => runState[u] = "Waiting"
      BY <2>2 DEF GetMessagePark, ParkActive, TypeOK
    <3>. QED
      BY <2>2, <3>1, FitQuiet DEF GetMessagePark
  <2>. QED
    BY <1>5, <2>1, <2>2 DEF MessageCall
<1>6. CASE HostStep
  <2>1. ASSUME NEW t \in Threads, TimePasses(t) PROVE FitInv'
    <3>1. /\ deadline[t] = "ahead" /\ runState[t] = "Waiting"
          /\ UNCHANGED <<runState, wait, v0, lastWait>>
          /\ \A u \in Threads \ {t} : deadline'[u] = deadline[u]
      BY <2>1 DEF TimePasses, TypeOK
    <3>. QED
      BY <3>1 DEF FitInv
  <2>2. CASE TimePassesForMain \/ HostRefresh \/ HostSwitch
    BY <2>2, FitQuiet DEF TimePassesForMain, HostRefresh, HostSwitch
  <2>. QED
    BY <1>6, <2>1, <2>2 DEF HostStep
<1>7. CASE UNCHANGED vars
  BY <1>7, FitQuiet DEF vars
<1>. QED
  BY <1>1, <1>2, <1>3, <1>4, <1>5, <1>6, <1>7 DEF Next

----------------------------------------------------------------------------
(* The theorems.                                                            *)

(* The invariant holds at first.                                            *)
LEMMA InvInit == Init => IInv
<1>. SUFFICES ASSUME Init PROVE IInv
  OBVIOUS
<1>1. TypeOK
  BY TypeInit
<1>2. MadeInv
  BY DEF Init, MadeInv, Sleeping
<1>3. RunnerInv /\ GrantInv /\ WakeInv
  BY DEF Init, RunnerInv, GrantInv, WakeInv, AutoReset
<1>4. FitInv
  BY DEF Init, FitInv, Sleeping, MaxWaitObjects
<1>. QED
  BY <1>1, <1>2, <1>3, <1>4 DEF IInv

(* The invariant the others follow from holds of the kernel.                *)
THEOREM KernelInvariant == Spec => []IInv
<1>1. IInv /\ [Next]_vars => IInv'
  BY TypeStep, MadeStep, RunnerStep, GrantStep, WakeStep, FitStep DEF IInv
<1>. QED
  BY InvInit, <1>1, PTL DEF Spec

(* The kernel's records keep their shape: TypeOK for any number of threads, *)
(* whatever guest code calls (createGuestThread to refreshSignaledWaits).   *)
THEOREM KernelTypeCorrect == Spec => []TypeOK
<1>1. IInv => TypeOK
  BY DEF IInv
<1>. QED
  BY KernelInvariant, <1>1, PTL

(* Whoever parks, yields, ends, is switched to or has its handle closed,    *)
(* activeGuestThread_ names the one Running thread when guest code runs.    *)
THEOREM OneThreadRuns == Spec => []OneRunner
<1>1. IInv => OneRunner
  BY DEF IInv, RunnerInv, OneRunner
<1>. QED
  BY KernelInvariant, <1>1, PTL

(* No SetEvent or PulseEvent of an auto-reset event lets more than one      *)
(* consuming wait through.                                                  *)
THEOREM OneGrantPerSet == Spec => []AutoResetGrantsOnce
<1>1. IInv => AutoResetGrantsOnce
  BY DEF IInv, GrantInv, AutoResetGrantsOnce
<1>. QED
  BY KernelInvariant, <1>1, PTL

(* Between two runs of refreshSignaledWaits no thread is parked on events   *)
(* that would satisfy it.                                                   *)
THEOREM NoWakeupLost == Spec => []NoLostWakeup
<1>1. IInv => NoLostWakeup
  BY DEF IInv, WakeInv, NoLostWakeup
<1>. QED
  BY KernelInvariant, <1>1, PTL

(* A call without a timeout never returns WAIT_TIMEOUT, and Sleep returns   *)
(* 0, for any number of threads and any waits of at most 64 objects,        *)
(* whatever an earlier call has left in the thread's record.                *)
THEOREM ResultsFitCalls == Spec => []ResultFitsCall
<1>1. IInv => ResultFitsCall
  BY DEF IInv, FitInv, ResultFitsCall
<1>. QED
  BY KernelInvariant, <1>1, PTL
=============================================================================

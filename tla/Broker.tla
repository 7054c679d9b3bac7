------------------------------- MODULE Broker -------------------------------
(***************************************************************************)
(* What emulator processes tell each other besides the bytes of shared     *)
(* mappings: the registry of windows and the message queue, two JSON files *)
(* each under a named mutex (cross_process_broker and the functions of     *)
(* src/src/coredll_named_dispatch.cpp that use it).                        *)
(*                                                                         *)
(* A process has one top-level window.  The registry is the set of         *)
(* processes whose window it lists.  A message is a record of its number,  *)
(* its sender and receiver, whether it carries WM_COPYDATA, and what the   *)
(* sender's views showed when it was posted.                               *)
(***************************************************************************)
EXTENDS SharedMapping

CONSTANTS
  NoProc,       \* nobody
  MaxPosts,     \* bound: messages posted
  Scenes        \* sets of calls; a behaviour is limited to the calls of one

VARIABLES
  queue,     \* the message file: its messages and its time stamp; history: the
             \* sizes it has had with that stamp, and whether a write ever gave
             \* it a stamp and size it had had before
  stat,      \* the stamp and size p saw last, or NoStat
  lock,      \* owner of the mutexes "queue" and "registry"
  registry,  \* the registry file
  local,     \* p's window, the windows it imported, and the locals of a call
  inbox,     \* messages taken by p, in order
  posted,    \* messages for which a post reported success
  history    \* messages numbered and dropped so far, windows made or destroyed,
             \* and whether a wait for a mutex timed out
brokerVars == <<queue, stat, lock, registry, local, inbox, posted, history>>

mapFiles == <<file, view, opened, writes>>
vars == <<mapVars, brokerVars>>

ASSUME BrokerAssumption == NoProc \notin Procs /\ MaxPosts \in Nat

Locks == {"queue", "registry"}
NoStat == <<-1, 0>>
FileStat == <<queue.stamp, Len(queue.messages)>>

(* What p's views show; bytes not shown count as 0.                         *)
Known(p) ==
  [c \in Cells |-> LET vs == {v \in Mapped(p) : c \in ViewCells[v]}
                   IN IF vs = {} THEN 0 ELSE view[CHOOSE v \in vs : TRUE].mem[c]]
Shows(p) == UNION {ViewCells[v] : v \in Mapped(p)}

NoCall == [copy |-> << >>, seen |-> NoStat, targets |-> {}, to |-> NoProc,
           kind |-> "none", changed |-> FALSE, window |-> FALSE]

Alive(p) == local[p].alive

(* Every broker step is a step of a live process.                           *)
Step(p, step) == At(p, step) /\ Alive(p)

InCall(p) == local[p].call
SetCall(p, c) == [local EXCEPT ![p].call = c]

-----------------------------------------------------------------------------
(* ScopedCrossProcessMutex waits for five seconds and goes on without the   *)
(* mutex when it did not get it.  That happens only when the owner waits    *)
(* for what this process holds: no owner keeps a mutex that long otherwise. *)
Waits ==
  [queueLock |-> "post", pollLock |-> "poll", publishLock |-> "publish",
   findLock |-> "find", listLock |-> "list", importLock |-> "import"]

Waiting(p) == Alive(p) /\ job[p].at \in DOMAIN Waits
Wants(p) == IF job[p].at \in {"queueLock", "pollLock"} THEN "queue" ELSE "registry"
Owner(p) == lock[Wants(p)]

Acquire(p) ==
  /\ Waiting(p) /\ At(p, job[p].at) /\ Owner(p) = NoProc
  /\ lock' = [lock EXCEPT ![Wants(p)] = p]
  /\ job' = Goto(p, Waits[job[p].at])
  /\ UNCHANGED <<mapFiles, queue, stat, registry, local, inbox, posted, history>>

GiveUp(p) ==
  /\ Waiting(p) /\ At(p, job[p].at)
  /\ Owner(p) \in Procs \ {p} /\ Waiting(Owner(p)) /\ Owner(Owner(p)) = p
  /\ history' = [history EXCEPT !.gaveUp = TRUE]
  /\ job' = Goto(p, Waits[job[p].at])
  /\ UNCHANGED <<mapFiles, queue, stat, lock, registry, local, inbox, posted>>

(* Mutant: nobody waits.                                                    *)
PassLock(p) ==
  /\ Waiting(p)
  /\ job' = Goto(p, Waits[job[p].at])
  /\ UNCHANGED <<mapFiles, brokerVars>>

WaitLock(p) == Acquire(p) \/ GiveUp(p)

(* Mutant: a call that ends keeps its mutexes.                              *)
Kept(p, ls) == lock

Released(p, ls) == [l \in Locks |-> IF l \in ls /\ lock[l] = p THEN NoProc ELSE lock[l]]

-----------------------------------------------------------------------------
(* publishGuestWindowState: the window is created or destroyed, and p's     *)
(* entry rewritten under the registry mutex.                                *)
PublishGuestWindowState(p) ==
  /\ Step(p, "idle") /\ Does("publish")
  /\ local' = [local EXCEPT ![p].window = ~@]
  /\ history.windows < MaxPosts
  /\ history' = [history EXCEPT !.windows = @ + 1]
  /\ job' = Goto(p, "publishLock")
  /\ UNCHANGED <<mapFiles, queue, stat, lock, registry, inbox, posted>>

PublishRead(p) ==
  /\ Step(p, "publish")
  /\ local' = [local EXCEPT ![p].call.targets = registry]
  /\ job' = Goto(p, "publishWrite")
  /\ UNCHANGED <<mapFiles, queue, stat, lock, registry, inbox,
                 posted, history>>

PublishWrite(p) ==
  /\ Step(p, "publishWrite")
  /\ registry' = (InCall(p).targets \ {p}) \cup (IF local[p].window THEN {p} ELSE {})
  /\ lock' = Released(p, {"registry"})
  /\ local' = SetCall(p, NoCall)
  /\ job' = Goto(p, "idle")
  /\ UNCHANGED <<mapFiles, queue, stat, inbox, posted, history>>

(* findExternalGuestWindow imports a window of a live process, if listed.   *)
FindWindow(p) ==
  /\ Step(p, "idle") /\ Does("find")
  /\ Procs \ (local[p].imported \cup {p}) # {}
  /\ job' = Goto(p, "findLock")
  /\ UNCHANGED <<mapFiles, brokerVars>>

FindExternalGuestWindow(p) ==
  /\ Step(p, "find")
  /\ LET found == {q \in registry \ {p} : Alive(q)}
     IN IF found = {} THEN UNCHANGED local
        ELSE \E q \in found : local' = [local EXCEPT ![p].imported = @ \cup {q}]
  /\ lock' = Released(p, {"registry"})
  /\ job' = Goto(p, "idle")
  /\ UNCHANGED <<mapFiles, queue, stat, registry, inbox, posted, history>>

-----------------------------------------------------------------------------
(* Mutant: the message goes out with the views as they are.                 *)
(* The views are synchronised before the queue is locked.                   *)
PostBegins(p) == SyncThen(p, Mapped(p), FALSE, "queueLock")

(* postCrossProcessGuestMessage: not to a dead process; views first.        *)
PostMessage(p, q, kind) ==
  /\ Step(p, "idle") /\ Does(kind)
  /\ q \in local[p].imported /\ Alive(q) /\ history.started < MaxPosts
  /\ local' = SetCall(p, [NoCall EXCEPT !.to = q, !.kind = kind])
  /\ history' = [history EXCEPT !.started = @ + 1]
  /\ job' = PostBegins(p)
  /\ UNCHANGED <<mapFiles, queue, stat, lock, registry, inbox, posted>>

(* postCrossProcessBroadcastMessage keeps the registry mutex while it posts *)
(* to one listed window after the other.                                    *)
Broadcast(p) ==
  /\ Step(p, "idle") /\ Does("broadcast")
  /\ history.started < MaxPosts
  /\ history' = [history EXCEPT !.started = @ + 1]
  /\ job' = Goto(p, "listLock")
  /\ UNCHANGED <<mapFiles, queue, stat, lock, registry, local, inbox, posted>>

BroadcastList(p) ==
  /\ Step(p, "list")
  /\ local' = SetCall(p, [NoCall EXCEPT !.targets = {q \in registry \ {p} : Alive(q)},
                                        !.kind = "broadcast"])
  /\ job' = Goto(p, "next")
  /\ UNCHANGED <<mapFiles, queue, stat, lock, registry, inbox,
                 posted, history>>

BroadcastNext(p) ==
  /\ Step(p, "next")
  /\ LET live == {q \in InCall(p).targets : Alive(q)}
     IN IF live = {}
          THEN /\ local' = SetCall(p, NoCall)
               /\ lock' = Released(p, {"registry"})
               /\ job' = Goto(p, "idle")
          ELSE \E q \in live :
                 /\ local' = SetCall(p, [InCall(p) EXCEPT !.to = q, !.targets = live \ {q}])
                 /\ job' = PostBegins(p)
                 /\ UNCHANGED lock
  /\ UNCHANGED <<mapFiles, queue, stat, registry, inbox, posted, history>>

PostRead(p) ==
  /\ Step(p, "post")
  /\ local' = [local EXCEPT ![p].call.copy = queue.messages]
  /\ job' = Goto(p, "append")
  /\ UNCHANGED <<mapFiles, queue, stat, lock, registry, inbox,
                 posted, history>>

(* The file is replaced.  In the scenes "tick" that may happen more than    *)
(* once before its time stamp changes.                                      *)
Stamps == {queue.stamp + 1} \cup (IF Does("tick") THEN {queue.stamp} \ {0} ELSE {})

SizesAt(stamp) == IF stamp = queue.stamp THEN queue.sizes ELSE {}

Replace(messages) ==
  \E s \in Stamps :
    queue' = [messages |-> messages, stamp |-> s,
              sizes |-> SizesAt(s) \cup {Len(messages)},
              alike |-> queue.alike \/ Len(messages) \in SizesAt(s)]

(* A post appends its message to what it has read.                          *)
PostAppend(p) ==
  /\ Step(p, "append")
  /\ LET id == history.lastId + 1
         m == [id |-> id, from |-> p, to |-> InCall(p).to,
               copydata |-> InCall(p).kind = "copydata", sent |-> Known(p)]
     IN /\ Replace(Append(InCall(p).copy, m))
        /\ posted' = posted \cup {id}
        /\ history' = [history EXCEPT !.lastId = id]
  /\ lock' = Released(p, {"queue"})
  /\ IF InCall(p).kind = "broadcast"
       THEN /\ local' = [local EXCEPT ![p].call.copy = << >>]
            /\ job' = Goto(p, "next")
       ELSE /\ local' = SetCall(p, NoCall)
            /\ job' = Goto(p, "idle")
  /\ UNCHANGED <<mapFiles, stat, registry, inbox>>

-----------------------------------------------------------------------------
(* pollCrossProcessGuestMessages: nothing to do while the file looks as it  *)
(* did last time.                                                           *)
PollCrossProcessGuestMessages(p) ==
  /\ Step(p, "idle") /\ Does("poll") /\ queue.stamp > 0 /\ stat[p] # FileStat
  /\ local' = SetCall(p, [NoCall EXCEPT !.seen = FileStat])
  /\ job' = Goto(p, "pollLock")
  /\ UNCHANGED <<mapFiles, queue, stat, lock, registry, inbox, posted, history>>

(* Mutant: what is read is delivered with the views as they are.            *)
PollAtOnce(p) == Goto(p, "take")

(* The views are synchronised after the file is read.                       *)
PollBegins(p) == SyncThen(p, Mapped(p), FALSE, "take")

PollRead(p) ==
  /\ Step(p, "poll")
  /\ local' = [local EXCEPT ![p].call.copy = queue.messages]
  /\ job' = PollBegins(p)
  /\ UNCHANGED <<mapFiles, queue, stat, lock, registry, inbox, posted, history>>

(* Where p's messages are in the copy; they are taken in their order.       *)
Mine(p) == {i \in DOMAIN InCall(p).copy : InCall(p).copy[i].to = p}
First(p) == CHOOSE i \in Mine(p) : \A j \in Mine(p) : i <= j
FirstMessage(p) == InCall(p).copy[First(p)]
Others(p) == RemoveAt(InCall(p).copy, First(p))

(* What p's views show as it takes a message, bytes not shown counting as    *)
(* the latest, and whether one of them was last read while the version file *)
(* was empty: the next time it is empty that view passes for current.       *)
Showing(p) == [c \in Cells |-> IF c \in Shows(p) THEN Known(p)[c] ELSE MaxWrites]
Torn(p) == \E v \in Mapped(p) : view[v].seen = 0
Arrival(p, m) == [id |-> m.id, from |-> m.from, sent |-> m.sent,
                  got |-> Showing(p), torn |-> Torn(p)]

(* A message to a live window is posted to it, one to no window is dropped. *)
Taken(p, m) ==
  /\ local' = [local EXCEPT ![p].call.copy = Others(p), ![p].call.changed = TRUE]
  /\ inbox' = IF local[p].window
                THEN [inbox EXCEPT ![p] = Append(@, Arrival(p, m))]
                ELSE inbox
  /\ history' = IF local[p].window THEN history
                  ELSE [history EXCEPT !.dropped = @ \cup {m.id}]

(* WM_COPYDATA from a window that is not known yet needs the registry while *)
(* the queue is locked.                                                     *)
NeedsImport(p, m) ==
  m.copydata /\ local[p].window /\ Alive(m.from) /\ m.from \notin local[p].imported

TakeMessage(p) ==
  /\ Step(p, "take") /\ Mine(p) # {}
  /\ LET m == FirstMessage(p)
     IN IF NeedsImport(p, m)
          THEN /\ job' = Goto(p, "importLock")
               /\ UNCHANGED <<local, inbox, history>>
          ELSE /\ Taken(p, m)
               /\ UNCHANGED job
  /\ UNCHANGED <<mapFiles, queue, stat, lock, registry, posted>>

ImportExternalWindow(p) ==
  /\ Step(p, "import")
  /\ LET m == FirstMessage(p)
     IN /\ local' = [local EXCEPT
               ![p].call.copy = Others(p), ![p].call.changed = TRUE,
               ![p].imported = @ \cup ({m.from} \cap registry)]
        /\ inbox' = [inbox EXCEPT ![p] = Append(@, Arrival(p, m))]
  /\ lock' = Released(p, {"registry"})
  /\ job' = Goto(p, "take")
  /\ UNCHANGED <<mapFiles, queue, stat, registry, posted, history>>

(* Nothing was for p: the stamp read before the mutex was taken is kept.    *)
PollNothing(p) ==
  /\ Step(p, "take") /\ Mine(p) = {} /\ ~InCall(p).changed
  /\ stat' = [stat EXCEPT ![p] = InCall(p).seen]
  /\ lock' = Released(p, {"queue"})
  /\ local' = SetCall(p, NoCall)
  /\ job' = Goto(p, "idle")
  /\ UNCHANGED <<mapFiles, queue, registry, inbox, posted, history>>

(* Mutant: the file is written as it was read.                              *)
LeftAsRead(p) == queue.messages

(* What the poll leaves for others.                                         *)
Left(p) == InCall(p).copy

(* Mutant: the mutex is released before the stamp is read.                  *)
ReleasedForRestat(p) == Released(p, {"queue"})

HeldForRestat(p) == lock

(* Else the file is replaced by one without p's messages.                   *)
PollRewrite(p) ==
  /\ Step(p, "take") /\ Mine(p) = {} /\ InCall(p).changed
  /\ Replace(Left(p))
  /\ lock' = HeldForRestat(p)
  /\ job' = Goto(p, "restat")
  /\ UNCHANGED <<mapFiles, stat, registry, local, inbox, posted, history>>

(* Its stamp is read while the mutex is still held.                         *)
PollRestat(p) ==
  /\ Step(p, "restat")
  /\ stat' = [stat EXCEPT ![p] = FileStat]
  /\ lock' = Released(p, {"queue"})
  /\ local' = SetCall(p, NoCall)
  /\ job' = Goto(p, "idle")
  /\ UNCHANGED <<mapFiles, queue, registry, inbox, posted, history>>

-----------------------------------------------------------------------------
(* A process dies wherever it is; the system gives up its mutexes.          *)
Crash(p) ==
  /\ Does("crash") /\ Alive(p) /\ job[p].at \notin Alone
  /\ local' = [local EXCEPT ![p].alive = FALSE, ![p].call = NoCall]
  /\ lock' = Released(p, Locks)
  /\ job' = [job EXCEPT ![p] = [Idle EXCEPT !.at = IF job[p].at \in Writing
                                                   THEN job[p].at ELSE "idle"]]
  /\ view' = [v \in Views |-> IF ViewProc[v] = p THEN Unmapped ELSE view[v]]
  /\ opened' = opened \ {p}
  /\ UNCHANGED <<file, writes, queue, stat, registry, inbox, posted, history>>

(* The views are mapped, the windows published and imported, unless the     *)
(* scene does that itself.  Importing a sender's window is left to the poll *)
(* when messages carry WM_COPYDATA.                                         *)
Init ==
  /\ queue = [messages |-> << >>, stamp |-> 0, sizes |-> {0}, alike |-> FALSE]
  /\ stat = [p \in Procs |-> NoStat]
  /\ lock = [l \in Locks |-> NoProc]
  /\ inbox = [p \in Procs |-> << >>]
  /\ posted = {}
  /\ job = [p \in Procs |-> Idle]
  /\ writes = 0
  /\ calls \in Scenes
  /\ history = [started |-> 0, lastId |-> 0, gaveUp |-> FALSE, windows |-> 0,
                dropped |-> {}]
  /\ file = IF Does("create") THEN NoFile ELSE NewFile
  /\ opened = IF Does("create") THEN {} ELSE Procs
  /\ view = [v \in Views |-> IF Does("create") THEN Unmapped ELSE Loaded(v)]
  /\ registry = IF Does("find") THEN {} ELSE Procs
  /\ local = [p \in Procs |->
       [alive |-> TRUE, window |-> ~Does("find"), call |-> NoCall,
        imported |-> IF Does("find") \/ (Does("copydata") /\ p # Writer)
                       THEN {} ELSE Procs \ {p}]]

(* The steps of a call that has begun.                                      *)
CallStep(p) ==
  \/ PublishRead(p) \/ PublishWrite(p) \/ FindExternalGuestWindow(p)
  \/ BroadcastList(p) \/ BroadcastNext(p) \/ PostRead(p) \/ PostAppend(p)
  \/ PollRead(p) \/ TakeMessage(p) \/ ImportExternalWindow(p) \/ PollNothing(p)
  \/ PollRewrite(p) \/ PollRestat(p)
  \/ WaitLock(p)

MapPart(p) ==
  /\ Alive(p) /\ UNCHANGED brokerVars
  /\ SyncStep(p) \/ MapStep(p)

Next ==
  /\ UNCHANGED calls
  /\ \E p \in Procs :
       \/ MapPart(p) \/ CallStep(p) \/ PollCrossProcessGuestMessages(p)
       \/ PublishGuestWindowState(p) \/ FindWindow(p) \/ Broadcast(p) \/ Crash(p)
       \/ \E q \in Procs, k \in {"post", "copydata"} : PostMessage(p, q, k)

Spec == Init /\ [][Next]_<<vars, calls>>

-----------------------------------------------------------------------------
(* Shapes of the files and of every process; outside its calls a process    *)
(* holds no mutex.                                                          *)
TypeOK ==
  /\ file.version \in Nat /\ file.bytes \in [Cells -> Vals]
  /\ \A v \in Views : /\ view[v].refs \in 0 .. 2
                       /\ view[v].refs > 0 => view[v].mem \in [ViewCells[v] -> Vals]
  /\ lock \in [Locks -> Procs \cup {NoProc}]
  /\ \A l \in Locks : lock[l] # NoProc => job[lock[l]].at # "idle"
  /\ registry \subseteq Procs /\ posted \subseteq 1 .. history.lastId
  /\ \A p \in Procs : local[p].imported \subseteq Procs \ {p}

(* No writer is between its bytes and its version.                          *)
Settled == \A p \in Procs : job[p].at \notin Writing

(* A clean view whose version is the file's shows the file's bytes: the     *)
(* next synchronisation would not read them.                                *)
SeenIsCurrent ==
  Settled => \A v \in Views :
    (view[v].refs > 0 /\ view[v].seen = file.version /\ view[v].mem = view[v].shadow)
      => view[v].mem = Shown(v)

(* A synchronisation changes only bytes of the file that a guest changed in *)
(* the view it writes.                                                      *)
OnlyChangedBytes ==
  [][\A c \in Cells : file'.bytes[c] # file.bytes[c] =>
       \E v \in Views : /\ view[v].refs > 0 /\ c \in ViewCells[v]
                        /\ view[v].mem[c] # view[v].shadow[c]]_vars

(* When a message from the process that stores is taken, or one for it, the *)
(* views of the receiver show at least what the views of the sender showed  *)
(* when it was posted, unless one of them is torn.                          *)
PostedDataSeen ==
  \A p \in Procs : \A i \in DOMAIN inbox[p] :
    LET m == inbox[p][i]
    IN Writer \in {p, m.from} /\ ~m.torn => \A c \in Cells : m.got[c] >= m.sent[c]

(* Every message a post reported as sent is in the file, or was taken, or   *)
(* found no window, unless a wait for a mutex gave up.                      *)
InFile(id) == \E i \in DOMAIN queue.messages : queue.messages[i].id = id
InBox(id) == \E p \in Procs : \E i \in DOMAIN inbox[p] : inbox[p][i].id = id

NoMessageLost ==
  history.gaveUp \/ \A id \in posted : InFile(id) \/ InBox(id) \/ id \in history.dropped

(* A window gets its messages once each, in the order of their posting.     *)
TakenOnceInOrder ==
  history.gaveUp \/
    \A p \in Procs : \A i, j \in DOMAIN inbox[p] : i < j => inbox[p][i].id < inbox[p][j].id

(* A file that looks to p as it did last time has no message for p, however *)
(* many writes share a time stamp, unless one of them gave the file a stamp *)
(* and size it had had before: that write may hide a message.               *)
NotOverlooked ==
  queue.alike \/
    \A p \in Procs : (Alive(p) /\ stat[p] = FileStat /\ job[p].at # "restat") =>
      \A i \in DOMAIN queue.messages : queue.messages[i].to # p
=============================================================================

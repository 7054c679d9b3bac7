---------------------------- MODULE SerialDevice ----------------------------
(***************************************************************************)
(* Virtual serial ports (CeDevice, the comm exports, ReadFile): guest      *)
(* threads read what the remote endpoint queues, at once or parked until   *)
(* bytes come or the port's time-out passes.  Every access to the shared   *)
(* queue is a step of its own, because server threads run between them.    *)
(*                                                                         *)
(* The emulator is one thread: it runs guest calls, or a turn of the host  *)
(* loop (drain input, look at the pause switch, refresh the waits).  Which *)
(* guest thread calls is left open; CeKernel and GuestScheduler say how    *)
(* the scheduler chooses.                                                  *)
(***************************************************************************)
EXTENDS RemoteEndpoint

CONSTANTS
  Main,          \* the main thread: it never parks in ReadFile
  MaxWorkers,    \* worker threads 1 .. MaxWorkers
  MaxHandles,    \* bound: handles opened
  MaxTime,       \* bound: the clock
  Timeouts       \* the COMMTIMEOUTS a guest sets

VARIABLES
  now,       \* hostTickMilliseconds()
  emu,       \* where the emulator thread is
  tstate,    \* run states of the workers
  port,      \* serialStates_, and the state of the handle
  reads,     \* pendingSerialReadsByThread_
  received   \* bytes handed to the guest, in order

serialVars == <<now, emu, tstate, port, reads, received>>

Workers == 1 .. MaxWorkers
Callers == Workers \cup {Main}
Ports == 1 .. MaxHandles

NoRead == [port |-> 0, want |-> 0, deadline |-> 0]

(* interval 1 stands for MAXDWORD; mult and const are in ticks.             *)
AtOnce == [interval |-> 1, mult |-> 0, const |-> 0]

ASSUME SerialAssumption ==
  /\ MaxWorkers \in Nat /\ MaxHandles \in Nat /\ MaxTime \in Nat \ {0} /\ Main \notin Workers
  /\ Timeouts \subseteq [interval : {0, 1}, mult : Nat, const : Nat]

EmuAt == {"guest", "loop", "waves", "serial", "check", "answer", "kernel", "read"}

SerialType ==
  /\ now \in 1 .. MaxTime
  /\ emu \in [at : EmuAt, todo : SUBSET Workers, started : 0 .. MaxTime,
              hasData : BOOLEAN, want : Nat]
  /\ tstate \in [Workers -> {"runnable", "serial", "wave"}]
  /\ port \in [Ports -> [state : {"unused", "open", "closed"}, timeouts : Timeouts \cup {AtOnce}]]
  /\ reads \in [Workers -> [port : 0 .. MaxHandles, want : Nat, deadline : Nat]]
  /\ received \in Seq(Bytes)

SerialInit ==
  /\ now = 1
  /\ emu = [at |-> "guest", todo |-> {}, started |-> 0,
            hasData |-> FALSE, want |-> 0]
  /\ tstate = [t \in Workers |-> "runnable"]
  /\ port = [h \in Ports |-> [state |-> "unused", timeouts |-> AtOnce]]
  /\ reads = [t \in Workers |-> NoRead]
  /\ received = << >>

-----------------------------------------------------------------------------
(* A guest call of thread t; a parked thread makes none.                    *)
Calls(t, call) ==
  /\ emu.at = "guest" /\ Does(call)
  /\ t = Main \/ (t \in Workers /\ tstate[t] = "runnable")

Go(at) == [emu EXCEPT !.at = at]

OpenGuestSerialDevice(h) ==
  /\ \E t \in Callers : Calls(t, "open")
  /\ port[h].state = "unused" /\ \A g \in 1 .. h - 1 : port[g].state # "unused"
  /\ port' = [port EXCEPT ![h] = [state |-> "open", timeouts |-> AtOnce]]
  /\ UNCHANGED <<endpointVars, now, emu, tstate, reads, received>>

SetCommTimeouts(h) ==
  /\ \E t \in Callers : Calls(t, "timeouts")
  /\ port[h].state = "open"
  /\ \E new \in Timeouts : port' = [port EXCEPT ![h].timeouts = new]
  /\ UNCHANGED <<endpointVars, now, emu, tstate, reads, received>>

(* unregisterSerial drops the pending reads; their threads stay parked.     *)
CloseSerial(h) ==
  /\ \E t \in Callers : Calls(t, "close")
  /\ port[h].state = "open"
  /\ port' = [port EXCEPT ![h].state = "closed"]
  /\ reads' = [t \in Workers |-> IF reads[t].port = h THEN NoRead ELSE reads[t]]
  /\ UNCHANGED <<endpointVars, now, emu, tstate, received>>

(* decideNoDataRead: 0 to complete at once, -1 to wait for ever, otherwise  *)
(* the deadline.                                                            *)
Decision(h, n) ==
  LET to == port[h].timeouts
      total == to.mult * n + to.const
  IN CASE to = AtOnce -> 0
       [] total = 0   -> -1
       [] OTHER       -> now + total

NoDeadline == 0
Park(t, h, n) ==
  LET deadline == IF Decision(h, n) = -1 THEN NoDeadline ELSE Decision(h, n)
  IN /\ deadline <= MaxTime
     /\ tstate' = [tstate EXCEPT ![t] = "serial"]
     /\ reads' = [reads EXCEPT ![t] = [port |-> h, want |-> n, deadline |-> deadline]]
     /\ emu' = Go("waves")

(* tryParkGuestSerialRead looks at the queue's length; a call that does not *)
(* park goes on to handleReadFile, which looks again.  After a call that    *)
(* parks the switch to another thread refreshes the waits.                  *)
ReadFile(t, h, n) ==
  /\ Calls(t, "read") /\ port[h].state = "open"
  /\ IF serial = << >> /\ t # Main /\ Decision(h, n) # 0
     THEN Park(t, h, n)
     ELSE /\ emu' = [Go("read") EXCEPT !.want = n]
          /\ UNCHANGED <<tstate, reads>>
  /\ UNCHANGED <<endpointVars, now, port, received>>

TakeBytes(n) ==
  /\ received' = received \o Oldest(n)
  /\ serial' = Rest(n)
  /\ UNCHANGED <<scene, session, touches, keys, inputPending, paused, sent, delivered>>

HandleReadFile ==
  /\ emu.at = "read"
  /\ TakeBytes(emu.want)
  /\ emu' = [Go("guest") EXCEPT !.want = 0]
  /\ UNCHANGED <<now, tstate, port, reads>>

-----------------------------------------------------------------------------
(* The guest's slice ends, or a call refreshes the waits before it returns. *)
EndSlice ==
  /\ emu.at = "guest"
  /\ emu' \in {Go("loop"), Go("waves")}
  /\ UNCHANGED <<endpointVars, now, tstate, port, reads, received>>

(* The host loop drains the input; while paused it neither refreshes the    *)
(* waits nor runs the guest.                                                *)
HostLoop ==
  /\ emu.at = "loop"
  /\ DrainRemoteInputEvents
  /\ emu' = IF paused THEN emu ELSE Go("waves")
  /\ UNCHANGED <<now, tstate, port, reads, received>>

Pending == {t \in Workers : reads[t] # NoRead}
Next1(todo) == CHOOSE t \in todo : \A u \in todo : t <= u

(* refreshPendingSerialReads works on a copy of the pending reads made when *)
(* it starts, in the order of their threads.                                *)
RefreshPendingSerialReads ==
  /\ emu.at = "serial"
  /\ emu' = IF Pending = {} THEN Go("kernel")
            ELSE [Go("check") EXCEPT !.todo = Pending, !.started = now]
  /\ UNCHANGED <<endpointVars, now, tstate, port, reads, received>>

(* Done with the first of the copy; after the last come the kernel's waits. *)
After(e) ==
  LET left == e.todo \ {Next1(e.todo)}
  IN [e EXCEPT !.todo = left, !.at = IF left = {} THEN "kernel" ELSE "check",
               !.started = IF left = {} THEN 0 ELSE @, !.hasData = FALSE]

(* Mutant: a deadline of 0 has passed.                                      *)
TimedOutAlways(t) == emu.started >= reads[t].deadline

TimedOut(t) == reads[t].deadline # NoDeadline /\ emu.started >= reads[t].deadline

(* Mutant: only bytes end a read.                                           *)
WaitsForBytes(t) == serial = << >>

StillWaits(t) == serial = << >> /\ ~TimedOut(t)

(* A record whose thread no longer waits is dropped; a read without bytes   *)
(* before its deadline stays.                                               *)
CheckRead ==
  /\ emu.at = "check"
  /\ LET t == Next1(emu.todo)
     IN IF tstate[t] # "serial"
        THEN /\ reads' = [reads EXCEPT ![t] = NoRead]
             /\ emu' = After(emu)
        ELSE /\ emu' = IF StillWaits(t) THEN After(emu)
                       ELSE [Go("answer") EXCEPT !.hasData = serial # << >>]
             /\ UNCHANGED reads
  /\ UNCHANGED <<endpointVars, now, tstate, port, received>>

AnswerRead ==
  /\ emu.at = "answer"
  /\ LET t == Next1(emu.todo)
     IN /\ IF emu.hasData THEN TakeBytes(reads[t].want) ELSE UNCHANGED <<endpointVars, received>>
        /\ tstate' = [tstate EXCEPT ![t] = "runnable"]
        /\ reads' = [reads EXCEPT ![t] = NoRead]
        /\ emu' = After(emu)
  /\ UNCHANGED <<now, port>>

Tick ==
  /\ now < MaxTime
  /\ now' = now + 1
  /\ UNCHANGED <<endpointVars, emu, tstate, port, reads, received>>

GuestSerialCall ==
  \/ HandleReadFile
  \/ \E h \in Ports :
       \/ OpenGuestSerialDevice(h)
       \/ SetCommTimeouts(h)
       \/ CloseSerial(h)
       \/ \E t \in Callers, n \in 1 .. 2 : ReadFile(t, h, n)

HostStep ==
  \/ EndSlice \/ HostLoop
  \/ RefreshPendingSerialReads \/ CheckRead \/ AnswerRead
=============================================================================

------------------------- MODULE GuestSchedulerProofs -------------------------
(***************************************************************************)
(* Theorems about GuestScheduler, for any number of threads.               *)
(*                                                                         *)
(* Sound is the inductive invariant for the types: the list of transfers   *)
(* has one entry for each window procedure in progress, and whoever has    *)
(* the CPU is Running.  Waiting, inductive with it, adds to SendersAwaited *)
(* that a sender whose message was lost waits for good, and so sends no    *)
(* other.  Orderly, for a guest that makes none of the optional calls but  *)
(* DestroyWindow, says that every record is in place and that the main     *)
(* thread's procedures are the last of the list.                           *)
(***************************************************************************)
EXTENDS GuestScheduler, SequenceLemmas

(* The type of sched, which the switching operators keep.                   *)
SchedType == [cpu : Context, active : Threads, last : Workers \cup {0},
              main : Context, mainValid : BOOLEAN,
              saved : [Workers -> Context], runState : [Workers -> RunStates]]

(* Only a running thread has the CPU.                                       *)
ActiveRuns(s) == s.active # Main => s.runState[s.active] = "Running"

(* The senders that are parked.                                             *)
Awaiting(s) == {w \in Workers : s.runState[w] = "WaitingForSendMessage"}

(* Everybody's place is where it belongs.                                   *)
Placed(s) ==
  /\ s.cpu.sp = s.active /\ s.cpu.latest
  /\ s.active # Main => s.mainValid /\ s.main.sp = Main /\ s.main.latest
  /\ \A w \in Workers \ {s.active} : s.runState[w] # "Terminated" =>
       s.saved[w].sp = w /\ s.saved[w].latest

(* Everybody is captured.                                                   *)
Stowed(s) ==
  /\ s.mainValid /\ s.main.sp = Main /\ s.main.latest
  /\ \A w \in Workers : s.runState[w] # "Terminated" =>
       s.saved[w].sp = w /\ s.saved[w].latest

----------------------------------------------------------------------------
(* The switching operators.                                                 *)

(* restoreGuestCpuContext: the registers take the context, and whatever else*)
(* is captured of that stack is old.                                        *)
LEMMA LoadStep ==
  ASSUME SchedulerAssumption, NEW s \in SchedType, NEW c \in Context
  PROVE  /\ Load(s, c) \in SchedType
         /\ Load(s, c).cpu = c /\ Load(s, c).active = s.active
         /\ Load(s, c).last = s.last
         /\ Load(s, c).runState = s.runState /\ Load(s, c).mainValid = s.mainValid
         /\ Load(s, c).main.sp = s.main.sp
         /\ Load(s, c).main.latest <=> (s.main.latest /\ s.main.sp # c.sp)
         /\ \A w \in Workers : /\ Load(s, c).saved[w].sp = s.saved[w].sp
                               /\ Load(s, c).saved[w].latest <=> (s.saved[w].latest /\ s.saved[w].sp # c.sp)
<1> DEFINE aged(x) == IF x.sp = c.sp THEN [x EXCEPT !.latest = FALSE] ELSE x
<1>1. \A x \in Context : /\ aged(x) \in Context /\ aged(x).sp = x.sp
                         /\ aged(x).latest <=> (x.latest /\ x.sp # c.sp)
  BY DEF Context
<1> DEFINE m == aged(s.main)
           v == [w \in Workers |-> aged(s.saved[w])]
<1>2. m \in Context /\ v \in [Workers -> Context]
  BY <1>1 DEF SchedType
<1>3. Load(s, c) = [s EXCEPT !.cpu = c, !.main = m, !.saved = v]
  BY DEF Load
<1>4. \A w \in Workers : v[w] = aged(s.saved[w]) /\ s.saved[w] \in Context
  BY DEF SchedType
<1>5. s.main \in Context
  BY DEF SchedType
<1>6. /\ m.sp = s.main.sp
      /\ m.latest <=> (s.main.latest /\ s.main.sp # c.sp)
      /\ \A w \in Workers : /\ v[w].sp = s.saved[w].sp
                            /\ v[w].latest <=> (s.saved[w].latest /\ s.saved[w].sp # c.sp)
  BY <1>1, <1>4, <1>5
<1> HIDE DEF m, v
<1> DEFINE t == [s EXCEPT !.cpu = c, !.main = m, !.saved = v]
<1>7. /\ t \in SchedType /\ t.cpu = c /\ t.active = s.active /\ t.last = s.last
      /\ t.runState = s.runState /\ t.mainValid = s.mainValid /\ t.main = m /\ t.saved = v
  BY <1>2 DEF SchedType
<1>8. Load(s, c) = t
  BY <1>3
<1> HIDE DEF t
<1>9. /\ t.main.sp = s.main.sp
      /\ t.main.latest <=> (s.main.latest /\ s.main.sp # c.sp)
  BY <1>6, <1>7
<1>10. \A w \in Workers :
        /\ t.saved[w].sp = s.saved[w].sp
        /\ t.saved[w].latest <=> (s.saved[w].latest /\ s.saved[w].sp # c.sp)
  BY <1>6, <1>7
<1>11. QED
  BY <1>7, <1>8, <1>9, <1>10

(* The main thread's record takes the registers.                            *)
LEMMA CaptureMainStep ==
  ASSUME NEW s \in SchedType
  PROVE  /\ CaptureMain(s) \in SchedType
         /\ CaptureMain(s).cpu = s.cpu /\ CaptureMain(s).active = s.active
         /\ CaptureMain(s).last = s.last
         /\ CaptureMain(s).runState = s.runState /\ CaptureMain(s).mainValid
         /\ CaptureMain(s).main = s.cpu /\ CaptureMain(s).saved = s.saved
BY DEF CaptureMain, SchedType

(* The active worker's record takes the registers; it is no longer running. *)
LEMMA CaptureActiveStep ==
  ASSUME SchedulerAssumption, NEW s \in SchedType, s.active # Main
  PROVE  LET t == CaptureActive(s) IN
         /\ t \in SchedType
         /\ t.cpu = s.cpu /\ t.active = s.active /\ t.last = s.last
         /\ t.main = s.main /\ t.mainValid = s.mainValid
         /\ t.saved = [s.saved EXCEPT ![s.active] = s.cpu]
         /\ t.runState[s.active] = (IF s.runState[s.active] = "Running" THEN "Runnable" ELSE s.runState[s.active])
         /\ \A w \in Workers \ {s.active} : t.runState[w] = s.runState[w]
<1> DEFINE r == IF s.runState[s.active] = "Running" THEN "Runnable" ELSE s.runState[s.active]
<1>1. s.active \in Workers
  BY DEF SchedType, Threads
<1>2. r \in RunStates
  BY <1>1 DEF SchedType, RunStates
<1> DEFINE v == [s.saved EXCEPT ![s.active] = s.cpu]
           n == [s.runState EXCEPT ![s.active] = r]
<1>3. CaptureActive(s) = [s EXCEPT !.saved = v, !.runState = n]
  BY DEF CaptureActive
<1>4. v \in [Workers -> Context] /\ n \in [Workers -> RunStates]
  BY <1>1, <1>2 DEF SchedType
<1>5. n[s.active] = r /\ \A w \in Workers \ {s.active} : n[w] = s.runState[w]
  BY <1>1 DEF SchedType
<1> HIDE DEF n, r
<1>6. [s EXCEPT !.saved = v, !.runState = n] \in SchedType
  BY <1>4 DEF SchedType
<1>7. QED
  BY <1>3, <1>5, <1>6 DEF SchedType, r

(* With everybody captured, the registers may be given to the active        *)
(* thread's own record.                                                     *)
LEMMA LoadPlaces ==
  ASSUME SchedulerAssumption, NEW s \in SchedType, Stowed(s),
         s.active # Main => s.runState[s.active] # "Terminated"
  PROVE  Placed(Load(s, IF s.active = Main THEN s.main ELSE s.saved[s.active]))
<1> DEFINE c == IF s.active = Main THEN s.main ELSE s.saved[s.active]
<1>1. s.active \in Workers \cup {Main} /\ Main \notin Workers
  BY DEF SchedType, Threads, Main, SchedulerAssumption
<1>2. c \in Context
  BY <1>1 DEF SchedType
<1>3. c.sp = s.active /\ c.latest
  BY <1>1 DEF Stowed
<1> HIDE DEF c
<1> DEFINE t == Load(s, c)
<1>4. /\ t.cpu = c /\ t.active = s.active /\ t.mainValid = s.mainValid
      /\ t.runState = s.runState /\ t.main.sp = s.main.sp
      /\ t.main.latest <=> (s.main.latest /\ s.main.sp # c.sp)
      /\ \A w \in Workers : /\ t.saved[w].sp = s.saved[w].sp
                            /\ t.saved[w].latest <=> (s.saved[w].latest /\ s.saved[w].sp # c.sp)
  BY <1>2, LoadStep
<1> HIDE DEF t
<1>5. Placed(t)
  <2>1. t.cpu.sp = t.active /\ t.cpu.latest
    BY <1>3, <1>4
  <2>2. ASSUME t.active # Main PROVE t.mainValid /\ t.main.sp = Main /\ t.main.latest
    BY <1>3, <1>4, <2>2 DEF Stowed
  <2>3. ASSUME NEW w \in Workers \ {t.active}, t.runState[w] # "Terminated"
        PROVE  t.saved[w].sp = w /\ t.saved[w].latest
    <3>1. s.saved[w].sp = w /\ s.saved[w].latest
      BY <1>4, <2>3 DEF Stowed
    <3>2. QED
      BY <1>3, <1>4, <2>3, <3>1
  <2>4. QED
    BY <2>1, <2>2, <2>3 DEF Placed
<1>6. QED
  BY <1>5 DEF c, t

(* Capturing the main thread completes the records ...                      *)
LEMMA CaptureMainStows ==
  ASSUME SchedulerAssumption, NEW s \in SchedType, s.active = Main, Placed(s)
  PROVE  Stowed(CaptureMain(s))
<1>1. Main \notin Workers
  BY DEF Main, SchedulerAssumption
<1>2. QED
  BY <1>1, CaptureMainStep DEF Placed, Stowed

(* ... and so does capturing the active worker.                             *)
LEMMA CaptureActiveStows ==
  ASSUME SchedulerAssumption, NEW s \in SchedType, s.active # Main, Placed(s)
  PROVE  Stowed(CaptureActive(s)) /\ Placed(CaptureActive(s))
<1> DEFINE t == CaptureActive(s)
<1>1. s.active \in Workers
  BY DEF SchedType, Threads
<1>2. /\ t.mainValid = s.mainValid /\ t.main = s.main /\ t.cpu = s.cpu /\ t.active = s.active
      /\ \A w \in Workers \ {s.active} : t.runState[w] = s.runState[w]
      /\ t.saved = [s.saved EXCEPT ![s.active] = s.cpu]
  BY CaptureActiveStep
<1> HIDE DEF t
<1>3. /\ t.saved[s.active] = s.cpu
      /\ \A w \in Workers \ {s.active} : t.saved[w] = s.saved[w]
  BY <1>1, <1>2 DEF SchedType
<1>4. QED
  BY <1>1, <1>2, <1>3 DEF Placed, Stowed, t

(* Who waits for an answer does not change.                                 *)
LEMMA CaptureActiveAwaits ==
  ASSUME SchedulerAssumption, NEW s \in SchedType, s.active # Main
  PROVE  Awaiting(CaptureActive(s)) = Awaiting(s)
<1>1. s.active \in Workers
  BY DEF SchedType, Threads
<1> DEFINE t == CaptureActive(s)
<1>2. /\ t.runState[s.active] = (IF s.runState[s.active] = "Running" THEN "Runnable" ELSE s.runState[s.active])
      /\ \A w \in Workers \ {s.active} : t.runState[w] = s.runState[w]
  BY CaptureActiveStep
<1> HIDE DEF t
<1>3. \A w \in Workers : (t.runState[w] = "WaitingForSendMessage") <=> (s.runState[w] = "WaitingForSendMessage")
  BY <1>1, <1>2
<1>4. Awaiting(t) = Awaiting(s)
  BY <1>3 DEF Awaiting
<1> QED
  BY <1>4 DEF t

(* A switch to a runnable worker.                                           *)
LEMMA SwitchToStep ==
  ASSUME SchedulerAssumption, NEW s \in SchedType, NEW w \in Runnable(s)
  PROVE  /\ SwitchTo(s, w) \in SchedType
         /\ SwitchTo(s, w).active = w /\ ActiveRuns(SwitchTo(s, w))
         /\ Awaiting(SwitchTo(s, w)) = Awaiting(s)
         /\ Placed(s) => Placed(SwitchTo(s, w))
<1> DEFINE p == IF s.active = Main THEN CaptureMain(s) ELSE CaptureActive(s)
           x == [p EXCEPT !.runState = [p.runState EXCEPT ![w] = "Running"], !.active = w, !.last = w]
<1>1. w \in Workers /\ s.runState[w] = "Runnable" /\ w # Main
  BY DEF Runnable, Main, SchedulerAssumption
<1>2. p \in SchedType /\ Awaiting(p) = Awaiting(s) /\ p.runState[w] = "Runnable"
      /\ (Placed(s) => Stowed(p))
  <2>1. CASE s.active = Main
    BY <1>1, <2>1, CaptureMainStep, CaptureMainStows DEF Awaiting
  <2>2. CASE s.active # Main
    BY <1>1, <2>2, CaptureActiveStep, CaptureActiveAwaits, CaptureActiveStows
  <2>3. QED
    BY <2>1, <2>2
<1>3. SwitchTo(s, w) = Load(x, p.saved[w])
  BY DEF SwitchTo
<1> HIDE DEF p
<1> DEFINE n == [p.runState EXCEPT ![w] = "Running"]
<1>4. /\ n \in [Workers -> RunStates] /\ n[w] = "Running"
      /\ \A v \in Workers \ {w} : n[v] = p.runState[v]
  BY <1>1, <1>2 DEF SchedType, RunStates
<1> HIDE DEF n
<1>5. /\ x \in SchedType /\ x.active = w /\ x.runState = n
      /\ x.saved = p.saved /\ x.main = p.main /\ x.mainValid = p.mainValid
  BY <1>1, <1>2, <1>4 DEF SchedType, Threads, n
<1>6. Awaiting(x) = Awaiting(p)
  BY <1>1, <1>2, <1>4, <1>5 DEF Awaiting
<1>7. Stowed(p) => Stowed(x)
  BY <1>1, <1>2, <1>4, <1>5 DEF Stowed
<1> HIDE DEF x
<1>8. x.saved[w] \in Context
  BY <1>1, <1>5 DEF SchedType
<1>9. Stowed(x) => Placed(Load(x, x.saved[w]))
  BY <1>1, <1>4, <1>5, LoadPlaces
<1>10. QED
  BY <1>1, <1>2, <1>3, <1>4, <1>5, <1>6, <1>7, <1>8, <1>9, LoadStep DEF ActiveRuns, Awaiting

(* The next in turn is one that can run.                                    *)
LEMMA InTurnStep ==
  ASSUME SchedulerAssumption, NEW s \in SchedType, Runnable(s) # {}
  PROVE  InTurn(s) \in Runnable(s)
<1> DEFINE later == {w \in Runnable(s) : w > s.last}
           S == IF later # {} THEN later ELSE Runnable(s)
<1>1. S \subseteq Runnable(s) /\ S # {} /\ S \subseteq Nat
  BY DEF Runnable, SchedulerAssumption
<1>2. InTurn(s) = CHOOSE w \in S : \A v \in S : w <= v
  BY DEF InTurn
<1> HIDE DEF S
<1>3. PICK w \in S : \A v \in S : w <= v
  BY <1>1, LeastNat
<1>4. QED
  BY <1>1, <1>2, <1>3

(* switchToRunnableGuestThread keeps everybody's place; if it switches, the *)
(* active thread runs.                                                      *)
LEMMA SwitchToRunnableStep ==
  ASSUME SchedulerAssumption, NEW s \in SchedType, NEW q, NEW b, NEW p
  PROVE  LET t == SwitchToRunnable(s, q, b, p) IN
         /\ t \in SchedType /\ Awaiting(t) = Awaiting(s)
         /\ ActiveRuns(s) \/ Switches(s, q, b) => ActiveRuns(t)
         /\ Placed(s) => Placed(t)
<1> DEFINE t == SwitchToRunnable(s, q, b, p)
           Goal(r) == /\ r \in SchedType /\ Awaiting(r) = Awaiting(s)
                      /\ ActiveRuns(s) \/ Switches(s, q, b) => ActiveRuns(r)
                      /\ Placed(s) => Placed(r)
<1>1. \A w \in Runnable(s) : Goal(SwitchTo(s, w))
  BY SwitchToStep
<1>2. ASSUME MainOwnsOldest(s, q, b) PROVE Goal(t)
  <2> DEFINE x == CaptureActive(s)
             y == [x EXCEPT !.active = Main]
  <2>1. s.active # Main
    BY <1>2 DEF MainOwnsOldest
  <2>2. x \in SchedType /\ Awaiting(x) = Awaiting(s) /\ (Placed(s) => Stowed(x))
    BY <2>1, CaptureActiveStep, CaptureActiveAwaits, CaptureActiveStows
  <2>3. t = RestoreMain(y)
    BY <1>2 DEF SwitchToRunnable
  <2> HIDE DEF x
  <2>4. /\ y \in SchedType /\ y.active = Main /\ y.runState = x.runState
        /\ y.saved = x.saved /\ y.main = x.main /\ y.mainValid = x.mainValid
    BY <2>2 DEF SchedType, Threads
  <2> HIDE DEF y
  <2>5. Awaiting(y) = Awaiting(s) /\ (Placed(s) => Stowed(y))
    BY <2>2, <2>4 DEF Awaiting, Stowed
  <2>6. y.main \in Context
    BY <2>4 DEF SchedType
  <2>7. /\ RestoreMain(y) \in SchedType /\ Awaiting(RestoreMain(y)) = Awaiting(s)
        /\ RestoreMain(y).active = Main
    BY <2>4, <2>5, <2>6, LoadStep DEF RestoreMain, Awaiting
  <2>8. Stowed(y) => Placed(RestoreMain(y))
    BY <2>4, LoadPlaces DEF RestoreMain, Stowed
  <2>9. QED
    BY <2>3, <2>5, <2>7, <2>8 DEF ActiveRuns
<1>3. ASSUME ~MainOwnsOldest(s, q, b) PROVE Goal(t)
  <2>1. CASE Runnable(s) = {}
    <3>1. t = s
      BY <1>3, <2>1 DEF SwitchToRunnable
    <3>2. QED
      BY <1>3, <2>1, <3>1 DEF Switches
  <2>2. CASE Runnable(s) # {}
    <3>1. \E w \in Runnable(s) : t = SwitchTo(s, w)
      BY <1>3, <2>2, InTurnStep DEF SwitchToRunnable
    <3>2. QED
      BY <1>1, <3>1
  <2>3. QED
    BY <2>1, <2>2
<1>4. QED
  BY <1>2, <1>3

(* So does yieldActiveGuestThread, with the active thread captured.         *)
LEMMA YieldActiveStep ==
  ASSUME SchedulerAssumption, NEW s \in SchedType, NEW q, NEW b,
         s.active # Main, ActiveRuns(s)
  PROVE  LET t == YieldActive(s, q, b) IN
         /\ t \in SchedType /\ Awaiting(t) = Awaiting(s) /\ ActiveRuns(t)
         /\ Placed(s) => Placed(t)
<1> DEFINE x == CaptureActive(s)
<1>1. s.active \in Workers
  BY DEF SchedType, Threads
<1>2. x \in SchedType /\ Awaiting(x) = Awaiting(s) /\ (Placed(s) => Placed(x))
  BY CaptureActiveStep, CaptureActiveAwaits, CaptureActiveStows
<1>3. x.runState[s.active] = "Runnable"
  BY CaptureActiveStep DEF ActiveRuns
<1>4. YieldActive(s, q, b) = SwitchToRunnable(x, q, b, Nobody)
  BY DEF YieldActive
<1> HIDE DEF x
<1>5. Switches(x, q, b)
  BY <1>1, <1>3 DEF Switches, Runnable
<1>6. QED
  BY <1>2, <1>4, <1>5, SwitchToRunnableStep

(* A thread that parks leaves everybody captured.                           *)
LEMMA ParkActiveStep ==
  ASSUME SchedulerAssumption, NEW s \in SchedType, NEW st \in RunStates,
         s.active # Main, ActiveRuns(s)
  PROVE  LET t == ParkActive(s, st) IN
         /\ t \in SchedType /\ t.active = Main /\ t.mainValid = s.mainValid
         /\ t.last = s.last
         /\ Awaiting(t) = Awaiting(s) \cup (IF st = "WaitingForSendMessage" THEN {s.active} ELSE {})
         /\ Placed(s) => Stowed(t)
<1> DEFINE v == [s.saved EXCEPT ![s.active] = s.cpu]
           n == [s.runState EXCEPT ![s.active] = st]
           t == [s EXCEPT !.saved = v, !.runState = n, !.active = Main]
<1>1. s.active \in Workers /\ s.runState[s.active] = "Running"
  BY DEF SchedType, Threads, ActiveRuns
<1>2. /\ v \in [Workers -> Context] /\ v[s.active] = s.cpu
      /\ \A w \in Workers \ {s.active} : v[w] = s.saved[w]
  BY <1>1 DEF SchedType
<1>3. /\ n \in [Workers -> RunStates] /\ n[s.active] = st
      /\ \A w \in Workers \ {s.active} : n[w] = s.runState[w]
  BY <1>1 DEF SchedType
<1>4. ParkActive(s, st) = t
  BY DEF ParkActive
<1> HIDE DEF n, v
<1>5. /\ t \in SchedType /\ t.active = Main /\ t.mainValid = s.mainValid /\ t.last = s.last
      /\ t.main = s.main /\ t.saved = v /\ t.runState = n
  BY <1>2, <1>3 DEF SchedType, Threads
<1> HIDE DEF t
<1>6. Awaiting(t) = Awaiting(s) \cup (IF st = "WaitingForSendMessage" THEN {s.active} ELSE {})
  BY <1>1, <1>3, <1>5 DEF Awaiting
<1>7. Placed(s) => Stowed(t)
  BY <1>1, <1>2, <1>3, <1>5 DEF Placed, Stowed
<1>8. QED
  BY <1>4, <1>5, <1>6, <1>7

(* Then the main thread goes on, or somebody else does.                     *)
LEMMA RestoreMainStep ==
  ASSUME SchedulerAssumption, NEW s \in SchedType, s.active = Main
  PROVE  LET t == RestoreMain(s) IN
         /\ t \in SchedType /\ Awaiting(t) = Awaiting(s) /\ t.active = Main
         /\ Stowed(s) => Placed(t)
<1>1. s.main \in Context
  BY DEF SchedType
<1>2. Stowed(s) => Placed(RestoreMain(s))
  BY LoadPlaces DEF RestoreMain, Stowed
<1>3. QED
  BY <1>1, <1>2, LoadStep DEF RestoreMain, Awaiting

(* Waking those that wait for messages moves nobody's place.                *)
LEMMA WakeMessageWaitersStep ==
  ASSUME SchedulerAssumption, NEW s \in SchedType, NEW q
  PROVE  LET t == WakeMessageWaiters(s, q) IN
         /\ t \in SchedType /\ t.active = s.active /\ t.mainValid = s.mainValid
         /\ Awaiting(t) = Awaiting(s) /\ (ActiveRuns(s) => ActiveRuns(t))
         /\ Placed(s) => Placed(t)
<1> DEFINE n == [w \in Workers |->
                   IF s.runState[w] = "WaitingForMessage" /\ \E m \in ToSet(q) : m.owner = w
                   THEN "Runnable" ELSE s.runState[w]]
           t == [s EXCEPT !.runState = n]
<1>1. /\ n \in [Workers -> RunStates]
      /\ \A w \in Workers :
           \/ n[w] = s.runState[w]
           \/ s.runState[w] = "WaitingForMessage" /\ n[w] = "Runnable"
  BY DEF SchedType, RunStates
<1>2. WakeMessageWaiters(s, q) = t
  BY DEF WakeMessageWaiters
<1> HIDE DEF n
<1>3. /\ t \in SchedType /\ t.active = s.active /\ t.mainValid = s.mainValid
      /\ t.main = s.main /\ t.saved = s.saved /\ t.runState = n /\ t.cpu = s.cpu
  BY <1>1 DEF SchedType
<1> HIDE DEF t
<1>4. s.active # Main => s.active \in Workers
  BY DEF SchedType, Threads
<1>5. QED
  BY <1>1, <1>2, <1>3, <1>4, ZenonT(40) DEF Awaiting, ActiveRuns, Placed

----------------------------------------------------------------------------
(* What an action does to sched.                                            *)

SchedOK == sched \in SchedType /\ ActiveRuns(sched)

SchedStep ==
  /\ sched' \in SchedType /\ ActiveRuns(sched')
  /\ Awaiting(sched') = Awaiting(sched)

(* A worker that parks, by the main thread's context or by a switch.        *)
LEMMA ParkedGoesOn ==
  ASSUME SchedulerAssumption, SchedOK, sched.active # Main,
         NEW st \in RunStates, NEW s, s = ParkActive(sched, st), NEW q, NEW b, NEW p
  PROVE  /\ s \in SchedType /\ ActiveRuns(s) /\ s.active = Main
         /\ RestoreMain(s) \in SchedType /\ ActiveRuns(RestoreMain(s))
         /\ Awaiting(RestoreMain(s)) = Awaiting(s)
         /\ SwitchToRunnable(s, q, b, p) \in SchedType
         /\ ActiveRuns(SwitchToRunnable(s, q, b, p))
         /\ Awaiting(SwitchToRunnable(s, q, b, p)) = Awaiting(s)
         /\ st # "WaitingForSendMessage" => Awaiting(s) = Awaiting(sched)
<1>1. /\ s \in SchedType /\ s.active = Main
      /\ Awaiting(s) = Awaiting(sched) \cup (IF st = "WaitingForSendMessage" THEN {sched.active} ELSE {})
  BY ParkActiveStep DEF SchedOK
<1>2. ActiveRuns(s)
  BY <1>1 DEF ActiveRuns
<1>3. RestoreMain(s) \in SchedType /\ Awaiting(RestoreMain(s)) = Awaiting(s) /\ RestoreMain(s).active = Main
  BY <1>1, RestoreMainStep
<1>4. QED
  BY <1>1, <1>2, <1>3, SwitchToRunnableStep DEF ActiveRuns

(* A worker's wait, by whichever way the CPU goes on.                       *)
LEMMA ParkStep ==
  ASSUME SchedulerAssumption, SchedOK, sched.active # Main,
         NEW st \in RunStates, st # "WaitingForSendMessage", Park(st)
  PROVE  SchedStep
<1> DEFINE s == ParkActive(sched, st)
<1>1. sched' \in {s, RestoreMain(s), SwitchToRunnable(s, queue, blocking, Nobody)}
  BY DEF Park
<1>2. QED
  BY <1>1, ParkedGoesOn DEF SchedStep

(* GetMessageW without a message.                                           *)
LEMMA GetMessageBlocksStep ==
  ASSUME SchedulerAssumption, SchedOK, GetMessageBlocks
  PROVE  SchedStep
<1>1. CASE Caller = Main
  <2>1. sched' = SwitchToRunnable(sched, queue, blocking, Nobody)
    BY <1>1 DEF GetMessageBlocks, SwitchOrStop
  <2>2. QED
    BY <2>1, SwitchToRunnableStep DEF SchedOK, SchedStep
<1>2. CASE Caller # Main
  <2> DEFINE s == ParkActive(sched, "WaitingForMessage")
  <2>1. sched' \in {RestoreMain(s), SwitchToRunnable(s, queue, blocking, Nobody)}
    BY <1>2 DEF GetMessageBlocks
  <2>2. sched.active # Main /\ "WaitingForMessage" \in RunStates
    BY <1>2 DEF Caller, RunStates
  <2>3. QED
    BY <2>1, <2>2, ParkedGoesOn DEF SchedStep
<1>3. QED
  BY <1>1, <1>2

(* PostMessageW.                                                            *)
LEMMA PostMessageStep ==
  ASSUME SchedulerAssumption, SchedOK, NEW o \in WindowOwners, PostMessage(o)
  PROVE  SchedStep
<1> DEFINE s == WakeMessageWaiters(sched, queue')
<1>1. s \in SchedType /\ s.active = sched.active /\ Awaiting(s) = Awaiting(sched) /\ ActiveRuns(s)
  BY WakeMessageWaitersStep DEF SchedOK
<1>2. sched' = IF Caller # Main /\ Schedulable(s, queue', blocking)
               THEN YieldActive(s, queue', blocking) ELSE s
  BY DEF PostMessage
<1> HIDE DEF s
<1>3. CASE Caller # Main /\ Schedulable(s, queue', blocking)
  <2>1. s.active # Main
    BY <1>1, <1>3 DEF Caller
  <2>2. QED
    BY <1>1, <1>2, <1>3, <2>1, YieldActiveStep DEF SchedStep
<1>4. CASE ~(Caller # Main /\ Schedulable(s, queue', blocking))
  BY <1>1, <1>2, <1>4 DEF SchedStep
<1>5. QED
  BY <1>3, <1>4

(* A worker's wait is found over; nobody is switched.                       *)
LEMMA WaitOverStep ==
  ASSUME SchedulerAssumption, SchedOK, NEW w \in Workers, WaitOver(w)
  PROVE  /\ SchedStep
         /\ Placed(sched) => Placed(sched')
         /\ sched'.active = sched.active
<1> DEFINE n == [sched.runState EXCEPT ![w] = "Runnable"]
<1>1. sched.runState[w] = "Waiting" /\ sched' = [sched EXCEPT !.runState = n]
  BY DEF WaitOver
<1>2. /\ n \in [Workers -> RunStates] /\ n[w] = "Runnable"
      /\ \A v \in Workers \ {w} : n[v] = sched.runState[v]
  BY DEF SchedOK, SchedType, RunStates
<1> HIDE DEF n
<1>3. /\ sched' \in SchedType /\ sched'.runState = n /\ sched'.active = sched.active
      /\ sched'.saved = sched.saved /\ sched'.main = sched.main
      /\ sched'.mainValid = sched.mainValid /\ sched'.cpu = sched.cpu
  BY <1>1, <1>2 DEF SchedOK, SchedType
<1>4. sched.active # Main => sched.active \in Workers
  BY DEF SchedOK, SchedType, Threads
<1>5. ActiveRuns(sched')
  BY <1>1, <1>2, <1>3, <1>4 DEF SchedOK, ActiveRuns
<1>6. Awaiting(sched') = Awaiting(sched)
  BY <1>1, <1>2, <1>3 DEF Awaiting
<1>7. Placed(sched) => Placed(sched')
  BY <1>1, <1>2, <1>3 DEF Placed
<1>8. QED
  BY <1>3, <1>5, <1>6, <1>7 DEF SchedStep

(* A worker's end.                                                          *)
LEMMA FinishActiveStep ==
  ASSUME SchedulerAssumption, SchedOK, FinishActive
  PROVE  /\ SchedStep
         /\ Placed(sched) /\ blocking = 0 => Placed(sched')
<1> DEFINE p == ParkActive(sched, "Terminated")
           s == [p EXCEPT !.last = IF p.last = Caller THEN 0 ELSE p.last]
<1>1. sched.active # Main /\ "Terminated" \in RunStates
  BY DEF FinishActive, Caller, RunStates
<1>2. /\ p \in SchedType /\ p.active = Main /\ Awaiting(p) = Awaiting(sched)
      /\ (Placed(sched) => Stowed(p))
      /\ p.mainValid = sched.mainValid
  BY <1>1, ParkActiveStep DEF SchedOK
<1>3. sched' = IF blocking = 0 /\ s.mainValid THEN RestoreMain(s)
               ELSE SwitchToRunnable(s, queue, blocking, Nobody)
  BY DEF FinishActive
<1> HIDE DEF p
<1>4. /\ s \in SchedType /\ s.active = Main /\ s.runState = p.runState
      /\ s.saved = p.saved /\ s.main = p.main /\ s.mainValid = p.mainValid
  BY <1>2 DEF SchedType
<1> HIDE DEF s
<1>5. Awaiting(s) = Awaiting(sched) /\ (Placed(sched) => Stowed(s)) /\ ActiveRuns(s)
  BY <1>2, <1>4 DEF Awaiting, Stowed, ActiveRuns
<1>6. /\ RestoreMain(s) \in SchedType /\ Awaiting(RestoreMain(s)) = Awaiting(s)
      /\ RestoreMain(s).active = Main /\ (Stowed(s) => Placed(RestoreMain(s)))
  BY <1>4, RestoreMainStep
<1>7. SchedStep
  BY <1>3, <1>4, <1>5, <1>6, SwitchToRunnableStep DEF SchedStep, ActiveRuns
<1>8. ASSUME Placed(sched), blocking = 0 PROVE Placed(sched')
  <2>1. s.mainValid
    BY <1>1, <1>2, <1>4, <1>8 DEF Placed
  <2>2. QED
    BY <1>3, <1>5, <1>6, <1>8, <2>1
<1>9. QED
  BY <1>7, <1>8

(* Sleep and the waits of a worker.                                         *)
LEMMA WorkerWaitStep ==
  ASSUME SchedulerAssumption, SchedOK, WorkerWait
  PROVE  SchedStep
<1>1. sched.active # Main
  BY DEF WorkerWait, Caller
<1>2. PICK st \in {"Waiting", "Runnable"} : Park(st)
  BY DEF WorkerWait
<1>3. st \in RunStates /\ st # "WaitingForSendMessage"
  BY DEF RunStates
<1>4. QED
  BY <1>1, <1>2, <1>3, ParkStep

(* Where the registers go on within their stack.                            *)
LEMMA AtStep ==
  ASSUME NEW s \in SchedType, NEW at \in {"code", "wait"}
  PROVE  LET t == [s EXCEPT !.cpu.at = at] IN
         /\ t \in SchedType /\ t.active = s.active /\ t.runState = s.runState
         /\ t.main = s.main /\ t.mainValid = s.mainValid /\ t.saved = s.saved
         /\ t.cpu.sp = s.cpu.sp /\ t.cpu.latest = s.cpu.latest
<1> DEFINE c == [s.cpu EXCEPT !.at = at]
           t == [s EXCEPT !.cpu = c]
<1>1. c \in Context /\ c.sp = s.cpu.sp /\ c.latest = s.cpu.latest
  BY DEF SchedType, Context
<1>2. [s EXCEPT !.cpu.at = at] = t
  OBVIOUS
<1> HIDE DEF c
<1>3. /\ t \in SchedType /\ t.active = s.active /\ t.runState = s.runState
      /\ t.main = s.main /\ t.mainValid = s.mainValid /\ t.saved = s.saved /\ t.cpu = c
  BY <1>1 DEF SchedType
<1>4. QED
  BY <1>1, <1>2, <1>3

(* A wait of the main thread that is over.                                  *)
LEMMA WaitReturnsStep ==
  ASSUME SchedulerAssumption, SchedOK, WaitReturns
  PROVE  SchedStep
<1> DEFINE s == [sched EXCEPT !.cpu.at = "code"]
<1>1. s \in SchedType /\ s.active = sched.active /\ s.runState = sched.runState
  BY AtStep DEF SchedOK
<1>2. sched' = IF Caller # Main THEN YieldActive(s, queue, blocking - 1) ELSE s
  BY DEF WaitReturns
<1> HIDE DEF s
<1>3. ActiveRuns(s) /\ Awaiting(s) = Awaiting(sched)
  BY <1>1 DEF SchedOK, ActiveRuns, Awaiting
<1>4. CASE Caller # Main
  <2>1. s.active # Main
    BY <1>1, <1>4 DEF Caller
  <2>2. QED
    BY <1>1, <1>2, <1>3, <1>4, <2>1, YieldActiveStep DEF SchedStep
<1>5. CASE Caller = Main
  BY <1>1, <1>2, <1>3, <1>5 DEF SchedStep
<1>6. QED
  BY <1>4, <1>5

(* The end of a slice.                                                      *)
LEMMA SliceEndsStep ==
  ASSUME SchedulerAssumption, SchedOK, SliceEnds
  PROVE  /\ SchedStep
         /\ Placed(sched) => Placed(sched')
         /\ Caller = Main => sched'.active = Main
<1>1. CASE Caller # Main
  BY <1>1, YieldActiveStep DEF SliceEnds, SchedStep, SchedOK, Caller
<1>2. CASE Caller = Main
  <2>1. sched' = CaptureMain(sched) /\ sched.active = Main /\ sched \in SchedType
    BY <1>2 DEF SliceEnds, Caller, SchedOK
  <2>2. /\ sched' \in SchedType
        /\ sched'.cpu = sched.cpu /\ sched'.active = sched.active
        /\ sched'.runState = sched.runState /\ sched'.saved = sched.saved
    BY <2>1, CaptureMainStep
  <2>3. QED
    BY <1>2, <2>1, <2>2 DEF SchedStep, ActiveRuns, Awaiting, Placed
<1>3. QED
  BY <1>1, <1>2

(* The loop resumes the main thread, whose wait is over.                    *)
LEMMA ResumeReadyMainStep ==
  ASSUME SchedulerAssumption, SchedOK, ResumeReadyMain
  PROVE  SchedStep
<1> DEFINE l == Load(sched, sched.main)
           c == [l.cpu EXCEPT !.at = "code"]
<1>1. sched \in SchedType /\ sched.active = Main /\ sched.main \in Context
  BY DEF ResumeReadyMain, Caller, SchedOK, SchedType
<1>2. l \in SchedType /\ l.active = Main /\ l.runState = sched.runState
  BY <1>1, LoadStep
<1>3. sched' = [l EXCEPT !.mainValid = FALSE, !.cpu.at = "code"]
  BY DEF ResumeReadyMain
<1> HIDE DEF l
<1>4. c \in Context
  BY <1>2 DEF SchedType, Context
<1>5. sched' = [l EXCEPT !.mainValid = FALSE, !.cpu = c]
  BY <1>3
<1> HIDE DEF c
<1>6. sched' \in SchedType /\ sched'.active = Main /\ sched'.runState = sched.runState
  BY <1>2, <1>4, <1>5 DEF SchedType
<1>7. QED
  BY <1>6 DEF SchedStep, ActiveRuns, Awaiting

(* A worker runs while the main thread is parked.                           *)
LEMMA RunWorkerStep ==
  ASSUME SchedulerAssumption, SchedOK, RunWorker(sched)
  PROVE  SchedStep
BY SwitchToRunnableStep DEF RunWorker, SchedOK, SchedStep

(* The owner of the window procedure in progress runs.                      *)
LEMMA RunTransferOwnerStep ==
  ASSUME SchedulerAssumption, SchedOK, RunTransferOwner
  PROVE  /\ SchedStep
         /\ Placed(sched) => Placed(sched')
         /\ TransferOwner = Main => sched'.active = Main
         /\ TransferOwner = Nobody => sched' = sched
<1> DEFINE x == CaptureActive(sched)
           y == [x EXCEPT !.active = Main]
<1>1. sched' = IF TransferOwner = Main
               THEN IF Caller = Main THEN sched ELSE RestoreMain(y)
               ELSE IF TransferOwner \in {Nobody, Caller} THEN sched
               ELSE SwitchToRunnable(sched, queue, blocking, TransferOwner)
  BY DEF RunTransferOwner
<1>2. CASE TransferOwner = Main /\ Caller # Main
  <2>1. sched.active # Main
    BY <1>2 DEF Caller
  <2>2. /\ x \in SchedType /\ Awaiting(x) = Awaiting(sched)
        /\ (Placed(sched) => Stowed(x))
    BY <2>1, CaptureActiveStep, CaptureActiveAwaits, CaptureActiveStows DEF SchedOK
  <2> HIDE DEF x
  <2>3. /\ y \in SchedType /\ y.active = Main /\ y.runState = x.runState
        /\ y.saved = x.saved /\ y.main = x.main /\ y.mainValid = x.mainValid
    BY <2>2 DEF SchedType, Threads
  <2>4. sched' = RestoreMain(y)
    BY <1>1, <1>2
  <2> HIDE DEF y
  <2>5. Awaiting(y) = Awaiting(sched) /\ (Placed(sched) => Stowed(y))
    BY <2>2, <2>3 DEF Awaiting, Stowed
  <2>6. QED
    BY <1>2, <2>3, <2>4, <2>5, RestoreMainStep DEF SchedStep, ActiveRuns, Main, Nobody
<1>3. CASE ~(TransferOwner = Main /\ Caller # Main)
  <2>1. sched' \in {sched, SwitchToRunnable(sched, queue, blocking, TransferOwner)}
    BY <1>1, <1>3
  <2>2. SchedStep /\ (Placed(sched) => Placed(sched'))
    BY <2>1, SwitchToRunnableStep DEF SchedOK, SchedStep
  <2>3. TransferOwner = Main => sched' = sched /\ sched.active = Main
    BY <1>1, <1>3 DEF Caller
  <2>4. TransferOwner = Nobody => sched' = sched
    BY <1>1, <1>3 DEF Main, Nobody
  <2>5. QED
    BY <2>2, <2>3, <2>4
<1>4. QED
  BY <1>2, <1>3

(* The loop with messages queued ...                                        *)
LEMMA RunForMessagesStep ==
  ASSUME SchedulerAssumption, SchedOK, RunForMessages
  PROVE  /\ SchedStep
         /\ Placed(sched) => Placed(sched')
<1>1. CASE blocking > 0 /\ OldestOwner(queue) = Main
  BY <1>1, SwitchToRunnableStep DEF RunForMessages, RunWorker, SchedOK, SchedStep
<1>2. CASE ~(blocking > 0 /\ OldestOwner(queue) = Main)
  <2>1. \/ sched' = sched
        \/ sched.active # Main /\ sched' = YieldActive(sched, queue, blocking)
    BY <1>2 DEF RunForMessages, Caller
  <2>2. QED
    BY <2>1, YieldActiveStep DEF SchedOK, SchedStep
<1>3. QED
  BY <1>1, <1>2

(* ... and with none.                                                       *)
LEMMA RunIdleStep ==
  ASSUME SchedulerAssumption, SchedOK, RunIdle
  PROVE  /\ SchedStep
         /\ Placed(sched) => Placed(sched')
<1>1. sched' \in {sched, SwitchToRunnable(sched, queue, blocking, Nobody)}
  BY DEF RunIdle
<1>2. QED
  BY <1>1, SwitchToRunnableStep DEF SchedOK, SchedStep

(* A sender parks.                                                          *)
LEMMA SendMessageStep ==
  ASSUME SchedulerAssumption, SchedOK, NEW o \in WindowOwners, SendMessage(o)
  PROVE  /\ sched' \in SchedType /\ ActiveRuns(sched')
         /\ Caller \in Workers /\ sched.runState[Caller] = "Running"
         /\ Awaiting(sched') = Awaiting(sched) \cup {Caller}
         /\ Placed(sched) /\ o = Main => Placed(sched')
<1> DEFINE p == WakeMessageWaiters(sched, queue')
           s == ParkActive(p, "WaitingForSendMessage")
<1>1. sched.active # Main /\ Caller = sched.active /\ "WaitingForSendMessage" \in RunStates
  BY DEF SendMessage, Caller, RunStates
<1>2. Caller \in Workers /\ sched.runState[Caller] = "Running"
  BY <1>1 DEF SchedOK, SchedType, Threads, ActiveRuns
<1>3. /\ p \in SchedType /\ p.active = sched.active /\ Awaiting(p) = Awaiting(sched)
      /\ ActiveRuns(p) /\ (Placed(sched) => Placed(p)) /\ p.mainValid = sched.mainValid
  BY WakeMessageWaitersStep DEF SchedOK
<1>4. sched' = IF o # Main /\ Switches(s, queue', blocking)
               THEN SwitchToRunnable(s, queue', blocking, o)
               ELSE IF s.mainValid THEN RestoreMain(s)
               ELSE SwitchToRunnable(s, queue', blocking, Nobody)
  BY DEF SendMessage
<1> HIDE DEF p
<1>5. /\ s \in SchedType /\ s.active = Main /\ s.mainValid = p.mainValid
      /\ Awaiting(s) = Awaiting(p) \cup {p.active}
      /\ Placed(p) => Stowed(s)
  BY <1>1, <1>3, ParkActiveStep
<1> HIDE DEF s
<1>6. ActiveRuns(s)
  BY <1>5 DEF ActiveRuns
<1>7. /\ RestoreMain(s) \in SchedType /\ Awaiting(RestoreMain(s)) = Awaiting(s)
      /\ RestoreMain(s).active = Main /\ (Stowed(s) => Placed(RestoreMain(s)))
  BY <1>5, RestoreMainStep
<1>8. /\ sched' \in SchedType /\ ActiveRuns(sched') /\ Awaiting(sched') = Awaiting(s)
  BY <1>4, <1>5, <1>6, <1>7, SwitchToRunnableStep DEF ActiveRuns
<1>9. ASSUME Placed(sched), o = Main PROVE Placed(sched')
  <2>1. s.mainValid
    BY <1>1, <1>3, <1>5, <1>9 DEF Placed
  <2>2. QED
    BY <1>3, <1>4, <1>5, <1>7, <1>9, <2>1
<1>10. QED
  BY <1>1, <1>2, <1>3, <1>5, <1>8, <1>9

----------------------------------------------------------------------------
(* The list of transfers and the procedures in progress: there are as many  *)
(* of the one as of the other.                                              *)

Mine(f, t) == {i \in 1 .. Len(f) : f[i] = t}

Counted ==
  /\ transfers \in Seq(Transfer) /\ Len(transfers) <= MaxTransfers
  /\ procs \in [Threads -> Nat]
  /\ \E f \in Seq(Threads) :
       Len(f) = Len(transfers) /\ \A t \in Threads : procs[t] = Cardinality(Mine(f, t))

(* A thread has no more entries than the list is long ...                   *)
LEMMA MineBound ==
  ASSUME NEW f \in Seq(Threads), NEW t
  PROVE  /\ IsFiniteSet(Mine(f, t)) /\ Cardinality(Mine(f, t)) \in Nat
         /\ Cardinality(Mine(f, t)) <= Len(f)
<1>1. Len(f) \in Nat
  BY LenProperties
<1>2. IsFiniteSet(1 .. Len(f)) /\ Cardinality(1 .. Len(f)) = Len(f)
  BY <1>1, FS_Interval
<1>3. Mine(f, t) \in SUBSET (1 .. Len(f))
  BY DEF Mine
<1>4. IsFiniteSet(Mine(f, t)) /\ Cardinality(Mine(f, t)) <= Cardinality(1 .. Len(f))
  BY <1>2, <1>3, FS_Subset
<1>5. QED
  BY <1>2, <1>4, FS_CardinalityType

(* ... nor more procedures in progress than there are transfers.            *)
LEMMA CountedBound ==
  ASSUME Counted
  PROVE  /\ Len(transfers) \in Nat
         /\ \A t \in Threads : procs[t] \in Nat /\ procs[t] <= Len(transfers)
<1>1. PICK f \in Seq(Threads) :
        Len(f) = Len(transfers) /\ \A t \in Threads : procs[t] = Cardinality(Mine(f, t))
  BY DEF Counted
<1>2. QED
  BY <1>1, MineBound, LenProperties DEF Counted

(* One more entry, and one less, of a list of threads.                      *)
LEMMA MineAppend ==
  ASSUME NEW f \in Seq(Threads), NEW u \in Threads, NEW t \in Threads
  PROVE  Cardinality(Mine(Append(f, u), t)) = Cardinality(Mine(f, t)) + (IF u = t THEN 1 ELSE 0)
<1> DEFINE g == Append(f, u)
           n == Len(g)
<1>1. /\ g \in Seq(Threads) /\ Len(f) \in Nat /\ n = Len(f) + 1
      /\ \A j \in 1 .. Len(f) : g[j] = f[j]
      /\ g[n] = u
  BY AppendProperties, LenProperties
<1> HIDE DEF g
<1>2. n \in Nat /\ n \in 1 .. n /\ Len(f) = n - 1
  BY <1>1
<1> DEFINE A == Mine(g, t)
           B == Mine(f, t)
<1>3. A \in SUBSET (1 .. n) /\ B \in SUBSET (1 .. n - 1)
  BY <1>2 DEF Mine
<1>4. \A j \in 1 .. n - 1 : j \in B <=> (IF j < n THEN j ELSE j + 1) \in A
  BY <1>1, <1>2 DEF Mine
<1>5. n \in A <=> u = t
  BY <1>1, <1>2 DEF Mine
<1> HIDE DEF A, B, n
<1>6. Cardinality(A) = Cardinality(B) + (IF n \in A THEN 1 ELSE 0)
  BY <1>2, <1>3, <1>4, CountWithout
<1>7. Cardinality(A) = Cardinality(B) + (IF u = t THEN 1 ELSE 0)
  BY <1>5, <1>6
<1>8. QED
  BY <1>7 DEF A, B, g

(* An entry less.                                                           *)
LEMMA MineRemove ==
  ASSUME NEW f \in Seq(Threads), NEW i \in 1 .. Len(f), NEW t \in Threads
  PROVE  Cardinality(Mine(f, t)) = Cardinality(Mine(RemoveAt(f, i), t)) + (IF f[i] = t THEN 1 ELSE 0)
<1> DEFINE n == Len(f)
           g == RemoveAt(f, i)
           A == Mine(f, t)
           B == Mine(g, t)
<1>1. /\ n \in Nat /\ i \in 1 .. n /\ g \in Seq(Threads) /\ Len(g) = n - 1
      /\ \A j \in 1 .. n - 1 : g[j] = IF j < i THEN f[j] ELSE f[j + 1]
  BY RemoveAtSeq, LenProperties
<1> HIDE DEF g
<1>2. A \in SUBSET (1 .. n) /\ B \in SUBSET (1 .. n - 1)
  BY <1>1 DEF Mine
<1>3. \A j \in 1 .. n - 1 : j \in B <=> (IF j < i THEN j ELSE j + 1) \in A
  BY <1>1 DEF Mine
<1>4. i \in A <=> f[i] = t
  BY <1>1 DEF Mine
<1> HIDE DEF A, B, n
<1>5. Cardinality(A) = Cardinality(B) + (IF i \in A THEN 1 ELSE 0)
  BY <1>1, <1>2, <1>3, CountWithout
<1>6. Cardinality(A) = Cardinality(B) + (IF f[i] = t THEN 1 ELSE 0)
  BY <1>4, <1>5
<1>7. QED
  BY <1>6 DEF A, B, g

(* A window procedure is entered.                                           *)
LEMMA EnterStep ==
  ASSUME SchedulerAssumption, Counted, NEW s \in SchedType,
         NEW owner \in WindowOwners \cup {Nobody}, NEW sender \in Workers \cup {Nobody},
         NEW then \in {"code", "wait"}, Enter(s, owner, sender, then)
  PROVE  /\ Counted'
         /\ transfers' = Append(transfers, [owner |-> owner, sender |-> sender,
                                            then |-> then, caller |-> s.cpu.sp])
         /\ procs' = [procs EXCEPT ![s.cpu.sp] = procs[s.cpu.sp] + 1]
         /\ sched' \in SchedType /\ sched'.runState = s.runState
         /\ sched'.active = IF owner = Main THEN Main ELSE s.active
         /\ sched'.main = s.main /\ sched'.mainValid = s.mainValid /\ sched'.saved = s.saved
         /\ sched'.cpu.sp = s.cpu.sp /\ sched'.cpu.latest = s.cpu.latest
<1> DEFINE u == s.cpu.sp
           r == [owner |-> owner, sender |-> sender, then |-> then, caller |-> u]
<1>1. u \in Threads
  BY DEF SchedType, Context
<1>2. r \in Transfer
  BY <1>1 DEF Transfer
<1>3. transfers' = Append(transfers, r) /\ Len(transfers) < MaxTransfers
      /\ procs' = [procs EXCEPT ![u] = procs[u] + 1]
  BY DEF Enter
<1> HIDE DEF r
<1>4. transfers' \in Seq(Transfer) /\ Len(transfers') = Len(transfers) + 1 /\ Len(transfers) \in Nat
  BY <1>2, <1>3, AppendProperties, LenProperties DEF Counted
<1>5. procs' \in [Threads -> Nat]
  BY <1>1, <1>3 DEF Counted
<1>6. \E g \in Seq(Threads) :
        Len(g) = Len(transfers') /\ \A t \in Threads : procs'[t] = Cardinality(Mine(g, t))
  <2>1. PICK f \in Seq(Threads) :
          Len(f) = Len(transfers) /\ \A t \in Threads : procs[t] = Cardinality(Mine(f, t))
    BY DEF Counted
  <2>2. Append(f, u) \in Seq(Threads) /\ Len(Append(f, u)) = Len(f) + 1
    BY <1>1, AppendProperties
  <2>3. ASSUME NEW t \in Threads PROVE procs'[t] = Cardinality(Mine(Append(f, u), t))
    <3>1. Cardinality(Mine(Append(f, u), t)) = Cardinality(Mine(f, t)) + (IF u = t THEN 1 ELSE 0)
      BY <1>1, MineAppend
    <3>2. procs'[t] = procs[t] + (IF u = t THEN 1 ELSE 0)
      BY <1>1, <1>3 DEF Counted
    <3>3. QED
      BY <2>1, <3>1, <3>2
  <2>4. QED
    BY <1>4, <2>1, <2>2, <2>3
<1>7. Counted'
  BY <1>3, <1>4, <1>5, <1>6 DEF Counted, SchedulerAssumption
<1>8. /\ sched' \in SchedType /\ sched'.runState = s.runState
      /\ sched'.active = IF owner = Main THEN Main ELSE s.active
      /\ sched'.main = s.main /\ sched'.mainValid = s.mainValid /\ sched'.saved = s.saved
      /\ sched'.cpu.sp = s.cpu.sp /\ sched'.cpu.latest = s.cpu.latest
  <2> DEFINE x == [s EXCEPT !.cpu.at = "code"]
             a == IF owner = Main THEN Main ELSE x.active
  <2>1. /\ x \in SchedType /\ x.active = s.active /\ x.runState = s.runState
        /\ x.main = s.main /\ x.mainValid = s.mainValid /\ x.saved = s.saved
        /\ x.cpu.sp = s.cpu.sp /\ x.cpu.latest = s.cpu.latest
    BY AtStep
  <2>2. sched' = [x EXCEPT !.active = a]
    BY DEF Enter
  <2> HIDE DEF x
  <2>3. a \in Threads
    BY <2>1 DEF SchedType, Threads
  <2>4. QED
    BY <2>1, <2>2, <2>3 DEF SchedType
<1>9. QED
  BY <1>3, <1>7, <1>8 DEF r

(* A window procedure returns.                                              *)
LEMMA ReturnStep ==
  ASSUME SchedulerAssumption, Counted, SchedOK, Return
  PROVE  /\ Counted'
         /\ transfers' = Front(transfers) /\ transfers # << >>
         /\ Sp \in Threads /\ procs' = [procs EXCEPT ![Sp] = procs[Sp] - 1]
         /\ sched' \in SchedType /\ ActiveRuns(sched')
         /\ Awaiting(sched') = Awaiting(sched) \ {Last(transfers).sender}
         /\ sched'.active = IF Last(transfers).owner = Main THEN Main ELSE sched.active
         /\ sched'.active = sched.active /\ Placed(sched) => Placed(sched')
<1> DEFINE last == Last(transfers)
           u == Sp
<1>1. u \in Threads /\ procs[u] > 0 /\ transfers # << >> /\ sched \in SchedType
  BY DEF Return, Sp, SchedOK, SchedType, Context
<1>2. /\ transfers' = Front(transfers) /\ procs' = [procs EXCEPT ![u] = procs[u] - 1]
  BY DEF Return
<1>3. /\ transfers' \in Seq(Transfer) /\ Len(transfers') = Len(transfers) - 1
      /\ Len(transfers) \in Nat \ {0} /\ last \in Transfer
  BY <1>1, <1>2, FrontSeq DEF Counted
<1>4. procs' \in [Threads -> Nat]
  BY <1>1, <1>2 DEF Counted
<1>5. \E g \in Seq(Threads) :
        Len(g) = Len(transfers') /\ \A t \in Threads : procs'[t] = Cardinality(Mine(g, t))
  <2>1. PICK f \in Seq(Threads) :
          Len(f) = Len(transfers) /\ \A t \in Threads : procs[t] = Cardinality(Mine(f, t))
    BY DEF Counted
  <2>2. PICK i \in 1 .. Len(f) : f[i] = u
    <3>1. Cardinality(Mine(f, u)) > 0
      BY <1>1, <2>1
    <3>2. Mine(f, u) # {}
      BY <3>1, FS_EmptySet
    <3>3. QED
      BY <3>2 DEF Mine
  <2>3. RemoveAt(f, i) \in Seq(Threads) /\ Len(RemoveAt(f, i)) = Len(f) - 1
    BY RemoveAtSeq
  <2>4. ASSUME NEW t \in Threads PROVE procs'[t] = Cardinality(Mine(RemoveAt(f, i), t))
    <3>1. Cardinality(Mine(f, t)) = Cardinality(Mine(RemoveAt(f, i), t)) + (IF u = t THEN 1 ELSE 0)
      BY <2>2, MineRemove
    <3>2. procs'[t] = procs[t] - (IF u = t THEN 1 ELSE 0)
      BY <1>1, <1>2 DEF Counted
    <3>3. Cardinality(Mine(RemoveAt(f, i), t)) \in Nat
      BY <2>3, MineBound
    <3>4. QED
      BY <2>1, <3>1, <3>2, <3>3
  <2>5. QED
    BY <1>3, <2>1, <2>3, <2>4
<1>6. Counted'
  BY <1>3, <1>4, <1>5 DEF Counted, SchedulerAssumption
<1> DEFINE answered(w) == w = last.sender /\ sched.runState[w] = "WaitingForSendMessage"
           n == [w \in Workers |-> IF answered(w) THEN "Runnable" ELSE sched.runState[w]]
           a == IF last.owner = Main THEN Main ELSE sched.active
           c == [sched.cpu EXCEPT !.at = last.then]
<1>7. sched' = [sched EXCEPT !.runState = n, !.active = a, !.cpu = c]
  BY DEF Return
<1>8. /\ n \in [Workers -> RunStates]
      /\ \A w \in Workers : n[w] = IF answered(w) THEN "Runnable" ELSE sched.runState[w]
  BY <1>1 DEF SchedType, RunStates
<1>9. a \in Threads
  BY <1>1 DEF SchedType, Threads
<1>10. c \in Context /\ c.sp = sched.cpu.sp /\ c.latest = sched.cpu.latest
  BY <1>1, <1>3 DEF SchedType, Context, Transfer
<1> HIDE DEF n, c
<1>11. /\ sched' \in SchedType /\ sched'.runState = n /\ sched'.active = a /\ sched'.cpu = c
       /\ sched'.main = sched.main /\ sched'.mainValid = sched.mainValid
       /\ sched'.saved = sched.saved
  BY <1>1, <1>7, <1>8, <1>9, <1>10 DEF SchedType
<1>12. Awaiting(sched') = Awaiting(sched) \ {last.sender}
  BY <1>8, <1>11 DEF Awaiting
<1>13. ActiveRuns(sched')
  <2>1. sched.active # Main => sched.active \in Workers
    BY <1>1 DEF SchedType, Threads
  <2>2. QED
    BY <1>8, <1>11, <2>1 DEF ActiveRuns, SchedOK
<1>14. ASSUME a = sched.active, Placed(sched) PROVE Placed(sched')
  <2>1. \A w \in Workers : n[w] # "Terminated" => sched.runState[w] # "Terminated"
    BY <1>8
  <2>2. QED
    BY <1>10, <1>11, <1>14, <2>1 DEF Placed
<1>15. QED
  BY <1>1, <1>2, <1>6, <1>11, <1>12, <1>13, <1>14

----------------------------------------------------------------------------
(* Looking for a message.                                                   *)

(* GetMessageW finds a message of the caller's.                             *)
LEMMA FirstForStep ==
  ASSUME queue \in Seq(Message), NEW t, FirstFor(t) # 0
  PROVE  FirstFor(t) \in 1 .. Len(queue) /\ queue[FirstFor(t)].owner = t
<1> DEFINE I == {i \in 1 .. Len(queue) : queue[i].owner = t}
<1>1. FirstFor(t) = IF I # {} THEN Min(I) ELSE 0
  BY DEF FirstFor, SelectInSeq
<1>2. I \in SUBSET Nat
  BY LenProperties
<1>3. I # {} => Min(I) \in I
  BY <1>2, MinMember
<1>4. FirstFor(t) \in I
  BY <1>1, <1>3
<1>5. QED
  BY <1>4

(* What it hands to the caller has the caller for its owner.                *)
LEMMA RetrievedStep ==
  ASSUME SchedulerAssumption, queue \in Seq(Message), NEW t \in Threads, FirstFor(t) # 0
  PROVE  FirstFor(t) \in 1 .. Len(queue) /\ queue[FirstFor(t)] \in Retrieved
<1>1. FirstFor(t) \in 1 .. Len(queue) /\ queue[FirstFor(t)].owner = t
  BY FirstForStep
<1>2. queue[FirstFor(t)] \in Message
  BY <1>1, ElementOfSeq
<1>3. t # Nobody
  BY DEF Threads, Main, Nobody, SchedulerAssumption
<1>4. QED
  BY <1>1, <1>2, <1>3 DEF Message, Retrieved

(* What the main thread's wait looks for: a message sent to it.             *)
LEMMA FirstSentToMainStep ==
  ASSUME queue \in Seq(Message), FirstSentToMain # 0
  PROVE  /\ FirstSentToMain \in 1 .. Len(queue)
         /\ queue[FirstSentToMain].owner = Main /\ queue[FirstSentToMain].sender # Nobody
<1> DEFINE I == {i \in 1 .. Len(queue) : queue[i].owner = Main /\ queue[i].sender # Nobody}
<1>1. FirstSentToMain = IF I # {} THEN Min(I) ELSE 0
  BY DEF FirstSentToMain, SelectInSeq
<1>2. I \in SUBSET Nat
  BY LenProperties
<1>3. I # {} => Min(I) \in I
  BY <1>2, MinMember
<1>4. FirstSentToMain \in I
  BY <1>1, <1>3
<1>5. QED
  BY <1>4

(* Where SendMessage puts its message.                                      *)
SentPlace ==
  LET posted == SelectInSeq(queue, LAMBDA m : m.sender = Nobody)
  IN  IF posted = 0 THEN Len(queue) + 1 ELSE posted

(* A sent message is put within the queue or at its end.                    *)
LEMMA SentPlaceStep ==
  ASSUME queue \in Seq(Message)
  PROVE  SentPlace \in 1 .. Len(queue) + 1
<1> DEFINE I == {i \in 1 .. Len(queue) : queue[i].sender = Nobody}
           posted == IF I # {} THEN Min(I) ELSE 0
<1>1. SentPlace = IF posted = 0 THEN Len(queue) + 1 ELSE posted
  BY DEF SentPlace, SelectInSeq
<1>2. Len(queue) \in Nat /\ I \in SUBSET Nat
  BY LenProperties
<1>3. I # {} => Min(I) \in I
  BY <1>2, MinMember
<1>4. posted \in 0 .. Len(queue)
  BY <1>2, <1>3
<1> HIDE DEF posted
<1>5. QED
  BY <1>1, <1>2, <1>4

(* What is lost was a worker's.                                             *)
LEMMA LoseStep ==
  ASSUME unheard \in SUBSET Workers, NEW G \in SUBSET (Workers \cup {Nobody}), Lose(G)
  PROVE  unheard' \in SUBSET Workers
BY DEF Lose

(* The main thread's wait: a sent message is handled inside it ...          *)
HandledInWait ==
  /\ FirstSentToMain # 0
  /\ queue' = RemoveAt(queue, FirstSentToMain)
  /\ transfers' = Append(transfers, [owner |-> Main, sender |-> queue[FirstSentToMain].sender,
                                      then |-> "wait", caller |-> Sp])
  /\ procs' = [procs EXCEPT ![Sp] = procs[Sp] + 1]
  /\ UNCHANGED unheard

(* ... or dropped, or there is none, and somebody else runs.                *)
PassedInWait == (DropSent \/ NothingSent) /\ UNCHANGED <<transfers, procs>>

(* Whether a message is dropped or there is none.                           *)
LEMMA PassedStep ==
  ASSUME queue \in Seq(Message), unheard \in SUBSET Workers, DropSent \/ NothingSent
  PROVE  queue' \in Seq(Message) /\ unheard' \in SUBSET Workers
<1>1. CASE DropSent
  <2> DEFINE i == FirstSentToMain
  <2>1. i \in 1 .. Len(queue)
    BY <1>1, FirstSentToMainStep DEF DropSent
  <2>2. queue[i] \in Message /\ queue' = RemoveAt(queue, i) /\ Lose({queue[i].sender})
    BY <1>1, <2>1, ElementOfSeq DEF DropSent
  <2> HIDE DEF i
  <2>3. {queue[i].sender} \in SUBSET (Workers \cup {Nobody})
    BY <2>2 DEF Message
  <2>4. QED
    BY <2>1, <2>2, <2>3, RemoveAtSeq, LoseStep
<1>2. CASE NothingSent
  BY <1>2 DEF NothingSent
<1>3. QED
  BY <1>1, <1>2

(* One look of the main thread's wait, with either outcome.                 *)
LEMMA WaitForMainStep ==
  ASSUME SchedulerAssumption, queue \in Seq(Message), phase \in {"slice", "host"},
         unheard \in SUBSET Workers, Counted, SchedOK, NEW b, NEW p, WaitForMain(b, p)
  PROVE  /\ SchedStep /\ Counted' /\ queue' \in Seq(Message)
         /\ phase' \in {"slice", "host"} /\ unheard' \in SUBSET Workers
         /\ HandledInWait \/ PassedInWait
<1> DEFINE x == [sched EXCEPT !.cpu.at = "wait"]
           s == CaptureMain(x)
           y == [s EXCEPT !.active = Main]
           i == FirstSentToMain
<1>1. /\ x \in SchedType /\ x.active = sched.active /\ x.runState = sched.runState
      /\ x.cpu.sp = Sp
  BY AtStep DEF SchedOK, Sp
<1>2. \/ /\ i # 0 /\ Enter(y, Main, queue[i].sender, "wait")
         /\ queue' = RemoveAt(queue, i)
         /\ UNCHANGED <<phase, unheard>>
      \/ /\ DropSent \/ NothingSent
         /\ SwitchOrStop(s, queue', b, p)
         /\ UNCHANGED <<transfers, procs>>
  BY DEF WaitForMain, HandleSent
<1> HIDE DEF x
<1>3. /\ s \in SchedType /\ s.active = sched.active /\ s.runState = sched.runState
      /\ s.cpu.sp = Sp
  BY <1>1, CaptureMainStep
<1> HIDE DEF s
<1>4. /\ y \in SchedType /\ y.active = Main /\ y.runState = sched.runState /\ y.cpu.sp = Sp
  BY <1>3 DEF SchedType, Threads
<1> HIDE DEF y
<1>5. ActiveRuns(s) /\ Awaiting(s) = Awaiting(sched)
  BY <1>3 DEF ActiveRuns, Awaiting, SchedOK
<1>6. CASE /\ i # 0 /\ Enter(y, Main, queue[i].sender, "wait")
           /\ queue' = RemoveAt(queue, i)
           /\ UNCHANGED <<phase, unheard>>
  <2>1. i \in 1 .. Len(queue) /\ queue[i].owner = Main
    BY <1>6, FirstSentToMainStep
  <2>2. queue[i] \in Message
    BY <2>1, ElementOfSeq
  <2>3. Main \in WindowOwners \cup {Nobody} /\ queue[i].sender \in Workers \cup {Nobody}
    BY <2>1, <2>2 DEF Message
  <2>4. /\ Counted'
        /\ transfers' = Append(transfers, [owner |-> Main, sender |-> queue[i].sender,
                                           then |-> "wait", caller |-> y.cpu.sp])
        /\ procs' = [procs EXCEPT ![y.cpu.sp] = procs[y.cpu.sp] + 1]
        /\ sched' \in SchedType /\ sched'.runState = y.runState
        /\ sched'.active = IF Main = Main THEN Main ELSE y.active
    BY <1>4, <1>6, <2>3, EnterStep
  <2>5. queue' \in Seq(Message)
    BY <1>6, <2>1, RemoveAtSeq
  <2>6. SchedStep
    BY <1>4, <2>4 DEF SchedStep, ActiveRuns, Awaiting
  <2>7. HandledInWait
    BY <1>4, <1>6, <2>4 DEF HandledInWait
  <2>8. QED
    BY <1>6, <2>4, <2>5, <2>6, <2>7
<1>7. CASE /\ DropSent \/ NothingSent
           /\ SwitchOrStop(s, queue', b, p)
           /\ UNCHANGED <<transfers, procs>>
  <2>1. Counted'
    BY <1>7 DEF Counted, Mine
  <2>2. SchedStep
    BY <1>3, <1>5, <1>7, SwitchToRunnableStep DEF SwitchOrStop, SchedStep
  <2>3. phase' \in {"slice", "host"}
    BY <1>7 DEF SwitchOrStop
  <2>4. queue' \in Seq(Message) /\ unheard' \in SUBSET Workers
    BY <1>7, PassedStep
  <2>5. QED
    BY <1>7, <2>1, <2>2, <2>3, <2>4 DEF PassedInWait
<1>8. QED
  BY <1>2, <1>6, <1>7

----------------------------------------------------------------------------
(* Types.                                                                   *)

Sound == TypeOK /\ Counted /\ ActiveRuns(sched)

(* What is to be shown of a step.                                           *)
LEMMA SoundWhen ==
  ASSUME SchedulerAssumption, Counted', sched' \in SchedType, ActiveRuns(sched'),
         queue' \in Seq(Message), blocking' \in 0 .. MaxBlocking,
         got' \in [Threads -> Retrieved \cup {Nothing}],
         phase' \in {"slice", "host"}, quit' \in BOOLEAN, made' \in BOOLEAN,
         unheard' \in SUBSET Workers
  PROVE  Sound'
<1>1. Counted' => /\ transfers' \in Seq(Transfer) /\ Len(transfers') <= MaxTransfers
                  /\ procs' \in [Threads -> Nat] /\ Len(transfers') \in Nat
  BY LenProperties DEF Counted
<1>2. PICK f \in Seq(Threads) :
        Len(f) = Len(transfers') /\ \A t \in Threads : procs'[t] = Cardinality(Mine(f, t))
  BY DEF Counted
<1>3. ASSUME NEW t \in Threads PROVE procs'[t] \in 0 .. MaxTransfers
  <2>1. Cardinality(Mine(f, t)) \in Nat /\ Cardinality(Mine(f, t)) <= Len(f)
    BY MineBound
  <2>2. QED
    BY <1>1, <1>2, <2>1 DEF SchedulerAssumption
<1>4. procs' \in [Threads -> 0 .. MaxTransfers]
  BY <1>1, <1>3
<1>5. TypeOK'
  BY <1>1, <1>4 DEF TypeOK, SchedType
<1>6. QED
  BY <1>5 DEF Sound

(* What Sound says, in parts.                                               *)
LEMMA SoundParts ==
  ASSUME Sound
  PROVE  /\ SchedOK /\ Counted /\ queue \in Seq(Message) /\ blocking \in 0 .. MaxBlocking
         /\ got \in [Threads -> Retrieved \cup {Nothing}]
         /\ phase \in {"slice", "host"} /\ quit \in BOOLEAN /\ made \in BOOLEAN
         /\ unheard \in SUBSET Workers
         /\ Caller \in Threads /\ Sp \in Threads
<1>1. sched \in SchedType
  BY DEF Sound, TypeOK, SchedType
<1>2. Caller \in Threads /\ Sp \in Threads
  BY <1>1 DEF SchedType, Context, Caller, Sp
<1>3. QED
  BY <1>1, <1>2 DEF Sound, TypeOK, SchedOK

(* Nothing to count has changed.                                            *)
LEMMA CountedSame ==
  ASSUME Counted, UNCHANGED <<transfers, procs>>
  PROVE  Counted'
BY DEF Counted, Mine

(* The steps that leave the messages alone.                                 *)
LEMMA SchedOnly ==
  ASSUME SchedulerAssumption, Sound, SchedStep,
         UNCHANGED <<queue, got, transfers, procs, unheard>>,
         blocking' \in 0 .. MaxBlocking,
         phase' \in {"slice", "host"}, quit' \in BOOLEAN, made' \in BOOLEAN
  PROVE  Sound'
<1>1. Counted'
  BY SoundParts, CountedSame
<1>2. QED
  BY <1>1, SoundParts, SoundWhen DEF SchedStep

(* The start.                                                               *)
LEMMA InitSound ==
  ASSUME SchedulerAssumption, Init
  PROVE  Sound
<1>1. Main \in Threads /\ Workers \subseteq Threads /\ Main \notin Workers
  BY DEF Threads, Main, SchedulerAssumption
<1>2. \A t \in Threads : Start(t) \in Context /\ [Start(t) EXCEPT !.latest = FALSE] \in Context
  BY DEF Start, Context
<1>3. sched \in SchedType
  <2> DEFINE v == [w \in Workers |-> Start(w)]
             n == [w \in Workers |-> "Runnable"]
             c == Start(Main)
             m == [Start(Main) EXCEPT !.latest = FALSE]
  <2>1. v \in [Workers -> Context] /\ n \in [Workers -> RunStates] /\ c \in Context /\ m \in Context
    BY <1>1, <1>2 DEF RunStates
  <2>2. sched = [cpu |-> c, active |-> Main, last |-> 0, main |-> m, mainValid |-> FALSE,
                 saved |-> v, runState |-> n]
    BY DEF Init
  <2> HIDE DEF v, n, c, m
  <2>3. QED
    BY <1>1, <2>1, <2>2 DEF SchedType
<1>4. ActiveRuns(sched)
  BY DEF Init, ActiveRuns
<1>5. Counted
  <2>1. << >> \in Seq(Threads) /\ Len(<< >>) = 0 /\ << >> \in Seq(Transfer)
    BY EmptySeq
  <2>2. \A t \in Threads : Mine(<< >>, t) = {}
    BY DEF Mine
  <2>3. transfers = << >> /\ procs = [t \in Threads |-> 0]
    BY DEF Init
  <2>4. \A t \in Threads : procs[t] = Cardinality(Mine(<< >>, t))
    BY <2>2, <2>3, FS_EmptySet
  <2>5. \E f \in Seq(Threads) :
          Len(f) = Len(transfers) /\ \A t \in Threads : procs[t] = Cardinality(Mine(f, t))
    BY <2>1, <2>3, <2>4
  <2>6. transfers \in Seq(Transfer) /\ Len(transfers) <= MaxTransfers
    BY <2>1, <2>3 DEF SchedulerAssumption
  <2>7. procs \in [Threads -> Nat]
    BY <2>3
  <2>8. QED
    BY <2>5, <2>6, <2>7 DEF Counted
<1>6. /\ queue \in Seq(Message) /\ transfers \in Seq(Transfer) /\ blocking \in 0 .. MaxBlocking
      /\ got \in [Threads -> Retrieved \cup {Nothing}]
      /\ procs \in [Threads -> 0 .. MaxTransfers]
      /\ phase \in {"slice", "host"} /\ quit \in BOOLEAN /\ made \in BOOLEAN
      /\ unheard \in SUBSET Workers
  <2>1. MaxBlocking \in Nat /\ MaxTransfers \in Nat
    BY DEF SchedulerAssumption
  <2>2. /\ queue = << >> /\ transfers = << >> /\ blocking = 0
        /\ got = [t \in Threads |-> Nothing]
        /\ procs = [t \in Threads |-> 0]
        /\ phase = "host" /\ quit = FALSE /\ made = FALSE /\ unheard = {}
    BY DEF Init
  <2>3. got \in [Threads -> Retrieved \cup {Nothing}]
    BY <2>2
  <2>4. << >> \in Seq(Message) /\ << >> \in Seq(Transfer)
    BY EmptySeq
  <2>5. procs \in [Threads -> 0 .. MaxTransfers]
    BY <2>1, <2>2
  <2>6. blocking \in 0 .. MaxBlocking
    BY <2>1, <2>2
  <2>7. QED
    BY <2>2, <2>3, <2>4, <2>5, <2>6
<1>7. QED
  BY <1>3, <1>4, <1>5, <1>6 DEF Sound, TypeOK, SchedType

(* A message of a window, one that was destroyed included.                  *)
LEMMA OwnerNow ==
  ASSUME NEW o \in WindowOwners, NEW owner \in OwnersNow(o), NEW sender \in Workers \cup {Nobody}
  PROVE  /\ owner \in {o, Nobody} /\ owner \in WindowOwners \cup {Nobody}
         /\ [owner |-> owner, sender |-> sender] \in Message
BY DEF OwnersNow, Message

(* The n messages that step counts are left, the others were for o.         *)
Left(o, n, step) ==
  LET gone == (1 .. Len(queue)) \ {step[i] : i \in 1 .. n} IN
  /\ \A i, j \in 1 .. n : i < j => step[i] < step[j]
  /\ \A i \in gone : queue[i].owner = o
  /\ queue' = [i \in 1 .. n |-> queue[step[i]]]
  /\ queue' \in Seq(Message) /\ Len(queue') = n
  /\ Lose({queue[i].sender : i \in gone})
  /\ {queue[i].sender : i \in gone} \in SUBSET (Workers \cup {Nobody})

(* DestroyWindow keeps what is for others.                                  *)
LEMMA DestroyKeeps ==
  ASSUME queue \in Seq(Message), NEW o, DestroyWindow(o)
  PROVE  \E n \in Nat : \E step \in [1 .. n -> 1 .. Len(queue)] : Left(o, n, step)
<1>1. Len(queue) \in Nat
  BY LenProperties
<1>2. PICK n \in 0 .. Len(queue) : \E step \in [1 .. n -> 1 .. Len(queue)] :
        LET gone == (1 .. Len(queue)) \ {step[i] : i \in 1 .. n} IN
        /\ \A i, j \in 1 .. n : i < j => step[i] < step[j]
        /\ \A i \in gone : queue[i].owner = o
        /\ queue' = [i \in 1 .. n |-> queue[step[i]]]
        /\ Lose({queue[i].sender : i \in gone})
  BY DEF DestroyWindow
<1>3. PICK step \in [1 .. n -> 1 .. Len(queue)] :
        LET gone == (1 .. Len(queue)) \ {step[i] : i \in 1 .. n} IN
        /\ \A i, j \in 1 .. n : i < j => step[i] < step[j]
        /\ \A i \in gone : queue[i].owner = o
        /\ queue' = [i \in 1 .. n |-> queue[step[i]]]
        /\ Lose({queue[i].sender : i \in gone})
  BY <1>2
<1> DEFINE gone == (1 .. Len(queue)) \ {step[i] : i \in 1 .. n}
<1>4. \A i \in 1 .. Len(queue) : queue[i] \in Message
  BY ElementOfSeq
<1>5. queue' \in Seq(Message) /\ Len(queue') = n
  <2>1. n \in Nat
    BY <1>1
  <2>2. \A i \in 1 .. n : queue[step[i]] \in Message
    BY <1>4
  <2>3. queue' = [i \in 1 .. n |-> queue[step[i]]]
    BY <1>3
  <2>4. QED
    BY <2>1, <2>2, <2>3
<1>6. \A i \in gone : queue[i].sender \in Workers \cup {Nobody}
  BY <1>4 DEF Message
<1>7. n \in Nat
  BY <1>1
<1>8. {queue[i].sender : i \in gone} \in SUBSET (Workers \cup {Nobody})
  BY <1>6
<1>9. Left(o, n, step)
  BY <1>3, <1>5, <1>8, Zenon DEF Left
<1>10. QED
  BY <1>7, <1>9

(* The message calls keep the types and the counts ...                      *)
LEMMA MessageSound ==
  ASSUME SchedulerAssumption, Sound, MessageCalls
  PROVE  Sound'
<1> USE SoundParts
<1>1. ASSUME NEW o \in WindowOwners, PostMessage(o) PROVE Sound'
  <2>1. PICK owner \in OwnersNow(o) : queue' = Append(queue, [owner |-> owner, sender |-> Nobody])
    BY <1>1 DEF PostMessage
  <2>2. UNCHANGED <<got, transfers, blocking, procs, phase, quit, made, unheard>>
    BY <1>1 DEF PostMessage
  <2>3. queue' \in Seq(Message)
    BY <2>1, OwnerNow, AppendProperties
  <2>4. SchedStep
    BY <1>1, PostMessageStep
  <2>5. QED
    BY <2>2, <2>3, <2>4, CountedSame, SoundWhen DEF SchedStep
<1>2. ASSUME NEW o \in WindowOwners, SendMessageInline(o) PROVE Sound'
  <2>1. PICK owner \in OwnersNow(o) : Enter(sched, owner, Nobody, "code")
    BY <1>2 DEF SendMessageInline
  <2>2. UNCHANGED <<queue, got, blocking, phase, quit, unheard>> /\ made' \in BOOLEAN
    BY <1>2 DEF SendMessageInline, Make
  <2>3. owner \in WindowOwners \cup {Nobody} /\ Nobody \in Workers \cup {Nobody}
    BY OwnerNow
  <2>4. Counted' /\ sched' \in SchedType /\ sched'.runState = sched.runState
        /\ sched'.active = IF owner = Main THEN Main ELSE sched.active
    BY <2>1, <2>3, EnterStep DEF SchedOK
  <2>5. ActiveRuns(sched')
    BY <2>4 DEF ActiveRuns, SchedOK
  <2>6. QED
    BY <2>2, <2>4, <2>5, SoundWhen
<1>3. ASSUME NEW o \in WindowOwners, SendMessage(o) PROVE Sound'
  <2>1. sched' \in SchedType /\ ActiveRuns(sched') /\ Caller \in Workers
    BY <1>3, SendMessageStep
  <2>2. PICK owner \in OwnersNow(o) :
          /\ queue' = InsertAt(queue, SentPlace, [owner |-> owner, sender |-> Caller])
          /\ Lose(IF owner = Nobody THEN {Caller} ELSE {})
    BY <1>3 DEF SendMessage, SentPlace
  <2>3. UNCHANGED <<got, transfers, blocking, procs, phase, quit>> /\ made' \in BOOLEAN
    BY <1>3 DEF SendMessage, Make
  <2>4. [owner |-> owner, sender |-> Caller] \in Message
    BY <2>1, OwnerNow
  <2>5. queue' \in Seq(Message)
    BY <2>2, <2>4, SentPlaceStep, InsertAtSeq
  <2>6. unheard' \in SUBSET Workers
    BY <2>1, <2>2, LoseStep
  <2>7. QED
    BY <2>1, <2>3, <2>5, <2>6, CountedSame, SoundWhen
<1>4. ASSUME GetMessage PROVE Sound'
  <2>1. /\ FirstFor(Caller) # 0 /\ queue' = RemoveAt(queue, FirstFor(Caller))
        /\ got' = [got EXCEPT ![Sp] = queue[FirstFor(Caller)]]
        /\ UNCHANGED <<sched, transfers, blocking, procs, phase, quit, made, unheard>>
    BY <1>4 DEF GetMessage
  <2>2. FirstFor(Caller) \in 1 .. Len(queue) /\ queue[FirstFor(Caller)] \in Retrieved
    BY <2>1, RetrievedStep
  <2>3. queue' \in Seq(Message)
    BY <2>1, <2>2, RemoveAtSeq
  <2>4. got' \in [Threads -> Retrieved \cup {Nothing}]
    BY <2>1, <2>2
  <2>5. QED
    BY <2>1, <2>3, <2>4, CountedSame, SoundWhen DEF SchedOK
<1>5. ASSUME GetMessageBlocks PROVE Sound'
  <2>1. /\ UNCHANGED <<queue, got, transfers, blocking, procs, quit, unheard>> /\ made' \in BOOLEAN
        /\ phase' \in {"slice", "host"}
    BY <1>5 DEF GetMessageBlocks, Make, SwitchOrStop
  <2>2. QED
    BY <1>5, <2>1, GetMessageBlocksStep, SchedOnly
<1>6. ASSUME DispatchMessage PROVE Sound'
  <2> DEFINE m == got[Sp]
  <2>1. /\ m # Nothing /\ got' = [got EXCEPT ![Sp] = Nothing]
        /\ UNCHANGED <<queue, blocking, phase, quit, made>>
        /\ \/ (\E owner \in OwnersNow(m.owner) : Enter(sched, owner, m.sender, "code"))
              /\ UNCHANGED unheard
           \/ Lose({m.sender}) /\ UNCHANGED <<sched, transfers, procs>>
    BY <1>6 DEF DispatchMessage
  <2>2. m.owner \in WindowOwners /\ m.sender \in Workers \cup {Nobody}
    BY <2>1 DEF Retrieved
  <2>3. got' \in [Threads -> Retrieved \cup {Nothing}]
    BY <2>1
  <2> HIDE DEF m
  <2>4. ASSUME NEW owner \in OwnersNow(m.owner), Enter(sched, owner, m.sender, "code"),
               UNCHANGED unheard
        PROVE  Sound'
    <3>1. owner \in WindowOwners \cup {Nobody}
      BY <2>2, OwnerNow
    <3>2. Counted' /\ sched' \in SchedType /\ sched'.runState = sched.runState
          /\ sched'.active = IF owner = Main THEN Main ELSE sched.active
      BY <2>2, <2>4, <3>1, EnterStep DEF SchedOK
    <3>3. ActiveRuns(sched')
      BY <3>2 DEF ActiveRuns, SchedOK
    <3>4. QED
      BY <2>1, <2>3, <2>4, <3>2, <3>3, SoundWhen
  <2>5. ASSUME Lose({m.sender}), UNCHANGED <<sched, transfers, procs>> PROVE Sound'
    <3>1. unheard' \in SUBSET Workers
      BY <2>2, <2>5, LoseStep
    <3>2. QED
      BY <2>1, <2>3, <2>5, <3>1, CountedSame, SoundWhen DEF SchedOK
  <2>6. QED
    BY <2>1, <2>4, <2>5
<1>7. ASSUME Return PROVE Sound'
  <2>1. UNCHANGED <<queue, got, blocking, phase, quit, made, unheard>>
    BY <1>7 DEF Return
  <2>2. QED
    BY <1>7, <2>1, ReturnStep, SoundWhen
<1>8. ASSUME Discard PROVE Sound'
  <2>1. /\ got[Sp] # Nothing /\ got' = [got EXCEPT ![Sp] = Nothing] /\ Lose({got[Sp].sender})
        /\ UNCHANGED <<sched, queue, transfers, blocking, procs, phase, quit, made>>
    BY <1>8 DEF Discard
  <2>2. got[Sp].sender \in Workers \cup {Nobody}
    BY <2>1 DEF Retrieved
  <2>3. unheard' \in SUBSET Workers /\ got' \in [Threads -> Retrieved \cup {Nothing}]
    BY <2>1, <2>2, LoseStep
  <2>4. QED
    BY <2>1, <2>3, CountedSame, SoundWhen DEF SchedOK
<1>9. ASSUME NEW o \in WindowOwners, DestroyWindow(o) PROVE Sound'
  <2>1. UNCHANGED <<sched, got, transfers, blocking, procs, phase, quit, made>>
    BY <1>9 DEF DestroyWindow
  <2>2. queue' \in Seq(Message) /\ unheard' \in SUBSET Workers
    <3>1. PICK n \in Nat : \E step \in [1 .. n -> 1 .. Len(queue)] : Left(o, n, step)
      BY <1>9, DestroyKeeps
    <3>2. QED
      BY <3>1, LoseStep DEF Left
  <2>3. QED
    BY <2>1, <2>2, CountedSame, SoundWhen DEF SchedOK
<1>10. QED
  BY <1>1, <1>2, <1>3, <1>4, <1>5, <1>6, <1>7, <1>8, <1>9 DEF MessageCalls

(* ... so do the waits and ends of threads ...                              *)
LEMMA ThreadSound ==
  ASSUME SchedulerAssumption, Sound, ThreadCalls
  PROVE  Sound'
<1> USE SoundParts
<1>1. ASSUME WorkerWait PROVE Sound'
  <2>1. /\ UNCHANGED <<queue, got, transfers, blocking, procs, quit, unheard>> /\ made' \in BOOLEAN
        /\ phase' \in {"slice", "host"}
    BY <1>1 DEF WorkerWait, Make, Park
  <2>2. QED
    BY <1>1, <2>1, WorkerWaitStep, SchedOnly
<1>2. ASSUME FinishActive PROVE Sound'
  <2>1. /\ UNCHANGED <<queue, got, transfers, blocking, procs, made, unheard>>
        /\ phase' \in {"slice", "host"} /\ quit' \in BOOLEAN
    BY <1>2 DEF FinishActive
  <2>2. QED
    BY <1>2, <2>1, FinishActiveStep, SchedOnly
<1>3. ASSUME NEW w \in Workers, WaitOver(w) PROVE Sound'
  <2>1. UNCHANGED <<queue, got, transfers, blocking, procs, phase, quit, made, unheard>>
    BY <1>3 DEF WaitOver
  <2>2. QED
    BY <1>3, <2>1, WaitOverStep, SchedOnly
<1>4. ASSUME MainWait PROVE Sound'
  <2>1. /\ blocking' = blocking + 1 /\ blocking < MaxBlocking /\ UNCHANGED <<got, quit>>
        /\ made' \in BOOLEAN
    BY <1>4 DEF MainWait, Make
  <2>2. PICK thread \in Workers \cup {Nobody} : WaitForMain(blocking + 1, thread)
    BY <1>4 DEF MainWait
  <2>3. /\ SchedStep /\ Counted' /\ queue' \in Seq(Message) /\ phase' \in {"slice", "host"}
        /\ unheard' \in SUBSET Workers
    BY <2>2, WaitForMainStep
  <2>4. blocking' \in 0 .. MaxBlocking
    BY <2>1 DEF SchedulerAssumption
  <2>5. QED
    BY <2>1, <2>3, <2>4, SoundWhen DEF SchedStep
<1>5. ASSUME WaitReturns PROVE Sound'
  <2>1. /\ blocking > 0 /\ blocking' = blocking - 1
        /\ UNCHANGED <<queue, got, transfers, procs, phase, quit, made, unheard>>
    BY <1>5 DEF WaitReturns
  <2>2. blocking' \in 0 .. MaxBlocking
    BY <2>1 DEF SchedulerAssumption
  <2>3. QED
    BY <1>5, <2>1, <2>2, WaitReturnsStep, SchedOnly
<1>6. ASSUME WaitGoesOn PROVE Sound'
  <2>1. WaitForMain(blocking, Nobody) /\ UNCHANGED <<got, blocking, quit, made>>
    BY <1>6 DEF WaitGoesOn
  <2>2. /\ SchedStep /\ Counted' /\ queue' \in Seq(Message) /\ phase' \in {"slice", "host"}
        /\ unheard' \in SUBSET Workers
    BY <2>1, WaitForMainStep
  <2>3. QED
    BY <2>1, <2>2, SoundWhen DEF SchedStep
<1>7. QED
  BY <1>1, <1>2, <1>3, <1>4, <1>5, <1>6 DEF ThreadCalls

(* ... and the loop around the guest ...                                    *)
LEMMA HostSound ==
  ASSUME SchedulerAssumption, Sound, HostLoop
  PROVE  Sound'
<1> USE SoundParts
<1>1. ASSUME SliceEnds PROVE Sound'
  <2>1. UNCHANGED <<queue, got, transfers, blocking, procs, quit, made, unheard>> /\ phase' = "host"
    BY <1>1 DEF SliceEnds
  <2>2. QED
    BY <1>1, <2>1, SliceEndsStep, SchedOnly
<1>2. ASSUME ResumeReadyMain PROVE Sound'
  <2>1. /\ blocking > 0 /\ blocking' = blocking - 1 /\ phase' = "slice"
        /\ UNCHANGED <<queue, got, transfers, procs, quit, made, unheard>>
    BY <1>2 DEF ResumeReadyMain
  <2>2. blocking' \in 0 .. MaxBlocking
    BY <2>1 DEF SchedulerAssumption
  <2>3. QED
    BY <1>2, <2>1, <2>2, ResumeReadyMainStep, SchedOnly
<1>3. ASSUME NEW o \in WindowOwners, HostInput(o) PROVE Sound'
  <2>1. [owner |-> o, sender |-> Nobody] \in Message
    BY DEF Message
  <2>2. /\ queue' = Append(queue, [owner |-> o, sender |-> Nobody])
        /\ UNCHANGED <<sched, got, transfers, blocking, procs, quit, made, unheard>>
        /\ phase' \in {"slice", "host"}
    BY <1>3 DEF HostInput
  <2>3. queue' \in Seq(Message)
    BY <2>1, <2>2, AppendProperties
  <2>4. QED
    BY <2>2, <2>3, CountedSame, SoundWhen DEF SchedOK
<1>4. ASSUME RunTransferOwner PROVE Sound'
  <2>1. UNCHANGED <<queue, got, transfers, blocking, procs, quit, made, unheard>> /\ phase' = "slice"
    BY <1>4 DEF RunTransferOwner
  <2>2. QED
    BY <1>4, <2>1, RunTransferOwnerStep, SchedOnly
<1>5. ASSUME RunWhileOwnerWaits PROVE Sound'
  <2>1. UNCHANGED <<queue, got, transfers, blocking, procs, quit, made, unheard>>
        /\ RunWorker(sched) /\ phase' \in {"slice", "host"}
    BY <1>5 DEF RunWhileOwnerWaits, RunWorker
  <2>2. QED
    BY <2>1, RunWorkerStep, SchedOnly
<1>6. ASSUME RunForMessages PROVE Sound'
  <2>1. UNCHANGED <<queue, got, transfers, blocking, procs, quit, made, unheard>>
        /\ phase' \in {"slice", "host"}
    BY <1>6 DEF RunForMessages, RunWorker
  <2>2. QED
    BY <1>6, <2>1, RunForMessagesStep, SchedOnly
<1>7. ASSUME RunIdle PROVE Sound'
  <2>1. UNCHANGED <<queue, got, transfers, blocking, procs, quit, made, unheard>> /\ phase' = "slice"
    BY <1>7 DEF RunIdle
  <2>2. QED
    BY <1>7, <2>1, RunIdleStep, SchedOnly
<1>8. QED
  BY <1>1, <1>2, <1>3, <1>4, <1>5, <1>6, <1>7 DEF HostLoop

(* ... so every step does.                                                  *)
LEMMA SoundStep ==
  ASSUME SchedulerAssumption, Sound, [Next]_vars
  PROVE  Sound'
<1>1. CASE Next
  BY <1>1, MessageSound, ThreadSound, HostSound DEF Next
<1>2. CASE UNCHANGED vars
  BY <1>2 DEF vars, Sound, TypeOK, Counted, Mine, ActiveRuns
<1>3. QED
  BY <1>1, <1>2

(* Every variable has its type at any time, for any number of threads and   *)
(* any bounds: so no window procedure returns that was not entered, and the *)
(* one list is as long as the stacks of all threads together.               *)
THEOREM SchedulerType == Spec => []TypeOK
<1>1. Init => Sound
  BY SchedulerAssumption, InitSound
<1>2. Sound /\ [Next]_vars => Sound'
  BY SchedulerAssumption, SoundStep
<1>3. Sound => TypeOK
  BY DEF Sound
<1>4. QED
  BY <1>1, <1>2, <1>3, PTL DEF Spec

----------------------------------------------------------------------------
(* The messages somebody waits for.                                         *)

(* The messages for a thread of which w is the sender, and the procedures   *)
(* that handle one.                                                         *)
Queued(w) == {m \in Message : m.sender = w /\ m.owner # Nobody}

Handling(w) == {r \in Transfer : r.sender = w}

Sent(q, V) == {i \in 1 .. Len(q) : q[i] \in V}

Holding(g, V) == {t \in Threads : g[t] \in V}

One(m, V) == IF m \in V THEN 1 ELSE 0

(* The entries of one kind can be counted.                                  *)
LEMMA SentFinite ==
  ASSUME NEW T, NEW q \in Seq(T), NEW V
  PROVE  IsFiniteSet(Sent(q, V)) /\ Cardinality(Sent(q, V)) \in Nat
<1>1. IsFiniteSet(1 .. Len(q))
  BY LenProperties, FS_Interval
<1>2. Sent(q, V) \in SUBSET (1 .. Len(q))
  BY DEF Sent
<1>3. IsFiniteSet(Sent(q, V))
  BY <1>1, <1>2, FS_Subset
<1>4. QED
  BY <1>3, FS_CardinalityType

(* q is p with an entry put in at i.                                        *)
Grown(p, q, i) ==
  /\ Len(q) = Len(p) + 1 /\ i \in 1 .. Len(q)
  /\ \A j \in 1 .. Len(p) : p[j] = IF j < i THEN q[j] ELSE q[j + 1]

(* One more entry is counted if it is of that kind.                         *)
LEMMA SentGrown ==
  ASSUME NEW T, NEW p \in Seq(T), NEW q \in Seq(T), NEW i, Grown(p, q, i), NEW V
  PROVE  Cardinality(Sent(q, V)) = Cardinality(Sent(p, V)) + One(q[i], V)
<1> DEFINE n == Len(q)
           A == Sent(q, V)
           B == Sent(p, V)
<1>1. n \in Nat /\ Len(p) = n - 1 /\ i \in 1 .. n
  BY LenProperties DEF Grown
<1>2. A \in SUBSET (1 .. n) /\ B \in SUBSET (1 .. n - 1)
  BY <1>1 DEF Sent
<1>3. \A j \in 1 .. n - 1 : p[j] = IF j < i THEN q[j] ELSE q[j + 1]
  BY <1>1 DEF Grown
<1>4. \A j \in 1 .. n - 1 : j \in B <=> (IF j < i THEN j ELSE j + 1) \in A
  BY <1>1, <1>3 DEF Sent
<1>5. i \in A <=> q[i] \in V
  BY <1>1 DEF Sent
<1> HIDE DEF A, B, n
<1>6. Cardinality(A) = Cardinality(B) + (IF i \in A THEN 1 ELSE 0)
  <2>1. n \in Nat /\ i \in 1 .. n
    BY <1>1
  <2>2. QED
    BY <1>2, <1>4, <2>1, CountWithout, SMTT(30)
<1>7. Cardinality(A) = Cardinality(B) + One(q[i], V)
  BY <1>5, <1>6 DEF One
<1>8. QED
  BY <1>7 DEF A, B

(* An entry put at the end ...                                              *)
LEMMA SentAppend ==
  ASSUME NEW T, NEW p \in Seq(T), NEW m \in T, NEW V
  PROVE  Cardinality(Sent(Append(p, m), V)) = Cardinality(Sent(p, V)) + One(m, V)
<1> DEFINE q == Append(p, m)
           i == Len(p) + 1
<1>1. /\ q \in Seq(T) /\ Len(q) = Len(p) + 1 /\ Len(p) \in Nat
      /\ \A j \in 1 .. Len(p) : q[j] = p[j]
      /\ q[i] = m
  BY AppendProperties, LenProperties
<1> HIDE DEF q
<1>2. Grown(p, q, i)
  BY <1>1 DEF Grown
<1>3. Cardinality(Sent(q, V)) = Cardinality(Sent(p, V)) + One(q[i], V)
  BY <1>1, <1>2, SentGrown
<1>4. QED
  BY <1>1, <1>3 DEF q

(* ... taken from the middle ...                                            *)
LEMMA SentRemove ==
  ASSUME NEW T, NEW q \in Seq(T), NEW i \in 1 .. Len(q), NEW V
  PROVE  Cardinality(Sent(q, V)) = Cardinality(Sent(RemoveAt(q, i), V)) + One(q[i], V)
<1> DEFINE p == RemoveAt(q, i)
<1>1. /\ p \in Seq(T) /\ Len(p) = Len(q) - 1 /\ Len(q) \in Nat
      /\ \A j \in 1 .. Len(q) - 1 : p[j] = IF j < i THEN q[j] ELSE q[j + 1]
  BY RemoveAtSeq, LenProperties
<1> HIDE DEF p
<1>2. Grown(p, q, i)
  BY <1>1 DEF Grown
<1>3. Cardinality(Sent(q, V)) = Cardinality(Sent(p, V)) + One(q[i], V)
  BY <1>1, <1>2, SentGrown
<1>4. QED
  BY <1>3 DEF p

(* ... put in the middle ...                                                *)
LEMMA SentInsert ==
  ASSUME NEW T, NEW p \in Seq(T), NEW i \in 1 .. Len(p) + 1, NEW m \in T, NEW V
  PROVE  Cardinality(Sent(InsertAt(p, i, m), V)) = Cardinality(Sent(p, V)) + One(m, V)
<1> DEFINE q == InsertAt(p, i, m)
<1>1. /\ q \in Seq(T) /\ Len(q) = Len(p) + 1 /\ q[i] = m
      /\ \A j \in 1 .. Len(p) : p[j] = IF j < i THEN q[j] ELSE q[j + 1]
  BY InsertAtSeq
<1> HIDE DEF q
<1>2. Grown(p, q, i)
  BY <1>1 DEF Grown
<1>3. Cardinality(Sent(q, V)) = Cardinality(Sent(p, V)) + One(q[i], V)
  BY <1>1, <1>2, SentGrown
<1>4. QED
  BY <1>1, <1>3 DEF q

(* ... and taken from the end.                                              *)
LEMMA SentFront ==
  ASSUME NEW T, NEW q \in Seq(T), q # << >>, NEW V
  PROVE  Cardinality(Sent(q, V)) = Cardinality(Sent(Front(q), V)) + One(Last(q), V)
<1> DEFINE p == Front(q)
           i == Len(q)
<1>1. /\ p \in Seq(T) /\ Len(p) = Len(q) - 1 /\ Len(q) \in Nat \ {0}
      /\ \A j \in 1 .. Len(q) - 1 : p[j] = q[j]
      /\ Last(q) = q[i]
  BY FrontSeq
<1> HIDE DEF p
<1>2. Grown(p, q, i)
  BY <1>1 DEF Grown
<1>3. Cardinality(Sent(q, V)) = Cardinality(Sent(p, V)) + One(q[i], V)
  BY <1>1, <1>2, SentGrown
<1>4. QED
  BY <1>1, <1>3 DEF p

(* The threads that hold a message of one kind can be counted.              *)
LEMMA HoldingFinite ==
  ASSUME SchedulerAssumption, NEW g, NEW V
  PROVE  IsFiniteSet(Holding(g, V)) /\ Cardinality(Holding(g, V)) \in Nat
<1>1. IsFiniteSet(Threads)
  BY FS_AddElement DEF Threads, SchedulerAssumption
<1>2. Holding(g, V) \in SUBSET Threads
  BY DEF Holding
<1>3. IsFiniteSet(Holding(g, V))
  BY <1>1, <1>2, FS_Subset
<1>4. QED
  BY <1>3, FS_CardinalityType

(* One thread retrieves a message, or hands it on.                          *)
LEMMA HoldingPut ==
  ASSUME SchedulerAssumption, NEW g, NEW h, NEW u \in Threads, NEW m, NEW V,
         h[u] = m, \A t \in Threads \ {u} : h[t] = g[t]
  PROVE  Cardinality(Holding(h, V)) + One(g[u], V) = Cardinality(Holding(g, V)) + One(m, V)
<1> DEFINE A == Holding(g, V)
           B == Holding(h, V)
<1>2. /\ A \ {u} = B \ {u}
      /\ u \in A <=> g[u] \in V
      /\ u \in B <=> m \in V
  BY DEF Holding
<1>3. IsFiniteSet(A) /\ IsFiniteSet(B) /\ Cardinality(A) \in Nat /\ Cardinality(B) \in Nat
  BY HoldingFinite
<1> HIDE DEF A, B
<1>4. /\ Cardinality(A \ {u}) = IF u \in A THEN Cardinality(A) - 1 ELSE Cardinality(A)
      /\ Cardinality(B \ {u}) = IF u \in B THEN Cardinality(B) - 1 ELSE Cardinality(B)
  BY <1>3, FS_RemoveElement
<1> DEFINE a == Cardinality(A)
           b == Cardinality(B)
           c == Cardinality(A \ {u})
<1>5. /\ a \in Nat /\ b \in Nat
      /\ c = IF g[u] \in V THEN a - 1 ELSE a
      /\ c = IF m \in V THEN b - 1 ELSE b
  BY <1>2, <1>3, <1>4, Zenon
<1> HIDE DEF a, b, c
<1>6. b + One(g[u], V) = a + One(m, V)
  BY <1>5 DEF One
<1>7. QED
  BY <1>6 DEF a, b, A, B

Counts(q, g, x, w) ==
  Cardinality(Sent(q, Queued(w))) + Cardinality(Holding(g, Queued(w)))
    + Cardinality(Sent(x, Handling(w)))

(* The senders that have a message on its way.                              *)
Due == Awaiting(sched) \ unheard

(* What SendersAwaited counts.                                              *)
LEMMA CountsForm ==
  ASSUME SchedulerAssumption, NEW q \in Seq(Message), NEW x \in Seq(Transfer),
         NEW g \in [Threads -> Retrieved \cup {Nothing}], NEW w \in Workers
  PROVE  /\ {i \in 1 .. Len(q) : q[i].sender = w /\ q[i].owner # Nobody} = Sent(q, Queued(w))
         /\ {t \in Threads : g[t].sender = w} = Holding(g, Queued(w))
         /\ {i \in 1 .. Len(x) : x[i].sender = w} = Sent(x, Handling(w))
<1>1. \A i \in 1 .. Len(q) : q[i] \in Message
  BY ElementOfSeq
<1>2. \A i \in 1 .. Len(x) : x[i] \in Transfer
  BY ElementOfSeq
<1>3. w # Nobody /\ Nobody \notin WindowOwners
  BY DEF SchedulerAssumption, Nobody, Threads, Main
<1>4. \A t \in Threads : g[t].sender = w <=> g[t] \in Queued(w)
  BY <1>3 DEF Queued, Retrieved, Message, Nothing
<1>5. QED
  BY <1>1, <1>2, <1>4 DEF Sent, Holding, Queued, Handling

(* Whose message was lost still waits: so it sends no other.                *)
Waiting == SendersAwaited /\ unheard \subseteq Awaiting(sched)

(* SendersAwaited in terms of what is counted ...                           *)
LEMMA AwaitedForm ==
  ASSUME SchedulerAssumption, Sound
  PROVE  Waiting <=>
           /\ unheard \subseteq Awaiting(sched)
           /\ \A w \in Workers : Counts(queue, got, transfers, w) = IF w \in Due THEN 1 ELSE 0
<1>1. /\ queue \in Seq(Message) /\ transfers \in Seq(Transfer)
      /\ got \in [Threads -> Retrieved \cup {Nothing}]
  BY DEF Sound, TypeOK
<1>2. \A w \in Workers :
        /\ {i \in 1 .. Len(queue) : queue[i].sender = w /\ queue[i].owner # Nobody}
             = Sent(queue, Queued(w))
        /\ {t \in Threads : got[t].sender = w} = Holding(got, Queued(w))
        /\ {i \in 1 .. Len(transfers) : transfers[i].sender = w} = Sent(transfers, Handling(w))
  BY <1>1, CountsForm
<1>3. \A w \in Workers :
        w \in Due <=> sched.runState[w] = "WaitingForSendMessage" /\ w \notin unheard
  BY DEF Due, Awaiting
<1>4. QED
  BY <1>2, <1>3, Zenon DEF Waiting, SendersAwaited, Counts

(* ... and after a step.                                                    *)
LEMMA AwaitedFormNext ==
  ASSUME SchedulerAssumption, Sound'
  PROVE  Waiting' <=>
           /\ unheard' \subseteq Awaiting(sched')
           /\ \A w \in Workers :
                Counts(queue', got', transfers', w) = IF w \in Due' THEN 1 ELSE 0
<1>1. /\ queue' \in Seq(Message) /\ transfers' \in Seq(Transfer)
      /\ got' \in [Threads -> Retrieved \cup {Nothing}]
  BY DEF Sound, TypeOK
<1>2. \A w \in Workers :
        /\ {i \in 1 .. Len(queue') : queue'[i].sender = w /\ queue'[i].owner # Nobody}
             = Sent(queue', Queued(w))
        /\ {t \in Threads : got'[t].sender = w} = Holding(got', Queued(w))
        /\ {i \in 1 .. Len(transfers') : transfers'[i].sender = w} = Sent(transfers', Handling(w))
  BY <1>1, CountsForm
<1>3. \A w \in Workers :
        w \in Due' <=> sched'.runState[w] = "WaitingForSendMessage" /\ w \notin unheard'
  BY DEF Due, Awaiting
<1>4. QED
  BY <1>2, <1>3, Zenon DEF Waiting, SendersAwaited, Counts

(* A message that only changes hands is still counted once.                 *)
LEMMA AwaitedSame ==
  ASSUME SchedulerAssumption, Sound, Sound', Waiting,
         Awaiting(sched') = Awaiting(sched), UNCHANGED unheard,
         \A w \in Workers :
           Counts(queue', got', transfers', w) = Counts(queue, got, transfers, w)
  PROVE  Waiting'
BY AwaitedForm, AwaitedFormNext DEF Due

(* A step that only switches counts nothing anew.                           *)
LEMMA AwaitedOnly ==
  ASSUME SchedulerAssumption, Sound, Sound', Waiting, SchedStep,
         UNCHANGED <<queue, got, transfers, unheard>>
  PROVE  Waiting'
BY AwaitedSame DEF SchedStep

(* A sender whose message is lost is counted no more.                       *)
LEMMA AwaitedLost ==
  ASSUME SchedulerAssumption, Sound, Sound', Waiting,
         Awaiting(sched') = Awaiting(sched), NEW G \in SUBSET (Workers \cup {Nobody}), Lose(G),
         \A w \in Workers \cap G : Counts(queue, got, transfers, w) # 0,
         \A w \in Workers :
           Counts(queue', got', transfers', w)
             = IF w \in G THEN 0 ELSE Counts(queue, got, transfers, w)
  PROVE  Waiting'
<1>1. \A w \in Workers : w # Nobody
  BY DEF SchedulerAssumption, Nobody
<1>2. \A w \in Workers : w \in Due' <=> w \in Due /\ w \notin G
  BY <1>1 DEF Due, Lose
<1>3. unheard' \subseteq Awaiting(sched')
  BY AwaitedForm DEF Due, Lose
<1>4. QED
  BY <1>2, <1>3, AwaitedForm, AwaitedFormNext

(* An entry that nobody waits for ...                                       *)
LEMMA NobodyOne ==
  ASSUME SchedulerAssumption, NEW w \in Workers, NEW m, m.sender = Nobody
  PROVE  One(m, Queued(w)) = 0 /\ One(m, Handling(w)) = 0
BY DEF One, Queued, Handling, Nobody, SchedulerAssumption

(* ... one that a thread can retrieve ...                                   *)
LEMMA RetrievedOne ==
  ASSUME SchedulerAssumption, NEW m \in Retrieved, NEW w \in Workers
  PROVE  One(m, Queued(w)) = IF w = m.sender THEN 1 ELSE 0
<1>1. m.owner # Nobody /\ m \in Message
  BY DEF Retrieved, Message, SchedulerAssumption, Threads, Main, Nobody
<1>2. QED
  BY <1>1 DEF One, Queued

(* ... and one that is handled.                                             *)
LEMMA HandlingOne ==
  ASSUME NEW r \in Transfer, NEW w
  PROVE  One(r, Handling(w)) = IF w = r.sender THEN 1 ELSE 0
BY DEF One, Handling

(* The counts are numbers.                                                  *)
LEMMA AwaitedNat ==
  ASSUME SchedulerAssumption, Sound, NEW w
  PROVE  /\ Cardinality(Sent(queue, Queued(w))) \in Nat
         /\ Cardinality(Holding(got, Queued(w))) \in Nat
         /\ Cardinality(Sent(transfers, Handling(w))) \in Nat
BY SentFinite, HoldingFinite DEF Sound, TypeOK

(* They still are after a step.                                             *)
LEMMA AwaitedNatNext ==
  ASSUME SchedulerAssumption, Sound', NEW w
  PROVE  /\ Cardinality(Sent(queue', Queued(w))) \in Nat
         /\ Cardinality(Holding(got', Queued(w))) \in Nat
         /\ Cardinality(Sent(transfers', Handling(w))) \in Nat
BY SentFinite, HoldingFinite DEF Sound, TypeOK

(* One message is lost that was on its way.                                 *)
LEMMA TakenAwaited ==
  ASSUME SchedulerAssumption, Sound, Sound', Waiting,
         Awaiting(sched') = Awaiting(sched), NEW m \in Retrieved, Lose({m.sender}),
         \A w \in Workers : Counts(queue, got, transfers, w)
                              = Counts(queue', got', transfers', w) + One(m, Queued(w))
  PROVE  Waiting'
<1>1. ASSUME NEW w \in Workers
      PROVE  /\ Counts(queue', got', transfers', w)
                  = IF w \in {m.sender} THEN 0 ELSE Counts(queue, got, transfers, w)
             /\ w = m.sender => Counts(queue, got, transfers, w) # 0
  <2>1. Counts(queue', got', transfers', w) \in Nat
    BY AwaitedNatNext DEF Counts
  <2>2. Counts(queue, got, transfers, w) \in {0, 1}
    BY AwaitedForm
  <2>3. One(m, Queued(w)) = IF w = m.sender THEN 1 ELSE 0
    BY RetrievedOne
  <2>4. QED
    BY <2>1, <2>2, <2>3
<1>2. {m.sender} \in SUBSET (Workers \cup {Nobody})
  BY DEF Retrieved
<1>3. QED
  BY <1>1, <1>2, AwaitedLost

(* A posted message, or input, has no sender.                               *)
LEMMA AppendAwaited ==
  ASSUME SchedulerAssumption, Sound, Sound', Waiting, SchedStep,
         NEW m \in Message, m.sender = Nobody,
         queue' = Append(queue, m), UNCHANGED <<got, transfers, unheard>>
  PROVE  Waiting'
<1>1. queue \in Seq(Message)
  BY DEF Sound, TypeOK
<1>2. ASSUME NEW w \in Workers
      PROVE  Counts(queue', got', transfers', w) = Counts(queue, got, transfers, w)
  <2>1. Cardinality(Sent(queue', Queued(w)))
          = Cardinality(Sent(queue, Queued(w))) + One(m, Queued(w))
    BY <1>1, SentAppend
  <2>2. One(m, Queued(w)) = 0
    BY NobodyOne
  <2>3. QED
    BY <2>1, <2>2, AwaitedNat DEF Counts
<1>3. QED
  BY <1>2, AwaitedSame DEF SchedStep

(* A window procedure entered for a message.                                *)
LEMMA EnterAwaited ==
  ASSUME SchedulerAssumption, transfers \in Seq(Transfer), NEW r \in Transfer,
         transfers' = Append(transfers, r), NEW w
  PROVE  Cardinality(Sent(transfers', Handling(w)))
           = Cardinality(Sent(transfers, Handling(w))) + One(r, Handling(w))
BY SentAppend

(* SendMessageW: the message is queued and the sender parked in one step; if*)
(* its window was destroyed it is lost at once.                             *)
LEMMA SendAwaited ==
  ASSUME SchedulerAssumption, Sound, Sound', Waiting, NEW o \in WindowOwners, SendMessage(o)
  PROVE  Waiting'
<1>1. /\ Caller \in Workers /\ sched.runState[Caller] = "Running"
      /\ Awaiting(sched') = Awaiting(sched) \cup {Caller}
  BY SoundParts, SendMessageStep
<1>2. Caller \notin Awaiting(sched)
  BY <1>1 DEF Awaiting
<1>3. PICK owner \in OwnersNow(o) :
        /\ queue' = InsertAt(queue, SentPlace, [owner |-> owner, sender |-> Caller])
        /\ Lose(IF owner = Nobody THEN {Caller} ELSE {})
  BY DEF SendMessage, SentPlace
<1>4. UNCHANGED <<got, transfers>> /\ queue \in Seq(Message)
  BY DEF SendMessage, Sound, TypeOK
<1> DEFINE m == [owner |-> owner, sender |-> Caller]
<1>5. m \in Message /\ m.sender = Caller /\ m.owner = owner
  BY <1>1, OwnerNow
<1>6. owner # Nobody => m \in Retrieved
  BY <1>5, OwnerNow DEF Message, Retrieved
<1> HIDE DEF m
<1>7. Caller \in Due' <=> owner # Nobody
  <2>1. Caller # Nobody
    BY <1>1 DEF SchedulerAssumption, Nobody
  <2>2. Caller \notin unheard
    BY <1>2, AwaitedForm
  <2>3. QED
    BY <1>1, <1>3, <2>1, <2>2 DEF Due, Lose
<1>8. \A w \in Workers \ {Caller} : w \in Due' <=> w \in Due
  BY <1>1, <1>3 DEF Due, Lose
<1>9. ASSUME NEW w \in Workers
      PROVE  Counts(queue', got', transfers', w) = IF w \in Due' THEN 1 ELSE 0
  <2>1. Cardinality(Sent(queue', Queued(w)))
          = Cardinality(Sent(queue, Queued(w))) + One(m, Queued(w))
    BY <1>3, <1>4, <1>5, SentPlaceStep, SentInsert DEF m
  <2>2. One(m, Queued(w)) = IF w = Caller /\ owner # Nobody THEN 1 ELSE 0
    BY <1>5, <1>6, RetrievedOne DEF One, Queued
  <2>3. Counts(queue', got', transfers', w)
          = Counts(queue, got, transfers, w) + One(m, Queued(w))
    BY <1>4, <2>1, <2>2, AwaitedNat DEF Counts
  <2>4. Counts(queue, got, transfers, w) = IF w \in Due THEN 1 ELSE 0
    BY AwaitedForm
  <2>5. QED
    BY <1>2, <1>7, <1>8, <2>2, <2>3, <2>4 DEF Due
<1>10. unheard' \subseteq Awaiting(sched')
  BY <1>1, <1>3, AwaitedForm DEF Lose
<1>11. QED
  BY <1>9, <1>10, AwaitedFormNext

(* GetMessageW: from the queue into the hands of the caller.                *)
LEMMA GetAwaited ==
  ASSUME SchedulerAssumption, Sound, Sound', Waiting, GetMessage
  PROVE  Waiting'
<1> DEFINE i == FirstFor(Caller)
<1>1. /\ i # 0 /\ queue' = RemoveAt(queue, i) /\ got' = [got EXCEPT ![Sp] = queue[i]]
      /\ got[Sp] = Nothing /\ UNCHANGED <<sched, transfers, unheard>>
  BY DEF GetMessage
<1>2. i \in 1 .. Len(queue) /\ queue \in Seq(Message) /\ Sp \in Threads
  BY <1>1, SoundParts, FirstForStep
<1>3. got \in [Threads -> Retrieved \cup {Nothing}]
  BY SoundParts
<1>4. got'[Sp] = queue[i] /\ \A t \in Threads \ {Sp} : got'[t] = got[t]
  BY <1>1, <1>2, <1>3
<1> HIDE DEF i
<1>5. ASSUME NEW w \in Workers
      PROVE  Counts(queue', got', transfers', w) = Counts(queue, got, transfers, w)
  <2> DEFINE V == Queued(w)
  <2>1. Cardinality(Sent(queue, V)) = Cardinality(Sent(queue', V)) + One(queue[i], V)
    BY <1>1, <1>2, SentRemove
  <2>2. Cardinality(Holding(got', V)) + One(got[Sp], V)
          = Cardinality(Holding(got, V)) + One(queue[i], V)
    BY <1>2, <1>4, HoldingPut
  <2>3. One(got[Sp], V) = 0
    BY <1>1, NobodyOne DEF Nothing
  <2>4. One(queue[i], V) \in {0, 1}
    BY DEF One
  <2>5. /\ Cardinality(Sent(queue, Queued(w))) \in Nat /\ Cardinality(Sent(queue', Queued(w))) \in Nat
        /\ Cardinality(Holding(got, Queued(w))) \in Nat
        /\ Cardinality(Holding(got', Queued(w))) \in Nat
        /\ Cardinality(Sent(transfers, Handling(w))) \in Nat
        /\ Cardinality(Sent(transfers', Handling(w))) \in Nat
    BY AwaitedNat, AwaitedNatNext
  <2>6. QED
    BY <1>1, <2>1, <2>2, <2>3, <2>4, <2>5 DEF Counts
<1>6. QED
  BY <1>1, <1>5, AwaitedSame

(* A thread hands on, or drops, what it has retrieved.                      *)
LEMMA HandedOn ==
  ASSUME SchedulerAssumption, NEW g \in [Threads -> Retrieved \cup {Nothing}], NEW u \in Threads,
         g[u] # Nothing, NEW w \in Workers
  PROVE  LET h == [g EXCEPT ![u] = Nothing] IN
         /\ g[u] \in Retrieved
         /\ Cardinality(Holding(g, Queued(w)))
              = Cardinality(Holding(h, Queued(w))) + One(g[u], Queued(w))
<1> DEFINE V == Queued(w)
           h == [g EXCEPT ![u] = Nothing]
<1>1. g[u] \in Retrieved
  OBVIOUS
<1>2. h[u] = Nothing /\ \A t \in Threads \ {u} : h[t] = g[t]
  OBVIOUS
<1>3. One(Nothing, V) = 0
  BY NobodyOne DEF Nothing
<1>4. Cardinality(Holding(g, V)) \in Nat
  BY HoldingFinite
<1> HIDE DEF V, h
<1>5. Cardinality(Holding(h, V)) + One(g[u], V) = Cardinality(Holding(g, V)) + One(Nothing, V)
  BY <1>2, HoldingPut
<1>6. Cardinality(Holding(h, V)) \in Nat
  BY HoldingFinite
<1>7. Cardinality(Holding(g, V)) = Cardinality(Holding(h, V)) + One(g[u], V)
  <2>1. One(g[u], V) \in {0, 1}
    BY DEF One
  <2>2. QED
    BY <1>3, <1>4, <1>5, <1>6, <2>1
<1>8. QED
  BY <1>1, <1>7 DEF V, h

(* DispatchMessageW: from the caller's hands to the procedure; or, with the *)
(* window's handle closed, to nobody.                                       *)
LEMMA DispatchAwaited ==
  ASSUME SchedulerAssumption, Sound, Sound', Waiting, DispatchMessage
  PROVE  Waiting'
<1> DEFINE m == got[Sp]
<1>1. /\ m # Nothing /\ got' = [got EXCEPT ![Sp] = Nothing] /\ UNCHANGED queue
      /\ \/ (\E owner \in OwnersNow(m.owner) : Enter(sched, owner, m.sender, "code"))
            /\ UNCHANGED unheard
         \/ Lose({m.sender}) /\ UNCHANGED <<sched, transfers, procs>>
  BY DEF DispatchMessage
<1>2. /\ sched \in SchedType /\ Counted /\ transfers \in Seq(Transfer) /\ Sp \in Threads
      /\ m \in Retrieved
  BY <1>1, SoundParts DEF SchedOK, Counted
<1>3. m.owner \in WindowOwners /\ m.sender \in Workers \cup {Nobody}
  BY <1>2 DEF Retrieved
<1>4. ASSUME NEW w \in Workers
      PROVE  Cardinality(Holding(got, Queued(w)))
               = Cardinality(Holding(got', Queued(w))) + One(m, Queued(w))
  BY <1>1, SoundParts, HandedOn
<1> HIDE DEF m
<1>5. ASSUME NEW owner \in OwnersNow(m.owner), Enter(sched, owner, m.sender, "code"),
             UNCHANGED unheard
      PROVE  Waiting'
  <2> DEFINE r == [owner |-> owner, sender |-> m.sender, then |-> "code", caller |-> sched.cpu.sp]
  <2>1. owner \in WindowOwners \cup {Nobody}
    BY <1>3, OwnerNow
  <2>2. transfers' = Append(transfers, r) /\ sched'.runState = sched.runState
    BY <1>2, <1>3, <1>5, <2>1, EnterStep
  <2>3. r \in Transfer /\ r.sender = m.sender
    BY <1>2, <1>3, <2>1 DEF Transfer, SchedType, Context
  <2> HIDE DEF r
  <2>4. ASSUME NEW w \in Workers
        PROVE  Counts(queue', got', transfers', w) = Counts(queue, got, transfers, w)
    <3>1. Cardinality(Sent(transfers', Handling(w)))
            = Cardinality(Sent(transfers, Handling(w))) + One(r, Handling(w))
      BY <1>2, <2>2, <2>3, EnterAwaited
    <3>2. One(r, Handling(w)) = One(m, Queued(w)) /\ One(m, Queued(w)) \in {0, 1}
      BY <1>2, <2>3, RetrievedOne, HandlingOne
    <3>3. /\ Cardinality(Sent(queue, Queued(w))) \in Nat /\ Cardinality(Sent(queue', Queued(w))) \in Nat
          /\ Cardinality(Holding(got, Queued(w))) \in Nat
          /\ Cardinality(Holding(got', Queued(w))) \in Nat
          /\ Cardinality(Sent(transfers, Handling(w))) \in Nat
          /\ Cardinality(Sent(transfers', Handling(w))) \in Nat
      BY AwaitedNat, AwaitedNatNext
    <3>4. Cardinality(Holding(got, Queued(w)))
            = Cardinality(Holding(got', Queued(w))) + One(m, Queued(w))
      BY <1>4
    <3>5. Sent(queue', Queued(w)) = Sent(queue, Queued(w))
      BY <1>1
    <3>6. QED
      BY <3>1, <3>2, <3>3, <3>4, <3>5 DEF Counts
  <2>5. QED
    BY <1>5, <2>2, <2>4, AwaitedSame DEF Awaiting
<1>6. ASSUME Lose({m.sender}), UNCHANGED <<sched, transfers, procs>> PROVE Waiting'
  <2>1. ASSUME NEW w \in Workers
        PROVE  Counts(queue, got, transfers, w)
                 = Counts(queue', got', transfers', w) + One(m, Queued(w))
    <3>1. One(m, Queued(w)) \in {0, 1}
      BY DEF One
    <3>2. /\ Cardinality(Sent(queue, Queued(w))) \in Nat /\ Cardinality(Sent(queue', Queued(w))) \in Nat
          /\ Cardinality(Holding(got, Queued(w))) \in Nat
          /\ Cardinality(Holding(got', Queued(w))) \in Nat
          /\ Cardinality(Sent(transfers, Handling(w))) \in Nat
          /\ Cardinality(Sent(transfers', Handling(w))) \in Nat
      BY AwaitedNat, AwaitedNatNext
    <3>3. Cardinality(Holding(got, Queued(w)))
            = Cardinality(Holding(got', Queued(w))) + One(m, Queued(w))
      BY <1>4
    <3>4. /\ Sent(queue', Queued(w)) = Sent(queue, Queued(w))
          /\ Sent(transfers', Handling(w)) = Sent(transfers, Handling(w))
      BY <1>1, <1>6
    <3>5. QED
      BY <3>1, <3>2, <3>3, <3>4 DEF Counts
  <2>2. QED
    BY <1>2, <1>6, <2>1, TakenAwaited
<1>7. QED
  BY <1>1, <1>5, <1>6

(* A retrieved message that is not dispatched is lost.                      *)
LEMMA DiscardAwaited ==
  ASSUME SchedulerAssumption, Sound, Sound', Waiting, Discard
  PROVE  Waiting'
<1> DEFINE m == got[Sp]
<1>1. /\ m # Nothing /\ got' = [got EXCEPT ![Sp] = Nothing] /\ Lose({m.sender})
      /\ UNCHANGED <<sched, queue, transfers>>
  BY DEF Discard
<1>2. m \in Retrieved
  BY <1>1, SoundParts
<1>3. ASSUME NEW w \in Workers
      PROVE  Counts(queue, got, transfers, w)
               = Counts(queue', got', transfers', w) + One(m, Queued(w))
  <2>1. Cardinality(Holding(got, Queued(w)))
          = Cardinality(Holding(got', Queued(w))) + One(m, Queued(w))
    BY <1>1, SoundParts, HandedOn
  <2>2. One(m, Queued(w)) \in {0, 1}
    BY DEF One
  <2>3. /\ Cardinality(Sent(queue, Queued(w))) \in Nat /\ Cardinality(Sent(queue', Queued(w))) \in Nat
        /\ Cardinality(Holding(got, Queued(w))) \in Nat
        /\ Cardinality(Holding(got', Queued(w))) \in Nat
        /\ Cardinality(Sent(transfers, Handling(w))) \in Nat
        /\ Cardinality(Sent(transfers', Handling(w))) \in Nat
    BY AwaitedNat, AwaitedNatNext
  <2>4. QED
    BY <1>1, <2>1, <2>2, <2>3 DEF Counts
<1> HIDE DEF m
<1>4. QED
  BY <1>1, <1>2, <1>3, TakenAwaited

(* DestroyWindow: whoever sent what is discarded is lost, and the others'   *)
(* messages stay.                                                           *)
LEMMA DestroyAwaited ==
  ASSUME SchedulerAssumption, Sound, Sound', Waiting, NEW o \in WindowOwners, DestroyWindow(o)
  PROVE  Waiting'
<1>1. queue \in Seq(Message) /\ UNCHANGED <<sched, got, transfers>>
  BY SoundParts DEF DestroyWindow
<1>2. PICK n \in Nat : \E step \in [1 .. n -> 1 .. Len(queue)] : Left(o, n, step)
  BY <1>1, DestroyKeeps
<1>3. PICK step \in [1 .. n -> 1 .. Len(queue)] : Left(o, n, step)
  BY <1>2
<1> DEFINE gone == (1 .. Len(queue)) \ {step[i] : i \in 1 .. n}
           G == {queue[i].sender : i \in gone}
<1>4. /\ \A i \in 1 .. n : step[i] \in 1 .. Len(queue) /\ step[i] \notin gone
      /\ \A i \in 1 .. Len(queue) : i \in gone \/ \E j \in 1 .. n : step[j] = i
      /\ \A i \in gone : i \in 1 .. Len(queue) /\ queue[i].owner = o
  BY <1>3 DEF Left
<1>5. \A i, j \in 1 .. n : step[i] = step[j] => i = j
  <2>1. Len(queue) \in Nat
    BY <1>1, LenProperties
  <2>2. \A i, j \in 1 .. n : i < j => step[i] < step[j]
    BY <1>3 DEF Left
  <2>3. \A i, j \in 1 .. n : step[i] \in Int /\ step[j] \in Int /\ (i < j \/ i = j \/ j < i)
    BY <1>4, <2>1
  <2>4. QED
    BY <2>2, <2>3
<1>6. Len(queue') = n /\ (\A i \in 1 .. n : queue'[i] = queue[step[i]])
      /\ Lose(G) /\ G \in SUBSET (Workers \cup {Nobody})
  BY <1>3 DEF Left
<1>7. \A w : w \in G <=> \E i \in gone : queue[i].sender = w
  OBVIOUS
<1> HIDE DEF gone, G
<1>8. ASSUME NEW w \in Workers
      PROVE  /\ Counts(queue', got', transfers', w)
                  = IF w \in G THEN 0 ELSE Counts(queue, got, transfers, w)
             /\ w \in G => Counts(queue, got, transfers, w) # 0
  <2> DEFINE A == Sent(queue, Queued(w))
             B == Sent(queue', Queued(w))
  <2>1. /\ A \subseteq 1 .. Len(queue) /\ \A i \in 1 .. n : i \in B <=> step[i] \in A
        /\ B \subseteq 1 .. n
    BY <1>4, <1>6 DEF Sent
  <2>2. /\ IsFiniteSet(A) /\ Cardinality(A) \in Nat
        /\ IsFiniteSet(B) /\ Cardinality(B) \in Nat
    BY <1>1, SentFinite, SoundParts DEF Sound, TypeOK
  <2>3. Counts(queue, got, transfers, w) \in {0, 1}
    BY AwaitedForm
  <2>4. Cardinality(A) \in {0, 1}
    BY <2>2, <2>3, AwaitedNat DEF Counts
  <2>5. A = {} \/ \E x : A = {x}
    BY <2>2, <2>4, FS_EmptySet, FS_Singleton
  <2>6. CASE w \in G
    <3>1. PICK i \in gone : queue[i].sender = w
      BY <1>7, <2>6
    <3>2. i \in A
      <4>1. queue[i] \in Message /\ queue[i].owner # Nobody
        BY <1>1, <1>4, ElementOfSeq DEF SchedulerAssumption, Threads, Main, Nobody
      <4>2. QED
        BY <1>4, <3>1, <4>1 DEF Sent, Queued
    <3>3. A = {i}
      BY <2>5, <3>2
    <3>4. B = {}
      BY <1>4, <2>1, <3>3
    <3>5. Cardinality(A) = 1 /\ Cardinality(B) = 0
      BY <3>3, <3>4, FS_Singleton, FS_EmptySet
    <3>6. QED
      BY <1>1, <2>3, <2>6, <3>5, AwaitedNat DEF Counts
  <2>7. CASE w \notin G
    <3>1. \A i \in A : i \in 1 .. Len(queue) /\ queue[i].sender = w
      BY <2>1 DEF Sent, Queued
    <3>2. \A i \in A : \E j \in 1 .. n : step[j] = i
      BY <1>4, <1>7, <2>7, <3>1
    <3>3. Cardinality(B) = Cardinality(A)
      <4>1. CASE A = {}
        BY <2>1, <4>1
      <4>2. CASE A # {}
        <5>1. PICK i : A = {i}
          BY <2>5, <4>2
        <5>2. PICK j \in 1 .. n : step[j] = i
          BY <3>2, <5>1
        <5>3. B = {j}
          BY <1>5, <2>1, <5>1, <5>2
        <5>4. QED
          BY <5>1, <5>3, FS_Singleton
      <4>3. QED
        BY <4>1, <4>2
    <3>4. QED
      BY <1>1, <2>7, <3>3 DEF Counts
  <2>8. QED
    BY <2>6, <2>7
<1>9. Awaiting(sched') = Awaiting(sched)
  BY <1>1
<1>10. QED
  BY <1>6, <1>8, <1>9, AwaitedLost

(* SendMessageW that runs the procedure at once: nobody is parked.          *)
LEMMA InlineAwaited ==
  ASSUME SchedulerAssumption, Sound, Sound', Waiting, NEW o \in WindowOwners, SendMessageInline(o)
  PROVE  Waiting'
<1>1. PICK owner \in OwnersNow(o) : Enter(sched, owner, Nobody, "code")
  BY DEF SendMessageInline
<1> DEFINE r == [owner |-> owner, sender |-> Nobody, then |-> "code", caller |-> sched.cpu.sp]
<1>2. sched \in SchedType /\ Counted /\ UNCHANGED <<queue, got, unheard>>
  BY SoundParts DEF SchedOK, SendMessageInline
<1>3. owner \in WindowOwners \cup {Nobody} /\ Nobody \in Workers \cup {Nobody}
  BY OwnerNow
<1>4. transfers' = Append(transfers, r) /\ sched'.runState = sched.runState
  BY <1>1, <1>2, <1>3, EnterStep
<1>5. r \in Transfer /\ r.sender = Nobody /\ transfers \in Seq(Transfer)
  BY <1>2, <1>3 DEF Transfer, SchedType, Context, Counted
<1> HIDE DEF r
<1>6. ASSUME NEW w \in Workers
      PROVE  Counts(queue', got', transfers', w) = Counts(queue, got, transfers, w)
  <2>1. Cardinality(Sent(transfers', Handling(w)))
          = Cardinality(Sent(transfers, Handling(w))) + One(r, Handling(w))
    BY <1>4, <1>5, EnterAwaited
  <2>2. One(r, Handling(w)) = 0
    BY <1>5, NobodyOne
  <2>3. QED
    BY <1>2, <2>1, <2>2, AwaitedNat DEF Counts
<1>7. QED
  BY <1>2, <1>4, <1>6, AwaitedSame DEF Awaiting

(* The procedure returns, and its sender goes on.                           *)
LEMMA ReturnAwaited ==
  ASSUME SchedulerAssumption, Sound, Sound', Waiting, Return
  PROVE  Waiting'
<1> DEFINE r == Last(transfers)
<1>1. /\ transfers' = Front(transfers) /\ transfers # << >>
      /\ Awaiting(sched') = Awaiting(sched) \ {r.sender}
  BY SoundParts, ReturnStep
<1>2. UNCHANGED <<queue, got, unheard>> /\ transfers \in Seq(Transfer)
  BY SoundParts DEF Return, Counted
<1>3. r \in Transfer
  BY <1>1, <1>2, FrontSeq
<1> HIDE DEF r
<1>4. ASSUME NEW w \in Workers
      PROVE  /\ Counts(queue', got', transfers', w) = IF w \in Due' THEN 1 ELSE 0
             /\ w = r.sender => w \notin unheard
  <2>1. Cardinality(Sent(transfers, Handling(w)))
          = Cardinality(Sent(transfers', Handling(w))) + One(r, Handling(w))
    BY <1>1, <1>2, SentFront DEF r
  <2>2. One(r, Handling(w)) = IF w = r.sender THEN 1 ELSE 0
    BY <1>3, HandlingOne
  <2>3. Counts(queue, got, transfers, w)
          = Counts(queue', got', transfers', w) + One(r, Handling(w))
    BY <1>2, <2>1, <2>2, AwaitedNat, AwaitedNatNext DEF Counts
  <2>4. Counts(queue, got, transfers, w) = IF w \in Due THEN 1 ELSE 0
    BY AwaitedForm
  <2>5. Counts(queue', got', transfers', w) \in Nat
    BY AwaitedNatNext DEF Counts
  <2>6. w \in Due' <=> w \in Due /\ w # r.sender
    BY <1>1, <1>2 DEF Due
  <2>7. QED
    BY <2>2, <2>3, <2>4, <2>5, <2>6 DEF Due
<1>5. unheard' \subseteq Awaiting(sched')
  <2>1. unheard \in SUBSET Workers /\ unheard \subseteq Awaiting(sched)
    BY SoundParts, AwaitedForm
  <2>2. QED
    BY <1>1, <1>2, <1>4, <2>1
<1>6. QED
  BY <1>4, <1>5, AwaitedFormNext

(* The main thread's wait hands a sent message to the procedure, or loses   *)
(* it.                                                                      *)
LEMMA WaitAwaited ==
  ASSUME SchedulerAssumption, Sound, Sound', Waiting, NEW b, NEW p, WaitForMain(b, p),
         UNCHANGED got
  PROVE  Waiting'
<1> DEFINE i == FirstSentToMain
           r == [owner |-> Main, sender |-> queue[i].sender, then |-> "wait", caller |-> Sp]
<1>1. SchedStep /\ (HandledInWait \/ PassedInWait)
  BY SoundParts, WaitForMainStep
<1>2. queue \in Seq(Message) /\ transfers \in Seq(Transfer) /\ Sp \in Threads
  BY SoundParts DEF Counted
<1>3. ASSUME i # 0
      PROVE  i \in 1 .. Len(queue) /\ queue[i] \in Retrieved /\ queue[i] \in Message
  <2>1. i \in 1 .. Len(queue) /\ queue[i].owner = Main
    BY <1>2, <1>3, FirstSentToMainStep
  <2>2. queue[i] \in Message
    BY <1>2, <2>1, ElementOfSeq
  <2>3. QED
    BY <2>1, <2>2 DEF Message, Retrieved, Main, Nobody
<1>4. ASSUME i # 0, queue' = RemoveAt(queue, i), NEW w \in Workers
      PROVE  Cardinality(Sent(queue, Queued(w)))
               = Cardinality(Sent(queue', Queued(w))) + One(queue[i], Queued(w))
  BY <1>2, <1>3, <1>4, SentRemove
<1>5. CASE HandledInWait
  <2>1. /\ i # 0 /\ queue' = RemoveAt(queue, i) /\ transfers' = Append(transfers, r)
        /\ UNCHANGED unheard
    BY <1>5 DEF HandledInWait
  <2>2. Main \in WindowOwners
    <3>1. queue[i].owner = Main /\ queue[i] \in Retrieved
      BY <1>2, <1>3, <2>1, FirstSentToMainStep
    <3>2. QED
      BY <3>1 DEF Retrieved
  <2>3. r \in Transfer /\ r.sender = queue[i].sender
    BY <1>2, <1>3, <2>1, <2>2 DEF Transfer, Message
  <2> HIDE DEF r, i
  <2>4. ASSUME NEW w \in Workers
        PROVE  Counts(queue', got', transfers', w) = Counts(queue, got, transfers, w)
    <3>1. Cardinality(Sent(queue, Queued(w)))
            = Cardinality(Sent(queue', Queued(w))) + One(queue[i], Queued(w))
      BY <1>4, <2>1
    <3>2. Cardinality(Sent(transfers', Handling(w)))
            = Cardinality(Sent(transfers, Handling(w))) + One(r, Handling(w))
      BY <1>2, <2>1, <2>3, EnterAwaited
    <3>3. One(r, Handling(w)) = One(queue[i], Queued(w)) /\ One(queue[i], Queued(w)) \in {0, 1}
      BY <1>3, <2>1, <2>3, RetrievedOne, HandlingOne
    <3>4. /\ Cardinality(Sent(queue, Queued(w))) \in Nat /\ Cardinality(Sent(queue', Queued(w))) \in Nat
          /\ Cardinality(Holding(got, Queued(w))) \in Nat
          /\ Cardinality(Holding(got', Queued(w))) \in Nat
          /\ Cardinality(Sent(transfers, Handling(w))) \in Nat
          /\ Cardinality(Sent(transfers', Handling(w))) \in Nat
      BY AwaitedNat, AwaitedNatNext
    <3>5. QED
      BY <3>1, <3>2, <3>3, <3>4 DEF Counts
  <2>5. QED
    BY <1>1, <2>1, <2>4, AwaitedSame DEF SchedStep
<1>6. CASE DropSent /\ UNCHANGED <<transfers, procs>>
  <2>1. i # 0 /\ queue' = RemoveAt(queue, i) /\ Lose({queue[i].sender})
    BY <1>6 DEF DropSent
  <2> DEFINE m == queue[i]
  <2>2. m \in Retrieved
    BY <1>3, <2>1
  <2> HIDE DEF i, m
  <2>3. ASSUME NEW w \in Workers
        PROVE  Counts(queue, got, transfers, w)
                 = Counts(queue', got', transfers', w) + One(m, Queued(w))
    <3>1. Cardinality(Sent(queue, Queued(w)))
            = Cardinality(Sent(queue', Queued(w))) + One(m, Queued(w))
      BY <1>4, <2>1 DEF m
    <3>2. One(m, Queued(w)) \in {0, 1}
      BY DEF One
    <3>3. /\ Cardinality(Sent(queue, Queued(w))) \in Nat /\ Cardinality(Sent(queue', Queued(w))) \in Nat
          /\ Cardinality(Holding(got, Queued(w))) \in Nat
          /\ Cardinality(Holding(got', Queued(w))) \in Nat
          /\ Cardinality(Sent(transfers, Handling(w))) \in Nat
          /\ Cardinality(Sent(transfers', Handling(w))) \in Nat
      BY AwaitedNat, AwaitedNatNext
    <3>4. QED
      BY <1>6, <3>1, <3>2, <3>3 DEF Counts
  <2>4. Awaiting(sched') = Awaiting(sched) /\ Lose({m.sender})
    BY <1>1, <2>1 DEF SchedStep, m
  <2>5. QED
    BY <2>2, <2>3, <2>4, TakenAwaited
<1>7. CASE NothingSent /\ UNCHANGED <<transfers, procs>>
  BY <1>1, <1>7, AwaitedOnly DEF NothingSent
<1>8. QED
  BY <1>1, <1>5, <1>6, <1>7 DEF PassedInWait

(* Every step keeps messages and waiting senders paired.                    *)
LEMMA AwaitedStep ==
  ASSUME SchedulerAssumption, Sound, Waiting, [Next]_vars
  PROVE  Waiting'
<1> USE SoundParts
<1>0. Sound'
  BY SoundStep
<1> USE <1>0
<1>1. CASE MessageCalls
  <2>1. ASSUME NEW o \in WindowOwners, PostMessage(o) PROVE Waiting'
    <3>1. PICK owner \in OwnersNow(o) :
            queue' = Append(queue, [owner |-> owner, sender |-> Nobody])
      BY <2>1 DEF PostMessage
    <3>2. UNCHANGED <<got, transfers, unheard>>
      BY <2>1 DEF PostMessage
    <3> DEFINE m == [owner |-> owner, sender |-> Nobody]
    <3>3. m \in Message /\ m.sender = Nobody /\ queue' = Append(queue, m)
      BY <3>1, OwnerNow
    <3> HIDE DEF m
    <3>4. QED
      BY <2>1, <3>2, <3>3, PostMessageStep, AppendAwaited
  <2>2. ASSUME GetMessageBlocks PROVE Waiting'
    <3>1. UNCHANGED <<queue, got, transfers, unheard>>
      BY <2>2 DEF GetMessageBlocks
    <3>2. QED
      BY <2>2, <3>1, GetMessageBlocksStep, AwaitedOnly
  <2>3. QED
    BY <1>1, <2>1, <2>2, SendAwaited, GetAwaited, DispatchAwaited, InlineAwaited, ReturnAwaited,
       DiscardAwaited, DestroyAwaited DEF MessageCalls
<1>2. CASE ThreadCalls
  <2>1. ASSUME WorkerWait PROVE Waiting'
    <3>1. UNCHANGED <<queue, got, transfers, unheard>>
      BY <2>1 DEF WorkerWait
    <3>2. QED
      BY <2>1, <3>1, WorkerWaitStep, AwaitedOnly
  <2>2. ASSUME FinishActive PROVE Waiting'
    <3>1. UNCHANGED <<queue, got, transfers, unheard>>
      BY <2>2 DEF FinishActive
    <3>2. QED
      BY <2>2, <3>1, FinishActiveStep, AwaitedOnly
  <2>3. ASSUME NEW w \in Workers, WaitOver(w) PROVE Waiting'
    <3>1. UNCHANGED <<queue, got, transfers, unheard>>
      BY <2>3 DEF WaitOver
    <3>2. QED
      BY <2>3, <3>1, WaitOverStep, AwaitedOnly
  <2>4. ASSUME MainWait PROVE Waiting'
    <3>1. PICK thread \in Workers \cup {Nobody} : WaitForMain(blocking + 1, thread)
      BY <2>4 DEF MainWait
    <3>2. UNCHANGED got
      BY <2>4 DEF MainWait
    <3>3. QED
      BY <3>1, <3>2, WaitAwaited
  <2>5. ASSUME WaitReturns PROVE Waiting'
    <3>1. UNCHANGED <<queue, got, transfers, unheard>>
      BY <2>5 DEF WaitReturns
    <3>2. QED
      BY <2>5, <3>1, WaitReturnsStep, AwaitedOnly
  <2>6. ASSUME WaitGoesOn PROVE Waiting'
    BY <2>6, WaitAwaited DEF WaitGoesOn
  <2>7. QED
    BY <1>2, <2>1, <2>2, <2>3, <2>4, <2>5, <2>6 DEF ThreadCalls
<1>3. CASE HostLoop
  <2>1. ASSUME SliceEnds PROVE Waiting'
    <3>1. UNCHANGED <<queue, got, transfers, unheard>>
      BY <2>1 DEF SliceEnds
    <3>2. QED
      BY <2>1, <3>1, SliceEndsStep, AwaitedOnly
  <2>2. ASSUME ResumeReadyMain PROVE Waiting'
    <3>1. UNCHANGED <<queue, got, transfers, unheard>>
      BY <2>2 DEF ResumeReadyMain
    <3>2. QED
      BY <2>2, <3>1, ResumeReadyMainStep, AwaitedOnly
  <2>3. ASSUME NEW o \in WindowOwners, HostInput(o) PROVE Waiting'
    <3> DEFINE m == [owner |-> o, sender |-> Nobody]
    <3>1. m \in Message /\ m.sender = Nobody /\ queue' = Append(queue, m)
          /\ UNCHANGED <<sched, got, transfers, unheard>>
      BY <2>3 DEF HostInput, Message
    <3> HIDE DEF m
    <3>2. SchedStep
      BY <3>1 DEF SchedOK, SchedStep
    <3>3. QED
      BY <3>1, <3>2, AppendAwaited
  <2>4. ASSUME RunTransferOwner PROVE Waiting'
    <3>1. UNCHANGED <<queue, got, transfers, unheard>>
      BY <2>4 DEF RunTransferOwner
    <3>2. QED
      BY <2>4, <3>1, RunTransferOwnerStep, AwaitedOnly
  <2>5. ASSUME RunWhileOwnerWaits PROVE Waiting'
    <3>1. UNCHANGED <<queue, got, transfers, unheard>> /\ RunWorker(sched)
      BY <2>5 DEF RunWhileOwnerWaits
    <3>2. QED
      BY <3>1, RunWorkerStep, AwaitedOnly
  <2>6. ASSUME RunForMessages PROVE Waiting'
    <3>1. UNCHANGED <<queue, got, transfers, unheard>>
      BY <2>6 DEF RunForMessages
    <3>2. QED
      BY <2>6, <3>1, RunForMessagesStep, AwaitedOnly
  <2>7. ASSUME RunIdle PROVE Waiting'
    <3>1. UNCHANGED <<queue, got, transfers, unheard>>
      BY <2>7 DEF RunIdle
    <3>2. QED
      BY <2>7, <3>1, RunIdleStep, AwaitedOnly
  <2>8. QED
    BY <1>3, <2>1, <2>2, <2>3, <2>4, <2>5, <2>6, <2>7 DEF HostLoop
<1>4. CASE UNCHANGED vars
  BY <1>4 DEF vars, Waiting, SendersAwaited, Awaiting
<1>5. QED
  BY <1>1, <1>2, <1>3, <1>4 DEF Next

(* At the start there are neither.                                          *)
LEMMA InitAwaited ==
  ASSUME SchedulerAssumption, Init
  PROVE  Waiting
<1>1. /\ queue = << >> /\ transfers = << >> /\ got = [t \in Threads |-> Nothing]
      /\ Awaiting(sched) = {} /\ unheard = {}
  BY DEF Init, Awaiting
<1>2. ASSUME NEW w \in Workers PROVE Counts(queue, got, transfers, w) = 0
  <2>1. w # Nobody
    BY DEF SchedulerAssumption, Nobody
  <2>2. /\ Sent(queue, Queued(w)) = {} /\ Sent(transfers, Handling(w)) = {}
        /\ Holding(got, Queued(w)) = {}
    BY <1>1, <2>1 DEF Sent, Holding, Nothing, Queued
  <2>3. Cardinality({}) = 0
    BY FS_EmptySet
  <2>4. /\ Cardinality(Sent(queue, Queued(w))) = 0 /\ Cardinality(Holding(got, Queued(w))) = 0
        /\ Cardinality(Sent(transfers, Handling(w))) = 0
    BY <2>2, <2>3
  <2>5. QED
    BY <2>4 DEF Counts
<1>3. \A w \in Workers : w \notin Due
  BY <1>1 DEF Due
<1>4. QED
  BY <1>1, <1>2, <1>3, InitSound, AwaitedForm

(* However the threads are switched and whatever the guest calls, a sender  *)
(* waits exactly while its message is queued for a thread, retrieved or     *)
(* being handled, and is answered once; or else its message was lost with a *)
(* destroyed window, a closed handle or an undispatched message, and it     *)
(* waits for good.                                                          *)
THEOREM SendersAreAwaited == Spec => []SendersAwaited
<1>1. Init => Sound /\ Waiting
  BY SchedulerAssumption, InitSound, InitAwaited
<1>2. Sound /\ Waiting /\ [Next]_vars => Sound' /\ Waiting'
  BY SchedulerAssumption, SoundStep, AwaitedStep
<1>3. Waiting => SendersAwaited
  BY DEF Waiting
<1>4. QED
  BY <1>1, <1>2, <1>3, PTL DEF Spec

----------------------------------------------------------------------------
(* Without the optional calls but those on windows.                         *)

(* The main thread's window procedures, which run whenever they can, are    *)
(* the last of the list.                                                    *)
MainOnTop ==
  /\ procs[Main] <= Len(transfers)
  /\ procs[Main] > 0 => sched.active = Main
  /\ \A i \in 1 .. Len(transfers) :
       (transfers[i].caller = Main) <=> (i > Len(transfers) - procs[Main])

GotOwn == \A t \in Threads : got[t] # Nothing => got[t].owner = t

(* A thread enters the procedures of its own windows, destroyed or not.     *)
EnteredByOwner ==
  /\ \A i \in 1 .. Len(transfers) :
       /\ transfers[i].caller \in WindowOwners
       /\ transfers[i].owner \in {transfers[i].caller, Nobody}
  /\ \A t \in Threads : procs[t] > 0 => t \in WindowOwners

Order == blocking = 0 /\ Placed(sched) /\ MainOnTop /\ GotOwn /\ EnteredByOwner

Orderly == ~made => Order

(* Steps that only switch.                                                  *)
LEMMA OrderKept ==
  ASSUME Order, Placed(sched'), UNCHANGED <<got, transfers, procs, blocking>>,
         procs[Main] > 0 => sched'.active = Main
  PROVE  Order'
BY DEF Order, MainOnTop, GotOwn, EnteredByOwner

(* A worker that is active is not within one of the main thread's.          *)
LEMMA WorkerActive ==
  ASSUME Sound, Order, sched.active # Main
  PROVE  ~(procs[Main] > 0)
BY DEF Order, MainOnTop

(* PostMessageW keeps the places.                                           *)
LEMMA PostMessagePlaced ==
  ASSUME SchedulerAssumption, SchedOK, Placed(sched), NEW o \in WindowOwners, PostMessage(o)
  PROVE  Placed(sched') /\ (Caller = Main => sched'.active = Main)
<1> DEFINE s == WakeMessageWaiters(sched, queue')
<1>1. s \in SchedType /\ s.active = sched.active /\ ActiveRuns(s) /\ Placed(s)
  BY WakeMessageWaitersStep DEF SchedOK
<1>2. sched' = IF Caller # Main /\ Schedulable(s, queue', blocking)
               THEN YieldActive(s, queue', blocking) ELSE s
  BY DEF PostMessage
<1> HIDE DEF s
<1>3. CASE Caller # Main /\ Schedulable(s, queue', blocking)
  <2>1. s.active # Main
    BY <1>1, <1>3 DEF Caller
  <2>2. QED
    BY <1>1, <1>2, <1>3, <2>1, YieldActiveStep
<1>4. CASE ~(Caller # Main /\ Schedulable(s, queue', blocking))
  BY <1>1, <1>2, <1>4 DEF Caller
<1>5. QED
  BY <1>3, <1>4

(* A worker parks and the main thread goes on where it was.                 *)
LEMMA ParkedPlaced ==
  ASSUME SchedulerAssumption, SchedOK, Placed(sched), sched.active # Main, NEW st \in RunStates
  PROVE  /\ ParkActive(sched, st).mainValid
         /\ Placed(RestoreMain(ParkActive(sched, st)))
<1> DEFINE s == ParkActive(sched, st)
<1>1. s \in SchedType /\ s.active = Main /\ Stowed(s)
  BY ParkActiveStep DEF SchedOK
<1> HIDE DEF s
<1>2. s.mainValid /\ Placed(RestoreMain(s))
  BY <1>1, RestoreMainStep DEF Stowed
<1>3. QED
  BY <1>2 DEF s

(* So does GetMessageW without a message ...                                *)
LEMMA GetMessageBlocksPlaced ==
  ASSUME SchedulerAssumption, SchedOK, Placed(sched), GetMessageBlocks
  PROVE  Placed(sched')
<1>1. CASE Caller = Main
  <2>1. sched' = SwitchToRunnable(sched, queue, blocking, Nobody)
    BY <1>1 DEF GetMessageBlocks, SwitchOrStop
  <2>2. QED
    BY <2>1, SwitchToRunnableStep DEF SchedOK
<1>2. CASE Caller # Main
  <2> DEFINE s == ParkActive(sched, "WaitingForMessage")
  <2>1. sched.active # Main /\ "WaitingForMessage" \in RunStates
    BY <1>2 DEF Caller, RunStates
  <2>2. s.mainValid /\ Placed(RestoreMain(s))
    BY <2>1, ParkedPlaced
  <2>3. sched' = IF s.mainValid THEN RestoreMain(s)
                 ELSE SwitchToRunnable(s, queue, blocking, Nobody)
    BY <1>2 DEF GetMessageBlocks
  <2>4. QED
    BY <2>2, <2>3
<1>3. QED
  BY <1>1, <1>2

(* ... and a worker's wait.                                                 *)
LEMMA WorkerWaitPlaced ==
  ASSUME SchedulerAssumption, SchedOK, Placed(sched), blocking = 0, WorkerWait
  PROVE  Placed(sched')
<1>1. sched.active # Main
  BY DEF WorkerWait, Caller
<1>2. PICK st \in {"Waiting", "Runnable"} : Park(st)
  BY DEF WorkerWait
<1> DEFINE s == ParkActive(sched, st)
<1>3. st \in RunStates
  BY DEF RunStates
<1>4. s.mainValid /\ Placed(RestoreMain(s))
  BY <1>1, <1>3, ParkedPlaced
<1>5. sched' = IF s.mainValid THEN RestoreMain(s)
               ELSE SwitchToRunnable(s, queue, blocking, Nobody)
  BY <1>2 DEF Park
<1>6. QED
  BY <1>4, <1>5

(* A thread enters one of its own window procedures.                        *)
LEMMA EnterOrder ==
  ASSUME SchedulerAssumption, Sound, Order, NEW u \in WindowOwners, u = Sp,
         NEW owner \in {u, Nobody}, NEW sender \in Workers \cup {Nobody},
         Enter(sched, owner, sender, "code"), UNCHANGED blocking, GotOwn'
  PROVE  Order'
<1> DEFINE r == [owner |-> owner, sender |-> sender, then |-> "code", caller |-> u]
           n == Len(transfers)
           p == procs[Main]
<1>1. sched.active = u /\ u \in Threads
  BY SoundParts DEF Order, Placed, Sp
<1>2. /\ transfers' = Append(transfers, r) /\ procs' = [procs EXCEPT ![u] = procs[u] + 1]
      /\ sched'.runState = sched.runState
      /\ sched'.active = IF owner = Main THEN Main ELSE sched.active
      /\ sched'.main = sched.main /\ sched'.mainValid = sched.mainValid
      /\ sched'.saved = sched.saved
      /\ sched'.cpu.sp = sched.cpu.sp /\ sched'.cpu.latest = sched.cpu.latest
  <2>1. sched \in SchedType /\ Counted
    BY SoundParts DEF SchedOK
  <2>2. owner \in WindowOwners \cup {Nobody}
    OBVIOUS
  <2>3. /\ transfers' = Append(transfers, [owner |-> owner, sender |-> sender,
                                           then |-> "code", caller |-> sched.cpu.sp])
        /\ procs' = [procs EXCEPT ![sched.cpu.sp] = procs[sched.cpu.sp] + 1]
        /\ sched'.runState = sched.runState
        /\ sched'.active = IF owner = Main THEN Main ELSE sched.active
        /\ sched'.main = sched.main /\ sched'.mainValid = sched.mainValid
        /\ sched'.saved = sched.saved
        /\ sched'.cpu.sp = sched.cpu.sp /\ sched'.cpu.latest = sched.cpu.latest
    BY <2>1, <2>2, EnterStep
  <2>4. QED
    BY <2>3 DEF Sp
<1>3. sched'.active = u /\ Placed(sched')
  BY <1>1, <1>2 DEF Order, Placed, Main, Nobody
<1>4. n \in Nat /\ p \in Nat /\ p <= n /\ procs \in [Threads -> Nat] /\ Main \in Threads
  BY SoundParts, CountedBound DEF Counted, Threads
<1>5. /\ Len(transfers') = n + 1 /\ transfers'[n + 1] = r
      /\ \A i \in 1 .. n : transfers'[i] = transfers[i]
  BY <1>2, SoundParts, AppendProperties DEF Counted
<1>6. r.owner \in {u, Nobody} /\ r.caller = u
  OBVIOUS
<1>7. procs'[Main] = IF u = Main THEN p + 1 ELSE p
  BY <1>1, <1>2, <1>4
<1>8. u # Main => p = 0
  BY <1>1, <1>4 DEF Order, MainOnTop
<1>9. \A i \in 1 .. n : (transfers[i].caller = Main) <=> (i > n - p)
  BY DEF Order, MainOnTop
<1> HIDE DEF r, p, n
<1>10. MainOnTop'
  <2>1. procs'[Main] <= Len(transfers')
    BY <1>4, <1>5, <1>7
  <2>2. procs'[Main] > 0 => sched'.active = Main
    BY <1>3, <1>7, <1>8
  <2>3. ASSUME NEW i \in 1 .. Len(transfers')
        PROVE  (transfers'[i].caller = Main) <=> (i > Len(transfers') - procs'[Main])
    <3>1. CASE i = n + 1
      BY <1>4, <1>5, <1>6, <1>7, <1>8, <3>1
    <3>2. CASE i # n + 1
      <4>1. i \in 1 .. n
        BY <1>4, <1>5, <3>2
      <4>2. (transfers'[i].caller = Main) <=> (i > n - p)
        BY <1>5, <1>9, <4>1
      <4>3. QED
        BY <1>4, <1>5, <1>7, <1>8, <4>1, <4>2
    <3>3. QED
      BY <3>1, <3>2
  <2>4. QED
    BY <2>1, <2>2, <2>3 DEF MainOnTop
<1>11. EnteredByOwner'
  <2>1. ASSUME NEW i \in 1 .. n + 1
        PROVE  /\ transfers'[i].caller \in WindowOwners
               /\ transfers'[i].owner \in {transfers'[i].caller, Nobody}
    <3>1. CASE i = n + 1
      BY <1>5, <1>6, <3>1
    <3>2. CASE i # n + 1
      <4>1. i \in 1 .. n
        BY <1>4, <3>2
      <4>2. /\ transfers[i].caller \in WindowOwners
            /\ transfers[i].owner \in {transfers[i].caller, Nobody}
        BY <4>1 DEF Order, EnteredByOwner, n
      <4>3. QED
        BY <1>5, <4>1, <4>2
    <3>3. QED
      BY <3>1, <3>2
  <2>2. ASSUME NEW t \in Threads, procs'[t] > 0 PROVE t \in WindowOwners
    BY <1>1, <1>2, <1>4, <2>2 DEF Order, EnteredByOwner
  <2>3. QED
    BY <1>5, <2>1, <2>2 DEF EnteredByOwner
<1>12. QED
  BY <1>3, <1>10, <1>11 DEF Order

(* The last window procedure entered returns.                               *)
LEMMA ReturnOrder ==
  ASSUME SchedulerAssumption, Sound, Order, Return
  PROVE  Order' /\ (Last(transfers).caller = Main <=> Sp = Main)
<1> DEFINE n == Len(transfers)
           p == procs[Main]
<1>1. /\ transfers' = Front(transfers) /\ transfers # << >>
      /\ procs' = [procs EXCEPT ![Sp] = procs[Sp] - 1]
      /\ sched'.active = IF Last(transfers).owner = Main THEN Main ELSE sched.active
      /\ sched'.active = sched.active /\ Placed(sched) => Placed(sched')
  BY SoundParts, ReturnStep
<1>2. /\ procs[Sp] > 0 /\ Sp = sched.active /\ Sp \in Threads
      /\ UNCHANGED <<got, blocking>>
  BY SoundParts DEF Return, Order, Placed, Sp
<1>3. /\ n \in Nat /\ p \in Nat /\ p <= n /\ procs \in [Threads -> Nat] /\ Main \in Threads
  BY SoundParts, CountedBound DEF Counted, Threads
<1>4. /\ Len(transfers') = n - 1 /\ n \in Nat \ {0} /\ Last(transfers) = transfers[n]
      /\ \A i \in 1 .. n - 1 : transfers'[i] = transfers[i]
  <2>1. transfers \in Seq(Transfer)
    BY SoundParts DEF Counted
  <2>2. /\ Len(Front(transfers)) = n - 1 /\ n \in Nat \ {0} /\ Last(transfers) = transfers[n]
        /\ \A i \in 1 .. n - 1 : Front(transfers)[i] = transfers[i]
    BY <1>1, <2>1, FrontSeq
  <2>3. QED
    BY <1>1, <2>2
<1>5. Sp # Main => p = 0
  BY <1>2, <1>3 DEF Order, MainOnTop
<1>6. \A i \in 1 .. n : (transfers[i].caller = Main) <=> (i > n - p)
  BY DEF Order, MainOnTop
<1>7. procs'[Main] = IF Sp = Main THEN p - 1 ELSE p
  BY <1>1, <1>2, <1>3
<1> HIDE DEF n, p
<1>8. (Last(transfers).caller = Main) <=> p > 0
  <2>1. n \in 1 .. n
    BY <1>4
  <2>2. QED
    BY <1>3, <1>4, <1>6, <2>1
<1>9. p > 0 <=> Sp = Main
  BY <1>2, <1>3, <1>5 DEF p
<1>10. sched'.active = sched.active /\ Placed(sched')
  <2>1. n \in 1 .. n
    BY <1>4
  <2>2. Last(transfers).owner \in {Last(transfers).caller, Nobody}
    BY <1>4, <2>1 DEF Order, EnteredByOwner, n
  <2>3. Last(transfers).owner = Main => sched.active = Main
    BY <1>2, <1>8, <1>9, <2>2 DEF Main, Nobody
  <2>4. QED
    BY <1>1, <2>3 DEF Order
<1>11. MainOnTop'
  <2>1. procs'[Main] <= Len(transfers')
    BY <1>3, <1>4, <1>5, <1>7
  <2>2. procs'[Main] > 0 => sched'.active = Main
    BY <1>2, <1>3, <1>5, <1>7, <1>10
  <2>3. ASSUME NEW i \in 1 .. Len(transfers')
        PROVE  (transfers'[i].caller = Main) <=> (i > Len(transfers') - procs'[Main])
    <3>1. i \in 1 .. n - 1 /\ i \in 1 .. n
      BY <1>4
    <3>2. (transfers'[i].caller = Main) <=> (i > n - p)
      BY <1>4, <1>6, <3>1
    <3>3. QED
      BY <1>3, <1>4, <1>5, <1>7, <3>1, <3>2
  <2>4. QED
    BY <2>1, <2>2, <2>3 DEF MainOnTop
<1>12. EnteredByOwner'
  <2>1. ASSUME NEW i \in 1 .. Len(transfers')
        PROVE  /\ transfers'[i].caller \in WindowOwners
               /\ transfers'[i].owner \in {transfers'[i].caller, Nobody}
    <3>1. i \in 1 .. n - 1 /\ i \in 1 .. n
      BY <1>4
    <3>2. /\ transfers[i].caller \in WindowOwners
          /\ transfers[i].owner \in {transfers[i].caller, Nobody}
      BY <3>1 DEF Order, EnteredByOwner, n
    <3>3. QED
      BY <1>4, <3>1, <3>2
  <2>2. ASSUME NEW t \in Threads, procs'[t] > 0 PROVE t \in WindowOwners
    <3>1. procs[t] > 0
      BY <1>1, <1>2, <1>3, <2>2
    <3>2. QED
      BY <3>1 DEF Order, EnteredByOwner
  <2>3. QED
    BY <2>1, <2>2 DEF EnteredByOwner
<1>13. QED
  BY <1>2, <1>8, <1>9, <1>10, <1>11, <1>12 DEF Order, GotOwn

(* The message calls keep the order of the list ...                         *)
LEMMA MessageOrder ==
  ASSUME SchedulerAssumption, Sound, Order, MessageCalls, ~made'
  PROVE  Order'
<1> USE SoundParts
<1>1. Placed(sched) /\ Sp = Caller /\ blocking = 0 /\ GotOwn
  BY DEF Order, Placed, Sp, Caller
<1>2. ASSUME NEW o \in WindowOwners, PostMessage(o) PROVE Order'
  <2>1. UNCHANGED <<got, transfers, procs, blocking>>
    BY <1>2 DEF PostMessage
  <2>2. Placed(sched') /\ (Caller = Main => sched'.active = Main)
    BY <1>1, <1>2, PostMessagePlaced
  <2>3. QED
    BY <2>1, <2>2, WorkerActive, OrderKept DEF Caller
<1>3. ASSUME NEW o \in WindowOwners, SendMessageInline(o) PROVE Order'
  <2>1. UNCHANGED <<got, blocking>> /\ Caller \in {Main, o}
    BY <1>3 DEF SendMessageInline
  <2>2. o \in {Main, Caller}
    BY <1>3 DEF SendMessageInline, Make
  <2>3. o = Sp
    BY <1>1, <2>1, <2>2
  <2>4. GotOwn'
    BY <1>1, <2>1 DEF GotOwn
  <2>5. PICK owner \in OwnersNow(o) : Enter(sched, owner, Nobody, "code")
    BY <1>3 DEF SendMessageInline
  <2>6. owner \in {o, Nobody} /\ Nobody \in Workers \cup {Nobody}
    BY OwnerNow
  <2>7. QED
    BY <2>1, <2>3, <2>4, <2>5, <2>6, EnterOrder
<1>4. ASSUME NEW o \in WindowOwners, SendMessage(o) PROVE Order'
  <2>1. UNCHANGED <<got, transfers, procs, blocking>> /\ Caller # Main /\ o = Main
    BY <1>4 DEF SendMessage, Make
  <2>2. Placed(sched')
    BY <1>1, <1>4, <2>1, SendMessageStep
  <2>3. QED
    BY <2>1, <2>2, WorkerActive, OrderKept DEF Caller
<1>5. ASSUME GetMessage PROVE Order'
  <2>1. /\ FirstFor(Caller) # 0 /\ got' = [got EXCEPT ![Sp] = queue[FirstFor(Caller)]]
        /\ UNCHANGED <<sched, transfers, procs, blocking>>
    BY <1>5 DEF GetMessage
  <2>2. queue[FirstFor(Caller)].owner = Sp
    BY <1>1, <2>1, FirstForStep
  <2>3. GotOwn'
    BY <1>1, <2>1, <2>2 DEF GotOwn
  <2>4. QED
    BY <2>1, <2>3 DEF Order, MainOnTop, EnteredByOwner
<1>6. ASSUME GetMessageBlocks PROVE Order'
  <2>1. UNCHANGED <<got, transfers, procs, blocking>> /\ ~(procs[Sp] > 0)
    BY <1>6 DEF GetMessageBlocks, Make
  <2>2. Placed(sched')
    BY <1>1, <1>6, GetMessageBlocksPlaced
  <2>3. ~(procs[Main] > 0)
    BY <1>1, <2>1, WorkerActive DEF Caller
  <2>4. QED
    BY <2>1, <2>2, <2>3, OrderKept
<1>7. ASSUME DispatchMessage PROVE Order'
  <2> DEFINE m == got[Sp]
  <2>1. /\ m # Nothing /\ got' = [got EXCEPT ![Sp] = Nothing] /\ UNCHANGED blocking
        /\ \/ \E owner \in OwnersNow(m.owner) : Enter(sched, owner, m.sender, "code")
           \/ UNCHANGED <<sched, transfers, procs>>
    BY <1>7 DEF DispatchMessage
  <2>2. m \in Retrieved
    BY <2>1
  <2>3. m.owner \in WindowOwners /\ m.sender \in Workers \cup {Nobody}
    BY <2>2 DEF Retrieved
  <2>4. m.owner = Sp
    BY <1>1, <2>1 DEF GotOwn
  <2>5. GotOwn'
    BY <1>1, <2>1 DEF GotOwn
  <2> HIDE DEF m
  <2>6. ASSUME NEW owner \in OwnersNow(m.owner), Enter(sched, owner, m.sender, "code")
        PROVE  Order'
    <3>1. owner \in {m.owner, Nobody}
      BY <2>3, OwnerNow
    <3>2. QED
      BY <2>1, <2>3, <2>4, <2>5, <2>6, <3>1, EnterOrder
  <2>7. ASSUME UNCHANGED <<sched, transfers, procs>> PROVE Order'
    BY <2>1, <2>5, <2>7 DEF Order, MainOnTop, EnteredByOwner
  <2>8. QED
    BY <2>1, <2>6, <2>7
<1>8. ASSUME Discard PROVE Order'
  <2>1. got' = [got EXCEPT ![Sp] = Nothing] /\ UNCHANGED <<sched, transfers, blocking, procs>>
    BY <1>8 DEF Discard
  <2>2. GotOwn'
    BY <1>1, <2>1 DEF GotOwn
  <2>3. QED
    BY <2>1, <2>2 DEF Order, MainOnTop, EnteredByOwner
<1>9. ASSUME NEW o \in WindowOwners, DestroyWindow(o) PROVE Order'
  <2>1. UNCHANGED <<sched, got, transfers, blocking, procs>>
    BY <1>9 DEF DestroyWindow
  <2>2. QED
    BY <2>1 DEF Order, MainOnTop, GotOwn, EnteredByOwner
<1>10. QED
  BY <1>2, <1>3, <1>4, <1>5, <1>6, <1>7, <1>8, <1>9, ReturnOrder DEF MessageCalls

(* ... so do the waits and ends of workers ...                              *)
LEMMA ThreadOrder ==
  ASSUME SchedulerAssumption, Sound, Order, ThreadCalls, ~made'
  PROVE  Order'
<1> USE SoundParts
<1>1. Placed(sched) /\ blocking = 0
  BY DEF Order
<1>2. ASSUME WorkerWait PROVE Order'
  <2>1. UNCHANGED <<got, transfers, procs, blocking>> /\ sched.active # Main
    BY <1>2 DEF WorkerWait, Caller
  <2>2. QED
    BY <1>1, <1>2, <2>1, WorkerWaitPlaced, WorkerActive, OrderKept
<1>3. ASSUME FinishActive PROVE Order'
  <2>1. UNCHANGED <<got, transfers, procs, blocking>> /\ sched.active # Main
    BY <1>3 DEF FinishActive, Caller
  <2>2. QED
    BY <1>1, <1>3, <2>1, FinishActiveStep, WorkerActive, OrderKept
<1>4. ASSUME NEW w \in Workers, WaitOver(w) PROVE Order'
  <2>1. UNCHANGED <<got, transfers, procs, blocking>>
    BY <1>4 DEF WaitOver
  <2>2. QED
    BY <1>1, <1>4, <2>1, WaitOverStep, OrderKept, WorkerActive
<1>5. ~MainWait
  BY DEF MainWait, Make
<1>6. ~WaitReturns /\ ~WaitGoesOn
  BY <1>1 DEF WaitReturns, WaitGoesOn
<1>7. QED
  BY <1>2, <1>3, <1>4, <1>5, <1>6 DEF ThreadCalls

(* ... and the loop around the guest ...                                    *)
LEMMA HostOrder ==
  ASSUME SchedulerAssumption, Sound, Order, HostLoop
  PROVE  Order'
<1> USE SoundParts
<1>1. Placed(sched) /\ blocking = 0
  BY DEF Order
<1>2. ASSUME SliceEnds PROVE Order'
  <2>1. UNCHANGED <<got, transfers, procs, blocking>>
    BY <1>2 DEF SliceEnds
  <2>2. QED
    BY <1>1, <1>2, <2>1, SliceEndsStep, WorkerActive, OrderKept DEF Caller
<1>3. ~ResumeReadyMain /\ ~RunWhileOwnerWaits
  BY <1>1 DEF ResumeReadyMain, RunWhileOwnerWaits, MainParkedInWait
<1>4. ASSUME NEW o \in WindowOwners, HostInput(o) PROVE Order'
  <2>1. UNCHANGED <<sched, got, transfers, procs, blocking>>
    BY <1>4 DEF HostInput
  <2>2. QED
    BY <2>1 DEF Order, MainOnTop, GotOwn, EnteredByOwner
<1>5. ASSUME RunTransferOwner PROVE Order'
  <2>1. UNCHANGED <<got, transfers, procs, blocking>> /\ transfers # << >>
    BY <1>5 DEF RunTransferOwner
  <2>2. /\ Placed(sched') /\ (TransferOwner = Main => sched'.active = Main)
        /\ TransferOwner = Nobody => sched' = sched
    BY <1>1, <1>5, RunTransferOwnerStep
  <2>3. procs[Main] > 0 => TransferOwner \in {Main, Nobody}
    <3> DEFINE n == Len(transfers)
               p == procs[Main]
    <3>1. n \in Nat \ {0} /\ Last(transfers) = transfers[n]
      BY <2>1, FrontSeq DEF Counted
    <3>2. n \in 1 .. n /\ p \in Nat /\ p <= n
      <4>1. Main \in Threads
        BY DEF Threads
      <4>2. p \in Nat /\ p <= n
        BY <4>1, CountedBound
      <4>3. QED
        BY <3>1, <4>2
    <3>3. /\ (transfers[n].caller = Main) <=> (n > n - p)
          /\ transfers[n].owner \in {transfers[n].caller, Nobody}
      BY <3>2 DEF Order, MainOnTop, EnteredByOwner
    <3> HIDE DEF n
    <3>4. QED
      BY <3>1, <3>2, <3>3 DEF TransferOwner
  <2>4. procs[Main] > 0 => sched.active = Main
    BY DEF Order, MainOnTop
  <2>5. QED
    BY <2>1, <2>2, <2>3, <2>4, OrderKept
<1>6. transfers = << >> => ~(procs[Main] > 0)
  <2>1. Main \in Threads
    BY DEF Threads
  <2>2. procs[Main] \in Nat /\ procs[Main] <= Len(transfers)
    BY <2>1, CountedBound
  <2>3. transfers = << >> => Len(transfers) = 0
    OBVIOUS
  <2>4. QED
    BY <2>2, <2>3
<1>7. ASSUME RunForMessages PROVE Order'
  <2>1. UNCHANGED <<got, transfers, procs, blocking>> /\ transfers = << >>
    BY <1>7 DEF RunForMessages
  <2>2. QED
    BY <1>1, <1>6, <1>7, <2>1, RunForMessagesStep, OrderKept
<1>8. ASSUME RunIdle PROVE Order'
  <2>1. UNCHANGED <<got, transfers, procs, blocking>> /\ transfers = << >>
    BY <1>8 DEF RunIdle
  <2>2. QED
    BY <1>1, <1>6, <1>8, <2>1, RunIdleStep, OrderKept
<1>9. QED
  BY <1>2, <1>3, <1>4, <1>5, <1>7, <1>8 DEF HostLoop

(* made only becomes TRUE.                                                  *)
LEMMA MadeStays ==
  ASSUME SchedulerAssumption, Sound, [Next]_vars, ~made'
  PROVE  ~made
<1>1. ASSUME MessageCalls PROVE ~made
  BY <1>1 DEF MessageCalls, PostMessage, SendMessageInline, SendMessage, GetMessage,
              GetMessageBlocks, DispatchMessage, Discard, DestroyWindow, Return, Make
<1>2. ASSUME ThreadCalls PROVE ~made
  BY <1>2 DEF ThreadCalls, WorkerWait, FinishActive, WaitOver, MainWait, WaitReturns,
              WaitGoesOn, Make
<1>3. ASSUME HostLoop PROVE ~made
  BY <1>3 DEF HostLoop, SliceEnds, ResumeReadyMain, HostInput, RunTransferOwner,
              RunWhileOwnerWaits, RunForMessages, RunIdle
<1>4. QED
  BY <1>1, <1>2, <1>3 DEF Next, vars

(* ... so every step does, as long as none but those calls is made.         *)
LEMMA OrderStep ==
  ASSUME SchedulerAssumption, Sound, Orderly, [Next]_vars
  PROVE  Orderly'
<1> SUFFICES ASSUME ~made' PROVE Order'
  BY DEF Orderly
<1>1. Order
  BY MadeStays DEF Orderly
<1>2. CASE UNCHANGED vars
  BY <1>1, <1>2 DEF vars, Order, MainOnTop, GotOwn, EnteredByOwner, Placed
<1>3. QED
  BY <1>1, <1>2, MessageOrder, ThreadOrder, HostOrder DEF Next

(* The start.                                                               *)
LEMMA InitOrder ==
  ASSUME SchedulerAssumption, Init
  PROVE  Orderly
<1>1. /\ blocking = 0 /\ transfers = << >> /\ Len(transfers) = 0
      /\ got = [t \in Threads |-> Nothing] /\ procs = [t \in Threads |-> 0]
      /\ Main \in Threads
  BY EmptySeq DEF Init, Threads
<1>2. /\ sched.cpu = Start(Main) /\ sched.active = Main
      /\ sched.saved = [w \in Workers |-> Start(w)]
  BY DEF Init
<1>3. Placed(sched)
  BY <1>2 DEF Placed, Start
<1>4. QED
  BY <1>1, <1>3 DEF Orderly, Order, MainOnTop, GotOwn, EnteredByOwner

(* As long as the guest makes none of the optional calls, DestroyWindow and *)
(* closing a window's handle excepted, no thread's place is lost or mixed up*)
(* with another's, for any number of workers, any of them with windows, and *)
(* any order of slices, waits and messages.                                 *)
THEOREM ContextsKept == Spec => []EveryContextKept
<1>1. Init => Sound /\ Orderly
  BY SchedulerAssumption, InitSound, InitOrder
<1>2. Sound /\ Orderly /\ [Next]_vars => Sound' /\ Orderly'
  BY SchedulerAssumption, SoundStep, OrderStep
<1>3. Orderly => EveryContextKept
  BY DEF Orderly, Order, Placed, EveryContextKept
<1>4. QED
  BY <1>1, <1>2, <1>3, PTL DEF Spec

(* Only a return takes an entry off the list.                               *)
LEMMA OnlyReturnTakes ==
  ASSUME SchedulerAssumption, Sound, [Next]_vars, Len(transfers') < Len(transfers)
  PROVE  Return
<1>1. Len(transfers) \in Nat /\ transfers \in Seq(Transfer)
  BY SoundParts, CountedBound DEF Counted
<1>2. ASSUME NEW s, NEW o, NEW from, NEW then, Enter(s, o, from, then) PROVE FALSE
  <2>1. PICK r : transfers' = Append(transfers, r)
    BY <1>2 DEF Enter
  <2>2. Len(transfers') = Len(transfers) + 1
    BY <1>1, <2>1
  <2>3. QED
    BY <1>1, <2>2
<1>3. ~UNCHANGED transfers
  BY <1>1
<1>4. \A b, p : ~WaitForMain(b, p)
  BY <1>2, <1>3 DEF WaitForMain, HandleSent
<1>5. ~HostLoop
  BY <1>3 DEF HostLoop, SliceEnds, ResumeReadyMain, HostInput, RunTransferOwner,
              RunWhileOwnerWaits, RunForMessages, RunIdle
<1>6. ~ThreadCalls
  BY <1>3, <1>4 DEF ThreadCalls, WorkerWait, FinishActive, WaitOver, MainWait, WaitReturns,
                    WaitGoesOn
<1>7. MessageCalls => Return
  BY <1>2, <1>3 DEF MessageCalls, PostMessage, SendMessageInline, SendMessage, GetMessage,
                    GetMessageBlocks, DispatchMessage, Discard, DestroyWindow
<1>8. QED
  BY <1>3, <1>5, <1>6, <1>7 DEF Next, vars

(* What is last on the list was entered by the thread that returns: for the *)
(* main thread because its procedures are on top, for the worker because no *)
(* other has windows.                                                       *)
LEMMA ReturnsHome ==
  ASSUME SchedulerAssumption, Sound, Orderly, Return, ~made',
         Cardinality(WindowOwners \ {Main}) <= 1
  PROVE  Last(transfers).caller = Sp
<1> DEFINE n == Len(transfers)
<1>1. Order
  BY DEF Return, Orderly
<1>2. n \in Nat \ {0} /\ Last(transfers) = transfers[n] /\ Last(transfers) \in Transfer
  BY SoundParts, FrontSeq DEF Return, Counted
<1>3. Last(transfers).caller = Main <=> Sp = Main
  BY <1>1, ReturnOrder
<1>4. Last(transfers).caller \in WindowOwners
  <2>1. n \in 1 .. n
    BY <1>2
  <2>2. QED
    BY <1>1, <1>2, <2>1 DEF Order, EnteredByOwner
<1>5. CASE Sp = Main
  BY <1>3, <1>5
<1>6. CASE Sp # Main
  <2> DEFINE W == WindowOwners \ {Main}
  <2>1. Sp \in W /\ Last(transfers).caller \in W
    BY <1>1, <1>3, <1>4, <1>6, SoundParts DEF Order, EnteredByOwner, Return
  <2>2. IsFiniteSet(W)
    <3>1. IsFiniteSet(Workers) /\ W \in SUBSET Workers
      BY DEF SchedulerAssumption, Threads
    <3>2. QED
      BY <3>1, FS_Subset
  <2> HIDE DEF W
  <2>3. \A a, b \in W : a = b
    <3>1. Cardinality(W) \in Nat /\ Cardinality(W) <= 1
      BY <2>2, FS_CardinalityType DEF W
    <3>2. Cardinality(W) = 0 \/ Cardinality(W) = 1
      BY <3>1
    <3>3. W = {} \/ \E x : W = {x}
      BY <2>2, <3>2, FS_EmptySet, FS_Singleton
    <3>4. QED
      BY <3>3
  <2>4. QED
    BY <2>1, <2>3
<1>7. QED
  BY <1>5, <1>6

(* As long as no optional call but those on windows is made and one worker  *)
(* at most has windows, a window procedure returns to the call that entered *)
(* it, however many procedures are nested and however the threads are       *)
(* switched between them.                                                   *)
THEOREM CallersReturnedTo == Spec => ReturnsToCaller
<1> DEFINE P == (~made /\ Cardinality(WindowOwners \ {Main}) <= 1 /\ Len(transfers') < Len(transfers))
                  => Last(transfers).caller = sched.cpu.sp
<1>1. Init => Sound /\ Orderly
  BY SchedulerAssumption, InitSound, InitOrder
<1>2. Sound /\ Orderly /\ [Next]_vars => Sound' /\ Orderly'
  BY SchedulerAssumption, SoundStep, OrderStep
<1>3. Sound /\ Orderly /\ [Next]_vars => [P]_vars
  <2> SUFFICES ASSUME Sound, Orderly, [Next]_vars, ~made, Len(transfers') < Len(transfers),
                      Cardinality(WindowOwners \ {Main}) <= 1
               PROVE  Last(transfers).caller = Sp
    BY DEF Sp
  <2>1. Return
    BY SchedulerAssumption, OnlyReturnTakes
  <2>2. ~made'
    BY <2>1 DEF Return
  <2>3. QED
    BY <2>1, <2>2, SchedulerAssumption, ReturnsHome
<1>4. QED
  BY <1>1, <1>2, <1>3, PTL DEF Spec, ReturnsToCaller
=============================================================================

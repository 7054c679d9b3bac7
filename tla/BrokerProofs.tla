---------------------------- MODULE BrokerProofs ----------------------------
(***************************************************************************)
(* Proofs about Broker and SharedMapping, for every set of processes and    *)
(* views, every number of posts and every scene.                            *)
(*                                                                          *)
(* The inductive invariant BInv has four parts.  MInv: the shapes of the    *)
(* mapping's state, and that a live process synchronises, maps and unmaps   *)
(* only views of its own that are mapped.  BrokerTypes: the shapes of the   *)
(* broker's state.  Locked: a mutex is held only where its owner will       *)
(* release it.  QueueInv, unless a wait for a mutex gave up: the owner of   *)
(* the queue's mutex is the only process in the middle of a post or a poll; *)
(* what it holds of the file is the file, or the file without what it dealt *)
(* with; and messages are numbered in their order everywhere.               *)
(*                                                                          *)
(* Where a process is is told by Phase, which is the place the process goes *)
(* on to when it is in the middle of a synchronisation: the broker's part   *)
(* of the invariant does not look into one.                                 *)
(*                                                                          *)
(* VInv looks into them: it relates the bytes and the version of the file   *)
(* and what every view kept of both.  It is needed for SeenIsCurrent, and   *)
(* it is invariant where the races that the code does nothing against       *)
(* (NoRace) are left out.  A process that dies between the bytes and the    *)
(* version (Stuck) leaves the files out of step for good.                   *)
(*                                                                          *)
(* DInv adds what the bytes are: they only grow, first in the views of the  *)
(* process that stores, then in the file, then in the other views; what a   *)
(* message in flight is about is in the file before the message is; and     *)
(* whoever takes messages read its views after it read the messages.  It is *)
(* needed for PostedDataSeen.                                               *)
(***************************************************************************)
EXTENDS Broker, SequenceLemmas

-----------------------------------------------------------------------------
(* Where a process is, whatever synchronisation it is in the middle of.     *)
Syncing == {"bump", "trunc", "store", "close", "reread", "sync", "load"}
Phase(p) == IF job[p].at \in Syncing THEN job[p].then ELSE job[p].at

MapPhases == {"idle", "created", "versioned", "mapping", "unmap"}
Holding == {"post", "append", "poll", "take", "importLock", "import", "restat"}
Taking == {"take", "importLock", "import"}
Posting == {"queueLock", "post", "append"}
Listing == {"publish", "publishWrite", "find", "list", "next", "import"}
Thens == {"idle", "unmap", "queueLock", "take"}
Ats == Syncing \cup MapPhases \cup Holding \cup Posting \cup Listing
       \cup {"publishLock", "findLock", "listLock", "pollLock"}

(* Opaque, so that the provers take a flag for a value like any other.      *)
Flags == BOOLEAN
JobRec == [at : Ats, todo : Seq(Views), ver : Nat, force : Flags, then : Thens, arg : Nat]
FileRec == [exists : BOOLEAN, versioned : BOOLEAN, version : Nat, bytes : [Cells -> Vals]]
Mems == UNION {[S -> Vals] : S \in SUBSET Cells}
ViewRec == [refs : 0 .. 2, mem : Mems, shadow : Mems, seen : Nat]

MapTypes ==
  /\ file \in FileRec /\ view \in [Views -> ViewRec] /\ job \in [Procs -> JobRec]
  /\ opened \subseteq Procs /\ writes \in 0 .. MaxWrites

ViewInv == \A v \in Views : view[v].refs > 0 => view[v].mem \in [ViewCells[v] -> Vals]

(* What a live process is to synchronise, to map or to unmap is its own and *)
(* mapped, so that no other process touches it.                             *)
TodoInv(p) ==
  /\ Alive(p) => \A i \in 1 .. Len(job[p].todo) :
                   ViewProc[job[p].todo[i]] = p /\ view[job[p].todo[i]].refs > 0
  /\ Alive(p) /\ job[p].at \in Syncing => Len(job[p].todo) > 0
  /\ job[p].at \notin Syncing => job[p].todo = << >>
  /\ Phase(p) \in {"mapping", "unmap"} => job[p].arg \in Views /\ ViewProc[job[p].arg] = p
  /\ job[p].at = "mapping" => view[job[p].arg].mem \in [ViewCells[job[p].arg] -> Vals]
  /\ ~Alive(p) => Phase(p) = "idle"

MInv == MapTypes /\ ViewInv /\ \A p \in Procs : TodoInv(p)

(* The bytes of a view are bytes of the mapping.                            *)
LEMMA MemOf ==
  ASSUME NEW S \in SUBSET Cells, NEW m \in [S -> Vals]
  PROVE  m \in Mems
  BY DEF Mems

(* The places of the calls are not those of a synchronisation.              *)
LEMMA PhaseNames ==
  /\ Thens \cap Syncing = {} /\ Thens \subseteq Ats /\ MapPhases \cap Syncing = {}
  /\ Holding \cap Syncing = {} /\ Posting \cap Syncing = {} /\ Listing \cap Syncing = {}
  /\ Writing \subseteq Syncing /\ "sync" \in Syncing /\ "sync" \in Ats
  BY DEF Thens, Syncing, Ats, MapPhases, Holding, Posting, Listing, Writing

(* The views to synchronise, in order.                                      *)
LEMMA BaseOrder ==
  ASSUME NEW vs \in SUBSET Views
  PROVE  /\ InBaseOrder(vs) \in Seq(Views)
         /\ \A i \in 1 .. Len(InBaseOrder(vs)) : InBaseOrder(vs)[i] \in vs
         /\ vs = {} => InBaseOrder(vs) = << >>
         /\ vs # {} => Len(InBaseOrder(vs)) > 0
  <1> DEFINE s == InBaseOrder(vs)
  <1>1. vs \in SUBSET Nat /\ IsFiniteSet(vs)
    BY MappingAssumption, FS_Subset
  <1>2. PICK n \in Nat : n = Cardinality(vs) /\ (n = 0 <=> vs = {})
    BY <1>1, FS_CardinalityType, FS_EmptySet
  <1>3. \E t \in [1 .. n -> vs] : \A i, j \in DOMAIN t : i < j => t[i] < t[j]
    <2>1. PICK t : Sorts(t, vs)
      BY <1>1, SortedExists
    <2> QED
      BY <1>2, <2>1 DEF Sorts
  <1>4. s \in [1 .. n -> vs]
    BY <1>2, <1>3 DEF InBaseOrder
  <1> HIDE DEF s
  <1>5. s \in Seq(Views) /\ Len(s) = n
    BY <1>4, SeqDef
  <1>6. \A i \in 1 .. n : s[i] \in vs
    BY <1>4
  <1>7. vs = {} => s = << >>
    BY <1>2, <1>5, EmptySeq
  <1>8. vs # {} => n > 0
    BY <1>2
  <1> QED
    BY <1>5, <1>6, <1>7, <1>8 DEF s

(* What a process is to do when it begins to synchronise views.             *)
LEMMA SyncThenJob ==
  ASSUME job \in [Procs -> JobRec], NEW p \in Procs, NEW vs, vs \subseteq Views,
         NEW force \in Flags, NEW next \in Thens
  PROVE  /\ SyncThen(p, vs, force, next) \in [Procs -> JobRec]
         /\ \A q \in Procs \ {p} : SyncThen(p, vs, force, next)[q] = job[q]
         /\ SyncThen(p, vs, force, next)[p].at = IF vs = {} THEN next ELSE "sync"
         /\ SyncThen(p, vs, force, next)[p].then = next
         /\ SyncThen(p, vs, force, next)[p].arg = job[p].arg
         /\ SyncThen(p, vs, force, next)[p].todo = InBaseOrder(vs)
  <1> DEFINE j == SyncThen(p, vs, force, next)
             at == IF vs = {} THEN next ELSE "sync"
             todo == InBaseOrder(vs)
  <1>1. at \in Ats
    BY PhaseNames
  <1>2. todo \in Seq(Views)
    BY BaseOrder
  <1>3. j = [job EXCEPT ![p].at = at, ![p].todo = todo, ![p].force = force, ![p].then = next]
    BY DEF SyncThen
  <1> HIDE DEF at, todo, j
  <1>4. /\ j \in [Procs -> JobRec]
        /\ \A q \in Procs \ {p} : j[q] = job[q]
        /\ j[p].at = at /\ j[p].todo = todo /\ j[p].then = next /\ j[p].arg = job[p].arg
    BY <1>1, <1>2, <1>3, ZenonT(40) DEF JobRec
  <1> QED
    BY <1>4 DEF j, at, todo

(* The next view, or what comes after the synchronisation.                  *)
LEMMA NextViewJob ==
  ASSUME job \in [Procs -> JobRec], NEW p \in Procs, Len(job[p].todo) > 0
  PROVE  LET j == NextView(p)
         IN  /\ j \in [Procs -> JobRec]
             /\ \A q \in Procs \ {p} : j[q] = job[q]
             /\ j[p].arg = job[p].arg
             /\ \/ /\ j[p].at = "sync" /\ j[p].then = job[p].then
                   /\ Len(j[p].todo) > 0
                   /\ \A i \in 1 .. Len(j[p].todo) :
                        \E k \in 1 .. Len(job[p].todo) : j[p].todo[i] = job[p].todo[k]
                \/ /\ j[p].at = job[p].then /\ j[p].todo = << >>
                   /\ j[p].then = "idle"
  <1> DEFINE j == NextView(p)
             todo == job[p].todo
             n == Len(todo)
  <1>1. job[p] \in JobRec /\ todo \in Seq(Views) /\ n \in Nat /\ n > 0 /\ job[p].then \in Thens
    BY LenProperties DEF JobRec
  <1>2. CASE n > 1
    <2>0. todo # << >>
      BY <1>2, EmptySeq
    <2>1. PICK rest \in Seq(Views) : rest = Tail(todo)
      <3>1. Tail(todo) \in Seq(Views)
        BY <1>1, <2>0, HeadTailProperties
      <3> QED
        BY <3>1
    <2>2. Len(rest) = n - 1 /\ \A i \in 1 .. n - 1 : rest[i] = todo[i + 1]
      BY <1>1, <2>0, <2>1, HeadTailProperties
    <2>3. j = [job EXCEPT ![p] = [job[p] EXCEPT !.at = "sync", !.todo = rest, !.ver = 0]]
      BY <1>2, <2>1 DEF NextView
    <2> HIDE DEF j
    <2>4. /\ j \in [Procs -> JobRec] /\ \A q \in Procs \ {p} : j[q] = job[q]
          /\ j[p].arg = job[p].arg /\ j[p].at = "sync" /\ j[p].then = job[p].then
          /\ j[p].todo = rest
      BY <1>1, <2>3, PhaseNames DEF JobRec
    <2>5. \A i \in 1 .. n - 1 : i + 1 \in 1 .. n
      BY <1>1
    <2>6. \A i \in 1 .. n - 1 : \E k \in 1 .. n : rest[i] = todo[k]
      BY <2>2, <2>5
    <2>7. Len(rest) > 0
      BY <1>2, <2>2
    <2> QED
      BY <2>2, <2>4, <2>6, <2>7 DEF j
  <1>3. CASE ~(n > 1)
    <2>1. j = [job EXCEPT ![p] = [job[p] EXCEPT !.at = job[p].then, !.todo = << >>, !.ver = 0,
                                                !.force = FALSE, !.then = "idle"]]
      BY <1>3 DEF NextView
    <2>2. << >> \in Seq(Views) /\ "idle" \in Thens /\ job[p].then \in Ats
      BY <1>1, EmptySeq, PhaseNames DEF Thens
    <2> HIDE DEF j
    <2>3. /\ j \in [Procs -> JobRec] /\ \A q \in Procs \ {p} : j[q] = job[q]
          /\ j[p].arg = job[p].arg /\ j[p].at = job[p].then /\ j[p].then = "idle"
          /\ j[p].todo = << >>
      BY <1>1, <2>1, <2>2 DEF JobRec, Flags
    <2> QED
      BY <2>3 DEF j
  <1> QED
    BY <1>2, <1>3

(* What it is to do at its next place.                                      *)
LEMMA GotoJob ==
  ASSUME job \in [Procs -> JobRec], NEW p \in Procs, NEW step \in Ats
  PROVE  LET j == Goto(p, step)
         IN  /\ j \in [Procs -> JobRec]
             /\ \A q \in Procs \ {p} : j[q] = job[q]
             /\ j[p].at = step /\ j[p].then = job[p].then /\ j[p].arg = job[p].arg
             /\ j[p].todo = job[p].todo
  BY DEF Goto, JobRec

(* What a process does with the mapping leaves what others do alone.        *)
MovesIn(p) ==
  \A q \in Procs : Phase(q)' = Phase(q)
                   \/ (q = p /\ Phase(p) \in MapPhases /\ Phase(p)' \in MapPhases)

(* A step of p that moves only p, and leaves the views of others.           *)
LEMMA MapFrame ==
  ASSUME MInv, NEW p \in Procs, MapTypes', ViewInv', UNCHANGED local,
         \A q \in Procs \ {p} : job'[q] = job[q],
         \A v \in Views : ViewProc[v] # p => view'[v] = view[v],
         TodoInv(p)',
         Phase(p)' = Phase(p) \/ (Phase(p) \in MapPhases /\ Phase(p)' \in MapPhases)
  PROVE  MInv' /\ MovesIn(p)
  <1>1. ASSUME NEW q \in Procs \ {p}
        PROVE  TodoInv(q)' /\ Phase(q)' = Phase(q)
    <2>1. /\ job'[q] = job[q] /\ Phase(q)' = Phase(q) /\ (Alive(q)' <=> Alive(q))
      BY DEF Phase, Alive
    <2>2. \A i \in 1 .. Len(job[q].todo) : job[q].todo[i] \in Views
      BY ElementOfSeq DEF MInv, MapTypes, JobRec
    <2>3. TodoInv(q)
      BY DEF MInv
    <2>4. Alive(q) => \A i \in 1 .. Len(job'[q].todo) :
            ViewProc[job'[q].todo[i]] = q /\ view'[job'[q].todo[i]].refs > 0
      BY <2>1, <2>2, <2>3 DEF TodoInv
    <2>5. job[q].at = "mapping" => view'[job[q].arg] = view[job[q].arg]
      <3> SUFFICES ASSUME job[q].at = "mapping" PROVE view'[job[q].arg] = view[job[q].arg]
        OBVIOUS
      <3>1. Phase(q) = "mapping"
        BY DEF Phase, Syncing
      <3> QED
        BY <2>3, <3>1 DEF TodoInv
    <2> QED
      BY <2>1, <2>3, <2>4, <2>5 DEF TodoInv
  <1>2. \A q \in Procs : TodoInv(q)'
    BY <1>1
  <1>3. MInv'
    BY <1>2 DEF MInv
  <1> QED
    BY <1>1, <1>3 DEF MovesIn

(* The view that is being synchronised.                                     *)
LEMMA AtHand ==
  ASSUME MInv, NEW p \in Procs, Alive(p), job[p].at \in Syncing
  PROVE  /\ job[p].todo[1] \in Views /\ ViewProc[job[p].todo[1]] = p
         /\ view[job[p].todo[1]].refs > 0
         /\ view[job[p].todo[1]].mem \in [ViewCells[job[p].todo[1]] -> Vals]
         /\ Len(job[p].todo) > 0 /\ Phase(p) = job[p].then
  <1>1. TodoInv(p) /\ job[p].todo \in Seq(Views)
    BY DEF MInv, MapTypes, JobRec
  <1>2. Len(job[p].todo) > 0 /\ Len(job[p].todo) \in Nat
    BY <1>1, LenProperties DEF TodoInv
  <1>3. 1 \in 1 .. Len(job[p].todo)
    BY <1>2
  <1>4. job[p].todo[1] \in Views
    BY <1>1, <1>3, ElementOfSeq
  <1>5. ViewProc[job[p].todo[1]] = p /\ view[job[p].todo[1]].refs > 0
    BY <1>1, <1>3 DEF TodoInv
  <1> QED
    BY <1>2, <1>4, <1>5 DEF MInv, ViewInv, Phase

(* What is read from the file into a view, and written to it.               *)
LEMMA FileTypes ==
  ASSUME MInv, NEW v \in Views
  PROVE  /\ Shown(v) \in [ViewCells[v] -> Vals] /\ Shown(v) \in Mems
         /\ view[v].mem \in [ViewCells[v] -> Vals] => WriteBytes(v) \in FileRec
  <1>1. ViewCells[v] \in SUBSET Cells
    BY MappingAssumption
  <1>2. file.bytes \in [Cells -> Vals]
    BY DEF MInv, MapTypes, FileRec
  <1>3. Shown(v) \in [ViewCells[v] -> Vals]
    BY <1>1, <1>2 DEF Shown
  <1>4. ASSUME view[v].mem \in [ViewCells[v] -> Vals] PROVE WriteBytes(v) \in FileRec
    <2> DEFINE b == [c \in Cells |-> IF c \in ViewCells[v] THEN view[v].mem[c] ELSE file.bytes[c]]
    <2>1. b \in [Cells -> Vals]
      BY <1>2, <1>4
    <2>2. WriteBytes(v) = [file EXCEPT !.bytes = b]
      BY DEF WriteBytes
    <2> HIDE DEF b
    <2> QED
      BY <2>1, <2>2 DEF MInv, MapTypes, FileRec
  <1> QED
    BY <1>1, <1>3, <1>4, MemOf

(* A step to another place of the same synchronisation.                     *)
LEMMA StaysSyncing ==
  ASSUME MInv, NEW p \in Procs, Alive(p), job[p].at \in Syncing, UNCHANGED <<local, view, opened, writes>>,
         file' \in FileRec, NEW step \in Syncing, NEW n \in Nat,
         job' \in [Procs -> JobRec], \A q \in Procs \ {p} : job'[q] = job[q],
         job'[p].at = step, job'[p].then = job[p].then, job'[p].todo = job[p].todo,
         job'[p].arg = job[p].arg
  PROVE  MInv' /\ MovesIn(p)
  <1>1. MapTypes' /\ ViewInv'
    BY DEF MInv, MapTypes, ViewInv
  <1>2. Phase(p)' = Phase(p)
    BY DEF Phase
  <1>3. job'[p].at # "mapping" /\ (Alive(p)' <=> Alive(p))
    BY DEF Syncing, Alive
  <1>4. TodoInv(p)'
    BY <1>2, <1>3 DEF MInv, TodoInv
  <1>5. \A v \in Views : ViewProc[v] # p => view'[v] = view[v]
    OBVIOUS
  <1>6. UNCHANGED local
    OBVIOUS
  <1> QED
    BY <1>1, <1>2, <1>4, <1>5, <1>6, MapFrame

(* A view is done; the others of p are as they were.                        *)
LEMMA ViewDone ==
  ASSUME MInv, NEW p \in Procs, Alive(p), job[p].at \in Syncing, job' = NextView(p),
         UNCHANGED <<local, file, opened, writes>>,
         view' \in [Views -> ViewRec],
         \A v \in Views : /\ view'[v].refs = view[v].refs
                          /\ ViewProc[v] # p => view'[v] = view[v],
         ViewInv'
  PROVE  MInv' /\ MovesIn(p)
  <1>1. Len(job[p].todo) > 0 /\ Phase(p) = job[p].then
    BY AtHand
  <1>2. /\ job' \in [Procs -> JobRec] /\ \A q \in Procs \ {p} : job'[q] = job[q]
        /\ job'[p].arg = job[p].arg
        /\ \/ /\ job'[p].at = "sync" /\ job'[p].then = job[p].then
              /\ Len(job'[p].todo) > 0
              /\ \A i \in 1 .. Len(job'[p].todo) :
                   \E k \in 1 .. Len(job[p].todo) : job'[p].todo[i] = job[p].todo[k]
           \/ /\ job'[p].at = job[p].then /\ job'[p].todo = << >>
              /\ job'[p].then = "idle"
    BY <1>1, NextViewJob DEF MInv, MapTypes
  <1>3. MapTypes'
    BY <1>2 DEF MInv, MapTypes
  <1>4. job[p].then \in Thens /\ job[p].then \notin Syncing
    BY PhaseNames DEF MInv, MapTypes, JobRec
  <1>5. Phase(p)' = Phase(p)
    BY <1>1, <1>2, <1>4 DEF Phase, Syncing
  <1>6. \A k \in 1 .. Len(job[p].todo) : job[p].todo[k] \in Views
    BY ElementOfSeq DEF MInv, MapTypes, JobRec
  <1>7. \A k \in 1 .. Len(job[p].todo) :
          ViewProc[job[p].todo[k]] = p /\ view'[job[p].todo[k]].refs > 0
    BY <1>6 DEF MInv, TodoInv
  <1>8. \A i \in 1 .. Len(job'[p].todo) :
          ViewProc[job'[p].todo[i]] = p /\ view'[job'[p].todo[i]].refs > 0
    <2>1. CASE job'[p].todo = << >>
      BY <2>1, EmptySeq
    <2>2. CASE job'[p].todo # << >>
      BY <1>2, <1>7, <2>2
    <2> QED
      BY <2>1, <2>2
  <1>9. job'[p].at # "mapping" /\ (Alive(p)' <=> Alive(p))
    BY <1>2, <1>4 DEF Thens, Alive
  <1>10. TodoInv(p)'
    BY <1>2, <1>4, <1>5, <1>8, <1>9 DEF MInv, TodoInv, Syncing
  <1>11. UNCHANGED local /\ \A v \in Views : ViewProc[v] # p => view'[v] = view[v]
    OBVIOUS
  <1> QED
    BY <1>2, <1>3, <1>5, <1>10, <1>11, MapFrame

(* The step is one of a synchronisation.                                    *)
LEMMA SyncStepKeeps ==
  ASSUME MInv, NEW p \in Procs, Alive(p), UNCHANGED brokerVars, SyncStep(p)
  PROVE  MInv' /\ MovesIn(p)
  <1>1. UNCHANGED local /\ job \in [Procs -> JobRec] /\ file \in FileRec
    BY DEF brokerVars, MInv, MapTypes
  <1>2. job[p] \in JobRec /\ job[p].ver \in Nat /\ file.version \in Nat
    BY <1>1 DEF JobRec, FileRec
  <1> DEFINE v == job[p].todo[1]
  <1>3. job[p].at \in Syncing
    BY DEF SyncStep, SyncWrite, BumpVersion, TruncateVersion, StoreVersion, CloseBytes,
           RereadVersion, SyncCheck, SyncRead, At, Syncing
  <1>4. v \in Views /\ ViewProc[v] = p /\ view[v].mem \in [ViewCells[v] -> Vals]
    BY <1>3, AtHand
  <1>5. WriteBytes(v) \in FileRec /\ Shown(v) \in [ViewCells[v] -> Vals] /\ Shown(v) \in Mems
    BY <1>4, FileTypes
  <1>6. view \in [Views -> ViewRec] /\ ViewInv
    BY DEF MInv, MapTypes
  <1> HIDE DEF v
  <1>7. ASSUME NEW step \in Syncing, job' = Goto(p, step), file' \in FileRec,
               UNCHANGED <<view, opened, writes>>
        PROVE  MInv' /\ MovesIn(p)
    <2>1. step \in Ats
      BY DEF Ats
    <2>2. /\ job' \in [Procs -> JobRec] /\ \A q \in Procs \ {p} : job'[q] = job[q]
          /\ job'[p].at = step /\ job'[p].then = job[p].then /\ job'[p].arg = job[p].arg
          /\ job'[p].todo = job[p].todo
      BY <1>1, <1>7, <2>1, GotoJob
    <2> QED
      BY <1>1, <1>3, <1>7, <2>2, StaysSyncing
  <1>8. ASSUME NEW step \in Syncing, NEW n \in Nat,
               job' = [job EXCEPT ![p].at = step, ![p].ver = n],
               UNCHANGED <<file, view, opened, writes>>
        PROVE  MInv' /\ MovesIn(p)
    <2>1. step \in Ats
      BY DEF Ats
    <2>2. /\ job' \in [Procs -> JobRec] /\ \A q \in Procs \ {p} : job'[q] = job[q]
          /\ job'[p].at = step /\ job'[p].then = job[p].then /\ job'[p].arg = job[p].arg
          /\ job'[p].todo = job[p].todo
      BY <1>1, <1>8, <2>1 DEF JobRec
    <2>3. file' \in FileRec
      BY <1>1, <1>8
    <2> QED
      BY <1>1, <1>3, <1>8, <2>2, <2>3, StaysSyncing
  <1>9. ASSUME NEW r \in ViewRec, r.refs = view[v].refs, r.mem \in [ViewCells[v] -> Vals],
               view' = [view EXCEPT ![v] = r], job' = NextView(p),
               UNCHANGED <<file, opened, writes>>
        PROVE  MInv' /\ MovesIn(p)
    <2>1. view' \in [Views -> ViewRec]
      BY <1>6, <1>9
    <2>2. \A w \in Views : /\ view'[w].refs = view[w].refs
                            /\ ViewProc[w] # p => view'[w] = view[w]
      BY <1>4, <1>6, <1>9
    <2>3. ViewInv'
      BY <1>4, <1>6, <1>9 DEF ViewInv
    <2> QED
      BY <1>1, <1>3, <1>9, <2>1, <2>2, <2>3, ViewDone
  <1>10. ASSUME job' = NextView(p), UNCHANGED <<file, view, opened, writes>>
        PROVE  MInv' /\ MovesIn(p)
    <2>1. view' \in [Views -> ViewRec] /\ ViewInv'
      BY <1>6, <1>10 DEF ViewInv
    <2>2. \A w \in Views : /\ view'[w].refs = view[w].refs
                            /\ ViewProc[w] # p => view'[w] = view[w]
      BY <1>10
    <2> QED
      BY <1>1, <1>3, <1>10, <2>1, <2>2, ViewDone
  <1>11. CASE SyncWrite(p)
    BY <1>1, <1>5, <1>7, <1>11 DEF SyncWrite, Syncing, v
  <1>12. CASE BumpVersion(p)
    <2>1. file.version + 1 \in Nat
      BY <1>2
    <2> QED
      BY <1>8, <1>12, <2>1 DEF BumpVersion, Syncing
  <1>13. CASE TruncateVersion(p)
    BY <1>1, <1>7, <1>13 DEF TruncateVersion, Syncing, FileRec
  <1>14. CASE StoreVersion(p)
    <2>1. file' \in FileRec
      BY <1>1, <1>2, <1>14 DEF StoreVersion, FileRec
    <2>2. UNCHANGED <<view, opened, writes>>
      BY <1>14 DEF StoreVersion
    <2>3. CASE BytesFirst
      BY <1>7, <1>14, <2>1, <2>2, <2>3 DEF StoreVersion, Syncing
    <2>4. CASE ~BytesFirst
      BY <1>7, <1>14, <2>1, <2>2, <2>4 DEF StoreVersion, Syncing
    <2> QED
      BY <2>3, <2>4
  <1>15. CASE CloseBytes(p)
    BY <1>5, <1>7, <1>15 DEF CloseBytes, Syncing, v
  <1>16. CASE RereadVersion(p)
    <2> DEFINE r == [view[v] EXCEPT !.shadow = view[v].mem, !.seen = file.version]
    <2>1. view[v] \in ViewRec
      BY <1>4, <1>6
    <2>2. r \in ViewRec /\ r.refs = view[v].refs /\ r.mem \in [ViewCells[v] -> Vals]
      BY <1>2, <1>4, <2>1 DEF ViewRec
    <2>3. view' = [view EXCEPT ![v] = r]
      BY <1>4, <1>6, <1>16 DEF RereadVersion, v
    <2> HIDE DEF r
    <2> QED
      BY <1>9, <1>16, <2>2, <2>3 DEF RereadVersion
  <1>17. CASE SyncCheck(p)
    <2>1. CASE Stale(v)
      BY <1>2, <1>8, <1>17, <2>1 DEF SyncCheck, Syncing, v
    <2>2. CASE ~Stale(v)
      BY <1>10, <1>17, <2>2 DEF SyncCheck, v
    <2> QED
      BY <2>1, <2>2
  <1>18. CASE SyncRead(p)
    <2> DEFINE r == [view[v] EXCEPT !.mem = Shown(v), !.shadow = Shown(v), !.seen = job[p].ver]
    <2>1. view[v] \in ViewRec
      BY <1>4, <1>6
    <2>2. r \in ViewRec /\ r.refs = view[v].refs /\ r.mem \in [ViewCells[v] -> Vals]
      BY <1>2, <1>5, <2>1 DEF ViewRec
    <2>3. view' = [view EXCEPT ![v] = r]
      BY <1>4, <1>6, <1>18 DEF SyncRead, v
    <2> HIDE DEF r
    <2> QED
      BY <1>9, <1>18, <2>2, <2>3 DEF SyncRead
  <1> QED
    BY <1>11, <1>12, <1>13, <1>14, <1>15, <1>16, <1>17, <1>18 DEF SyncStep

(* The step begins or ends a call, or is a whole one.                       *)
LEMMA MapStepKeeps ==
  ASSUME MInv, NEW p \in Procs, Alive(p), UNCHANGED brokerVars, MapStep(p)
  PROVE  MInv' /\ MovesIn(p)
  <1>1. UNCHANGED local /\ job \in [Procs -> JobRec] /\ file \in FileRec
        /\ view \in [Views -> ViewRec] /\ ViewInv /\ opened \subseteq Procs
        /\ writes \in 0 .. MaxWrites /\ TodoInv(p)
    BY DEF brokerVars, MInv, MapTypes
  <1>2. job[p] \in JobRec /\ file.version \in Nat /\ (Alive(p)' <=> Alive(p))
    BY <1>1 DEF JobRec, FileRec, Alive
  <1>3. ASSUME Phase(p) \in MapPhases, job' = [job EXCEPT ![p] = Idle],
               file' \in FileRec, opened' \subseteq Procs, UNCHANGED writes,
               view' \in [Views -> ViewRec], ViewInv',
               \A w \in Views : ViewProc[w] # p => view'[w] = view[w]
        PROVE  MInv' /\ MovesIn(p)
    <2>1. << >> \in Seq(Views) /\ Len(<< >>) = 0
      BY EmptySeq
    <2>2. Idle \in JobRec
      BY <2>1 DEF Idle, JobRec, Ats, MapPhases, Thens, Flags
    <2>3. job' \in [Procs -> JobRec] /\ job'[p] = Idle /\ \A q \in Procs \ {p} : job'[q] = job[q]
      BY <1>1, <1>3, <2>2
    <2>4. MapTypes'
      BY <1>1, <1>3, <2>3 DEF MapTypes
    <2>5. Phase(p)' = "idle" /\ "idle" \in MapPhases
      BY <2>3 DEF Phase, Idle, Syncing, MapPhases
    <2>6. job'[p].at = "idle" /\ job'[p].todo = << >>
      BY <2>3 DEF Idle
    <2>7. TodoInv(p)'
      BY <2>1, <2>5, <2>6 DEF TodoInv, Syncing
    <2> QED
      BY <1>1, <1>3, <2>3, <2>4, <2>5, <2>7, MapFrame
  <1>4. ASSUME job[p].at = "idle", NEW at \in {"created", "versioned", "mapping"}, NEW arg \in Nat,
               job' = [job EXCEPT ![p].at = at, ![p].arg = arg],
               file' \in FileRec, UNCHANGED <<opened, writes>>,
               view' \in [Views -> ViewRec], ViewInv',
               \A w \in Views : ViewProc[w] # p => view'[w] = view[w],
               at = "mapping" => arg \in Views /\ ViewProc[arg] = p
                                 /\ view'[arg].mem \in [ViewCells[arg] -> Vals]
        PROVE  MInv' /\ MovesIn(p)
    <2>1. Len(<< >>) = 0
      BY EmptySeq
    <2>2. at \in Ats /\ at \notin Syncing /\ at \in MapPhases /\ at # "unmap" /\ at # "idle"
      BY DEF Ats, Syncing, MapPhases
    <2>3. job' \in [Procs -> JobRec] /\ job'[p].at = at /\ job'[p].arg = arg
          /\ job'[p].todo = job[p].todo /\ \A q \in Procs \ {p} : job'[q] = job[q]
      BY <1>1, <1>4, <2>2, ZenonT(40) DEF JobRec
    <2>4. MapTypes'
      BY <1>1, <1>4, <2>3 DEF MapTypes
    <2>5. Phase(p)' = at /\ Phase(p) = "idle" /\ job[p].todo = << >> /\ "idle" \in MapPhases
      BY <1>1, <1>4, <2>2, <2>3 DEF Phase, Syncing, TodoInv, MapPhases
    <2>6. TodoInv(p)'
      BY <1>2, <1>4, <2>1, <2>2, <2>3, <2>5 DEF TodoInv
    <2> QED
      BY <1>1, <1>4, <2>2, <2>3, <2>4, <2>5, <2>6, MapFrame
  <1>5. ASSUME job[p].at = "idle", NEW vs \in SUBSET Mapped(p), NEW next \in {"idle", "unmap"},
               job' \in [Procs -> JobRec], \A q \in Procs \ {p} : job'[q] = job[q],
               job'[p].at = (IF vs = {} THEN next ELSE "sync"), job'[p].then = next,
               next = "unmap" => job'[p].arg \in Views /\ ViewProc[job'[p].arg] = p,
               \A i \in 1 .. Len(job'[p].todo) : job'[p].todo[i] \in vs,
               vs = {} => job'[p].todo = << >>,
               vs # {} => Len(job'[p].todo) > 0,
               UNCHANGED <<file, opened, writes>>,
               view' \in [Views -> ViewRec], ViewInv',
               \A w \in Views : view'[w].refs >= view[w].refs,
               \A w \in Views : ViewProc[w] # p => view'[w] = view[w]
        PROVE  MInv' /\ MovesIn(p)
    <2>1. MapTypes'
      BY <1>1, <1>5 DEF MapTypes
    <2>2. Phase(p)' = next /\ Phase(p) = "idle" /\ "idle" \in MapPhases /\ next \in MapPhases
          /\ next \notin Syncing
      BY <1>5 DEF Phase, Syncing, MapPhases
    <2>3. \A w \in vs : w \in Views /\ ViewProc[w] = p /\ view[w].refs > 0
      BY DEF Mapped
    <2>4. \A w \in Views : view[w].refs \in 0 .. 2 /\ view'[w].refs \in 0 .. 2
      BY <1>1, <1>5 DEF ViewRec
    <2>5. \A w \in vs : ViewProc[w] = p /\ view'[w].refs > 0
      BY <1>5, <2>3, <2>4
    <2>6. \A i \in 1 .. Len(job'[p].todo) :
            ViewProc[job'[p].todo[i]] = p /\ view'[job'[p].todo[i]].refs > 0
      BY <1>5, <2>5
    <2>7. job'[p].at \in Syncing <=> vs # {}
      BY <1>5, <2>2 DEF Syncing
    <2>8. job'[p].at # "mapping" /\ next # "mapping"
      BY <1>5
    <2>9. TodoInv(p)'
      BY <1>2, <1>5, <2>2, <2>6, <2>7, <2>8 DEF TodoInv
    <2> QED
      BY <1>1, <1>5, <2>1, <2>2, <2>9, MapFrame
  <1>6. ASSUME job[p].at = "idle", NEW vs \in SUBSET Mapped(p), NEW force \in Flags,
               job' = SyncThen(p, vs, force, "idle"),
               UNCHANGED <<file, opened, writes>>,
               view' \in [Views -> ViewRec], ViewInv',
               \A w \in Views : view'[w].refs >= view[w].refs,
               \A w \in Views : ViewProc[w] # p => view'[w] = view[w]
        PROVE  MInv' /\ MovesIn(p)
    <2>1. vs \in SUBSET Views /\ "idle" \in Thens /\ "idle" \in {"idle", "unmap"}
      BY DEF Mapped, Thens
    <2>2. /\ job' \in [Procs -> JobRec] /\ \A q \in Procs \ {p} : job'[q] = job[q]
          /\ job'[p].at = IF vs = {} THEN "idle" ELSE "sync"
          /\ job'[p].then = "idle"
          /\ \A i \in 1 .. Len(job'[p].todo) : job'[p].todo[i] \in vs
          /\ vs = {} => job'[p].todo = << >>
          /\ vs # {} => Len(job'[p].todo) > 0
      <3> DEFINE j == SyncThen(p, vs, force, "idle")
      <3>1. job \in [Procs -> JobRec] /\ job' = j /\ vs \subseteq Views /\ force \in Flags
        BY <1>1, <1>6, <2>1
      <3>2. /\ j \in [Procs -> JobRec] /\ \A q \in Procs \ {p} : j[q] = job[q]
            /\ j[p].at = IF vs = {} THEN "idle" ELSE "sync"
            /\ j[p].then = "idle" /\ j[p].todo = InBaseOrder(vs)
        BY <2>1, <3>1, SyncThenJob
      <3> HIDE DEF j
      <3> QED
        BY <3>1, <3>2, BaseOrder
    <2> QED
      BY <1>5, <1>6, <2>1, <2>2
  <1>7. \A w \in Views : view[w].refs >= view[w].refs
    BY <1>1 DEF ViewRec
  <1>8. ASSUME NEW v \in Mapped(p), NEW r \in ViewRec, r.refs >= view[v].refs,
               r.mem \in [ViewCells[v] -> Vals], view' = [view EXCEPT ![v] = r]
        PROVE  /\ view' \in [Views -> ViewRec] /\ ViewInv'
               /\ \A w \in Views : view'[w].refs >= view[w].refs
               /\ \A w \in Views : ViewProc[w] # p => view'[w] = view[w]
    <2>1. v \in Views /\ ViewProc[v] = p
      BY DEF Mapped
    <2>2. view'[v] = r /\ \A w \in Views \ {v} : view'[w] = view[w]
      BY <1>1, <1>8, <2>1
    <2>3. view' \in [Views -> ViewRec]
      BY <1>1, <1>8, <2>1
    <2>4. ViewInv'
      BY <1>1, <1>8, <2>1, <2>2 DEF ViewInv
    <2> QED
      BY <1>1, <1>7, <1>8, <2>1, <2>2, <2>3, <2>4
  <1>9. /\ view' = view => view' \in [Views -> ViewRec] /\ ViewInv'
        /\ file' = file => file' \in FileRec
        /\ opened' = opened => opened' \subseteq Procs
    BY <1>1 DEF ViewInv
  <1>10. CASE CreateVersion(p)
    <2>1. Phase(p) \in MapPhases
      BY <1>10 DEF CreateVersion, At, Phase, Syncing, MapPhases
    <2>2. CASE job[p].arg = 0 \/ ~file.versioned
      <3>1. job' = [job EXCEPT ![p].at = "versioned"] /\ UNCHANGED <<view, opened, writes>>
            /\ file' = [file EXCEPT !.version = 0, !.versioned = TRUE] /\ job[p].at = "created"
        BY <1>10, <2>2 DEF CreateVersion, At
      <3>2. file' \in FileRec
        BY <1>1, <3>1 DEF FileRec
      <3>3. job' \in [Procs -> JobRec] /\ job'[p].at = "versioned" /\ job'[p].todo = job[p].todo
            /\ \A q \in Procs \ {p} : job'[q] = job[q]
        BY <1>1, <3>1 DEF JobRec, Ats, MapPhases
      <3>4. MapTypes'
        BY <1>1, <3>1, <3>2, <3>3 DEF MapTypes
      <3>5. Phase(p)' = "versioned" /\ Phase(p)' \in MapPhases /\ job[p].todo = << >>
        BY <1>1, <3>1, <3>3 DEF Phase, MapPhases, Syncing, TodoInv
      <3>6. TodoInv(p)'
        BY <1>1, <1>2, <3>3, <3>5, EmptySeq DEF TodoInv, Syncing
      <3> QED
        BY <1>1, <1>9, <2>1, <3>1, <3>3, <3>4, <3>5, <3>6, MapFrame
    <2>3. CASE ~(job[p].arg = 0 \/ ~file.versioned)
      BY <1>1, <1>3, <1>9, <1>10, <2>1, <2>3 DEF CreateVersion
    <2> QED
      BY <2>2, <2>3
  <1>11. CASE CreateDone(p)
    <2>1. Phase(p) \in MapPhases
      BY <1>11 DEF CreateDone, At, Phase, Syncing, MapPhases
    <2>2. file' \in FileRec
      BY <1>1, <1>11 DEF CreateDone, FileRec
    <2> QED
      BY <1>1, <1>3, <1>9, <1>11, <2>1, <2>2 DEF CreateDone
  <1>12. CASE MapVersion(p)
    <2> DEFINE v == job[p].arg
               r == [view[v] EXCEPT !.seen = file.version, !.refs = 1]
    <2>1. Phase(p) = "mapping" /\ Phase(p) \in MapPhases /\ job[p].at = "mapping"
      BY <1>12 DEF MapVersion, At, Phase, Syncing, MapPhases
    <2>2. v \in Views /\ ViewProc[v] = p /\ view[v].mem \in [ViewCells[v] -> Vals]
      BY <1>1, <2>1 DEF TodoInv
    <2>3. r \in ViewRec /\ r.refs = 1 /\ r.mem = view[v].mem
      <3>1. view[v] \in ViewRec /\ file.version \in Nat /\ 1 \in 0 .. 2
        BY <1>1, <1>2, <2>2
      <3> HIDE DEF v
      <3> QED
        BY <3>1 DEF ViewRec
    <2>4. view' = [view EXCEPT ![v] = r]
      BY <1>1, <1>12, <2>2 DEF MapVersion
    <2> HIDE DEF r, v
    <2>5. view' \in [Views -> ViewRec] /\ \A w \in Views : ViewProc[w] # p => view'[w] = view[w]
      BY <1>1, <2>2, <2>3, <2>4
    <2>6. ViewInv'
      BY <1>1, <2>2, <2>3, <2>4 DEF ViewInv
    <2>7. UNCHANGED <<file, opened, writes>> /\ job' = [job EXCEPT ![p] = Idle]
      BY <1>12 DEF MapVersion
    <2> QED
      BY <1>1, <1>3, <1>9, <2>1, <2>5, <2>6, <2>7
  <1>13. CASE UnmapDone(p)
    <2> DEFINE v == job[p].arg
               r == IF view[v].refs > 1 THEN [view[v] EXCEPT !.refs = view[v].refs - 1]
                    ELSE Unmapped
    <2>1. Phase(p) = "unmap" /\ Phase(p) \in MapPhases
      BY <1>13 DEF UnmapDone, At, Phase, Syncing, MapPhases
    <2>2. v \in Views /\ ViewProc[v] = p /\ view[v] \in ViewRec
      BY <1>1, <2>1 DEF TodoInv
    <2>3. r \in ViewRec /\ (r.refs > 0 => r.mem = view[v].mem /\ view[v].refs > 0)
      <3>1. CASE view[v].refs > 1
        BY <2>2, <3>1 DEF ViewRec
      <3>2. CASE ~(view[v].refs > 1)
        <4>1. NoBytes \in [{} -> Vals] /\ {} \in SUBSET Cells
          BY DEF NoBytes
        <4>2. NoBytes \in Mems
          BY <4>1, MemOf
        <4>3. r = Unmapped
          BY <3>2
        <4> QED
          BY <4>2, <4>3 DEF Unmapped, ViewRec
      <3> QED
        BY <3>1, <3>2
    <2>4. view' = [view EXCEPT ![v] = r]
      BY <1>1, <1>13, <2>2 DEF UnmapDone
    <2> HIDE DEF r, v
    <2>5. view' \in [Views -> ViewRec] /\ \A w \in Views : ViewProc[w] # p => view'[w] = view[w]
      BY <1>1, <2>2, <2>3, <2>4
    <2>6. ViewInv'
      BY <1>1, <2>2, <2>3, <2>4 DEF ViewInv
    <2>7. UNCHANGED <<file, opened, writes>> /\ job' = [job EXCEPT ![p] = Idle]
      BY <1>13 DEF UnmapDone
    <2> QED
      BY <1>1, <1>3, <1>9, <2>1, <2>5, <2>6, <2>7
  <1>14. CASE CreateFileMapping(p)
    <2> DEFINE arg == IF file.exists THEN 1 ELSE 0
    <2>1. arg \in Nat /\ "created" \in {"created", "versioned", "mapping"}
      OBVIOUS
    <2>2. job' = [job EXCEPT ![p].at = "created", ![p].arg = arg] /\ job[p].at = "idle"
          /\ UNCHANGED <<view, opened, writes>>
      BY <1>14 DEF CreateFileMapping, At
    <2>3. file' \in FileRec
      BY <1>1, <1>14 DEF CreateFileMapping, FileRec
    <2> HIDE DEF arg
    <2> QED
      BY <1>4, <1>9, <2>1, <2>2, <2>3
  <1>15. CASE CloseMapping(p)
    <2>1. UNCHANGED <<file, view, job, writes>> /\ opened' \subseteq Procs
      BY <1>1, <1>15 DEF CloseMapping
    <2>2. MapTypes'
      BY <1>1, <2>1 DEF MapTypes
    <2>3. TodoInv(p)'
      BY <1>1, <1>2, <2>1 DEF TodoInv, Phase
    <2>4. Phase(p)' = Phase(p)
      BY <2>1 DEF Phase
    <2> QED
      BY <1>1, <1>9, <2>1, <2>2, <2>3, <2>4, MapFrame
  <1>16. CASE SyncNamedMappedViews(p)
    BY <1>6, <1>7, <1>9, <1>16 DEF SyncNamedMappedViews, At, Flags
  <1>17. ASSUME NEW v \in Views, MapAgain(p, v) PROVE MInv' /\ MovesIn(p)
    <2>1. v \in Mapped(p) /\ view[v].refs \in 1 .. 1 /\ view[v].mem \in [ViewCells[v] -> Vals]
      BY <1>1, <1>17 DEF MapAgain, Mapped, ViewInv, ViewRec
    <2> DEFINE r == [view[v] EXCEPT !.refs = view[v].refs + 1]
    <2>0. v \in Views /\ view[v] \in ViewRec
      BY <1>1
    <2>2. view' = [view EXCEPT ![v] = r]
      BY <1>17 DEF MapAgain
    <2>3. r \in ViewRec /\ r.refs >= view[v].refs /\ r.mem = view[v].mem
      BY <2>0, <2>1 DEF ViewRec
    <2> HIDE DEF r
    <2>4. /\ view' \in [Views -> ViewRec] /\ ViewInv'
          /\ \A w \in Views : view'[w].refs >= view[w].refs
          /\ \A w \in Views : ViewProc[w] # p => view'[w] = view[w]
      BY <1>8, <2>1, <2>2, <2>3
    <2>5. {v} \in SUBSET Mapped(p) /\ FALSE \in Flags
      BY <2>1 DEF Flags
    <2>6. job[p].at = "idle" /\ job' = SyncThen(p, {v}, FALSE, "idle")
          /\ UNCHANGED <<file, opened, writes>>
      BY <1>17 DEF MapAgain, At
    <2> QED
      BY <1>6, <2>4, <2>5, <2>6
  <1>18. ASSUME NEW v \in Views, MapViewOfFile(p, v) PROVE MInv' /\ MovesIn(p)
    <2> DEFINE r == [view[v] EXCEPT !.mem = Shown(v), !.shadow = Shown(v)]
    <2>1. Shown(v) \in [ViewCells[v] -> Vals] /\ Shown(v) \in Mems /\ v \in Nat
      BY MappingAssumption, FileTypes
    <2>2. r \in ViewRec /\ r.refs = 0 /\ r.mem = Shown(v)
      BY <1>1, <1>18, <2>1 DEF MapViewOfFile, ViewRec
    <2>3. view' = [view EXCEPT ![v] = r]
      BY <1>1, <1>18 DEF MapViewOfFile
    <2>4. ViewProc[v] = p /\ job[p].at = "idle" /\ UNCHANGED <<file, opened, writes>>
          /\ job' = [job EXCEPT ![p].at = "mapping", ![p].arg = v]
      BY <1>18 DEF MapViewOfFile, At
    <2> HIDE DEF r
    <2>5. view' \in [Views -> ViewRec] /\ \A w \in Views : ViewProc[w] # p => view'[w] = view[w]
      BY <1>1, <2>2, <2>3, <2>4
    <2>6. ViewInv' /\ view'[v].mem \in [ViewCells[v] -> Vals]
      BY <1>1, <2>1, <2>2, <2>3 DEF ViewInv
    <2>7. "mapping" \in {"created", "versioned", "mapping"}
      OBVIOUS
    <2> QED
      BY <1>4, <1>9, <2>1, <2>4, <2>5, <2>6, <2>7
  <1>19. ASSUME NEW v \in Views, UnmapViewOfFile(p, v) PROVE MInv' /\ MovesIn(p)
    <2> DEFINE no == FALSE
               vs == {v}
               j == SyncThen(p, vs, no, "unmap")
    <2>1. vs \in SUBSET Views /\ {v} \in SUBSET Mapped(p) /\ {v} \in SUBSET Views /\ no \in Flags
          /\ "unmap" \in Thens /\ "unmap" \in {"idle", "unmap"} /\ {v} # {} /\ v \in Nat
          /\ ViewProc[v] = p
      BY <1>19, MappingAssumption DEF UnmapViewOfFile, Thens, Mapped, Flags
    <2>2. /\ j \in [Procs -> JobRec] /\ \A q \in Procs \ {p} : j[q] = job[q]
          /\ j[p].at = "sync" /\ j[p].then = "unmap"
          /\ \A i \in 1 .. Len(j[p].todo) : j[p].todo[i] \in {v}
          /\ Len(j[p].todo) > 0
      <3>1. job \in [Procs -> JobRec] /\ vs \subseteq Views /\ no \in Flags /\ "unmap" \in Thens
        BY <1>1, <2>1
      <3> HIDE DEF no, vs
      <3>2. /\ j \in [Procs -> JobRec] /\ \A q \in Procs \ {p} : j[q] = job[q]
            /\ j[p].at = IF vs = {} THEN "unmap" ELSE "sync"
            /\ j[p].then = "unmap" /\ j[p].todo = InBaseOrder(vs)
        BY <3>1, SyncThenJob, SMTT(20)
      <3> HIDE DEF j
      <3> QED
        BY <2>1, <3>2, BaseOrder DEF vs
    <2>3. job' = [j EXCEPT ![p].arg = v] /\ job[p].at = "idle" /\ UNCHANGED <<file, view, opened, writes>>
      BY <1>19 DEF UnmapViewOfFile, At
    <2> HIDE DEF j
    <2>4. /\ job' \in [Procs -> JobRec] /\ \A q \in Procs \ {p} : job'[q] = job[q]
          /\ job'[p].at = "sync" /\ job'[p].then = "unmap" /\ job'[p].arg = v
          /\ job'[p].todo = j[p].todo
      BY <2>1, <2>2, <2>3, ZenonT(40) DEF JobRec
    <2>5. \A i \in 1 .. Len(job'[p].todo) : job'[p].todo[i] \in {v}
      BY <2>2, <2>4
    <2>6. Len(job'[p].todo) > 0
      BY <2>2, <2>4
    <2>7. job'[p].at = IF {v} = {} THEN "unmap" ELSE "sync"
      BY <2>1, <2>4
    <2>8. /\ view' \in [Views -> ViewRec] /\ ViewInv'
          /\ \A w \in Views : view'[w].refs >= view[w].refs
          /\ \A w \in Views : ViewProc[w] # p => view'[w] = view[w]
      BY <1>7, <1>9, <2>3
    <2> QED
      BY <1>5, <2>1, <2>3, <2>4, <2>5, <2>6, <2>7, <2>8
  <1>20. ASSUME NEW v \in Views, FlushViewOfFile(p, v) PROVE MInv' /\ MovesIn(p)
    BY <1>6, <1>7, <1>9, <1>20 DEF FlushViewOfFile, At, Flags
  <1>21. ASSUME NEW v \in Views, NEW c \in Cells, GuestWrite(p, v, c)
         PROVE  MInv' /\ MovesIn(p)
    <2> DEFINE m == [view[v].mem EXCEPT ![c] = writes + 1]
    <2>1. v \in Mapped(p) /\ view[v].refs \in 1 .. 2 /\ view[v].mem \in [ViewCells[v] -> Vals]
      BY <1>1, <1>21 DEF GuestWrite, Mapped, ViewInv, ViewRec
    <2>2. writes + 1 \in 0 .. MaxWrites /\ writes + 1 \in Vals
      BY <1>1, <1>21, MappingAssumption DEF GuestWrite, Vals
    <2>3. m \in [ViewCells[v] -> Vals]
      BY <2>1, <2>2
    <2> DEFINE r == [view[v] EXCEPT !.mem = m]
    <2>4. view' = [view EXCEPT ![v] = r]
      BY <1>21 DEF GuestWrite
    <2>0. view[v] \in ViewRec /\ m \in Mems
      BY <1>1, <2>3, MappingAssumption, MemOf
    <2> HIDE DEF m
    <2>10. r \in ViewRec /\ r.refs >= view[v].refs /\ r.mem = m
      BY <2>0, <2>1 DEF ViewRec
    <2> HIDE DEF r
    <2>5. /\ view' \in [Views -> ViewRec] /\ ViewInv'
          /\ \A w \in Views : view'[w].refs >= view[w].refs
          /\ \A w \in Views : ViewProc[w] # p => view'[w] = view[w]
      BY <1>8, <2>1, <2>3, <2>4, <2>10
    <2>6. UNCHANGED <<file, job, opened>> /\ writes' \in 0 .. MaxWrites /\ job[p].at = "idle"
      BY <1>21, <2>2 DEF GuestWrite, At
    <2>7. MapTypes'
      BY <1>1, <2>5, <2>6 DEF MapTypes
    <2>8. Phase(p)' = Phase(p) /\ Phase(p) = "idle" /\ job[p].todo = << >>
      BY <1>1, <2>6 DEF Phase, Syncing, TodoInv
    <2>9. TodoInv(p)'
      BY <1>2, <2>6, <2>8, EmptySeq DEF TodoInv, Syncing
    <2> QED
      BY <1>1, <2>5, <2>6, <2>7, <2>8, <2>9, MapFrame
  <1> QED
    BY <1>10, <1>11, <1>12, <1>13, <1>14, <1>15, <1>16, <1>17, <1>18, <1>19, <1>20, <1>21
    DEF MapStep

-----------------------------------------------------------------------------
(* Messages in a list: numbered upwards, up to n, in it at all, for p and   *)
(* later than what p took, none for p.                                      *)
Ordered(q) == \A i, j \in 1 .. Len(q) : i < j => q[i].id < q[j].id
Below(q, n) == \A i \in 1 .. Len(q) : q[i].id <= n
Has(q, m) == \E i \in 1 .. Len(q) : q[i] = m
Later(q, p, taken) ==
  \A i \in 1 .. Len(q), j \in 1 .. Len(taken) : q[i].to = p => taken[j].id < q[i].id
NoneFor(q, p) == \A i \in 1 .. Len(q) : q[i].to # p

Data == [Cells -> Vals]
Message == {m \in [id : Nat, from : Procs, to : Procs, copydata : Flags, sent : Data] :
              m.from # m.to}
Delivery == [id : Nat, from : Procs, sent : Data, got : Data, torn : Flags]
Seens == Int \X Nat
Kinds == {"none", "post", "copydata", "broadcast"}
CallRec == [copy : Seq(Message), seen : Seens, targets : SUBSET Procs,
            to : Procs \cup {NoProc}, kind : Kinds, changed : Flags, window : Flags]
LocalRec == [alive : Flags, window : Flags, call : CallRec, imported : SUBSET Procs]
HistoryRec == [started : Nat, lastId : Nat, gaveUp : Flags, windows : Nat, dropped : SUBSET Nat]

FileType == [messages : Seq(Message), stamp : Nat, sizes : SUBSET Nat, alike : Flags]

BrokerTypes ==
  /\ queue \in FileType /\ Len(queue.messages) \in queue.sizes /\ stat \in [Procs -> Seens]
  /\ lock \in [Locks -> Procs \cup {NoProc}] /\ registry \subseteq Procs
  /\ local \in [Procs -> LocalRec] /\ inbox \in [Procs -> Seq(Delivery)]
  /\ history \in HistoryRec /\ posted \subseteq 1 .. history.lastId

(* A mutex is held only where its owner will release it; nobody addresses,  *)
(* imports or lists himself.                                                *)
Locked(p) ==
  /\ lock["queue"] = p => Phase(p) \in Holding
  /\ lock["registry"] = p =>
       (Phase(p) \in Listing \/ (Phase(p) \in Posting /\ InCall(p).kind = "broadcast"))
  /\ InCall(p).to # p /\ p \notin local[p].imported
  /\ Phase(p) = "next" => InCall(p).kind = "broadcast"
  /\ Phase(p) \in Posting => InCall(p).to \in Procs
  /\ Phase(p) \in {"importLock", "import"} => ~NoneFor(InCall(p).copy, p)
  /\ Phase(p) \in Posting \cup {"next"} /\ InCall(p).kind = "broadcast" =>
       p \notin InCall(p).targets

Handled(id) == InBox(id) \/ id \in history.dropped

(* What a poll holds: p's messages are still to come, and every message of  *)
(* the file is in the copy or was dealt with.                               *)
Copied(p) ==
  /\ Ordered(InCall(p).copy) /\ Later(InCall(p).copy, p, inbox[p])
  /\ \A i \in 1 .. Len(InCall(p).copy) : Has(queue.messages, InCall(p).copy[i])
  /\ \A i \in 1 .. Len(queue.messages) :
       Has(InCall(p).copy, queue.messages[i]) \/ Handled(queue.messages[i].id)
  /\ ~InCall(p).changed => InCall(p).copy = queue.messages

(* The file f has had the stamp and size x, or they are not to come.        *)
Past(f, x) == x[1] < f.stamp \/ (x[1] = f.stamp /\ x[2] \in f.sizes)

Stamped(p) ==
  /\ Past(queue, stat[p]) /\ Past(queue, InCall(p).seen)
  /\ Phase(p) = "restat" => NoneFor(queue.messages, p)
  /\ Alive(p) /\ stat[p] = FileStat /\ Phase(p) # "restat" => NoneFor(queue.messages, p)

(* The queue as p knows it, as long as no wait for a mutex gave up.         *)
Own(p) ==
  /\ Phase(p) \in Holding => lock["queue"] = p
  /\ Phase(p) = "append" => InCall(p).copy = queue.messages
  /\ Phase(p) \in Taking => Copied(p)
  /\ Phase(p) \in {"pollLock", "poll"} => ~InCall(p).changed
  /\ Alive(p) /\ Phase(p) \notin Taking => Later(queue.messages, p, inbox[p])
  /\ queue.alike \/ Stamped(p)

FileInv ==
  /\ Ordered(queue.messages) /\ Below(queue.messages, history.lastId)
  /\ \A p \in Procs : Ordered(inbox[p]) /\ Below(inbox[p], history.lastId)
  /\ \A id \in posted : InFile(id) \/ Handled(id)

QueueInv == FileInv /\ \A p \in Procs : Own(p)

BInv ==
  /\ MInv /\ BrokerTypes /\ \A p \in Procs : Locked(p)
  /\ history.gaveUp \/ QueueInv

-----------------------------------------------------------------------------
(* A message with a new number at the end of a list.                        *)
LEMMA Appended ==
  ASSUME NEW T, NEW q \in Seq(T), NEW m \in T, Ordered(q), NEW n \in Nat, Below(q, n),
         \A x \in T : x.id \in Nat, \A i \in 1 .. Len(q) : q[i].id < m.id, m.id <= n
  PROVE  /\ Append(q, m) \in Seq(T) /\ Ordered(Append(q, m)) /\ Below(Append(q, m), n)
         /\ Len(Append(q, m)) = Len(q) + 1 /\ Append(q, m)[Len(q) + 1] = m
         /\ \A i \in 1 .. Len(q) : Append(q, m)[i] = q[i]
  <1> DEFINE r == Append(q, m)
             k == Len(q)
  <1>1. k \in Nat /\ r \in Seq(T) /\ Len(r) = k + 1 /\ r[k + 1] = m
        /\ \A i \in 1 .. k : r[i] = q[i] /\ q[i] \in T /\ q[i].id \in Nat
    BY AppendProperties, LenProperties, ElementOfSeq
  <1> HIDE DEF r
  <1>2. \A i \in 1 .. k : r[i].id < m.id /\ r[i].id <= n
    BY <1>1 DEF Below
  <1>3. \A i \in 1 .. k + 1 : i \in 1 .. k \/ i = k + 1
    BY <1>1
  <1>4. Below(r, n)
    BY <1>1, <1>2, <1>3 DEF Below
  <1>5. ASSUME NEW i \in 1 .. k + 1, NEW j \in 1 .. k + 1, i < j PROVE r[i].id < r[j].id
    <2>1. i \in 1 .. k
      BY <1>1, <1>5
    <2>2. CASE j \in 1 .. k
      BY <1>1, <1>5, <2>1, <2>2 DEF Ordered
    <2>3. CASE j = k + 1
      BY <1>1, <1>2, <2>1, <2>3
    <2> QED
      BY <1>3, <2>2, <2>3
  <1>6. Ordered(r)
    BY <1>1, <1>5 DEF Ordered
  <1> QED
    BY <1>1, <1>4, <1>6 DEF r

(* A message taken out of a list.                                           *)
LEMMA Removed ==
  ASSUME NEW q \in Seq(Message), Ordered(q), NEW f \in 1 .. Len(q)
  PROVE  /\ RemoveAt(q, f) \in Seq(Message) /\ Ordered(RemoveAt(q, f))
         /\ \A i \in 1 .. Len(RemoveAt(q, f)) :
              \E k \in 1 .. Len(q) \ {f} : RemoveAt(q, f)[i] = q[k]
         /\ \A k \in 1 .. Len(q) \ {f} : Has(RemoveAt(q, f), q[k])
  <1> DEFINE r == RemoveAt(q, f)
             n == Len(q)
  <1>1. /\ n \in Nat /\ f \in 1 .. n /\ r \in Seq(Message) /\ Len(r) = n - 1
        /\ \A j \in 1 .. n - 1 : r[j] = IF j < f THEN q[j] ELSE q[j + 1]
    BY RemoveAtSeq, LenProperties
  <1>2. \A i, j \in 1 .. n : i < j => q[i].id < q[j].id
    BY DEF Ordered
  <1> HIDE DEF r, n
  <1>3. ASSUME NEW i \in 1 .. n - 1
        PROVE  \E k \in 1 .. n \ {f} : r[i] = q[k]
    <2>1. CASE i < f
      BY <1>1, <2>1
    <2>2. CASE ~(i < f)
      <3>1. i + 1 \in 1 .. n \ {f}
        BY <1>1, <2>2
      <3> QED
        BY <1>1, <2>2, <3>1
    <2> QED
      BY <2>1, <2>2
  <1>4. ASSUME NEW k \in 1 .. n \ {f} PROVE Has(r, q[k])
    <2>1. CASE k < f
      <3>1. k \in 1 .. n - 1
        BY <1>1, <2>1
      <3> QED
        BY <1>1, <2>1, <3>1 DEF Has
    <2>2. CASE ~(k < f)
      <3>1. k - 1 \in 1 .. n - 1 /\ ~(k - 1 < f) /\ (k - 1) + 1 = k
        BY <1>1, <2>2
      <3> QED
        BY <1>1, <3>1 DEF Has
    <2> QED
      BY <2>1, <2>2
  <1>5. ASSUME NEW i \in 1 .. n - 1, NEW j \in 1 .. n - 1, i < j PROVE r[i].id < r[j].id
    <2>1. i \in 1 .. n /\ j \in 1 .. n /\ i + 1 \in 1 .. n /\ j + 1 \in 1 .. n /\ i < j + 1 /\ i + 1 < j + 1
      BY <1>1, <1>5
    <2>2. CASE i < f /\ j < f
      BY <1>1, <1>2, <1>5, <2>1, <2>2
    <2>3. CASE i < f /\ ~(j < f)
      BY <1>1, <1>2, <2>1, <2>3
    <2>4. CASE ~(i < f)
      <3>1. ~(j < f)
        BY <1>1, <1>5, <2>4
      <3> QED
        BY <1>1, <1>2, <2>1, <2>4, <3>1
    <2> QED
      BY <2>2, <2>3, <2>4
  <1>6. Ordered(r)
    BY <1>1, <1>5 DEF Ordered
  <1> QED
    BY <1>1, <1>3, <1>4, <1>6 DEF r, n

-----------------------------------------------------------------------------
(* A step of the broker leaves the mapping alone and moves p only.          *)
Moves(p, step) ==
  /\ Phase(p)' = step /\ \A q \in Procs \ {p} : Phase(q)' = Phase(q)

(* To a place that is not a synchronisation.                                *)
LEMMA BrokerGoto ==
  ASSUME MInv, NEW p \in Procs, Alive(p), job[p].at \notin Syncing,
         UNCHANGED <<file, view, opened, writes>>,
         NEW step \in Ats \ (Syncing \cup {"mapping", "unmap"}), job' = Goto(p, step),
         \A q \in Procs : local'[q].alive = local[q].alive
  PROVE  MInv' /\ Moves(p, step) /\ \A q \in Procs \ {p} : job'[q] = job[q]
  <1>1. /\ job \in [Procs -> JobRec] /\ TodoInv(p)
    BY DEF MInv, MapTypes
  <1>2. /\ job' \in [Procs -> JobRec] /\ \A q \in Procs \ {p} : job'[q] = job[q]
        /\ job'[p].at = step /\ job'[p].todo = job[p].todo
    BY <1>1, GotoJob
  <1>3. Phase(p)' = step /\ \A q \in Procs \ {p} : Phase(q)' = Phase(q)
    BY <1>2 DEF Phase
  <1>4. job[p].todo = << >> /\ Len(<< >>) = 0
    BY <1>1, EmptySeq DEF TodoInv
  <1>5. \A q \in Procs : Alive(q)' <=> Alive(q)
    BY DEF Alive
  <1>6. TodoInv(p)'
    BY <1>2, <1>3, <1>4, <1>5 DEF TodoInv, Syncing
  <1>7. ASSUME NEW q \in Procs \ {p} PROVE TodoInv(q)'
    <2>1. TodoInv(q) /\ job'[q] = job[q] /\ Phase(q)' = Phase(q) /\ (Alive(q)' <=> Alive(q))
      BY <1>2, <1>3, <1>5 DEF MInv
    <2> QED
      BY <2>1 DEF TodoInv
  <1>8. MapTypes' /\ ViewInv'
    BY <1>2 DEF MInv, MapTypes, ViewInv
  <1>9. \A q \in Procs : TodoInv(q)'
    BY <1>6, <1>7
  <1> QED
    BY <1>2, <1>3, <1>8, <1>9 DEF MInv, Moves

SyncMapped(p, next) == SyncThen(p, Mapped(p), FALSE, next)

(* SyncThenJob, for all views of a process.                                 *)
LEMMA SyncMappedJob ==
  ASSUME job \in [Procs -> JobRec], NEW p \in Procs, NEW next \in Thens
  PROVE  /\ SyncMapped(p, next) \in [Procs -> JobRec]
         /\ \A q \in Procs \ {p} : SyncMapped(p, next)[q] = job[q]
         /\ SyncMapped(p, next)[p].at = IF Mapped(p) = {} THEN next ELSE "sync"
         /\ SyncMapped(p, next)[p].then = next
         /\ SyncMapped(p, next)[p].todo = InBaseOrder(Mapped(p))
  <1> DEFINE no == FALSE
             j == SyncThen(p, Mapped(p), no, next)
  <1>1. Mapped(p) \subseteq Views /\ no \in Flags
    BY DEF Mapped, Flags
  <1> HIDE DEF no
  <1>2. /\ j \in [Procs -> JobRec] /\ \A q \in Procs \ {p} : j[q] = job[q]
        /\ j[p].at = IF Mapped(p) = {} THEN next ELSE "sync"
        /\ j[p].then = next /\ j[p].todo = InBaseOrder(Mapped(p))
    BY <1>1, SyncThenJob
  <1> QED
    BY <1>2 DEF no, SyncMapped

(* The views are synchronised on the way.                                   *)
LEMMA BrokerSync ==
  ASSUME MInv, NEW p \in Procs, Alive(p), job[p].at \notin Syncing,
         UNCHANGED <<file, view, opened, writes>>,
         NEW step \in {"queueLock", "take"}, job' = SyncThen(p, Mapped(p), FALSE, step),
         \A q \in Procs : local'[q].alive = local[q].alive
  PROVE  MInv' /\ Moves(p, step) /\ \A q \in Procs \ {p} : job'[q] = job[q]
  <1> DEFINE vs == Mapped(p)
             j == SyncMapped(p, step)
  <1>1. /\ job \in [Procs -> JobRec] /\ TodoInv(p) /\ vs \subseteq Views
        /\ step \in Thens /\ step \notin Syncing /\ step \notin {"mapping", "unmap"}
    BY DEF MInv, MapTypes, Mapped, Flags, Thens, Syncing
  <1>2. \A v \in vs : ViewProc[v] = p /\ view'[v].refs > 0
    BY DEF Mapped
  <1>3. job' = j
    BY DEF SyncMapped
  <1>4. /\ j \in [Procs -> JobRec] /\ \A q \in Procs \ {p} : j[q] = job[q]
        /\ j[p].at = IF vs = {} THEN step ELSE "sync"
        /\ j[p].then = step /\ j[p].todo = InBaseOrder(vs)
    BY <1>1, SyncMappedJob
  <1> HIDE DEF vs
  <1> HIDE DEF j
  <1>5. /\ \A i \in 1 .. Len(j[p].todo) : j[p].todo[i] \in vs
        /\ vs = {} => j[p].todo = << >>
        /\ vs # {} => Len(j[p].todo) > 0
    BY <1>1, <1>4, BaseOrder
  <1>6. Phase(p)' = step /\ \A q \in Procs \ {p} : Phase(q)' = Phase(q)
    BY <1>1, <1>3, <1>4 DEF Phase, Syncing
  <1>7. job'[p].at \in Syncing <=> vs # {}
    BY <1>1, <1>3, <1>4 DEF Syncing
  <1>8. \A q \in Procs : Alive(q)' <=> Alive(q)
    BY DEF Alive
  <1>9. TodoInv(p)'
    <2>1. \A i \in 1 .. Len(job'[p].todo) :
            ViewProc[job'[p].todo[i]] = p /\ view'[job'[p].todo[i]].refs > 0
      BY <1>2, <1>3, <1>5
    <2>2. job'[p].at # "mapping"
      BY <1>1, <1>3, <1>4
    <2> QED
      BY <1>1, <1>3, <1>5, <1>6, <1>7, <1>8, <2>1, <2>2 DEF TodoInv
  <1>10. ASSUME NEW q \in Procs \ {p} PROVE TodoInv(q)'
    <2>1. TodoInv(q) /\ job'[q] = job[q] /\ Phase(q)' = Phase(q) /\ (Alive(q)' <=> Alive(q))
      BY <1>3, <1>4, <1>6, <1>8 DEF MInv
    <2> QED
      BY <2>1 DEF TodoInv
  <1>11. MapTypes' /\ ViewInv'
    BY <1>3, <1>4 DEF MInv, MapTypes, ViewInv
  <1>12. \A q \in Procs : TodoInv(q)'
    BY <1>9, <1>10
  <1> QED
    BY <1>3, <1>4, <1>6, <1>11, <1>12 DEF MInv, Moves

-----------------------------------------------------------------------------
(* What a process knows does not change under steps that leave the file and *)
(* all that is its own alone.                                               *)
LEMMA OwnKept ==
  ASSUME BrokerTypes, NEW q \in Procs, Own(q), UNCHANGED queue, local'[q] = local[q],
         Phase(q)' = Phase(q), inbox'[q] = inbox[q], stat'[q] = stat[q],
         lock["queue"] = q => lock'["queue"] = q,
         \A id \in Nat : Handled(id) => Handled(id)'
  PROVE  Own(q)'
  <1>1. InCall(q)' = InCall(q) /\ (Alive(q)' <=> Alive(q)) /\ FileStat' = FileStat
    BY DEF InCall, Alive, FileStat
  <1>2. \A i \in 1 .. Len(queue.messages) : queue.messages[i].id \in Nat
    BY ElementOfSeq DEF BrokerTypes, FileType, Message
  <1>3. Copied(q) => Copied(q)'
    BY <1>1, <1>2 DEF Copied
  <1>4. Stamped(q) => Stamped(q)'
    BY <1>1 DEF Stamped
  <1> QED
    BY <1>1, <1>3, <1>4 DEF Own

(* Likewise for the mutexes.                                                *)
LEMMA LockedKept ==
  ASSUME NEW q \in Procs, Locked(q), local'[q] = local[q], Phase(q)' = Phase(q),
         \A l \in Locks : lock'[l] = q => lock[l] = q
  PROVE  Locked(q)'
  <1>1. InCall(q)' = InCall(q) /\ "queue" \in Locks /\ "registry" \in Locks
    BY DEF InCall, Locks
  <1> QED
    BY <1>1 DEF Locked

(* A step of p that leaves the file alone.                                  *)
LEMMA OthersKeep ==
  ASSUME BInv, NEW p \in Procs, MInv', BrokerTypes', Locked(p)', UNCHANGED <<queue, posted>>,
         history'.lastId = history.lastId, history.dropped \subseteq history'.dropped,
         history'.gaveUp = history.gaveUp,
         \A q \in Procs \ {p} : local'[q] = local[q] /\ Phase(q)' = Phase(q)
                                /\ inbox'[q] = inbox[q] /\ stat'[q] = stat[q],
         \A l \in Locks, q \in Procs \ {p} : lock'[l] = q <=> lock[l] = q,
         ~history.gaveUp => /\ Own(p)' /\ Ordered(inbox'[p]) /\ Below(inbox'[p], history.lastId)
                            /\ \A id \in Nat : Handled(id) => Handled(id)'
  PROVE  BInv'
  <1>1. \A q \in Procs \ {p} : Locked(q)'
    BY LockedKept DEF BInv
  <1>2. CASE history.gaveUp
    BY <1>1, <1>2 DEF BInv
  <1>3. CASE ~history.gaveUp
    <2>1. QueueInv /\ BrokerTypes /\ "queue" \in Locks
      BY <1>3 DEF BInv, Locks
    <2>2. \A q \in Procs \ {p} : Own(q)'
      BY <1>3, <2>1, OwnKept DEF QueueInv
    <2>3. FileInv'
      <3>1. \A q \in Procs : Ordered(inbox'[q]) /\ Below(inbox'[q], history'.lastId)
        BY <1>3, <2>1 DEF QueueInv, FileInv
      <3>2. \A id \in posted : id \in Nat
        BY <2>1 DEF BrokerTypes, HistoryRec
      <3>3. \A id \in posted' : InFile(id)' \/ Handled(id)'
        BY <1>3, <2>1, <3>2 DEF QueueInv, FileInv, InFile
      <3> QED
        BY <2>1, <3>1, <3>3 DEF QueueInv, FileInv
    <2> QED
      BY <1>1, <1>3, <2>2, <2>3 DEF BInv, QueueInv
  <1> QED
    BY <1>2, <1>3

(* The mapping's steps.                                                     *)
LEMMA MapPartKeeps ==
  ASSUME BInv, NEW p \in Procs, MapPart(p)
  PROVE  BInv'
  <1>1. Alive(p) /\ UNCHANGED brokerVars /\ MInv
    BY DEF MapPart, BInv
  <1>2. MInv' /\ MovesIn(p)
    BY <1>1, SyncStepKeeps, MapStepKeeps DEF MapPart
  <1>3. UNCHANGED <<queue, stat, lock, registry, local, inbox, posted, history>>
    BY <1>1 DEF brokerVars
  <1>4. BrokerTypes'
    BY <1>3 DEF BInv, BrokerTypes
  <1>5. \A q \in Procs \ {p} : Phase(q)' = Phase(q)
    BY <1>2 DEF MovesIn
  <1>6. InCall(p)' = InCall(p) /\ (Alive(p)' <=> Alive(p)) /\ FileStat' = FileStat
    BY <1>3 DEF InCall, Alive, FileStat
  <1>7. \A id \in Nat : Handled(id) => Handled(id)'
    BY <1>3 DEF Handled, InBox
  <1>8. Phase(p)' = Phase(p) \/ (Phase(p) \in MapPhases /\ Phase(p)' \in MapPhases)
    BY <1>2 DEF MovesIn
  <1>9. Locked(p)'
    <2>1. CASE Phase(p)' = Phase(p)
      BY <1>3, <2>1, LockedKept DEF BInv
    <2>2. CASE Phase(p) \in MapPhases /\ Phase(p)' \in MapPhases
      <3>1. Locked(p)
        BY DEF BInv
      <3> QED
        BY <1>3, <1>6, <2>2, <3>1
        DEF Locked, MapPhases, Holding, Listing, Posting
    <2> QED
      BY <1>8, <2>1, <2>2
  <1>10. ASSUME ~history.gaveUp PROVE Own(p)' /\ Ordered(inbox[p]) /\ Below(inbox[p], history.lastId)
    <2>1. Own(p) /\ FileInv /\ BrokerTypes
      BY <1>10 DEF BInv, QueueInv
    <2>2. CASE Phase(p)' = Phase(p)
      BY <1>3, <1>7, <2>1, <2>2, OwnKept DEF FileInv
    <2>3. CASE Phase(p) \in MapPhases /\ Phase(p)' \in MapPhases
      <3>1. Stamped(p) => Stamped(p)'
        BY <1>3, <1>6, <2>3 DEF Stamped, MapPhases
      <3>2. Own(p)'
        BY <1>3, <1>6, <2>1, <2>3, <3>1 DEF Own, MapPhases, Holding, Taking
      <3> QED
        BY <2>1, <3>2 DEF FileInv
    <2> QED
      BY <1>8, <2>2, <2>3
  <1> QED
    BY <1>2, <1>3, <1>4, <1>5, <1>7, <1>9, <1>10, OthersKeep

-----------------------------------------------------------------------------
(* The mutexes p lets go of.                                                *)
LEMMA ReleasedLocks ==
  ASSUME BrokerTypes, NEW p \in Procs, NEW ls \in SUBSET Locks
  PROVE  /\ Released(p, ls) \in [Locks -> Procs \cup {NoProc}]
         /\ \A l \in Locks, q \in Procs \ {p} : Released(p, ls)[l] = q <=> lock[l] = q
         /\ \A l \in ls : Released(p, ls)[l] # p
         /\ \A l \in Locks \ ls : Released(p, ls)[l] = lock[l]
  BY BrokerAssumption DEF Released, BrokerTypes

(* Setting the locals of a call changes nothing else.                       *)
LEMMA CallSet ==
  ASSUME BrokerTypes, NEW p \in Procs, NEW c \in CallRec
  PROVE  /\ SetCall(p, c) \in [Procs -> LocalRec] /\ SetCall(p, c)[p].call = c
         /\ \A q \in Procs \ {p} : SetCall(p, c)[q] = local[q]
         /\ \A q \in Procs : SetCall(p, c)[q].alive = local[q].alive
         /\ SetCall(p, c)[p].window = local[p].window
         /\ SetCall(p, c)[p].imported = local[p].imported
  <1> DEFINE r == [local[p] EXCEPT !.call = c]
  <1>1. local \in [Procs -> LocalRec] /\ local[p] \in LocalRec /\ SetCall(p, c) = [local EXCEPT ![p] = r]
    BY DEF SetCall, BrokerTypes
  <1>2. r \in LocalRec /\ r.call = c /\ r.alive = local[p].alive /\ r.window = local[p].window
        /\ r.imported = local[p].imported
    BY <1>1 DEF LocalRec
  <1> HIDE DEF r
  <1> QED
    BY <1>1, <1>2

(* The locals of no call.                                                   *)
LEMMA NoCallType == NoCall \in CallRec
  <1>1. << >> \in Seq(Message)
    BY EmptySeq
  <1>2. NoStat \in Seens
    BY DEF NoStat, Seens
  <1> QED
    BY <1>1, <1>2 DEF NoCall, CallRec, Kinds, Flags

(* What a stamp and a size are.                                             *)
LEMMA FileStatType ==
  ASSUME BrokerTypes
  PROVE  /\ FileStat \in Seens /\ FileStat = <<queue.stamp, Len(queue.messages)>>
         /\ Past(queue, FileStat) /\ Past(queue, NoStat)
  <1>1. /\ queue.messages \in Seq(Message) /\ queue.stamp \in Nat
        /\ Len(queue.messages) \in queue.sizes
    BY DEF BrokerTypes, FileType
  <1>2. Len(queue.messages) \in Nat
    BY <1>1, LenProperties
  <1> QED
    BY <1>1, <1>2 DEF FileStat, Seens, Past, NoStat

(* A step of p that leaves the file, the inboxes and the stamps alone.      *)
LEMMA QuietStep ==
  ASSUME BInv, NEW p \in Procs, NEW step, MInv', Moves(p, step),
         UNCHANGED <<queue, stat, inbox, posted>>,
         local' \in [Procs -> LocalRec], \A q \in Procs \ {p} : local'[q] = local[q],
         lock' \in [Locks -> Procs \cup {NoProc}],
         \A l \in Locks, q \in Procs \ {p} : lock'[l] = q <=> lock[l] = q,
         registry' \subseteq Procs,
         history' \in HistoryRec, history'.lastId = history.lastId,
         history'.dropped = history.dropped, history'.gaveUp = history.gaveUp,
         Locked(p)', ~history.gaveUp => Own(p)'
  PROVE  BInv'
  <1>1. BrokerTypes'
    BY DEF BInv, BrokerTypes
  <1>2. \A q \in Procs \ {p} : local'[q] = local[q] /\ Phase(q)' = Phase(q)
                               /\ inbox'[q] = inbox[q] /\ stat'[q] = stat[q]
    BY DEF Moves
  <1>3. \A id \in Nat : Handled(id) => Handled(id)'
    BY DEF Handled, InBox
  <1>4. ~history.gaveUp => Ordered(inbox'[p]) /\ Below(inbox'[p], history.lastId)
    BY DEF BInv, QueueInv, FileInv
  <1>5. history.dropped \subseteq history'.dropped /\ UNCHANGED <<queue, posted>>
    OBVIOUS
  <1> QED
    BY <1>1, <1>2, <1>3, <1>4, <1>5, OthersKeep

(* p is not in the middle of taking messages, nor does it begin.            *)
LEMMA PlainOwn ==
  ASSUME NEW p \in Procs, Own(p), Phase(p) \notin Taking \cup {"restat"},
         UNCHANGED <<queue, stat, inbox>>, Phase(p)' \notin Taking \cup {"append", "restat"},
         Phase(p)' \in Holding => lock'["queue"] = p,
         Phase(p)' \in {"pollLock", "poll"} => ~local'[p].call.changed,
         local'[p].alive => local[p].alive,
         Past(queue, local'[p].call.seen)
  PROVE  Own(p)'
  <1>1. (Alive(p)' => Alive(p)) /\ FileStat' = FileStat /\ InCall(p)' = local'[p].call
    BY DEF Alive, FileStat, InCall
  <1>2. Stamped(p) => Stamped(p)'
    BY <1>1 DEF Stamped
  <1> QED
    BY <1>1, <1>2 DEF Own

(* p goes on taking messages.                                               *)
LEMMA TakingOwn ==
  ASSUME NEW p \in Procs, Own(p), Phase(p) \in Taking, Phase(p)' \in Taking,
         UNCHANGED <<queue, stat, inbox, local>>, lock["queue"] = p => lock'["queue"] = p,
         \A id \in Nat : Handled(id) => Handled(id)', BrokerTypes
  PROVE  Own(p)'
  <1>1. (Alive(p)' <=> Alive(p)) /\ FileStat' = FileStat /\ InCall(p)' = InCall(p)
    BY DEF Alive, FileStat, InCall
  <1>2. \A i \in 1 .. Len(queue.messages) : queue.messages[i].id \in Nat
    BY ElementOfSeq DEF BrokerTypes, FileType, Message
  <1>3. Copied(p) => Copied(p)'
    BY <1>1, <1>2 DEF Copied
  <1>4. Stamped(p) => Stamped(p)'
    BY <1>1 DEF Stamped, Taking
  <1> QED
    BY <1>1, <1>3, <1>4 DEF Own, Taking, Holding

(* A step between two places where p does not hold the queue's mutex.       *)
LEMMA PlainStep ==
  ASSUME BInv, NEW p \in Procs, NEW step, MInv', Moves(p, step),
         UNCHANGED <<queue, stat, inbox, posted>>,
         local' \in [Procs -> LocalRec], \A q \in Procs \ {p} : local'[q] = local[q],
         local'[p].alive = local[p].alive,
         lock' \in [Locks -> Procs \cup {NoProc}],
         \A l \in Locks, q \in Procs \ {p} : lock'[l] = q <=> lock[l] = q,
         registry' \subseteq Procs,
         history' \in HistoryRec, history'.lastId = history.lastId,
         history'.dropped = history.dropped, history'.gaveUp = history.gaveUp,
         Locked(p)', Phase(p) \notin Holding, step \notin Holding,
         step = "pollLock" => ~local'[p].call.changed,
         local'[p].call.seen \in {FileStat, NoStat, local[p].call.seen}
  PROVE  BInv'
  <1>1. Phase(p)' = step /\ BrokerTypes
    BY DEF Moves, BInv
  <1>2. Phase(p) \notin Taking \cup {"restat"} /\ step \notin Taking \cup {"append", "restat", "poll"}
    BY DEF Taking, Holding
  <1>3. ASSUME ~history.gaveUp PROVE Own(p)'
    <2>1. Own(p) /\ (queue.alike \/ Stamped(p))
      BY <1>3 DEF BInv, QueueInv, Own
    <2>2. CASE ~queue.alike
      <3>1. Past(queue, local'[p].call.seen)
        <4>1. Past(queue, local[p].call.seen)
          BY <2>1, <2>2 DEF Stamped, InCall
        <4>2. Past(queue, FileStat) /\ Past(queue, NoStat)
          BY <1>1, FileStatType
        <4> QED
          BY <4>1, <4>2
      <3> QED
        BY <1>1, <1>2, <2>1, <3>1, PlainOwn
    <2>3. CASE queue.alike
      <3>1. (Alive(p)' <=> Alive(p)) /\ InCall(p)' = local'[p].call
        BY DEF Alive, InCall
      <3> QED
        BY <1>1, <1>2, <2>1, <2>3, <3>1 DEF Own
    <2> QED
      BY <2>2, <2>3
  <1> QED
    BY <1>3, QuietStep

(* A call begins or goes on at a place that is not a synchronisation.       *)
LEMMA AtStep ==
  ASSUME BInv, NEW p \in Procs, NEW step, Step(p, step), step \notin Syncing
  PROVE  /\ job[p].at = step /\ Phase(p) = step /\ job[p].at \notin Syncing /\ Alive(p)
         /\ MInv /\ BrokerTypes /\ Locked(p) /\ local[p] \in LocalRec /\ local[p].call \in CallRec
         /\ local \in [Procs -> LocalRec] /\ history \in HistoryRec /\ NoCall \in CallRec
  <1>1. MInv /\ BrokerTypes /\ Locked(p)
    BY DEF BInv
  <1>2. local[p] \in LocalRec /\ local[p].call \in CallRec /\ local \in [Procs -> LocalRec]
        /\ history \in HistoryRec
    BY <1>1 DEF BrokerTypes, LocalRec
  <1> QED
    BY <1>1, <1>2, NoCallType DEF Step, At, Phase

(* The window is made or destroyed; the call goes on to wait.               *)
LEMMA PublishGuestWindowStateKeeps ==
  ASSUME BInv, NEW p \in Procs, PublishGuestWindowState(p)
  PROVE  BInv'
  <1> DEFINE w == ~local[p].window
             r == [local[p] EXCEPT !.window = w]
  <1>1. /\ job[p].at = "idle" /\ Phase(p) = "idle" /\ job[p].at \notin Syncing /\ Alive(p)
        /\ MInv /\ BrokerTypes /\ Locked(p) /\ local[p] \in LocalRec
        /\ local \in [Procs -> LocalRec] /\ history \in HistoryRec
    BY AtStep DEF PublishGuestWindowState, Syncing
  <1>2. w \in Flags
    BY DEF Flags
  <1>3. local' = [local EXCEPT ![p] = r]
    BY DEF PublishGuestWindowState
  <1> HIDE DEF w
  <1>4. r \in LocalRec /\ r.call = local[p].call /\ r.alive = local[p].alive
        /\ r.imported = local[p].imported
    BY <1>1, <1>2 DEF LocalRec
  <1> HIDE DEF r
  <1>5. local' \in [Procs -> LocalRec] /\ local'[p] = r /\ \A q \in Procs \ {p} : local'[q] = local[q]
    BY <1>1, <1>3, <1>4
  <1>6. \A q \in Procs : local'[q].alive = local[q].alive
    BY <1>4, <1>5
  <1>7. MInv' /\ Moves(p, "publishLock")
    <2>1. "publishLock" \in Ats \ (Syncing \cup {"mapping", "unmap"})
      BY DEF Ats, Syncing
    <2> QED
      BY <1>1, <1>6, <2>1, BrokerGoto DEF PublishGuestWindowState, mapFiles
  <1>8. /\ history' \in HistoryRec /\ history'.lastId = history.lastId
        /\ history'.dropped = history.dropped /\ history'.gaveUp = history.gaveUp
    BY <1>1 DEF PublishGuestWindowState, HistoryRec
  <1>9. UNCHANGED <<queue, stat, lock, registry, inbox, posted>>
    BY DEF PublishGuestWindowState
  <1>10. Locked(p)'
    <2>1. Phase(p)' = "publishLock" /\ InCall(p)' = InCall(p) /\ local'[p].imported = local[p].imported
      BY <1>4, <1>5, <1>7 DEF Moves, InCall
    <2> QED
      BY <1>1, <1>9, <2>1 DEF Locked, Holding, Listing, Posting
  <1>11. local'[p].call.seen \in {FileStat, NoStat, local[p].call.seen} /\ Phase(p) \notin Holding
         /\ "publishLock" \notin Holding
    BY <1>1, <1>4, <1>5 DEF Holding
  <1> QED
    BY <1>1, <1>5, <1>6, <1>7, <1>8, <1>9, <1>10, <1>11, PlainStep DEF BrokerTypes

-----------------------------------------------------------------------------
(* A step from one place without the queue to another.                      *)
LEMMA PlainGoto ==
  ASSUME BInv, NEW p \in Procs, NEW from, Step(p, from), from \notin Syncing \cup Holding,
         NEW step \in Ats, step \notin Syncing \cup Holding \cup {"mapping", "unmap"},
         job' = Goto(p, step) \/ (step = "queueLock" /\ job' = PostBegins(p)),
         UNCHANGED <<file, view, opened, writes, queue, stat, inbox, posted>>,
         local' \in [Procs -> LocalRec], \A q \in Procs \ {p} : local'[q] = local[q],
         local'[p].alive = local[p].alive,
         lock' \in [Locks -> Procs \cup {NoProc}],
         \A l \in Locks, q \in Procs \ {p} : lock'[l] = q <=> lock[l] = q,
         registry' \subseteq Procs,
         history' \in HistoryRec, history'.lastId = history.lastId,
         history'.dropped = history.dropped, history'.gaveUp = history.gaveUp,
         Phase(p)' = step => Locked(p)',
         step = "pollLock" => ~local'[p].call.changed,
         local'[p].call.seen \in {FileStat, NoStat, local[p].call.seen}
  PROVE  BInv'
  <1>1. Alive(p) /\ MInv /\ job[p].at \notin Syncing /\ Phase(p) \notin Holding
    BY AtStep
  <1>2. \A q \in Procs : local'[q].alive = local[q].alive
    OBVIOUS
  <1>3. step \in Ats \ (Syncing \cup {"mapping", "unmap"})
    OBVIOUS
  <1>4. MInv' /\ Moves(p, step)
    <2>1. CASE job' = Goto(p, step)
      BY <1>1, <1>2, <1>3, <2>1, BrokerGoto
    <2>2. CASE step = "queueLock" /\ job' = PostBegins(p)
      <3>1. job' = SyncThen(p, Mapped(p), FALSE, step) /\ step \in {"queueLock", "take"}
        BY <2>2 DEF PostBegins
      <3> QED
        BY <1>1, <1>2, <3>1, BrokerSync
    <2> QED
      BY <2>1, <2>2
  <1>5. Locked(p)'
    BY <1>4 DEF Moves
  <1> QED
    BY <1>1, <1>4, <1>5, PlainStep

(* The registry is read.                                                    *)
LEMMA PublishReadKeeps ==
  ASSUME BInv, NEW p \in Procs, PublishRead(p)
  PROVE  BInv'
  <1> DEFINE c == [local[p].call EXCEPT !.targets = registry]
  <1>1. /\ Step(p, "publish") /\ "publish" \notin Syncing \cup Holding
        /\ "publishWrite" \in Ats /\ "publishWrite" \notin Syncing \cup Holding \cup {"mapping", "unmap"}
    BY DEF PublishRead, Syncing, Holding, Ats, Listing
  <1>2. /\ Phase(p) = "publish" /\ BrokerTypes /\ Locked(p) /\ local[p].call \in CallRec
        /\ history \in HistoryRec
    BY <1>1, AtStep
  <1>3. c \in CallRec /\ c.to = local[p].call.to /\ c.seen = local[p].call.seen
    BY <1>2 DEF CallRec, BrokerTypes
  <1>4. local' = SetCall(p, c)
    BY DEF PublishRead, SetCall
  <1> HIDE DEF c
  <1>5. /\ local' \in [Procs -> LocalRec] /\ local'[p].call = c
        /\ \A q \in Procs \ {p} : local'[q] = local[q]
        /\ local'[p].alive = local[p].alive /\ local'[p].imported = local[p].imported
    BY <1>2, <1>3, <1>4, CallSet
  <1>6. Phase(p)' = "publishWrite" => Locked(p)'
    BY <1>2, <1>3, <1>5 DEF PublishRead, Locked, Holding, Listing, Posting, InCall
  <1>7. job' = Goto(p, "publishWrite")
        /\ UNCHANGED <<file, view, opened, writes, queue, stat, inbox, posted, lock, registry, history>>
    BY DEF PublishRead, mapFiles
  <1> QED
    BY <1>1, <1>2, <1>3, <1>5, <1>6, <1>7, PlainGoto DEF BrokerTypes

(* The registry is written, its mutex released.                             *)
LEMMA PublishWriteKeeps ==
  ASSUME BInv, NEW p \in Procs, PublishWrite(p)
  PROVE  BInv'
  <1>1. /\ Step(p, "publishWrite") /\ "publishWrite" \notin Syncing \cup Holding
        /\ "idle" \in Ats /\ "idle" \notin Syncing \cup Holding \cup {"mapping", "unmap"}
        /\ {"registry"} \subseteq Locks
    BY DEF PublishWrite, Syncing, Holding, Ats, MapPhases, Locks
  <1>2. /\ Phase(p) = "publishWrite" /\ BrokerTypes /\ Locked(p) /\ local[p].call \in CallRec
        /\ history \in HistoryRec /\ NoCall \in CallRec
    BY <1>1, AtStep
  <1>3. /\ local' \in [Procs -> LocalRec] /\ local'[p].call = NoCall
        /\ \A q \in Procs \ {p} : local'[q] = local[q]
        /\ local'[p].alive = local[p].alive /\ local'[p].imported = local[p].imported
    BY <1>2, CallSet DEF PublishWrite
  <1>4. /\ lock' \in [Locks -> Procs \cup {NoProc}]
        /\ \A l \in Locks, q \in Procs \ {p} : lock'[l] = q <=> lock[l] = q
        /\ lock'["registry"] # p /\ lock'["queue"] = lock["queue"]
    BY <1>1, <1>2, ReleasedLocks DEF PublishWrite, Locks
  <1>5. registry' \subseteq Procs
    BY <1>2 DEF PublishWrite, InCall, CallRec
  <1>6. NoCall.to = NoProc /\ NoCall.seen = NoStat /\ NoProc # p
    BY BrokerAssumption DEF NoCall
  <1>7. Phase(p)' = "idle" => Locked(p)'
    BY <1>2, <1>3, <1>4, <1>6 DEF Locked, Holding, Listing, Posting, InCall
  <1>8. job' = Goto(p, "idle")
        /\ UNCHANGED <<file, view, opened, writes, queue, stat, inbox, posted, history>>
    BY DEF PublishWrite, mapFiles
  <1> QED
    BY <1>1, <1>2, <1>3, <1>4, <1>5, <1>6, <1>7, <1>8, PlainGoto

(* A search begins.                                                         *)
LEMMA FindWindowKeeps ==
  ASSUME BInv, NEW p \in Procs, FindWindow(p)
  PROVE  BInv'
  <1>1. /\ Step(p, "idle") /\ "idle" \notin Syncing \cup Holding
        /\ "findLock" \in Ats /\ "findLock" \notin Syncing \cup Holding \cup {"mapping", "unmap"}
    BY DEF FindWindow, Syncing, Holding, Ats
  <1>2. /\ Phase(p) = "idle" /\ BrokerTypes /\ Locked(p) /\ history \in HistoryRec
        /\ local \in [Procs -> LocalRec]
    BY <1>1, AtStep
  <1>3. job' = Goto(p, "findLock")
        /\ UNCHANGED <<file, view, opened, writes, queue, stat, lock, registry, local, inbox,
                       posted, history>>
    BY DEF FindWindow, mapFiles, brokerVars
  <1>4. Phase(p)' = "findLock" => Locked(p)'
    BY <1>2, <1>3 DEF Locked, Holding, Listing, Posting, InCall
  <1> QED
    BY <1>1, <1>2, <1>3, <1>4, PlainGoto DEF BrokerTypes

(* A listed window other than its own is imported.                          *)
LEMMA FindExternalGuestWindowKeeps ==
  ASSUME BInv, NEW p \in Procs, FindExternalGuestWindow(p)
  PROVE  BInv'
  <1>1. /\ Step(p, "find") /\ "find" \notin Syncing \cup Holding
        /\ "idle" \in Ats /\ "idle" \notin Syncing \cup Holding \cup {"mapping", "unmap"}
        /\ {"registry"} \subseteq Locks
    BY DEF FindExternalGuestWindow, Syncing, Holding, Ats, MapPhases, Locks
  <1>2. /\ Phase(p) = "find" /\ BrokerTypes /\ Locked(p) /\ local[p] \in LocalRec
        /\ history \in HistoryRec /\ local \in [Procs -> LocalRec] /\ registry \subseteq Procs
    BY <1>1, AtStep DEF BrokerTypes
  <1>3. /\ local' \in [Procs -> LocalRec] /\ local'[p].call = local[p].call
        /\ \A q \in Procs \ {p} : local'[q] = local[q]
        /\ local'[p].alive = local[p].alive /\ p \notin local'[p].imported
    <2>1. CASE UNCHANGED local
      BY <1>2, <2>1 DEF Locked
    <2>2. ASSUME NEW q \in Procs \ {p}, local' = [local EXCEPT ![p].imported = @ \cup {q}]
          PROVE  /\ local' \in [Procs -> LocalRec] /\ local'[p].call = local[p].call
                 /\ \A x \in Procs \ {p} : local'[x] = local[x]
                 /\ local'[p].alive = local[p].alive /\ p \notin local'[p].imported
      <3> DEFINE r == [local[p] EXCEPT !.imported = local[p].imported \cup {q}]
      <3>1. r \in LocalRec /\ r.call = local[p].call /\ r.alive = local[p].alive /\ p \notin r.imported
        BY <1>2, <2>2 DEF LocalRec, Locked
      <3>2. local' = [local EXCEPT ![p] = r]
        BY <2>2
      <3> HIDE DEF r
      <3> QED
        BY <1>2, <3>1, <3>2
    <2> QED
      BY <1>2, <2>1, <2>2 DEF FindExternalGuestWindow
  <1>4. /\ lock' \in [Locks -> Procs \cup {NoProc}]
        /\ \A l \in Locks, q \in Procs \ {p} : lock'[l] = q <=> lock[l] = q
        /\ lock'["registry"] # p /\ lock'["queue"] = lock["queue"]
    BY <1>1, <1>2, ReleasedLocks DEF FindExternalGuestWindow, Locks
  <1>5. Phase(p)' = "idle" => Locked(p)'
    BY <1>2, <1>3, <1>4 DEF Locked, Holding, Listing, Posting, InCall
  <1>6. job' = Goto(p, "idle")
        /\ UNCHANGED <<file, view, opened, writes, queue, stat, registry, inbox, posted, history>>
    BY DEF FindExternalGuestWindow, mapFiles
  <1> QED
    BY <1>1, <1>2, <1>3, <1>4, <1>5, <1>6, PlainGoto

-----------------------------------------------------------------------------
(* A post begins: its receiver is imported, so not the sender.              *)
LEMMA PostMessageKeeps ==
  ASSUME BInv, NEW p \in Procs, NEW q \in Procs, NEW kind \in {"post", "copydata"},
         PostMessage(p, q, kind)
  PROVE  BInv'
  <1> DEFINE c == [NoCall EXCEPT !.to = q, !.kind = kind]
  <1>1. /\ Step(p, "idle") /\ "idle" \notin Syncing \cup Holding
        /\ "queueLock" \in Ats /\ "queueLock" \notin Syncing \cup Holding \cup {"mapping", "unmap"}
    BY DEF PostMessage, Syncing, Holding, Ats, Posting
  <1>2. /\ Phase(p) = "idle" /\ BrokerTypes /\ Locked(p) /\ history \in HistoryRec
        /\ NoCall \in CallRec
    BY <1>1, AtStep
  <1>3. c \in CallRec /\ c.to = q /\ c.kind = kind /\ c.seen = NoStat /\ q # p
    BY <1>2 DEF CallRec, Kinds, NoCall, PostMessage, Locked
  <1>4. local' = SetCall(p, c)
    BY DEF PostMessage
  <1> HIDE DEF c
  <1>5. /\ local' \in [Procs -> LocalRec] /\ local'[p].call = c
        /\ \A x \in Procs \ {p} : local'[x] = local[x]
        /\ local'[p].alive = local[p].alive /\ local'[p].imported = local[p].imported
    BY <1>2, <1>3, <1>4, CallSet
  <1>6. job' = PostBegins(p)
        /\ UNCHANGED <<file, view, opened, writes, queue, stat, lock, registry, inbox, posted>>
    BY DEF PostMessage, mapFiles
  <1>7. /\ history' \in HistoryRec /\ history'.lastId = history.lastId
        /\ history'.dropped = history.dropped /\ history'.gaveUp = history.gaveUp
    BY <1>2 DEF PostMessage, HistoryRec
  <1>8. Phase(p)' = "queueLock" => Locked(p)'
    BY <1>2, <1>3, <1>5, <1>6 DEF Locked, Holding, Listing, Posting, InCall
  <1> QED
    BY <1>1, <1>2, <1>3, <1>5, <1>6, <1>7, <1>8, PlainGoto DEF BrokerTypes

(* A broadcast begins.                                                      *)
LEMMA BroadcastKeeps ==
  ASSUME BInv, NEW p \in Procs, Broadcast(p)
  PROVE  BInv'
  <1>1. /\ Step(p, "idle") /\ "idle" \notin Syncing \cup Holding
        /\ "listLock" \in Ats /\ "listLock" \notin Syncing \cup Holding \cup {"mapping", "unmap"}
    BY DEF Broadcast, Syncing, Holding, Ats
  <1>2. /\ Phase(p) = "idle" /\ BrokerTypes /\ Locked(p) /\ history \in HistoryRec
        /\ local \in [Procs -> LocalRec]
    BY <1>1, AtStep
  <1>3. job' = Goto(p, "listLock")
        /\ UNCHANGED <<file, view, opened, writes, queue, stat, lock, registry, local, inbox, posted>>
    BY DEF Broadcast, mapFiles
  <1>4. /\ history' \in HistoryRec /\ history'.lastId = history.lastId
        /\ history'.dropped = history.dropped /\ history'.gaveUp = history.gaveUp
    BY <1>2 DEF Broadcast, HistoryRec
  <1>5. Phase(p)' = "listLock" => Locked(p)'
    BY <1>2, <1>3 DEF Locked, Holding, Listing, Posting, InCall
  <1> QED
    BY <1>1, <1>2, <1>3, <1>4, <1>5, PlainGoto DEF BrokerTypes

(* It lists the windows of others.                                          *)
LEMMA BroadcastListKeeps ==
  ASSUME BInv, NEW p \in Procs, BroadcastList(p)
  PROVE  BInv'
  <1> DEFINE listed == {q \in registry \ {p} : Alive(q)}
             c == [NoCall EXCEPT !.targets = listed, !.kind = "broadcast"]
  <1>1. /\ Step(p, "list") /\ "list" \notin Syncing \cup Holding
        /\ "next" \in Ats /\ "next" \notin Syncing \cup Holding \cup {"mapping", "unmap"}
    BY DEF BroadcastList, Syncing, Holding, Ats, Listing
  <1>2. /\ Phase(p) = "list" /\ BrokerTypes /\ Locked(p) /\ history \in HistoryRec
        /\ NoCall \in CallRec
    BY <1>1, AtStep
  <1>3. listed \subseteq Procs /\ p \notin listed
    BY <1>2 DEF BrokerTypes
  <1>4. local' = SetCall(p, c)
    BY DEF BroadcastList
  <1> HIDE DEF listed
  <1>5. c \in CallRec /\ c.to = NoProc /\ c.kind = "broadcast" /\ c.seen = NoStat /\ c.targets = listed
        /\ NoProc # p
    BY <1>2, <1>3, BrokerAssumption DEF CallRec, Kinds, NoCall
  <1> HIDE DEF c
  <1>6. /\ local' \in [Procs -> LocalRec] /\ local'[p].call = c
        /\ \A x \in Procs \ {p} : local'[x] = local[x]
        /\ local'[p].alive = local[p].alive /\ local'[p].imported = local[p].imported
    BY <1>2, <1>4, <1>5, CallSet
  <1>7. job' = Goto(p, "next")
        /\ UNCHANGED <<file, view, opened, writes, queue, stat, lock, registry, inbox, posted, history>>
    BY DEF BroadcastList, mapFiles
  <1>8. Phase(p)' = "next" => Locked(p)'
    BY <1>2, <1>3, <1>5, <1>6, <1>7 DEF Locked, Holding, Listing, Posting, InCall
  <1> QED
    BY <1>1, <1>2, <1>5, <1>6, <1>7, <1>8, PlainGoto DEF BrokerTypes

(* It posts to the next of them, or ends.                                   *)
LEMMA BroadcastNextKeeps ==
  ASSUME BInv, NEW p \in Procs, BroadcastNext(p)
  PROVE  BInv'
  <1> DEFINE live == {q \in InCall(p).targets : Alive(q)}
  <1>1. /\ Step(p, "next") /\ "next" \notin Syncing \cup Holding
        /\ "idle" \in Ats /\ "idle" \notin Syncing \cup Holding \cup {"mapping", "unmap"}
        /\ "queueLock" \in Ats /\ "queueLock" \notin Syncing \cup Holding \cup {"mapping", "unmap"}
        /\ {"registry"} \subseteq Locks
    BY DEF BroadcastNext, Syncing, Holding, Ats, MapPhases, Posting, Locks
  <1>2. /\ Phase(p) = "next" /\ BrokerTypes /\ Locked(p) /\ history \in HistoryRec
        /\ NoCall \in CallRec /\ local[p].call \in CallRec
    BY <1>1, AtStep
  <1>3. UNCHANGED <<file, view, opened, writes, queue, stat, registry, inbox, posted, history>>
    BY DEF BroadcastNext, mapFiles
  <1>4. live \subseteq Procs /\ p \notin live /\ InCall(p).kind = "broadcast"
    BY <1>2 DEF CallRec, InCall, Locked
  <1>5. CASE live = {}
    <2>1. local' = SetCall(p, NoCall) /\ lock' = Released(p, {"registry"}) /\ job' = Goto(p, "idle")
      BY <1>5 DEF BroadcastNext
    <2>2. /\ local' \in [Procs -> LocalRec] /\ local'[p].call = NoCall
          /\ \A q \in Procs \ {p} : local'[q] = local[q]
          /\ local'[p].alive = local[p].alive /\ local'[p].imported = local[p].imported
      BY <1>2, <2>1, CallSet
    <2>3. /\ lock' \in [Locks -> Procs \cup {NoProc}]
          /\ \A l \in Locks, q \in Procs \ {p} : lock'[l] = q <=> lock[l] = q
          /\ lock'["registry"] # p /\ lock'["queue"] = lock["queue"]
      BY <1>1, <1>2, <2>1, ReleasedLocks DEF Locks
    <2>4. NoCall.to = NoProc /\ NoCall.seen = NoStat /\ NoProc # p
      BY BrokerAssumption DEF NoCall
    <2>5. Phase(p)' = "idle" => Locked(p)'
      BY <1>2, <2>2, <2>3, <2>4 DEF Locked, Holding, Listing, Posting, InCall
    <2> QED
      BY <1>1, <1>2, <1>3, <2>1, <2>2, <2>3, <2>4, <2>5, PlainGoto DEF BrokerTypes
  <1>6. ASSUME NEW q \in live, local' = SetCall(p, [InCall(p) EXCEPT !.to = q, !.targets = live \ {q}]),
               job' = PostBegins(p), UNCHANGED lock
        PROVE  BInv'
    <2> DEFINE c == [local[p].call EXCEPT !.to = q, !.targets = live \ {q}]
               rest == live \ {q}
    <2>1. rest \subseteq Procs /\ p \notin rest /\ q \in Procs /\ q # p
      BY <1>4
    <2>2. local' = SetCall(p, c)
      BY <1>6 DEF InCall
    <2> HIDE DEF rest
    <2>3. c \in CallRec /\ c.to = q /\ c.kind = local[p].call.kind /\ c.seen = local[p].call.seen
          /\ c.targets = rest
      BY <1>2, <2>1 DEF CallRec, rest
    <2> HIDE DEF c
    <2>4. /\ local' \in [Procs -> LocalRec] /\ local'[p].call = c
          /\ \A x \in Procs \ {p} : local'[x] = local[x]
          /\ local'[p].alive = local[p].alive /\ local'[p].imported = local[p].imported
      BY <1>2, <2>2, <2>3, CallSet
    <2>5. Phase(p)' = "queueLock" => Locked(p)'
      BY <1>2, <1>4, <1>6, <2>1, <2>3, <2>4 DEF Locked, Holding, Listing, Posting, InCall
    <2> HIDE DEF live
    <2> QED
      BY <1>1, <1>2, <1>3, <1>6, <2>3, <2>4, <2>5, PlainGoto DEF BrokerTypes
  <1> QED
    BY <1>5, <1>6 DEF BroadcastNext

(* A poll begins with the stamp of the file as it is.                       *)
LEMMA PollCrossProcessGuestMessagesKeeps ==
  ASSUME BInv, NEW p \in Procs, PollCrossProcessGuestMessages(p)
  PROVE  BInv'
  <1> DEFINE c == [NoCall EXCEPT !.seen = FileStat]
  <1>1. /\ Step(p, "idle") /\ "idle" \notin Syncing \cup Holding
        /\ "pollLock" \in Ats /\ "pollLock" \notin Syncing \cup Holding \cup {"mapping", "unmap"}
    BY DEF PollCrossProcessGuestMessages, Syncing, Holding, Ats
  <1>2. /\ Phase(p) = "idle" /\ BrokerTypes /\ Locked(p) /\ history \in HistoryRec
        /\ NoCall \in CallRec
    BY <1>1, AtStep
  <1>3. FileStat \in Seens
    BY <1>2, FileStatType
  <1>4. c \in CallRec /\ c.to = NoProc /\ c.kind = "none" /\ c.seen = FileStat /\ ~c.changed
        /\ NoProc # p
    BY <1>2, <1>3, BrokerAssumption DEF CallRec, NoCall
  <1>5. local' = SetCall(p, c)
    BY DEF PollCrossProcessGuestMessages
  <1> HIDE DEF c
  <1>6. /\ local' \in [Procs -> LocalRec] /\ local'[p].call = c
        /\ \A x \in Procs \ {p} : local'[x] = local[x]
        /\ local'[p].alive = local[p].alive /\ local'[p].imported = local[p].imported
    BY <1>2, <1>4, <1>5, CallSet
  <1>7. job' = Goto(p, "pollLock")
        /\ UNCHANGED <<file, view, opened, writes, queue, stat, lock, registry, inbox, posted, history>>
    BY DEF PollCrossProcessGuestMessages, mapFiles
  <1>8. Phase(p)' = "pollLock" => Locked(p)'
    BY <1>2, <1>4, <1>6, <1>7 DEF Locked, Holding, Listing, Posting, InCall
  <1> QED
    BY <1>1, <1>2, <1>4, <1>6, <1>7, <1>8, PlainGoto DEF BrokerTypes

-----------------------------------------------------------------------------
(* A process that waits for a mutex, and where it goes when it has it.      *)
LEMMA WaitPlaces ==
  ASSUME BInv, NEW p \in Procs, Waiting(p)
  PROVE  /\ job[p].at \in {"queueLock", "pollLock", "publishLock", "findLock", "listLock", "importLock"}
         /\ job[p].at = Phase(p) /\ job[p].at \notin Syncing /\ Alive(p)
         /\ Waits[job[p].at] \in Ats /\ Waits[job[p].at] \in Ats \ (Syncing \cup {"mapping", "unmap"})
         /\ Phase(p) = "queueLock" => Waits[job[p].at] = "post" /\ Wants(p) = "queue"
         /\ Phase(p) = "pollLock" => Waits[job[p].at] = "poll" /\ Wants(p) = "queue"
         /\ Phase(p) = "publishLock" => Waits[job[p].at] = "publish" /\ Wants(p) = "registry"
         /\ Phase(p) = "findLock" => Waits[job[p].at] = "find" /\ Wants(p) = "registry"
         /\ Phase(p) = "listLock" => Waits[job[p].at] = "list" /\ Wants(p) = "registry"
         /\ Phase(p) = "importLock" => Waits[job[p].at] = "import" /\ Wants(p) = "registry"
  <1>1. job[p].at \in {"queueLock", "pollLock", "publishLock", "findLock", "listLock", "importLock"}
    BY DEF Waiting, Waits
  <1>2. job[p].at \notin Syncing /\ job[p].at = Phase(p)
    BY <1>1 DEF Syncing, Phase
  <1> QED
    BY <1>1, <1>2 DEF Waiting, Waits, Wants, Ats, Syncing, Holding, Posting, Listing

(* A mutex nobody has is taken: nobody else is in its section.              *)
LEMMA AcquireKeeps ==
  ASSUME BInv, NEW p \in Procs, Acquire(p)
  PROVE  BInv'
  <1> DEFINE step == Waits[job[p].at]
             at == Phase(p)
  <1>1. /\ Waiting(p) /\ Owner(p) = NoProc /\ lock' = [lock EXCEPT ![Wants(p)] = p]
        /\ job' = Goto(p, step)
        /\ UNCHANGED <<file, view, opened, writes, queue, stat, registry, local, inbox, posted, history>>
    BY DEF Acquire, mapFiles
  <1>2. /\ at \in {"queueLock", "pollLock", "publishLock", "findLock", "listLock", "importLock"}
        /\ job[p].at = at /\ job[p].at \notin Syncing /\ Alive(p)
        /\ step \in Ats /\ step \in Ats \ (Syncing \cup {"mapping", "unmap"})
        /\ at = "queueLock" => step = "post" /\ Wants(p) = "queue"
        /\ at = "pollLock" => step = "poll" /\ Wants(p) = "queue"
        /\ at = "publishLock" => step = "publish" /\ Wants(p) = "registry"
        /\ at = "findLock" => step = "find" /\ Wants(p) = "registry"
        /\ at = "listLock" => step = "list" /\ Wants(p) = "registry"
        /\ at = "importLock" => step = "import" /\ Wants(p) = "registry"
    BY <1>1, WaitPlaces
  <1> HIDE DEF step, at
  <1>3. /\ MInv /\ BrokerTypes /\ Locked(p) /\ local \in [Procs -> LocalRec] /\ history \in HistoryRec
        /\ lock \in [Locks -> Procs \cup {NoProc}]
    BY DEF BInv, BrokerTypes
  <1>4. MInv' /\ Moves(p, step)
    BY <1>1, <1>2, <1>3, BrokerGoto
  <1>5. Wants(p) \in Locks /\ lock[Wants(p)] = NoProc
    BY <1>1, <1>2 DEF Locks, Owner
  <1>6. /\ lock' \in [Locks -> Procs \cup {NoProc}] /\ lock'[Wants(p)] = p
        /\ \A l \in Locks \ {Wants(p)} : lock'[l] = lock[l]
    BY <1>1, <1>3, <1>5
  <1>7. \A l \in Locks, q \in Procs \ {p} : lock'[l] = q <=> lock[l] = q
    BY <1>5, <1>6, BrokerAssumption
  <1>8. Phase(p)' = step /\ InCall(p)' = InCall(p)
    BY <1>1, <1>4 DEF Moves, InCall
  <1>9. "queue" \in Locks /\ "registry" \in Locks
    BY DEF Locks
  <1>10. Locked(p)'
    BY <1>1, <1>2, <1>3, <1>6, <1>8, <1>9 DEF Locked, Holding, Listing, Posting, at
  <1>11. ASSUME ~history.gaveUp PROVE Own(p)'
    <2>1. Own(p) /\ (queue.alike \/ Stamped(p))
      BY <1>11 DEF BInv, QueueInv, Own
    <2>2. CASE at = "importLock"
      <3>1. Phase(p) \in Taking /\ Phase(p)' \in Taking
        BY <1>2, <1>8, <2>2 DEF Taking, at
      <3>2. lock["queue"] = p => lock'["queue"] = p
        BY <1>2, <1>6, <1>9, <2>2
      <3>3. \A id \in Nat : Handled(id) => Handled(id)'
        BY <1>1 DEF Handled, InBox
      <3> QED
        BY <1>1, <1>3, <2>1, <3>1, <3>2, <3>3, TakingOwn
    <2>3. CASE at # "importLock"
      <3>1. Phase(p) \notin Taking \cup {"restat"} /\ Phase(p)' \notin Taking \cup {"append", "restat"}
        BY <1>2, <1>8, <2>3 DEF Taking, at
      <3>2. Phase(p)' \in Holding => lock'["queue"] = p
        BY <1>2, <1>6, <1>8, <2>3 DEF Holding
      <3>3. Phase(p)' \in {"pollLock", "poll"} => ~local'[p].call.changed
        <4>1. Phase(p)' \in {"pollLock", "poll"} => Phase(p) = "pollLock"
          BY <1>2, <1>8, <2>3 DEF at
        <4> QED
          BY <1>1, <2>1, <4>1 DEF Own, InCall
      <3>4. (local'[p].alive => local[p].alive) /\ (Alive(p)' <=> Alive(p)) /\ FileStat' = FileStat
        BY <1>1 DEF Alive, FileStat
      <3>5. CASE queue.alike
        BY <1>1, <1>8, <2>1, <3>1, <3>2, <3>3, <3>4, <3>5 DEF Own, InCall
      <3>6. CASE ~queue.alike
        <4>1. Past(queue, local'[p].call.seen)
          BY <1>1, <2>1, <3>6 DEF Stamped, InCall
        <4> QED
          BY <1>1, <2>1, <3>1, <3>2, <3>3, <3>4, <4>1, PlainOwn
      <3> QED
        BY <3>5, <3>6
    <2> QED
      BY <2>2, <2>3
  <1> QED
    BY <1>1, <1>3, <1>4, <1>6, <1>7, <1>10, <1>11, QuietStep DEF BrokerTypes

(* After a wait that gave up nothing is claimed of the queue.               *)
LEMMA GiveUpKeeps ==
  ASSUME BInv, NEW p \in Procs, GiveUp(p)
  PROVE  BInv'
  <1> DEFINE step == Waits[job[p].at]
             at == Phase(p)
  <1>1. /\ Waiting(p) /\ job' = Goto(p, step) /\ Owner(p) \in Procs \ {p}
        /\ history' = [history EXCEPT !.gaveUp = TRUE]
        /\ UNCHANGED <<file, view, opened, writes, queue, stat, lock, registry, local, inbox, posted>>
    BY DEF GiveUp, mapFiles
  <1>2. /\ at \in {"queueLock", "pollLock", "publishLock", "findLock", "listLock", "importLock"}
        /\ job[p].at = at /\ job[p].at \notin Syncing /\ Alive(p)
        /\ step \in Ats /\ step \in Ats \ (Syncing \cup {"mapping", "unmap"})
        /\ at = "queueLock" => step = "post" /\ Wants(p) = "queue"
        /\ at = "pollLock" => step = "poll" /\ Wants(p) = "queue"
        /\ at = "publishLock" => step = "publish" /\ Wants(p) = "registry"
        /\ at = "findLock" => step = "find" /\ Wants(p) = "registry"
        /\ at = "listLock" => step = "list" /\ Wants(p) = "registry"
        /\ at = "importLock" => step = "import" /\ Wants(p) = "registry"
    BY <1>1, WaitPlaces
  <1> HIDE DEF step, at
  <1>3. MInv /\ BrokerTypes /\ Locked(p) /\ history \in HistoryRec
    BY DEF BInv, BrokerTypes
  <1>4. MInv' /\ Moves(p, step)
    BY <1>1, <1>2, <1>3, BrokerGoto
  <1>5. Phase(p)' = step /\ InCall(p)' = InCall(p)
    BY <1>1, <1>4 DEF Moves, InCall
  <1>6. Locked(p)'
    BY <1>1, <1>2, <1>3, <1>5 DEF Locked, Holding, Listing, Posting, at
  <1>7. \A q \in Procs \ {p} : Locked(q)'
    BY <1>1, <1>4, LockedKept DEF BInv, Moves
  <1>8. history' \in HistoryRec /\ history'.lastId = history.lastId /\ history'.gaveUp
    BY <1>1, <1>3 DEF HistoryRec, Flags
  <1>9. BrokerTypes'
    BY <1>1, <1>3, <1>8 DEF BrokerTypes
  <1> QED
    BY <1>4, <1>6, <1>7, <1>8, <1>9 DEF BInv

-----------------------------------------------------------------------------
(* A process that dies holds nothing any more.                              *)
LEMMA CrashKeeps ==
  ASSUME BInv, NEW p \in Procs, Crash(p)
  PROVE  BInv'
  <1> DEFINE r == [local[p] EXCEPT !.alive = FALSE, !.call = NoCall]
             at == IF job[p].at \in Writing THEN job[p].at ELSE "idle"
             j == [Idle EXCEPT !.at = at]
  <1>1. /\ MInv /\ BrokerTypes /\ Locked(p) /\ local \in [Procs -> LocalRec] /\ history \in HistoryRec
        /\ local[p] \in LocalRec /\ NoCall \in CallRec /\ job \in [Procs -> JobRec]
        /\ view \in [Views -> ViewRec] /\ ViewInv
    BY NoCallType DEF BInv, BrokerTypes, MInv, MapTypes
  <1>2. /\ local' = [local EXCEPT ![p] = r] /\ lock' = Released(p, Locks)
        /\ job' = [job EXCEPT ![p] = j]
        /\ view' = [v \in Views |-> IF ViewProc[v] = p THEN Unmapped ELSE view[v]]
        /\ opened' = opened \ {p}
        /\ UNCHANGED <<file, writes, queue, stat, registry, inbox, posted, history>>
    BY DEF Crash
  <1>3. r \in LocalRec /\ ~r.alive /\ r.call = NoCall /\ r.imported = local[p].imported
    BY <1>1 DEF LocalRec, Flags
  <1>4. j \in JobRec /\ j.todo = << >> /\ j.at = at /\ j.then = "idle"
    <2>1. << >> \in Seq(Views) /\ at \in Ats
      BY EmptySeq DEF Ats, Syncing, Writing, MapPhases
    <2> HIDE DEF at
    <2> QED
      BY <2>1 DEF Idle, JobRec, Thens, Flags
  <1>5. at \in Writing \cup {"idle"} /\ at \in Syncing \cup {"idle"} /\ at # "mapping"
    BY DEF Writing, Syncing
  <1> HIDE DEF r, j, at
  <1>6. /\ local' \in [Procs -> LocalRec] /\ local'[p] = r
        /\ \A q \in Procs \ {p} : local'[q] = local[q]
    BY <1>1, <1>2, <1>3
  <1>7. /\ job' \in [Procs -> JobRec] /\ job'[p] = j /\ \A q \in Procs \ {p} : job'[q] = job[q]
    BY <1>1, <1>2, <1>4
  <1>8. Phase(p)' = "idle" /\ \A q \in Procs \ {p} : Phase(q)' = Phase(q)
    BY <1>4, <1>5, <1>7 DEF Phase, Syncing
  <1>9. /\ lock' \in [Locks -> Procs \cup {NoProc}]
        /\ \A l \in Locks, q \in Procs \ {p} : lock'[l] = q <=> lock[l] = q
        /\ \A l \in Locks : lock'[l] # p
    BY <1>1, <1>2, ReleasedLocks
  <1>10. /\ view' \in [Views -> ViewRec] /\ ViewInv'
         /\ \A v \in Views : ViewProc[v] # p => view'[v] = view[v]
    <2>1. NoBytes \in [{} -> Vals] /\ {} \in SUBSET Cells
      BY DEF NoBytes
    <2>2. NoBytes \in Mems
      BY <2>1, MemOf
    <2>3. Unmapped \in ViewRec /\ Unmapped.refs = 0
      BY <2>2 DEF Unmapped, ViewRec
    <2>4. \A v \in Views : view'[v] = IF ViewProc[v] = p THEN Unmapped ELSE view[v]
      BY <1>2
    <2>5. view' \in [Views -> ViewRec]
      BY <1>1, <1>2, <2>3
    <2> QED
      BY <1>1, <2>3, <2>4, <2>5 DEF ViewInv
  <1>11. MInv'
    <2>1. MapTypes'
      BY <1>1, <1>2, <1>7, <1>10 DEF MInv, MapTypes
    <2>2. ~Alive(p)' /\ \A q \in Procs \ {p} : Alive(q)' <=> Alive(q)
      BY <1>3, <1>6 DEF Alive
    <2>3. TodoInv(p)'
      BY <1>4, <1>5, <1>7, <1>8, <2>2 DEF TodoInv
    <2>4. ASSUME NEW q \in Procs \ {p} PROVE TodoInv(q)'
      <3>1. TodoInv(q) /\ job'[q] = job[q] /\ Phase(q)' = Phase(q) /\ (Alive(q)' <=> Alive(q))
        BY <1>1, <1>7, <1>8, <2>2 DEF MInv
      <3>2. \A i \in 1 .. Len(job[q].todo) : job[q].todo[i] \in Views
        BY <1>1, ElementOfSeq DEF JobRec
      <3>3. Alive(q) => \A i \in 1 .. Len(job'[q].todo) :
              ViewProc[job'[q].todo[i]] = q /\ view'[job'[q].todo[i]].refs > 0
        BY <1>10, <3>1, <3>2 DEF TodoInv
      <3>4. job[q].at = "mapping" => view'[job[q].arg] = view[job[q].arg]
        <4> SUFFICES ASSUME job[q].at = "mapping" PROVE view'[job[q].arg] = view[job[q].arg]
          OBVIOUS
        <4>1. Phase(q) = "mapping"
          BY DEF Phase, Syncing
        <4> QED
          BY <1>10, <3>1, <4>1 DEF TodoInv
      <3> QED
        BY <3>1, <3>3, <3>4 DEF TodoInv
    <2>5. \A q \in Procs : TodoInv(q)'
      BY <2>3, <2>4
    <2> QED
      BY <1>10, <2>1, <2>5 DEF MInv
  <1>12. Moves(p, "idle")
    BY <1>8 DEF Moves
  <1>13. NoCall.to = NoProc /\ NoCall.seen = NoStat /\ NoProc # p /\ InCall(p)' = NoCall
         /\ local'[p].imported = local[p].imported
    BY <1>3, <1>6, BrokerAssumption DEF NoCall, InCall
  <1>14. Locked(p)'
    BY <1>1, <1>8, <1>9, <1>13 DEF Locked, Holding, Listing, Posting, Locks
  <1>15. ASSUME ~history.gaveUp PROVE Own(p)'
    <2>1. Own(p) /\ BrokerTypes
      BY <1>15 DEF BInv, QueueInv
    <2>2. ~Alive(p)'
      BY <1>3, <1>6 DEF Alive
    <2>3. Stamped(p) => Stamped(p)'
      <3>1. Past(queue, NoStat)
        BY <1>1, FileStatType
      <3> QED
        BY <1>2, <1>8, <1>13, <2>2, <3>1 DEF Stamped
    <2> QED
      BY <1>2, <1>8, <2>1, <2>2, <2>3 DEF Own, Holding, Taking
  <1> QED
    BY <1>1, <1>2, <1>6, <1>9, <1>11, <1>12, <1>14, <1>15, QuietStep DEF BrokerTypes

(* The file is read under its mutex: the copy is the file.                  *)
LEMMA PostReadKeeps ==
  ASSUME BInv, NEW p \in Procs, PostRead(p)
  PROVE  BInv'
  <1> DEFINE c == [local[p].call EXCEPT !.copy = queue.messages]
  <1>1. Step(p, "post") /\ "post" \notin Syncing /\ "append" \in Ats \ (Syncing \cup {"mapping", "unmap"})
    BY DEF PostRead, Syncing, Ats, Holding
  <1>2. /\ job[p].at \notin Syncing /\ Alive(p) /\ MInv /\ Phase(p) = "post" /\ BrokerTypes /\ Locked(p)
        /\ local[p].call \in CallRec /\ history \in HistoryRec /\ queue.messages \in Seq(Message)
    BY <1>1, AtStep DEF BrokerTypes, FileType
  <1>3. c \in CallRec /\ c.to = local[p].call.to /\ c.seen = local[p].call.seen
        /\ c.kind = local[p].call.kind /\ c.targets = local[p].call.targets /\ c.copy = queue.messages
    BY <1>2 DEF CallRec
  <1>4. local' = SetCall(p, c)
    BY DEF PostRead, SetCall
  <1> HIDE DEF c
  <1>5. /\ local' \in [Procs -> LocalRec] /\ local'[p].call = c
        /\ \A q \in Procs \ {p} : local'[q] = local[q]
        /\ \A q \in Procs : local'[q].alive = local[q].alive
        /\ local'[p].imported = local[p].imported
    BY <1>2, <1>3, <1>4, CallSet
  <1>6. job' = Goto(p, "append")
        /\ UNCHANGED <<file, view, opened, writes, queue, stat, inbox, posted, lock, registry, history>>
    BY DEF PostRead, mapFiles
  <1>7. MInv' /\ Moves(p, "append")
    BY <1>1, <1>2, <1>5, <1>6, BrokerGoto
  <1>8. Phase(p)' = "append" /\ InCall(p)' = c /\ (Alive(p)' <=> Alive(p)) /\ FileStat' = FileStat
    BY <1>5, <1>6, <1>7 DEF Moves, InCall, Alive, FileStat
  <1>9. Locked(p)'
    BY <1>2, <1>3, <1>5, <1>6, <1>8 DEF Locked, Holding, Listing, Posting, InCall
  <1>10. ASSUME ~history.gaveUp PROVE Own(p)'
    <2>1. Own(p)
      BY <1>10 DEF BInv, QueueInv
    <2>2. Stamped(p) => Stamped(p)'
      BY <1>2, <1>3, <1>6, <1>8 DEF Stamped, InCall
    <2> QED
      BY <1>2, <1>3, <1>6, <1>8, <2>1, <2>2 DEF Own, Holding, Taking
  <1> QED
    BY <1>2, <1>5, <1>6, <1>7, <1>9, <1>10, QuietStep DEF BrokerTypes

-----------------------------------------------------------------------------
(* The same for a poll, which holds every message of the file.              *)
LEMMA PollReadKeeps ==
  ASSUME BInv, NEW p \in Procs, PollRead(p)
  PROVE  BInv'
  <1> DEFINE c == [local[p].call EXCEPT !.copy = queue.messages]
  <1>1. Step(p, "poll") /\ "poll" \notin Syncing /\ "take" \in {"queueLock", "take"}
    BY DEF PollRead, Syncing
  <1>2. /\ job[p].at \notin Syncing /\ Alive(p) /\ MInv /\ Phase(p) = "poll" /\ BrokerTypes /\ Locked(p)
        /\ local[p].call \in CallRec /\ history \in HistoryRec /\ queue.messages \in Seq(Message)
    BY <1>1, AtStep DEF BrokerTypes, FileType
  <1>3. /\ c \in CallRec /\ c.to = local[p].call.to /\ c.seen = local[p].call.seen
        /\ c.kind = local[p].call.kind /\ c.targets = local[p].call.targets /\ c.copy = queue.messages
        /\ c.changed = local[p].call.changed
    BY <1>2 DEF CallRec
  <1>4. local' = SetCall(p, c)
    BY DEF PollRead, SetCall
  <1> HIDE DEF c
  <1>5. /\ local' \in [Procs -> LocalRec] /\ local'[p].call = c
        /\ \A q \in Procs \ {p} : local'[q] = local[q]
        /\ \A q \in Procs : local'[q].alive = local[q].alive
        /\ local'[p].imported = local[p].imported
    BY <1>2, <1>3, <1>4, CallSet
  <1>6. job' = SyncThen(p, Mapped(p), FALSE, "take")
        /\ UNCHANGED <<file, view, opened, writes, queue, stat, inbox, posted, lock, registry, history>>
    BY DEF PollRead, PollBegins, mapFiles
  <1>7. MInv' /\ Moves(p, "take")
    BY <1>1, <1>2, <1>5, <1>6, BrokerSync
  <1>8. Phase(p)' = "take" /\ InCall(p)' = c /\ (Alive(p)' <=> Alive(p)) /\ FileStat' = FileStat
    BY <1>5, <1>6, <1>7 DEF Moves, InCall, Alive, FileStat
  <1>9. Locked(p)'
    BY <1>2, <1>3, <1>5, <1>6, <1>8 DEF Locked, Holding, Listing, Posting, InCall
  <1>10. ASSUME ~history.gaveUp PROVE Own(p)'
    <2>1. Own(p) /\ FileInv
      BY <1>10 DEF BInv, QueueInv
    <2>2. Stamped(p) => Stamped(p)'
      BY <1>2, <1>3, <1>6, <1>8 DEF Stamped, InCall
    <2>3. Later(queue.messages, p, inbox[p]) /\ Ordered(queue.messages)
      BY <1>2, <2>1 DEF Own, FileInv, Taking
    <2>4. \A i \in 1 .. Len(queue.messages) : Has(queue.messages, queue.messages[i])
      BY DEF Has
    <2>5. Copied(p)'
      BY <1>3, <1>6, <1>8, <2>3, <2>4 DEF Copied
    <2> QED
      BY <1>2, <1>6, <1>8, <2>1, <2>2, <2>5 DEF Own, Holding, Taking
  <1> QED
    BY <1>2, <1>5, <1>6, <1>7, <1>9, <1>10, QuietStep DEF BrokerTypes

(* The end of a poll: the stamp p remembers is the one of a file that has   *)
(* no message for p.                                                        *)
LEMMA PollEnds ==
  ASSUME BInv, NEW p \in Procs, job[p].at \notin Syncing, Alive(p), Phase(p) \in {"take", "restat"},
         NEW seen \in Seens, stat' = [stat EXCEPT ![p] = seen], 
         Past(queue, seen) \/ history.gaveUp \/ queue.alike,
         ~history.gaveUp /\ ~queue.alike /\ seen = FileStat => NoneFor(queue.messages, p),
         ~history.gaveUp => Later(queue.messages, p, inbox[p]),
         lock' = Released(p, {"queue"}), local' = SetCall(p, NoCall), job' = Goto(p, "idle"),
         UNCHANGED <<file, view, opened, writes, queue, registry, inbox, posted, history>>
  PROVE  BInv'
  <1>1. /\ "idle" \in Ats \ (Syncing \cup {"mapping", "unmap"}) /\ {"queue"} \subseteq Locks
        /\ MInv /\ BrokerTypes /\ Locked(p) /\ NoCall \in CallRec
    BY NoCallType DEF Syncing, Ats, MapPhases, Locks, BInv
  <1>2. /\ local' \in [Procs -> LocalRec] /\ local'[p].call = NoCall
        /\ \A q \in Procs \ {p} : local'[q] = local[q]
        /\ \A q \in Procs : local'[q].alive = local[q].alive
        /\ local'[p].imported = local[p].imported
    BY <1>1, CallSet
  <1>3. MInv' /\ Moves(p, "idle")
    BY <1>1, <1>2, BrokerGoto
  <1>4. /\ lock' \in [Locks -> Procs \cup {NoProc}]
        /\ \A l \in Locks, q \in Procs \ {p} : lock'[l] = q <=> lock[l] = q
        /\ lock'["queue"] # p /\ lock'["registry"] = lock["registry"]
    BY <1>1, ReleasedLocks DEF Locks
  <1>5. /\ Phase(p)' = "idle" /\ InCall(p)' = NoCall /\ (Alive(p)' <=> Alive(p)) /\ FileStat' = FileStat
        /\ \A q \in Procs \ {p} : Phase(q)' = Phase(q)
    BY <1>2, <1>3 DEF Moves, InCall, Alive, FileStat
  <1>6. NoCall.to = NoProc /\ NoCall.seen = NoStat /\ NoProc # p
    BY BrokerAssumption DEF NoCall
  <1>7. lock["registry"] # p
    BY <1>1 DEF Locked, Listing, Posting
  <1>8. Locked(p)'
    BY <1>1, <1>2, <1>4, <1>5, <1>6, <1>7 DEF Locked, Holding, Listing, Posting
  <1>9. stat' \in [Procs -> Seens] /\ stat'[p] = seen /\ \A q \in Procs \ {p} : stat'[q] = stat[q]
    BY <1>1 DEF BrokerTypes
  <1>10. BrokerTypes'
    BY <1>1, <1>2, <1>4, <1>9 DEF BrokerTypes
  <1>11. ASSUME ~history.gaveUp
         PROVE  /\ Own(p)' /\ Ordered(inbox'[p]) /\ Below(inbox'[p], history.lastId)
                /\ \A id \in Nat : Handled(id) => Handled(id)'
    <2>1. FileInv
      BY <1>11 DEF BInv, QueueInv
    <2>2. Past(queue, NoStat)
      BY <1>1, FileStatType
    <2>3. queue'.alike \/ Stamped(p)'
      BY <1>5, <1>6, <1>9, <1>11, <2>2 DEF Stamped
    <2>4. Own(p)'
      BY <1>5, <1>11, <2>3 DEF Own, Holding, Taking
    <2> QED
      BY <2>1, <2>4 DEF FileInv, Handled, InBox
  <1>12. \A q \in Procs \ {p} : local'[q] = local[q] /\ Phase(q)' = Phase(q)
                               /\ inbox'[q] = inbox[q] /\ stat'[q] = stat[q]
    BY <1>2, <1>5, <1>9
  <1> QED
    BY <1>3, <1>4, <1>8, <1>10, <1>11, <1>12, OthersKeep

(* A poll that found nothing ends with the stamp it began with.             *)
LEMMA PollNothingKeeps ==
  ASSUME BInv, NEW p \in Procs, PollNothing(p)
  PROVE  BInv'
  <1>1. Step(p, "take") /\ "take" \notin Syncing
    BY DEF PollNothing, Syncing
  <1>2. /\ job[p].at \notin Syncing /\ Alive(p) /\ Phase(p) = "take" /\ BrokerTypes
        /\ local[p].call \in CallRec
    BY <1>1, AtStep
  <1> DEFINE seen == InCall(p).seen
  <1>3. seen \in Seens
    BY <1>2 DEF InCall, CallRec
  <1>4. ASSUME ~history.gaveUp
        PROVE  /\ InCall(p).copy = queue.messages /\ Later(queue.messages, p, inbox[p])
               /\ NoneFor(queue.messages, p)
    <2>1. Own(p)
      BY <1>4 DEF BInv, QueueInv
    <2>2. Copied(p)
      BY <1>2, <2>1 DEF Own, Taking
    <2>3. InCall(p).copy = queue.messages /\ Later(queue.messages, p, inbox[p])
      BY <2>2 DEF Copied, PollNothing
    <2>4. Mine(p) = {} /\ queue.messages \in Seq(Message)
      BY <1>2 DEF PollNothing, BrokerTypes, FileType
    <2>5. DOMAIN queue.messages = 1 .. Len(queue.messages)
      BY <2>4, LenProperties
    <2>6. NoneFor(queue.messages, p)
      BY <2>3, <2>4, <2>5 DEF NoneFor, Mine
    <2> QED
      BY <2>3, <2>6
  <1>5. Past(queue, seen) \/ history.gaveUp \/ queue.alike
    BY <1>2 DEF BInv, QueueInv, Own, Stamped
  <1>6. stat' = [stat EXCEPT ![p] = seen] /\ lock' = Released(p, {"queue"}) /\ local' = SetCall(p, NoCall)
        /\ job' = Goto(p, "idle")
        /\ UNCHANGED <<file, view, opened, writes, queue, registry, inbox, posted, history>>
    BY DEF PollNothing, mapFiles
  <1> HIDE DEF seen
  <1> QED
    BY <1>2, <1>3, <1>4, <1>5, <1>6, PollEnds

(* A poll that wrote ends with the stamp of what it wrote.                  *)
LEMMA PollRestatKeeps ==
  ASSUME BInv, NEW p \in Procs, PollRestat(p)
  PROVE  BInv'
  <1>1. Step(p, "restat") /\ "restat" \notin Syncing
    BY DEF PollRestat, Syncing
  <1>2. job[p].at \notin Syncing /\ Alive(p) /\ Phase(p) = "restat" /\ BrokerTypes
    BY <1>1, AtStep
  <1> DEFINE seen == FileStat
  <1>3. seen \in Seens /\ Past(queue, seen)
    BY <1>2, FileStatType
  <1>4. ~history.gaveUp => /\ Later(queue.messages, p, inbox[p])
                           /\ queue.alike \/ NoneFor(queue.messages, p)
    BY <1>2 DEF BInv, QueueInv, Own, Stamped, Taking
  <1>5. stat' = [stat EXCEPT ![p] = seen] /\ lock' = Released(p, {"queue"}) /\ local' = SetCall(p, NoCall)
        /\ job' = Goto(p, "idle")
        /\ UNCHANGED <<file, view, opened, writes, queue, registry, inbox, posted, history>>
    BY DEF PollRestat, mapFiles
  <1> HIDE DEF seen
  <1> QED
    BY <1>2, <1>3, <1>4, <1>5, PollEnds

-----------------------------------------------------------------------------
(* What p's views show are values.                                          *)
LEMMA KnownData ==
  ASSUME MInv, NEW p \in Procs
  PROVE  /\ Known(p) \in Data
         /\ [c \in Cells |-> IF c \in Shows(p) THEN Known(p)[c] ELSE MaxWrites] \in Data
  <1> DEFINE showing(c) == {v \in Mapped(p) : c \in ViewCells[v]}
             value(c) == IF showing(c) = {} THEN 0
                         ELSE view[CHOOSE v \in showing(c) : TRUE].mem[c]
  <1>1. 0 \in Vals /\ MaxWrites \in Vals
    BY MappingAssumption DEF Vals
  <1>2. ASSUME NEW c \in Cells PROVE value(c) \in Vals
    <2>1. CASE showing(c) = {}
      BY <1>1, <2>1
    <2>2. CASE showing(c) # {}
      <3>1. PICK v : v = CHOOSE x \in showing(c) : TRUE
        OBVIOUS
      <3>2. v \in showing(c)
        BY <2>2, <3>1
      <3>3. v \in Views /\ view[v].refs > 0 /\ c \in ViewCells[v]
        BY <3>2 DEF Mapped
      <3>4. view[v].mem[c] \in Vals
        BY <3>3 DEF MInv, ViewInv
      <3> HIDE DEF showing
      <3> QED
        BY <2>2, <3>1, <3>4
    <2> QED
      BY <2>1, <2>2
  <1>3. Known(p) = [c \in Cells |-> value(c)]
    BY DEF Known
  <1> HIDE DEF value
  <1>4. Known(p) \in Data
    BY <1>2, <1>3 DEF Data
  <1> QED
    BY <1>1, <1>4 DEF Data

(* p's first message in the copy.                                           *)
LEMMA FirstOfMine ==
  ASSUME NEW p \in Procs, InCall(p).copy \in Seq(Message), ~NoneFor(InCall(p).copy, p)
  PROVE  /\ First(p) \in 1 .. Len(InCall(p).copy) /\ FirstMessage(p) = InCall(p).copy[First(p)]
         /\ FirstMessage(p) \in Message /\ FirstMessage(p).to = p
         /\ \A j \in 1 .. Len(InCall(p).copy) : InCall(p).copy[j].to = p => First(p) <= j
         /\ FirstMessage(p).id \in Nat /\ FirstMessage(p).from \in Procs \ {p}
         /\ FirstMessage(p).sent \in Data /\ Len(InCall(p).copy) \in Nat
  <1> DEFINE s == InCall(p).copy
             n == Len(s)
             mine == {i \in 1 .. n : s[i].to = p}
  <1>1. n \in Nat /\ DOMAIN s = 1 .. n
    BY LenProperties
  <1>2. mine \in SUBSET Nat /\ mine # {} /\ Mine(p) = mine
    BY <1>1 DEF Mine, NoneFor
  <1> HIDE DEF mine
  <1>3. \E i \in mine : \A j \in mine : i <= j
    BY <1>2, LeastNat
  <1>4. First(p) \in mine /\ \A j \in mine : First(p) <= j
    BY <1>2, <1>3 DEF First
  <1> USE DEF mine
  <1>5. First(p) \in 1 .. n /\ s[First(p)] \in Message
    BY <1>4, ElementOfSeq
  <1> QED
    BY <1>1, <1>4, <1>5 DEF FirstMessage, Message

(* Nothing but the flags of a call changed.                                 *)
LEMMA MInvSame ==
  ASSUME MInv, UNCHANGED <<file, view, opened, writes, job>>,
         \A q \in Procs : local'[q].alive = local[q].alive
  PROVE  MInv' /\ \A q \in Procs : Phase(q)' = Phase(q)
  <1>1. \A q \in Procs : (Alive(q)' <=> Alive(q)) /\ Phase(q)' = Phase(q)
    BY DEF Alive, Phase
  <1>2. \A q \in Procs : TodoInv(q)'
    BY <1>1 DEF MInv, TodoInv
  <1> QED
    BY <1>1, <1>2 DEF MInv, MapTypes, ViewInv

-----------------------------------------------------------------------------
(* What is left in the copy of p once its first message is taken.           *)
LEMMA LeftAfterFirst ==
  ASSUME BrokerTypes, NEW p \in Procs, ~NoneFor(InCall(p).copy, p), Copied(p)
  PROVE  /\ Others(p) \in Seq(Message) /\ Ordered(Others(p)) /\ Later(Others(p), p, inbox[p])
         /\ \A i \in 1 .. Len(Others(p)) : Has(queue.messages, Others(p)[i])
         /\ \A i \in 1 .. Len(Others(p)) :
              Others(p)[i].to = p => FirstMessage(p).id < Others(p)[i].id
         /\ \A i \in 1 .. Len(queue.messages) :
              Has(Others(p), queue.messages[i]) \/ queue.messages[i] = FirstMessage(p)
              \/ Handled(queue.messages[i].id)
         /\ \A j \in 1 .. Len(inbox[p]) : inbox[p][j].id < FirstMessage(p).id
         /\ Has(queue.messages, FirstMessage(p))
  <1> DEFINE s == InCall(p).copy
             f == First(p)
             r == Others(p)
  <1>1. s \in Seq(Message)
    BY DEF BrokerTypes, LocalRec, CallRec, InCall
  <1>2. /\ f \in 1 .. Len(s) /\ FirstMessage(p) = s[f] /\ s[f].to = p
        /\ \A j \in 1 .. Len(s) : s[j].to = p => f <= j
        /\ Len(s) \in Nat
    BY <1>1, FirstOfMine
  <1>3. Ordered(s)
    BY DEF Copied
  <1>4. /\ r \in Seq(Message) /\ Ordered(r)
        /\ \A i \in 1 .. Len(r) : \E k \in 1 .. Len(s) \ {f} : r[i] = s[k]
        /\ \A k \in 1 .. Len(s) \ {f} : Has(r, s[k])
    BY <1>1, <1>2, <1>3, Removed DEF Others
  <1>5. /\ \A i \in 1 .. Len(s) : Has(queue.messages, s[i])
        /\ \A i \in 1 .. Len(queue.messages) :
             Has(s, queue.messages[i]) \/ Handled(queue.messages[i].id)
        /\ Later(s, p, inbox[p])
    BY DEF Copied
  <1> HIDE DEF s, f, r
  <1>6. ASSUME NEW i \in 1 .. Len(r)
        PROVE  /\ Has(queue.messages, r[i]) /\ r[i].to = p => s[f].id < r[i].id
               /\ r[i].to = p => \A j \in 1 .. Len(inbox[p]) : inbox[p][j].id < r[i].id
    <2>1. PICK k \in 1 .. Len(s) \ {f} : r[i] = s[k]
      BY <1>4
    <2>2. Has(queue.messages, s[k])
      BY <1>5
    <2>3. s[k].to = p => f < k
      BY <1>2
    <2>4. s[k].to = p => s[f].id < s[k].id
      BY <1>2, <1>3, <2>3 DEF Ordered
    <2>5. s[k].to = p => \A j \in 1 .. Len(inbox[p]) : inbox[p][j].id < s[k].id
      BY <1>5 DEF Later
    <2> QED
      BY <2>1, <2>2, <2>4, <2>5
  <1>7. ASSUME NEW i \in 1 .. Len(queue.messages), Has(s, queue.messages[i])
        PROVE  Has(r, queue.messages[i]) \/ queue.messages[i] = s[f]
    <2>1. PICK k \in 1 .. Len(s) : s[k] = queue.messages[i]
      BY <1>7 DEF Has
    <2> QED
      BY <1>4, <2>1
  <1>8. \A j \in 1 .. Len(inbox[p]) : inbox[p][j].id < s[f].id
    BY <1>2, <1>5 DEF Later
  <1>9. Has(queue.messages, s[f])
    BY <1>2, <1>5
  <1>10. Later(r, p, inbox[p])
    BY <1>6 DEF Later
  <1>11. FirstMessage(p) = s[f]
    BY <1>2
  <1> QED
    BY <1>4, <1>5, <1>6, <1>7, <1>8, <1>9, <1>10, <1>11 DEF r

(* What was dealt with stays so.                                            *)
LEMMA HandledStays ==
  ASSUME BrokerTypes, BrokerTypes', NEW p \in Procs, \A q \in Procs \ {p} : inbox'[q] = inbox[q],
         \A i \in 1 .. Len(inbox[p]) : \E j \in 1 .. Len(inbox'[p]) : inbox'[p][j] = inbox[p][i],
         history.dropped \subseteq history'.dropped
  PROVE  \A id \in Nat : Handled(id) => Handled(id)'
  <1>1. \A q \in Procs : /\ DOMAIN inbox[q] = 1 .. Len(inbox[q])
                         /\ DOMAIN inbox'[q] = 1 .. Len(inbox'[q])
    BY LenProperties DEF BrokerTypes
  <1>2. ASSUME NEW id \in Nat, InBox(id) PROVE InBox(id)'
    <2>1. PICK q \in Procs : \E i \in 1 .. Len(inbox[q]) : inbox[q][i].id = id
      BY <1>1, <1>2 DEF InBox
    <2>2. PICK i \in 1 .. Len(inbox[q]) : inbox[q][i].id = id
      BY <2>1
    <2>3. \E j \in 1 .. Len(inbox'[q]) : inbox'[q][j].id = id
      <3>1. CASE q = p
        BY <2>2, <3>1
      <3>2. CASE q # p
        BY <2>2, <3>2
      <3> QED
        BY <3>1, <3>2
    <2> QED
      BY <1>1, <2>3 DEF InBox
  <1> QED
    BY <1>2 DEF Handled

-----------------------------------------------------------------------------
(* p's first message goes to its window, or is dropped.                     *)
Delivered(p) ==
  \/ inbox'[p] = inbox[p] /\ history'.dropped = history.dropped \cup {FirstMessage(p).id}
  \/ /\ \E d \in Delivery : d.id = FirstMessage(p).id /\ inbox'[p] = Append(inbox[p], d)
     /\ history'.dropped = history.dropped

(* An inbox stays ordered, and nothing dealt with is forgotten.             *)
LEMMA InboxGrows ==
  ASSUME BInv, ~history.gaveUp, NEW p \in Procs, Phase(p) \in Taking,
         ~NoneFor(InCall(p).copy, p), BrokerTypes', Delivered(p),
         \A q \in Procs \ {p} : inbox'[q] = inbox[q], history'.lastId = history.lastId
  PROVE  /\ Ordered(inbox'[p]) /\ Below(inbox'[p], history.lastId)
         /\ \A j \in 1 .. Len(inbox'[p]) : inbox'[p][j].id <= FirstMessage(p).id
         /\ \A id \in Nat : Handled(id) => Handled(id)'
         /\ \A id \in Nat : id = FirstMessage(p).id => Handled(id)'
  <1> DEFINE m == FirstMessage(p)
             box == inbox[p]
             n == history.lastId
  <1>1. /\ BrokerTypes /\ FileInv /\ Copied(p) /\ box \in Seq(Delivery) /\ n \in Nat
        /\ queue.messages \in Seq(Message) /\ InCall(p).copy \in Seq(Message)
    BY DEF BInv, QueueInv, Own, BrokerTypes, FileType, HistoryRec, InCall, LocalRec, CallRec
  <1>2. /\ \A j \in 1 .. Len(box) : box[j].id < m.id
        /\ Has(queue.messages, m)
    BY <1>1, LeftAfterFirst
  <1>3. m.id \in Nat /\ m.id <= n
    <2>1. m.id \in Nat
      BY <1>1, FirstOfMine
    <2> QED
      BY <1>1, <1>2, <2>1 DEF FileInv, Below, Has
  <1>4. Ordered(box) /\ Below(box, n) /\ Len(box) \in Nat
    BY <1>1, LenProperties DEF FileInv
  <1>5. \A i \in 1 .. Len(box) : box[i] \in Delivery /\ box[i].id \in Nat
    <2>1. \A i \in 1 .. Len(box) : box[i] \in Delivery
      BY <1>1, ElementOfSeq
    <2>2. \A x \in Delivery : x.id \in Nat
      BY DEF Delivery
    <2> QED
      BY <2>1, <2>2
  <1> HIDE DEF m, box, n
  <1>6. CASE inbox'[p] = box /\ history'.dropped = history.dropped \cup {m.id}
    <2>1. \A id \in Nat : Handled(id) => Handled(id)'
      <3>1. \A i \in 1 .. Len(inbox[p]) : \E j \in 1 .. Len(inbox'[p]) : inbox'[p][j] = inbox[p][i]
        BY <1>6 DEF box
      <3>2. history.dropped \subseteq history'.dropped
        BY <1>6
      <3> QED
        BY <1>1, <3>1, <3>2, HandledStays
    <2>2. \A id \in Nat : id = m.id => Handled(id)'
      BY <1>6 DEF Handled
    <2>3. \A j \in 1 .. Len(box) : box[j].id <= m.id
      BY <1>2, <1>3, <1>5
    <2> QED
      BY <1>4, <1>6, <2>1, <2>2, <2>3 DEF m, n
  <1>7. ASSUME NEW d \in Delivery, d.id = m.id, inbox'[p] = Append(box, d),
               history'.dropped = history.dropped
        PROVE  /\ Ordered(inbox'[p]) /\ Below(inbox'[p], n)
               /\ \A j \in 1 .. Len(inbox'[p]) : inbox'[p][j].id <= m.id
               /\ \A id \in Nat : Handled(id) => Handled(id)'
               /\ \A id \in Nat : id = m.id => Handled(id)'
    <2> DEFINE r == Append(box, d)
    <2>1. /\ r \in Seq(Delivery) /\ Ordered(r) /\ Below(r, n)
          /\ Len(r) = Len(box) + 1 /\ r[Len(box) + 1] = d
          /\ \A i \in 1 .. Len(box) : r[i] = box[i]
      <3>1. \A x \in Delivery : x.id \in Nat
        BY DEF Delivery
      <3>2. \A i \in 1 .. Len(box) : box[i].id < d.id
        BY <1>2, <1>7
      <3>3. d.id <= n /\ n \in Nat /\ box \in Seq(Delivery)
        BY <1>1, <1>3, <1>7 DEF n
      <3> QED
        BY <1>4, <3>1, <3>2, <3>3, Appended
    <2>2. inbox'[p] = r
      BY <1>7
    <2> HIDE DEF r
    <2>3. ASSUME NEW j \in 1 .. Len(r) PROVE r[j].id <= m.id
      <3>1. j \in 1 .. Len(box) \/ j = Len(box) + 1
        BY <1>4, <2>1
      <3> QED
        BY <1>2, <1>3, <1>5, <1>7, <2>1, <3>1, SMTT(20)
    <2>4. Len(r) \in 1 .. Len(r) /\ Len(r) = Len(box) + 1
          /\ \A i \in 1 .. Len(box) : i \in 1 .. Len(r)
      BY <1>4, <2>1
    <2>5. \A id \in Nat : Handled(id) => Handled(id)'
      <3>1. \A i \in 1 .. Len(inbox[p]) : \E j \in 1 .. Len(inbox'[p]) : inbox'[p][j] = inbox[p][i]
        BY <2>1, <2>2, <2>4 DEF box
      <3> QED
        BY <1>1, <1>7, <3>1, HandledStays
    <2>6. \A id \in Nat : id = m.id => InBox(id)'
      <3>1. DOMAIN inbox'[p] = 1 .. Len(r)
        BY <2>1, <2>2, LenProperties
      <3>2. inbox'[p][Len(r)].id = m.id
        BY <1>7, <2>1, <2>2
      <3> QED
        BY <2>4, <3>1, <3>2 DEF InBox
    <2> QED
      BY <2>1, <2>2, <2>3, <2>5, <2>6 DEF Handled
  <1>8. \/ inbox'[p] = box /\ history'.dropped = history.dropped \cup {m.id}
        \/ \E d \in Delivery : d.id = m.id /\ inbox'[p] = Append(box, d)
                               /\ history'.dropped = history.dropped
    BY DEF Delivered, m, box
  <1> QED
    BY <1>6, <1>7, <1>8 DEF m, n

(* Where the poll stands then.                                              *)
LEMMA TakingGoesOn ==
  ASSUME BInv, ~history.gaveUp, NEW p \in Procs, Phase(p) \in {"take", "import"},
         ~NoneFor(InCall(p).copy, p), BrokerTypes', Delivered(p), Phase(p)' = "take",
         \A q \in Procs \ {p} : inbox'[q] = inbox[q], history'.lastId = history.lastId,
         UNCHANGED <<queue, stat>>, local'[p].alive = local[p].alive,
         local'[p].call.copy = Others(p), local'[p].call.changed,
         local'[p].call.seen = local[p].call.seen, lock'["queue"] = lock["queue"]
  PROVE  /\ Own(p)' /\ Ordered(inbox'[p]) /\ Below(inbox'[p], history.lastId)
         /\ \A id \in Nat : Handled(id) => Handled(id)'
  <1> DEFINE m == FirstMessage(p)
             s == Others(p)
  <1>1. BrokerTypes /\ Own(p) /\ Copied(p) /\ Phase(p) \in Taking /\ Phase(p) \in Holding
    BY DEF BInv, QueueInv, Own, Taking, Holding
  <1>2. /\ Ordered(inbox'[p]) /\ Below(inbox'[p], history.lastId)
        /\ \A j \in 1 .. Len(inbox'[p]) : inbox'[p][j].id <= m.id
        /\ \A id \in Nat : Handled(id) => Handled(id)'
        /\ \A id \in Nat : id = m.id => Handled(id)'
    BY <1>1, InboxGrows
  <1>3. /\ s \in Seq(Message) /\ Ordered(s)
        /\ \A i \in 1 .. Len(s) : Has(queue.messages, s[i])
        /\ \A i \in 1 .. Len(s) : s[i].to = p => m.id < s[i].id
        /\ \A i \in 1 .. Len(queue.messages) :
             Has(s, queue.messages[i]) \/ queue.messages[i] = m
             \/ Handled(queue.messages[i].id)
    BY <1>1, LeftAfterFirst
  <1>4. /\ InCall(p)' = local'[p].call /\ InCall(p) = local[p].call
        /\ (Alive(p)' <=> Alive(p)) /\ FileStat' = FileStat
    BY DEF InCall, Alive, FileStat
  <1>5. m.id \in Nat
    BY <1>1, FirstOfMine DEF BrokerTypes, InCall, LocalRec, CallRec
  <1>6. /\ \A i \in 1 .. Len(s) : s[i].id \in Nat
        /\ \A i \in 1 .. Len(queue.messages) : queue.messages[i].id \in Nat
    <2>1. queue.messages \in Seq(Message)
      BY <1>1 DEF BrokerTypes, FileType
    <2>2. /\ \A i \in 1 .. Len(s) : s[i] \in Message
          /\ \A i \in 1 .. Len(queue.messages) : queue.messages[i] \in Message
      BY <1>3, <2>1, ElementOfSeq
    <2>3. \A x \in Message : x.id \in Nat
      BY DEF Message
    <2> QED
      BY <2>2, <2>3
  <1>7. \A j \in 1 .. Len(inbox'[p]) : inbox'[p][j].id \in Nat
    <2>1. inbox'[p] \in Seq(Delivery)
      BY DEF BrokerTypes
    <2>2. \A j \in 1 .. Len(inbox'[p]) : inbox'[p][j] \in Delivery
      BY <2>1, ElementOfSeq
    <2>3. \A x \in Delivery : x.id \in Nat
      BY DEF Delivery
    <2> QED
      BY <2>2, <2>3
  <1> HIDE DEF m, s
  <1>8. Later(s, p, inbox'[p])
    BY <1>2, <1>3, <1>5, <1>6, <1>7 DEF Later
  <1>9. \A i \in 1 .. Len(queue.messages) :
          Has(s, queue.messages[i]) \/ Handled(queue.messages[i].id)'
    <2> SUFFICES ASSUME NEW i \in 1 .. Len(queue.messages)
                 PROVE  Has(s, queue.messages[i]) \/ Handled(queue.messages[i].id)'
      OBVIOUS
    <2>1. PICK id \in Nat : id = queue.messages[i].id /\ id = queue'.messages[i].id
      BY <1>6
    <2>2. Has(s, queue.messages[i]) \/ id = m.id \/ Handled(id)
      BY <1>3, <2>1
    <2>3. Has(s, queue.messages[i]) \/ Handled(id)'
      BY <1>2, <2>2
    <2> QED
      BY <2>1, <2>3
  <1>10. InCall(p)'.copy = s
    BY <1>4 DEF s
  <1>11. Copied(p)'
    BY <1>3, <1>4, <1>8, <1>9, <1>10 DEF Copied
  <1>12. Stamped(p) => Stamped(p)'
    BY <1>1, <1>4 DEF Stamped, Taking
  <1>13. Own(p)'
    BY <1>1, <1>4, <1>11, <1>12 DEF Own, Taking, Holding
  <1> QED
    BY <1>2, <1>13

(* The step as a whole.                                                     *)
LEMMA TakesOne ==
  ASSUME BInv, NEW p \in Procs, Phase(p) \in {"take", "import"},
         ~NoneFor(InCall(p).copy, p), MInv', Phase(p)' = "take",
         \A q \in Procs \ {p} : /\ local'[q] = local[q] /\ Phase(q)' = Phase(q)
                                /\ inbox'[q] = inbox[q],
         local' \in [Procs -> LocalRec], local'[p].alive = local[p].alive,
         p \notin local'[p].imported, local'[p].call.copy = Others(p),
         local'[p].call.changed, local'[p].call.to = local[p].call.to,
         local'[p].call.seen = local[p].call.seen,
         lock' \in [Locks -> Procs \cup {NoProc}],
         \A l \in Locks, q \in Procs \ {p} : lock'[l] = q <=> lock[l] = q,
         lock'["queue"] = lock["queue"], lock'["registry"] # p,
         UNCHANGED <<queue, stat, registry, posted>>,
         inbox' \in [Procs -> Seq(Delivery)], history' \in HistoryRec,
         history'.lastId = history.lastId, history'.gaveUp = history.gaveUp, Delivered(p)
  PROVE  BInv'
  <1>1. BrokerTypes'
    BY DEF BInv, BrokerTypes
  <1>2. InCall(p)' = local'[p].call /\ InCall(p) = local[p].call /\ Locked(p)
    BY DEF InCall, BInv
  <1>3. Locked(p)'
    BY <1>2 DEF Locked, Holding, Posting
  <1>4. history.dropped \subseteq history'.dropped
    BY DEF Delivered
  <1>5. ASSUME ~history.gaveUp
        PROVE  /\ Own(p)' /\ Ordered(inbox'[p]) /\ Below(inbox'[p], history.lastId)
               /\ \A id \in Nat : Handled(id) => Handled(id)'
    <2>1. UNCHANGED <<queue, stat>> /\ \A q \in Procs \ {p} : inbox'[q] = inbox[q]
      OBVIOUS
    <2> QED
      BY <1>1, <1>5, <2>1, TakingGoesOn
  <1>6. \A q \in Procs \ {p} : local'[q] = local[q] /\ Phase(q)' = Phase(q)
                               /\ inbox'[q] = inbox[q] /\ stat'[q] = stat[q]
    OBVIOUS
  <1>7. UNCHANGED <<queue, posted>>
    OBVIOUS
  <1> QED
    BY <1>1, <1>3, <1>4, <1>5, <1>6, <1>7, OthersKeep

-----------------------------------------------------------------------------
(* The locals of p once its first message is taken.                         *)
TakenCall(p) == [local[p].call EXCEPT !.copy = Others(p), !.changed = TRUE]

(* They are those of a call.                                                *)
LEMMA TakenCallType ==
  ASSUME BrokerTypes, NEW p \in Procs, ~NoneFor(InCall(p).copy, p)
  PROVE  /\ TakenCall(p) \in CallRec /\ TakenCall(p).copy = Others(p) /\ TakenCall(p).changed
         /\ TakenCall(p).to = local[p].call.to /\ TakenCall(p).seen = local[p].call.seen
  <1>1. /\ local[p].call \in CallRec /\ InCall(p) = local[p].call
        /\ InCall(p).copy \in Seq(Message)
    BY DEF BrokerTypes, LocalRec, CallRec, InCall
  <1>2. First(p) \in 1 .. Len(InCall(p).copy)
    BY <1>1, FirstOfMine
  <1>3. Others(p) \in Seq(Message)
    BY <1>1, <1>2, RemoveAtSeq DEF Others
  <1>4. TRUE \in Flags
    BY DEF Flags
  <1> QED
    BY <1>1, <1>3, <1>4 DEF TakenCall, CallRec

(* It is a delivery, and the inbox with it is as Delivered says.            *)
LEMMA ArrivalType ==
  ASSUME BInv, NEW p \in Procs, ~NoneFor(InCall(p).copy, p),
         inbox' = [inbox EXCEPT ![p] = Append(inbox[p], Arrival(p, FirstMessage(p)))],
         history'.dropped = history.dropped
  PROVE  /\ inbox' \in [Procs -> Seq(Delivery)] /\ Delivered(p)
         /\ \A q \in Procs \ {p} : inbox'[q] = inbox[q]
  <1> DEFINE d == Arrival(p, FirstMessage(p))
             box == Append(inbox[p], d)
  <1>1. MInv /\ inbox \in [Procs -> Seq(Delivery)] /\ InCall(p).copy \in Seq(Message)
    BY DEF BInv, BrokerTypes, InCall, LocalRec, CallRec
  <1>2. /\ FirstMessage(p).id \in Nat /\ FirstMessage(p).from \in Procs
        /\ FirstMessage(p).sent \in Data
    BY <1>1, FirstOfMine
  <1>3. Showing(p) \in Data
    BY <1>1, KnownData DEF Showing
  <1>4. d \in Delivery /\ d.id = FirstMessage(p).id
    BY <1>2, <1>3 DEF Arrival, Delivery, Torn, Flags
  <1> HIDE DEF d
  <1>5. box \in Seq(Delivery)
    BY <1>1, <1>4, AppendProperties
  <1>6. inbox' = [inbox EXCEPT ![p] = box]
    BY DEF d
  <1>7. inbox'[p] = Append(inbox[p], d)
    BY <1>1, <1>6
  <1> HIDE DEF box
  <1>8. inbox' \in [Procs -> Seq(Delivery)] /\ \A q \in Procs \ {p} : inbox'[q] = inbox[q]
    BY <1>1, <1>5, <1>6
  <1> QED
    BY <1>4, <1>7, <1>8 DEF Delivered

(* Mine is not empty if and only if a message is for p.                     *)
LEMMA MineIsThere ==
  ASSUME BrokerTypes, NEW p \in Procs
  PROVE  (Mine(p) # {}) <=> ~NoneFor(InCall(p).copy, p)
  <1>1. InCall(p).copy \in Seq(Message)
    BY DEF BrokerTypes, InCall, LocalRec, CallRec
  <1>2. DOMAIN InCall(p).copy = 1 .. Len(InCall(p).copy)
    BY <1>1, LenProperties
  <1> QED
    BY <1>2 DEF Mine, NoneFor

(* A message is taken, or the poll waits for the registry first.            *)
LEMMA TakeMessageKeeps ==
  ASSUME BInv, NEW p \in Procs, TakeMessage(p)
  PROVE  BInv'
  <1>1. Step(p, "take") /\ "take" \notin Syncing
        /\ "importLock" \in Ats \ (Syncing \cup {"mapping", "unmap"})
    BY DEF TakeMessage, Syncing, Ats, Holding
  <1>2. /\ job[p].at \notin Syncing /\ Alive(p) /\ MInv /\ Phase(p) = "take" /\ BrokerTypes
        /\ Locked(p) /\ local \in [Procs -> LocalRec] /\ history \in HistoryRec
        /\ local[p] \in LocalRec
    BY <1>1, AtStep
  <1>3. ~NoneFor(InCall(p).copy, p)
    BY <1>2, MineIsThere DEF TakeMessage
  <1>4. UNCHANGED <<file, view, opened, writes, queue, stat, lock, registry, posted>>
    BY DEF TakeMessage, mapFiles
  <1>5. CASE NeedsImport(p, FirstMessage(p))
    <2>1. job' = Goto(p, "importLock") /\ UNCHANGED <<local, inbox, history>>
      BY <1>5 DEF TakeMessage
    <2>2. MInv' /\ Moves(p, "importLock")
      BY <1>1, <1>2, <1>4, <2>1, BrokerGoto
    <2>3. Phase(p)' = "importLock" /\ InCall(p)' = InCall(p)
      BY <2>1, <2>2 DEF Moves, InCall
    <2>4. Locked(p)'
      BY <1>2, <1>3, <1>4, <2>1, <2>3 DEF Locked, Holding, Listing, Posting
    <2>5. \A id \in Nat : Handled(id) => Handled(id)'
      BY <2>1 DEF Handled, InBox
    <2>6. ASSUME ~history.gaveUp PROVE Own(p)'
      <3>1. Own(p)
        BY <2>6 DEF BInv, QueueInv
      <3>2. Phase(p) \in Taking /\ Phase(p)' \in Taking
        BY <1>2, <2>3 DEF Taking
      <3> QED
        BY <1>2, <1>4, <2>1, <2>5, <3>1, <3>2, TakingOwn
    <2> QED
      BY <1>2, <1>4, <2>1, <2>2, <2>4, <2>6, QuietStep DEF BrokerTypes
  <1>6. CASE ~NeedsImport(p, FirstMessage(p))
    <2> DEFINE c == TakenCall(p)
    <2>1. Taken(p, FirstMessage(p)) /\ UNCHANGED job
      BY <1>6 DEF TakeMessage
    <2>2. /\ c \in CallRec /\ c.copy = Others(p) /\ c.changed
          /\ c.to = local[p].call.to /\ c.seen = local[p].call.seen
      BY <1>2, <1>3, TakenCallType
    <2>3. local' = SetCall(p, c)
      BY <2>1 DEF Taken, TakenCall, SetCall
    <2> HIDE DEF c
    <2>4. /\ local' \in [Procs -> LocalRec] /\ local'[p].call = c
          /\ \A q \in Procs \ {p} : local'[q] = local[q]
          /\ \A q \in Procs : local'[q].alive = local[q].alive
          /\ local'[p].imported = local[p].imported
      BY <1>2, <2>2, <2>3, CallSet
    <2>5. MInv' /\ \A q \in Procs : Phase(q)' = Phase(q)
      BY <1>2, <1>4, <2>1, <2>4, MInvSame
    <2>6. /\ inbox' \in [Procs -> Seq(Delivery)] /\ history' \in HistoryRec
          /\ history'.lastId = history.lastId /\ history'.gaveUp = history.gaveUp
          /\ Delivered(p) /\ \A q \in Procs \ {p} : inbox'[q] = inbox[q]
      <3>1. CASE local[p].window
        <4>1. inbox' = [inbox EXCEPT ![p] = Append(inbox[p], Arrival(p, FirstMessage(p)))] /\ history' = history
          BY <1>2, <2>1, <3>1 DEF Taken, BrokerTypes
        <4> QED
          BY <1>2, <1>3, <4>1, ArrivalType
      <3>2. CASE ~local[p].window
        <4>1. inbox' = inbox
              /\ history' = [history EXCEPT !.dropped = history.dropped \cup {FirstMessage(p).id}]
          BY <1>2, <2>1, <3>2 DEF Taken, HistoryRec
        <4>2. InCall(p).copy \in Seq(Message)
          BY <1>2 DEF BrokerTypes, InCall, LocalRec, CallRec
        <4>3. FirstMessage(p).id \in Nat
          BY <1>3, <4>2, FirstOfMine
        <4> DEFINE left == history.dropped \cup {FirstMessage(p).id}
        <4>4. left \in SUBSET Nat
          BY <1>2, <4>3 DEF HistoryRec
        <4>5. history' = [history EXCEPT !.dropped = left]
          BY <4>1
        <4> HIDE DEF left
        <4>6. /\ history' \in HistoryRec /\ history'.lastId = history.lastId
              /\ history'.gaveUp = history.gaveUp /\ history'.dropped = left
          BY <1>2, <4>4, <4>5 DEF HistoryRec
        <4> QED
          BY <1>2, <4>1, <4>6 DEF Delivered, left, BrokerTypes
      <3> QED
        BY <3>1, <3>2
    <2>7. p \notin local'[p].imported /\ lock["registry"] # p
      BY <1>2, <2>4 DEF Locked, Listing, Posting
    <2>8. lock' \in [Locks -> Procs \cup {NoProc}]
          /\ \A l \in Locks, q \in Procs \ {p} : lock'[l] = q <=> lock[l] = q
      BY <1>2, <1>4 DEF BrokerTypes
    <2> QED
      BY <1>2, <1>3, <1>4, <2>2, <2>4, <2>5, <2>6, <2>7, <2>8, TakesOne
  <1> QED
    BY <1>5, <1>6

(* It is what the call is about, and the windows imported, that change.      *)
LEMMA ImportSets ==
  ASSUME NEW p, ImportExternalWindow(p)
  PROVE  local' = [local EXCEPT ![p] =
           [local[p] EXCEPT
             !.call = TakenCall(p),
             !.imported = local[p].imported \cup ({FirstMessage(p).from} \cap registry)]]
  BY DEF ImportExternalWindow, TakenCall

(* A message is taken once its sender was looked up.                        *)
LEMMA ImportExternalWindowKeeps ==
  ASSUME BInv, NEW p \in Procs, ImportExternalWindow(p)
  PROVE  BInv'
  <1> DEFINE c == TakenCall(p)
             from == {FirstMessage(p).from} \cap registry
             seen == local[p].imported \cup from
             r == [local[p] EXCEPT !.call = c, !.imported = seen]
  <1>1. Step(p, "import") /\ "import" \notin Syncing
        /\ "take" \in Ats \ (Syncing \cup {"mapping", "unmap"})
    BY DEF ImportExternalWindow, Syncing, Ats, Holding
  <1>2. /\ job[p].at \notin Syncing /\ Alive(p) /\ MInv /\ Phase(p) = "import" /\ BrokerTypes
        /\ Locked(p) /\ local \in [Procs -> LocalRec] /\ history \in HistoryRec
        /\ local[p] \in LocalRec
    BY <1>1, AtStep
  <1>3. ~NoneFor(InCall(p).copy, p) /\ p \notin local[p].imported
    BY <1>2 DEF Locked
  <1>4. /\ UNCHANGED <<file, view, opened, writes, queue, stat, registry, posted, history>>
        /\ lock' = Released(p, {"registry"}) /\ job' = Goto(p, "take")
        /\ inbox' = [inbox EXCEPT ![p] = Append(inbox[p], Arrival(p, FirstMessage(p)))]
    BY <1>2 DEF ImportExternalWindow, mapFiles, BrokerTypes
  <1>5. /\ c \in CallRec /\ c.copy = Others(p) /\ c.changed
        /\ c.to = local[p].call.to /\ c.seen = local[p].call.seen
    BY <1>2, <1>3, TakenCallType
  <1>6. seen \in SUBSET Procs /\ p \notin seen
    <2>1. InCall(p).copy \in Seq(Message)
      BY <1>2 DEF BrokerTypes, InCall, LocalRec, CallRec
    <2>2. FirstMessage(p).from \in Procs \ {p}
      BY <1>3, <2>1, FirstOfMine
    <2> QED
      BY <1>2, <1>3, <2>2 DEF LocalRec
  <1>7. local' = [local EXCEPT ![p] = r]
    BY ImportSets
  <1> HIDE DEF c, seen
  <1>8. r \in LocalRec /\ r.call = c /\ r.imported = seen /\ r.alive = local[p].alive
    BY <1>2, <1>5, <1>6 DEF LocalRec
  <1> HIDE DEF r
  <1>9. /\ local' \in [Procs -> LocalRec] /\ local'[p] = r
        /\ \A q \in Procs \ {p} : local'[q] = local[q]
        /\ \A q \in Procs : local'[q].alive = local[q].alive
    BY <1>2, <1>7, <1>8
  <1>10. MInv' /\ Moves(p, "take")
    BY <1>1, <1>2, <1>4, <1>9, BrokerGoto
  <1>11. /\ inbox' \in [Procs -> Seq(Delivery)] /\ Delivered(p)
         /\ \A q \in Procs \ {p} : inbox'[q] = inbox[q]
    BY <1>3, <1>4, ArrivalType
  <1>12. /\ lock' \in [Locks -> Procs \cup {NoProc}]
         /\ \A l \in Locks, q \in Procs \ {p} : lock'[l] = q <=> lock[l] = q
         /\ lock'["registry"] # p /\ lock'["queue"] = lock["queue"]
    <2>1. {"registry"} \in SUBSET Locks /\ "queue" \in Locks \ {"registry"}
      BY DEF Locks
    <2> QED
      BY <1>2, <1>4, <2>1, ReleasedLocks
  <1>13. /\ Phase(p)' = "take" /\ \A q \in Procs \ {p} : Phase(q)' = Phase(q)
         /\ Phase(p) \in {"take", "import"}
    BY <1>2, <1>10 DEF Moves
  <1>14. /\ local'[p].alive = local[p].alive /\ p \notin local'[p].imported
         /\ local'[p].call.copy = Others(p) /\ local'[p].call.changed
         /\ local'[p].call.to = local[p].call.to /\ local'[p].call.seen = local[p].call.seen
    BY <1>5, <1>6, <1>8, <1>9
  <1> QED
    BY <1>2, <1>3, <1>4, <1>9, <1>10, <1>11, <1>12, <1>13, <1>14, TakesOne

-----------------------------------------------------------------------------
(* A file that is replaced looks as it never did before.                    *)
Renewed(old, new) ==
  \/ new.alike
  \/ /\ ~old.alike
     /\ \/ old.stamp < new.stamp
        \/ /\ old.stamp = new.stamp /\ old.sizes \subseteq new.sizes
           /\ Len(new.messages) \notin old.sizes

(* No look that somebody remembers is that of the new file.                 *)
LEMMA LooksNew ==
  ASSUME NEW old \in FileType, NEW new \in FileType, Renewed(old, new), ~new.alike,
         NEW x \in Seens, Past(old, x)
  PROVE  ~old.alike /\ Past(new, x) /\ ~(x[1] = new.stamp /\ x[2] = Len(new.messages))
  BY DEF Renewed, Past, Seens, FileType

LEMMA Replaced ==
  ASSUME BrokerTypes, NEW messages \in Seq(Message), Replace(messages)
  PROVE  /\ queue' \in FileType /\ queue'.messages = messages
         /\ Len(messages) \in queue'.sizes /\ Renewed(queue, queue')
  <1>1. /\ queue.stamp \in Nat /\ queue.sizes \in SUBSET Nat /\ queue.alike \in Flags
        /\ Len(messages) \in Nat
    BY LenProperties DEF BrokerTypes, FileType
  <1>2. PICK s \in Stamps :
          queue' = [messages |-> messages, stamp |-> s,
                    sizes |-> SizesAt(s) \cup {Len(messages)},
                    alike |-> queue.alike \/ Len(messages) \in SizesAt(s)]
    BY DEF Replace
  <1> DEFINE sizes == SizesAt(s) \cup {Len(messages)}
             alike == queue.alike \/ Len(messages) \in SizesAt(s)
  <1>3. s \in Nat /\ (s = queue.stamp \/ queue.stamp < s)
    BY <1>1 DEF Stamps
  <1>4. /\ sizes \in SUBSET Nat /\ Len(messages) \in sizes
        /\ s = queue.stamp => queue.sizes \subseteq sizes /\ SizesAt(s) = queue.sizes
    BY <1>1 DEF SizesAt
  <1>5. alike \in Flags
    BY DEF Flags
  <1>6. /\ queue'.messages = messages /\ queue'.stamp = s /\ queue'.sizes = sizes
        /\ queue'.alike = alike
    BY <1>2
  <1>7. queue' \in FileType
    <2> HIDE DEF sizes, alike
    <2> QED
      BY <1>2, <1>3, <1>4, <1>5 DEF FileType, sizes, alike
  <1>8. alike \/ (~queue.alike /\ Len(messages) \notin SizesAt(s))
    OBVIOUS
  <1> HIDE DEF sizes, alike
  <1> QED
    BY <1>3, <1>4, <1>6, <1>7, <1>8 DEF Renewed

(* Nobody else is in the middle of something with the queue while p, which  *)
(* holds its mutex, replaces the file.                                      *)
LEMMA OthersSeeFile ==
  ASSUME BrokerTypes, NEW p \in Procs, lock["queue"] = p, NEW q \in Procs \ {p}, Own(q),
         local'[q] = local[q], Phase(q)' = Phase(q), inbox'[q] = inbox[q], stat'[q] = stat[q],
         queue' \in FileType, Renewed(queue, queue'),
         Later(queue.messages, q, inbox[q]) => Later(queue'.messages, q, inbox[q])
  PROVE  Own(q)'
  <1>1. (Alive(q)' <=> Alive(q)) /\ InCall(q)' = InCall(q) /\ Phase(q) \notin Holding
    BY DEF Alive, InCall, Own
  <1>2. Phase(q) \notin Taking \cup {"append", "poll", "restat"}
    BY <1>1 DEF Holding, Taking
  <1>3. ASSUME ~queue'.alike PROVE Stamped(q)'
    <2>1. queue \in FileType /\ stat[q] \in Seens /\ InCall(q).seen \in Seens
      BY DEF BrokerTypes, LocalRec, CallRec, InCall
    <2>2. Past(queue, stat[q]) /\ Past(queue, InCall(q).seen)
      BY <1>3 DEF Own, Stamped, Renewed
    <2>3. /\ Past(queue', stat[q]) /\ Past(queue', InCall(q).seen)
          /\ ~(stat[q][1] = queue'.stamp /\ stat[q][2] = Len(queue'.messages))
      BY <1>3, <2>1, <2>2, LooksNew
    <2>4. stat'[q] # FileStat'
      BY <2>3 DEF FileStat
    <2> QED
      BY <1>1, <1>2, <2>3, <2>4 DEF Stamped
  <1> QED
    BY <1>1, <1>2, <1>3 DEF Own

(* A step of p that replaces the file.                                      *)
LEMMA FileStep ==
  ASSUME BInv, NEW p \in Procs, MInv', BrokerTypes', Locked(p)', UNCHANGED <<inbox, stat>>,
         history'.gaveUp = history.gaveUp, Phase(p) \in Holding,
         Renewed(queue, queue'),
         \A q \in Procs \ {p} : local'[q] = local[q] /\ Phase(q)' = Phase(q),
         \A l \in Locks, q \in Procs \ {p} : lock'[l] = q <=> lock[l] = q,
         ~history.gaveUp =>
           /\ Own(p)' /\ FileInv'
           /\ \A q \in Procs \ {p} :
                Later(queue.messages, q, inbox[q]) => Later(queue'.messages, q, inbox[q])
  PROVE  BInv'
  <1>1. \A q \in Procs \ {p} : Locked(q)'
    BY LockedKept DEF BInv
  <1>2. \A q \in Procs : Locked(q)'
    BY <1>1
  <1>3. ASSUME ~history.gaveUp PROVE QueueInv'
    <2>1. Own(p) /\ BrokerTypes /\ \A q \in Procs : Own(q)
      BY <1>3 DEF BInv, QueueInv
    <2>2. lock["queue"] = p /\ queue' \in FileType
      BY <2>1 DEF Own, BrokerTypes
    <2>3. \A q \in Procs \ {p} : Own(q)'
      BY <1>3, <2>1, <2>2, OthersSeeFile
    <2> QED
      BY <1>3, <2>3 DEF QueueInv
  <1> QED
    BY <1>2, <1>3 DEF BInv

(* A poll that took messages leaves the others in the file.                 *)
LEMMA PollRewriteKeeps ==
  ASSUME BInv, NEW p \in Procs, PollRewrite(p)
  PROVE  BInv'
  <1> DEFINE copy == InCall(p).copy
  <1>1. Step(p, "take") /\ "take" \notin Syncing
        /\ "restat" \in Ats \ (Syncing \cup {"mapping", "unmap"})
    BY DEF PollRewrite, Syncing, Ats, Holding
  <1>2. /\ job[p].at \notin Syncing /\ Alive(p) /\ MInv /\ Phase(p) = "take" /\ BrokerTypes
        /\ Locked(p) /\ local \in [Procs -> LocalRec] /\ history \in HistoryRec
    BY <1>1, AtStep
  <1>3. NoneFor(copy, p)
    BY <1>2, MineIsThere DEF PollRewrite
  <1>4. copy \in Seq(Message)
    BY <1>2 DEF BrokerTypes, InCall, LocalRec, CallRec
  <1>5. /\ queue' \in FileType /\ queue'.messages = copy /\ Len(copy) \in queue'.sizes
        /\ Renewed(queue, queue')
    BY <1>2, <1>4, Replaced DEF PollRewrite, Left
  <1>6. /\ UNCHANGED <<file, view, opened, writes, lock, stat, registry, local, inbox, posted, history>>
        /\ job' = Goto(p, "restat")
    BY DEF PollRewrite, HeldForRestat, mapFiles
  <1>7. copy \in Seq(Message) /\ queue'.messages = copy
    BY <1>4, <1>5
  <1>8. MInv' /\ Moves(p, "restat")
    BY <1>1, <1>2, <1>6, BrokerGoto
  <1>9. /\ Phase(p)' = "restat" /\ InCall(p)' = InCall(p) /\ (Alive(p)' <=> Alive(p))
        /\ \A q \in Procs \ {p} : Phase(q)' = Phase(q)
    BY <1>6, <1>8 DEF Moves, InCall, Alive
  <1>10. BrokerTypes'
    BY <1>2, <1>4, <1>5, <1>6, <1>7 DEF BrokerTypes
  <1>11. Locked(p)'
    BY <1>2, <1>6, <1>9 DEF Locked, Holding, Listing, Posting
  <1> HIDE DEF copy
  <1>12. ASSUME ~history.gaveUp
         PROVE  /\ Own(p)' /\ FileInv'
                /\ \A q \in Procs \ {p} :
                     Later(queue.messages, q, inbox[q]) => Later(queue'.messages, q, inbox[q])
    <2>1. FileInv /\ Own(p)
      BY <1>12 DEF BInv, QueueInv
    <2>2. /\ Ordered(copy) /\ Later(copy, p, inbox[p])
          /\ \A i \in 1 .. Len(copy) : Has(queue.messages, copy[i])
          /\ \A i \in 1 .. Len(queue.messages) :
               Has(copy, queue.messages[i]) \/ Handled(queue.messages[i].id)
      BY <1>2, <2>1 DEF Own, Copied, Taking, copy
    <2>3. Below(copy, history.lastId)
      BY <2>1, <2>2 DEF FileInv, Below, Has
    <2>4. ASSUME NEW id \in posted PROVE InFile(id)' \/ Handled(id)'
      <3>1. Handled(id) => Handled(id)'
        BY <1>6 DEF Handled, InBox
      <3>2. CASE InFile(id)
        <4>1. queue.messages \in Seq(Message)
          BY <1>2 DEF BrokerTypes, FileType
        <4>2. DOMAIN queue.messages = 1 .. Len(queue.messages) /\ DOMAIN copy = 1 .. Len(copy)
          BY <1>7, <4>1, LenProperties
        <4>3. PICK i \in 1 .. Len(queue.messages) : queue.messages[i].id = id
          BY <3>2, <4>2 DEF InFile
        <4>4. Has(copy, queue.messages[i]) \/ Handled(id)
          BY <2>2, <4>3
        <4>5. Has(copy, queue.messages[i]) => \E k \in DOMAIN copy : copy[k].id = id
          BY <4>2, <4>3 DEF Has
        <4> QED
          BY <1>7, <3>1, <4>4, <4>5 DEF InFile
      <3> QED
        BY <2>1, <3>1, <3>2 DEF FileInv
    <2>5. FileInv'
      BY <1>6, <1>7, <2>1, <2>2, <2>3, <2>4 DEF FileInv
    <2>6. ASSUME ~queue'.alike PROVE Stamped(p)'
      <3>1. queue \in FileType /\ stat[p] \in Seens /\ InCall(p).seen \in Seens
        BY <1>2 DEF BrokerTypes, LocalRec, CallRec, InCall
      <3>2. Past(queue, stat[p]) /\ Past(queue, InCall(p).seen)
        BY <1>5, <2>1, <2>6 DEF Own, Stamped, Renewed
      <3>3. Past(queue', stat[p]) /\ Past(queue', InCall(p).seen)
        BY <1>5, <2>6, <3>1, <3>2, LooksNew
      <3> QED
        BY <1>3, <1>6, <1>7, <1>9, <3>3 DEF Stamped
    <2>7. Own(p)'
      BY <1>2, <1>6, <1>7, <1>9, <2>1, <2>2, <2>6 DEF Own, Holding, Taking
    <2>8. ASSUME NEW q \in Procs \ {p}, Later(queue.messages, q, inbox[q])
          PROVE  Later(copy, q, inbox[q])
      <3>1. ASSUME NEW i \in 1 .. Len(copy), NEW j \in 1 .. Len(inbox[q]), copy[i].to = q
            PROVE  inbox[q][j].id < copy[i].id
        <4>1. PICK k \in 1 .. Len(queue.messages) : queue.messages[k] = copy[i]
          BY <2>2 DEF Has
        <4> QED
          BY <2>8, <3>1, <4>1 DEF Later
      <3> QED
        BY <3>1 DEF Later
    <2> QED
      BY <1>7, <2>5, <2>7, <2>8
  <1>13. Phase(p) \in Holding
    BY <1>2 DEF Holding
  <1> QED
    BY <1>2, <1>5, <1>6, <1>7, <1>8, <1>9, <1>10, <1>11, <1>12, <1>13, FileStep

-----------------------------------------------------------------------------
(* The message p posts.                                                     *)
Posted(p) == [id |-> history.lastId + 1, from |-> p, to |-> InCall(p).to,
              copydata |-> InCall(p).kind = "copydata", sent |-> Known(p)]

(* It is a message with a new number, to somebody else.                     *)
LEMMA PostedType ==
  ASSUME MInv, BrokerTypes, NEW p \in Procs, Locked(p), Phase(p) \in Posting
  PROVE  Posted(p) \in Message /\ Posted(p).id = history.lastId + 1 /\ history.lastId \in Nat
         /\ Posted(p).to # p
  <1> DEFINE flag == InCall(p).kind = "copydata"
  <1>1. history.lastId \in Nat /\ history.lastId + 1 \in Nat
    BY DEF BrokerTypes, HistoryRec
  <1>2. flag \in Flags
    BY DEF Flags
  <1> HIDE DEF flag
  <1>3. Known(p) \in Data
    BY KnownData
  <1>4. InCall(p).to \in Procs /\ InCall(p).to # p
    BY DEF Locked
  <1>5. Posted(p) = [id |-> history.lastId + 1, from |-> p, to |-> InCall(p).to,
                     copydata |-> flag, sent |-> Known(p)]
    BY DEF Posted, flag
  <1> QED
    BY <1>1, <1>2, <1>3, <1>4, <1>5 DEF Message

(* The file with a message more.                                            *)
LEMMA FileGrows ==
  ASSUME BrokerTypes, FileInv, NEW m \in Message, m.id = history.lastId + 1,
         queue'.messages = Append(queue.messages, m), UNCHANGED inbox,
         posted' = posted \cup {m.id}, history'.lastId = m.id,
         history'.dropped = history.dropped
  PROVE  /\ FileInv'
         /\ \A q \in Procs : Later(queue.messages, q, inbox[q])
                               => Later(queue'.messages, q, inbox[q])
  <1> DEFINE old == queue.messages
             new == Append(old, m)
             n == history.lastId
  <1>1. /\ old \in Seq(Message) /\ n \in Nat /\ posted \subseteq 1 .. n
        /\ inbox \in [Procs -> Seq(Delivery)] /\ \A x \in Message : x.id \in Nat
    BY DEF BrokerTypes, FileType, HistoryRec, Message
  <1>2. Ordered(old) /\ Below(old, n) /\ Len(old) \in Nat
    BY <1>1, LenProperties DEF FileInv
  <1>3. \A i \in 1 .. Len(old) : old[i].id \in Nat
    <2>1. \A i \in 1 .. Len(old) : old[i] \in Message
      BY <1>1, ElementOfSeq
    <2> QED
      BY <1>1, <2>1
  <1> HIDE DEF old, n
  <1>4. \A i \in 1 .. Len(old) : old[i].id <= n + 1 /\ old[i].id < m.id
    BY <1>1, <1>2, <1>3 DEF Below, n
  <1>5. n + 1 \in Nat /\ m.id = n + 1 /\ m.id <= n + 1 /\ Below(old, n + 1)
    BY <1>1, <1>4 DEF n, Below
  <1>6. /\ new \in Seq(Message) /\ Ordered(new) /\ Below(new, n + 1)
        /\ Len(new) = Len(old) + 1 /\ new[Len(old) + 1] = m
        /\ \A i \in 1 .. Len(old) : new[i] = old[i]
    BY <1>1, <1>2, <1>4, <1>5, Appended
  <1>7. queue'.messages = new
    BY DEF old
  <1> HIDE DEF new
  <1>8. DOMAIN new = 1 .. Len(old) + 1 /\ DOMAIN old = 1 .. Len(old)
    BY <1>1, <1>6, LenProperties
  <1>9. \A q \in Procs : \A j \in 1 .. Len(inbox[q]) : inbox[q][j].id \in Nat /\ inbox[q][j].id <= n
    <2>1. \A q \in Procs : inbox[q] \in Seq(Delivery) /\ Below(inbox[q], n)
      BY <1>1 DEF FileInv, n
    <2>2. \A q \in Procs : \A j \in 1 .. Len(inbox[q]) : inbox[q][j] \in Delivery
      BY <2>1, ElementOfSeq
    <2>3. \A x \in Delivery : x.id \in Nat
      BY DEF Delivery
    <2> QED
      BY <2>1, <2>2, <2>3 DEF Below
  <1>10. \A q \in Procs : Ordered(inbox'[q]) /\ Below(inbox'[q], n + 1)
    <2>1. \A q \in Procs : Ordered(inbox[q])
      BY DEF FileInv
    <2>2. \A q \in Procs : \A j \in 1 .. Len(inbox[q]) : inbox[q][j].id <= n + 1
      BY <1>1, <1>9
    <2> QED
      BY <2>1, <2>2 DEF Below
  <1>11. ASSUME NEW id \in posted' PROVE InFile(id)' \/ Handled(id)'
    <2>1. CASE id = m.id
      <3>1. Len(old) + 1 \in DOMAIN new /\ new[Len(old) + 1].id = id
        BY <1>2, <1>6, <1>8, <2>1
      <3> QED
        BY <1>7, <3>1 DEF InFile
    <2>2. CASE id \in posted
      <3>1. InFile(id) \/ Handled(id)
        BY <2>2 DEF FileInv
      <3>2. Handled(id) => Handled(id)'
        BY DEF Handled, InBox
      <3>3. ASSUME InFile(id) PROVE InFile(id)'
        <4>1. PICK i \in 1 .. Len(old) : old[i].id = id
          BY <1>8, <3>3 DEF InFile, old
        <4>2. i \in DOMAIN new /\ new[i].id = id
          BY <1>2, <1>6, <1>8, <4>1
        <4> QED
          BY <1>7, <4>2 DEF InFile
      <3> QED
        BY <3>1, <3>2, <3>3
    <2> QED
      BY <2>1, <2>2
  <1>12. FileInv'
    BY <1>5, <1>6, <1>7, <1>10, <1>11 DEF FileInv
  <1>13. ASSUME NEW q \in Procs, Later(old, q, inbox[q]) PROVE Later(new, q, inbox[q])
    <2>1. ASSUME NEW i \in 1 .. Len(new), NEW j \in 1 .. Len(inbox[q]), new[i].to = q
          PROVE  inbox[q][j].id < new[i].id
      <3>1. i \in 1 .. Len(old) \/ i = Len(old) + 1
        BY <1>2, <1>6
      <3>2. CASE i \in 1 .. Len(old)
        BY <1>6, <1>13, <2>1, <3>2 DEF Later
      <3>3. CASE i = Len(old) + 1
        BY <1>1, <1>5, <1>6, <1>9, <3>3
      <3> QED
        BY <3>1, <3>2, <3>3
    <2> QED
      BY <2>1 DEF Later
  <1> QED
    BY <1>7, <1>12, <1>13 DEF old

(* A post replaces the file by one with its message.                        *)
LEMMA PostAppendKeeps ==
  ASSUME BInv, NEW p \in Procs, PostAppend(p)
  PROVE  BInv'
  <1> DEFINE m == Posted(p)
             copy == InCall(p).copy
             new == Append(copy, m)
             n == history.lastId + 1
             all == InCall(p).kind = "broadcast"
             c == IF all THEN [local[p].call EXCEPT !.copy = << >>] ELSE NoCall
             step == IF all THEN "next" ELSE "idle"
  <1>1. /\ Step(p, "append") /\ "append" \notin Syncing
        /\ step \in Ats \ (Syncing \cup {"mapping", "unmap"}) /\ step \in {"next", "idle"}
    BY DEF PostAppend, Syncing, Ats, Holding, Listing, MapPhases
  <1>2. /\ job[p].at \notin Syncing /\ Alive(p) /\ MInv /\ Phase(p) = "append" /\ BrokerTypes
        /\ Locked(p) /\ local \in [Procs -> LocalRec] /\ history \in HistoryRec
        /\ local[p].call \in CallRec /\ NoCall \in CallRec /\ InCall(p) = local[p].call
    BY <1>1, AtStep DEF InCall
  <1>3. m \in Message /\ m.id = n /\ n \in Nat /\ history.lastId \in Nat
    BY <1>2, PostedType DEF Posting
  <1>4. copy \in Seq(Message) /\ new \in Seq(Message)
    <2>1. copy \in Seq(Message)
      BY <1>2 DEF CallRec
    <2> HIDE DEF copy, m
    <2> QED
      BY <1>3, <2>1, AppendProperties
  <1>5. /\ queue' \in FileType /\ queue'.messages = new /\ Len(new) \in queue'.sizes
        /\ Renewed(queue, queue')
    <2>1. Replace(new)
      BY DEF PostAppend, Posted
    <2> HIDE DEF new
    <2> QED
      BY <1>2, <1>4, <2>1, Replaced
  <1>6. /\ UNCHANGED <<file, view, opened, writes, stat, registry, inbox>>
        /\ lock' = Released(p, {"queue"}) /\ posted' = posted \cup {n}
        /\ history' = [history EXCEPT !.lastId = n]
    BY DEF PostAppend, mapFiles
  <1>7. local' = SetCall(p, c) /\ job' = Goto(p, step)
    BY DEF PostAppend, SetCall
  <1>8. /\ c \in CallRec /\ c.to \in {NoProc, local[p].call.to}
        /\ c.seen \in {NoStat, local[p].call.seen}
        /\ all => c.kind = "broadcast" /\ c.targets = local[p].call.targets
    <2>1. << >> \in Seq(Message)
      BY EmptySeq
    <2> QED
      BY <1>2, <2>1 DEF CallRec, NoCall
  <1>9. copy \in Seq(Message) /\ new \in Seq(Message) /\ queue'.messages = new
    BY <1>4, <1>5
  <1> HIDE DEF m, copy, new, n, c
  <1>10. /\ local' \in [Procs -> LocalRec] /\ local'[p].call = c
         /\ \A q \in Procs \ {p} : local'[q] = local[q]
         /\ \A q \in Procs : local'[q].alive = local[q].alive
         /\ local'[p].imported = local[p].imported
    BY <1>2, <1>7, <1>8, CallSet
  <1>11. MInv' /\ Moves(p, step)
    <2> HIDE DEF step
    <2> QED
      BY <1>1, <1>2, <1>6, <1>7, <1>10, BrokerGoto
  <1>12. /\ Phase(p)' = step /\ InCall(p)' = c /\ (Alive(p)' <=> Alive(p))
         /\ \A q \in Procs \ {p} : Phase(q)' = Phase(q)
    BY <1>10, <1>11 DEF Moves, InCall, Alive
  <1>13. /\ lock' \in [Locks -> Procs \cup {NoProc}]
         /\ \A l \in Locks, q \in Procs \ {p} : lock'[l] = q <=> lock[l] = q
         /\ lock'["queue"] # p /\ lock'["registry"] = lock["registry"]
    <2>1. {"queue"} \in SUBSET Locks /\ "registry" \in Locks \ {"queue"}
      BY DEF Locks
    <2> QED
      BY <1>2, <1>6, <2>1, ReleasedLocks
  <1>14. /\ history' \in HistoryRec /\ history'.lastId = n /\ history'.gaveUp = history.gaveUp
         /\ history'.dropped = history.dropped
    BY <1>2, <1>3, <1>6 DEF HistoryRec
  <1>15. posted' \subseteq 1 .. n
    BY <1>2, <1>3, <1>6 DEF BrokerTypes, n
  <1>16. BrokerTypes'
    <2>1. queue' \in FileType /\ Len(queue'.messages) \in queue'.sizes
      BY <1>5
    <2> QED
      BY <1>2, <1>6, <1>10, <1>13, <1>14, <1>15, <2>1 DEF BrokerTypes
  <1>17. Locked(p)'
    <2>1. NoProc # p /\ local[p].call.to # p /\ p \notin local[p].imported
      BY <1>2, BrokerAssumption DEF Locked
    <2>2. c.to # p
      BY <1>8, <2>1
    <2>3. CASE all
      <3>1. step = "next" /\ p \notin c.targets /\ c.kind = "broadcast"
        BY <1>2, <1>8, <2>3 DEF Locked, Posting
      <3> QED
        BY <1>10, <1>12, <1>13, <2>1, <2>2, <3>1 DEF Locked, Holding, Listing, Posting
    <2>4. CASE ~all
      <3>1. step = "idle" /\ lock["registry"] # p
        BY <1>2, <2>4 DEF Locked, Listing, Posting
      <3> QED
        BY <1>10, <1>12, <1>13, <2>1, <2>2, <3>1 DEF Locked, Holding, Listing, Posting
    <2> QED
      BY <2>3, <2>4
  <1>18. ASSUME ~history.gaveUp
         PROVE  /\ Own(p)' /\ FileInv'
                /\ \A q \in Procs \ {p} :
                     Later(queue.messages, q, inbox[q]) => Later(queue'.messages, q, inbox[q])
    <2>1. FileInv /\ Own(p)
      BY <1>18 DEF BInv, QueueInv
    <2>2. copy = queue.messages /\ Later(queue.messages, p, inbox[p])
      BY <1>2, <2>1 DEF Own, Taking, copy
    <2>3. queue'.messages = Append(queue.messages, m)
      BY <1>9, <2>2 DEF new
    <2>4. FileInv' /\ \A q \in Procs : Later(queue.messages, q, inbox[q])
                                         => Later(queue'.messages, q, inbox[q])
      <3>1. m.id = history.lastId + 1 /\ UNCHANGED inbox /\ posted' = posted \cup {m.id}
            /\ history'.lastId = m.id
        BY <1>3, <1>6, <1>14 DEF n
      <3> QED
        BY <1>2, <1>3, <1>14, <2>1, <2>3, <3>1, FileGrows
    <2>5. ASSUME ~queue'.alike PROVE Stamped(p)'
      <3>1. queue \in FileType /\ stat[p] \in Seens /\ local[p].call.seen \in Seens
        BY <1>2 DEF BrokerTypes, LocalRec, CallRec
      <3>2. NoStat \in Seens /\ Past(queue, NoStat)
        BY <1>2, FileStatType DEF NoStat, Seens
      <3>3. Past(queue, stat[p]) /\ Past(queue, local[p].call.seen)
        BY <1>2, <1>5, <2>1, <2>5 DEF Own, Stamped, Renewed
      <3>4. /\ Past(queue', stat[p]) /\ Past(queue', local[p].call.seen) /\ Past(queue', NoStat)
            /\ ~(stat[p][1] = queue'.stamp /\ stat[p][2] = Len(queue'.messages))
        BY <1>5, <2>5, <3>1, <3>2, <3>3, LooksNew
      <3>5. stat'[p] # FileStat' /\ Past(queue', c.seen)
        BY <1>6, <1>8, <3>4 DEF FileStat
      <3>6. Phase(p)' # "restat"
        BY <1>1, <1>12
      <3> QED
        BY <1>6, <1>12, <3>4, <3>5, <3>6 DEF Stamped
    <2>6. Own(p)'
      BY <1>1, <1>6, <1>12, <2>1, <2>2, <2>4, <2>5 DEF Own, Holding, Taking
    <2> QED
      BY <2>4, <2>6
  <1>19. Phase(p) \in Holding /\ Renewed(queue, queue')
    BY <1>2, <1>5 DEF Holding
  <1>20. UNCHANGED <<inbox, stat>>
    BY <1>6
  <1> QED
    BY <1>10, <1>11, <1>12, <1>13, <1>14, <1>16, <1>17, <1>18, <1>19, <1>20, FileStep

-----------------------------------------------------------------------------
(* The initial states, the mapping.                                         *)
LEMMA InitMapping ==
  ASSUME Init
  PROVE  MInv /\ \A p \in Procs : Phase(p) = "idle" /\ Alive(p)
  <1>1. 0 \in Vals /\ 0 \in 0 .. MaxWrites /\ << >> \in Seq(Views)
    BY MappingAssumption, EmptySeq DEF Vals
  <1>2. Idle \in JobRec /\ Idle.at = "idle" /\ Idle.todo = << >>
    BY <1>1 DEF Idle, JobRec, Ats, MapPhases, Thens, Flags
  <1>3. job \in [Procs -> JobRec] /\ \A p \in Procs : job[p] = Idle
    BY <1>2 DEF Init
  <1>4. \A p \in Procs : Phase(p) = "idle" /\ Alive(p)
    BY <1>2, <1>3 DEF Phase, Syncing, Init, Alive
  <1>5. file \in FileRec
    <2>1. [c \in Cells |-> 0] \in [Cells -> Vals]
      BY <1>1
    <2>2. NoFile \in FileRec
      BY <2>1 DEF NoFile, FileRec
    <2>3. NewFile \in FileRec
      BY <2>2 DEF NewFile, FileRec
    <2> QED
      BY <2>2, <2>3 DEF Init
  <1>6. Unmapped \in ViewRec /\ Unmapped.refs = 0
    <2>1. NoBytes \in [{} -> Vals] /\ {} \in SUBSET Cells
      BY DEF NoBytes
    <2>2. NoBytes \in Mems
      BY <2>1, MemOf
    <2> QED
      BY <2>2 DEF Unmapped, ViewRec
  <1>7. ASSUME NEW v \in Views PROVE Loaded(v) \in ViewRec /\ Loaded(v).mem \in [ViewCells[v] -> Vals]
    <2>1. PICK m : m = [c \in ViewCells[v] |-> 0]
      OBVIOUS
    <2>2. ViewCells[v] \in SUBSET Cells
      BY MappingAssumption
    <2>3. m \in [ViewCells[v] -> Vals]
      BY <1>1, <2>1
    <2>4. m \in Mems
      BY <2>2, <2>3, MemOf
    <2>5. Loaded(v) = [refs |-> 1, seen |-> 1, mem |-> m, shadow |-> m]
      BY <2>1 DEF Loaded
    <2> QED
      BY <2>3, <2>4, <2>5 DEF ViewRec
  <1>8. view \in [Views -> ViewRec]
    BY <1>6, <1>7 DEF Init
  <1>9. ViewInv
    BY <1>6, <1>7 DEF Init, ViewInv
  <1>10. opened \subseteq Procs /\ writes \in 0 .. MaxWrites
    BY <1>1 DEF Init
  <1>11. Len(<< >>) = 0
    BY EmptySeq
  <1>12. \A p \in Procs : TodoInv(p)
    BY <1>2, <1>3, <1>4, <1>11 DEF TodoInv, Syncing
  <1> QED
    BY <1>3, <1>4, <1>5, <1>8, <1>9, <1>10, <1>12 DEF MInv, MapTypes

(* The initial states.                                                      *)
LEMMA InitBroker ==
  ASSUME Init
  PROVE  BInv
  <1>1. MInv /\ \A p \in Procs : Phase(p) = "idle" /\ Alive(p)
    BY InitMapping
  <1>2. /\ << >> \in Seq(Message) /\ << >> \in Seq(Delivery) /\ Len(<< >>) = 0
        /\ NoCall \in CallRec /\ NoStat \in Seens
    BY EmptySeq, NoCallType DEF NoStat, Seens
  <1>3. /\ queue = [messages |-> << >>, stamp |-> 0, sizes |-> {0}, alike |-> FALSE]
        /\ stat = [p \in Procs |-> NoStat]
        /\ lock = [l \in Locks |-> NoProc] /\ inbox = [p \in Procs |-> << >>] /\ posted = {}
        /\ history = [started |-> 0, lastId |-> 0, gaveUp |-> FALSE, windows |-> 0, dropped |-> {}]
    BY DEF Init
  <1>4. registry \subseteq Procs
    BY DEF Init
  <1> DEFINE w == ~Does("find")
             imports(p) == IF Does("find") \/ (Does("copydata") /\ p # Writer)
                             THEN {} ELSE Procs \ {p}
  <1>5. w \in Flags /\ TRUE \in Flags /\ FALSE \in Flags
    BY DEF Flags
  <1>6. \A p \in Procs : imports(p) \in SUBSET Procs /\ p \notin imports(p)
    OBVIOUS
  <1>7. local = [p \in Procs |-> [alive |-> TRUE, window |-> w, call |-> NoCall,
                                  imported |-> imports(p)]]
    BY DEF Init
  <1> HIDE DEF w, imports
  <1>8. \A p \in Procs : local[p] \in LocalRec /\ local[p].call = NoCall
                         /\ p \notin local[p].imported
    BY <1>2, <1>5, <1>6, <1>7 DEF LocalRec
  <1>9. local \in [Procs -> LocalRec]
    BY <1>2, <1>5, <1>6, <1>7 DEF LocalRec
  <1>10. history \in HistoryRec
    BY <1>3, <1>5 DEF HistoryRec
  <1>11. BrokerTypes
    <2>1. {0} \in SUBSET Nat /\ 0 \in {0}
      OBVIOUS
    <2>2. queue \in FileType
      BY <1>2, <1>3, <1>5, <2>1 DEF FileType
    <2>3. queue.messages = << >> /\ queue.sizes = {0}
      BY <1>3
    <2>4. Len(queue.messages) \in queue.sizes
      BY <1>2, <2>1, <2>3
    <2> QED
      BY <1>2, <1>3, <1>4, <1>9, <1>10, <2>2, <2>4 DEF BrokerTypes
  <1>12. ASSUME NEW p \in Procs PROVE Locked(p)
    <2>1. NoProc # p /\ InCall(p) = NoCall /\ NoCall.to = NoProc
      BY <1>8, BrokerAssumption DEF InCall, NoCall
    <2>2. lock["queue"] = NoProc /\ lock["registry"] = NoProc
      BY <1>3 DEF Locks
    <2> QED
      BY <1>1, <1>8, <2>1, <2>2 DEF Locked, Posting
  <1>13. FileInv
    BY <1>2, <1>3 DEF FileInv, Ordered, Below
  <1>14. ASSUME NEW p \in Procs PROVE Own(p)
    <2>1. InCall(p) = NoCall /\ NoCall.seen = NoStat /\ stat[p] = NoStat
          /\ Past(queue, NoStat)
      BY <1>3, <1>8, <1>11, FileStatType DEF InCall, NoCall
    <2>2. queue.messages = << >> /\ inbox[p] = << >>
      BY <1>3
    <2>3. NoneFor(queue.messages, p) /\ Later(queue.messages, p, inbox[p])
      BY <1>2, <2>2 DEF NoneFor, Later
    <2>4. Stamped(p)
      BY <1>1, <2>1, <2>2, <2>3 DEF Stamped
    <2> QED
      BY <1>1, <2>3, <2>4 DEF Own, Holding, Taking
  <1> QED
    BY <1>1, <1>11, <1>12, <1>13, <1>14 DEF BInv, QueueInv

(* Every step.                                                              *)
LEMMA NextBroker ==
  ASSUME BInv, [Next]_<<vars, calls>>
  PROVE  BInv'
  <1>1. CASE UNCHANGED <<vars, calls>>
    <2>1. UNCHANGED <<file, view, job, opened, writes, queue, stat, lock, registry, local,
                      inbox, posted, history>>
      BY <1>1 DEF vars, mapVars, brokerVars
    <2>2. MInv' /\ \A p \in Procs : Phase(p)' = Phase(p)
      <3>1. MInv /\ \A q \in Procs : local'[q].alive = local[q].alive
        BY <2>1 DEF BInv
      <3> QED
        BY <2>1, <3>1, MInvSame
    <2>3. BrokerTypes' /\ \A p \in Procs : Locked(p)'
      BY <2>1, <2>2, LockedKept DEF BInv, BrokerTypes
    <2>4. ASSUME ~history.gaveUp PROVE QueueInv'
      <3>1. FileInv' /\ \A id \in Nat : Handled(id) => Handled(id)'
        BY <2>1, <2>4 DEF BInv, QueueInv, FileInv, InFile, Handled, InBox
      <3>2. \A p \in Procs : Own(p)'
        BY <2>1, <2>2, <2>4, <3>1, OwnKept DEF BInv, QueueInv
      <3> QED
        BY <3>1, <3>2 DEF QueueInv
    <2> QED
      BY <2>1, <2>2, <2>3, <2>4 DEF BInv
  <1>2. ASSUME NEW p \in Procs, MapPart(p) PROVE BInv'
    BY <1>2, MapPartKeeps
  <1>3. ASSUME NEW p \in Procs, CallStep(p) PROVE BInv'
    <2>1. CASE PublishRead(p) \/ PublishWrite(p) \/ FindExternalGuestWindow(p)
      BY <2>1, PublishReadKeeps, PublishWriteKeeps, FindExternalGuestWindowKeeps
    <2>2. CASE BroadcastList(p) \/ BroadcastNext(p) \/ PostRead(p) \/ PostAppend(p)
      BY <2>2, BroadcastListKeeps, BroadcastNextKeeps, PostReadKeeps, PostAppendKeeps
    <2>3. CASE PollRead(p) \/ TakeMessage(p) \/ ImportExternalWindow(p) \/ PollNothing(p)
      BY <2>3, PollReadKeeps, TakeMessageKeeps, ImportExternalWindowKeeps, PollNothingKeeps
    <2>4. CASE PollRewrite(p) \/ PollRestat(p)
      BY <2>4, PollRewriteKeeps, PollRestatKeeps
    <2>5. CASE WaitLock(p)
      BY <2>5, AcquireKeeps, GiveUpKeeps DEF WaitLock
    <2> QED
      BY <1>3, <2>1, <2>2, <2>3, <2>4, <2>5 DEF CallStep
  <1>4. ASSUME NEW p \in Procs, PollCrossProcessGuestMessages(p) PROVE BInv'
    BY <1>4, PollCrossProcessGuestMessagesKeeps
  <1>5. ASSUME NEW p \in Procs,
               PublishGuestWindowState(p) \/ FindWindow(p) \/ Broadcast(p) \/ Crash(p)
        PROVE  BInv'
    BY <1>5, PublishGuestWindowStateKeeps, FindWindowKeeps, BroadcastKeeps, CrashKeeps
  <1>6. ASSUME NEW p \in Procs, NEW q \in Procs, NEW kind \in {"post", "copydata"},
               PostMessage(p, q, kind)
        PROVE  BInv'
    BY <1>6, PostMessageKeeps
  <1> QED
    BY <1>1, <1>2, <1>3, <1>4, <1>5, <1>6 DEF Next

(* BInv is an invariant: every action keeps it.                             *)
THEOREM BrokerInvariant == Spec => []BInv
  <1>1. Init => BInv
    BY InitBroker
  <1>2. BInv /\ [Next]_<<vars, calls>> => BInv'
    BY NextBroker
  <1> QED
    BY <1>1, <1>2, PTL DEF Spec

(* The files, the mutexes, the registry and what every process keeps of     *)
(* them have the shapes their readers expect, and a process outside its     *)
(* calls holds no mutex.                                                    *)
THEOREM BrokerType == Spec => []TypeOK
  <1>1. BInv => TypeOK
    <2> SUFFICES ASSUME BInv PROVE TypeOK
      OBVIOUS
    <2>1. MInv /\ BrokerTypes /\ \A p \in Procs : Locked(p)
      BY DEF BInv
    <2>2. file.version \in Nat /\ file.bytes \in [Cells -> Vals]
      BY <2>1 DEF MInv, MapTypes, FileRec
    <2>3. \A v \in Views : /\ view[v].refs \in 0 .. 2
                           /\ view[v].refs > 0 => view[v].mem \in [ViewCells[v] -> Vals]
      BY <2>1 DEF MInv, MapTypes, ViewInv, ViewRec
    <2>4. ASSUME NEW l \in Locks, lock[l] # NoProc PROVE job[lock[l]].at # "idle"
      <3>1. PICK p \in Procs : lock[l] = p
        BY <2>1, <2>4 DEF BrokerTypes
      <3>2. Phase(p) \in Holding \cup Listing \cup Posting
        BY <2>1, <3>1 DEF Locked, Locks
      <3> QED
        BY <3>1, <3>2 DEF Phase, Syncing, Holding, Listing, Posting
    <2>5. \A p \in Procs : local[p].imported \subseteq Procs \ {p}
      BY <2>1 DEF BrokerTypes, LocalRec, Locked
    <2> QED
      BY <2>1, <2>2, <2>3, <2>4, <2>5 DEF TypeOK, BrokerTypes
  <1> QED
    BY <1>1, BrokerInvariant, PTL

(* Every message whose post reported success is in the file, has reached a  *)
(* window, or had none to reach, unless a wait for a mutex gave up.         *)
THEOREM MessagesKept == Spec => []NoMessageLost
  <1>1. BInv => NoMessageLost
    BY DEF BInv, QueueInv, FileInv, Handled, NoMessageLost
  <1> QED
    BY <1>1, BrokerInvariant, PTL

(* A window gets its messages once each, in the order of their posting,     *)
(* unless a wait for a mutex gave up.                                       *)
THEOREM MessagesInOrder == Spec => []TakenOnceInOrder
  <1>1. BInv => TakenOnceInOrder
    <2> SUFFICES ASSUME BInv, ~history.gaveUp, NEW p \in Procs
                 PROVE  \A i, j \in DOMAIN inbox[p] : i < j => inbox[p][i].id < inbox[p][j].id
      BY DEF TakenOnceInOrder
    <2>1. Ordered(inbox[p]) /\ inbox[p] \in Seq(Delivery)
      BY DEF BInv, QueueInv, FileInv, BrokerTypes
    <2>2. DOMAIN inbox[p] = 1 .. Len(inbox[p])
      BY <2>1, LenProperties
    <2> QED
      BY <2>1, <2>2 DEF Ordered
  <1> QED
    BY <1>1, BrokerInvariant, PTL

(* A process that finds the file as it was last time overlooks no message,  *)
(* however many writes share a time stamp, unless one of them gave the file *)
(* a stamp and size it had had before, or a wait for a mutex gave up.       *)
THEOREM NothingOverlooked == Spec => [](history.gaveUp \/ NotOverlooked)
  <1>1. BInv => (history.gaveUp \/ NotOverlooked)
    <2> SUFFICES ASSUME BInv, ~history.gaveUp, ~queue.alike, NEW p \in Procs,
                        Alive(p), stat[p] = FileStat, job[p].at # "restat"
                 PROVE  \A i \in DOMAIN queue.messages : queue.messages[i].to # p
      BY DEF NotOverlooked
    <2>1. Stamped(p) /\ queue.messages \in Seq(Message) /\ job[p].then \in Thens
      BY DEF BInv, QueueInv, Own, BrokerTypes, FileType, MInv, MapTypes, JobRec
    <2>2. Phase(p) # "restat"
      BY <2>1 DEF Phase, Thens
    <2>3. DOMAIN queue.messages = 1 .. Len(queue.messages)
      BY <2>1, LenProperties
    <2> QED
      BY <2>1, <2>2, <2>3 DEF Stamped, NoneFor
  <1> QED
    BY <1>1, BrokerInvariant, PTL

-----------------------------------------------------------------------------
(* The versions.  The races the code does nothing against are left out: one *)
(* process stores, nobody creates or maps beside a call that writes, and    *)
(* bytes that stay in a stream's buffer have no other process to read them. *)
NoRace ==
  /\ ~Does("writers") /\ ~Does("mapRace") /\ ~Does("createRace")
  /\ Does("small") => Does("solo")

W == job[Writer]

(* The process that stores died between its bytes and its version.          *)
Stuck == ~Alive(Writer) /\ W.at \in Writing

(* The last version whose bytes are all in the file.                        *)
Top == IF W.at \in {"store", "close"} THEN W.ver - 1 ELSE file.version

(* The others never write.                                                  *)
Readers ==
  /\ \A p \in Procs \ {Writer} : /\ job[p].at \notin Writing /\ ~job[p].force
                                 /\ Does("solo") => job[p].at = "idle"
  /\ \A v \in Views : ViewProc[v] # Writer => view[v].mem = view[v].shadow

(* Who creates or maps is the only one to do so, and nobody writes.         *)
Lonely == {"created", "versioned", "mapping"}
Apart == \A p \in Procs : job[p].at \in Lonely =>
           \A q \in Procs \ {p} : job[q].at \notin Writing \cup Lonely

(* Before the file has a version nobody has a view of it; a view that is    *)
(* being mapped shows the file.                                             *)
NoViews == opened = {} /\ W.at \notin Writing /\ \A v \in Views : view[v].refs = 0
Creation ==
  /\ ~file.versioned => NoViews
  /\ ~file.exists => ~file.versioned
  /\ \A p \in Procs :
       /\ job[p].at = "versioned" => NoViews /\ file.versioned
       /\ job[p].at = "created" => file.exists /\ (job[p].arg = 0 => ~file.versioned)
       /\ job[p].at = "mapping" => /\ file.versioned
                                   /\ view[job[p].arg].mem = Shown(job[p].arg)
                                   /\ view[job[p].arg].shadow = Shown(job[p].arg)

(* Nobody has seen a version that is still to be stored.                    *)
Versions ==
  /\ \A v \in Views : view[v].refs > 0 => view[v].seen <= Top
  /\ \A p \in Procs : job[p].at = "load" => Alive(p) /\ job[p].ver <= Top
  /\ W.at = "trunc" => W.ver = file.version + 1
  /\ W.at = "store" => file.version < W.ver
  /\ W.at = "close" => file.version = W.ver /\ Does("small")

(* The view that is written is in the file before its version is.           *)
Written ==
  W.at \in {"bump", "trunc", "store", "reread"} /\ (BytesFirst \/ W.at = "reread") =>
    Shown(W.todo[1]) = view[W.todo[1]].mem

(* A view that has seen the version of the file has its bytes.              *)
Current ==
  W.at \notin {"bump", "trunc", "store", "close"} =>
    \A v \in Views : view[v].refs > 0 /\ view[v].seen = file.version =>
                       view[v].shadow = Shown(v)

InStep == Readers /\ Apart /\ Creation /\ Versions /\ Written /\ Current
VInv == NoRace => Stuck \/ InStep

(* Where a process neither synchronises nor creates nor maps.               *)
Elsewhere == Ats \ (Syncing \cup Lonely)

(* The names, told apart.                                                   *)
LEMMA PlaceNames ==
  /\ Writing = Syncing \ {"sync", "load"} /\ Thens \subseteq Elsewhere
  /\ Lonely \cap Syncing = {} /\ Elsewhere \cap (Syncing \cup Lonely) = {}
  /\ "sync" \notin Writing \cup Lonely /\ "load" \notin Writing \cup Lonely
  /\ "sync" \notin Elsewhere /\ "load" \notin Elsewhere
  BY DEF Writing, Syncing, Thens, Elsewhere, Lonely, Ats, MapPhases, Holding, Posting, Listing

(* What is known of a process that makes a step, and of the others.         *)
LEMMA Actor ==
  ASSUME MInv, NoRace, ~Stuck, InStep, NEW p \in Procs, Free(p), p = Writer \/ ~Does("solo")
  PROVE  /\ \A q \in Procs \ {p} : job[q].at \notin Lonely
         /\ p # Writer => /\ ~Does("solo") /\ W.at \notin Lonely /\ W.at # "close"
                          /\ ~job[p].force /\ job[p].at \notin Writing
  <1>1. \A q \in Procs \ {p} : job[q].at \notin Lonely
    BY DEF Free, Alone, NoRace, Lonely
  <1>2. Writer \in Procs
    BY MappingAssumption
  <1> QED
    BY <1>1, <1>2 DEF NoRace, InStep, Readers, Versions, W

(* A step of p that leaves the file alone and does not bring p where        *)
(* something is written, read, created or mapped.                           *)
LEMMA QuietVersions ==
  ASSUME MInv, MInv', NoRace, ~Stuck, InStep, NEW p \in Procs, UNCHANGED <<file, calls>>,
         opened' \subseteq opened,
         \A q \in Procs \ {p} : job'[q] = job[q] /\ (Alive(q)' <=> Alive(q)),
         p = Writer => job[p].at \notin Writing,
         job'[p].at \in Elsewhere \cup {"sync"},
         p # Writer => ~job'[p].force /\ (Does("solo") => job'[p].at = "idle"),
         \A v \in Views : ViewProc[v] # p => view'[v] = view[v],
         \A v \in Views : view'[v].refs > 0 =>
           /\ view[v].refs > 0 /\ view'[v].shadow = view[v].shadow
           /\ view'[v].seen = view[v].seen,
         \A v \in Views : ViewProc[v] # Writer => view'[v].mem = view'[v].shadow
  PROVE  InStep'
  <1>1. /\ Readers /\ Apart /\ Creation /\ Versions /\ Written /\ Current /\ Writer \in Procs
        /\ job'[p].at \notin Writing \cup Lonely \cup {"load"}
    BY PlaceNames, MappingAssumption DEF InStep
  <1>2. W'.at \in Writing => p # Writer /\ W' = W
    BY <1>1 DEF W
  <1>3. p # Writer => W' = W
    BY <1>1 DEF W
  <1>4. Top' = Top
    <2>1. CASE p = Writer
      BY <1>1, <2>1 DEF Top, W, Writing
    <2>2. CASE p # Writer
      BY <1>3, <2>2 DEF Top
    <2> QED
      BY <2>1, <2>2
  <1>5. Readers'
    BY <1>1 DEF Readers, Writing, Does
  <1>6. Apart'
    BY <1>1 DEF Apart, Writing
  <1>7. NoViews => NoViews'
    <2> SUFFICES ASSUME NoViews PROVE NoViews'
      OBVIOUS
    <2>1. W'.at \notin Writing /\ opened' = {}
      BY <1>2 DEF NoViews, Writing
    <2>2. ASSUME NEW v \in Views PROVE view'[v].refs = 0
      <3>1. view'[v].refs \in Nat /\ ~(view'[v].refs > 0)
        BY DEF NoViews, MInv, MapTypes, ViewRec
      <3> QED
        BY <3>1
    <2> QED
      BY <2>1, <2>2 DEF NoViews, Writing
  <1>8. Creation'
    <2>1. ASSUME NEW q \in Procs
          PROVE  /\ job'[q].at = "versioned" => NoViews' /\ file'.versioned
                 /\ job'[q].at = "created" =>
                      file'.exists /\ (job'[q].arg = 0 => ~file'.versioned)
                 /\ job'[q].at = "mapping" =>
                      /\ file'.versioned
                      /\ (view[job[q].arg].mem = Shown(job[q].arg))'
                      /\ (view[job[q].arg].shadow = Shown(job[q].arg))'
      <3>1. CASE q = p
        BY <1>1, <3>1 DEF Lonely
      <3>2. CASE q # p
        <4>1. job'[q] = job[q]
          BY <3>2
        <4>2. job[q].at = "mapping" => view'[job[q].arg] = view[job[q].arg]
          <5> SUFFICES ASSUME job[q].at = "mapping" PROVE view'[job[q].arg] = view[job[q].arg]
            OBVIOUS
          <5>1. Phase(q) = "mapping" /\ TodoInv(q)
            BY DEF MInv, Phase, Syncing
          <5> QED
            BY <3>2, <5>1 DEF TodoInv
        <4>3. (Shown(job[q].arg))' = Shown(job[q].arg)
          BY <4>1 DEF Shown
        <4> QED
          BY <1>1, <1>7, <4>1, <4>2, <4>3 DEF Creation
      <3> QED
        BY <3>1, <3>2
    <2> QED
      BY <1>1, <1>7, <2>1 DEF Creation
  <1>9. Versions'
    <2>1. \A v \in Views : view'[v].refs > 0 => view'[v].seen <= Top'
      BY <1>1, <1>4 DEF Versions
    <2>2. \A q \in Procs : job'[q].at = "load" => Alive(q)' /\ job'[q].ver <= Top'
      BY <1>1, <1>4 DEF Versions
    <2>3. W'.at \in {"trunc", "store", "close"} => W' = W
      BY <1>2 DEF Writing
    <2> QED
      BY <1>1, <2>1, <2>2, <2>3 DEF Versions, Does
  <1>10. Written'
    <2> SUFFICES ASSUME W'.at \in {"bump", "trunc", "store", "reread"},
                        (BytesFirst \/ W.at = "reread")'
                 PROVE  (Shown(W.todo[1]) = view[W.todo[1]].mem)'
      BY DEF Written
    <2>1. W' = W /\ p # Writer
      BY <1>2 DEF Writing
    <2>2. Shown(W.todo[1]) = view[W.todo[1]].mem
      BY <1>1, <2>1 DEF Written, BytesFirst, Does
    <2>3. W.todo[1] \in Views /\ ViewProc[W.todo[1]] = Writer
      BY <1>1, <2>1, AtHand DEF W, Syncing, Writing, Stuck
    <2>4. (Shown(W.todo[1]))' = Shown(W.todo[1])
      BY <2>1 DEF Shown
    <2> QED
      BY <2>1, <2>2, <2>3, <2>4
  <1>11. Current'
    <2>1. W'.at \notin {"bump", "trunc", "store", "close"} => W.at \notin {"bump", "trunc", "store", "close"}
      BY <1>2, <1>3 DEF W, Writing
    <2>2. \A v \in Views : Shown(v)' = Shown(v)
      BY DEF Shown
    <2> QED
      BY <1>1, <2>1, <2>2 DEF Current
  <1> QED
    BY <1>5, <1>6, <1>8, <1>9, <1>10, <1>11 DEF InStep

(* What GotoJob and NextViewJob do not say.                                 *)
LEMMA GotoLocals ==
  ASSUME job \in [Procs -> JobRec], NEW p \in Procs, NEW step \in Ats
  PROVE  Goto(p, step)[p].force = job[p].force /\ Goto(p, step)[p].ver = job[p].ver
  BY DEF Goto, JobRec

(* The next view is not forced unless this one was.                         *)
LEMMA NextViewLocals ==
  ASSUME job \in [Procs -> JobRec], NEW p \in Procs
  PROVE  NextView(p)[p].force \in {FALSE, job[p].force}
  <1>1. CASE Len(job[p].todo) > 1
    BY <1>1 DEF NextView, JobRec
  <1>2. CASE ~(Len(job[p].todo) > 1)
    BY <1>2 DEF NextView, JobRec
  <1> QED
    BY <1>1, <1>2

(* A process that synchronises has a view, so the file has a version.       *)
LEMMA SyncHasVersion ==
  ASSUME MInv, InStep, NEW p \in Procs, Alive(p), job[p].at \in Syncing
  PROVE  file.versioned /\ ~NoViews /\ \A q \in Procs : job[q].at # "versioned"
  <1>1. job[p].todo[1] \in Views /\ view[job[p].todo[1]].refs > 0
    BY AtHand
  <1>2. ~NoViews
    BY <1>1 DEF NoViews
  <1> QED
    BY <1>2 DEF InStep, Creation

(* Creation stays true while p does nothing but synchronise.                *)
LEMMA SyncCreation ==
  ASSUME MInv, InStep, NEW p \in Procs, Alive(p), job[p].at \in Syncing,
         \A q \in Procs \ {p} : job'[q] = job[q] /\ job[q].at \notin Lonely,
         job'[p].at \notin Lonely,
         file'.versioned = file.versioned, file'.exists = file.exists
  PROVE  Creation' /\ Apart'
  <1>1. file.versioned /\ Creation /\ Apart
    BY SyncHasVersion DEF InStep
  <1>2. \A q \in Procs : job'[q].at \notin Lonely
    OBVIOUS
  <1>3. Apart'
    BY <1>2 DEF Apart
  <1>4. Creation'
    BY <1>1, <1>2 DEF Creation, Lonely
  <1> QED
    BY <1>3, <1>4

(* A view that is written is in the file then.                              *)
LEMMA WholeView ==
  ASSUME MInv, NEW v \in Views, view[v].mem \in [ViewCells[v] -> Vals], file' = WriteBytes(v)
  PROVE  /\ (Shown(v))' = view[v].mem
         /\ file'.version = file.version /\ file'.versioned = file.versioned
         /\ file'.exists = file.exists
  <1> DEFINE b == [c \in Cells |-> IF c \in ViewCells[v] THEN view[v].mem[c] ELSE file.bytes[c]]
  <1>1. file \in FileRec /\ ViewCells[v] \in SUBSET Cells
    BY MappingAssumption DEF MInv, MapTypes
  <1>2. file' = [file EXCEPT !.bytes = b]
    BY DEF WriteBytes
  <1>3. \A c \in ViewCells[v] : b[c] = view[v].mem[c]
    BY <1>1
  <1> HIDE DEF b
  <1>4. /\ file'.bytes = b /\ file'.version = file.version
        /\ file'.versioned = file.versioned /\ file'.exists = file.exists
    BY <1>1, <1>2 DEF FileRec
  <1>5. (Shown(v))' = [c \in ViewCells[v] |-> view[v].mem[c]]
    BY <1>3, <1>4 DEF Shown
  <1> QED
    BY <1>4, <1>5

(* The writer's steps between its bytes and its version.                    *)
LEMMA WritingVersions ==
  ASSUME MInv, MInv', NoRace, ~Stuck, InStep, NEW p \in Procs, Alive(p), UNCHANGED <<calls, local>>,
         Free(p), p = Writer \/ ~Does("solo"),
         SyncWrite(p) \/ BumpVersion(p) \/ TruncateVersion(p) \/ StoreVersion(p) \/ CloseBytes(p)
  PROVE  InStep'
  <1>1. /\ Readers /\ Apart /\ Creation /\ Versions /\ Written /\ Current
        /\ job \in [Procs -> JobRec] /\ file \in FileRec /\ view \in [Views -> ViewRec]
        /\ UNCHANGED view
    BY DEF InStep, MInv, MapTypes, SyncWrite, BumpVersion, TruncateVersion, StoreVersion,
           CloseBytes
  <1>2. job[p].at \in Syncing
    BY DEF SyncWrite, BumpVersion, TruncateVersion, StoreVersion, CloseBytes, At, Syncing
  <1>3. PICK v \in Views :
          /\ v = job[p].todo[1] /\ ViewProc[v] = p
          /\ view[v].mem \in [ViewCells[v] -> Vals]
    BY <1>2, AtHand
  <1>4. p = Writer
    <2> SUFFICES ASSUME p # Writer PROVE FALSE
      OBVIOUS
    <2>1. job[p].at \notin Writing /\ ~job[p].force
      BY <1>1 DEF Readers
    <2>2. SyncWrite(p) /\ view[v].mem = view[v].shadow
      BY <1>1, <1>3, <2>1 DEF Readers, BumpVersion, TruncateVersion, StoreVersion, CloseBytes,
                              At, Writing
    <2> QED
      BY <1>3, <2>1, <2>2 DEF SyncWrite, Changed
  <1>5. /\ W = job[p] /\ W \in JobRec /\ W' = job'[p] /\ file.version \in Nat /\ W.ver \in Nat
    BY <1>1, <1>4 DEF W, JobRec, FileRec
  <1>6. \A q \in Procs \ {p} : job[q].at \notin Lonely
    BY Actor
  <1>7. \A w \in Views : view[w].seen \in Nat
    BY <1>1 DEF ViewRec
  <1>8. \A q \in Procs : job[q].ver \in Nat
    BY <1>1 DEF JobRec
  <1>9. Top \in Int /\ Shown(v) \in [ViewCells[v] -> Vals]
    BY <1>3, <1>5, FileTypes DEF Top
  <1>10. ASSUME NEW step \in Writing, NEW n \in Nat,
                \A q \in Procs \ {p} : job'[q] = job[q],
                job'[p].at = step, job'[p].ver = n, job'[p].todo = job[p].todo,
                file'.versioned = file.versioned, file'.exists = file.exists,
                Top' \in Int, Top <= Top',
                step = "trunc" => n = file'.version + 1,
                step = "store" => file'.version < n,
                step = "close" => file'.version = n /\ Does("small"),
                step # "close" /\ (BytesFirst \/ step = "reread") => (Shown(v))' = view[v].mem,
                step = "reread" => Top < file'.version
         PROVE  InStep'
    <2>1. step \notin Lonely \cup {"load", "sync"}
      BY <1>10, PlaceNames
    <2>2. Apart' /\ Creation'
      BY <1>2, <1>6, <1>10, <2>1, SyncCreation
    <2>3. Readers'
      BY <1>1, <1>4, <1>10 DEF Readers, Does
    <2>4. Versions'
      <3>1. \A w \in Views : view[w].refs > 0 => view[w].seen <= Top'
        BY <1>1, <1>7, <1>9, <1>10 DEF Versions
      <3>2. \A q \in Procs : job'[q].at = "load" => Alive(q)' /\ job'[q].ver <= Top'
        BY <1>1, <1>8, <1>9, <1>10, <2>1 DEF Versions, Alive
      <3> QED
        BY <1>1, <1>5, <1>10, <3>1, <3>2 DEF Versions, Does
    <2>5. Written'
      <3>1. W'.todo[1] = v /\ W'.at = step /\ (BytesFirst' <=> BytesFirst)
        BY <1>3, <1>5, <1>10 DEF BytesFirst, Does
      <3>2. step \in {"bump", "trunc", "store", "reread"} /\ (BytesFirst \/ step = "reread") =>
              (Shown(v))' = view[v].mem
        BY <1>10
      <3>3. view' = view
        BY <1>1
      <3> QED
        BY <3>1, <3>2, <3>3 DEF Written
    <2>6. Current'
      <3> SUFFICES ASSUME W'.at \notin {"bump", "trunc", "store", "close"}
                   PROVE  \A w \in Views : view[w].refs > 0 => view[w].seen # file'.version
        BY <1>1 DEF Current
      <3>1. step = "reread" /\ file'.version \in Nat
        BY <1>5, <1>10 DEF Writing, MInv, MapTypes, FileRec
      <3> QED
        BY <1>1, <1>7, <1>9, <1>10, <3>1 DEF Versions
    <2> QED
      BY <2>2, <2>3, <2>4, <2>5, <2>6 DEF InStep
  <1>11. ASSUME NEW step \in Writing, job' = Goto(p, step)
         PROVE  /\ \A q \in Procs \ {p} : job'[q] = job[q]
                /\ job'[p].at = step /\ job'[p].ver = W.ver /\ job'[p].todo = job[p].todo
    <2>1. step \in Ats
      BY <1>11, PlaceNames DEF Ats
    <2> QED
      BY <1>1, <1>5, <1>11, <2>1, GotoJob, GotoLocals
  <1>12. CASE SyncWrite(p)
    <2>1. /\ job' = Goto(p, "bump") /\ "bump" \in Writing /\ job[p].at = "sync"
          /\ file' = IF BytesFirst THEN WriteBytes(v) ELSE file
      BY <1>3, <1>12 DEF SyncWrite, At, Writing
    <2>2. /\ file'.version = file.version /\ file'.versioned = file.versioned
          /\ file'.exists = file.exists
          /\ BytesFirst => (Shown(v))' = view[v].mem
      <3>1. CASE BytesFirst
        <4>1. file' = WriteBytes(v)
          BY <2>1, <3>1
        <4> QED
          BY <1>3, <4>1, WholeView
      <3>2. CASE ~BytesFirst
        BY <2>1, <3>2
      <3> QED
        BY <3>1, <3>2
    <2>3. job'[p].at = "bump" /\ job'[p].ver = W.ver
      BY <1>11, <2>1
    <2>4. Top' = file.version /\ Top = file.version
      BY <1>5, <2>1, <2>2, <2>3 DEF Top
    <2> QED
      BY <1>5, <1>10, <1>11, <2>1, <2>2, <2>3, <2>4
  <1>13. CASE BumpVersion(p)
    <2>1. /\ job' = [job EXCEPT ![p].at = "trunc", ![p].ver = file.version + 1]
          /\ "trunc" \in Writing /\ job[p].at = "bump" /\ file' = file
      BY <1>13 DEF BumpVersion, At, Writing
    <2>2. file.version + 1 \in Nat
      BY <1>5
    <2>3. /\ \A q \in Procs \ {p} : job'[q] = job[q]
          /\ job'[p].at = "trunc" /\ job'[p].ver = file.version + 1
          /\ job'[p].todo = job[p].todo
      BY <1>1, <2>1 DEF JobRec
    <2>4. Top' = file.version /\ Top = file.version
      BY <1>5, <2>1, <2>3 DEF Top
    <2>5. BytesFirst => (Shown(v))' = view[v].mem
      <3>1. (Shown(v))' = Shown(v)
        BY <2>1 DEF Shown
      <3>2. BytesFirst => Shown(v) = view[v].mem
        BY <1>1, <1>3, <1>5, <2>1 DEF Written
      <3> QED
        BY <3>1, <3>2
    <2> QED
      <3>1. Top' \in Int /\ Top <= Top'
        BY <1>5, <2>4
      <3>2. file.version + 1 = file'.version + 1
        BY <2>1
      <3> QED
        BY <1>10, <2>1, <2>2, <2>3, <2>5, <3>1, <3>2
  <1>14. CASE TruncateVersion(p)
    <2>1. /\ job' = Goto(p, "store") /\ "store" \in Writing /\ job[p].at = "trunc"
          /\ file' = [file EXCEPT !.version = 0]
      BY <1>14 DEF TruncateVersion, At, Writing
    <2>2. /\ file'.versioned = file.versioned /\ file'.exists = file.exists
          /\ file'.bytes = file.bytes /\ file'.version = 0
      BY <1>1, <2>1 DEF FileRec
    <2>3. job'[p].at = "store" /\ job'[p].ver = W.ver /\ W.ver = file.version + 1
      BY <1>1, <1>5, <1>11, <2>1 DEF Versions
    <2>4. Top' = file.version /\ Top = file.version
      BY <1>5, <2>1, <2>3 DEF Top
    <2>5. BytesFirst => (Shown(v))' = view[v].mem
      <3>1. (Shown(v))' = Shown(v)
        BY <2>2 DEF Shown
      <3>2. BytesFirst => Shown(v) = view[v].mem
        BY <1>1, <1>3, <1>5, <2>1 DEF Written
      <3> QED
        BY <3>1, <3>2
    <2> QED
      BY <1>5, <1>10, <1>11, <2>1, <2>2, <2>3, <2>4, <2>5
  <1>15. CASE StoreVersion(p)
    <2> DEFINE step == IF BytesFirst THEN "reread" ELSE "close"
    <2>1. /\ job' = Goto(p, step) /\ step \in Writing /\ job[p].at = "store"
          /\ file' = [file EXCEPT !.version = job[p].ver]
      BY <1>15 DEF StoreVersion, At, Writing
    <2>2. /\ file'.versioned = file.versioned /\ file'.exists = file.exists
          /\ file'.bytes = file.bytes /\ file'.version = W.ver
      BY <1>1, <1>5, <2>1 DEF FileRec
    <2>3. job'[p].at = step /\ job'[p].ver = W.ver
      BY <1>1, <1>5, <1>11, <2>1 DEF Versions
    <2>4. Top = W.ver - 1 /\ Top' = IF BytesFirst THEN W.ver ELSE W.ver - 1
      BY <1>5, <2>1, <2>2, <2>3 DEF Top
    <2>5. BytesFirst => (Shown(v))' = view[v].mem
      <3>1. (Shown(v))' = Shown(v)
        BY <2>2 DEF Shown
      <3>2. BytesFirst => Shown(v) = view[v].mem
        BY <1>1, <1>3, <1>5, <2>1 DEF Written
      <3> QED
        BY <3>1, <3>2
    <2>6. ~BytesFirst => Does("small")
      BY DEF BytesFirst
    <2>7. Top' \in Int /\ Top <= Top' /\ (BytesFirst => Top < W.ver)
      BY <1>5, <2>4
    <2> QED
      BY <1>5, <1>10, <1>11, <2>1, <2>2, <2>3, <2>5, <2>6, <2>7
  <1>16. CASE CloseBytes(p)
    <2>1. /\ job' = Goto(p, "reread") /\ "reread" \in Writing /\ job[p].at = "close"
          /\ file' = WriteBytes(v)
      BY <1>3, <1>16 DEF CloseBytes, At, Writing
    <2>2. /\ file'.version = file.version /\ file'.versioned = file.versioned
          /\ file'.exists = file.exists /\ (Shown(v))' = view[v].mem
      BY <1>3, <2>1, WholeView
    <2>3. job'[p].at = "reread" /\ job'[p].ver = W.ver /\ file.version = W.ver
      BY <1>1, <1>5, <1>11, <2>1 DEF Versions
    <2>4. Top' = file.version /\ Top = file.version - 1
      BY <1>5, <2>1, <2>2, <2>3 DEF Top
    <2> QED
      BY <1>5, <1>10, <1>11, <2>1, <2>2, <2>3, <2>4
  <1> QED
    BY <1>12, <1>13, <1>14, <1>15, <1>16

(* A view that p reads, or has written, shows the file.                     *)
LEMMA ViewCurrent ==
  ASSUME MInv, MInv', NoRace, ~Stuck, InStep, NEW p \in Procs, Alive(p),
         UNCHANGED <<file, calls, local>>,
         Free(p), p = Writer \/ ~Does("solo"), job[p].at \in {"reread", "load"},
         job' = NextView(p), NEW v \in Views, v = job[p].todo[1],
         \A w \in Views \ {v} : view'[w] = view[w],
         view'[v].refs = view[v].refs,
         view'[v].mem = view'[v].shadow, view'[v].shadow = Shown(v), view'[v].seen <= Top
  PROVE  InStep'
  <1>1. /\ Readers /\ Apart /\ Creation /\ Versions /\ Written /\ Current
        /\ job \in [Procs -> JobRec] /\ view \in [Views -> ViewRec]
    BY DEF InStep, MInv, MapTypes
  <1>2. job[p].at \in Syncing /\ ViewProc[v] = p /\ Len(job[p].todo) > 0
    BY AtHand DEF Syncing
  <1>3. /\ \A q \in Procs \ {p} : job'[q] = job[q]
        /\ job'[p].at \in {"sync", job[p].then}
        /\ job'[p].force \in {FALSE, job[p].force}
    BY <1>1, <1>2, NextViewJob, NextViewLocals
  <1>4. job'[p].at \in Elsewhere \cup {"sync"}
    BY <1>1, <1>3, PlaceNames DEF JobRec
  <1>5. job'[p].at \notin Writing \cup Lonely \cup {"load"}
    BY <1>4, PlaceNames
  <1>6. /\ \A q \in Procs \ {p} : job[q].at \notin Lonely
        /\ p # Writer => /\ ~Does("solo") /\ W.at # "close" /\ ~job[p].force /\ W' = W
    BY <1>3, Actor, MappingAssumption DEF W
  <1>7. p = Writer => W.at \in {"reread", "load"} /\ W'.at \notin Writing
    BY <1>5 DEF W
  <1>8. Top' = Top
    BY <1>6, <1>7 DEF Top, Writing
  <1>9. Apart' /\ Creation'
    BY <1>2, <1>3, <1>5, <1>6, SyncCreation
  <1>10. Readers'
    <2>1. p # Writer => /\ job'[p].at \notin Writing /\ ~job'[p].force
                        /\ ~Does("solo")
      BY <1>3, <1>5, <1>6
    <2>2. \A w \in Views : ViewProc[w] # Writer => view'[w].mem = view'[w].shadow
      BY <1>1 DEF Readers
    <2> QED
      BY <1>1, <1>3, <2>1, <2>2 DEF Readers, Writing, Does
  <1>11. Versions'
    <2>1. \A w \in Views : view'[w].refs > 0 => view'[w].seen <= Top'
      BY <1>1, <1>8 DEF Versions
    <2>2. \A q \in Procs : job'[q].at = "load" => Alive(q)' /\ job'[q].ver <= Top'
      BY <1>1, <1>3, <1>5, <1>8 DEF Versions, Alive
    <2>3. W'.at \in {"trunc", "store", "close"} => W' = W
      BY <1>6, <1>7 DEF Writing
    <2> QED
      BY <1>1, <2>1, <2>2, <2>3 DEF Versions, Does
  <1>12. Written'
    <2> SUFFICES ASSUME W'.at \in {"bump", "trunc", "store", "reread"},
                        (BytesFirst \/ W.at = "reread")'
                 PROVE  (Shown(W.todo[1]) = view[W.todo[1]].mem)'
      BY DEF Written
    <2>1. W' = W /\ p # Writer /\ Writer \in Procs
      BY <1>6, <1>7, MappingAssumption DEF Writing
    <2>2. Shown(W.todo[1]) = view[W.todo[1]].mem
      BY <1>1, <2>1 DEF Written, BytesFirst, Does
    <2>3. W.todo[1] \in Views /\ ViewProc[W.todo[1]] = Writer
      BY <2>1, AtHand DEF W, Syncing, Writing, Stuck
    <2>4. (Shown(W.todo[1]))' = Shown(W.todo[1])
      BY <2>1 DEF Shown
    <2>5. W.todo[1] # v
      BY <1>2, <2>1, <2>3
    <2> QED
      BY <2>1, <2>2, <2>3, <2>4, <2>5
  <1>13. Current'
    <2>1. W'.at \notin {"bump", "trunc", "store", "close"} => W.at \notin {"bump", "trunc", "store", "close"}
      BY <1>6, <1>7
    <2>2. \A w \in Views : Shown(w)' = Shown(w)
      BY DEF Shown
    <2> QED
      BY <1>1, <2>1, <2>2 DEF Current
  <1> QED
    BY <1>9, <1>10, <1>11, <1>12, <1>13 DEF InStep

(* A step of a synchronisation.                                             *)
LEMMA SyncVersions ==
  ASSUME MInv, MInv', NoRace, ~Stuck, InStep, NEW p \in Procs, Alive(p),
         UNCHANGED <<calls, local>>, SyncStep(p)
  PROVE  InStep'
  <1>1. Free(p) /\ (p = Writer \/ ~Does("solo")) /\ job[p].at \in Syncing
    BY DEF SyncStep, SyncWrite, BumpVersion, TruncateVersion, StoreVersion, CloseBytes,
           RereadVersion, SyncCheck, SyncRead, At, Syncing
  <1>2. PICK v \in Views :
          /\ v = job[p].todo[1] /\ ViewProc[v] = p
          /\ view[v].mem \in [ViewCells[v] -> Vals]
    BY <1>1, AtHand
  <1>3. /\ Readers /\ Versions /\ Written /\ job \in [Procs -> JobRec]
        /\ view \in [Views -> ViewRec] /\ view[v] \in ViewRec
        /\ file.version \in Nat /\ job[p] \in JobRec /\ Writer \in Procs /\ W.ver \in Nat
    BY MappingAssumption DEF InStep, MInv, MapTypes, FileRec, W, JobRec
  <1>4. CASE SyncWrite(p) \/ BumpVersion(p) \/ TruncateVersion(p) \/ StoreVersion(p)
             \/ CloseBytes(p)
    BY <1>1, <1>4, WritingVersions
  <1>5. CASE RereadVersion(p)
    <2>1. /\ job[p].at = "reread" /\ job' = NextView(p) /\ UNCHANGED file
          /\ view' = [view EXCEPT ![v].shadow = view[v].mem, ![v].seen = file.version]
      BY <1>2, <1>5 DEF RereadVersion, At
    <2>2. p = Writer
      BY <1>3, <2>1 DEF Readers, Writing
    <2>3. Top = file.version /\ Shown(v) = view[v].mem
      BY <1>2, <1>3, <2>1, <2>2 DEF Top, W, Written
    <2>4. /\ view'[v].shadow = view[v].mem /\ view'[v].mem = view[v].mem
          /\ view'[v].seen = file.version /\ view'[v].refs = view[v].refs
          /\ \A w \in Views \ {v} : view'[w] = view[w]
      BY <1>3, <2>1 DEF ViewRec
    <2>5. view'[v].seen <= Top
      BY <1>3, <2>3, <2>4
    <2> QED
      <3>1. view'[v].mem = view'[v].shadow /\ view'[v].shadow = Shown(v)
        BY <2>3, <2>4
      <3>2. UNCHANGED <<file, calls, local>> /\ job[p].at \in {"reread", "load"}
        BY <2>1
      <3> QED
        BY <1>1, <1>2, <2>1, <2>4, <2>5, <3>1, <3>2, ViewCurrent
  <1>6. CASE SyncRead(p)
    <2>1. /\ job[p].at = "load" /\ job' = NextView(p) /\ UNCHANGED file
          /\ view' = [view EXCEPT ![v].mem = Shown(v), ![v].shadow = Shown(v),
                                  ![v].seen = job[p].ver]
      BY <1>2, <1>6 DEF SyncRead, At
    <2>2. /\ view'[v].shadow = Shown(v) /\ view'[v].mem = Shown(v)
          /\ view'[v].seen = job[p].ver /\ view'[v].refs = view[v].refs
          /\ \A w \in Views \ {v} : view'[w] = view[w]
      BY <1>3, <2>1 DEF ViewRec
    <2>3. view'[v].seen <= Top
      BY <1>3, <2>1, <2>2 DEF Versions
    <2> QED
      <3>1. view'[v].mem = view'[v].shadow /\ view'[v].shadow = Shown(v)
        BY <2>2
      <3>2. UNCHANGED <<file, calls, local>> /\ job[p].at \in {"reread", "load"}
        BY <2>1
      <3> QED
        BY <1>1, <1>2, <2>1, <2>2, <2>3, <3>1, <3>2, ViewCurrent
  <1>7. CASE SyncCheck(p) /\ Stale(v)
    <2>1. /\ job' = [job EXCEPT ![p].at = "load", ![p].ver = file.version]
          /\ UNCHANGED <<file, view, opened>> /\ job[p].at = "sync"
      BY <1>2, <1>7 DEF SyncCheck, At
    <2>2. /\ \A q \in Procs \ {p} : job'[q] = job[q]
          /\ job'[p].at = "load" /\ job'[p].ver = file.version /\ job'[p].force = job[p].force
      BY <1>3, <2>1 DEF JobRec
    <2>3. /\ \A q \in Procs \ {p} : job[q].at \notin Lonely
          /\ p # Writer => ~Does("solo") /\ W.at # "close" /\ W' = W
      BY <1>1, <1>3, <2>2, Actor DEF W
    <2>4. p = Writer => W.at = "sync" /\ W'.at = "load"
      BY <2>1, <2>2 DEF W
    <2>5. Top' = Top
      BY <2>1, <2>3, <2>4 DEF Top
    <2>6. file.version <= Top
      BY <1>3, <2>3, <2>4 DEF Top, Versions
    <2>7. Apart' /\ Creation'
      BY <1>1, <2>1, <2>2, <2>3, PlaceNames, SyncCreation
    <2>8. Readers'
      BY <1>3, <2>1, <2>2, <2>3 DEF Readers, Writing, Does
    <2>9. Versions'
      <3>1. \A q \in Procs : job'[q].at = "load" => Alive(q)' /\ job'[q].ver <= Top'
        BY <1>3, <2>2, <2>5, <2>6 DEF Versions, Alive
      <3>2. W'.at \in {"trunc", "store", "close"} => W' = W
        BY <2>3, <2>4
      <3> QED
        BY <1>3, <2>1, <2>5, <3>1, <3>2 DEF Versions, Does
    <2>10. Written'
      <3>1. W'.at \in {"bump", "trunc", "store", "reread"} => W' = W
        BY <2>3, <2>4
      <3> QED
        BY <1>3, <2>1, <3>1 DEF Written, Shown, BytesFirst, Does
    <2>11. Current'
      <3>1. W'.at \notin {"bump", "trunc", "store", "close"} => W.at \notin {"bump", "trunc", "store", "close"}
        BY <2>3, <2>4
      <3> QED
        BY <2>1, <3>1 DEF InStep, Current, Shown
    <2> QED
      BY <2>7, <2>8, <2>9, <2>10, <2>11 DEF InStep
  <1>8. CASE SyncCheck(p) /\ ~Stale(v)
    <2>1. /\ job' = NextView(p) /\ UNCHANGED <<file, view, opened>> /\ job[p].at = "sync"
      BY <1>2, <1>8 DEF SyncCheck, At
    <2>2. Len(job[p].todo) > 0
      BY <1>1, AtHand
    <2>3. /\ \A q \in Procs \ {p} : job'[q] = job[q]
          /\ job'[p].at \in {"sync", job[p].then}
          /\ job'[p].force \in {FALSE, job[p].force}
      BY <1>3, <2>1, <2>2, NextViewJob, NextViewLocals
    <2>4. job'[p].at \in Elsewhere \cup {"sync"} /\ job[p].at \notin Writing
      BY <1>3, <2>1, <2>3, PlaceNames DEF JobRec
    <2>5. p # Writer => ~job'[p].force /\ ~Does("solo")
      BY <1>1, <1>3, <2>3 DEF Readers
    <2>6. /\ opened' \subseteq opened /\ UNCHANGED <<file, calls>>
          /\ \A w \in Views : ViewProc[w] # p => view'[w] = view[w]
          /\ \A w \in Views : view'[w].refs > 0 =>
               /\ view[w].refs > 0 /\ view'[w].shadow = view[w].shadow
               /\ view'[w].seen = view[w].seen
          /\ \A w \in Views : ViewProc[w] # Writer => view'[w].mem = view'[w].shadow
      BY <1>3, <2>1 DEF Readers
    <2> QED
      BY <2>3, <2>4, <2>5, <2>6, QuietVersions DEF Alive
  <1> QED
    BY <1>4, <1>5, <1>6, <1>7, <1>8 DEF SyncStep

(* What SyncThenJob does not say.                                           *)
LEMMA SyncThenForce ==
  ASSUME job \in [Procs -> JobRec], NEW p \in Procs, NEW vs, NEW force, NEW next
  PROVE  SyncThen(p, vs, force, next)[p].force = force
  BY DEF SyncThen, JobRec

(* The argument of the call, beside it.                                     *)
LEMMA SyncThenArg ==
  ASSUME job \in [Procs -> JobRec], NEW p \in Procs, NEW vs, NEW force, NEW next, NEW a
  PROVE  LET j == SyncThen(p, vs, force, next)
         IN  /\ \A q \in Procs \ {p} : [j EXCEPT ![p].arg = a][q] = job[q]
             /\ [j EXCEPT ![p].arg = a][p].at = j[p].at
             /\ [j EXCEPT ![p].arg = a][p].force = j[p].force
  <1> DEFINE j == SyncThen(p, vs, force, next)
             r == [job[p] EXCEPT !.at = IF vs = {} THEN next ELSE "sync",
                                 !.todo = InBaseOrder(vs), !.force = force, !.then = next]
  <1>1. j = [job EXCEPT ![p] = r]
    BY DEF SyncThen
  <1>2. job[p] \in JobRec
    OBVIOUS
  <1>3. [r EXCEPT !.arg = a].at = r.at /\ [r EXCEPT !.arg = a].force = r.force
    BY <1>2 DEF JobRec
  <1> HIDE DEF r, j
  <1>4. j[p] = r /\ \A q \in Procs \ {p} : [j EXCEPT ![p].arg = a][q] = job[q]
    BY <1>1
  <1>5. [j EXCEPT ![p].arg = a][p] = [r EXCEPT !.arg = a]
    BY <1>1, <1>4
  <1> QED
    BY <1>3, <1>4, <1>5 DEF j

(* A step of p that begins to synchronise some of its views.                *)
LEMMA BeginVersions ==
  ASSUME MInv, MInv', NoRace, ~Stuck, InStep, NEW p \in Procs, UNCHANGED <<file, calls, opened>>,
         Free(p), p = Writer \/ ~Does("solo"), job[p].at = "idle",
         NEW vs, vs \subseteq Views, NEW force \in Flags, p # Writer => ~force, NEW next \in Thens,
         \A q \in Procs \ {p} : job'[q] = job[q] /\ (Alive(q)' <=> Alive(q)),
         job'[p].at = SyncThen(p, vs, force, next)[p].at,
         job'[p].force = SyncThen(p, vs, force, next)[p].force,
         \A v \in Views : /\ ViewProc[v] # p => view'[v] = view[v]
                          /\ view'[v].refs > 0 => view[v].refs > 0
                          /\ view'[v].mem = view[v].mem /\ view'[v].shadow = view[v].shadow
                          /\ view'[v].seen = view[v].seen
  PROVE  InStep'
  <1>1. job \in [Procs -> JobRec] /\ Readers
    BY DEF MInv, MapTypes, InStep
  <1>2. job'[p].at \in {next, "sync"} /\ job'[p].force = force
    <2>1. SyncThen(p, vs, force, next)[p].at = IF vs = {} THEN next ELSE "sync"
      BY <1>1 DEF SyncThen, JobRec
    <2>2. SyncThen(p, vs, force, next)[p].force = force
      BY <1>1, SyncThenForce
    <2> QED
      BY <2>1, <2>2
  <1>3. job'[p].at \in Elsewhere \cup {"sync"} /\ job[p].at \notin Writing
    BY <1>2, PlaceNames DEF Writing
  <1>4. p # Writer => ~job'[p].force /\ (Does("solo") => job'[p].at = "idle")
    BY <1>2
  <1>5. \A v \in Views : ViewProc[v] # Writer => view'[v].mem = view'[v].shadow
    BY <1>1 DEF Readers
  <1> QED
    BY <1>3, <1>4, <1>5, QuietVersions

(* Before the first version nobody reads or writes.                         *)
LEMMA NobodyReads ==
  ASSUME MInv, InStep, NoViews, NEW q \in Procs
  PROVE  job[q].at # "load"
  <1> SUFFICES ASSUME job[q].at = "load" PROVE FALSE
    OBVIOUS
  <1>1. Alive(q) /\ job[q].at \in Syncing
    BY DEF InStep, Versions, Syncing
  <1> QED
    BY <1>1, SyncHasVersion

(* The mapping is created.                                                  *)
LEMMA CreateVersions ==
  ASSUME MInv, MInv', NoRace, ~Stuck, InStep, NEW p \in Procs, Alive(p),
         UNCHANGED <<calls, local>>,
         CreateVersion(p) \/ CreateDone(p) \/ CreateFileMapping(p)
  PROVE  InStep'
  <1>1. Free(p) /\ (p = Writer \/ ~Does("solo")) /\ UNCHANGED view
        /\ job[p].at \in Lonely \cup {"idle"}
    BY DEF CreateVersion, CreateDone, CreateFileMapping, At, Lonely
  <1>2. /\ Readers /\ Apart /\ Creation /\ Versions /\ Written /\ Current
        /\ job \in [Procs -> JobRec] /\ file \in FileRec /\ view \in [Views -> ViewRec]
        /\ Writer \in Procs
    BY MappingAssumption DEF InStep, MInv, MapTypes
  <1>3. /\ \A q \in Procs \ {p} : job[q].at \notin Lonely
        /\ p # Writer => ~Does("solo") /\ ~job[p].force
    BY <1>1, Actor
  <1>4. \A q \in Procs : job[q].at \notin Writing
    <2>1. CASE job[p].at \in Lonely
      BY <1>2, <2>1, PlaceNames DEF Apart
    <2>2. CASE job[p].at \notin Lonely
      <3>1. CreateFileMapping(p)
        BY <2>2 DEF CreateVersion, CreateDone, At, Lonely
      <3>2. Quiet(p) /\ job[p].at = "idle"
        BY <3>1 DEF CreateFileMapping, At, NoRace
      <3> QED
        BY <3>2 DEF Quiet, Writing
    <2> QED
      BY <2>1, <2>2
  <1>5. W.at \notin Writing /\ W \in JobRec
    BY <1>2, <1>4 DEF W
  <1>6. ASSUME \A q \in Procs \ {p} : job'[q] = job[q], job'[p].at \in Lonely \cup {"idle"},
               ~job'[p].force \/ job'[p].force = job[p].force,
               p # Writer => ~Does("solo"), Creation',
               UNCHANGED file \/ NoViews \/ (file'.version = file.version /\ file'.bytes = file.bytes)
        PROVE  InStep'
    <2>1. /\ job'[p].at \notin Writing /\ job'[p].at # "load" /\ W'.at \notin Writing
          /\ job'[p].at # "sync"
      BY <1>2, <1>5, <1>6, PlaceNames DEF W, Lonely, Writing
    <2>2. Readers'
      BY <1>1, <1>2, <1>3, <1>6, <2>1 DEF Readers, Writing, Does
    <2>3. Apart'
      <3>1. \A q \in Procs : job'[q].at \notin Writing
        BY <1>4, <1>6, <2>1
      <3>2. \A q \in Procs \ {p} : job'[q].at \notin Lonely
        BY <1>3, <1>6
      <3> QED
        BY <3>1, <3>2 DEF Apart, Writing
    <2>4. Top = file.version /\ Top' = file'.version
      BY <1>5, <2>1 DEF Top, Writing
    <2>5. CASE NoViews
      <3>1. \A q \in Procs : job'[q].at # "load"
        BY <1>6, <2>1, <2>5, NobodyReads
      <3>2. \A v \in Views : ~(view'[v].refs > 0)
        BY <1>1, <2>5 DEF NoViews
      <3>3. Versions' /\ Written' /\ Current'
        BY <2>1, <3>1, <3>2 DEF Versions, Written, Current, Writing
      <3> QED
        BY <1>6, <2>2, <2>3, <3>3 DEF InStep
    <2>6. CASE file'.version = file.version /\ file'.bytes = file.bytes
      <3>1. \A q \in Procs : job'[q].at = "load" => Alive(q)' /\ job'[q].ver <= Top'
        BY <1>2, <1>6, <2>1, <2>4, <2>6 DEF Versions, Alive
      <3>2. Versions' /\ Written'
        BY <1>1, <1>2, <2>1, <2>4, <2>6, <3>1 DEF Versions, Written, Writing
      <3>3. Current'
        BY <1>1, <1>2, <1>5, <2>6 DEF Current, Shown, Writing
      <3> QED
        BY <1>6, <2>2, <2>3, <3>2, <3>3 DEF InStep
    <2> QED
      BY <1>6, <2>5, <2>6
  <1>7. CASE CreateVersion(p)
    <2>1. job[p].at = "created"
      BY <1>7 DEF CreateVersion, At
    <2>2. CASE job[p].arg = 0 \/ ~file.versioned
      <3>1. /\ file' = [file EXCEPT !.version = 0, !.versioned = TRUE]
            /\ job' = [job EXCEPT ![p].at = "versioned"] /\ UNCHANGED opened
        BY <1>7, <2>2 DEF CreateVersion
      <3>2. NoViews
        BY <1>2, <2>1, <2>2 DEF Creation
      <3>3. /\ \A q \in Procs \ {p} : job'[q] = job[q]
            /\ job'[p].at = "versioned" /\ job'[p].force = job[p].force
            /\ file'.versioned
        BY <1>2, <3>1 DEF JobRec, FileRec
      <3>4. W'.at \notin Writing
        BY <1>2, <1>5, <3>3 DEF W, Writing
      <3>5. NoViews'
        BY <1>1, <3>1, <3>2, <3>4 DEF NoViews, Writing
      <3>6. Creation'
        BY <1>2, <1>3, <2>1, <3>1, <3>3, <3>5 DEF Creation, Lonely, FileRec
      <3> QED
        BY <1>3, <1>6, <3>2, <3>3, <3>6 DEF Lonely
    <2>3. CASE ~(job[p].arg = 0 \/ ~file.versioned)
      <3>1. UNCHANGED file /\ job' = [job EXCEPT ![p] = Idle]
        BY <1>7, <2>3 DEF CreateVersion
      <3>2. /\ \A q \in Procs \ {p} : job'[q] = job[q]
            /\ job'[p].at = "idle" /\ ~job'[p].force
        BY <1>2, <3>1 DEF Idle
      <3>3. Creation'
        <4>1. \A q \in Procs : job'[q].at \notin Lonely
          BY <1>3, <3>2 DEF Lonely
        <4>2. file'.versioned /\ (~file'.exists => ~file'.versioned)
          BY <1>2, <2>3, <3>1 DEF Creation
        <4> QED
          BY <4>1, <4>2 DEF Creation, Lonely
      <3> QED
        BY <1>3, <1>6, <3>1, <3>2, <3>3
    <2> QED
      BY <2>2, <2>3
  <1>8. CASE CreateDone(p)
    <2>1. /\ file' = [file EXCEPT !.version = 1] /\ job' = [job EXCEPT ![p] = Idle]
          /\ job[p].at = "versioned"
      BY <1>8 DEF CreateDone, At
    <2>2. NoViews /\ file.versioned
      BY <1>2, <2>1 DEF Creation
    <2>3. /\ \A q \in Procs \ {p} : job'[q] = job[q]
          /\ job'[p].at = "idle" /\ ~job'[p].force
          /\ file'.versioned = file.versioned
      BY <1>2, <2>1 DEF Idle, FileRec
    <2>4. Creation'
      <3>1. \A q \in Procs : job'[q].at \notin Lonely
        BY <1>3, <2>3 DEF Lonely
      <3>2. file'.versioned /\ (~file'.exists => ~file'.versioned)
        BY <1>2, <2>1, <2>2, <2>3 DEF Creation, FileRec
      <3> QED
        BY <3>1, <3>2 DEF Creation, Lonely
    <2> QED
      BY <1>3, <1>6, <2>2, <2>3, <2>4
  <1>9. CASE CreateFileMapping(p)
    <2> DEFINE arg == IF file.exists THEN 1 ELSE 0
    <2>1. /\ job' = [job EXCEPT ![p].at = "created", ![p].arg = arg]
          /\ file' = [file EXCEPT !.exists = TRUE] /\ UNCHANGED opened
      BY <1>9 DEF CreateFileMapping
    <2>2. arg \in Nat /\ (arg = 0 => ~file.versioned)
      BY <1>2 DEF Creation
    <2> HIDE DEF arg
    <2>3. /\ \A q \in Procs \ {p} : job'[q] = job[q]
          /\ job'[p].at = "created" /\ job'[p].force = job[p].force /\ job'[p].arg = arg
          /\ file'.versioned = file.versioned /\ file'.version = file.version
          /\ file'.bytes = file.bytes /\ file'.exists
      BY <1>2, <2>1, <2>2 DEF JobRec, FileRec
    <2>4. W'.at \notin Writing
      BY <1>2, <1>5, <2>3 DEF W, Writing
    <2>5. NoViews => NoViews'
      BY <1>1, <2>1, <2>4 DEF NoViews, Writing
    <2>6. Creation'
      BY <1>2, <1>3, <2>2, <2>3, <2>5 DEF Creation, Lonely
    <2> QED
      BY <1>3, <1>6, <2>3, <2>6 DEF Lonely
  <1> QED
    BY <1>7, <1>8, <1>9

(* A view of the mapping is made or goes, or the guest uses it.             *)
LEMMA MapVersions ==
  ASSUME MInv, MInv', NoRace, ~Stuck, InStep, NEW p \in Procs, Alive(p),
         UNCHANGED <<calls, local>>, MapStep(p)
  PROVE  InStep'
  <1>1. Free(p) /\ (p = Writer \/ ~Does("solo"))
    BY DEF MapStep, CreateVersion, CreateDone, MapVersion, UnmapDone, CreateFileMapping,
           CloseMapping, SyncNamedMappedViews, MapAgain, MapViewOfFile, UnmapViewOfFile,
           FlushViewOfFile, GuestWrite, At
  <1>2. /\ Readers /\ Apart /\ Creation /\ Versions /\ Written /\ Current
        /\ job \in [Procs -> JobRec] /\ file \in FileRec /\ view \in [Views -> ViewRec]
        /\ Writer \in Procs /\ TodoInv(p) /\ opened \subseteq Procs
    BY MappingAssumption DEF InStep, MInv, MapTypes
  <1>3. /\ \A q \in Procs \ {p} : job[q].at \notin Lonely
        /\ p # Writer => ~Does("solo") /\ ~job[p].force
    BY <1>1, Actor
  <1>4. \A q \in Procs : Alive(q)' <=> Alive(q)
    BY DEF Alive
  <1>5. p = Writer <=> MayWrite(p)
    BY DEF MayWrite, NoRace
  <1>6. ASSUME job[p].at = "idle", UNCHANGED <<file, opened>>,
               NEW vs, vs \subseteq Views, NEW force \in Flags, NEW next \in Thens,
               p # Writer => ~force, job' = SyncThen(p, vs, force, next),
               \A v \in Views : /\ ViewProc[v] # p => view'[v] = view[v]
                                /\ view'[v].refs > 0 => view[v].refs > 0
                                /\ view'[v].mem = view[v].mem
                                /\ view'[v].shadow = view[v].shadow
                                /\ view'[v].seen = view[v].seen
        PROVE  InStep'
    <2>1. \A q \in Procs \ {p} : job'[q] = job[q]
      BY <1>2, <1>6 DEF SyncThen
    <2>2. UNCHANGED <<file, calls, opened>>
      BY <1>6
    <2>3. /\ job'[p].at = SyncThen(p, vs, force, next)[p].at
          /\ job'[p].force = SyncThen(p, vs, force, next)[p].force
      BY <1>6
    <2> QED
      BY <1>1, <1>4, <1>6, <2>1, <2>2, <2>3, BeginVersions
  <1>7. CASE CreateVersion(p) \/ CreateDone(p) \/ CreateFileMapping(p)
    BY <1>7, CreateVersions
  <1>8. CASE MapVersion(p)
    <2>1. PICK v \in Views : v = job[p].arg /\ ViewProc[v] = p
      <3>1. Phase(p) = "mapping"
        BY <1>8 DEF MapVersion, At, Phase, Syncing
      <3> QED
        BY <1>2, <3>1 DEF TodoInv
    <2>2. /\ job[p].at = "mapping" /\ job' = [job EXCEPT ![p] = Idle] /\ UNCHANGED file
          /\ view' = [view EXCEPT ![v].seen = file.version, ![v].refs = 1]
      BY <1>8, <2>1 DEF MapVersion, At
    <2>3. /\ file.versioned /\ view[v].mem = Shown(v) /\ view[v].shadow = Shown(v)
          /\ \A q \in Procs : job[q].at \notin Writing
      BY <1>2, <2>1, <2>2, PlaceNames DEF Creation, Apart, Lonely
    <2>4. /\ \A q \in Procs \ {p} : job'[q] = job[q]
          /\ job'[p].at = "idle" /\ ~job'[p].force
      BY <1>2, <2>2 DEF Idle
    <2>5. /\ \A w \in Views \ {v} : view'[w] = view[w]
          /\ view'[v].mem = view[v].mem /\ view'[v].shadow = view[v].shadow
          /\ view'[v].seen = file.version
      BY <1>2, <2>2 DEF ViewRec
    <2>6. /\ \A q \in Procs : job'[q].at \notin Writing \cup Lonely
          /\ W.at \notin Writing /\ W'.at \notin Writing
      BY <1>2, <1>3, <2>3, <2>4, PlaceNames DEF W, Lonely, Writing
    <2>7. Top = file.version /\ Top' = file.version /\ file.version \in Nat
      BY <1>2, <2>2, <2>6 DEF Top, Writing, FileRec
    <2>8. \A w \in Views : (Shown(w))' = Shown(w)
      BY <2>2 DEF Shown
    <2>9. Readers'
      BY <1>2, <1>3, <2>3, <2>4, <2>5, <2>6 DEF Readers, Writing, Does
    <2>10. Apart' /\ Creation'
      BY <1>2, <2>2, <2>3, <2>6 DEF Apart, Creation, Lonely
    <2>11. Versions'
      <3>1. \A w \in Views : view'[w].refs > 0 => view'[w].seen <= Top'
        BY <1>2, <2>5, <2>7 DEF Versions
      <3>2. \A q \in Procs : job'[q].at = "load" => Alive(q)' /\ job'[q].ver <= Top'
        BY <1>2, <1>4, <2>4, <2>7 DEF Versions
      <3> QED
        BY <2>6, <3>1, <3>2 DEF Versions, Writing
    <2>12. Written'
      BY <2>6 DEF Written, Writing
    <2>13. Current'
      BY <1>2, <2>2, <2>3, <2>5, <2>6, <2>8 DEF Current, Writing
    <2> QED
      BY <2>9, <2>10, <2>11, <2>12, <2>13 DEF InStep
  <1>9. CASE UnmapDone(p)
    <2>1. PICK v \in Views : v = job[p].arg /\ ViewProc[v] = p
      <3>1. Phase(p) = "unmap"
        BY <1>9 DEF UnmapDone, At, Phase, Syncing
      <3> QED
        BY <1>2, <3>1 DEF TodoInv
    <2>2. /\ job[p].at = "unmap" /\ job' = [job EXCEPT ![p] = Idle] /\ UNCHANGED <<file, opened>>
          /\ view' = [view EXCEPT ![v] = IF view[v].refs > 1
                       THEN [view[v] EXCEPT !.refs = view[v].refs - 1] ELSE Unmapped]
      BY <1>9, <2>1 DEF UnmapDone, At
    <2>3. \/ view'[v] = Unmapped
          \/ /\ view[v].refs > 1 /\ view'[v].mem = view[v].mem
             /\ view'[v].shadow = view[v].shadow /\ view'[v].seen = view[v].seen
      <3>1. CASE view[v].refs > 1
        <4>1. view'[v] = [view[v] EXCEPT !.refs = view[v].refs - 1] /\ view[v] \in ViewRec
          BY <1>2, <2>2, <3>1
        <4> QED
          BY <3>1, <4>1 DEF ViewRec
      <3>2. CASE ~(view[v].refs > 1)
        BY <1>2, <2>2, <3>2
      <3> QED
        BY <3>1, <3>2
    <2>4. \A w \in Views \ {v} : view'[w] = view[w]
      BY <1>2, <2>2
    <2>5. /\ Unmapped.mem = Unmapped.shadow /\ ~(Unmapped.refs > 0)
      BY DEF Unmapped
    <2>6. \A w \in Views : view'[w].refs > 0 =>
            view[w].refs > 0 /\ view'[w].shadow = view[w].shadow /\ view'[w].seen = view[w].seen
      <3>1. view[v].refs > 1 => view[v].refs > 0
        BY <1>2 DEF ViewRec
      <3> QED
        BY <2>3, <2>4, <2>5, <3>1
    <2>7. \A w \in Views : ViewProc[w] # Writer => view'[w].mem = view'[w].shadow
      BY <1>2, <2>3, <2>4, <2>5 DEF Readers
    <2>8. /\ \A q \in Procs \ {p} : job'[q] = job[q]
          /\ job'[p].at = "idle" /\ ~job'[p].force /\ job[p].at \notin Writing
          /\ "idle" \in Elsewhere
      BY <1>2, <2>2, PlaceNames DEF Idle, Writing, Thens
    <2>9. \A w \in Views : ViewProc[w] # p => view'[w] = view[w]
      BY <2>1, <2>4
    <2> QED
      BY <1>4, <2>2, <2>6, <2>7, <2>8, <2>9, QuietVersions
  <1>10. CASE CloseMapping(p)
    <2>1. UNCHANGED <<file, view, job, calls>> /\ opened' \subseteq opened /\ job[p].at = "idle"
      BY <1>10 DEF CloseMapping, At
    <2>2. /\ job'[p].at \in Elsewhere \cup {"sync"} /\ job[p].at \notin Writing
          /\ p # Writer => ~job'[p].force /\ (Does("solo") => job'[p].at = "idle")
          /\ \A v \in Views : ViewProc[v] # Writer => view'[v].mem = view'[v].shadow
      BY <1>2, <1>3, <2>1, PlaceNames DEF Thens, Readers, Writing
    <2> QED
      BY <1>4, <2>1, <2>2, QuietVersions
  <1>11. CASE SyncNamedMappedViews(p)
    <2> DEFINE no == FALSE
               vs == Mapped(p)
    <2>1. /\ vs \subseteq Views /\ no \in Flags /\ ~no /\ "idle" \in Thens
          /\ job' = SyncThen(p, vs, no, "idle") /\ job[p].at = "idle"
          /\ UNCHANGED <<file, view, opened>>
      BY <1>11 DEF SyncNamedMappedViews, At, Mapped, Flags, Thens
    <2> HIDE DEF no, vs
    <2> QED
      BY <1>6, <2>1
  <1>12. ASSUME NEW v \in Views, MapAgain(p, v) PROVE InStep'
    <2> DEFINE no == FALSE
    <2>1. /\ {v} \subseteq Views /\ no \in Flags /\ ~no /\ "idle" \in Thens
          /\ job' = SyncThen(p, {v}, no, "idle") /\ job[p].at = "idle"
          /\ UNCHANGED <<file, opened>> /\ ViewProc[v] = p /\ view[v].refs > 0
          /\ view' = [view EXCEPT ![v].refs = view[v].refs + 1]
      BY <1>12 DEF MapAgain, At, Mapped, Flags, Thens
    <2>2. \A w \in Views : /\ ViewProc[w] # p => view'[w] = view[w]
                           /\ view'[w].refs > 0 => view[w].refs > 0
                           /\ view'[w].mem = view[w].mem
                           /\ view'[w].shadow = view[w].shadow
                           /\ view'[w].seen = view[w].seen
      BY <1>2, <2>1 DEF ViewRec
    <2> HIDE DEF no
    <2> QED
      BY <1>6, <2>1, <2>2
  <1>13. ASSUME NEW v \in Views, MapViewOfFile(p, v) PROVE InStep'
    <2>1. /\ job[p].at = "idle" /\ p \in opened /\ ViewProc[v] = p /\ view[v].refs = 0
          /\ UNCHANGED <<file, opened>> /\ job' = [job EXCEPT ![p].at = "mapping", ![p].arg = v]
          /\ view' = [view EXCEPT ![v].mem = Shown(v), ![v].shadow = Shown(v)]
      BY <1>13 DEF MapViewOfFile, At
    <2>2. \A q \in Procs : job[q].at \notin Writing
      <3>1. Quiet(p)
        BY <1>13 DEF MapViewOfFile, NoRace
      <3> QED
        BY <2>1, <3>1 DEF Quiet, Writing
    <2>3. ~NoViews /\ file.versioned
      BY <1>2, <2>1 DEF NoViews, Creation
    <2>4. /\ \A q \in Procs \ {p} : job'[q] = job[q]
          /\ job'[p].at = "mapping" /\ job'[p].force = job[p].force /\ job'[p].arg = v
      <3>1. v \in Nat
        BY MappingAssumption
      <3> QED
        BY <1>2, <2>1, <3>1 DEF JobRec
    <2>5. /\ \A w \in Views \ {v} : view'[w] = view[w]
          /\ view'[v].mem = Shown(v) /\ view'[v].shadow = Shown(v)
          /\ view'[v].seen = view[v].seen /\ view'[v].refs = 0
      BY <1>2, <2>1 DEF ViewRec
    <2>6. /\ \A q \in Procs : job'[q].at \notin Writing
          /\ \A q \in Procs \ {p} : job'[q].at \notin Lonely
          /\ W.at \notin Writing /\ W'.at \notin Writing
      BY <1>2, <1>3, <2>2, <2>4, PlaceNames DEF W, Lonely, Writing
    <2>7. Top = file.version /\ Top' = file.version
      BY <2>1, <2>6 DEF Top, Writing
    <2>8. \A w \in Views : (Shown(w))' = Shown(w)
      BY <2>1 DEF Shown
    <2>9. Readers'
      <3>1. \A w \in Views : ViewProc[w] # Writer => view'[w].mem = view'[w].shadow
        BY <1>2, <2>5 DEF Readers
      <3> QED
        BY <1>2, <1>3, <2>4, <2>6, <3>1 DEF Readers, Writing, Does
    <2>10. Apart'
      BY <2>6, PlaceNames DEF Apart, Writing
    <2>11. Creation'
      <3>1. (view[job[p].arg].mem = Shown(job[p].arg) /\ view[job[p].arg].shadow = Shown(job[p].arg))'
        BY <2>4, <2>5, <2>8
      <3>2. file'.versioned
        BY <2>1, <2>3
      <3>3. \A q \in Procs \ {p} : job'[q].at \notin {"created", "versioned", "mapping"}
        BY <2>6 DEF Lonely
      <3>4. ~file'.exists => ~file'.versioned
        BY <1>2, <2>1 DEF Creation
      <3> QED
        BY <2>4, <3>1, <3>2, <3>3, <3>4 DEF Creation
    <2>12. Versions'
      <3>1. \A w \in Views : view'[w].refs > 0 => view'[w].seen <= Top'
        BY <1>2, <2>5, <2>7 DEF Versions
      <3>2. \A q \in Procs : job'[q].at = "load" => Alive(q)' /\ job'[q].ver <= Top'
        BY <1>2, <1>4, <2>4, <2>7 DEF Versions
      <3> QED
        BY <2>6, <3>1, <3>2 DEF Versions, Writing
    <2>13. Written'
      BY <2>6 DEF Written, Writing
    <2>14. Current'
      <3>1. \A w \in Views : view[w].refs > 0 /\ view[w].seen = file.version =>
                               view[w].shadow = Shown(w)
        BY <1>2, <2>6 DEF Current, Writing
      <3>2. \A w \in Views : view'[w].refs > 0 /\ view'[w].seen = file.version =>
                               view'[w].shadow = Shown(w)
        BY <2>5, <3>1
      <3> QED
        BY <2>1, <2>8, <3>2 DEF Current
    <2> QED
      BY <2>9, <2>10, <2>11, <2>12, <2>13, <2>14 DEF InStep
  <1>14. ASSUME NEW v \in Views, UnmapViewOfFile(p, v) PROVE InStep'
    <2> DEFINE no == FALSE
               vs == {v}
               j == SyncThen(p, vs, no, "unmap")
    <2>1. /\ vs \subseteq Views /\ no \in Flags /\ (p # Writer => ~no) /\ "unmap" \in Thens
          /\ job' = [j EXCEPT ![p].arg = v] /\ job[p].at = "idle"
          /\ UNCHANGED <<file, view, opened>>
      BY <1>14 DEF UnmapViewOfFile, At, Flags, Thens
    <2> HIDE DEF no, vs
    <2>4. /\ \A q \in Procs \ {p} : job'[q] = job[q]
          /\ job'[p].at = j[p].at /\ job'[p].force = j[p].force
      <3>1. job \in [Procs -> JobRec]
        BY <1>2
      <3> QED
        BY <2>1, <3>1, SyncThenArg
    <2>5. UNCHANGED <<file, calls, opened>>
      BY <2>1
    <2>6. \A w \in Views : /\ ViewProc[w] # p => view'[w] = view[w]
                           /\ view'[w].refs > 0 => view[w].refs > 0
                           /\ view'[w].mem = view[w].mem /\ view'[w].shadow = view[w].shadow
                           /\ view'[w].seen = view[w].seen
      BY <2>1
    <2>7. /\ job'[p].at = SyncThen(p, vs, no, "unmap")[p].at
          /\ job'[p].force = SyncThen(p, vs, no, "unmap")[p].force
      BY <2>4 DEF j
    <2> QED
      BY <1>1, <1>4, <2>1, <2>4, <2>5, <2>6, <2>7, BeginVersions
  <1>15. ASSUME NEW v \in Views, FlushViewOfFile(p, v) PROVE InStep'
    <2> DEFINE yes == TRUE
    <2>1. /\ {v} \subseteq Views /\ yes \in Flags /\ p = Writer /\ "idle" \in Thens
          /\ job' = SyncThen(p, {v}, yes, "idle") /\ job[p].at = "idle"
          /\ UNCHANGED <<file, view, opened>>
      BY <1>5, <1>15 DEF FlushViewOfFile, At, Flags, Thens
    <2> HIDE DEF yes
    <2> QED
      BY <1>6, <2>1
  <1>16. ASSUME NEW v \in Views, NEW c \in Cells, GuestWrite(p, v, c) PROVE InStep'
    <2>1. /\ UNCHANGED <<file, job, opened, calls>> /\ job[p].at = "idle" /\ p = Writer
          /\ ViewProc[v] = p /\ view[v].refs > 0
          /\ view' = [view EXCEPT ![v].mem[c] = writes + 1]
      BY <1>5, <1>16 DEF GuestWrite, At, Mapped
    <2>2. \A w \in Views : /\ ViewProc[w] # p => view'[w] = view[w]
                           /\ view'[w].refs = view[w].refs
                           /\ view'[w].shadow = view[w].shadow
                           /\ view'[w].seen = view[w].seen
      BY <1>2, <2>1 DEF ViewRec
    <2>3. /\ job'[p].at \in Elsewhere \cup {"sync"} /\ job[p].at \notin Writing
          /\ \A w \in Views : ViewProc[w] # Writer => view'[w].mem = view'[w].shadow
      BY <1>2, <2>1, <2>2, PlaceNames DEF Thens, Readers, Writing
    <2> QED
      BY <1>4, <2>1, <2>2, <2>3, QuietVersions
  <1> QED
    BY <1>7, <1>8, <1>9, <1>10, <1>11, <1>12, <1>13, <1>14, <1>15, <1>16 DEF MapStep

(* A step of a call that leaves the mapping alone, or begins to synchronise *)
(* the views of its process.                                                *)
LEMMA CallVersions ==
  ASSUME MInv, MInv', NoRace, ~Stuck, InStep, NEW p \in Procs, UNCHANGED <<file, view, opened, calls>>,
         p = Writer \/ ~Does("solo"), job[p].at \in Elsewhere,
         \A q \in Procs : Alive(q)' <=> Alive(q),
         \/ job' = job
         \/ \E x \in Elsewhere : job' = Goto(p, x)
         \/ \E next \in Thens : job' = SyncThen(p, Mapped(p), FALSE, next)
  PROVE  InStep'
  <1>1. job \in [Procs -> JobRec] /\ Readers
    BY DEF MInv, MapTypes, InStep
  <1> DEFINE Moved == /\ \A q \in Procs \ {p} : job'[q] = job[q]
                      /\ job'[p].at \in Elsewhere \cup {"sync"}
                      /\ p # Writer => ~job'[p].force
  <1>2. Moved
    <2>1. CASE job' = job
      BY <1>1, <2>1 DEF Readers
    <2>2. ASSUME NEW x \in Elsewhere, job' = Goto(p, x) PROVE Moved
      <3>1. x \in Ats
        BY DEF Elsewhere
      <3> QED
        BY <1>1, <2>2, <3>1, GotoJob, GotoLocals DEF Readers
    <2>3. ASSUME NEW next \in Thens, job' = SyncThen(p, Mapped(p), FALSE, next) PROVE Moved
      <3>1. job' = SyncMapped(p, next) /\ next \in Elsewhere
        BY <2>3, PlaceNames DEF SyncMapped
      <3>2. ~job'[p].force
        <4> DEFINE no == FALSE
        <4>1. job' = SyncThen(p, Mapped(p), no, next) /\ ~no
          BY <2>3
        <4> HIDE DEF no
        <4>2. SyncThen(p, Mapped(p), no, next)[p].force = no
          BY <1>1, SyncThenForce
        <4> QED
          BY <4>1, <4>2
      <3> QED
        BY <1>1, <3>1, <3>2, SyncMappedJob
    <2> QED
      BY <2>1, <2>2, <2>3
  <1>3. /\ job[p].at \notin Writing
        /\ \A v \in Views : ViewProc[v] # Writer => view'[v].mem = view'[v].shadow
    BY <1>1, PlaceNames DEF Readers, Writing
  <1>4. p # Writer => (Does("solo") => job'[p].at = "idle")
    OBVIOUS
  <1> QED
    BY <1>2, <1>3, <1>4, QuietVersions

(* Nobody else moves when p uses the mapping.                               *)
LEMMA MapMovesOne ==
  ASSUME MInv, NEW p \in Procs, SyncStep(p) \/ MapStep(p), NEW q \in Procs \ {p}
  PROVE  job'[q] = job[q]
  <1>1. job \in [Procs -> JobRec]
    BY DEF MInv, MapTypes
  <1>2. CASE SyncStep(p)
    <2>1. NextView(p)[q] = job[q]
      BY <1>1 DEF NextView
    <2>2. CASE SyncWrite(p) \/ BumpVersion(p) \/ TruncateVersion(p) \/ StoreVersion(p)
               \/ CloseBytes(p)
      BY <1>1, <2>2 DEF SyncWrite, BumpVersion, TruncateVersion, StoreVersion, CloseBytes, Goto
    <2>3. CASE RereadVersion(p) \/ SyncRead(p)
      BY <2>1, <2>3 DEF RereadVersion, SyncRead
    <2>4. CASE SyncCheck(p)
      BY <1>1, <2>1, <2>4 DEF SyncCheck
    <2> QED
      BY <1>2, <2>2, <2>3, <2>4 DEF SyncStep
  <1>3. CASE MapStep(p)
    BY <1>1, <1>3 DEF MapStep, CreateVersion, CreateDone, MapVersion, UnmapDone, CreateFileMapping,
           CloseMapping, SyncNamedMappedViews, MapAgain, MapViewOfFile, UnmapViewOfFile,
           FlushViewOfFile, GuestWrite, SyncThen
  <1> QED
    BY <1>2, <1>3

(* A step of a broker call, whoever makes it.                               *)
BrokerStep(p) ==
  \/ CallStep(p) \/ PollCrossProcessGuestMessages(p) \/ PublishGuestWindowState(p)
  \/ FindWindow(p) \/ Broadcast(p)
  \/ \E q \in Procs, k \in {"post", "copydata"} : PostMessage(p, q, k)

(* It leaves the mapping alone, and its process synchronises its views or   *)
(* goes on with the call.                                                   *)
LEMMA BrokerStepMoves ==
  ASSUME BInv, NEW p \in Procs, BrokerStep(p)
  PROVE  /\ UNCHANGED <<file, view, opened>> /\ (p = Writer \/ ~Does("solo")) /\ Alive(p)
         /\ job[p].at \in Elsewhere
         /\ \A q \in Procs : Alive(q)' <=> Alive(q)
         /\ \/ job' = job
            \/ \E x \in Elsewhere : job' = Goto(p, x)
            \/ \E next \in Thens : job' = SyncThen(p, Mapped(p), FALSE, next)
  <1> DEFINE Moving == \/ job' = job
                       \/ \E x \in Elsewhere : job' = Goto(p, x)
                       \/ \E next \in Thens : job' = SyncThen(p, Mapped(p), FALSE, next)
             Same == \A q \in Procs : Alive(q)' <=> Alive(q)
             From == (p = Writer \/ ~Does("solo")) /\ Alive(p) /\ job[p].at \in Elsewhere
             Fixed == UNCHANGED <<file, view, opened>>
  <1>1. local \in [Procs -> LocalRec]
    BY DEF BInv, BrokerTypes
  <1>2. /\ {"idle", "publishLock", "publish", "publishWrite", "findLock", "find", "listLock", "list",
            "next", "queueLock", "post", "append", "pollLock", "poll", "take", "importLock",
            "import", "restat"} \subseteq Elsewhere
        /\ "queueLock" \in Thens /\ "take" \in Thens
    BY DEF Elsewhere, Lonely, Thens, Ats, Syncing, MapPhases, Holding, Posting, Listing
  <1>3. CASE PublishRead(p)
    <2>1. From /\ Fixed /\ Moving
      BY <1>2, <1>3 DEF PublishRead, Step, At, Alive, mapFiles, brokerVars, Holding, Posting,
         Listing
    <2>2. Same
      BY <1>1, <1>3 DEF PublishRead, SetCall, Alive, LocalRec, mapFiles, brokerVars
    <2> QED
      BY <2>1, <2>2
  <1>4. CASE PublishWrite(p)
    <2>1. From /\ Fixed /\ Moving
      BY <1>2, <1>4 DEF PublishWrite, Step, At, Alive, mapFiles, brokerVars
    <2>2. Same
      BY <1>1, <1>4 DEF PublishWrite, SetCall, Alive, LocalRec, mapFiles, brokerVars
    <2> QED
      BY <2>1, <2>2
  <1>5. CASE FindExternalGuestWindow(p)
    <2>1. From /\ Fixed /\ Moving
      BY <1>2, <1>5 DEF FindExternalGuestWindow, Step, At, Alive, mapFiles, brokerVars
    <2>2. Same
      BY <1>1, <1>5 DEF FindExternalGuestWindow, SetCall, Alive, LocalRec, mapFiles, brokerVars
    <2> QED
      BY <2>1, <2>2
  <1>6. CASE BroadcastList(p)
    <2>1. From /\ Fixed /\ Moving
      BY <1>2, <1>6 DEF BroadcastList, Step, At, Alive, mapFiles, brokerVars
    <2>2. Same
      BY <1>1, <1>6 DEF BroadcastList, SetCall, Alive, LocalRec, mapFiles, brokerVars
    <2> QED
      BY <2>1, <2>2
  <1>7. CASE BroadcastNext(p)
    <2>1. From /\ Fixed /\ Moving
      BY <1>2, <1>7 DEF BroadcastNext, Step, At, Alive, mapFiles, brokerVars, PostBegins
    <2>2. Same
      <3>1. PICK c : local' = [local EXCEPT ![p].call = c]
        BY <1>7 DEF BroadcastNext, SetCall
      <3> QED
        BY <1>1, <3>1 DEF Alive, LocalRec
    <2> QED
      BY <2>1, <2>2
  <1>8. CASE PostRead(p)
    <2>1. From /\ Fixed /\ Moving
      BY <1>2, <1>8 DEF PostRead, Step, At, Alive, mapFiles, brokerVars
    <2>2. Same
      BY <1>1, <1>8 DEF PostRead, SetCall, Alive, LocalRec, mapFiles, brokerVars
    <2> QED
      BY <2>1, <2>2
  <1>9. CASE PostAppend(p)
    <2>1. From /\ Fixed /\ Moving
      BY <1>2, <1>9 DEF PostAppend, Step, At, Alive, mapFiles, brokerVars
    <2>2. Same
      <3>1. \/ local' = [local EXCEPT ![p].call.copy = << >>]
            \/ local' = [local EXCEPT ![p].call = NoCall]
        BY <1>9 DEF PostAppend, SetCall
      <3> QED
        BY <1>1, <3>1 DEF Alive, LocalRec
    <2> QED
      BY <2>1, <2>2
  <1>10. CASE PollRead(p)
    <2>1. From /\ Fixed /\ Moving
      BY <1>2, <1>10 DEF PollRead, Step, At, Alive, mapFiles, brokerVars, PollBegins
    <2>2. Same
      BY <1>1, <1>10 DEF PollRead, SetCall, Alive, LocalRec, mapFiles, brokerVars, PollBegins
    <2> QED
      BY <2>1, <2>2
  <1>11. CASE TakeMessage(p)
    <2>1. From /\ Fixed /\ Moving
      BY <1>2, <1>11 DEF TakeMessage, Step, At, Alive, mapFiles, brokerVars, Taken
    <2>2. Same
      BY <1>1, <1>11 DEF TakeMessage, SetCall, Alive, LocalRec, mapFiles, brokerVars, Taken
    <2> QED
      BY <2>1, <2>2
  <1>12. CASE ImportExternalWindow(p)
    <2>1. From /\ Fixed /\ Moving
      BY <1>2, <1>12 DEF ImportExternalWindow, Step, At, Alive, mapFiles, brokerVars
    <2>2. Same
      BY <1>1, <1>12 DEF ImportExternalWindow, SetCall, Alive, LocalRec, mapFiles, brokerVars
    <2> QED
      BY <2>1, <2>2
  <1>13. CASE PollNothing(p)
    <2>1. From /\ Fixed /\ Moving
      BY <1>2, <1>13 DEF PollNothing, Step, At, Alive, mapFiles, brokerVars
    <2>2. Same
      BY <1>1, <1>13 DEF PollNothing, SetCall, Alive, LocalRec, mapFiles, brokerVars
    <2> QED
      BY <2>1, <2>2
  <1>14. CASE PollRewrite(p)
    <2>1. From /\ Fixed /\ Moving
      BY <1>2, <1>14 DEF PollRewrite, Step, At, Alive, mapFiles, brokerVars
    <2>2. Same
      BY <1>1, <1>14 DEF PollRewrite, SetCall, Alive, LocalRec, mapFiles, brokerVars
    <2> QED
      BY <2>1, <2>2
  <1>15. CASE PollRestat(p)
    <2>1. From /\ Fixed /\ Moving
      BY <1>2, <1>15 DEF PollRestat, Step, At, Alive, mapFiles, brokerVars
    <2>2. Same
      BY <1>1, <1>15 DEF PollRestat, SetCall, Alive, LocalRec, mapFiles, brokerVars
    <2> QED
      BY <2>1, <2>2
  <1>16. CASE Acquire(p)
    <2>1. From /\ Fixed /\ Moving
      <3>1. /\ job[p].at \in DOMAIN Waits /\ Alive(p) /\ (p = Writer \/ ~Does("solo"))
            /\ job' = Goto(p, Waits[job[p].at]) /\ Fixed
        BY <1>16 DEF Acquire, At, Waiting, mapFiles
      <3>2. job[p].at \in Elsewhere /\ Waits[job[p].at] \in Elsewhere
        BY <1>2, <3>1 DEF Waits
      <3> QED
        BY <3>1, <3>2
    <2>2. Same
      BY <1>1, <1>16 DEF Acquire, SetCall, Alive, LocalRec, mapFiles, brokerVars, Waiting, Waits
    <2> QED
      BY <2>1, <2>2
  <1>17. CASE GiveUp(p)
    <2>1. From /\ Fixed /\ Moving
      <3>1. /\ job[p].at \in DOMAIN Waits /\ Alive(p) /\ (p = Writer \/ ~Does("solo"))
            /\ job' = Goto(p, Waits[job[p].at]) /\ Fixed
        BY <1>17 DEF GiveUp, At, Waiting, mapFiles
      <3>2. job[p].at \in Elsewhere /\ Waits[job[p].at] \in Elsewhere
        BY <1>2, <3>1 DEF Waits
      <3> QED
        BY <3>1, <3>2
    <2>2. Same
      BY <1>1, <1>17 DEF GiveUp, SetCall, Alive, LocalRec, mapFiles, brokerVars, Waiting, Waits
    <2> QED
      BY <2>1, <2>2
  <1>18. CASE PollCrossProcessGuestMessages(p)
    <2>1. From /\ Fixed /\ Moving
      BY <1>2, <1>18 DEF PollCrossProcessGuestMessages, Step, At, Alive, mapFiles, brokerVars
    <2>2. Same
      BY <1>1, <1>18 DEF PollCrossProcessGuestMessages, SetCall, Alive, LocalRec, mapFiles,
         brokerVars
    <2> QED
      BY <2>1, <2>2
  <1>19. CASE PublishGuestWindowState(p)
    <2>1. From /\ Fixed /\ Moving
      BY <1>2, <1>19 DEF PublishGuestWindowState, Step, At, Alive, mapFiles, brokerVars
    <2>2. Same
      BY <1>1, <1>19 DEF PublishGuestWindowState, SetCall, Alive, LocalRec, mapFiles, brokerVars
    <2> QED
      BY <2>1, <2>2
  <1>20. CASE FindWindow(p)
    <2>1. From /\ Fixed /\ Moving
      BY <1>2, <1>20 DEF FindWindow, Step, At, Alive, mapFiles, brokerVars
    <2>2. Same
      BY <1>1, <1>20 DEF FindWindow, SetCall, Alive, LocalRec, mapFiles, brokerVars
    <2> QED
      BY <2>1, <2>2
  <1>21. CASE Broadcast(p)
    <2>1. From /\ Fixed /\ Moving
      BY <1>2, <1>21 DEF Broadcast, Step, At, Alive, mapFiles, brokerVars
    <2>2. Same
      BY <1>1, <1>21 DEF Broadcast, SetCall, Alive, LocalRec, mapFiles, brokerVars
    <2> QED
      BY <2>1, <2>2
  <1>22. ASSUME NEW q \in Procs, NEW kind \in {"post", "copydata"}, PostMessage(p, q, kind)
        PROVE  From /\ Fixed /\ Moving /\ Same
    <2>1. From /\ Fixed /\ Moving
      BY <1>2, <1>22 DEF PostMessage, PostBegins, Step, At, mapFiles, brokerVars
    <2>2. Same
      BY <1>1, <1>22 DEF PostMessage, SetCall, Alive, LocalRec
    <2> QED
      BY <2>1, <2>2
  <1> QED
    BY <1>3, <1>4, <1>5, <1>6, <1>7, <1>8, <1>9, <1>10, <1>11, <1>12, <1>13, <1>14, <1>15, <1>16,
       <1>17, <1>18, <1>19, <1>20, <1>21, <1>22 DEF BrokerStep, CallStep, WaitLock
-----------------------------------------------------------------------------
(* A process dies: the one that stores may leave the two files out of step. *)
LEMMA CrashVersions ==
  ASSUME BInv, BInv', NoRace, ~Stuck, InStep, UNCHANGED calls, NEW p \in Procs, Crash(p)
  PROVE  Stuck' \/ InStep'
  <1> DEFINE at == IF job[p].at \in Writing THEN job[p].at ELSE "idle"
             j == [Idle EXCEPT !.at = at]
             r == [local[p] EXCEPT !.alive = FALSE, !.call = NoCall]
  <1>1. /\ MInv /\ MInv' /\ Readers /\ job \in [Procs -> JobRec] /\ local \in [Procs -> LocalRec]
        /\ view \in [Views -> ViewRec]
    BY DEF BInv, BrokerTypes, MInv, MapTypes, InStep
  <1>2. /\ job' = [job EXCEPT ![p] = j] /\ local' = [local EXCEPT ![p] = r]
        /\ view' = [v \in Views |-> IF ViewProc[v] = p THEN Unmapped ELSE view[v]]
        /\ opened' = opened \ {p} /\ UNCHANGED file
    BY DEF Crash
  <1>3. j.at = at /\ ~j.force
    BY DEF Idle
  <1>4. ~r.alive
    BY <1>1 DEF LocalRec
  <1> HIDE DEF at, j, r
  <1>5. /\ job'[p] = j /\ local'[p] = r
        /\ \A q \in Procs \ {p} : job'[q] = job[q] /\ local'[q] = local[q]
    BY <1>1, <1>2
  <1>6. CASE p = Writer /\ job[p].at \in Writing
    BY <1>3, <1>4, <1>5, <1>6 DEF Stuck, W, Alive, at, Writing
  <1>7. CASE ~(p = Writer /\ job[p].at \in Writing)
    <2>1. job[p].at \notin Writing
      BY <1>1, <1>7 DEF Readers
    <2>2. job'[p].at = "idle" /\ ~job'[p].force /\ "idle" \in Elsewhere
      BY <1>3, <1>5, <2>1, PlaceNames DEF at, Thens
    <2>3. ~(Unmapped.refs > 0) /\ Unmapped.mem = Unmapped.shadow
      BY DEF Unmapped
    <2>4. \A v \in Views : view'[v] = view[v] \/ (ViewProc[v] = p /\ view'[v] = Unmapped)
      BY <1>2
    <2>5. /\ \A v \in Views : ViewProc[v] # p => view'[v] = view[v]
          /\ \A v \in Views : view'[v].refs > 0 =>
               view[v].refs > 0 /\ view'[v].shadow = view[v].shadow /\ view'[v].seen = view[v].seen
          /\ \A v \in Views : ViewProc[v] # Writer => view'[v].mem = view'[v].shadow
      BY <1>1, <2>3, <2>4 DEF Readers
    <2>6. \A q \in Procs \ {p} : job'[q] = job[q] /\ (Alive(q)' <=> Alive(q))
      BY <1>5 DEF Alive
    <2>7. opened' \subseteq opened /\ UNCHANGED <<file, calls>>
      BY <1>2
    <2> QED
      BY <1>1, <2>1, <2>2, <2>5, <2>6, <2>7, QuietVersions
  <1> QED
    BY <1>6, <1>7

(* Once the process that stores is dead, it stays where it died.            *)
LEMMA StaysStuck ==
  ASSUME BInv, Stuck, NEW p \in Procs, MapPart(p) \/ BrokerStep(p) \/ Crash(p)
  PROVE  Stuck'
  <1>1. job \in [Procs -> JobRec] /\ local \in [Procs -> LocalRec] /\ MInv
    BY DEF BInv, BrokerTypes, MInv, MapTypes
  <1>2. Alive(p) /\ p # Writer /\ Writer \in Procs
    <2>1. Alive(p)
      BY BrokerStepMoves DEF MapPart, Crash
    <2> QED
      BY <2>1, MappingAssumption DEF Stuck
  <1>3. CASE MapPart(p)
    <2>1. W' = W
      BY <1>1, <1>2, <1>3, MapMovesOne DEF MapPart, W
    <2>2. UNCHANGED local
      BY <1>3 DEF MapPart, brokerVars
    <2> QED
      BY <2>1, <2>2 DEF Stuck, Alive, Writing
  <1>4. CASE BrokerStep(p)
    <2>1. Alive(Writer)' <=> Alive(Writer)
      BY <1>2, <1>4, BrokerStepMoves
    <2>2. W' = W
      <3>1. \/ job' = job
            \/ \E x : job' = Goto(p, x)
            \/ \E next : job' = SyncThen(p, Mapped(p), FALSE, next)
        BY <1>4, BrokerStepMoves
      <3>2. ASSUME NEW x, job' = Goto(p, x) PROVE W' = W
        BY <1>1, <1>2, <3>2 DEF Goto, W
      <3>3. ASSUME NEW next, job' = SyncThen(p, Mapped(p), FALSE, next) PROVE W' = W
        BY <1>1, <1>2, <3>3 DEF SyncThen, W
      <3>4. CASE job' = job
        BY <3>4 DEF W
      <3> QED
        BY <3>1, <3>2, <3>3, <3>4
    <2> QED
      BY <2>1, <2>2 DEF Stuck, Writing
  <1>5. CASE Crash(p)
    BY <1>1, <1>2, <1>5 DEF Crash, Stuck, W, Alive, Writing
  <1> QED
    BY <1>3, <1>4, <1>5

(* The invariant holds at first: the files are in step, or there are none.  *)
LEMMA InitVersions ==
  ASSUME Init
  PROVE  InStep
  <1>1. /\ \A p \in Procs : job[p] = Idle /\ Alive(p)
        /\ Idle.at = "idle" /\ ~Idle.force /\ W = Idle /\ Writer \in Procs
    BY MappingAssumption DEF Init, Idle, W, Alive
  <1>2. Readers /\ Apart
    <2>1. \A v \in Views : view[v].mem = view[v].shadow
      BY DEF Init, Unmapped, Loaded
    <2> QED
      BY <1>1, <2>1 DEF Readers, Apart, Writing, Lonely
  <1>3. W.at = "idle" /\ Top = file.version
    BY <1>1 DEF Top
  <1>4. Creation
    <2>1. CASE Does("create")
      <3>1. file = NoFile /\ ~NoFile.versioned /\ opened = {} /\ \A v \in Views : view[v].refs = 0
        BY <2>1 DEF Init, NoFile, Unmapped
      <3>2. NoViews
        BY <1>3, <3>1 DEF NoViews, Writing
      <3> QED
        BY <1>1, <3>1, <3>2 DEF Creation
    <2>2. CASE ~Does("create")
      <3>1. file.versioned
        BY <2>2 DEF Init, NewFile, NoFile
      <3>2. file.exists
        BY <2>2 DEF Init, NewFile, NoFile
      <3> QED
        BY <1>1, <3>1, <3>2 DEF Creation
    <2> QED
      BY <2>1, <2>2
  <1>5. \A v \in Views : view[v].refs > 0 => /\ view[v].seen = file.version
                                            /\ view[v].shadow = Shown(v) /\ file.version = 1
    <2>1. CASE Does("create")
      BY <2>1 DEF Init, Unmapped
    <2>2. CASE ~Does("create")
      <3>1. file = NewFile /\ \A v \in Views : view[v] = Loaded(v)
        BY <2>2 DEF Init
      <3>2. NewFile.version = 1 /\ NewFile.bytes = [c \in Cells |-> 0]
        BY DEF NewFile, NoFile
      <3>3. \A v \in Views : ViewCells[v] \subseteq Cells
        BY MappingAssumption
      <3>4. \A v \in Views : Shown(v) = [c \in ViewCells[v] |-> 0]
        BY <3>1, <3>2, <3>3 DEF Shown
      <3> QED
        <4>1. \A v \in Views : /\ Loaded(v).seen = 1
                               /\ Loaded(v).shadow = [c \in ViewCells[v] |-> 0]
          BY DEF Loaded
        <4> QED
          BY <3>1, <3>2, <3>4, <4>1
    <2> QED
      BY <2>1, <2>2
  <1>6. Versions /\ Written /\ Current
    BY <1>1, <1>3, <1>5 DEF Versions, Written, Current
  <1> QED
    BY <1>2, <1>4, <1>6 DEF InStep

(* Every step keeps it.                                                     *)
LEMMA NextVersions ==
  ASSUME BInv, BInv', VInv, [Next]_<<vars, calls>>
  PROVE  VInv'
  <1> SUFFICES ASSUME NoRace', ~Stuck' PROVE InStep'
    BY DEF VInv
  <1>1. UNCHANGED calls
    BY DEF Next
  <1>2. NoRace /\ MInv /\ MInv'
    BY <1>1 DEF NoRace, Does, BInv
  <1>3. CASE UNCHANGED <<vars, calls>>
    <2>1. UNCHANGED <<file, view, job, opened, local, calls>>
      BY <1>3 DEF vars, mapVars, brokerVars
    <2>2. W' = W /\ Top' = Top /\ (NoViews <=> NoViews') /\ \A v \in Views : (Shown(v))' = Shown(v)
      BY <2>1 DEF W, Top, NoViews, Shown, Writing
    <2>3. (Stuck <=> Stuck') /\ (Readers => Readers') /\ (Apart => Apart')
      BY <2>1, <2>2 DEF Stuck, Alive, Readers, Apart, Does, Writing, Lonely
    <2>4. Creation => Creation'
      <3>1. \A p \in Procs : (Shown(job[p].arg))' = Shown(job[p].arg)
        BY <2>1 DEF Shown
      <3> QED
        BY <2>1, <2>2, <3>1 DEF Creation
    <2>5. (Versions => Versions') /\ (Current => Current')
      BY <2>1, <2>2 DEF Versions, Current, Does, Alive
    <2>6. Written => Written'
      <3>1. (Shown(W.todo[1]))' = Shown(W.todo[1])
        BY <2>1 DEF Shown, W
      <3> QED
        BY <2>1, <2>2, <3>1 DEF Written, BytesFirst, Does
    <2> QED
      BY <1>2, <2>3, <2>4, <2>5, <2>6 DEF VInv, InStep
  <1>4. ASSUME NEW p \in Procs, MapPart(p) \/ BrokerStep(p) \/ Crash(p) PROVE InStep'
    <2>1. ~Stuck /\ InStep
      BY <1>2, <1>4, StaysStuck DEF VInv
    <2>2. CASE MapPart(p)
      <3>1. Alive(p) /\ UNCHANGED local /\ (SyncStep(p) \/ MapStep(p))
        BY <2>2 DEF MapPart, brokerVars
      <3> QED
        BY <1>1, <1>2, <2>1, <3>1, SyncVersions, MapVersions
    <2>3. CASE BrokerStep(p)
      BY <1>1, <1>2, <2>1, <2>3, BrokerStepMoves, CallVersions
    <2>4. CASE Crash(p)
      BY <1>1, <1>2, <2>1, <2>4, CrashVersions
    <2> QED
      BY <1>4, <2>2, <2>3, <2>4
  <1> QED
    BY <1>3, <1>4 DEF Next, BrokerStep

(* Unless one of the races the code does nothing against is allowed, a      *)
(* clean view whose version is the file's shows the file's bytes while      *)
(* nobody is between the bytes and the version: what the next               *)
(* synchronisation does not read is what the view shows already.            *)
THEOREM VersionsAgree == Spec => [](NoRace => SeenIsCurrent)
  <1>1. Init => BInv /\ VInv
    BY InitBroker, InitVersions DEF VInv
  <1>2. BInv /\ VInv /\ [Next]_<<vars, calls>> => BInv' /\ VInv'
    BY NextBroker, NextVersions
  <1>3. VInv => (NoRace => SeenIsCurrent)
    <2> SUFFICES ASSUME VInv, NoRace, Settled PROVE SeenIsCurrent
      BY DEF SeenIsCurrent
    <2>1. W.at \notin Writing
      BY MappingAssumption DEF Settled, W
    <2>2. Current
      BY <2>1 DEF VInv, Stuck, InStep
    <2> QED
      BY <2>1, <2>2 DEF Current, SeenIsCurrent, Writing
  <1> QED
    BY <1>1, <1>2, <1>3, PTL DEF Spec

-----------------------------------------------------------------------------
(* Without the races, and with views that are larger than a stream's buffer. *)
Plain == NoRace /\ ~Does("small")

(* Views of Writer have no byte in common: each is written whole, so that    *)
(* one that is older would set back what another one stored.                 *)
Separate ==
  \A v, w \in Views : v # w /\ ViewProc[v] = Writer /\ ViewProc[w] = Writer =>
    ViewCells[v] \cap ViewCells[w] = {}

(* A version for which a view passes for current, now or once Writer has    *)
(* stored the version it is about to store.                                 *)
Fresh(n) == n # 0 /\ (n = file.version \/ (~Stuck /\ n >= Top))

(* The messages in the file, and in the hands of processes.                 *)
Flying == ToSet(queue.messages) \cup UNION {ToSet(InCall(p).copy) : p \in Procs}

(* A view shows at least what the views of the sender showed.               *)
Caught(v, m) == \A c \in ViewCells[v] : view[v].mem[c] >= m.sent[c]

(* The views p has still to synchronise.                                    *)
Rest(p) == ToSet(job[p].todo)

(* Bytes only grow, first in the views of Writer, then in the file, then in *)
(* the other views.                                                         *)
Growth ==
  /\ \A c \in Cells : file.bytes[c] <= writes
  /\ \A v \in Views : view[v].refs > 0 => \A c \in ViewCells[v] :
       IF ViewProc[v] = Writer
         THEN file.bytes[c] <= view[v].mem[c] /\ view[v].mem[c] <= writes
         ELSE view[v].mem[c] <= file.bytes[c]

(* What a message is about is in the file.                                  *)
Stored == \A m \in Flying, c \in Cells : m.sent[c] <= file.bytes[c]

(* What Writer sent is in the views of others, unless they will notice.     *)
Noticed ==
  \A m \in Flying, v \in Views :
    m.from = Writer /\ ViewProc[v] # Writer /\ view[v].refs > 0 /\ Fresh(view[v].seen) =>
      Caught(v, m)

(* Who takes messages has synchronised its views since it read them.        *)
Synced(p) ==
  Phase(p) \in Taking =>
    \A m \in ToSet(InCall(p).copy), v \in Mapped(p) \ Rest(p) :
      m.from = Writer => view[v].seen = 0 \/ Caught(v, m)

(* Writer has put its views into the file before it posts.                  *)
Ready ==
  Phase(Writer) \in Posting =>
    \A v \in Mapped(Writer) \ Rest(Writer) : view[v].mem = Shown(v)

(* What is said of the file, the views and the messages.                    *)
DataInv ==
  /\ Growth /\ Stored /\ Noticed /\ Ready
  /\ \A p \in Procs \ {Writer} : Synced(p)

(* Others do not write, wherever Writer died.                               *)
Still == Readers /\ Apart

DInv == Plain /\ Separate => Still /\ DataInv /\ PostedDataSeen

(* The entries of a sequence.                                               *)
LEMMA ToSetSeq ==
  ASSUME NEW T, NEW q \in Seq(T)
  PROVE  /\ ToSet(q) = {q[i] : i \in 1 .. Len(q)} /\ ToSet(q) \subseteq T
         /\ q = << >> => ToSet(q) = {}
         /\ \A i \in 1 .. Len(q) : q[i] \in ToSet(q)
         /\ \A x \in ToSet(q) : \E i \in 1 .. Len(q) : x = q[i]
  <1>1. DOMAIN q = 1 .. Len(q) /\ \A i \in 1 .. Len(q) : q[i] \in T
    BY LenProperties, ElementOfSeq
  <1>2. q = << >> => Len(q) = 0
    BY EmptySeq
  <1> QED
    BY <1>1, <1>2 DEF ToSet

(* A synchronisation has all views before it.                               *)
LEMMA BaseOrderAll ==
  ASSUME NEW vs \in SUBSET Views
  PROVE  ToSet(InBaseOrder(vs)) = vs
  <1> DEFINE s == InBaseOrder(vs)
  <1>1. vs \in SUBSET Nat /\ IsFiniteSet(vs)
    BY MappingAssumption, FS_Subset
  <1>2. PICK n \in Nat : n = Cardinality(vs)
    BY <1>1, FS_CardinalityType
  <1>3. \E t \in [1 .. n -> vs] : \A i, j \in DOMAIN t : i < j => t[i] < t[j]
    <2>1. PICK t : Sorts(t, vs)
      BY <1>1, SortedExists
    <2> QED
      BY <1>2, <2>1 DEF Sorts
  <1>4. s \in [1 .. n -> vs] /\ \A i, j \in 1 .. n : i < j => s[i] < s[j]
    BY <1>2, <1>3 DEF InBaseOrder
  <1> HIDE DEF s
  <1>5. \A i, j \in 1 .. n : s[i] = s[j] => i = j
    <2> SUFFICES ASSUME NEW i \in 1 .. n, NEW j \in 1 .. n, s[i] = s[j], i # j PROVE FALSE
      OBVIOUS
    <2>1. s[i] \in Nat /\ s[j] \in Nat
      BY <1>1, <1>4
    <2>2. i < j \/ j < i
      BY <1>2
    <2> QED
      BY <1>4, <2>1, <2>2
  <1>6. s \in Injection(1 .. n, vs)
    BY <1>4, <1>5 DEF Injection, IsInjective
  <1>7. IsFiniteSet(1 .. n) /\ Cardinality(1 .. n) = n
    <2>1. 1 \in Int /\ n \in Int
      BY <1>2
    <2> QED
      BY <1>2, <2>1, FS_Interval
  <1>8. s \in Surjection(1 .. n, vs)
    BY <1>1, <1>2, <1>6, <1>7, FS_Injection
  <1>9. \A v \in vs : \E i \in 1 .. n : s[i] = v
    BY <1>8 DEF Surjection
  <1>10. DOMAIN s = 1 .. n
    BY <1>4
  <1> QED
    BY <1>4, <1>9, <1>10 DEF ToSet, s

(* The view at hand goes, and no other.                                     *)
LEMMA NextViewRest ==
  ASSUME job \in [Procs -> JobRec], NEW p \in Procs, Len(job[p].todo) > 0,
         NEW v \in Rest(p), v # job[p].todo[1]
  PROVE  v \in ToSet(NextView(p)[p].todo)
  <1> DEFINE todo == job[p].todo
             n == Len(todo)
  <1>1. job[p] \in JobRec /\ todo \in Seq(Views) /\ n \in Nat /\ n > 0
    BY LenProperties DEF JobRec
  <1>2. PICK i \in 1 .. n : v = todo[i]
    BY <1>1, ToSetSeq DEF Rest
  <1>3. i # 1 /\ n > 1 /\ i - 1 \in 1 .. n - 1 /\ (i - 1) + 1 = i
    BY <1>1, <1>2
  <1>4. todo # << >>
    BY <1>3, EmptySeq
  <1>5. PICK rest \in Seq(Views) : rest = Tail(todo)
    <2>1. Tail(todo) \in Seq(Views)
      BY <1>1, <1>4, HeadTailProperties
    <2> QED
      BY <2>1
  <1>6. Len(rest) = n - 1 /\ \A k \in 1 .. n - 1 : rest[k] = todo[k + 1]
    BY <1>1, <1>4, <1>5, HeadTailProperties
  <1>7. NextView(p)[p].todo = rest
    <2>1. NextView(p) = [job EXCEPT ![p] = [job[p] EXCEPT !.at = "sync", !.todo = rest, !.ver = 0]]
      BY <1>3, <1>5 DEF NextView
    <2> QED
      BY <1>1, <2>1 DEF JobRec
  <1>8. rest[i - 1] = v /\ i - 1 \in 1 .. Len(rest)
    BY <1>2, <1>3, <1>6
  <1>9. \A k \in 1 .. Len(rest) : rest[k] \in ToSet(rest)
    BY <1>5, ToSetSeq
  <1>10. v \in ToSet(rest)
    BY <1>8, <1>9
  <1> QED
    BY <1>7, <1>10

(* All views of p are before it when it begins.                             *)
LEMMA SyncMappedRest ==
  ASSUME job \in [Procs -> JobRec], NEW p \in Procs, NEW next \in Thens
  PROVE  ToSet(SyncMapped(p, next)[p].todo) = Mapped(p)
  <1>1. Mapped(p) \in SUBSET Views
    BY DEF Mapped
  <1>2. SyncMapped(p, next)[p].todo = InBaseOrder(Mapped(p))
    BY SyncMappedJob
  <1> QED
    BY <1>1, <1>2, BaseOrderAll

(* What is in flight are messages; a copy of a process is in flight.        *)
LEMMA FlyingTypes ==
  ASSUME BrokerTypes
  PROVE  /\ \A m \in Flying : m \in Message /\ m.sent \in Data /\ \A c \in Cells : m.sent[c] \in Nat
         /\ ToSet(queue.messages) \subseteq Flying
         /\ \A p \in Procs : ToSet(InCall(p).copy) \subseteq Flying
  <1>1. queue.messages \in Seq(Message) /\ \A p \in Procs : InCall(p).copy \in Seq(Message)
    BY DEF BrokerTypes, FileType, InCall, LocalRec, CallRec
  <1>2. \A m \in Flying : m \in Message
    BY <1>1, ToSetSeq DEF Flying
  <1>3. \A m \in Message : m.sent \in Data
    BY DEF Message
  <1>4. Vals \subseteq Nat
    BY MappingAssumption DEF Vals
  <1>5. \A d \in Data, c \in Cells : d[c] \in Nat
    BY <1>4 DEF Data
  <1> QED
    BY <1>2, <1>3, <1>5 DEF Flying

(* What is left of a copy was in it.                                        *)
LEMMA LeftInCopy ==
  ASSUME NEW T, NEW q \in Seq(T), NEW i \in 1 .. Len(q)
  PROVE  ToSet(RemoveAt(q, i)) \subseteq ToSet(q)
  <1> DEFINE r == RemoveAt(q, i)
             n == Len(q)
  <1>1. n \in Nat
    BY LenProperties
  <1>2. /\ r \in Seq(T) /\ Len(r) = n - 1
        /\ \A j \in 1 .. n - 1 : r[j] = IF j < i THEN q[j] ELSE q[j + 1]
    BY RemoveAtSeq
  <1> HIDE DEF r
  <1>3. \A j \in 1 .. n - 1 : j \in 1 .. n /\ j + 1 \in 1 .. n
    BY <1>1
  <1>4. \A j \in 1 .. n - 1 : \E k \in 1 .. n : r[j] = q[k]
    BY <1>2, <1>3
  <1> QED
    BY <1>2, <1>4, ToSetSeq DEF r

-----------------------------------------------------------------------------
(* Bytes, stores and versions are numbers.                                  *)
DataNumbers ==
  /\ writes \in Nat /\ file.version \in Nat /\ Top \in Int
  /\ \A c \in Cells : file.bytes[c] \in Nat
  /\ \A v \in Views : ViewCells[v] \subseteq Cells /\ view[v].seen \in Nat
  /\ \A v \in Views : view[v].refs > 0 => \A c \in ViewCells[v] : view[v].mem[c] \in Nat
  /\ \A p \in Procs : job[p].ver \in Nat

(* In every state with the shapes.                                          *)
LEMMA DataTypes == MInv => DataNumbers
  <1> SUFFICES ASSUME MInv PROVE DataNumbers
    OBVIOUS
  <1>1. Vals \subseteq Nat
    BY MappingAssumption DEF Vals
  <1>2. /\ file \in FileRec /\ view \in [Views -> ViewRec] /\ job \in [Procs -> JobRec]
        /\ writes \in 0 .. MaxWrites /\ ViewInv
    BY DEF MInv, MapTypes
  <1>3. writes \in Nat /\ file.version \in Nat
    BY <1>2, MappingAssumption DEF FileRec
  <1>4. \A c \in Cells : file.bytes[c] \in Nat
    BY <1>1, <1>2 DEF FileRec
  <1>5. \A v \in Views : ViewCells[v] \subseteq Cells /\ view[v].seen \in Nat
    BY <1>2, MappingAssumption DEF ViewRec
  <1>6. \A v \in Views : view[v].refs > 0 => \A c \in ViewCells[v] : view[v].mem[c] \in Nat
    BY <1>1, <1>2 DEF ViewInv
  <1>7. \A p \in Procs : job[p].ver \in Nat
    BY <1>2 DEF JobRec
  <1>8. Top \in Int
    BY <1>3, <1>7, MappingAssumption DEF Top, W
  <1> QED
    BY <1>3, <1>4, <1>5, <1>6, <1>7, <1>8 DEF DataNumbers

(* And in the next one.                                                     *)
LEMMA DataTypesNext == MInv' => DataNumbers'
  BY DataTypes, PTL

(* What a step leaves of a view, or reads into it.                          *)
ViewKept(v) == /\ view[v].refs > 0 /\ view'[v].mem = view[v].mem
               /\ view'[v].seen = view[v].seen
ViewRead(v) == view'[v].mem = [c \in ViewCells[v] |-> file'.bytes[c]]
BytesGrow == \A c \in Cells : file.bytes[c] <= file'.bytes[c]

(* Growth, when views are kept or read.                                     *)
LEMMA GrowthStep ==
  ASSUME MInv, MInv', Growth, writes' = writes, BytesGrow,
         \A c \in Cells : file'.bytes[c] <= writes,
         \A v \in Views : view'[v].refs > 0 =>
           \/ ViewRead(v)
           \/ /\ view[v].refs > 0 /\ view'[v].mem = view[v].mem
              /\ ViewProc[v] = Writer => \A c \in ViewCells[v] : file'.bytes[c] <= view[v].mem[c]
  PROVE  Growth'
  <1>1. /\ \A c \in Cells : file.bytes[c] \in Nat /\ file'.bytes[c] \in Nat
        /\ \A v \in Views : ViewCells[v] \subseteq Cells
        /\ \A v \in Views : view[v].refs > 0 => \A c \in ViewCells[v] : view[v].mem[c] \in Nat
        /\ writes \in Nat
    BY DataTypes, DataTypesNext DEF DataNumbers
  <1>2. ASSUME NEW v \in Views, view'[v].refs > 0, NEW c \in ViewCells[v]
        PROVE  IF ViewProc[v] = Writer
                 THEN file'.bytes[c] <= view'[v].mem[c] /\ view'[v].mem[c] <= writes
                 ELSE view'[v].mem[c] <= file'.bytes[c]
    <2>1. c \in Cells /\ file.bytes[c] <= file'.bytes[c] /\ file'.bytes[c] <= writes
      BY <1>1, <1>2 DEF BytesGrow
    <2>2. CASE ViewRead(v)
      <3>1. view'[v].mem[c] = file'.bytes[c]
        BY <1>2, <2>2 DEF ViewRead
      <3> QED
        BY <1>1, <2>1, <3>1
    <2>3. CASE ~ViewRead(v)
      <3>1. /\ view[v].refs > 0 /\ view'[v].mem = view[v].mem
            /\ ViewProc[v] = Writer => file'.bytes[c] <= view[v].mem[c]
        BY <1>2, <2>3
      <3>2. IF ViewProc[v] = Writer THEN view[v].mem[c] <= writes
                                    ELSE view[v].mem[c] <= file.bytes[c]
        BY <1>2, <3>1 DEF Growth
      <3> QED
        BY <1>1, <1>2, <2>1, <3>1, <3>2
    <2> QED
      BY <2>2, <2>3
  <1> QED
    BY <1>2 DEF Growth

(* Stored, when the bytes of the file grow.                                 *)
LEMMA StoredStep ==
  ASSUME MInv, MInv', BrokerTypes, Stored, BytesGrow, Flying' \subseteq Flying
  PROVE  Stored'
  <1>1. \A c \in Cells : file.bytes[c] \in Nat /\ file'.bytes[c] \in Nat
    BY DataTypes, DataTypesNext DEF DataNumbers
  <1>2. \A m \in Flying, c \in Cells : m.sent[c] \in Nat
    BY FlyingTypes
  <1>3. ASSUME NEW m \in Flying', NEW c \in Cells PROVE m.sent[c] <= file'.bytes[c]
    <2>1. m \in Flying
      BY <1>3
    <2>2. m.sent[c] <= file.bytes[c] /\ file.bytes[c] <= file'.bytes[c]
      BY <2>1 DEF Stored, BytesGrow
    <2> QED
      BY <1>1, <1>2, <2>1, <2>2
  <1> QED
    BY <1>3 DEF Stored

(* Noticed, when views are kept or read.                                    *)
LEMMA NoticedStep ==
  ASSUME MInv', Noticed, Stored', Flying' \subseteq Flying,
         \A v \in Views : ViewProc[v] # Writer /\ view'[v].refs > 0 =>
           \/ ViewRead(v)
           \/ ViewKept(v) /\ (Fresh(view[v].seen)' => Fresh(view[v].seen))
  PROVE  Noticed'
  <1> SUFFICES ASSUME NEW m \in Flying', NEW v \in Views, m.from = Writer, ViewProc[v] # Writer,
                      view'[v].refs > 0, Fresh(view[v].seen)', NEW c \in ViewCells[v]
               PROVE  view'[v].mem[c] >= m.sent[c]
    BY Zenon DEF Noticed, Caught
  <1>1. CASE ViewRead(v)
    <2>1. c \in Cells /\ file'.bytes[c] \in Nat
      BY DataTypesNext DEF DataNumbers
    <2>2. m.sent[c] <= file'.bytes[c] /\ view'[v].mem[c] = file'.bytes[c]
      BY <1>1, <2>1 DEF Stored, ViewRead
    <2> QED
      BY <2>1, <2>2
  <1>2. CASE ~ViewRead(v)
    <2>1. ViewKept(v) /\ Fresh(view[v].seen)
      BY <1>2
    <2> QED
      BY <2>1 DEF Noticed, Caught, ViewKept
  <1> QED
    BY <1>1, <1>2

-----------------------------------------------------------------------------
(* Who only reads does nothing in a synchronisation but look and read.      *)
LEMMA ReaderSync ==
  ASSUME MInv, Readers, NEW p \in Procs \ {Writer}, Alive(p), SyncStep(p)
  PROVE  SyncCheck(p) \/ SyncRead(p)
  <1>1. job[p].at \notin Writing /\ ~job[p].force
    BY DEF Readers
  <1>2. ~(BumpVersion(p) \/ TruncateVersion(p) \/ StoreVersion(p) \/ CloseBytes(p)
          \/ RereadVersion(p))
    BY <1>1 DEF BumpVersion, TruncateVersion, StoreVersion, CloseBytes, RereadVersion, At, Writing
  <1>3. ~SyncWrite(p)
    <2> SUFFICES ASSUME SyncWrite(p) PROVE FALSE
      OBVIOUS
    <2>1. job[p].at \in Syncing
      BY DEF SyncWrite, At, Syncing
    <2>2. job[p].todo[1] \in Views /\ ViewProc[job[p].todo[1]] = p
      BY <2>1, AtHand
    <2>3. view[job[p].todo[1]].mem = view[job[p].todo[1]].shadow
      BY <2>2 DEF Readers
    <2> QED
      BY <1>1, <2>3 DEF SyncWrite, Changed
  <1> QED
    BY <1>2, <1>3 DEF SyncStep

(* A version does not pass for current that did not before.                 *)
LEMMA FreshKept ==
  ASSUME MInv, MInv', Stuck => Stuck', ~Stuck' => Top <= Top',
         file'.version \in {0, file.version} \/ (~Stuck /\ Top <= file'.version)
  PROVE  \A n \in Nat : Fresh(n)' => Fresh(n)
  <1>1. Top \in Int /\ Top' \in Int /\ file.version \in Nat /\ file'.version \in Nat
    BY DataTypes, DataTypesNext DEF DataNumbers
  <1> SUFFICES ASSUME NEW n \in Nat, Fresh(n)' PROVE Fresh(n)
    OBVIOUS
  <1>2. n # 0 /\ (n = file'.version \/ (~Stuck' /\ n >= Top'))
    BY DEF Fresh
  <1>3. CASE ~Stuck' /\ n >= Top'
    BY <1>1, <1>2, <1>3 DEF Fresh
  <1>4. CASE n = file'.version
    BY <1>1, <1>2, <1>4 DEF Fresh
  <1> QED
    BY <1>2, <1>3, <1>4

(* Growth says all that is needed when the bytes of the file stay.          *)
LEMMA SameBytes ==
  ASSUME MInv, Growth, file'.bytes = file.bytes
  PROVE  /\ BytesGrow /\ \A c \in Cells : file'.bytes[c] <= writes
         /\ \A v \in Views : view[v].refs > 0 /\ ViewProc[v] = Writer =>
              \A c \in ViewCells[v] : file'.bytes[c] <= view[v].mem[c]
  <1>1. \A c \in Cells : file.bytes[c] \in Nat
    BY DataTypes DEF DataNumbers
  <1>2. BytesGrow
    BY <1>1 DEF BytesGrow
  <1> QED
    BY <1>2 DEF Growth

(* The bytes of a view of Writer, none of which another of its views shows, *)
(* go to the file.                                                          *)
LEMMA WrittenGrows ==
  ASSUME MInv, Growth, Separate, NEW v \in Views, ViewProc[v] = Writer, view[v].refs > 0,
         file' = WriteBytes(v)
  PROVE  /\ BytesGrow /\ \A c \in Cells : file'.bytes[c] <= writes
         /\ \A w \in Views : view[w].refs > 0 /\ ViewProc[w] = Writer =>
              \A c \in ViewCells[w] : file'.bytes[c] <= view[w].mem[c]
         /\ \A w \in Views \ {v} : ViewProc[w] = Writer =>
              \A c \in ViewCells[w] : file'.bytes[c] = file.bytes[c]
  <1>1. /\ file \in FileRec /\ \A c \in Cells : file.bytes[c] \in Nat
        /\ \A w \in Views : ViewCells[w] \subseteq Cells
        /\ \A c \in ViewCells[v] : view[v].mem[c] \in Nat
    BY DataTypes DEF DataNumbers, MInv, MapTypes
  <1>2. \A c \in Cells : file'.bytes[c] = IF c \in ViewCells[v] THEN view[v].mem[c] ELSE file.bytes[c]
    <2> DEFINE b == [c \in Cells |-> IF c \in ViewCells[v] THEN view[v].mem[c] ELSE file.bytes[c]]
    <2>1. file' = [file EXCEPT !.bytes = b]
      BY DEF WriteBytes
    <2>2. file'.bytes = b
      BY <1>1, <2>1 DEF FileRec
    <2> QED
      BY <2>2
  <1>3. /\ \A c \in Cells : file.bytes[c] <= writes
        /\ \A c \in ViewCells[v] : file.bytes[c] <= view[v].mem[c] /\ view[v].mem[c] <= writes
    BY DEF Growth
  <1>4. BytesGrow /\ \A c \in Cells : file'.bytes[c] <= writes
    BY <1>1, <1>2, <1>3 DEF BytesGrow
  <1>5. ASSUME NEW w \in Views \ {v}, ViewProc[w] = Writer, NEW c \in ViewCells[w]
        PROVE  file'.bytes[c] = file.bytes[c]
    <2>1. c \notin ViewCells[v] /\ c \in Cells
      BY <1>1, <1>5 DEF Separate
    <2> QED
      BY <1>2, <2>1
  <1>6. ASSUME NEW w \in Views, view[w].refs > 0, ViewProc[w] = Writer, NEW c \in ViewCells[w]
        PROVE  file'.bytes[c] <= view[w].mem[c]
    <2>1. CASE w = v
      BY <1>1, <1>2, <1>6, <2>1
    <2>2. CASE w # v
      <3>1. file.bytes[c] <= view[w].mem[c]
        BY <1>6 DEF Growth
      <3> QED
        BY <1>5, <1>6, <2>2, <3>1
    <2> QED
      BY <2>1, <2>2
  <1> QED
    BY <1>4, <1>5, <1>6

(* What a step of a process with the mapping leaves for the data.           *)
DataGrows ==
  /\ \A v \in Views : view'[v].refs > 0 => \A n \in Nat : Fresh(n)' => Fresh(n)
  /\ BytesGrow /\ Growth'
  /\ \A v \in Views : ViewProc[v] # Writer /\ view'[v].refs > 0 => ViewRead(v) \/ ViewKept(v)

(* A synchronisation looks at a view or reads it, or Writer's is written.   *)
LEMMA ReaderData ==
  ASSUME MInv, MInv', Growth, NEW p \in Procs, Alive(p), UNCHANGED <<local, writes>>,
         SyncCheck(p) \/ SyncRead(p)
  PROVE  DataGrows
  <1>1. job[p].at \in {"sync", "load"} /\ file' = file /\ view \in [Views -> ViewRec]
        /\ job \in [Procs -> JobRec]
    BY DEF SyncCheck, SyncRead, At, MInv, MapTypes
  <1>2. PICK v \in Views : v = job[p].todo[1] /\ view[v].refs > 0
    BY <1>1, AtHand DEF Syncing
  <1>3. Stuck => Stuck'
    <2>1. CASE p # Writer
      <3>1. W' = W
        BY <2>1, MapMovesOne, MappingAssumption DEF W, SyncStep
      <3> QED
        BY <3>1 DEF Stuck, Alive, Writing
    <2>2. CASE p = Writer
      BY <2>2 DEF Stuck
    <2> QED
      BY <2>1, <2>2
  <1>4. ~Stuck' => Top <= Top'
    <2>1. CASE p # Writer
      <3>1. W' = W
        BY <2>1, MapMovesOne, MappingAssumption DEF W, SyncStep
      <3>2. Top' = Top
        BY <1>1, <3>1 DEF Top
      <3> QED
        BY <3>2, DataTypes DEF DataNumbers
    <2>2. CASE p = Writer
      <3>1. Top = file.version
        BY <1>1, <2>2 DEF Top, W
      <3>2. job'[p].at \notin {"store", "close"}
        <4>1. Phase(p) \in Thens /\ job[p].then \in Thens
          BY <1>1 DEF Phase, JobRec, Syncing
        <4>2. job'[p].at = "load" \/ job' = NextView(p)
          <5>1. CASE SyncCheck(p)
            BY <1>1, <5>1 DEF SyncCheck, JobRec
          <5>2. CASE SyncRead(p)
            BY <5>2 DEF SyncRead
          <5> QED
            BY <5>1, <5>2
        <4>3. Len(job[p].todo) > 0
          BY <1>1, AtHand DEF Syncing
        <4>4. job' = NextView(p) => job'[p].at = "sync" \/ job'[p].at = job[p].then
          BY <1>1, <4>3, NextViewJob
        <4> QED
          BY <4>1, <4>2, <4>4 DEF Thens
      <3>3. Top' = file.version
        BY <1>1, <2>2, <3>2 DEF Top, W
      <3> QED
        BY <3>1, <3>3, DataTypes DEF DataNumbers
    <2> QED
      BY <2>1, <2>2
  <1>5. \A n \in Nat : Fresh(n)' => Fresh(n)
    BY <1>1, <1>3, <1>4, FreshKept
  <1>6. \A w \in Views : view'[w].refs > 0 => ViewRead(w) \/ ViewKept(w)
    <2>1. CASE SyncCheck(p)
      BY <2>1 DEF SyncCheck, ViewKept
    <2>2. CASE SyncRead(p)
      <3>1. view' = [view EXCEPT ![v].mem = Shown(v), ![v].shadow = Shown(v), ![v].seen = job[p].ver]
        BY <1>2, <2>2 DEF SyncRead
      <3>2. \A w \in Views \ {v} : view'[w] = view[w]
        BY <1>1, <3>1
      <3>3. view'[v].mem = Shown(v)
        BY <1>1, <3>1 DEF ViewRec
      <3> QED
        BY <1>1, <3>2, <3>3 DEF ViewKept, ViewRead, Shown
    <2> QED
      BY <2>1, <2>2
  <1>7. /\ BytesGrow /\ \A c \in Cells : file'.bytes[c] <= writes
        /\ \A w \in Views : view[w].refs > 0 /\ ViewProc[w] = Writer =>
             \A c \in ViewCells[w] : file'.bytes[c] <= view[w].mem[c]
    BY <1>1, SameBytes
  <1>8. Growth'
    BY <1>6, <1>7, GrowthStep DEF ViewKept
  <1> QED
    BY <1>5, <1>6, <1>7, <1>8 DEF DataGrows

-----------------------------------------------------------------------------
(* Writer writes a view: bytes, then the version.                           *)
LEMMA WriterData ==
  ASSUME MInv, MInv', Plain, Separate, InStep, Growth, Alive(Writer), UNCHANGED <<local, writes>>,
         SyncWrite(Writer) \/ BumpVersion(Writer) \/ TruncateVersion(Writer)
           \/ StoreVersion(Writer) \/ RereadVersion(Writer)
  PROVE  /\ DataGrows
         /\ \A w \in Views : ViewProc[w] = Writer /\ w # W.todo[1] =>
              \A c \in ViewCells[w] : file'.bytes[c] = file.bytes[c]
  <1>1. /\ W = job[Writer] /\ W \in JobRec /\ W.at \in Syncing /\ Writer \in Procs /\ BytesFirst
        /\ job \in [Procs -> JobRec] /\ file \in FileRec /\ view \in [Views -> ViewRec]
    BY MappingAssumption DEF W, SyncWrite, BumpVersion, TruncateVersion, StoreVersion, RereadVersion,
       At, Syncing, MInv, MapTypes, Plain, BytesFirst
  <1>2. PICK v \in Views : /\ v = W.todo[1] /\ ViewProc[v] = Writer /\ view[v].refs > 0
                           /\ view[v].mem \in [ViewCells[v] -> Vals] /\ Len(W.todo) > 0
    BY <1>1, AtHand
  <1>3. /\ Top \in Int /\ Top' \in Int /\ file.version \in Nat /\ W.ver \in Nat
    BY <1>1, DataTypes, DataTypesNext DEF DataNumbers
  <1>4. ~Stuck /\ ~Stuck' /\ Versions /\ Written
    BY DEF Stuck, Alive, InStep
  <1> DEFINE Bytes == /\ BytesGrow /\ \A c \in Cells : file'.bytes[c] <= writes
                      /\ \A w \in Views : view[w].refs > 0 /\ ViewProc[w] = Writer =>
                           \A c \in ViewCells[w] : file'.bytes[c] <= view[w].mem[c]
             Stays == \A w \in Views : ViewProc[w] = Writer /\ w # W.todo[1] =>
                         \A c \in ViewCells[w] : file'.bytes[c] = file.bytes[c]
             Steps == /\ Top <= Top'
                      /\ file'.version \in {0, file.version} \/ Top <= file'.version
  <1>5. ASSUME Bytes, Stays, Steps,
               \A w \in Views : view'[w] = view[w] \/ (w = v /\ ViewRead(v))
        PROVE  DataGrows /\ Stays
    <2>1. \A n \in Nat : Fresh(n)' => Fresh(n)
      BY <1>4, <1>5, FreshKept
    <2>2. \A w \in Views : view'[w].refs > 0 => ViewRead(w) \/ ViewKept(w)
      BY <1>5 DEF ViewKept
    <2>3. Growth'
      BY <1>5, <2>2, GrowthStep DEF ViewKept
    <2> QED
      BY <1>5, <2>1, <2>2, <2>3 DEF DataGrows
  <1>6. file'.bytes = file.bytes => Bytes /\ Stays
    BY SameBytes
  <1>7. ASSUME NEW step \in Writing, job' = Goto(Writer, step)
        PROVE  W'.at = step /\ W'.ver = W.ver
    <2>1. step \in Ats
      BY <1>7, PlaceNames DEF Ats
    <2> QED
      BY <1>1, <1>7, <2>1, GotoJob, GotoLocals DEF W
  <1>8. CASE SyncWrite(Writer)
    <2>1. /\ job' = Goto(Writer, "bump") /\ "bump" \in Writing /\ W.at = "sync" /\ view' = view
          /\ file' = WriteBytes(v)
      BY <1>1, <1>2, <1>8 DEF SyncWrite, At, Writing
    <2>2. Bytes /\ Stays
      BY <1>2, <2>1, WrittenGrows
    <2>3. file'.version = file.version
      BY <1>1, <2>1 DEF WriteBytes, FileRec
    <2>4. Top = file.version /\ Top' = file.version
      BY <1>7, <2>1, <2>3 DEF Top
    <2>5. Steps
      BY <1>3, <2>3, <2>4
    <2> QED
      BY <1>5, <2>1, <2>2, <2>5
  <1>9. CASE BumpVersion(Writer)
    <2>1. /\ job' = [job EXCEPT ![Writer].at = "trunc", ![Writer].ver = file.version + 1]
          /\ W.at = "bump" /\ view' = view /\ file' = file
      BY <1>1, <1>9 DEF BumpVersion, At
    <2>2. W'.at = "trunc"
      BY <1>1, <2>1 DEF W, JobRec
    <2>3. Top = file.version /\ Top' = file.version
      BY <2>1, <2>2 DEF Top
    <2>4. Steps
      BY <1>3, <2>1, <2>3
    <2> QED
      BY <1>5, <1>6, <2>1, <2>4
  <1>10. CASE TruncateVersion(Writer)
    <2>1. /\ job' = Goto(Writer, "store") /\ "store" \in Writing /\ W.at = "trunc" /\ view' = view
          /\ file' = [file EXCEPT !.version = 0]
      BY <1>1, <1>10 DEF TruncateVersion, At, Writing
    <2>2. file'.version = 0 /\ file'.bytes = file.bytes
      BY <1>1, <2>1 DEF FileRec
    <2>3. W.ver = file.version + 1
      BY <1>4, <2>1 DEF Versions
    <2>4. Top = file.version /\ Top' = W.ver - 1
      BY <1>7, <2>1 DEF Top
    <2>5. Steps
      BY <1>3, <2>2, <2>3, <2>4
    <2> QED
      BY <1>5, <1>6, <2>1, <2>2, <2>5
  <1>11. CASE StoreVersion(Writer)
    <2>1. /\ job' = Goto(Writer, "reread") /\ "reread" \in Writing /\ W.at = "store"
          /\ view' = view /\ file' = [file EXCEPT !.version = W.ver]
      BY <1>1, <1>11 DEF StoreVersion, At, Writing
    <2>2. file'.version = W.ver /\ file'.bytes = file.bytes
      BY <1>1, <2>1 DEF FileRec
    <2>3. Top = W.ver - 1 /\ Top' = W.ver
      BY <1>7, <2>1, <2>2 DEF Top
    <2>4. Steps
      BY <1>3, <2>2, <2>3
    <2> QED
      BY <1>5, <1>6, <2>1, <2>2, <2>4
  <1>12. CASE RereadVersion(Writer)
    <2>1. /\ view' = [view EXCEPT ![v].shadow = view[v].mem, ![v].seen = file.version]
          /\ job' = NextView(Writer) /\ W.at = "reread" /\ file' = file
      BY <1>1, <1>2, <1>12 DEF RereadVersion, At
    <2>2. Shown(v) = view[v].mem
      BY <1>2, <1>4, <2>1 DEF Written
    <2>3. view'[v].mem = view[v].mem /\ \A w \in Views \ {v} : view'[w] = view[w]
      BY <1>1, <2>1 DEF ViewRec
    <2>4. ViewRead(v)
      BY <2>1, <2>2, <2>3 DEF ViewRead, Shown
    <2>5. W'.at \in Thens \cup {"sync"}
      <3>1. W.then \in Thens
        BY <1>1 DEF JobRec
      <3>2. W'.at = "sync" \/ W'.at = W.then
        BY <1>1, <1>2, <2>1, NextViewJob DEF W
      <3> QED
        BY <3>1, <3>2
    <2>6. Top = file.version /\ Top' = file.version
      BY <2>1, <2>5 DEF Top, Thens
    <2>7. Steps
      BY <1>3, <2>1, <2>6
    <2> QED
      BY <1>5, <1>6, <2>1, <2>3, <2>4, <2>7
  <1> QED
    BY <1>8, <1>9, <1>10, <1>11, <1>12

(* The bytes of the views of Writer stay, but for those it writes.          *)
OthersStay ==
  \A w \in Views : ViewProc[w] = Writer /\ w \notin Rest(Writer) =>
    \A c \in ViewCells[w] : file'.bytes[c] = file.bytes[c]

(* A step of a synchronisation.                                             *)
LEMMA SyncData ==
  ASSUME MInv, MInv', Plain, Separate, Still, Stuck \/ InStep, Growth, NEW p \in Procs, Alive(p),
         UNCHANGED <<local, writes>>, SyncStep(p)
  PROVE  DataGrows /\ OthersStay
  <1>1. CASE SyncCheck(p) \/ SyncRead(p)
    <2>1. file' = file
      BY <1>1 DEF SyncCheck, SyncRead
    <2> QED
      BY <1>1, <2>1, ReaderData DEF OthersStay
  <1>2. CASE ~(SyncCheck(p) \/ SyncRead(p))
    <2>1. p = Writer
      BY <1>2, ReaderSync DEF Still
    <2>2. InStep
      BY <2>1 DEF Stuck
    <2>3. ~CloseBytes(Writer)
      BY <2>2 DEF CloseBytes, At, InStep, Versions, W, Plain
    <2>4. \/ SyncWrite(Writer) \/ BumpVersion(Writer) \/ TruncateVersion(Writer)
          \/ StoreVersion(Writer) \/ RereadVersion(Writer)
      BY <1>2, <2>1, <2>3 DEF SyncStep
    <2>5. DataGrows /\ \A w \in Views : ViewProc[w] = Writer /\ w # W.todo[1] =>
            \A c \in ViewCells[w] : file'.bytes[c] = file.bytes[c]
      BY <2>1, <2>2, <2>4, WriterData
    <2>6. W.todo[1] \in Rest(Writer)
      <3>1. W.at \in Syncing /\ W = job[Writer] /\ W \in JobRec /\ Writer \in Procs
        BY <2>4, MappingAssumption DEF SyncWrite, BumpVersion, TruncateVersion, StoreVersion,
           RereadVersion, At, Syncing, W, MInv, MapTypes
      <3>2. Len(W.todo) > 0 /\ W.todo \in Seq(Views) /\ Len(W.todo) \in Nat
        BY <2>1, <3>1, AtHand, LenProperties DEF JobRec
      <3>3. 1 \in 1 .. Len(W.todo)
        BY <3>2
      <3> QED
        BY <3>1, <3>2, <3>3, ToSetSeq DEF Rest
    <2> QED
      BY <2>5, <2>6 DEF OthersStay
  <1> QED
    BY <1>1, <1>2

-----------------------------------------------------------------------------
(* Where a process is before and after a step of a call for the mapping.    *)
LEMMA MapStepPlaces ==
  ASSUME MInv, NEW p \in Procs, MapStep(p)
  PROVE  job[p].at \in MapPhases /\ job'[p].at \in MapPhases \cup {"sync"}
  <1>1. job \in [Procs -> JobRec] /\ Idle.at = "idle"
    BY DEF MInv, MapTypes, Idle
  <1>2. job[p].at \in MapPhases
    BY DEF MapStep, CreateVersion, CreateDone, MapVersion, UnmapDone, CreateFileMapping,
           CloseMapping, SyncNamedMappedViews, MapAgain, MapViewOfFile, UnmapViewOfFile,
           FlushViewOfFile, GuestWrite, At, MapPhases
  <1>3. ASSUME NEW at, job' = [job EXCEPT ![p].at = at] PROVE job'[p].at = at
    BY <1>1, <1>3 DEF JobRec
  <1>4. ASSUME NEW at, NEW arg, job' = [job EXCEPT ![p].at = at, ![p].arg = arg] PROVE job'[p].at = at
    BY <1>1, <1>4 DEF JobRec
  <1>5. ASSUME NEW vs, NEW force, job' = SyncThen(p, vs, force, "idle")
        PROVE  job'[p].at \in {"idle", "sync"}
    BY <1>1, <1>5 DEF SyncThen, JobRec
  <1>6. job' = [job EXCEPT ![p] = Idle] => job'[p].at = "idle"
    BY <1>1
  <1>7. CASE CreateVersion(p)
    BY <1>2, <1>3, <1>6, <1>7 DEF CreateVersion, MapPhases
  <1>8. CASE CreateDone(p) \/ MapVersion(p) \/ UnmapDone(p)
    BY <1>2, <1>6, <1>8 DEF CreateDone, MapVersion, UnmapDone, MapPhases
  <1>9. CASE CreateFileMapping(p)
    BY <1>2, <1>4, <1>9 DEF CreateFileMapping, MapPhases
  <1>10. CASE CloseMapping(p)
    BY <1>2, <1>10 DEF CloseMapping
  <1>11. CASE SyncNamedMappedViews(p)
    <2> DEFINE no == FALSE
    <2>1. job' = SyncThen(p, Mapped(p), no, "idle")
      BY <1>11 DEF SyncNamedMappedViews
    <2> HIDE DEF no
    <2>2. job'[p].at \in {"idle", "sync"}
      BY <1>5, <2>1
    <2> QED
      BY <1>2, <2>2 DEF MapPhases
  <1>12. ASSUME NEW v \in Views, MapAgain(p, v) PROVE job'[p].at \in MapPhases \cup {"sync"}
    BY <1>5, <1>12 DEF MapAgain, MapPhases
  <1>13. ASSUME NEW v \in Views, MapViewOfFile(p, v) PROVE job'[p].at \in MapPhases \cup {"sync"}
    BY <1>4, <1>13 DEF MapViewOfFile, MapPhases
  <1>14. ASSUME NEW v \in Views, UnmapViewOfFile(p, v) PROVE job'[p].at \in MapPhases \cup {"sync"}
    <2> DEFINE no == FALSE
               vs == {v}
               j == SyncThen(p, vs, no, "unmap")
    <2>1. job' = [j EXCEPT ![p].arg = v]
      BY <1>14 DEF UnmapViewOfFile
    <2>2. j[p].at \in {"unmap", "sync"}
      BY <1>1 DEF SyncThen, JobRec
    <2> HIDE DEF no, vs
    <2>3. job'[p].at = j[p].at
      BY <1>1, <2>1, SyncThenArg
    <2> QED
      BY <2>2, <2>3 DEF MapPhases
  <1>15. ASSUME NEW v \in Views, FlushViewOfFile(p, v) PROVE job'[p].at \in MapPhases \cup {"sync"}
    BY <1>5, <1>15 DEF FlushViewOfFile, MapPhases
  <1>16. ASSUME NEW v \in Views, NEW c \in Cells, GuestWrite(p, v, c) PROVE job' = job
    BY <1>16 DEF GuestWrite
  <1> QED
    BY <1>2, <1>7, <1>8, <1>9, <1>10, <1>11, <1>12, <1>13, <1>14, <1>15, <1>16 DEF MapStep

(* A store into a view of Writer.                                           *)
LEMMA StoreGrowth ==
  ASSUME MInv, MInv', Growth, NEW v \in Views, ViewProc[v] = Writer, view[v].refs > 0,
         NEW c \in ViewCells[v], UNCHANGED file, writes' = writes + 1,
         view' = [view EXCEPT ![v].mem[c] = writes + 1]
  PROVE  Growth'
  <1>1. /\ view \in [Views -> ViewRec] /\ view[v].mem \in [ViewCells[v] -> Vals]
        /\ \A w \in Views : view[w].refs > 0 => \A d \in ViewCells[w] : view[w].mem[d] \in Nat
        /\ \A d \in Cells : file.bytes[d] \in Nat
        /\ \A w \in Views : ViewCells[w] \subseteq Cells
        /\ writes \in Nat
    BY DataTypes DEF DataNumbers, MInv, MapTypes, ViewInv
  <1>2. /\ \A w \in Views \ {v} : view'[w] = view[w]
        /\ view'[v].refs = view[v].refs /\ view'[v].mem = [view[v].mem EXCEPT ![c] = writes + 1]
    BY <1>1 DEF ViewRec
  <1>3. \A d \in ViewCells[v] : view'[v].mem[d] = IF d = c THEN writes + 1 ELSE view[v].mem[d]
    BY <1>1, <1>2
  <1>4. \A d \in Cells : file.bytes[d] <= writes'
    BY <1>1 DEF Growth
  <1>5. ASSUME NEW w \in Views, view'[w].refs > 0, NEW d \in ViewCells[w]
        PROVE  IF ViewProc[w] = Writer
                 THEN file.bytes[d] <= view'[w].mem[d] /\ view'[w].mem[d] <= writes'
                 ELSE view'[w].mem[d] <= file.bytes[d]
    <2>1. view[w].refs > 0 /\ d \in Cells
      BY <1>1, <1>2, <1>5
    <2>2. /\ file.bytes[d] <= writes /\ file.bytes[d] \in Nat /\ view[w].mem[d] \in Nat
          /\ IF ViewProc[w] = Writer
               THEN file.bytes[d] <= view[w].mem[d] /\ view[w].mem[d] <= writes
               ELSE view[w].mem[d] <= file.bytes[d]
      BY <1>1, <2>1 DEF Growth
    <2>3. CASE w = v
      BY <1>1, <1>3, <2>2, <2>3
    <2>4. CASE w # v
      BY <1>1, <1>2, <2>2, <2>4
    <2> QED
      BY <2>3, <2>4
  <1>6. file' = file
    OBVIOUS
  <1> QED
    BY <1>4, <1>5, <1>6 DEF Growth

-----------------------------------------------------------------------------
(* The file and the stores, when a call for the mapping makes a step.       *)
LEMMA MapStepFile ==
  ASSUME MInv, NEW p \in Procs, MapStep(p)
  PROVE  /\ file'.bytes = file.bytes
         /\ \/ file'.version = file.version
            \/ /\ CreateVersion(p) /\ (job[p].arg = 0 \/ ~file.versioned)
            \/ CreateDone(p)
  <1>1. file \in FileRec
    BY DEF MInv, MapTypes
  <1>2. CASE CreateVersion(p)
    <2>1. file' = file \/ (/\ job[p].arg = 0 \/ ~file.versioned
                           /\ file' = [file EXCEPT !.version = 0, !.versioned = TRUE])
      BY <1>2 DEF CreateVersion
    <2> QED
      BY <1>1, <1>2, <2>1 DEF FileRec
  <1>3. CASE CreateDone(p)
    BY <1>1, <1>3 DEF CreateDone, FileRec
  <1>4. CASE CreateFileMapping(p)
    BY <1>1, <1>4 DEF CreateFileMapping, FileRec
  <1>5. CASE UNCHANGED file
    BY <1>5
  <1> QED
    BY <1>2, <1>3, <1>4, <1>5 DEF MapStep, MapVersion, UnmapDone, CloseMapping,
       SyncNamedMappedViews, MapAgain, MapViewOfFile, UnmapViewOfFile, FlushViewOfFile, GuestWrite

(* No version passes for current that did not.                              *)
LEMMA MapFresh ==
  ASSUME MInv, MInv', Plain, Still, Stuck \/ InStep, NEW p \in Procs, Alive(p),
         UNCHANGED local, MapStep(p)
  PROVE  \A v \in Views : view'[v].refs > 0 => \A n \in Nat : Fresh(n)' => Fresh(n)
  <1>1. Stuck => Stuck'
    <2>1. CASE p # Writer
      <3>1. W' = W
        BY <2>1, MapMovesOne, MappingAssumption DEF W
      <3> QED
        BY <3>1 DEF Stuck, Alive, Writing
    <2>2. CASE p = Writer
      BY <2>2 DEF Stuck
    <2> QED
      BY <2>1, <2>2
  <1>2. CASE file'.version = file.version
    <2>1. Top' = Top
      <3>1. CASE p # Writer
        <4>1. W' = W
          BY <3>1, MapMovesOne, MappingAssumption DEF W
        <4> QED
          BY <1>2, <4>1 DEF Top
      <3>2. CASE p = Writer
        <4>1. W.at \notin {"store", "close"} /\ W'.at \notin {"store", "close"}
          BY <3>2, MapStepPlaces DEF W, MapPhases
        <4> QED
          BY <1>2, <4>1 DEF Top
      <3> QED
        BY <3>1, <3>2
    <2>2. Top <= Top'
      BY <2>1, DataTypes DEF DataNumbers
    <2> QED
      BY <1>1, <1>2, <2>2, FreshKept
  <1>3. CASE file'.version # file.version
    <2>1. \/ job[p].at = "created" /\ (job[p].arg = 0 \/ ~file.versioned)
          \/ job[p].at = "versioned"
      BY <1>3, MapStepFile DEF CreateVersion, CreateDone, At
    <2>2. ~Stuck
      <3> SUFFICES ASSUME Stuck PROVE FALSE
        OBVIOUS
      <3>1. p # Writer /\ Writer \in Procs /\ W.at \in Writing
        BY MappingAssumption DEF Stuck
      <3>2. job[p].at \in Lonely
        BY <2>1 DEF Lonely
      <3> QED
        BY <3>1, <3>2 DEF Still, Apart, W
    <2>3. NoViews
      BY <2>1, <2>2 DEF InStep, Creation
    <2>4. view' = view
      BY <1>3, MapStepFile DEF CreateVersion, CreateDone
    <2> QED
      BY <2>3, <2>4 DEF NoViews
  <1> QED
    BY <1>2, <1>3

(* What a step of a call for the mapping does to views.                     *)
LEMMA MapStepViews ==
  ASSUME MInv, Plain, Still, Stuck \/ InStep, NEW p \in Procs, MapStep(p)
  PROVE  /\ \A v \in Views : ViewProc[v] # p => view'[v] = view[v]
         /\ \/ /\ writes' = writes
               /\ \A v \in Views : view'[v].refs > 0 => ViewRead(v) \/ ViewKept(v)
            \/ \E v \in Views : \E c \in Cells :
                 /\ GuestWrite(p, v, c) /\ p = Writer /\ ViewProc[v] = Writer
  <1>1. view \in [Views -> ViewRec] /\ TodoInv(p) /\ Unmapped.refs = 0
    BY DEF MInv, MapTypes, Unmapped
  <1> DEFINE Fine == \A v \in Views : /\ ViewProc[v] # p => view'[v] = view[v]
                                      /\ view'[v].refs > 0 => ViewRead(v) \/ ViewKept(v)
  <1>2. view' = view => Fine
    BY DEF ViewKept
  <1>3. CASE MapVersion(p)
    <2>1. PICK v \in Views : v = job[p].arg /\ ViewProc[v] = p
      <3>1. Phase(p) = "mapping"
        BY <1>3 DEF MapVersion, At, Phase, Syncing
      <3> QED
        BY <1>1, <3>1 DEF TodoInv
    <2>2. /\ job[p].at = "mapping" /\ UNCHANGED file /\ writes' = writes
          /\ view' = [view EXCEPT ![v].seen = file.version, ![v].refs = 1]
      BY <1>3, <2>1 DEF MapVersion, At
    <2>3. ~Stuck
      <3> SUFFICES ASSUME Stuck PROVE FALSE
        OBVIOUS
      <3>1. Writer \in Procs /\ W.at \in Writing
        BY MappingAssumption DEF Stuck
      <3>2. job[p].at \in Lonely /\ p # Writer
        BY <2>2, <3>1 DEF Lonely, W, Writing
      <3> QED
        BY <3>1, <3>2 DEF Still, Apart, W
    <2>4. view[v].mem = Shown(v)
      BY <2>1, <2>2, <2>3 DEF InStep, Creation
    <2>5. view'[v].mem = view[v].mem /\ \A w \in Views \ {v} : view'[w] = view[w]
      BY <1>1, <2>2 DEF ViewRec
    <2>6. ViewRead(v)
      BY <2>2, <2>4, <2>5 DEF ViewRead, Shown
    <2>7. \A w \in Views : view'[w].refs > 0 => ViewRead(w) \/ ViewKept(w)
      BY <2>5, <2>6 DEF ViewKept
    <2> QED
      BY <2>1, <2>2, <2>5, <2>7
  <1>4. CASE UnmapDone(p)
    <2>1. PICK v \in Views : v = job[p].arg /\ ViewProc[v] = p
      <3>1. Phase(p) = "unmap"
        BY <1>4 DEF UnmapDone, At, Phase, Syncing
      <3> QED
        BY <1>1, <3>1 DEF TodoInv
    <2>2. /\ writes' = writes
          /\ view' = [view EXCEPT ![v] = IF view[v].refs > 1
                       THEN [view[v] EXCEPT !.refs = view[v].refs - 1] ELSE Unmapped]
      BY <1>4, <2>1 DEF UnmapDone
    <2>3. \A w \in Views \ {v} : view'[w] = view[w]
      BY <1>1, <2>2
    <2>4. view'[v].refs > 0 => ViewKept(v)
      <3>1. CASE view[v].refs > 1
        <4>1. view'[v] = [view[v] EXCEPT !.refs = view[v].refs - 1] /\ view[v] \in ViewRec
          BY <1>1, <2>2, <3>1
        <4>2. view[v].refs > 0
          BY <3>1, <4>1 DEF ViewRec
        <4> QED
          BY <4>1, <4>2 DEF ViewRec, ViewKept
      <3>2. CASE ~(view[v].refs > 1)
        BY <1>1, <2>2, <3>2
      <3> QED
        BY <3>1, <3>2
    <2>5. \A w \in Views : view'[w].refs > 0 => ViewKept(w)
      BY <2>3, <2>4 DEF ViewKept
    <2> QED
      BY <2>1, <2>2, <2>3, <2>5
  <1>5. ASSUME NEW v \in Views, MapAgain(p, v) PROVE Fine /\ writes' = writes
    <2>1. /\ view' = [view EXCEPT ![v].refs = view[v].refs + 1] /\ writes' = writes
          /\ ViewProc[v] = p /\ view[v].refs > 0
      BY <1>5 DEF MapAgain, Mapped
    <2>2. /\ \A w \in Views \ {v} : view'[w] = view[w]
          /\ view'[v].mem = view[v].mem /\ view'[v].seen = view[v].seen
      BY <1>1, <2>1 DEF ViewRec
    <2> QED
      BY <2>1, <2>2 DEF ViewKept
  <1>6. ASSUME NEW v \in Views, MapViewOfFile(p, v) PROVE Fine /\ writes' = writes
    <2>1. /\ view' = [view EXCEPT ![v].mem = Shown(v), ![v].shadow = Shown(v)] /\ writes' = writes
          /\ ViewProc[v] = p /\ view[v].refs = 0
      BY <1>6 DEF MapViewOfFile
    <2>2. /\ \A w \in Views \ {v} : view'[w] = view[w]
          /\ view'[v].refs = 0
      BY <1>1, <2>1 DEF ViewRec
    <2>3. ASSUME NEW w \in Views
          PROVE  /\ ViewProc[w] # p => view'[w] = view[w]
                 /\ view'[w].refs > 0 => ViewRead(w) \/ ViewKept(w)
      <3>1. CASE w = v
        BY <2>1, <2>2, <3>1
      <3>2. CASE w # v
        BY <2>2, <3>2 DEF ViewKept
      <3> QED
        BY <3>1, <3>2
    <2> QED
      BY <2>1, <2>3
  <1>7. ASSUME NEW v \in Views, NEW c \in Cells, GuestWrite(p, v, c)
        PROVE  /\ \A w \in Views : ViewProc[w] # p => view'[w] = view[w]
               /\ p = Writer /\ ViewProc[v] = Writer
    <2>1. p = Writer
      BY <1>7 DEF GuestWrite, MayWrite, Plain, NoRace
    <2>2. ViewProc[v] = p /\ view' = [view EXCEPT ![v].mem[c] = writes + 1]
      BY <1>7 DEF GuestWrite, Mapped
    <2> QED
      BY <1>1, <2>1, <2>2
  <1>8. CASE UNCHANGED <<view, writes>>
    BY <1>2, <1>8
  <1> QED
    <2>1. ASSUME NEW v \in Views, NEW c \in Cells, GuestWrite(p, v, c)
          PROVE  /\ \A w \in Views : ViewProc[w] # p => view'[w] = view[w]
                 /\ \E w \in Views : \E d \in Cells :
                      /\ GuestWrite(p, w, d) /\ p = Writer /\ ViewProc[w] = Writer
      BY <1>7, <2>1
    <2> QED
      BY <1>3, <1>4, <1>5, <1>6, <1>8, <2>1 DEF MapStep, CreateVersion, CreateDone,
         CreateFileMapping, CloseMapping, SyncNamedMappedViews, UnmapViewOfFile, FlushViewOfFile

(* A step of a call for the mapping.                                        *)
LEMMA MapData ==
  ASSUME MInv, MInv', Plain, Still, Stuck \/ InStep, Growth, NEW p \in Procs, Alive(p),
         UNCHANGED local, MapStep(p)
  PROVE  DataGrows /\ file'.bytes = file.bytes
  <1>1. file'.bytes = file.bytes
    BY MapStepFile
  <1>2. \A v \in Views : view'[v].refs > 0 => \A n \in Nat : Fresh(n)' => Fresh(n)
    BY MapFresh
  <1>3. /\ BytesGrow /\ \A c \in Cells : file'.bytes[c] <= writes
        /\ \A w \in Views : view[w].refs > 0 /\ ViewProc[w] = Writer =>
             \A c \in ViewCells[w] : file'.bytes[c] <= view[w].mem[c]
    BY <1>1, SameBytes
  <1>4. CASE writes' = writes /\ \A v \in Views : view'[v].refs > 0 => ViewRead(v) \/ ViewKept(v)
    <2>1. Growth'
      BY <1>3, <1>4, GrowthStep DEF ViewKept
    <2> QED
      BY <1>1, <1>2, <1>3, <1>4, <2>1 DEF DataGrows
  <1>5. ASSUME NEW v \in Views, NEW c \in Cells, GuestWrite(p, v, c), p = Writer, ViewProc[v] = Writer
        PROVE  DataGrows
    <2>1. /\ view' = [view EXCEPT ![v].mem[c] = writes + 1] /\ writes' = writes + 1
          /\ view[v].refs > 0 /\ c \in ViewCells[v] /\ UNCHANGED file
      BY <1>5 DEF GuestWrite, Mapped
    <2>2. Growth'
      BY <1>5, <2>1, StoreGrowth
    <2>3. \A w \in Views : ViewProc[w] # Writer => view'[w] = view[w]
      BY <1>5, MapStepViews
    <2> QED
      BY <1>2, <1>3, <2>2, <2>3 DEF DataGrows, ViewKept
  <1> QED
    BY <1>1, <1>4, <1>5, MapStepViews

-----------------------------------------------------------------------------
(* A step of a synchronisation is about the view at hand, and either goes   *)
(* on with it or has dealt with it.                                         *)
LEMMA SyncStepShape ==
  ASSUME MInv, NEW p \in Procs, Alive(p), SyncStep(p)
  PROVE  /\ job[p].at \in Syncing /\ job[p].todo[1] \in Rest(p) /\ Len(job[p].todo) > 0
         /\ job[p].todo[1] \in Views /\ ViewProc[job[p].todo[1]] = p
         /\ \A v \in Views : /\ view'[v].refs = view[v].refs
                             /\ v # job[p].todo[1] => view'[v] = view[v]
         /\ \/ job'[p].todo = job[p].todo /\ view' = view
            \/ /\ job' = NextView(p) /\ file' = file
               /\ \/ RereadVersion(p) \/ SyncRead(p)
                  \/ SyncCheck(p) /\ ~Stale(job[p].todo[1])
  <1>1. job[p].at \in Syncing /\ job \in [Procs -> JobRec] /\ view \in [Views -> ViewRec]
    BY DEF SyncStep, SyncWrite, BumpVersion, TruncateVersion, StoreVersion, CloseBytes,
           RereadVersion, SyncCheck, SyncRead, At, Syncing, MInv, MapTypes
  <1>2. /\ job[p].todo[1] \in Views /\ ViewProc[job[p].todo[1]] = p /\ Len(job[p].todo) > 0
    BY <1>1, AtHand
  <1>3. job[p].todo[1] \in Rest(p)
    <2>1. job[p].todo \in Seq(Views) /\ Len(job[p].todo) \in Nat
      BY <1>1, LenProperties DEF JobRec
    <2>2. 1 \in 1 .. Len(job[p].todo)
      BY <1>2, <2>1
    <2> QED
      BY <2>1, <2>2, ToSetSeq DEF Rest
  <1> DEFINE Views1 == \A v \in Views : /\ view'[v].refs = view[v].refs
                                        /\ v # job[p].todo[1] => view'[v] = view[v]
             More == job'[p].todo = job[p].todo /\ view' = view
             Done == /\ job' = NextView(p) /\ file' = file
                     /\ \/ RereadVersion(p) \/ SyncRead(p)
                        \/ SyncCheck(p) /\ ~Stale(job[p].todo[1])
  <1>4. CASE SyncWrite(p) \/ BumpVersion(p) \/ TruncateVersion(p) \/ StoreVersion(p)
             \/ CloseBytes(p)
    <2>1. view' = view
      BY <1>4 DEF SyncWrite, BumpVersion, TruncateVersion, StoreVersion, CloseBytes
    <2>2. job'[p].todo = job[p].todo
      BY <1>1, <1>4 DEF SyncWrite, BumpVersion, TruncateVersion, StoreVersion, CloseBytes, Goto,
         JobRec
    <2> QED
      BY <1>1, <1>2, <1>3, <2>1, <2>2
  <1>5. CASE RereadVersion(p) \/ SyncRead(p)
    <2>1. Done
      BY <1>5 DEF RereadVersion, SyncRead
    <2>2. Views1
      BY <1>1, <1>2, <1>5 DEF RereadVersion, SyncRead, ViewRec
    <2> QED
      BY <1>1, <1>2, <1>3, <2>1, <2>2
  <1>6. CASE SyncCheck(p)
    <2>1. view' = view /\ file' = file
      BY <1>6 DEF SyncCheck
    <2>2. CASE Stale(job[p].todo[1])
      <3>1. job'[p].todo = job[p].todo
        BY <1>1, <1>6, <2>2 DEF SyncCheck, JobRec
      <3> QED
        BY <1>1, <1>2, <1>3, <2>1, <3>1
    <2>3. CASE ~Stale(job[p].todo[1])
      <3>1. job' = NextView(p)
        BY <1>6, <2>3 DEF SyncCheck
      <3> QED
        BY <1>1, <1>2, <1>3, <1>6, <2>1, <2>3, <3>1
    <2> QED
      BY <2>2, <2>3
  <1> QED
    BY <1>4, <1>5, <1>6 DEF SyncStep

(* What p uses of the mapping nobody else's views or synchronisation.       *)
LEMMA MapAlone ==
  ASSUME BInv, Plain, Still, Stuck \/ InStep, NEW p \in Procs, MapPart(p), NEW q \in Procs \ {p}
  PROVE  /\ Phase(q)' = Phase(q) /\ Rest(q)' = Rest(q) /\ Mapped(q)' = Mapped(q)
         /\ \A v \in Views : ViewProc[v] = q => view'[v] = view[v]
  <1>1. MInv /\ Alive(p) /\ (SyncStep(p) \/ MapStep(p))
    BY DEF BInv, MapPart
  <1>2. job'[q] = job[q]
    BY <1>1, MapMovesOne
  <1>3. \A v \in Views : ViewProc[v] = q => view'[v] = view[v]
    BY <1>1, SyncStepShape, MapStepViews
  <1>4. Mapped(q)' = Mapped(q)
    BY <1>3 DEF Mapped
  <1> QED
    BY <1>2, <1>3, <1>4 DEF Phase, Rest

(* A call for the mapping is not one that posts or takes messages.          *)
LEMMA MapStepPhase ==
  ASSUME BInv, NEW p \in Procs, MapPart(p), MapStep(p)
  PROVE  Phase(p)' \notin Taking \cup Posting
  <1>1. MInv /\ Alive(p) /\ UNCHANGED brokerVars
    BY DEF BInv, MapPart
  <1>2. job[p].at \in MapPhases
    BY <1>1, MapStepPlaces
  <1>3. Phase(p) \in MapPhases
    BY <1>2, PhaseNames DEF Phase
  <1>4. Phase(p)' = Phase(p) \/ Phase(p)' \in MapPhases
    BY <1>1, MapStepKeeps DEF MovesIn
  <1> QED
    BY <1>3, <1>4 DEF MapPhases, Taking, Posting

(* What remains to be done when a view has been dealt with.                 *)
LEMMA RestAfter ==
  ASSUME MInv, NEW p \in Procs, Alive(p), SyncStep(p), NEW v \in Rest(p), v \notin Rest(p)'
  PROVE  v = job[p].todo[1] /\ job' = NextView(p) /\ file' = file
         /\ \/ RereadVersion(p) \/ SyncRead(p)
            \/ SyncCheck(p) /\ ~Stale(job[p].todo[1])
  <1>1. job \in [Procs -> JobRec] /\ Len(job[p].todo) > 0
    BY SyncStepShape DEF MInv, MapTypes
  <1>2. ~(job'[p].todo = job[p].todo)
    BY DEF Rest
  <1>3. /\ job' = NextView(p) /\ file' = file
        /\ \/ RereadVersion(p) \/ SyncRead(p)
           \/ SyncCheck(p) /\ ~Stale(job[p].todo[1])
    BY <1>2, SyncStepShape
  <1>4. v # job[p].todo[1] => v \in ToSet(NextView(p)[p].todo)
    BY <1>1, NextViewRest
  <1> QED
    BY <1>3, <1>4 DEF Rest

(* Synced stays true when processes use the mapping.                        *)
LEMMA MapSynced ==
  ASSUME BInv, Plain, Still, Stuck \/ InStep, Stored, Noticed, NEW p \in Procs, MapPart(p),
         NEW q \in Procs \ {Writer}, Synced(q)
  PROVE  Synced(q)'
  <1>1. UNCHANGED local /\ MInv /\ BrokerTypes /\ Alive(p) /\ InCall(q)' = InCall(q)
    BY DEF BInv, MapPart, brokerVars, InCall
  <1>2. CASE q # p
    <2>1. /\ Phase(q)' = Phase(q) /\ Rest(q)' = Rest(q) /\ Mapped(q)' = Mapped(q)
          /\ \A v \in Views : ViewProc[v] = q => view'[v] = view[v]
      BY <1>2, MapAlone
    <2> QED
      BY <1>1, <2>1 DEF Synced, Caught, Mapped
  <1>3. CASE q = p /\ MapStep(p)
    BY <1>3, MapStepPhase DEF Synced
  <1>4. CASE q = p /\ SyncStep(p)
    <2> SUFFICES ASSUME Phase(p)' \in Taking, NEW m \in ToSet(InCall(p).copy),
                        NEW v \in Views, v \in Mapped(p)', v \notin Rest(p)', m.from = Writer
                 PROVE  view'[v].seen = 0 \/ \A c \in ViewCells[v] : view'[v].mem[c] >= m.sent[c]
      BY <1>1, <1>4 DEF Synced, Caught, Mapped
    <2>1. Phase(p) \in Taking
      <3>1. Phase(p)' = Phase(p) \/ Phase(p)' \in MapPhases
        BY <1>1, <1>4, SyncStepKeeps DEF MovesIn, MapPart
      <3> QED
        BY <3>1 DEF Taking, MapPhases
    <2>2. v \in Mapped(p) /\ view[v].refs > 0 /\ ViewProc[v] # Writer
      BY <1>1, <1>4, SyncStepShape DEF Mapped
    <2>3. CASE v \notin Rest(p)
      <3>1. view'[v] = view[v]
        BY <1>1, <1>4, <2>3, SyncStepShape
      <3>2. view[v].seen = 0 \/ Caught(v, m)
        BY <1>4, <2>1, <2>2, <2>3 DEF Synced
      <3> QED
        BY <3>1, <3>2 DEF Caught
    <2>4. CASE v \in Rest(p)
      <3>1. /\ v = job[p].todo[1] /\ file' = file
            /\ RereadVersion(p) \/ SyncRead(p) \/ (SyncCheck(p) /\ ~Stale(v))
        BY <1>1, <1>4, <2>4, RestAfter
      <3>2. ~RereadVersion(p)
        BY <1>4 DEF Still, Readers, RereadVersion, At, Writing
      <3>3. m \in Flying
        BY <1>1, FlyingTypes
      <3>4. CASE SyncRead(p)
        <4>1. view'[v].mem = Shown(v)
          BY <1>1, <3>1, <3>4 DEF SyncRead, ViewRec, MInv, MapTypes
        <4>2. ViewCells[v] \subseteq Cells /\ \A c \in Cells : file.bytes[c] \in Nat /\ m.sent[c] \in Nat
          BY <1>1, <3>3, DataTypes, FlyingTypes DEF DataNumbers
        <4>3. \A c \in ViewCells[v] : view'[v].mem[c] = file.bytes[c] /\ m.sent[c] <= file.bytes[c]
          BY <3>3, <4>1, <4>2 DEF Shown, Stored
        <4> QED
          BY <4>2, <4>3
      <3>5. CASE SyncCheck(p) /\ ~Stale(v)
        <4>1. view' = view /\ view[v].seen = file.version
          BY <3>5 DEF SyncCheck, Stale
        <4>2. view[v].seen # 0 => Fresh(view[v].seen)
          BY <4>1 DEF Fresh
        <4>3. view[v].seen # 0 => Caught(v, m)
          BY <2>2, <3>3, <4>2 DEF Noticed
        <4> QED
          BY <4>1, <4>3 DEF Caught
      <3> QED
        BY <3>1, <3>2, <3>4, <3>5
    <2> QED
      BY <2>3, <2>4
  <1> QED
    BY <1>2, <1>3, <1>4 DEF MapPart

-----------------------------------------------------------------------------
(* Ready stays true when processes use the mapping.                         *)
LEMMA MapReady ==
  ASSUME BInv, Plain, Separate, Still, Stuck \/ InStep, Growth, Ready, BInv',
         NEW p \in Procs, MapPart(p)
  PROVE  Ready'
  <1>1. /\ UNCHANGED local /\ MInv /\ MInv' /\ Alive(p) /\ Writer \in Procs
        /\ \A v \in Views : ViewCells[v] \subseteq Cells
        /\ view \in [Views -> ViewRec]
    BY MappingAssumption DEF BInv, MapPart, brokerVars, MInv, MapTypes
  <1>2. CASE p # Writer
    <2>1. /\ Phase(Writer)' = Phase(Writer) /\ Rest(Writer)' = Rest(Writer)
          /\ Mapped(Writer)' = Mapped(Writer)
          /\ \A v \in Views : ViewProc[v] = Writer => view'[v] = view[v]
      BY <1>1, <1>2, MapAlone
    <2>2. file'.bytes = file.bytes
      <3>1. CASE MapStep(p)
        BY <1>1, <3>1, MapStepFile
      <3>2. CASE SyncStep(p)
        BY <1>1, <1>2, <3>2, ReaderSync DEF Still, SyncCheck, SyncRead
      <3> QED
        BY <3>1, <3>2 DEF MapPart
    <2>3. \A v \in Views : (Shown(v))' = Shown(v)
      BY <2>2 DEF Shown
    <2> QED
      BY <2>1, <2>3 DEF Ready, Mapped
  <1>3. CASE p = Writer /\ MapStep(p)
    BY <1>3, MapStepPhase DEF Ready
  <1>4. CASE p = Writer /\ SyncStep(p)
    <2>1. InStep /\ SyncStep(Writer)
      BY <1>1, <1>4 DEF Stuck
    <2> SUFFICES ASSUME Phase(Writer)' \in Posting, NEW v \in Views, v \in Mapped(Writer)',
                        v \notin Rest(Writer)'
                 PROVE  view'[v].mem = [c \in ViewCells[v] |-> file'.bytes[c]]
      BY DEF Ready, Shown, Mapped
    <2>2. Phase(Writer) \in Posting
      <3>1. UNCHANGED brokerVars
        BY DEF MapPart
      <3>2. Phase(Writer)' = Phase(Writer) \/ Phase(Writer)' \in MapPhases
        BY <1>1, <1>4, <3>1, SyncStepKeeps DEF MovesIn
      <3> QED
        BY <3>2 DEF Posting, MapPhases
    <2>3. v \in Mapped(Writer) /\ view[v].refs > 0 /\ ViewProc[v] = Writer
      BY <1>1, <2>1, SyncStepShape, <1>4 DEF Mapped
    <2>4. CASE v \notin Rest(Writer)
      <3>1. view'[v] = view[v] /\ view[v].mem = Shown(v)
        BY <1>1, <1>4, <2>1, <2>2, <2>3, <2>4, SyncStepShape DEF Ready
      <3>2. UNCHANGED writes
        BY <2>1 DEF SyncStep, SyncWrite, BumpVersion, TruncateVersion, StoreVersion, CloseBytes,
           RereadVersion, SyncCheck, SyncRead
      <3>3. OthersStay
        BY <1>1, <1>4, <2>1, <3>2, SyncData
      <3>4. \A c \in ViewCells[v] : file'.bytes[c] = file.bytes[c]
        BY <2>3, <2>4, <3>3 DEF OthersStay
      <3> QED
        BY <3>1, <3>4 DEF Shown
    <2>5. CASE v \in Rest(Writer)
      <3>1. /\ v = W.todo[1] /\ file' = file
            /\ \/ RereadVersion(Writer) \/ SyncRead(Writer)
               \/ SyncCheck(Writer) /\ ~Stale(v)
        BY <1>1, <1>4, <2>1, <2>5, RestAfter DEF W
      <3>2. Written /\ Current
        BY <2>1 DEF InStep
      <3>3. CASE RereadVersion(Writer)
        <4>1. W.at = "reread"
          BY <3>3 DEF RereadVersion, At, W
        <4>2. Shown(v) = view[v].mem
          BY <3>1, <3>2, <4>1 DEF Written
        <4>3. view'[v].mem = view[v].mem
          BY <1>1, <3>1, <3>3 DEF RereadVersion, W, ViewRec
        <4> QED
          BY <3>1, <4>2, <4>3 DEF Shown
      <3>4. CASE SyncRead(Writer)
        <4>1. view'[v].mem = Shown(v)
          BY <1>1, <3>1, <3>4 DEF SyncRead, W, ViewRec
        <4> QED
          BY <3>1, <4>1 DEF Shown
      <3>5. CASE SyncCheck(Writer) /\ ~Stale(v)
        <4>1. /\ view' = view /\ view[v].seen = file.version /\ W.at = "sync"
              /\ ~Changed(W)
          BY <3>5 DEF SyncCheck, Stale, At, W
        <4>2. view[v].mem = view[v].shadow
          BY <3>1, <4>1 DEF Changed
        <4>3. view[v].shadow = Shown(v)
          BY <2>3, <3>2, <4>1 DEF Current
        <4> QED
          BY <3>1, <4>1, <4>2, <4>3 DEF Shown
      <3> QED
        BY <3>1, <3>3, <3>4, <3>5
    <2> QED
      BY <2>4, <2>5
  <1> QED
    BY <1>2, <1>3, <1>4 DEF MapPart

(* A step of a process with the mapping keeps it.                           *)
LEMMA MapKeepsData ==
  ASSUME BInv, BInv', Plain, Separate, Still, Stuck \/ InStep, DataInv, NEW p \in Procs, MapPart(p)
  PROVE  DataInv' /\ UNCHANGED inbox
  <1>1. /\ UNCHANGED <<local, queue, inbox>> /\ MInv /\ MInv' /\ BrokerTypes /\ Alive(p)
        /\ Growth /\ Stored /\ Noticed /\ Ready
    BY DEF BInv, MapPart, brokerVars, DataInv
  <1>2. Flying' = Flying
    BY <1>1 DEF Flying, InCall
  <1>3. DataGrows
    <2>1. CASE MapStep(p)
      BY <1>1, <2>1, MapData
    <2>2. CASE SyncStep(p)
      <3>1. UNCHANGED writes
        BY <2>2 DEF SyncStep, SyncWrite, BumpVersion, TruncateVersion, StoreVersion, CloseBytes,
           RereadVersion, SyncCheck, SyncRead
      <3> QED
        BY <1>1, <2>2, <3>1, SyncData
    <2> QED
      BY <2>1, <2>2 DEF MapPart
  <1>4. Stored'
    BY <1>1, <1>2, <1>3, StoredStep DEF DataGrows
  <1>5. Noticed'
    <2>1. \A v \in Views : ViewProc[v] # Writer /\ view'[v].refs > 0 =>
            \/ ViewRead(v)
            \/ ViewKept(v) /\ (Fresh(view[v].seen)' => Fresh(view[v].seen))
      <3> SUFFICES ASSUME NEW v \in Views, ViewProc[v] # Writer, view'[v].refs > 0, ~ViewRead(v)
                   PROVE  ViewKept(v) /\ (Fresh(view[v].seen)' => Fresh(view[v].seen))
        OBVIOUS
      <3>1. ViewKept(v)
        BY <1>3 DEF DataGrows
      <3>2. PICK n \in Nat : n = view[v].seen
        BY <1>1, DataTypes DEF DataNumbers
      <3>3. view'[v].seen = n
        BY <3>1, <3>2 DEF ViewKept
      <3>4. Fresh(n)' => Fresh(n)
        BY <1>3 DEF DataGrows
      <3> QED
        BY <3>1, <3>2, <3>3, <3>4 DEF Fresh
    <2> QED
      BY <1>1, <1>2, <1>4, <2>1, NoticedStep
  <1>6. Ready'
    BY <1>1, MapReady
  <1>7. \A q \in Procs \ {Writer} : Synced(q)'
    BY <1>1, MapSynced DEF DataInv
  <1> QED
    BY <1>1, <1>3, <1>4, <1>5, <1>6, <1>7 DEF DataInv, DataGrows

-----------------------------------------------------------------------------
(* Messages in flight after a step of p: those in the file and in its hands.*)
LEMMA FlyingStep ==
  ASSUME NEW p \in Procs, \A q \in Procs \ {p} : local'[q] = local[q], NEW more,
         ToSet(queue'.messages) \subseteq Flying \cup more,
         ToSet(local'[p].call.copy) \subseteq Flying \cup more
  PROVE  Flying' \subseteq Flying \cup more
  <1>1. \A q \in Procs \ {p} : ToSet(local'[q].call.copy) \subseteq Flying
    BY DEF Flying, InCall
  <1>2. Flying' = ToSet(queue'.messages) \cup UNION {ToSet(local'[q].call.copy) : q \in Procs}
    BY DEF Flying, InCall
  <1> QED
    BY <1>1, <1>2

(* What a step of a broker call does with the messages, and where it leads. *)
CallData(p) ==
  /\ UNCHANGED writes
  /\ \A q \in Procs \ {p} : local'[q] = local[q]
  /\ \/ \E next \in Thens : job' = SyncMapped(p, next)
     \/ /\ Phase(p)' \in Taking =>
             Phase(p) \in Taking /\ ToSet(local'[p].call.copy) \subseteq ToSet(InCall(p).copy)
        /\ Phase(p)' \in Posting => Phase(p) \in Posting
  /\ \/ Flying' \subseteq Flying
     \/ Phase(p) = "append" /\ Flying' \subseteq Flying \cup {Posted(p)}
  /\ \/ inbox' = inbox
     \/ /\ Phase(p) \in Taking /\ ~NoneFor(InCall(p).copy, p)
        /\ inbox' = [inbox EXCEPT ![p] = Append(inbox[p], Arrival(p, FirstMessage(p)))]

(* The places of the steps of a call.                                       *)
LEMMA GotoPhase ==
  ASSUME BInv, NEW p \in Procs, NEW x \in Ats \ Syncing, job' = Goto(p, x)
  PROVE  Phase(p)' = x
  <1>1. job'[p].at = x
    BY GotoJob DEF BInv, MInv, MapTypes
  <1> QED
    BY <1>1 DEF Phase

(* Most steps deliver nothing and leave the file.                           *)
LEMMA PlainCall ==
  ASSUME BInv, NEW p \in Procs, job[p].at \notin Syncing, UNCHANGED <<queue, inbox, writes>>,
         \A q \in Procs \ {p} : local'[q] = local[q],
         \/ local'[p].call.copy = << >> \/ local'[p].call.copy = InCall(p).copy
         \/ local'[p].call.copy = queue.messages,
         \/ \E next \in Thens : job' = SyncMapped(p, next)
         \/ \E x \in Ats \ (Syncing \cup Taking \cup Posting) : job' = Goto(p, x)
         \/ \E x \in {"post", "append"} : job' = Goto(p, x) /\ job[p].at \in Posting
         \/ /\ \E x \in Taking : job' = Goto(p, x)
            /\ job[p].at \in Taking /\ local'[p].call.copy = InCall(p).copy
  PROVE  CallData(p)
  <1>1. queue.messages \in Seq(Message) /\ InCall(p).copy \in Seq(Message) /\ BrokerTypes
    BY DEF BInv, BrokerTypes, FileType, InCall, LocalRec, CallRec
  <1>2. /\ ToSet(queue.messages) \subseteq Flying /\ ToSet(InCall(p).copy) \subseteq Flying
        /\ ToSet(<< >>) = {}
    <2>1. << >> \in Seq(Message)
      BY EmptySeq
    <2> QED
      BY <1>1, <2>1, FlyingTypes, ToSetSeq
  <1>3. ToSet(local'[p].call.copy) \subseteq Flying
    BY <1>2
  <1>4. Flying' \subseteq Flying
    <2>1. Flying' \subseteq Flying \cup {}
      BY <1>2, <1>3, FlyingStep
    <2> QED
      BY <2>1
  <1>5. Phase(p) = job[p].at
    BY DEF Phase
  <1>6. \/ \E next \in Thens : job' = SyncMapped(p, next)
        \/ /\ Phase(p)' \in Taking =>
                Phase(p) \in Taking /\ ToSet(local'[p].call.copy) \subseteq ToSet(InCall(p).copy)
           /\ Phase(p)' \in Posting => Phase(p) \in Posting
    <2>1. Taking \cup Posting \subseteq Ats \ Syncing /\ Taking \cap Posting = {}
      BY DEF Taking, Posting, Ats, Syncing, Holding
    <2>2. ASSUME NEW x \in Ats \ (Syncing \cup Taking \cup Posting), job' = Goto(p, x)
          PROVE  Phase(p)' \notin Taking \cup Posting
      BY <2>2, GotoPhase
    <2>3. ASSUME NEW x \in {"post", "append"}, job' = Goto(p, x)
          PROVE  Phase(p)' \notin Taking
      <3>1. x \in Ats \ Syncing /\ x \notin Taking
        BY <2>1 DEF Posting
      <3> QED
        BY <2>3, <3>1, GotoPhase
    <2>4. ASSUME NEW x \in Taking, job' = Goto(p, x)
          PROVE  Phase(p)' \notin Posting
      <3>1. x \in Ats \ Syncing /\ x \notin Posting
        BY <2>1
      <3> QED
        BY <2>4, <3>1, GotoPhase
    <2> QED
      BY <1>5, <2>2, <2>3, <2>4
  <1> QED
    BY <1>4, <1>6 DEF CallData

(* The calls that post and poll, but for what they take and write.          *)
LEMMA QuietCallData ==
  ASSUME BInv, NEW p \in Procs,
         \/ PublishRead(p) \/ PublishWrite(p) \/ FindExternalGuestWindow(p) \/ BroadcastList(p)
         \/ BroadcastNext(p) \/ PostRead(p) \/ PollRead(p) \/ PollNothing(p) \/ PollRestat(p)
         \/ PollCrossProcessGuestMessages(p) \/ PublishGuestWindowState(p) \/ FindWindow(p)
         \/ Broadcast(p) \/ \E q \in Procs, k \in {"post", "copydata"} : PostMessage(p, q, k)
  PROVE  CallData(p)
  <1>1. /\ local \in [Procs -> LocalRec] /\ local[p] \in LocalRec /\ local[p].call \in CallRec
        /\ NoCall.copy = << >>
    BY DEF BInv, BrokerTypes, LocalRec, NoCall
  <1>2. /\ {"idle", "publishLock", "publishWrite", "findLock", "listLock", "next", "pollLock"}
             \subseteq Ats \ (Syncing \cup Taking \cup Posting)
        /\ {"idle", "publish", "publishWrite", "find", "list", "next", "post", "poll", "take",
            "restat"} \cap Syncing = {}
        /\ "queueLock" \in Thens /\ "take" \in Thens /\ "post" \in Posting
    BY DEF Ats, Syncing, Taking, Posting, MapPhases, Listing, Thens, Holding
  <1>3. ASSUME NEW c, local' = SetCall(p, c)
        PROVE  local'[p].call = c /\ \A q \in Procs \ {p} : local'[q] = local[q]
    BY <1>1, <1>3 DEF SetCall, LocalRec
  <1>4. CASE PublishRead(p)
    <2>1. /\ job[p].at = "publish" /\ job' = Goto(p, "publishWrite")
          /\ UNCHANGED <<queue, inbox, writes>>
      BY <1>4 DEF PublishRead, Step, At, mapFiles
    <2>2. /\ \A q \in Procs \ {p} : local'[q] = local[q]
          /\ local'[p].call.copy = InCall(p).copy
      BY <1>1, <1>4 DEF PublishRead, LocalRec, CallRec, InCall
    <2> QED
      BY <1>2, <2>1, <2>2, PlainCall
  <1>5. CASE PublishWrite(p) \/ PollNothing(p) \/ PollRestat(p)
    <2>1. /\ job[p].at \in {"publishWrite", "take", "restat"} /\ job' = Goto(p, "idle")
          /\ UNCHANGED <<queue, inbox, writes>> /\ local' = SetCall(p, NoCall)
      BY <1>5 DEF PublishWrite, PollNothing, PollRestat, Step, At, mapFiles
    <2> QED
      BY <1>1, <1>2, <1>3, <2>1, PlainCall
  <1>6. CASE FindExternalGuestWindow(p)
    <2>1. /\ job[p].at = "find" /\ job' = Goto(p, "idle")
          /\ UNCHANGED <<queue, inbox, writes>>
          /\ local' = local \/ \E q : local' = [local EXCEPT ![p].imported = @ \cup {q}]
      BY <1>6 DEF FindExternalGuestWindow, Step, At, mapFiles
    <2>2. /\ \A q \in Procs \ {p} : local'[q] = local[q]
          /\ local'[p].call.copy = InCall(p).copy
      BY <1>1, <2>1 DEF LocalRec, InCall
    <2> QED
      BY <1>2, <2>1, <2>2, PlainCall
  <1>7. CASE BroadcastList(p)
    <2>1. /\ job[p].at = "list" /\ job' = Goto(p, "next") /\ UNCHANGED <<queue, inbox, writes>>
          /\ local' = SetCall(p, [NoCall EXCEPT !.targets = {q \in registry \ {p} : Alive(q)},
                                                !.kind = "broadcast"])
      BY <1>7 DEF BroadcastList, Step, At, mapFiles
    <2>2. [NoCall EXCEPT !.targets = {q \in registry \ {p} : Alive(q)}, !.kind = "broadcast"].copy = << >>
      BY DEF NoCall
    <2> QED
      BY <1>2, <1>3, <2>1, <2>2, PlainCall
  <1>8. CASE BroadcastNext(p)
    <2>1. job[p].at = "next" /\ UNCHANGED <<queue, inbox, writes>>
      BY <1>8 DEF BroadcastNext, Step, At, mapFiles
    <2>2. \/ local' = SetCall(p, NoCall) /\ job' = Goto(p, "idle")
          \/ /\ \E q, qs : local' = SetCall(p, [InCall(p) EXCEPT !.to = q, !.targets = qs])
             /\ job' = SyncMapped(p, "queueLock")
      BY <1>8 DEF BroadcastNext, PostBegins, SyncMapped
    <2>3. CASE local' = SetCall(p, NoCall) /\ job' = Goto(p, "idle")
      BY <1>1, <1>2, <1>3, <2>1, <2>3, PlainCall
    <2>4. ASSUME NEW q, NEW qs, local' = SetCall(p, [InCall(p) EXCEPT !.to = q, !.targets = qs]),
                 job' = SyncMapped(p, "queueLock")
          PROVE  CallData(p)
      <3>1. [InCall(p) EXCEPT !.to = q, !.targets = qs].copy = InCall(p).copy
        BY <1>1 DEF CallRec, InCall
      <3>2. local'[p].call.copy = InCall(p).copy /\ \A r \in Procs \ {p} : local'[r] = local[r]
        BY <1>3, <2>4, <3>1
      <3> QED
        BY <1>2, <2>1, <2>4, <3>2, PlainCall
    <2> QED
      BY <2>2, <2>3, <2>4
  <1>9. CASE PostRead(p)
    <2>1. /\ job[p].at = "post" /\ job' = Goto(p, "append") /\ UNCHANGED <<queue, inbox, writes>>
      BY <1>9 DEF PostRead, Step, At, mapFiles
    <2>2. /\ \A q \in Procs \ {p} : local'[q] = local[q]
          /\ local'[p].call.copy = queue.messages
      BY <1>1, <1>9 DEF PostRead, LocalRec, CallRec
    <2> QED
      BY <1>2, <2>1, <2>2, PlainCall
  <1>10. CASE PollRead(p)
    <2>1. /\ job[p].at = "poll" /\ job' = SyncMapped(p, "take") /\ UNCHANGED <<queue, inbox, writes>>
      BY <1>10 DEF PollRead, PollBegins, SyncMapped, Step, At, mapFiles
    <2>2. /\ \A q \in Procs \ {p} : local'[q] = local[q]
          /\ local'[p].call.copy = queue.messages
      BY <1>1, <1>10 DEF PollRead, LocalRec, CallRec
    <2> QED
      BY <1>2, <2>1, <2>2, PlainCall
  <1>11. CASE PollCrossProcessGuestMessages(p)
    <2>1. /\ job[p].at = "idle" /\ job' = Goto(p, "pollLock") /\ UNCHANGED <<queue, inbox, writes>>
          /\ local' = SetCall(p, [NoCall EXCEPT !.seen = FileStat])
      BY <1>11 DEF PollCrossProcessGuestMessages, Step, At, mapFiles
    <2>2. [NoCall EXCEPT !.seen = FileStat].copy = << >>
      BY DEF NoCall
    <2> QED
      BY <1>2, <1>3, <2>1, <2>2, PlainCall
  <1>12. CASE PublishGuestWindowState(p)
    <2>1. /\ job[p].at = "idle" /\ job' = Goto(p, "publishLock") /\ UNCHANGED <<queue, inbox, writes>>
          /\ local' = [local EXCEPT ![p].window = ~@]
      BY <1>12 DEF PublishGuestWindowState, Step, At, mapFiles
    <2>2. /\ \A q \in Procs \ {p} : local'[q] = local[q]
          /\ local'[p].call.copy = InCall(p).copy
      BY <1>1, <2>1 DEF LocalRec, InCall
    <2> QED
      BY <1>2, <2>1, <2>2, PlainCall
  <1>13. CASE FindWindow(p) \/ Broadcast(p)
    <2>1. /\ job[p].at = "idle" /\ UNCHANGED <<queue, inbox, writes, local>>
          /\ job' = Goto(p, "findLock") \/ job' = Goto(p, "listLock")
      BY <1>13 DEF FindWindow, Broadcast, Step, At, mapFiles, brokerVars
    <2>2. local'[p].call.copy = InCall(p).copy /\ \A q \in Procs \ {p} : local'[q] = local[q]
      BY <2>1 DEF InCall
    <2> QED
      BY <1>2, <2>1, <2>2, PlainCall
  <1>14. ASSUME NEW q \in Procs, NEW k \in {"post", "copydata"}, PostMessage(p, q, k)
         PROVE  CallData(p)
    <2>1. /\ job[p].at = "idle" /\ UNCHANGED <<queue, inbox, writes>>
          /\ local' = SetCall(p, [NoCall EXCEPT !.to = q, !.kind = k])
          /\ job' = SyncMapped(p, "queueLock")
      BY <1>14 DEF PostMessage, PostBegins, SyncMapped, Step, At, mapFiles
    <2>2. [NoCall EXCEPT !.to = q, !.kind = k].copy = << >>
      BY DEF NoCall
    <2> QED
      BY <1>2, <1>3, <2>1, <2>2, PlainCall
  <1> QED
    BY <1>4, <1>5, <1>6, <1>7, <1>8, <1>9, <1>10, <1>11, <1>12, <1>13, <1>14

-----------------------------------------------------------------------------
(* A list with a message more.                                              *)
LEMMA ToSetAppend ==
  ASSUME NEW q \in Seq(Message), NEW m \in Message
  PROVE  ToSet(Append(q, m)) \subseteq ToSet(q) \cup {m}
  <1>1. /\ Append(q, m) \in Seq(Message) /\ Len(Append(q, m)) = Len(q) + 1 /\ Len(q) \in Nat
        /\ \A i \in 1 .. Len(q) : Append(q, m)[i] = q[i]
        /\ Append(q, m)[Len(q) + 1] = m
    BY AppendProperties, LenProperties
  <1> SUFFICES ASSUME NEW x \in ToSet(Append(q, m)), x # m PROVE x \in ToSet(q)
    OBVIOUS
  <1>2. PICK i \in 1 .. Len(q) + 1 : x = Append(q, m)[i]
    BY <1>1, ToSetSeq
  <1>3. i \in 1 .. Len(q)
    BY <1>1, <1>2
  <1>4. x = q[i]
    BY <1>1, <1>2, <1>3
  <1> QED
    BY <1>3, <1>4, ToSetSeq

(* A post writes what it read, and its message.                             *)
LEMMA AppendCallData ==
  ASSUME BInv, NEW p \in Procs, PostAppend(p)
  PROVE  CallData(p)
  <1> DEFINE copy == InCall(p).copy
             all == InCall(p).kind = "broadcast"
             c == IF all THEN [local[p].call EXCEPT !.copy = << >>] ELSE NoCall
             step == IF all THEN "next" ELSE "idle"
  <1>1. /\ Step(p, "append") /\ "append" \notin Syncing /\ "append" \in Posting
        /\ step \in Ats \ (Syncing \cup Taking \cup Posting)
    BY DEF PostAppend, Syncing, Ats, Listing, MapPhases, Taking, Posting
  <1>2. /\ Phase(p) = "append" /\ BrokerTypes /\ MInv /\ Locked(p)
        /\ local \in [Procs -> LocalRec] /\ local[p].call \in CallRec
        /\ InCall(p) = local[p].call
    BY <1>1, AtStep DEF InCall
  <1>3. copy \in Seq(Message) /\ Posted(p) \in Message
    BY <1>1, <1>2, PostedType DEF CallRec
  <1>4. queue'.messages = Append(copy, Posted(p)) /\ UNCHANGED <<writes, inbox>>
    BY DEF PostAppend, Replace, Posted, mapFiles
  <1>5. local' = SetCall(p, c) /\ job' = Goto(p, step)
    BY DEF PostAppend, SetCall
  <1>6. c.copy = << >>
    BY <1>2 DEF CallRec, NoCall
  <1> HIDE DEF c, step
  <1>7. local'[p].call = c /\ \A q \in Procs \ {p} : local'[q] = local[q]
    BY <1>2, <1>5 DEF SetCall, LocalRec
  <1>8. ToSet(local'[p].call.copy) = {}
    <2>1. << >> \in Seq(Message)
      BY EmptySeq
    <2> QED
      BY <1>6, <1>7, <2>1, ToSetSeq
  <1>9. ToSet(queue'.messages) \subseteq Flying \cup {Posted(p)}
    <2>1. ToSet(copy) \subseteq Flying
      BY <1>2, FlyingTypes
    <2>2. ToSet(Append(copy, Posted(p))) \subseteq ToSet(copy) \cup {Posted(p)}
      BY <1>3, ToSetAppend
    <2> QED
      BY <1>4, <2>1, <2>2
  <1>10. Flying' \subseteq Flying \cup {Posted(p)}
    BY <1>7, <1>8, <1>9, FlyingStep
  <1>11. Phase(p)' = step
    BY <1>1, <1>5, GotoPhase
  <1> QED
    BY <1>1, <1>2, <1>4, <1>7, <1>10, <1>11 DEF CallData

(* A poll writes what is left.                                              *)
LEMMA RewriteCallData ==
  ASSUME BInv, NEW p \in Procs, PollRewrite(p)
  PROVE  CallData(p)
  <1>1. "restat" \in Ats \ (Syncing \cup Taking \cup Posting) /\ BrokerTypes
    BY DEF Ats, Syncing, Taking, Posting, Holding, BInv
  <1>2. /\ queue'.messages = InCall(p).copy /\ job' = Goto(p, "restat")
        /\ UNCHANGED <<writes, inbox, local>>
    BY DEF PollRewrite, Replace, Left, mapFiles
  <1>3. ToSet(InCall(p).copy) \subseteq Flying /\ local[p].call.copy = InCall(p).copy
    BY <1>1, FlyingTypes DEF InCall
  <1>4. Flying' \subseteq Flying \cup {}
    BY <1>2, <1>3, FlyingStep
  <1>5. Phase(p)' = "restat"
    BY <1>1, <1>2, GotoPhase
  <1> QED
    BY <1>1, <1>2, <1>4, <1>5 DEF CallData

(* A message is taken: it leaves the copy.                                  *)
LEMMA TakenCallData ==
  ASSUME BInv, NEW p \in Procs, Phase(p) \in Taking, ~NoneFor(InCall(p).copy, p),
         UNCHANGED <<writes, queue>>, local'[p].call.copy = Others(p),
         \A q \in Procs \ {p} : local'[q] = local[q],
         Phase(p)' \in Taking,
         \/ inbox' = inbox
         \/ inbox' = [inbox EXCEPT ![p] = Append(inbox[p], Arrival(p, FirstMessage(p)))]
  PROVE  CallData(p)
  <1>1. InCall(p).copy \in Seq(Message) /\ BrokerTypes
    BY DEF BInv, BrokerTypes, InCall, LocalRec, CallRec
  <1>2. ToSet(Others(p)) \subseteq ToSet(InCall(p).copy)
    BY <1>1, FirstOfMine, LeftInCopy DEF Others
  <1>3. ToSet(InCall(p).copy) \subseteq Flying /\ ToSet(queue.messages) \subseteq Flying
    BY <1>1, FlyingTypes
  <1>4. Flying' \subseteq Flying \cup {}
    BY <1>2, <1>3, FlyingStep
  <1>5. Phase(p)' \notin Posting
    BY DEF Taking, Posting
  <1> QED
    BY <1>2, <1>4, <1>5 DEF CallData

(* A poll takes a message, or waits for the registry first.                 *)
LEMMA TakeCallData ==
  ASSUME BInv, NEW p \in Procs, TakeMessage(p) \/ ImportExternalWindow(p)
  PROVE  CallData(p)
  <1>1. /\ {"take", "importLock", "import"} \subseteq Ats \ Syncing /\ "take" \in Taking
        /\ "importLock" \in Taking /\ "import" \in Taking
    BY DEF Ats, Syncing, Taking, Holding
  <1>2. CASE TakeMessage(p)
    <2>1. Step(p, "take") /\ UNCHANGED <<writes, queue>>
      BY <1>2 DEF TakeMessage, mapFiles
    <2>2. /\ job[p].at = "take" /\ Phase(p) = "take" /\ BrokerTypes /\ local \in [Procs -> LocalRec]
          /\ local[p] \in LocalRec
      BY <1>1, <2>1, AtStep DEF Step, At
    <2>3. ~NoneFor(InCall(p).copy, p)
      BY <1>2, <2>2, MineIsThere DEF TakeMessage
    <2>4. CASE NeedsImport(p, FirstMessage(p))
      <3>1. job' = Goto(p, "importLock") /\ UNCHANGED <<local, inbox>>
        BY <1>2, <2>4 DEF TakeMessage
      <3>2. local'[p].call.copy = InCall(p).copy
        BY <3>1 DEF InCall
      <3> QED
        BY <1>1, <2>1, <2>2, <3>1, <3>2, PlainCall
    <2>5. CASE ~NeedsImport(p, FirstMessage(p))
      <3>1. Taken(p, FirstMessage(p)) /\ UNCHANGED job
        BY <1>2, <2>5 DEF TakeMessage
      <3>2. local' = SetCall(p, TakenCall(p))
        BY <3>1 DEF Taken, TakenCall, SetCall
      <3>3. TakenCall(p).copy = Others(p)
        BY <2>2, <2>3, TakenCallType
      <3>4. local'[p].call.copy = Others(p) /\ \A q \in Procs \ {p} : local'[q] = local[q]
        BY <2>2, <3>2, <3>3 DEF SetCall, LocalRec
      <3>5. \/ inbox' = inbox
            \/ inbox' = [inbox EXCEPT ![p] = Append(inbox[p], Arrival(p, FirstMessage(p)))]
        BY <2>2, <3>1 DEF Taken, BrokerTypes
      <3>6. Phase(p) \in Taking /\ Phase(p)' \in Taking
        BY <1>1, <2>2, <3>1 DEF Phase
      <3> QED
        BY <2>1, <2>3, <3>4, <3>5, <3>6, TakenCallData
    <2> QED
      BY <2>4, <2>5
  <1>3. CASE ImportExternalWindow(p)
    <2>1. /\ Step(p, "import") /\ UNCHANGED <<writes, queue>> /\ job' = Goto(p, "take")
      BY <1>3 DEF ImportExternalWindow, mapFiles
    <2>2. /\ Phase(p) = "import" /\ BrokerTypes /\ Locked(p) /\ local \in [Procs -> LocalRec]
          /\ local[p] \in LocalRec
      BY <1>1, <2>1, AtStep
    <2>3. ~NoneFor(InCall(p).copy, p)
      BY <2>2 DEF Locked
    <2> DEFINE seen == local[p].imported \cup ({FirstMessage(p).from} \cap registry)
               r == [local[p] EXCEPT !.call = TakenCall(p), !.imported = seen]
    <2>4. local' = [local EXCEPT ![p] = r]
      BY <1>3, ImportSets
    <2>5. r.call = TakenCall(p)
      BY <2>2 DEF LocalRec
    <2> HIDE DEF r
    <2>6. TakenCall(p).copy = Others(p)
      BY <2>2, <2>3, TakenCallType
    <2>7. local'[p].call.copy = Others(p) /\ \A q \in Procs \ {p} : local'[q] = local[q]
      BY <2>2, <2>4, <2>5, <2>6
    <2>8. inbox' = [inbox EXCEPT ![p] = Append(inbox[p], Arrival(p, FirstMessage(p)))]
      BY <1>3, <2>2 DEF ImportExternalWindow, BrokerTypes
    <2>9. Phase(p) \in Taking /\ Phase(p)' \in Taking
      <3>1. Phase(p)' = "take"
        BY <1>1, <2>1, GotoPhase
      <3> QED
        BY <1>1, <2>2, <3>1
    <2> QED
      BY <2>1, <2>3, <2>7, <2>8, <2>9, TakenCallData
  <1> QED
    BY <1>2, <1>3

(* A wait for a mutex ends.                                                 *)
LEMMA WaitCallData ==
  ASSUME BInv, NEW p \in Procs, Acquire(p) \/ GiveUp(p)
  PROVE  CallData(p)
  <1> DEFINE step == Waits[job[p].at]
  <1>1. Waiting(p) /\ job' = Goto(p, step) /\ UNCHANGED <<queue, inbox, writes, local>>
    BY DEF Acquire, GiveUp, mapFiles
  <1>2. /\ job[p].at \in {"queueLock", "pollLock", "publishLock", "findLock", "listLock",
                          "importLock"}
        /\ job[p].at \notin Syncing
        /\ job[p].at = "queueLock" => step = "post"
        /\ job[p].at = "pollLock" => step = "poll"
        /\ job[p].at = "publishLock" => step = "publish"
        /\ job[p].at = "findLock" => step = "find"
        /\ job[p].at = "listLock" => step = "list"
        /\ job[p].at = "importLock" => step = "import"
    BY <1>1, WaitPlaces
  <1> HIDE DEF step
  <1>3. /\ {"poll", "publish", "find", "list"} \subseteq Ats \ (Syncing \cup Taking \cup Posting)
        /\ "queueLock" \in Posting /\ "import" \in Taking /\ "importLock" \in Taking
    BY DEF Ats, Syncing, Taking, Posting, Listing, Holding
  <1>4. \/ step \in Ats \ (Syncing \cup Taking \cup Posting)
        \/ step \in {"post", "append"} /\ job[p].at \in Posting
        \/ step \in Taking /\ job[p].at \in Taking
    BY <1>2, <1>3
  <1>5. local'[p].call.copy = InCall(p).copy /\ \A q \in Procs \ {p} : local'[q] = local[q]
    BY <1>1 DEF InCall
  <1>6. UNCHANGED <<queue, inbox, writes>>
    BY <1>1
  <1> QED
    BY <1>1, <1>2, <1>4, <1>5, <1>6, PlainCall

(* All steps of the calls.                                                  *)
LEMMA BrokerCallData ==
  ASSUME BInv, NEW p \in Procs, BrokerStep(p)
  PROVE  CallData(p)
  <1>1. CASE PostAppend(p) \/ PollRewrite(p)
    BY <1>1, AppendCallData, RewriteCallData
  <1>2. CASE TakeMessage(p) \/ ImportExternalWindow(p)
    BY <1>2, TakeCallData
  <1>3. CASE WaitLock(p)
    BY <1>3, WaitCallData DEF WaitLock
  <1>4. CASE ~(PostAppend(p) \/ PollRewrite(p) \/ TakeMessage(p) \/ ImportExternalWindow(p)
               \/ WaitLock(p))
    BY <1>4, QuietCallData DEF BrokerStep, CallStep
  <1> QED
    BY <1>1, <1>2, <1>3, <1>4

-----------------------------------------------------------------------------
(* What p's views show of a byte, one of them shows.                        *)
LEMMA KnownShown ==
  ASSUME NEW p \in Procs, NEW c \in Cells
  PROVE  /\ \/ Known(p)[c] = 0
            \/ \E v \in Mapped(p) : c \in ViewCells[v] /\ Known(p)[c] = view[v].mem[c]
         /\ c \in Shows(p) =>
              \E v \in Mapped(p) : c \in ViewCells[v] /\ Known(p)[c] = view[v].mem[c]
  <1> DEFINE vs == {v \in Mapped(p) : c \in ViewCells[v]}
  <1>1. Known(p)[c] = IF vs = {} THEN 0 ELSE view[CHOOSE v \in vs : TRUE].mem[c]
    BY DEF Known
  <1>2. c \in Shows(p) => vs # {}
    BY DEF Shows
  <1>3. CASE vs # {}
    <2>1. PICK v : v = CHOOSE x \in vs : TRUE
      OBVIOUS
    <2>2. v \in vs
      BY <1>3, <2>1
    <2>3. Known(p)[c] = view[v].mem[c]
      BY <1>1, <1>3, <2>1
    <2> QED
      BY <2>2, <2>3
  <1>4. CASE vs = {}
    BY <1>1, <1>2, <1>4
  <1> QED
    BY <1>3, <1>4

(* A step of a call changes no version, and no view passes for current that *)
(* did not.                                                                 *)
LEMMA CallFresh ==
  ASSUME BInv, NEW p \in Procs, BrokerStep(p)
  PROVE  /\ UNCHANGED <<file, view>> /\ Alive(p) /\ Rest(p) = {} /\ job[p].at \in Elsewhere
         /\ \A q \in Procs \ {p} : job'[q] = job[q]
         /\ \A n : Fresh(n)' <=> Fresh(n)
  <1>1. /\ UNCHANGED file /\ UNCHANGED view /\ Alive(p) /\ job[p].at \in Elsewhere
        /\ \A q \in Procs : Alive(q)' <=> Alive(q)
        /\ \/ job' = job
           \/ \E x \in Elsewhere : job' = Goto(p, x)
           \/ \E next \in Thens : job' = SyncThen(p, Mapped(p), FALSE, next)
    BY BrokerStepMoves
  <1>2. /\ MInv /\ job \in [Procs -> JobRec] /\ Writer \in Procs
        /\ job[p].at \notin Syncing /\ job[p].at \notin Writing
    BY <1>1, PlaceNames, PhaseNames, MappingAssumption DEF BInv, MInv, MapTypes
  <1>3. Rest(p) = {}
    <2>1. job[p].todo = << >> /\ job[p].todo \in Seq(Views)
      BY <1>2 DEF MInv, TodoInv, JobRec
    <2> QED
      BY <2>1, ToSetSeq DEF Rest
  <1>4. \A q \in Procs \ {p} : job'[q] = job[q]
    BY <1>1, <1>2 DEF Goto, SyncThen
  <1>5. job'[p].at \notin Writing
    <2>1. ASSUME NEW x \in Elsewhere, job' = Goto(p, x) PROVE job'[p].at \notin Writing
      BY <1>2, <2>1, GotoJob, PlaceNames DEF Elsewhere
    <2>2. ASSUME NEW next \in Thens, job' = SyncThen(p, Mapped(p), FALSE, next)
          PROVE  job'[p].at \notin Writing
      <3>1. job' = SyncMapped(p, next) /\ next \in Elsewhere
        BY <2>2, PlaceNames DEF SyncMapped
      <3>2. job'[p].at = next \/ job'[p].at = "sync"
        BY <1>2, <3>1, SyncMappedJob
      <3> QED
        BY <3>1, <3>2, PlaceNames
    <2> QED
      BY <1>1, <1>2, <2>1, <2>2
  <1>6. (Stuck' <=> Stuck) /\ Top' = Top
    <2>1. CASE p = Writer
      BY <1>1, <1>2, <1>5, <2>1 DEF Stuck, Top, W, Writing
    <2>2. CASE p # Writer
      <3>1. W' = W
        BY <1>2, <1>4, <2>2 DEF W
      <3> QED
        BY <1>1, <1>2, <3>1 DEF Stuck, Top, Writing
    <2> QED
      BY <2>1, <2>2
  <1>7. \A n : Fresh(n)' <=> Fresh(n)
    BY <1>1, <1>6 DEF Fresh
  <1> QED
    BY <1>1, <1>3, <1>4, <1>7

(* What p posts is in the file.                                             *)
LEMMA PostedStored ==
  ASSUME MInv, Growth, Ready, NEW p \in Procs, Phase(p) = "append", Rest(p) = {}, NEW c \in Cells
  PROVE  Known(p)[c] <= file.bytes[c]
  <1>1. file.bytes[c] \in Nat
    BY DataTypes DEF DataNumbers
  <1>2. ASSUME NEW v \in Mapped(p), c \in ViewCells[v]
        PROVE  view[v].mem[c] <= file.bytes[c]
    <2>1. v \in Views /\ view[v].refs > 0 /\ ViewProc[v] = p
      BY DEF Mapped
    <2>2. CASE p # Writer
      BY <1>2, <2>1, <2>2 DEF Growth
    <2>3. CASE p = Writer
      <3>1. Phase(Writer) \in Posting
        BY <2>3 DEF Posting
      <3>2. view[v].mem = Shown(v)
        BY <2>3, <3>1 DEF Ready
      <3>3. view[v].mem[c] = file.bytes[c]
        BY <1>2, <3>2 DEF Shown
      <3> QED
        BY <1>1, <3>3
    <2> QED
      BY <2>2, <2>3
  <1> QED
    BY <1>1, <1>2, KnownShown

(* What p takes its views show.                                             *)
LEMMA TakenSeen ==
  ASSUME BInv, DataInv, NEW p \in Procs, Phase(p) \in Taking, Rest(p) = {},
         ~NoneFor(InCall(p).copy, p), Writer \in {p, FirstMessage(p).from}, ~Torn(p),
         NEW c \in Cells
  PROVE  Showing(p)[c] >= FirstMessage(p).sent[c]
  <1> DEFINE m == FirstMessage(p)
  <1>1. BrokerTypes /\ MInv /\ InCall(p).copy \in Seq(Message)
    BY DEF BInv, BrokerTypes, InCall, LocalRec, CallRec
  <1>2. m \in ToSet(InCall(p).copy)
    BY <1>1, FirstOfMine, ToSetSeq
  <1>3. m \in Flying /\ m.sent \in Data
    BY <1>1, <1>2, FlyingTypes
  <1>4. m.sent[c] \in 0 .. MaxWrites /\ MaxWrites \in Nat
    BY <1>3, MappingAssumption DEF Data, Vals
  <1>5. Showing(p)[c] = IF c \in Shows(p) THEN Known(p)[c] ELSE MaxWrites
    BY DEF Showing
  <1> HIDE DEF m
  <1>6. CASE c \notin Shows(p)
    BY <1>4, <1>5, <1>6 DEF m
  <1>7. CASE c \in Shows(p)
    <2>1. PICK v \in Mapped(p) : c \in ViewCells[v] /\ Known(p)[c] = view[v].mem[c]
      BY <1>7, KnownShown
    <2>2. v \in Views /\ view[v].refs > 0 /\ ViewProc[v] = p /\ view[v].seen # 0
      BY <2>1 DEF Mapped, Torn
    <2>3. view[v].mem[c] \in Nat /\ file.bytes[c] \in Nat
      BY <1>1, <2>1, <2>2, DataTypes DEF DataNumbers
    <2>4. CASE p # Writer
      <3>1. m.from = Writer /\ Synced(p)
        BY <2>4 DEF DataInv, m
      <3>2. Caught(v, m)
        BY <1>2, <2>1, <2>2, <3>1 DEF Synced
      <3> QED
        BY <1>5, <1>7, <2>1, <3>2 DEF Caught, m
    <2>5. CASE p = Writer
      <3>1. file.bytes[c] <= view[v].mem[c]
        BY <2>1, <2>2, <2>5 DEF DataInv, Growth
      <3>2. m.sent[c] <= file.bytes[c]
        BY <1>3 DEF DataInv, Stored
      <3> QED
        BY <1>4, <1>5, <1>7, <2>1, <2>3, <3>1, <3>2 DEF m
    <2> QED
      BY <2>4, <2>5
  <1> QED
    BY <1>6, <1>7

(* A step of a call keeps what is known of the bytes.                       *)
LEMMA BrokerKeepsData ==
  ASSUME BInv, BInv', Plain, Separate, Still, Stuck \/ InStep, DataInv, PostedDataSeen,
         NEW p \in Procs, BrokerStep(p)
  PROVE  DataInv' /\ PostedDataSeen'
  <1>1. /\ MInv /\ MInv' /\ BrokerTypes /\ Writer \in Procs
        /\ job \in [Procs -> JobRec] /\ Growth /\ Stored /\ Noticed /\ Ready
        /\ \A q \in Procs \ {Writer} : Synced(q)
    BY MappingAssumption DEF BInv, MInv, MapTypes, DataInv
  <1>2. /\ UNCHANGED file /\ UNCHANGED view /\ Alive(p) /\ Rest(p) = {}
        /\ job[p].at \in Elsewhere /\ \A q \in Procs \ {p} : job'[q] = job[q]
        /\ \A n : Fresh(n)' <=> Fresh(n)
    BY CallFresh
  <1>3. CallData(p)
    BY BrokerCallData
  <1>4. /\ UNCHANGED writes /\ \A q \in Procs \ {p} : local'[q] = local[q]
        /\ \A q : Mapped(q)' = Mapped(q)
    BY <1>2, <1>3 DEF CallData, Mapped
  <1>5. \A q \in Procs \ {p} : Phase(q)' = Phase(q) /\ Rest(q)' = Rest(q) /\ InCall(q)' = InCall(q)
    BY <1>2, <1>4 DEF Phase, Rest, InCall
  <1>6. Growth'
    BY <1>1, <1>2, <1>4 DEF Growth
  <1>7. \A m \in Flying' : m \in Flying \/ (Phase(p) = "append" /\ m = Posted(p))
    BY <1>3 DEF CallData
  <1>8. Posted(p).from = p /\ Posted(p).sent = Known(p)
    BY DEF Posted
  <1>9. \A m \in Flying', c \in Cells : m.sent[c] <= file.bytes[c]
    <2> SUFFICES ASSUME NEW m \in Flying', NEW c \in Cells PROVE m.sent[c] <= file.bytes[c]
      OBVIOUS
    <2>1. CASE m \in Flying
      BY <1>1, <2>1 DEF Stored
    <2>2. CASE m \notin Flying
      <3>1. Phase(p) = "append" /\ m.sent = Known(p)
        BY <1>7, <1>8, <2>2
      <3> QED
        BY <1>1, <1>2, <3>1, PostedStored
    <2> QED
      BY <2>1, <2>2
  <1>10. Stored'
    BY <1>2, <1>9 DEF Stored
  <1>11. Noticed'
    <2> SUFFICES ASSUME NEW m \in Flying', NEW v \in Views, m.from = Writer, ViewProc[v] # Writer,
                        view[v].refs > 0, Fresh(view[v].seen)
                 PROVE  Caught(v, m)
      BY <1>2 DEF Noticed, Caught, Fresh
    <2>1. CASE m \in Flying
      BY <1>1, <2>1 DEF Noticed
    <2>2. CASE m \notin Flying
      <3>1. Phase(p) = "append" /\ p = Writer
        BY <1>7, <1>8, <2>2
      <3>2. InStep /\ W.at \notin Writing
        BY <1>2, <3>1, PlaceNames DEF Stuck, W
      <3>3. Top = file.version /\ view[v].seen <= Top
        BY <3>2 DEF Top, Writing, InStep, Versions
      <3>4. view[v].seen \in Nat /\ file.version \in Nat /\ ViewCells[v] \subseteq Cells
            /\ \A c \in Cells : file.bytes[c] \in Nat
        BY <1>1, DataTypes DEF DataNumbers
      <3>5. view[v].seen = file.version
        BY <3>3, <3>4 DEF Fresh
      <3>6. view[v].mem = Shown(v)
        BY <3>2, <3>5 DEF InStep, Current, Readers, Writing
      <3>7. ASSUME NEW c \in ViewCells[v] PROVE view[v].mem[c] >= m.sent[c]
        <4>1. c \in Cells /\ view[v].mem[c] = file.bytes[c]
          BY <3>4, <3>6 DEF Shown
        <4>2. m.sent[c] <= file.bytes[c]
          BY <1>9, <4>1
        <4> QED
          BY <4>1, <4>2
      <3> QED
        BY <3>7 DEF Caught
    <2> QED
      BY <2>1, <2>2
  <1>12. \/ Rest(p)' = Mapped(p)
         \/ /\ Phase(p)' \in Taking =>
                 Phase(p) \in Taking /\ ToSet(local'[p].call.copy) \subseteq ToSet(InCall(p).copy)
            /\ Phase(p)' \in Posting => Phase(p) \in Posting
    <2>1. ASSUME NEW next \in Thens, job' = SyncMapped(p, next) PROVE Rest(p)' = Mapped(p)
      BY <1>1, <2>1, SyncMappedRest DEF Rest
    <2> QED
      BY <1>3, <2>1 DEF CallData
  <1>13. ASSUME NEW q \in Procs \ {Writer} PROVE Synced(q)'
    <2>1. CASE q # p
      BY <1>1, <1>2, <1>4, <1>5, <2>1 DEF Synced, Caught
    <2>2. CASE q = p
      <3> SUFFICES ASSUME Phase(p)' \in Taking, NEW m \in ToSet(local'[p].call.copy),
                          NEW v \in Mapped(p) \ Rest(p)', m.from = Writer
                   PROVE  view[v].seen = 0 \/ Caught(v, m)
        BY <1>2, <1>4, <2>2 DEF Synced, Caught, InCall
      <3>1. Phase(p) \in Taking /\ m \in ToSet(InCall(p).copy) /\ v \in Mapped(p) \ Rest(p)
        BY <1>2, <1>12
      <3> QED
        BY <1>1, <2>2, <3>1 DEF Synced
    <2> QED
      BY <2>1, <2>2
  <1>14. Ready'
    <2>1. CASE p # Writer
      BY <1>1, <1>2, <1>4, <1>5, <2>1 DEF Ready, Shown
    <2>2. CASE p = Writer
      <3>1. \A v \in Views : (Shown(v))' = Shown(v)
        BY <1>2 DEF Shown
      <3> SUFFICES ASSUME Phase(p)' \in Posting, NEW v \in Mapped(p) \ Rest(p)'
                   PROVE  view[v].mem = Shown(v)
        BY <1>2, <1>4, <2>2, <3>1 DEF Ready, Mapped
      <3>2. Phase(p) \in Posting /\ v \in Mapped(p) \ Rest(p)
        BY <1>2, <1>12
      <3> QED
        BY <1>1, <2>2, <3>2 DEF Ready
    <2> QED
      BY <2>1, <2>2
  <1>15. PostedDataSeen'
    <2>1. CASE inbox' = inbox
      BY <2>1 DEF PostedDataSeen
    <2>2. CASE inbox' # inbox
      <3> DEFINE d == Arrival(p, FirstMessage(p))
      <3>1. /\ Phase(p) \in Taking /\ ~NoneFor(InCall(p).copy, p)
            /\ inbox' = [inbox EXCEPT ![p] = Append(inbox[p], d)]
        BY <1>3, <2>2 DEF CallData
      <3>2. inbox \in [Procs -> Seq(Delivery)]
        BY <1>1 DEF BrokerTypes
      <3>3. d.from = FirstMessage(p).from /\ d.sent = FirstMessage(p).sent /\ d.got = Showing(p)
            /\ d.torn = Torn(p)
        BY DEF Arrival
      <3>4. Writer \in {p, d.from} /\ ~d.torn => \A c \in Cells : d.got[c] >= d.sent[c]
        BY <1>2, <3>1, <3>3, TakenSeen
      <3> HIDE DEF d
      <3> SUFFICES ASSUME NEW q \in Procs, NEW i \in DOMAIN inbox'[q],
                          Writer \in {q, inbox'[q][i].from}, ~inbox'[q][i].torn, NEW c \in Cells
                   PROVE  inbox'[q][i].got[c] >= inbox'[q][i].sent[c]
        BY DEF PostedDataSeen
      <3>5. CASE q # p
        <4>1. inbox'[q] = inbox[q]
          BY <3>1, <3>2, <3>5
        <4> QED
          BY <4>1 DEF PostedDataSeen
      <3>6. CASE q = p
        <4> DEFINE box == inbox[p]
                   n == Len(box)
        <4>1. box \in Seq(Delivery) /\ n \in Nat /\ DOMAIN box = 1 .. n
          BY <3>2, LenProperties
        <4>2. inbox'[p] = Append(box, d)
          BY <3>1, <3>2
        <4>3. /\ DOMAIN inbox'[p] = 1 .. n + 1 /\ inbox'[p][n + 1] = d
              /\ \A k \in 1 .. n : inbox'[p][k] = box[k]
          BY <4>1, <4>2
        <4>4. CASE i = n + 1
          BY <3>4, <3>6, <4>3, <4>4
        <4>5. CASE i # n + 1
          <5>1. i \in 1 .. n
            BY <3>6, <4>1, <4>3, <4>5
          <5>2. inbox'[q][i] = inbox[q][i] /\ i \in DOMAIN inbox[q]
            BY <3>6, <4>1, <4>3, <5>1
          <5> QED
            BY <5>2 DEF PostedDataSeen
        <4> QED
          BY <4>4, <4>5
      <3> QED
        BY <3>5, <3>6
    <2> QED
      BY <2>1, <2>2
  <1> QED
    BY <1>6, <1>10, <1>11, <1>13, <1>14, <1>15 DEF DataInv

-----------------------------------------------------------------------------
(* Where p is, and that it is not to write, after it moved.                 *)
Onward(p) ==
  /\ \A q \in Procs \ {p} : job'[q] = job[q]
  /\ job'[p].at \in Elsewhere \cup {"sync", "load"} /\ ~job'[p].force

(* Where a synchronisation begins; it may have no view to begin with.       *)
LEMMA SyncThenAt ==
  ASSUME job \in [Procs -> JobRec], NEW p \in Procs, NEW vs, NEW force, NEW next
  PROVE  /\ \A q \in Procs \ {p} : SyncThen(p, vs, force, next)[q] = job[q]
         /\ SyncThen(p, vs, force, next)[p].at \in {next, "sync"}
  BY DEF SyncThen, JobRec

(* To the next place, to the next view, or to its views.                    *)
LEMMA OnwardStep ==
  ASSUME job \in [Procs -> JobRec], NEW p \in Procs, ~job[p].force,
         \/ job' = job /\ job[p].at \in Elsewhere
         \/ \E x \in Elsewhere : job' = Goto(p, x)
         \/ \E vs \in SUBSET Views, next \in Thens : job' = SyncThen(p, vs, FALSE, next)
         \/ job' = [job EXCEPT ![p] = Idle]
         \/ job' = [job EXCEPT ![p].at = "load", ![p].ver = file.version]
         \/ job' = NextView(p) /\ Len(job[p].todo) > 0
  PROVE  Onward(p)
  <1>1. CASE job' = job /\ job[p].at \in Elsewhere
    BY <1>1 DEF Onward
  <1>2. ASSUME NEW x \in Elsewhere, job' = Goto(p, x) PROVE Onward(p)
    <2>1. x \in Ats
      BY DEF Elsewhere
    <2> QED
      BY <1>2, <2>1, GotoJob, GotoLocals DEF Onward
  <1>3. ASSUME NEW vs \in SUBSET Views, NEW next \in Thens, job' = SyncThen(p, vs, FALSE, next)
        PROVE  Onward(p)
    <2> DEFINE no == FALSE
    <2>1. /\ job' = SyncThen(p, vs, no, next) /\ no \in Flags /\ ~no /\ next \in Elsewhere
          /\ vs \subseteq Views
      BY <1>3, PlaceNames DEF Flags
    <2> HIDE DEF no
    <2>2. /\ \A q \in Procs \ {p} : job'[q] = job[q]
          /\ job'[p].at \in {next, "sync"}
      BY <2>1, SyncThenAt
    <2>3. job'[p].force = no
      BY <2>1, SyncThenForce
    <2> QED
      BY <2>1, <2>2, <2>3 DEF Onward
  <1>4. CASE job' = [job EXCEPT ![p] = Idle]
    <2>1. Idle.at = "idle" /\ ~Idle.force /\ "idle" \in Elsewhere
      BY PlaceNames DEF Idle, Thens
    <2>2. job'[p] = Idle /\ \A q \in Procs \ {p} : job'[q] = job[q]
      BY <1>4
    <2> QED
      BY <2>1, <2>2 DEF Onward
  <1>5. CASE job' = [job EXCEPT ![p].at = "load", ![p].ver = file.version]
    <2>1. /\ job'[p].at = "load" /\ job'[p].force = job[p].force
          /\ \A q \in Procs \ {p} : job'[q] = job[q]
      BY <1>5 DEF JobRec
    <2> QED
      BY <2>1 DEF Onward
  <1>6. CASE job' = NextView(p) /\ Len(job[p].todo) > 0
    <2>1. /\ \A q \in Procs \ {p} : job'[q] = job[q]
          /\ job'[p].at \in {"sync", job[p].then}
      BY <1>6, NextViewJob
    <2>2. job'[p].force \in {FALSE, job[p].force}
      BY <1>6, NextViewLocals
    <2>3. job[p].then \in Elsewhere
      BY PlaceNames DEF JobRec
    <2> QED
      BY <2>1, <2>2, <2>3 DEF Onward
  <1> QED
    BY <1>1, <1>2, <1>3, <1>4, <1>5, <1>6

(* Where Writer died while it wrote the others read on.                     *)
LEMMA StillOnward ==
  ASSUME Still, Stuck, NEW p \in Procs \ {Writer}, Onward(p), UNCHANGED calls, ~Does("solo"),
         \A v \in Views : ViewProc[v] # Writer => view'[v].mem = view'[v].shadow
  PROVE  Still'
  <1>1. Writer \in Procs /\ W.at \in Writing
    BY MappingAssumption DEF Stuck
  <1>2. \A q \in Procs \ {Writer} : job[q].at \notin Lonely
    BY <1>1 DEF Still, Apart, W
  <1>3. /\ job'[p].at \notin Writing \cup Lonely /\ Writing \cap Lonely = {}
        /\ \A q \in Procs \ {p} : job'[q] = job[q]
        /\ ~job'[p].force
    BY PlaceNames DEF Onward
  <1>4. \A q \in Procs \ {Writer} : job'[q].at \notin Writing /\ ~job'[q].force
    BY <1>3 DEF Still, Readers
  <1>5. ~Does("solo")'
    BY DEF Does
  <1>6. Readers'
    BY <1>4, <1>5 DEF Readers, Writing
  <1>7. \A q \in Procs : job'[q].at \notin Lonely
    <2>1. W' = W
      BY <1>1, <1>3 DEF W
    <2> QED
      BY <1>1, <1>2, <1>3, <2>1 DEF W
  <1>8. Apart'
    BY <1>7 DEF Apart, Lonely
  <1> QED
    BY <1>6, <1>8 DEF Still

(* ... when they use the mapping,                                           *)
LEMMA StillMap ==
  ASSUME BInv, Plain, Still, Stuck, NEW p \in Procs, MapPart(p), UNCHANGED calls
  PROVE  Still'
  <1>1. /\ MInv /\ Alive(p) /\ p # Writer /\ Writer \in Procs /\ W.at \in Writing
        /\ job \in [Procs -> JobRec] /\ view \in [Views -> ViewRec] /\ Readers
        /\ Does("createRace") = FALSE /\ Does("mapRace") = FALSE /\ ~MayWrite(p)
        /\ ~job[p].force /\ TodoInv(p)
    BY MappingAssumption DEF BInv, MInv, MapTypes, MapPart, Stuck, Still, Readers, Plain, NoRace,
       MayWrite
  <1>2. job[p].at \notin Lonely
    BY <1>1 DEF Still, Apart, W
  <1>3. CASE SyncStep(p)
    <2>1. SyncCheck(p) \/ SyncRead(p)
      BY <1>1, <1>3, ReaderSync
    <2>2. /\ job[p].todo[1] \in Views /\ ViewProc[job[p].todo[1]] = p /\ Len(job[p].todo) > 0
          /\ job[p].at \in Syncing
      <3>1. job[p].at \in Syncing
        BY <2>1 DEF SyncCheck, SyncRead, At, Syncing
      <3> QED
        BY <1>1, <3>1, AtHand
    <2>3. ~Does("solo")
      BY <1>1, <2>1 DEF SyncCheck, SyncRead, At
    <2>4. Onward(p)
      <3>1. \/ job' = [job EXCEPT ![p].at = "load", ![p].ver = file.version]
            \/ job' = NextView(p)
        BY <2>1 DEF SyncCheck, SyncRead
      <3> QED
        BY <1>1, <2>2, <3>1, OnwardStep
    <2>5. \A v \in Views : ViewProc[v] # Writer => view'[v].mem = view'[v].shadow
      <3>1. CASE SyncCheck(p)
        BY <1>1, <3>1 DEF SyncCheck, Readers
      <3>2. CASE SyncRead(p)
        <4> DEFINE w == job[p].todo[1]
        <4>1. /\ view' = [view EXCEPT ![w].mem = Shown(w), ![w].shadow = Shown(w),
                                      ![w].seen = job[p].ver]
              /\ w \in Views
          BY <2>2, <3>2 DEF SyncRead
        <4> HIDE DEF w
        <4>2. view'[w].mem = view'[w].shadow /\ \A v \in Views \ {w} : view'[v] = view[v]
          BY <1>1, <4>1 DEF ViewRec
        <4> QED
          BY <1>1, <4>2 DEF Readers
      <3> QED
        BY <2>1, <3>1, <3>2
    <2> QED
      BY <1>1, <2>3, <2>4, <2>5, StillOnward
  <1>4. CASE MapStep(p)
    <2>1. ~Quiet(p)
      BY <1>1 DEF Quiet, W
    <2>2. ~(CreateVersion(p) \/ CreateDone(p) \/ MapVersion(p) \/ CreateFileMapping(p))
      BY <1>1, <1>2, <2>1 DEF CreateVersion, CreateDone, MapVersion, CreateFileMapping, At, Lonely
    <2>3. \A v \in Views : ~MapViewOfFile(p, v) /\ ~FlushViewOfFile(p, v)
      BY <1>1, <2>1 DEF MapViewOfFile, FlushViewOfFile
    <2>4. \A v \in Views, c \in Cells : ~GuestWrite(p, v, c)
      BY <1>1 DEF GuestWrite
    <2>5. {"idle", "unmap"} \subseteq Thens /\ "idle" \in Elsewhere
      BY PlaceNames DEF Thens
    <2> DEFINE Same == \A v \in Views : ViewProc[v] # Writer => view'[v].mem = view'[v].shadow
               Goal == ~Does("solo") /\ Onward(p) /\ Same
    <2>6. view' = view => Same
      BY <1>1 DEF Readers
    <2>7. ASSUME UnmapDone(p) PROVE Goal
      <3>1. /\ job' = [job EXCEPT ![p] = Idle] /\ ~Does("solo")
        BY <1>1, <2>7 DEF UnmapDone, At
      <3>2. PICK w : w = job[p].arg
        OBVIOUS
      <3>3. view' = [view EXCEPT ![w] = IF view[w].refs > 1
                       THEN [view[w] EXCEPT !.refs = view[w].refs - 1] ELSE Unmapped]
        BY <2>7, <3>2 DEF UnmapDone
      <3>4. \A v \in Views : \/ view'[v] = view[v] \/ view'[v] = Unmapped
                             \/ view'[v] = [view[v] EXCEPT !.refs = view[v].refs - 1]
        BY <1>1, <3>3
      <3>5. Unmapped.mem = Unmapped.shadow
        BY DEF Unmapped
      <3>6. \A v \in Views : LET r == [view[v] EXCEPT !.refs = view[v].refs - 1]
                             IN r.mem = view[v].mem /\ r.shadow = view[v].shadow
        BY <1>1 DEF ViewRec
      <3>7. Same
        BY <1>1, <3>4, <3>5, <3>6 DEF Readers
      <3>8. Onward(p)
        BY <1>1, <3>1, OnwardStep
      <3> QED
        BY <3>1, <3>7, <3>8
    <2>8. ASSUME CloseMapping(p) PROVE Goal
      <3>1. job' = job /\ view' = view /\ job[p].at \in Elsewhere /\ ~Does("solo")
        BY <1>1, <2>5, <2>8 DEF CloseMapping, At
      <3>2. Onward(p)
        BY <1>1, <3>1, OnwardStep
      <3> QED
        BY <2>6, <3>1, <3>2
    <2>9. ASSUME SyncNamedMappedViews(p) PROVE Goal
      <3>1. /\ job' = SyncThen(p, Mapped(p), FALSE, "idle") /\ view' = view /\ ~Does("solo")
            /\ Mapped(p) \in SUBSET Views
        BY <1>1, <2>9 DEF SyncNamedMappedViews, At, Mapped
      <3>2. Onward(p)
        BY <1>1, <2>5, <3>1, OnwardStep
      <3> QED
        BY <2>6, <3>1, <3>2
    <2>10. ASSUME NEW w \in Views, MapAgain(p, w) PROVE Goal
      <3>1. /\ job' = SyncThen(p, {w}, FALSE, "idle") /\ ~Does("solo")
            /\ view' = [view EXCEPT ![w].refs = view[w].refs + 1] /\ {w} \in SUBSET Views
        BY <1>1, <2>10 DEF MapAgain, At
      <3>2. Onward(p)
        BY <1>1, <2>5, <3>1, OnwardStep
      <3>3. \A v \in Views : view'[v].mem = view[v].mem /\ view'[v].shadow = view[v].shadow
        BY <1>1, <3>1 DEF ViewRec
      <3>4. Same
        BY <1>1, <3>3 DEF Readers
      <3> QED
        BY <3>1, <3>2, <3>4
    <2>11. ASSUME NEW w \in Views, UnmapViewOfFile(p, w) PROVE Goal
      <3> DEFINE no == FALSE
                 vs == {w}
                 j == SyncThen(p, vs, no, "unmap")
      <3>1. /\ job' = [j EXCEPT ![p].arg = w] /\ view' = view /\ ~Does("solo")
            /\ vs \subseteq Views /\ no \in Flags /\ ~no /\ "unmap" \in Thens
            /\ "unmap" \in Elsewhere
        BY <1>1, <2>5, <2>11, PlaceNames DEF UnmapViewOfFile, At, Flags
      <3> HIDE DEF no, vs
      <3>2. /\ \A q \in Procs \ {p} : job'[q] = job[q]
            /\ job'[p].at = j[p].at /\ job'[p].force = j[p].force
        BY <1>1, <3>1, SyncThenArg
      <3>3. j[p].force = no
        BY <1>1, SyncThenForce
      <3>4. j[p].at \in {"unmap", "sync"}
        BY <1>1, SyncThenAt
      <3>5. Onward(p)
        BY <3>1, <3>2, <3>3, <3>4 DEF Onward
      <3> QED
        BY <2>6, <3>1, <3>5
    <2>12. Goal
      BY <1>4, <2>2, <2>3, <2>4, <2>7, <2>8, <2>9, <2>10, <2>11 DEF MapStep
    <2> QED
      BY <1>1, <2>12, StillOnward
  <1> QED
    BY <1>3, <1>4 DEF MapPart

(* ... when they call the broker, and when they die.                        *)
LEMMA StillCall ==
  ASSUME BInv, Plain, Still, Stuck, NEW p \in Procs, BrokerStep(p) \/ Crash(p), UNCHANGED calls
  PROVE  Still'
  <1>1. /\ MInv /\ Writer \in Procs /\ job \in [Procs -> JobRec] /\ view \in [Views -> ViewRec]
        /\ Readers
    BY MappingAssumption DEF BInv, MInv, MapTypes, Still
  <1>2. Alive(p) /\ p # Writer
    <2>1. Alive(p)
      BY BrokerStepMoves DEF Crash
    <2> QED
      BY <2>1 DEF Stuck
  <1>3. ~job[p].force /\ job[p].at \notin Writing
    BY <1>1, <1>2 DEF Readers
  <1>4. CASE BrokerStep(p)
    <2>1. /\ UNCHANGED view /\ ~Does("solo") /\ job[p].at \in Elsewhere
          /\ \/ job' = job
             \/ \E x \in Elsewhere : job' = Goto(p, x)
             \/ \E next \in Thens : job' = SyncThen(p, Mapped(p), FALSE, next)
      BY <1>2, <1>4, BrokerStepMoves
    <2>2. Mapped(p) \in SUBSET Views
      BY DEF Mapped
    <2>3. Onward(p)
      BY <1>1, <1>3, <2>1, <2>2, OnwardStep
    <2> QED
      BY <1>1, <1>2, <2>1, <2>3, StillOnward DEF Readers
  <1>5. CASE Crash(p)
    <2> DEFINE j == [Idle EXCEPT !.at = IF job[p].at \in Writing THEN job[p].at ELSE "idle"]
    <2>1. job' = [job EXCEPT ![p] = j]
      BY <1>5 DEF Crash
    <2>2. j = Idle
      BY <1>3 DEF Idle
    <2> HIDE DEF j
    <2>3. Onward(p)
      BY <1>1, <1>3, <2>1, <2>2, OnwardStep
    <2>4. \A v \in Views : ViewProc[v] # Writer => view'[v].mem = view'[v].shadow
      <3>1. \A v \in Views : view'[v] = view[v] \/ view'[v] = Unmapped
        BY <1>5 DEF Crash
      <3>2. Unmapped.mem = Unmapped.shadow
        BY DEF Unmapped
      <3> QED
        BY <1>1, <3>1, <3>2 DEF Readers
    <2>5. CASE ~Does("solo")
      BY <1>1, <1>2, <2>3, <2>4, <2>5, StillOnward
    <2>6. CASE Does("solo")
      <3>1. job[p].at = "idle" /\ Idle.at = "idle" /\ ~Idle.force
        BY <1>1, <1>2, <2>6 DEF Readers, Idle
      <3>2. job'[p] = Idle /\ \A q \in Procs \ {p} : job'[q] = job[q]
        BY <1>1, <2>1, <2>2
      <3>3. Does("solo")'
        BY <2>6 DEF Does
      <3>4. Readers'
        <4>1. \A q \in Procs \ {Writer} : job'[q].at = "idle" /\ ~job'[q].force
          BY <1>1, <2>6, <3>1, <3>2 DEF Readers
        <4> QED
          BY <2>4, <3>3, <4>1 DEF Readers, Writing
      <3>5. \A q \in Procs : job'[q].at = job[q].at
        BY <3>1, <3>2
      <3>6. Apart'
        BY <3>5 DEF Still, Apart, Writing, Lonely
      <3> QED
        BY <3>4, <3>6 DEF Still
    <2> QED
      BY <2>5, <2>6
  <1> QED
    BY <1>4, <1>5

-----------------------------------------------------------------------------
(* A process that dies takes its views and its copy with it.                *)
LEMMA CrashKeepsData ==
  ASSUME BInv, BInv', Still, DataInv, NEW p \in Procs, Crash(p)
  PROVE  DataInv' /\ UNCHANGED inbox
  <1> DEFINE at == IF job[p].at \in Writing THEN job[p].at ELSE "idle"
             j == [Idle EXCEPT !.at = at]
             r == [local[p] EXCEPT !.alive = FALSE, !.call = NoCall]
  <1>1. /\ MInv /\ MInv' /\ BrokerTypes /\ Growth /\ Stored /\ Noticed /\ Ready /\ Readers
        /\ job \in [Procs -> JobRec] /\ local \in [Procs -> LocalRec] /\ Writer \in Procs
        /\ \A q \in Procs \ {Writer} : Synced(q)
    BY MappingAssumption DEF BInv, BrokerTypes, MInv, MapTypes, DataInv, Still
  <1>2. /\ job' = [job EXCEPT ![p] = j] /\ local' = [local EXCEPT ![p] = r] /\ Alive(p)
        /\ \A v \in Views : view'[v] = IF ViewProc[v] = p THEN Unmapped ELSE view[v]
        /\ UNCHANGED file /\ UNCHANGED writes /\ UNCHANGED queue /\ UNCHANGED inbox
    BY DEF Crash
  <1>3. j.at = at /\ j.then = "idle"
    BY DEF Idle
  <1>4. ~r.alive /\ r.call = NoCall /\ NoCall.copy = << >>
    BY <1>1 DEF LocalRec, NoCall
  <1> HIDE DEF at, j, r
  <1>5. /\ job'[p] = j /\ local'[p] = r
        /\ \A q \in Procs \ {p} : job'[q] = job[q] /\ local'[q] = local[q]
    BY <1>1, <1>2
  <1>6. Phase(p)' = "idle"
    <2>1. at = "idle" \/ at \in Syncing
      BY PhaseNames DEF at
    <2>2. job'[p].at = at /\ job'[p].then = "idle"
      BY <1>3, <1>5
    <2> QED
      BY <2>1, <2>2 DEF Phase, Syncing
  <1>7. \A v \in Views : view'[v].refs > 0 => view'[v] = view[v] /\ ViewProc[v] # p
    BY <1>2 DEF Unmapped
  <1>8. \A q \in Procs \ {p} : /\ Phase(q)' = Phase(q) /\ Rest(q)' = Rest(q)
                              /\ InCall(q)' = InCall(q) /\ Mapped(q)' = Mapped(q)
    <2>1. \A q \in Procs \ {p} : Mapped(q)' = Mapped(q)
      BY <1>2 DEF Mapped
    <2> QED
      BY <1>5, <2>1 DEF Phase, Rest, InCall
  <1>9. Flying' \subseteq Flying
    <2>1. ToSet(queue'.messages) \subseteq Flying
      BY <1>1, <1>2, FlyingTypes
    <2>2. << >> \in Seq(Message)
      BY EmptySeq
    <2>3. ToSet(local'[p].call.copy) \subseteq Flying
      BY <1>4, <1>5, <2>2, ToSetSeq
    <2>4. Flying' \subseteq Flying \cup {}
      BY <1>5, <2>1, <2>3, FlyingStep
    <2> QED
      BY <2>4
  <1>10. \A n \in Nat : Fresh(n)' => Fresh(n)
    <2>1. CASE p = Writer /\ W.at \in Writing
      <3>1. Stuck'
        BY <1>3, <1>4, <1>5, <2>1 DEF Stuck, W, Alive, at, Writing
      <3> QED
        BY <1>2, <3>1 DEF Fresh
    <2>2. CASE p = Writer /\ W.at \notin Writing
      <3>1. W'.at = "idle"
        BY <1>3, <1>5, <2>2 DEF W, at
      <3>2. Top = file.version /\ Top' = file.version /\ ~Stuck
        BY <1>2, <2>2, <3>1 DEF Top, Writing, Stuck
      <3> QED
        BY <1>2, <3>2 DEF Fresh
    <2>3. CASE p # Writer
      <3>1. W' = W /\ (Alive(Writer)' <=> Alive(Writer))
        BY <1>1, <1>5, <2>3 DEF W, Alive
      <3>2. Top' = Top /\ (Stuck' <=> Stuck)
        BY <1>2, <3>1 DEF Top, Stuck, Writing
      <3> QED
        BY <1>2, <3>2 DEF Fresh
    <2> QED
      BY <2>1, <2>2, <2>3
  <1>11. Growth'
    BY <1>1, <1>2, <1>7 DEF Growth
  <1>12. Stored'
    BY <1>1, <1>2, <1>9 DEF Stored
  <1>13. Noticed'
    <2> SUFFICES ASSUME NEW m \in Flying', NEW v \in Views, m.from = Writer, ViewProc[v] # Writer,
                        view'[v].refs > 0, Fresh(view[v].seen)'
                 PROVE  Caught(v, m)'
      BY DEF Noticed
    <2>1. PICK n \in Nat : n = view[v].seen
      BY <1>1, DataTypes DEF DataNumbers
    <2>2. view'[v] = view[v] /\ m \in Flying
      BY <1>7, <1>9
    <2>3. Fresh(n)
      <3>1. Fresh(n)'
        BY <2>1, <2>2 DEF Fresh
      <3> QED
        BY <1>10, <3>1
    <2>4. Caught(v, m)
      BY <1>1, <2>1, <2>2, <2>3 DEF Noticed
    <2> QED
      BY <2>2, <2>4 DEF Caught
  <1>14. ASSUME NEW q \in Procs \ {Writer} PROVE Synced(q)'
    <2>1. CASE q = p
      BY <1>6, <2>1 DEF Synced, Taking
    <2>2. CASE q # p
      <3>1. \A v \in Mapped(q) : view'[v] = view[v]
        BY <1>2, <2>2 DEF Mapped
      <3> QED
        BY <1>1, <1>8, <2>2, <3>1 DEF Synced, Caught
    <2> QED
      BY <2>1, <2>2
  <1>15. Ready'
    <2>1. CASE p = Writer
      BY <1>6, <2>1 DEF Ready, Posting
    <2>2. CASE p # Writer
      <3>1. \A v \in Mapped(Writer) : view'[v] = view[v]
        BY <1>2, <2>2 DEF Mapped
      <3>2. \A v \in Views : (Shown(v))' = Shown(v)
        BY <1>2 DEF Shown
      <3>3. /\ Phase(Writer)' = Phase(Writer) /\ Rest(Writer)' = Rest(Writer)
            /\ Mapped(Writer)' = Mapped(Writer) /\ \A v \in Mapped(Writer) : v \in Views
        BY <1>1, <1>8, <2>2 DEF Mapped
      <3> QED
        BY <1>1, <3>1, <3>2, <3>3 DEF Ready
    <2> QED
      BY <2>1, <2>2
  <1> QED
    BY <1>2, <1>11, <1>12, <1>13, <1>14, <1>15 DEF DataInv

(* Every step leaves the others reading.                                    *)
LEMMA StillStep ==
  ASSUME BInv, BInv', VInv, VInv', Plain, Still, UNCHANGED calls, NEW p \in Procs,
         MapPart(p) \/ BrokerStep(p) \/ Crash(p)
  PROVE  Still'
  <1>1. NoRace /\ NoRace'
    BY DEF Plain, NoRace, Does
  <1>2. CASE ~Stuck'
    <2>1. InStep'
      BY <1>1, <1>2 DEF VInv
    <2> QED
      BY <2>1 DEF InStep, Still
  <1>3. CASE Stuck
    BY <1>3, StillMap, StillCall
  <1>4. CASE Stuck' /\ ~Stuck
    <2>1. job \in [Procs -> JobRec] /\ local \in [Procs -> LocalRec] /\ MInv /\ Writer \in Procs
      BY MappingAssumption DEF BInv, BrokerTypes, MInv, MapTypes
    <2>2. ~Alive(Writer)' /\ W'.at \in Writing
      BY <1>4 DEF Stuck, Writing
    <2>3. ~MapPart(p) /\ ~BrokerStep(p)
      <3> SUFFICES ASSUME MapPart(p) \/ BrokerStep(p) PROVE FALSE
        OBVIOUS
      <3>1. Alive(p) /\ (Alive(Writer)' <=> Alive(Writer))
        <4>1. CASE MapPart(p)
          BY <4>1 DEF MapPart, brokerVars, Alive
        <4>2. CASE BrokerStep(p)
          BY <2>1, <4>2, BrokerStepMoves
        <4> QED
          BY <4>1, <4>2
      <3>2. p # Writer
        BY <2>2, <3>1
      <3>3. job'[Writer] = job[Writer]
        <4>1. CASE MapPart(p)
          BY <2>1, <3>2, <4>1, MapMovesOne DEF MapPart
        <4>2. CASE BrokerStep(p)
          BY <2>1, <3>2, <4>2, CallFresh
        <4> QED
          BY <4>1, <4>2
      <3> QED
        BY <1>4, <2>2, <3>1, <3>3 DEF Stuck, W
    <2>4. Crash(p)
      BY <2>3
    <2> DEFINE at == IF job[p].at \in Writing THEN job[p].at ELSE "idle"
               j == [Idle EXCEPT !.at = at]
               r == [local[p] EXCEPT !.alive = FALSE, !.call = NoCall]
    <2>5. /\ job' = [job EXCEPT ![p] = j] /\ local' = [local EXCEPT ![p] = r]
          /\ \A v \in Views : view'[v] = IF ViewProc[v] = p THEN Unmapped ELSE view[v]
      BY <2>4 DEF Crash
    <2>6. j.at = at
      BY DEF Idle
    <2> HIDE DEF at, j, r
    <2>7. job'[p] = j /\ \A q \in Procs \ {p} : job'[q] = job[q] /\ local'[q] = local[q]
      BY <2>1, <2>5
    <2>8. p = Writer
      <3> SUFFICES ASSUME p # Writer PROVE FALSE
        OBVIOUS
      <3> QED
        BY <1>4, <2>1, <2>2, <2>7 DEF Stuck, W, Alive
    <2>9. job[p].at \in Writing /\ job'[p].at = job[p].at
      BY <2>2, <2>6, <2>7, <2>8 DEF W, at, Writing
    <2>10. \A q \in Procs : job'[q].at = job[q].at
      BY <2>7, <2>9
    <2>11. Readers'
      <3>1. \A v \in Views : ViewProc[v] # Writer => view'[v] = view[v]
        BY <2>5, <2>8
      <3>2. \A q \in Procs \ {Writer} : job'[q] = job[q]
        BY <2>7, <2>8
      <3> QED
        BY <3>1, <3>2 DEF Still, Readers, Does, Writing
    <2>12. Apart'
      BY <2>10 DEF Still, Apart, Writing, Lonely
    <2> QED
      BY <2>11, <2>12 DEF Still
  <1> QED
    BY <1>2, <1>3, <1>4

(* At first nothing is stored and nothing posted.                           *)
LEMMA InitData ==
  ASSUME Init, BInv
  PROVE  DInv
  <1>1. /\ \A p \in Procs : job[p] = Idle /\ InCall(p) = NoCall /\ inbox[p] = << >>
        /\ writes = 0 /\ queue.messages = << >> /\ Idle.at = "idle" /\ NoCall.copy = << >>
        /\ Writer \in Procs
    BY MappingAssumption DEF Init, Idle, InCall, NoCall
  <1>2. Still
    BY InitVersions DEF InStep, Still
  <1>3. Flying = {} /\ DOMAIN << >> = {}
    <2>1. << >> \in Seq(Message)
      BY EmptySeq
    <2>2. ToSet(<< >>) = {}
      BY <2>1, ToSetSeq
    <2>3. DOMAIN << >> = 1 .. Len(<< >>) /\ Len(<< >>) = 0
      BY <2>1, LenProperties, EmptySeq
    <2> QED
      BY <1>1, <2>2, <2>3 DEF Flying
  <1>4. \A p \in Procs : Phase(p) = "idle"
    BY <1>1 DEF Phase, Syncing
  <1>5. Growth
    <2>1. file = NoFile \/ file = NewFile
      BY DEF Init
    <2>2. NoFile.bytes = [c \in Cells |-> 0] /\ NewFile.bytes = [c \in Cells |-> 0]
      BY DEF NoFile, NewFile
    <2>3. \A c \in Cells : file.bytes[c] = 0
      BY <2>1, <2>2
    <2>4. \A v \in Views : view[v] = Unmapped \/ view[v] = Loaded(v)
      BY DEF Init
    <2>5. \A v \in Views : view[v].refs > 0 => \A c \in ViewCells[v] : view[v].mem[c] = 0
      <3>1. ~(Unmapped.refs > 0)
        BY DEF Unmapped
      <3>2. \A v \in Views : \A c \in ViewCells[v] : Loaded(v).mem[c] = 0
        BY DEF Loaded
      <3> QED
        BY <2>4, <3>1, <3>2
    <2>6. \A v \in Views : ViewCells[v] \subseteq Cells
      BY MappingAssumption
    <2> QED
      BY <1>1, <2>3, <2>5, <2>6 DEF Growth
  <1>6. Stored /\ Noticed
    BY <1>3 DEF Stored, Noticed
  <1>7. Ready /\ \A p \in Procs : Synced(p)
    BY <1>1, <1>4 DEF Ready, Synced, Posting, Taking
  <1>8. PostedDataSeen
    BY <1>1, <1>3 DEF PostedDataSeen
  <1> QED
    BY <1>2, <1>5, <1>6, <1>7, <1>8 DEF DInv, DataInv

(* Every step keeps DInv.                                                   *)
LEMMA NextData ==
  ASSUME BInv, BInv', VInv, VInv', DInv, [Next]_<<vars, calls>>
  PROVE  DInv'
  <1> SUFFICES ASSUME Plain', Separate PROVE Still' /\ DataInv' /\ PostedDataSeen'
    BY DEF DInv, Separate
  <1>1. UNCHANGED calls
    BY DEF Next
  <1>2. Plain /\ NoRace
    BY <1>1 DEF Plain, NoRace, Does
  <1>3. Still /\ DataInv /\ PostedDataSeen /\ (Stuck \/ InStep)
    BY <1>2 DEF DInv, VInv
  <1>4. CASE UNCHANGED <<vars, calls>>
    <2>1. /\ UNCHANGED <<file, view, job, local, queue, inbox, writes>>
      BY <1>4 DEF vars, mapVars, brokerVars
    <2>2. /\ Flying' = Flying /\ W' = W /\ Top' = Top /\ (Stuck' <=> Stuck)
          /\ \A p : /\ Phase(p)' = Phase(p) /\ Rest(p)' = Rest(p) /\ Mapped(p)' = Mapped(p)
                    /\ InCall(p)' = InCall(p)
          /\ \A v \in Views : (Shown(v))' = Shown(v)
      BY <2>1 DEF Flying, InCall, W, Top, Stuck, Alive, Phase, Rest, Mapped, Shown, Writing
    <2>3. Still'
      BY <1>1, <1>3, <2>1 DEF Still, Readers, Apart, Does, Writing, Lonely
    <2>4. Growth' /\ Stored' /\ PostedDataSeen'
      BY <1>3, <2>1, <2>2 DEF DataInv, Growth, Stored, PostedDataSeen
    <2>5. Noticed'
      BY <1>3, <2>1, <2>2 DEF DataInv, Noticed, Fresh, Caught
    <2>6. \A p \in Procs \ {Writer} : Synced(p)'
      BY <1>3, <2>1, <2>2 DEF DataInv, Synced, Caught
    <2>7. Ready'
      <3>1. \A v \in Mapped(Writer) : v \in Views
        BY DEF Mapped
      <3> QED
        BY <1>3, <2>1, <2>2, <3>1 DEF DataInv, Ready
    <2> QED
      BY <2>3, <2>4, <2>5, <2>6, <2>7 DEF DataInv
  <1>5. ASSUME NEW p \in Procs, MapPart(p) \/ BrokerStep(p) \/ Crash(p)
        PROVE  Still' /\ DataInv' /\ PostedDataSeen'
    <2>1. Still'
      BY <1>1, <1>2, <1>3, <1>5, StillStep
    <2>2. UNCHANGED inbox => PostedDataSeen'
      BY <1>3 DEF PostedDataSeen
    <2>3. CASE MapPart(p)
      BY <1>2, <1>3, <2>1, <2>2, <2>3, MapKeepsData
    <2>4. CASE BrokerStep(p)
      BY <1>2, <1>3, <2>1, <2>4, BrokerKeepsData
    <2>5. CASE Crash(p)
      BY <1>3, <2>1, <2>2, <2>5, CrashKeepsData
    <2> QED
      BY <1>5, <2>3, <2>4, <2>5
  <1> QED
    BY <1>4, <1>5 DEF Next, BrokerStep

(* When a message from the process that stores is taken, or one for it, and *)
(* no view of the receiver is torn, its views show at least what the views  *)
(* of the sender showed when it was posted: whenever the races the code     *)
(* does nothing against are left out, views are larger than a stream's      *)
(* buffer, and the views that are stored into have no byte in common.       *)
THEOREM PostedBytesSeen == Spec => [](Plain /\ Separate => PostedDataSeen)
  <1>1. Init => BInv /\ VInv /\ DInv
    BY InitBroker, InitVersions, InitData DEF VInv
  <1>2. BInv /\ VInv /\ DInv /\ [Next]_<<vars, calls>> => BInv' /\ VInv' /\ DInv'
    BY NextBroker, NextVersions, NextData
  <1>3. DInv => (Plain /\ Separate => PostedDataSeen)
    BY DEF DInv
  <1> QED
    BY <1>1, <1>2, <1>3, PTL DEF Spec
=============================================================================

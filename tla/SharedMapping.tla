--------------------------- MODULE SharedMapping ---------------------------
(***************************************************************************)
(* Named file mappings shared by several emulator processes (CeIpc and     *)
(* src/src/coredll_mapping.cpp).  Every process keeps the bytes of a view  *)
(* in its own guest memory and remembers what it last exchanged with the   *)
(* backing file (the shadow) and the number it read from the version file  *)
(* then.  No lock protects either file: each access is a step of its own.  *)
(*                                                                         *)
(* One named mapping is modelled.  A view is a base address; its process   *)
(* and its bytes are constants.  Values stored by the guest are numbered,  *)
(* so that a larger one is a later one.                                    *)
(***************************************************************************)
EXTENDS Integers, Sequences, FiniteSets, TLC, SequencesExt

CONSTANTS
  Procs,        \* emulator processes
  Writer,       \* the one that stores into its views
  Views,        \* base addresses of views, a set of numbers
  ViewProc,     \* ViewProc[v]: the process that maps v
  ViewCells,    \* ViewCells[v]: the bytes v shows
  Cells,        \* bytes of the mapping
  MaxWrites,    \* bound: stores by guests
  MaxVersion    \* bound: the version file

VARIABLES
  file,      \* the backing file and its version file
  view,      \* GuestMappedView and the guest memory behind it
  job,       \* what each process is doing, and the locals of that call
  opened,    \* processes with a handle for the mapping
  writes,    \* stores so far
  calls      \* what this behaviour is limited to, see Does

mapVars == <<file, view, job, opened, writes>>

ASSUME MappingAssumption ==
  /\ Writer \in Procs /\ IsFiniteSet(Views) /\ Views \subseteq Nat
  /\ ViewProc \in [Views -> Procs] /\ ViewCells \in [Views -> SUBSET Cells]
  /\ MaxWrites \in Nat /\ MaxVersion \in Nat

(* A behaviour is limited to some calls.  Four of them are races that the   *)
(* code does nothing against: "writers", a process other than Writer stores *)
(* into its views; "mapRace", a view is mapped while another process writes *)
(* the file; "createRace", the mapping is created while another process     *)
(* uses it; "small", views are smaller than a stream's buffer, so that their *)
(* bytes reach the file when the stream is closed.  "solo" keeps the        *)
(* processes other than Writer from starting.                               *)
Does(c) == c \in calls

Vals == 0 .. MaxWrites
NoBytes == [c \in {} |-> 0]

(* A process outside any call.                                              *)
Idle == [at |-> "idle", todo |-> << >>, ver |-> 0, force |-> FALSE,
         then |-> "idle", arg |-> 0]

(* An unmapped view: refs 0.                                                *)
Unmapped == [refs |-> 0, mem |-> NoBytes, shadow |-> NoBytes, seen |-> 0]

(* The steps of a call that leave the two files out of step.                *)
Writing == {"bump", "trunc", "store", "close", "reread"}

(* Steps at which others wait unless the corresponding race is allowed.     *)
Alone == (IF Does("createRace") THEN {} ELSE {"created", "versioned"})
         \cup (IF Does("mapRace") THEN {} ELSE {"mapping"})

Free(p) == \A q \in Procs \ {p} : job[q].at \notin Alone

(* No other process is in the middle of a call that writes.                 *)
Quiet(p) == \A q \in Procs \ {p} : job[q].at \notin Writing \cup Alone

MayWrite(p) == p = Writer \/ Does("writers")

Mapped(p) == {v \in Views : ViewProc[v] = p /\ view[v].refs > 0}

(* The map of views is ordered by base address.                             *)
InBaseOrder(vs) ==
  CHOOSE s \in [1 .. Cardinality(vs) -> vs] : \A i, j \in DOMAIN s : i < j => s[i] < s[j]

(* file.bytes as a view shows them; what a whole-view write leaves.         *)
Shown(v) == [c \in ViewCells[v] |-> file.bytes[c]]

(* syncNamedMappedViews: every mapped view of p in turn, then `next'.       *)
SyncThen(p, vs, force, next) ==
  [job EXCEPT ![p].at = IF vs = {} THEN next ELSE "sync",
              ![p].todo = InBaseOrder(vs),
              ![p].force = force,
              ![p].then = next]

(* The view at hand is done.                                                *)
NextView(p) ==
  LET left == Tail(job[p].todo)
  IN [job EXCEPT ![p] =
        IF Len(job[p].todo) > 1
          THEN [@ EXCEPT !.at = "sync", !.todo = left, !.ver = 0]
          ELSE [@ EXCEPT !.at = job[p].then, !.todo = << >>, !.ver = 0, !.force = FALSE,
                         !.then = "idle"]]

At(p, step) == /\ job[p].at = step /\ Free(p)
               /\ p = Writer \/ ~Does("solo")
Goto(p, step) == [job EXCEPT ![p].at = step]

-----------------------------------------------------------------------------
(* ensureSharedMappingBacking: does the file exist?  If not it is created,  *)
(* filled with zeros; existed decides about the version file.               *)
CreateFileMapping(p) ==
  /\ At(p, "idle") /\ p \notin opened
  /\ Does("createRace") \/ Quiet(p)
  /\ job' = [job EXCEPT ![p].at = "created", ![p].arg = IF file.exists THEN 1 ELSE 0]
  /\ file' = [file EXCEPT !.exists = TRUE]
  /\ UNCHANGED <<view, opened, writes>>

(* Version 1 goes with a new file, or one that has no version yet.          *)
CreateVersion(p) ==
  /\ At(p, "created")
  /\ IF job[p].arg = 0 \/ ~file.versioned
       THEN /\ file' = [file EXCEPT !.version = 0, !.versioned = TRUE]
            /\ job' = [job EXCEPT ![p].at = "versioned"]
            /\ UNCHANGED opened
       ELSE /\ job' = [job EXCEPT ![p] = Idle]
            /\ opened' = opened \cup {p}
            /\ UNCHANGED file
  /\ UNCHANGED <<view, writes>>

CreateDone(p) ==
  /\ At(p, "versioned")
  /\ file' = [file EXCEPT !.version = 1]
  /\ job' = [job EXCEPT ![p] = Idle]
  /\ opened' = opened \cup {p}
  /\ UNCHANGED <<view, writes>>

(* Closing the handle leaves the mapping record while views remain.         *)
CloseMapping(p) ==
  /\ At(p, "idle") /\ p \in opened
  /\ opened' = opened \ {p}
  /\ UNCHANGED <<file, view, job, writes>>

-----------------------------------------------------------------------------
(* MapViewOfFile of a range that is mapped already counts a reference.      *)
MapAgain(p, v) ==
  /\ At(p, "idle") /\ p \in opened /\ v \in Mapped(p) /\ view[v].refs < 2
  /\ view' = [view EXCEPT ![v].refs = @ + 1]
  /\ job' = SyncThen(p, {v}, FALSE, "idle")
  /\ UNCHANGED <<file, opened, writes>>

(* Otherwise the bytes are read, and after them the version.                *)
MapViewOfFile(p, v) ==
  /\ At(p, "idle") /\ p \in opened /\ ViewProc[v] = p /\ view[v].refs = 0
  /\ Does("mapRace") \/ Quiet(p)
  /\ view' = [view EXCEPT ![v].mem = Shown(v), ![v].shadow = Shown(v)]
  /\ job' = [job EXCEPT ![p].at = "mapping", ![p].arg = v]
  /\ UNCHANGED <<file, opened, writes>>

MapVersion(p) ==
  /\ At(p, "mapping")
  /\ view' = [view EXCEPT ![job[p].arg].seen = file.version,
                          ![job[p].arg].refs = 1]
  /\ job' = [job EXCEPT ![p] = Idle]
  /\ UNCHANGED <<file, opened, writes>>

(* UnmapViewOfFile synchronises the view, and then lets go of a reference.  *)
UnmapViewOfFile(p, v) ==
  /\ At(p, "idle") /\ v \in Mapped(p)
  /\ job' = [SyncThen(p, {v}, FALSE, "unmap") EXCEPT ![p].arg = v]
  /\ UNCHANGED <<file, view, opened, writes>>

UnmapDone(p) ==
  /\ At(p, "unmap")
  /\ LET v == job[p].arg
     IN view' = [view EXCEPT ![v] = IF view[v].refs > 1
                                    THEN [@ EXCEPT !.refs = view[v].refs - 1] ELSE Unmapped]
  /\ job' = [job EXCEPT ![p] = Idle]
  /\ UNCHANGED <<file, opened, writes>>

(* FlushViewOfFile writes the view whether or not it changed.               *)
FlushViewOfFile(p, v) ==
  /\ At(p, "idle") /\ v \in Mapped(p) /\ MayWrite(p) /\ file.version < MaxVersion
  /\ job' = SyncThen(p, {v}, TRUE, "idle")
  /\ UNCHANGED <<file, view, opened, writes>>

(* A call at a boundary (Sleep, a wait, FindWindow, dispatching a message), *)
(* and the heartbeat of the host loop.                                      *)
SyncNamedMappedViews(p) ==
  /\ At(p, "idle") /\ Mapped(p) # {}
  /\ job' = SyncThen(p, Mapped(p), FALSE, "idle")
  /\ UNCHANGED <<file, view, opened, writes>>

-----------------------------------------------------------------------------
(* syncNamedMappedView: a view that differs from its shadow is written;     *)
(* else the version tells whether it must be read.                          *)
Changed(j) == \E v \in Views : j.todo[1] = v /\ (j.force \/ view[v].mem # view[v].shadow)

(* Mutant: the bytes are written after the version.                         *)
VersionFirst == FALSE

(* The bytes are in the file before the version is, unless they stay in the *)
(* stream's buffer.                                                         *)
BytesFirst == ~Does("small")

(* writeSharedMappingBytes writes the whole view.                           *)
WriteBytes(v) ==
  [file EXCEPT !.bytes = [c \in Cells |->
     IF c \in ViewCells[v] THEN view[v].mem[c] ELSE @[c]]]

SyncWrite(p) ==
  /\ At(p, "sync") /\ Changed(job[p])
  /\ file' = IF BytesFirst THEN WriteBytes(job[p].todo[1]) ELSE file
  /\ job' = Goto(p, "bump")
  /\ UNCHANGED <<view, opened, writes>>

(* Read the version and add one; truncate the version file; store it.       *)
BumpVersion(p) ==
  /\ At(p, "bump")
  /\ job' = [job EXCEPT ![p].at = "trunc", ![p].ver = file.version + 1]
  /\ UNCHANGED <<file, view, opened, writes>>

TruncateVersion(p) ==
  /\ At(p, "trunc")
  /\ file' = [file EXCEPT !.version = 0]
  /\ job' = Goto(p, "store")
  /\ UNCHANGED <<view, opened, writes>>

StoreVersion(p) ==
  /\ At(p, "store")
  /\ file' = [file EXCEPT !.version = job[p].ver]
  /\ job' = Goto(p, IF BytesFirst THEN "reread" ELSE "close")
  /\ UNCHANGED <<view, opened, writes>>

(* The destructor of the stream that holds the bytes.                       *)
CloseBytes(p) ==
  /\ At(p, "close")
  /\ file' = WriteBytes(job[p].todo[1])
  /\ job' = Goto(p, "reread")
  /\ UNCHANGED <<view, opened, writes>>

(* The shadow becomes what was written, and the version is read again.      *)
RereadVersion(p) ==
  /\ At(p, "reread")
  /\ view' = [view EXCEPT ![job[p].todo[1]].shadow = view[job[p].todo[1]].mem,
                          ![job[p].todo[1]].seen = file.version]
  /\ job' = NextView(p)
  /\ UNCHANGED <<file, opened, writes>>

(* The version is not the one seen last.                                    *)
Stale(v) == file.version # view[v].seen

SyncCheck(p) ==
  /\ At(p, "sync") /\ ~Changed(job[p])
  /\ job' = IF Stale(job[p].todo[1])
              THEN [job EXCEPT ![p].at = "load", ![p].ver = file.version]
              ELSE NextView(p)
  /\ UNCHANGED <<file, view, opened, writes>>

(* The version read before goes with the bytes read now.                    *)
SyncRead(p) ==
  /\ At(p, "load")
  /\ LET v == job[p].todo[1]
     IN view' = [view EXCEPT ![v].mem = Shown(v), ![v].shadow = Shown(v),
                             ![v].seen = job[p].ver]
  /\ job' = NextView(p)
  /\ UNCHANGED <<file, opened, writes>>

(* A guest stores into a view.                                              *)
GuestWrite(p, v, c) ==
  /\ At(p, "idle") /\ v \in Mapped(p) /\ MayWrite(p)
  /\ c \in ViewCells[v] /\ writes < MaxWrites /\ file.version < MaxVersion
  /\ view' = [view EXCEPT ![v].mem[c] = writes + 1]
  /\ writes' = writes + 1
  /\ UNCHANGED <<file, job, opened>>

-----------------------------------------------------------------------------
NoFile == [exists |-> FALSE, versioned |-> FALSE, version |-> 0,
           bytes |-> [c \in Cells |-> 0]]
NewFile == [NoFile EXCEPT !.exists = TRUE, !.versioned = TRUE, !.version = 1]
Loaded(v) == [refs |-> 1, seen |-> 1, mem |-> [c \in ViewCells[v] |-> 0],
              shadow |-> [c \in ViewCells[v] |-> 0]]

SyncStep(p) ==
  \/ SyncWrite(p) \/ BumpVersion(p) \/ TruncateVersion(p) \/ StoreVersion(p)
  \/ CloseBytes(p) \/ RereadVersion(p) \/ SyncCheck(p) \/ SyncRead(p)

(* The calls a guest makes, and the rest of those that are not all          *)
(* synchronisation.                                                         *)
MapStep(p) ==
  \/ CreateVersion(p) \/ CreateDone(p) \/ MapVersion(p) \/ UnmapDone(p)
  \/ Does("create") /\ (CreateFileMapping(p) \/ CloseMapping(p))
  \/ Does("sync") /\ SyncNamedMappedViews(p)
  \/ \E v \in Views :
       \/ Does("map") /\ (MapAgain(p, v) \/ MapViewOfFile(p, v) \/ UnmapViewOfFile(p, v))
       \/ Does("flush") /\ FlushViewOfFile(p, v)
       \/ Does("write") /\ \E c \in Cells : GuestWrite(p, v, c)
=============================================================================

----------------------------- MODULE RemoteAudio -----------------------------
(***************************************************************************)
(* The audio tap (remote_server, CeAudio::liveSlice): audio clients get    *)
(* slices cut out of the buffers on waveOut's time line, at a cursor that  *)
(* all clients share.  A slice is made when a client asks and the queue is *)
(* empty; a write only wakes the clients that wait.                        *)
(*                                                                         *)
(* A sample is a byte here, and the conversion to the client's format      *)
(* keeps the length of a slice.                                            *)
(***************************************************************************)
EXTENDS WaveOut

CONSTANTS
  Clients,         \* audio websockets
  MaxJoins,        \* bound: how often clients connect
  SliceMs,         \* kRemoteAudioChunkDurationMs
  Lag,             \* how far the cursor may fall behind, 250 ms in the code
  MaxRemoteChunks  \* kMaxRemoteAudioQueuedChunks

VARIABLES
  client,          \* where each client's thread is, and until when it paces
  tap,             \* audioNextPtsMs (cursor), audioChunks (chunks)
  joins,           \* connections made
  cut              \* the slices made since the first client connected

audioVars == <<client, tap, joins, cut>>

Slice == [write : 1 .. MaxWrites, format : Formats, from : Nat, to : Nat, start : Nat, length : Nat]

ASSUME AudioAssumption ==
  /\ MaxJoins \in Nat /\ SliceMs \in Nat \ {0} /\ Lag \in Nat /\ MaxRemoteChunks \in Nat \ {0}

AudioType ==
  /\ client \in [Clients -> [at : {"out", "wait", "take", "pace"}, until : Nat]]
  /\ tap.cursor \in Nat
  /\ tap.chunks \in Seq(Slice) /\ Len(tap.chunks) <= MaxRemoteChunks
  /\ joins \in 0 .. MaxJoins
  /\ cut \in Seq(Slice)

AudioInit ==
  /\ client = [c \in Clients |-> [at |-> "out", until |-> 0]]
  /\ tap = [cursor |-> 0, chunks |-> << >>]
  /\ joins = 0
  /\ cut = << >>

-----------------------------------------------------------------------------
(* byteOffsetForElapsed                                                     *)
BytesAt(f, ms) == (ms * f.num) \div f.den

(* The first buffer of stream h that has not ended at the cursor.           *)
Reached(h, at) == {i \in DOMAIN stream[h].buffers : at < stream[h].buffers[i].end}
FirstReached(h, at) ==
  stream[h].buffers[CHOOSE i \in Reached(h, at) : \A j \in Reached(h, at) : i <= j]

(* liveSlice: the set of at most one slice at time at.  Of the streams that *)
(* have reached a buffer the first by handle is heard.                      *)
LiveSlice(at) ==
  LET sounding == {h \in Streams : Reached(h, at) # {} /\ FirstReached(h, at).start <= at}
      h == CHOOSE g \in sounding : \A k \in sounding : g <= k
      f == stream[h].format
      b == FirstReached(h, at)
      from == BytesAt(f, at - b.start)
      upTo == BytesAt(f, (IF b.end < at + SliceMs THEN b.end ELSE at + SliceMs) - b.start)
      to == IF upTo > b.size THEN b.size ELSE Later(from + 1, upTo)
  IN IF sounding = {} \/ from >= b.size THEN {}
     ELSE {[write |-> b.write, format |-> f, from |-> from, to |-> to, start |-> at,
            length |-> Duration(f, to - from)]}

Listening == {c \in Clients : client[c].at # "out"}

(* The cursor a slice is cut at: a late one jumps to the present.           *)
CursorFor(t) == IF t.cursor = 0 \/ t.cursor + Lag < now THEN now ELSE t.cursor

(* materializeRemoteAudioChunkLocked, on tap t and slices so far s.         *)
Materialize(t, s) ==
  LET at == CursorFor(t)
      new == LiveSlice(at)
  IN IF new = {} THEN [tap |-> [t EXCEPT !.cursor = at], cut |-> s]
     ELSE LET x == CHOOSE y \in new : TRUE
              all == Append(t.chunks, x)
          IN [tap |-> [cursor |-> at + x.length,
                       chunks |-> IF Len(all) > MaxRemoteChunks THEN Tail(all) ELSE all],
              cut |-> Append(s, x)]

IfEmpty(t, s) == IF t.chunks = << >> THEN Materialize(t, s) ELSE [tap |-> t, cut |-> s]

Still == UNCHANGED <<endpointVars, serialVars, waveVars>>

(* Mutant: every client starts the tap anew.                                *)
StartAnew == [tap |-> [cursor |-> now, chunks |-> << >>], cut |-> cut]

(* The first client starts the tap at the present; which of the clients     *)
(* that are out it is makes no difference.                                  *)
TapAtJoin == IF Listening = {} THEN [tap |-> [cursor |-> now, chunks |-> << >>], cut |-> << >>]
                               ELSE [tap |-> tap, cut |-> cut]

RegisterRemoteAudioClient(c) ==
  /\ Does("audio") /\ joins < MaxJoins
  /\ Listening # Clients /\ c = CHOOSE d \in Clients \ Listening : TRUE
  /\ LET new == Materialize(TapAtJoin.tap, TapAtJoin.cut)
     IN tap' = new.tap /\ cut' = new.cut
  /\ client' = [client EXCEPT ![c].at = "wait"]
  /\ joins' = joins + 1
  /\ Still

(* waitForRemoteAudioChunks where it makes a slice; where it finds one or   *)
(* times out it changes no more than the take that follows.                 *)
WaitForRemoteAudioChunks(c) ==
  /\ client[c].at = "wait" /\ tap.chunks = << >>
  /\ LET new == Materialize(tap, cut)
     IN new.cut # cut /\ tap' = new.tap /\ cut' = new.cut
  /\ client' = [client EXCEPT ![c].at = "take"]
  /\ UNCHANGED joins /\ Still

PaceUntil(slice) == now + slice.length

(* takeRemoteAudioChunks(1), sending it, and the pause that follows.        *)
TakeRemoteAudioChunk(c) ==
  /\ client[c].at \in {"wait", "take"}
  /\ LET new == IfEmpty(tap, cut)
     IN /\ cut' = new.cut
        /\ IF new.tap.chunks = << >>
           THEN tap' = new.tap /\ client' = [client EXCEPT ![c].at = "wait"]
           ELSE /\ tap' = [new.tap EXCEPT !.chunks = Tail(@)]
                /\ client' = [client EXCEPT ![c] =
                     [at |-> "pace", until |-> PaceUntil(Head(new.tap.chunks))]]
  /\ UNCHANGED joins /\ Still

Paced(c) ==
  /\ client[c].at = "pace" /\ now >= client[c].until
  /\ client' = [client EXCEPT ![c] = [at |-> "wait", until |-> 0]]
  /\ UNCHANGED <<tap, joins, cut>> /\ Still

UnregisterRemoteAudioClient(c) ==
  /\ client[c].at \in {"wait", "take"}
  /\ client' = [client EXCEPT ![c] = [at |-> "out", until |-> 0]]
  /\ IF Listening = {c} THEN tap' = [cursor |-> 0, chunks |-> << >>] /\ cut' = << >>
                        ELSE UNCHANGED <<tap, cut>>
  /\ UNCHANGED joins /\ Still

ClientStep(c) ==
  \/ RegisterRemoteAudioClient(c) \/ WaitForRemoteAudioChunks(c) \/ TakeRemoteAudioChunk(c)
  \/ Paced(c) \/ UnregisterRemoteAudioClient(c)

-----------------------------------------------------------------------------
(* The bytes of a millisecond, the last counted whole.                      *)
PerMs(f) == (f.num + f.den - 1) \div f.den

(* The tap's cursor counts in whole milliseconds, offsets and lengths are   *)
(* rounded, and yet the slices of a buffer are continuous: those that       *)
(* adjoin leave nothing out between them, and none goes back over what was  *)
(* sent by more than a millisecond; not when clients come and go, when the  *)
(* cursor jumps, or when streams start and end in between.                  *)
(* By a part of a millisecond they do go back where it has no whole number  *)
(* of bytes, although TODO.md and PROGRESS.md have the tap continuous.      *)
TapContinuous ==
  \A i, j \in DOMAIN cut : i < j /\ cut[i].write = cut[j].write =>
    /\ j = i + 1 /\ cut[j].start = cut[i].start + cut[i].length => cut[j].from <= cut[i].to
    /\ cut[i].to - cut[j].from <= PerMs(cut[i].format)
=============================================================================

------------------------------ MODULE WaveOut -------------------------------
(***************************************************************************)
(* waveOut (CeAudio, coredll_host_audio): the guest's buffers are queued   *)
(* on a virtual time line that decides when they are done, while a backend *)
(* thread plays copies of them on host devices, which are kept in a small  *)
(* cache when the guest closes its stream.                                 *)
(*                                                                         *)
(* All streams report to one auto-reset event.  The guest keeps waveOut's  *)
(* rules: it writes a header only when it is not queued.  A header is      *)
(* prepared by the write where the guest did not prepare it.               *)
(***************************************************************************)
EXTENDS SerialDevice, Selection

CONSTANTS
  MaxStreams,    \* bound: streams opened
  Headers,       \* the guest's WAVEHDRs
  MaxWrites,     \* bound: buffers written
  Sizes,         \* their lengths in bytes
  Formats,       \* wave formats: num bytes in den milliseconds
  MaxCached,     \* devices in the cache (4 in the code)
  MaxChunks      \* kMaxBackendChunks

VARIABLES
  stream,        \* streams_ and the wave-out handles
  header,        \* flags of the guest's headers; stored: in hostWaveBuffers
  event,         \* is the callback event signaled?
  writes,        \* buffers written so far
  backend,       \* chunks queued for the backend, and the one it plays
  device,        \* host devices: closed, open (with a stream) or cached
  cached         \* cachedWaveOutDevices, oldest first

waveVars == <<stream, header, event, writes, backend, device, cached>>

Streams == 1 .. MaxStreams
NoChunk == [stream |-> 0, device |-> 0]

ASSUME WaveAssumption ==
  /\ MaxStreams \in Nat /\ MaxWorkers > 0 /\ MaxWrites \in Nat
  /\ MaxCached \in Nat \ {0} /\ MaxChunks \in Nat \ {0}
  /\ Formats # {} /\ Sizes \subseteq Nat \ {0} /\ Formats \subseteq [num : Nat \ {0}, den : Nat \ {0}]

NoStream == [state |-> "unused", format |-> CHOOSE f \in Formats : TRUE, buffers |-> << >>,
             next |-> 0, device |-> 0]

Buffer == [header : Headers, write : 1 .. MaxWrites, size : Sizes, start : Nat, end : Nat]
Chunk == [stream : 0 .. MaxStreams, device : 0 .. MaxStreams]

WaveType ==
  /\ stream \in [Streams -> [state : {"unused", "open", "closed", "gone"}, format : Formats,
                             buffers : Seq(Buffer), next : Nat, device : 0 .. MaxStreams]]
  /\ header \in [Headers -> [stored : BOOLEAN, inqueue : BOOLEAN, done : BOOLEAN]]
  /\ event \in BOOLEAN /\ writes \in 0 .. MaxWrites
  /\ backend.chunks \in Seq(Chunk) /\ Len(backend.chunks) <= MaxChunks /\ backend.plays \in Chunk
  /\ device \in [Streams -> {"closed", "open", "cached"}]
  /\ cached \in Seq(Streams) /\ Len(cached) <= MaxCached

WaveInit ==
  /\ stream = [h \in Streams |-> NoStream]
  /\ header = [x \in Headers |-> [stored |-> FALSE, inqueue |-> FALSE, done |-> FALSE]]
  /\ event = FALSE /\ writes = 0
  /\ backend = [chunks |-> << >>, plays |-> NoChunk]
  /\ device = [d \in Streams |-> "closed"]
  /\ cached = << >>

-----------------------------------------------------------------------------
(* A call on stream h by a thread that runs.                                *)
OnStream(h, call) == (\E t \in Callers : Calls(t, call)) /\ stream[h].state = "open"
Other == UNCHANGED <<endpointVars, now, emu, port, reads, received>>

Fits(d, f) == \E h \in Streams : stream[h].device = d /\ stream[h].format = f
Matching(f) == {i \in DOMAIN cached : Fits(cached[i], f)}

(* A cached device of this format is taken over; otherwise one is opened.   *)
WaveOutOpen(h, f) ==
  /\ \E t \in Callers : Calls(t, "wave")
  /\ stream[h].state = "unused" /\ \A g \in 1 .. h - 1 : stream[g].state # "unused"
  /\ LET i == CHOOSE j \in Matching(f) : \A k \in Matching(f) : j <= k
         d == IF Matching(f) = {} THEN h ELSE cached[i]
     IN /\ stream' = [stream EXCEPT ![h] = [NoStream EXCEPT !.state = "open", !.format = f,
                                                            !.device = d]]
        /\ device' = [device EXCEPT ![d] = "open"]
        /\ cached' = IF Matching(f) = {} THEN cached
                     ELSE SubSeq(cached, 1, i - 1) \o SubSeq(cached, i + 1, Len(cached))
  /\ Other /\ UNCHANGED <<tstate, header, event, writes, backend>>

(* durationForBytes                                                         *)
Duration(f, bytes) ==
  LET ms == (bytes * f.den) \div f.num IN IF ms = 0 THEN 1 ELSE ms

Later(a, b) == IF a > b THEN a ELSE b

StartOf(h) == Later(now, stream[h].next)

QueueBuffer(h, x, size) ==
  LET start == StartOf(h)
      end == start + Duration(stream[h].format, size)
  IN stream' = [stream EXCEPT
       ![h].buffers = Append(@, [header |-> x, write |-> writes + 1, size |-> size,
                                 start |-> start, end |-> end]),
       ![h].next = end]

(* queueHostAudioBackend: the oldest chunks are dropped.                    *)
QueueChunk(h) ==
  LET chunks == Append(backend.chunks, [stream |-> h, device |-> stream[h].device])
  IN backend' = [backend EXCEPT !.chunks =
       IF Len(chunks) > MaxChunks THEN SubSeq(chunks, 2, Len(chunks)) ELSE chunks]

(* Mutant: the event keeps what an earlier buffer left.                     *)
EventAtWrite == event

ResetByWrite == FALSE

HeadersOf(buffers) == {buffers[i].header : i \in DOMAIN buffers}
Queued(x) == \E h \in Streams : x \in HeadersOf(stream[h].buffers)
Playing == {h \in Streams : stream[h].buffers # << >>}

(* In the scenes "single" the guest has one buffer queued at a time.        *)
WaveOutWrite(h, x, size) ==
  /\ OnStream(h, "wave") /\ writes < MaxWrites
  /\ ~header[x].inqueue /\ (Does("single") => Playing = {})
  /\ header' = [header EXCEPT ![x] = [stored |-> TRUE, inqueue |-> TRUE, done |-> FALSE]]
  /\ event' = ResetByWrite
  /\ QueueBuffer(h, x, size)
  /\ QueueChunk(h)
  /\ writes' = writes + 1
  /\ Other /\ UNCHANGED <<tstate, device, cached>>

(* The data cannot be read: the header says queued, and nothing is.         *)
WaveOutWriteFails(h, x) ==
  /\ OnStream(h, "unreadable") /\ ~header[x].inqueue
  /\ header' = [header EXCEPT ![x] = [stored |-> TRUE, inqueue |-> TRUE, done |-> FALSE]]
  /\ event' = FALSE
  /\ Other /\ UNCHANGED <<tstate, stream, writes, backend, device, cached>>

WaveOutUnprepareHeader(h, x) ==
  /\ OnStream(h, "prepare") /\ header[x].stored
  /\ x \notin HeadersOf(stream[h].buffers)
  /\ \A g \in Streams \ {h} : x \notin HeadersOf(stream[g].buffers)   \* waveOut's rule
  /\ header' = [header EXCEPT ![x].stored = FALSE]
  /\ Other /\ UNCHANGED <<tstate, stream, event, writes, backend, device, cached>>

-----------------------------------------------------------------------------
(* Mutant: WHDR_INQUEUE is left.                                            *)
DoneOnly(xs) ==
  [x \in Headers |-> IF x \in xs /\ header[x].stored
                     THEN [header[x] EXCEPT !.done = TRUE] ELSE header[x]]

(* Reset and close set the flags of the headers that are still stored.      *)
Finished(xs) ==
  [x \in Headers |-> IF x \in xs /\ header[x].stored
                     THEN [header[x] EXCEPT !.inqueue = FALSE, !.done = TRUE] ELSE header[x]]

Without(h) == [backend EXCEPT !.chunks = Keep(@, {c \in Chunk : c.stream # h})]

WaveOutReset(h) ==
  /\ OnStream(h, "stop")
  /\ backend' = Without(h)
  /\ header' = Finished(HeadersOf(stream[h].buffers))
  /\ event' = (event \/ stream[h].buffers # << >>)
  /\ stream' = [stream EXCEPT ![h].buffers = << >>, ![h].next = 0]
  /\ Other /\ UNCHANGED <<tstate, writes, device, cached>>

(* Mutant: what the backend has not played yet stays queued.                *)
ForgetChunks(h) == backend

ChunksCleared(h) == Without(h)

EventAtClose(h) == event \/ stream[h].buffers # << >>

(* The host device goes to the cache, whose oldest is closed when it is     *)
(* full.  The handle stays, without a device.                               *)
WaveOutClose(h) ==
  /\ OnStream(h, "stop")
  /\ backend' = ChunksCleared(h)
  /\ header' = Finished(HeadersOf(stream[h].buffers))
  /\ event' = EventAtClose(h)
  /\ stream' = [stream EXCEPT ![h].state = "closed", ![h].buffers = << >>]
  /\ LET all == Append(cached, stream[h].device)
         old == IF Len(all) > MaxCached THEN {all[1]} ELSE {}
     IN /\ cached' = IF old = {} THEN all ELSE SubSeq(all, 2, Len(all))
        /\ device' = [d \in Streams |-> IF d \in old THEN "closed"
                                        ELSE IF d = stream[h].device THEN "cached" ELSE device[d]]
  /\ Other /\ UNCHANGED <<tstate, writes>>

(* closeGuestHandle on a wave-out handle: the stream goes without telling   *)
(* its headers, and the stored copies of all streams' headers go with it.   *)
CloseWaveHandle(h) ==
  /\ OnStream(h, "closehandle")
  /\ backend' = Without(h)
  /\ stream' = [stream EXCEPT ![h].state = "gone", ![h].buffers = << >>]
  /\ header' = [x \in Headers |-> [header[x] EXCEPT !.stored = FALSE]]
  /\ device' = [device EXCEPT ![stream[h].device] = "closed"]
  /\ Other /\ UNCHANGED <<tstate, event, writes, cached>>

(* WaitForSingleObject on the event, without a time-out: one of the guest's *)
(* threads waits, while a header is queued or the event tells it of one.    *)
Player == 1
WaitForEvent ==
  /\ Calls(Player, "wait")
  /\ event \/ \E x \in Headers : header[x].inqueue
  /\ IF event THEN event' = FALSE /\ UNCHANGED <<tstate, emu>>
     ELSE /\ tstate' = [tstate EXCEPT ![Player] = "wave"]
          /\ emu' = Go("waves")
          /\ UNCHANGED event
  /\ UNCHANGED <<endpointVars, now, port, reads, received>>
  /\ UNCHANGED <<stream, header, writes, backend, device, cached>>

-----------------------------------------------------------------------------
Ripe(h) == {i \in DOMAIN stream[h].buffers : stream[h].buffers[i].end <= now}
RipeHeaders == UNION {{stream[h].buffers[i].header : i \in Ripe(h)} : h \in Streams}

Told(x) == [header[x] EXCEPT !.inqueue = FALSE, !.done = TRUE]

(* refreshCompletedHostWaveBuffers: what has ended is done, the event is    *)
(* signaled, and every thread parked on it runs; the event stays signaled.  *)
RefreshCompletedHostWaveBuffers ==
  /\ emu.at = "waves"
  /\ stream' = [h \in Streams |->
       LET left == Keep(stream[h].buffers, {b \in Buffer : b.end > now})
       IN IF stream[h].state # "open" THEN stream[h]
          ELSE [stream[h] EXCEPT !.buffers = left,
                                 !.next = IF left = << >> THEN Later(@, now) ELSE @]]
  /\ header' = [x \in Headers |-> IF x \in RipeHeaders THEN Told(x) ELSE header[x]]
  /\ event' = (event \/ RipeHeaders # {})
  /\ tstate' = [t \in Workers |-> IF RipeHeaders # {} /\ tstate[t] = "wave" THEN "runnable"
                                  ELSE tstate[t]]
  /\ emu' = Go("serial")
  /\ UNCHANGED <<endpointVars, now, port, reads, received, writes, backend, device, cached>>

(* refreshSignaledWaits: the first thread parked on a signaled event takes  *)
(* it.                                                                      *)
RefreshSignaledWaits ==
  /\ emu.at = "kernel"
  /\ LET parked == {t \in Workers : tstate[t] = "wave"}
     IN IF event /\ parked # {}
        THEN tstate' = [tstate EXCEPT ![Next1(parked)] = "runnable"] /\ event' = FALSE
        ELSE UNCHANGED <<tstate, event>>
  /\ emu' = Go("guest")
  /\ UNCHANGED <<endpointVars, now, port, reads, received>>
  /\ UNCHANGED <<stream, header, writes, backend, device, cached>>

-----------------------------------------------------------------------------
(* The backend thread.                                                      *)
BackendTake ==
  /\ Does("backend") /\ backend.plays = NoChunk /\ backend.chunks # << >>
  /\ backend' = [chunks |-> Tail(backend.chunks), plays |-> Head(backend.chunks)]
  /\ UNCHANGED <<endpointVars, serialVars, stream, header, event, writes, device, cached>>

BackendPlayed ==
  /\ backend.plays # NoChunk
  /\ backend' = [backend EXCEPT !.plays = NoChunk]
  /\ UNCHANGED <<endpointVars, serialVars, stream, header, event, writes, device, cached>>

GuestWaveCall ==
  \/ \E h \in Streams :
       \/ \E f \in Formats : WaveOutOpen(h, f)
       \/ \E x \in Headers :
            \/ \E size \in Sizes : WaveOutWrite(h, x, size)
            \/ WaveOutWriteFails(h, x)
            \/ WaveOutUnprepareHeader(h, x)
       \/ WaveOutReset(h) \/ WaveOutClose(h) \/ CloseWaveHandle(h)
  \/ WaitForEvent

-----------------------------------------------------------------------------
Polite == ~Does("unreadable") /\ ~Does("closehandle")

(* WHDR_INQUEUE says what it should: a header has it exactly while a stream *)
(* will play it, through completion, reset and close.                       *)
InQueueIsQueued == Polite => \A x \in Headers : header[x].inqueue <=> Queued(x)

(* The completion event says what it should: the waiting thread has a       *)
(* buffer that will signal it, or was signaled; and a guest with one buffer *)
(* at a time finds it signaled only when that buffer is done, though        *)
(* completions leave it signaled behind.                                    *)
EventTellsOfBuffers ==
  /\ Polite /\ tstate[Player] = "wave" => event \/ Playing # {}
  /\ Does("single") /\ event => Playing = {}

(* A chunk that waits for the backend will be played on a device that is    *)
(* open for the stream that wrote it.                                       *)
ChunkHasItsDevice ==
  \A i \in DOMAIN backend.chunks :
    LET c == backend.chunks[i]
    IN stream[c.stream].state = "open" /\ stream[c.stream].device = c.device
         /\ device[c.device] = "open"
=============================================================================

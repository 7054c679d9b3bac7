--------------------------- MODULE RemoteEndpoint ---------------------------
(***************************************************************************)
(* What server threads and the emulator share (CeRemote, remote_server):   *)
(* touches, keys and serial bytes queued from outside, the flag that stops *)
(* the guest's slice, and the pause switch.  A server thread works on one  *)
(* request at a time.  Requests that are refused change nothing and are    *)
(* left out, and so is what HTTP and the websocket add.                    *)
(***************************************************************************)
EXTENDS Integers, Sequences, FiniteSets

CONSTANTS
  Sessions,        \* server threads
  MaxSerialBytes,  \* kMaxRemoteSerialBytes
  MaxInputs,       \* bound: touches and keys ever sent
  MaxBytes,        \* bound: serial bytes ever sent
  Scenes           \* sets of calls; a behaviour is limited to the calls of one

VARIABLES
  scene,           \* the calls of this behaviour
  session,         \* where each server thread is in its request
  touches, keys,   \* ceRemote_.touchEvents(), keyEvents()
  serial,          \* ceRemote_.serialBytes(): the numbers of the bytes
  inputPending,    \* remoteInputPending_
  paused,          \* ceRemote_.paused()
  sent,            \* how many inputs and bytes were numbered so far
  delivered        \* what was drained, in order

endpointVars == <<scene, session, touches, keys, serial, inputPending, paused, sent, delivered>>

ASSUME EndpointAssumption ==
  /\ Sessions # {} /\ IsFiniteSet(Sessions)
  /\ MaxSerialBytes \in Nat \ {0} /\ MaxInputs \in Nat /\ MaxBytes \in Nat

Does(call) == call \in scene

(* What a request asks for, and the messages that come of it: "press" and   *)
(* "release" are the button messages of a tap, marked to tell them from     *)
(* those of a finger that is followed step by step.                         *)
Touches == {"tap", "down", "move", "up"}
Phases == {"press", "release", "down", "move", "up", "key"}
Input == [number : 1 .. MaxInputs, phase : Phases]
Bytes == 1 .. MaxBytes

EndpointType ==
  /\ scene \in Scenes
  /\ session \in [Sessions -> {"idle", "press", "notify"}]
  /\ touches \in Seq(Input) /\ keys \in Seq(Input) /\ delivered \in Seq(Input)
  /\ serial \in Seq(Bytes) /\ Len(serial) <= MaxSerialBytes
  /\ inputPending \in BOOLEAN /\ paused \in BOOLEAN
  /\ sent \in [inputs : 0 .. MaxInputs, bytes : 0 .. MaxBytes]

EndpointInit ==
  /\ scene \in Scenes
  /\ session = [s \in Sessions |-> "idle"]
  /\ touches = << >> /\ keys = << >> /\ serial = << >>
  /\ inputPending = FALSE /\ paused = FALSE
  /\ sent = [inputs |-> 0, bytes |-> 0]
  /\ delivered = << >>

-----------------------------------------------------------------------------
(* The messages one touch request stands for: a tap is two.                 *)
Messages(phase, n) ==
  IF phase = "tap" THEN <<[number |-> n, phase |-> "press"], [number |-> n, phase |-> "release"]>>
                   ELSE <<[number |-> n, phase |-> phase]>>

Numbered(s) == session[s] = "idle" /\ sent.inputs < MaxInputs
NewNumber == sent.inputs + 1

(* Mutant: the mutex is taken for each message of a tap.                    *)
TouchEach(s, phase) ==
  \/ /\ Numbered(s)
     /\ touches' = Append(touches, Messages(phase, NewNumber)[1])
     /\ sent' = [sent EXCEPT !.inputs = NewNumber]
     /\ session' = [session EXCEPT ![s] = IF phase = "tap" THEN "press" ELSE "notify"]
     /\ UNCHANGED <<scene, keys, serial, inputPending, paused, delivered>>
  \/ /\ session[s] = "press"
     /\ touches' = Append(touches, [number |-> sent.inputs, phase |-> "release"])
     /\ session' = [session EXCEPT ![s] = "notify"]
     /\ UNCHANGED <<scene, keys, serial, inputPending, paused, sent, delivered>>

EnqueueRemoteTouch(s, phase) ==
  /\ Numbered(s) /\ Does("touch")
  /\ touches' = touches \o Messages(phase, NewNumber)
  /\ sent' = [sent EXCEPT !.inputs = NewNumber]
  /\ session' = [session EXCEPT ![s] = "notify"]
  /\ UNCHANGED <<scene, keys, serial, inputPending, paused, delivered>>

EnqueueRemoteKey(s) ==
  /\ Numbered(s) /\ Does("touch")
  /\ keys' = Append(keys, [number |-> NewNumber, phase |-> "key"])
  /\ sent' = [sent EXCEPT !.inputs = NewNumber]
  /\ session' = [session EXCEPT ![s] = "notify"]
  /\ UNCHANGED <<scene, touches, serial, inputPending, paused, delivered>>

(* Mutant: the queue is cut before the new bytes come.                      *)
NewestFirst(q) == IF Len(serial) <= MaxSerialBytes THEN q
                  ELSE SubSeq(q, Len(serial) - MaxSerialBytes + 1, Len(q))

(* The newest bytes of q that the queue holds.                              *)
Newest(q) == IF Len(q) <= MaxSerialBytes THEN q
             ELSE SubSeq(q, Len(q) - MaxSerialBytes + 1, Len(q))

(* The flag is raised at once here: nothing about the bytes depends on it.  *)
InjectRemoteSerialBytes(s, n) ==
  /\ session[s] = "idle" /\ Does("inject") /\ sent.bytes + n <= MaxBytes
  /\ serial' = Newest(serial \o [i \in 1 .. n |-> sent.bytes + i])
  /\ sent' = [sent EXCEPT !.bytes = @ + n]
  /\ inputPending' = TRUE
  /\ UNCHANGED <<scene, session, touches, keys, paused, delivered>>

(* For touches and keys the flag is raised after the mutex was released.    *)
NotifyRemoteInputQueued(s) ==
  /\ session[s] = "notify"
  /\ inputPending' = TRUE
  /\ session' = [session EXCEPT ![s] = "idle"]
  /\ UNCHANGED <<scene, touches, keys, serial, paused, sent, delivered>>

SetPaused(s) ==
  /\ session[s] = "idle" /\ Does("pause")
  /\ paused' = ~paused
  /\ UNCHANGED <<scene, session, touches, keys, serial, inputPending, sent, delivered>>

SessionStep(s) ==
  \/ \E phase \in Touches : EnqueueRemoteTouch(s, phase)
  \/ EnqueueRemoteKey(s)
  \/ \E n \in 1 .. 2 : InjectRemoteSerialBytes(s, n)
  \/ NotifyRemoteInputQueued(s)
  \/ SetPaused(s)

-----------------------------------------------------------------------------
(* drainRemoteInputEvents, the emulator's side: both queues are taken and   *)
(* the flag is cleared under the mutex; touches go to the windows first.    *)

DrainRemoteInputEvents ==
  /\ delivered' = delivered \o touches \o keys
  /\ touches' = << >> /\ keys' = << >>
  /\ inputPending' = FALSE
  /\ UNCHANGED <<scene, session, serial, paused, sent>>

(* readRemoteSerialBytes: the oldest bytes, at most n.                      *)
Oldest(n) == SubSeq(serial, 1, IF n < Len(serial) THEN n ELSE Len(serial))
Rest(n) == SubSeq(serial, Len(Oldest(n)) + 1, Len(serial))

-----------------------------------------------------------------------------
(* A tap arrives whole: its release follows its press, whatever taps, drags *)
(* and keys other server threads queue at the time.                         *)
TapsWhole ==
  LET all == delivered \o touches \o keys
  IN \A i \in DOMAIN all :
       all[i].phase = "press" =>
         /\ i < Len(all)
         /\ all[i + 1] = [number |-> all[i].number, phase |-> "release"]
=============================================================================

--------------------------- MODULE DevicesProofs ---------------------------
(***************************************************************************)
(* The serial ports of Devices implement SerialLine, for any capacity, any *)
(* number of threads and handles, and any COMMTIMEOUTS.  Beside the types  *)
(* the mapping needs what the emulator thread knows between two accesses   *)
(* to the queue (EmuInv): a refresh works on a copy of the pending reads   *)
(* while bytes arrive and time passes.                                     *)
(*                                                                         *)
(* Touches stay whole on their way (TapInv).  The buffers, headers, event, *)
(* chunks and host devices of waveOut agree (WInv), for any number of      *)
(* streams, headers and formats.  All variables keep their types, the      *)
(* slices of the audio tap too (DevicesTyped).                             *)
(***************************************************************************)
EXTENDS Devices, SequenceLemmas

(* The first of a set of threads is one of them.                            *)
LEMMA Next1Member ==
  ASSUME NEW S \in SUBSET Nat, S # {}
  PROVE  Next1(S) \in S
  <1>1. PICK m \in S : \A k \in S : <<k, m>> \notin OpToRel(<, Nat)
    BY WFMin, NatLessThanWellFounded, Zenon
  <1>2. \A k \in S : ~(k < m)
    BY <1>1, Zenon DEF OpToRel
  <1>3. \A k \in S : m <= k
    BY <1>2
  <1> QED
    BY <1>3 DEF Next1

(* The bytes an injection numbers.                                          *)
LEMMA NewBytes ==
  ASSUME NEW b \in Nat, NEW n \in Nat
  PROVE  /\ [i \in 1 .. n |-> b + i] \in Seq(Nat)
         /\ Len([i \in 1 .. n |-> b + i]) = n
  <1> DEFINE s == [i \in 1 .. n |-> b + i]
  <1>1. s \in [1 .. n -> Nat]
    OBVIOUS
  <1>2. s \in Seq(Nat)
    BY <1>1, SeqDef
  <1>3. DOMAIN s = 1 .. n
    OBVIOUS
  <1> HIDE DEF s
  <1>4. Len(s) = n
    BY <1>2, <1>3, LenProperties
  <1> QED
    BY <1>2, <1>4 DEF s

(* Facts about parts of sequences of bytes.                                 *)
LEMMA CutOut ==
  ASSUME NEW q \in Seq(Nat), NEW a \in Int, NEW b \in Int, 1 <= a, b <= Len(q)
  PROVE  /\ SubSeq(q, a, b) \in Seq(Nat)
         /\ Len(SubSeq(q, a, b)) = IF a <= b THEN b - a + 1 ELSE 0
         /\ \A i \in 1 .. b - a + 1 : SubSeq(q, a, b)[i] = q[a + i - 1]
  <1>1. Len(q) \in Nat
    BY LenProperties
  <1>2. \A i \in a .. b : q[i] \in Nat
    BY <1>1, ElementOfSeq
  <1> QED
    BY <1>2, SubSeqProperties

(* The bytes taken and the bytes that stay.                                 *)
LEMMA RestOfLine ==
  ASSUME NEW q \in Seq(Nat), NEW m \in 0 .. Len(q)
  PROVE  /\ SubSeq(q, 1, m) \in Seq(Nat) /\ Len(SubSeq(q, 1, m)) = m
         /\ SubSeq(q, m + 1, Len(q)) \in Seq(Nat)
         /\ Len(SubSeq(q, m + 1, Len(q))) = Len(q) - m
  <1>1. Len(q) \in Nat
    BY LenProperties
  <1>2. SubSeq(q, 1, m) \in Seq(Nat) /\ Len(SubSeq(q, 1, m)) = m
    BY <1>1, CutOut
  <1> DEFINE a == m + 1
  <1>3. a \in Int /\ 1 <= a /\ Len(q) - a + 1 = Len(q) - m /\ (a <= Len(q) \/ Len(q) - m = 0)
    BY <1>1
  <1> HIDE DEF a
  <1>4. SubSeq(q, a, Len(q)) \in Seq(Nat) /\ Len(SubSeq(q, a, Len(q))) = Len(q) - m
    BY <1>1, <1>3, CutOut
  <1> QED
    BY <1>2, <1>4 DEF a

(* The first k of n are those of q behind its first d.                      *)
Copies(n, k, q, d) == \A i \in 1 .. k : n[i] = q[d + i]

(* A part is a copy.                                                        *)
LEMMA CopyOut ==
  ASSUME NEW q \in Seq(Nat), NEW d \in Nat, NEW k \in Nat, d + k <= Len(q)
  PROVE  /\ SubSeq(q, d + 1, d + k) \in Seq(Nat) /\ Len(SubSeq(q, d + 1, d + k)) = k
         /\ Copies(SubSeq(q, d + 1, d + k), k, q, d)
  <1> DEFINE a == d + 1
             b == d + k
             s == SubSeq(q, a, b)
  <1>1. Len(q) \in Nat
    BY LenProperties
  <1>2. a \in Int /\ b \in Int /\ 1 <= a /\ b <= Len(q) /\ b - a + 1 = k /\ (a <= b \/ k = 0)
    BY <1>1
  <1>3. \A i \in 1 .. k : a + i - 1 = d + i
    OBVIOUS
  <1> HIDE DEF a, b
  <1>4. s \in Seq(Nat) /\ Len(s) = k /\ \A i \in 1 .. k : s[i] = q[a + i - 1]
    BY <1>1, <1>2, CutOut
  <1> HIDE DEF s
  <1>5. Copies(s, k, q, d)
    BY <1>3, <1>4 DEF Copies
  <1> QED
    BY <1>4, <1>5 DEF s, a, b

(* Two copies of the same bytes are equal.                                  *)
LEMMA CopiesEqual ==
  ASSUME NEW s \in Seq(Nat), NEW t \in Seq(Nat), NEW k \in Nat, Len(s) = k, Len(t) = k,
         NEW n, NEW q, NEW d \in Nat, Copies(n, k, q, d), Copies(s, k, n, 0), Copies(t, k, q, d)
  PROVE  s = t
  <1>1. \A i \in 1 .. k : s[i] = n[i]
    BY DEF Copies
  <1>2. \A i \in 1 .. k : s[i] = t[i]
    BY <1>1 DEF Copies
  <1> QED
    BY <1>2, SeqEqual

(* What Arrive asks of the line n that was q: m bytes are new.              *)
Arrived(q, n, m, C) ==
  /\ Len(n) - m <= Len(q) /\ (Len(n) - m < Len(q) => Len(n) = C)
  /\ SubSeq(n, 1, Len(n) - m) = SubSeq(q, Len(q) - (Len(n) - m) + 1, Len(q))

(* The line n starts with the last k bytes of q.                            *)
LEMMA Keeping ==
  ASSUME NEW q \in Seq(Nat), NEW n \in Seq(Nat), NEW C \in Nat,
         NEW k \in Nat, NEW d \in Nat, d + k = Len(q), k < Len(n), d = 0 \/ Len(n) = C,
         Copies(n, k, q, d)
  PROVE  \E m \in 1 .. Len(n) : Arrived(q, n, m, C)
  <1>1. Len(q) \in Nat /\ Len(n) \in Nat
    BY LenProperties
  <1>0. Len(q) - k + 1 = d + 1 /\ k <= Len(q) /\ (k < Len(q) => d # 0)
    <2> DEFINE lq == Len(q)
    <2>1. lq \in Nat /\ d + k = lq
      BY <1>1
    <2> HIDE DEF lq
    <2>2. lq - k + 1 = d + 1 /\ k <= lq /\ (k < lq => d # 0)
      BY <2>1
    <2> QED
      BY <2>2 DEF lq
  <1> DEFINE m == Len(n) - k
             s == SubSeq(n, 1, k)
             t == SubSeq(q, d + 1, d + k)
  <1>2. t \in Seq(Nat) /\ Len(t) = k /\ Copies(t, k, q, d)
    BY CopyOut
  <1>3. s \in Seq(Nat) /\ Len(s) = k /\ Copies(s, k, n, 0)
    <2>1. 0 \in Nat /\ 0 + k <= Len(n) /\ 0 + 1 = 1 /\ 0 + k = k
      BY <1>1
    <2>2. SubSeq(n, 0 + 1, 0 + k) = s
      BY <2>1
    <2> HIDE DEF s
    <2> QED
      BY <2>1, <2>2, CopyOut
  <1>4. s = t
    <2> HIDE DEF s, t
    <2> QED
      BY <1>2, <1>3, CopiesEqual
  <1>5. m \in 1 .. Len(n) /\ Len(n) - m = k
    BY <1>1
  <1> HIDE DEF m
  <1>7. Arrived(q, n, m, C)
    BY <1>0, <1>4, <1>5 DEF Arrived
  <1> QED
    BY <1>5, <1>7

(* lq bytes and new ones are cut to the newest C of them: kept old ones     *)
(* stay, and those before them are dropped.                                 *)
LEMMA Lengths ==
  ASSUME NEW lq \in Nat, NEW new \in Nat, new > 0, NEW C \in Nat, C > 0, lq <= C, lq + new > C
  PROVE  \E kept \in Nat, d \in Nat :
           /\ kept < C /\ d + kept = lq
           /\ kept = 0 \/ d = lq + new - C
  <1>1. CASE C <= new
    <2>1. 0 \in Nat /\ 0 < C /\ lq + 0 = lq
      OBVIOUS
    <2> QED
      BY <2>1
  <1>2. CASE C > new
    <2>1. /\ C - new \in Nat /\ lq + new - C \in Nat /\ C - new < C
          /\ (lq + new - C) + (C - new) = lq
      BY <1>2
    <2> QED
      BY <2>1
  <1> QED
    BY <1>1, <1>2

(* A copy of what starts as q has the end of q in front.                    *)
LEMMA CopiesChain ==
  ASSUME NEW n, NEW all, NEW q, NEW C \in Nat, NEW gone \in Nat, NEW lq \in Nat, NEW k \in Nat,
         Copies(n, C, all, gone), Copies(all, lq, q, 0), k < C, gone + k = lq
  PROVE  Copies(n, k, q, gone)
  <1> SUFFICES ASSUME NEW i \in 1 .. k
               PROVE  n[i] = q[gone + i]
    BY DEF Copies
  <1> DEFINE j == gone + i
  <1>1. i \in 1 .. C /\ j \in 1 .. lq /\ 0 + j = j
    OBVIOUS
  <1>2. n[i] = all[j]
    BY <1>1 DEF Copies
  <1> HIDE DEF j
  <1>3. all[j] = q[j]
    BY <1>1 DEF Copies
  <1> QED
    BY <1>2, <1>3 DEF j

(* A queue of at most C bytes, with new bytes behind it, cut to the newest.  *)
Cut(all, C) == IF Len(all) <= C THEN all ELSE SubSeq(all, Len(all) - C + 1, Len(all))

(* Newest keeps the last bytes of the old line in front of the new ones.    *)
LEMMA NewestBytes ==
  ASSUME NEW q \in Seq(Nat), NEW all \in Seq(Nat), NEW C \in Nat \ {0}, Len(q) <= C,
         NEW new \in Nat, new > 0, Len(all) = Len(q) + new, Copies(all, Len(q), q, 0)
  PROVE  /\ Cut(all, C) \in Seq(Nat) /\ Len(Cut(all, C)) \in 1 .. C
         /\ \E m \in 1 .. Len(Cut(all, C)) : Arrived(q, Cut(all, C), m, C)
  <1>1. Len(q) \in Nat /\ Len(all) \in Nat
    BY LenProperties
  <1>2. CASE Len(all) <= C
    <2>1. 0 + Len(q) = Len(q) /\ Len(q) < Len(all) /\ 0 \in Nat /\ Len(all) \in 1 .. C
      BY <1>1, <1>2
    <2>2. \E m \in 1 .. Len(all) : Arrived(q, all, m, C)
      BY <1>1, <2>1, Keeping
    <2> QED
      BY <1>2, <2>1, <2>2 DEF Cut
  <1>3. CASE Len(all) > C
    <2> DEFINE gone == Len(all) - C
               n == SubSeq(all, gone + 1, gone + C)
    <2>1. gone \in Nat /\ gone + C = Len(all) /\ C \in Nat /\ gone = Len(q) + new - C /\ ~(Len(all) <= C) /\ C \in 1 .. C
      BY <1>1, <1>3
    <2>2. n = Cut(all, C)
      BY <2>1 DEF Cut
    <2> HIDE DEF gone
    <2>3. n \in Seq(Nat) /\ Len(n) = C /\ Copies(n, C, all, gone)
      BY <2>1, CopyOut, SMTT(20)
    <2> HIDE DEF n
    <2> DEFINE lq == Len(q)
    <2>4. lq \in Nat /\ C > 0 /\ lq <= C /\ lq + new > C /\ gone = lq + new - C
      BY <1>1, <1>3, <2>1
    <2> HIDE DEF lq
    <2>5. PICK kept \in Nat, d \in Nat :
             /\ kept < C /\ d + kept = lq
             /\ kept = 0 \/ d = lq + new - C
      BY <2>1, <2>4, Lengths, Zenon
    <2>6. Copies(n, kept, q, d)
      <3>1. CASE kept = 0
        <4>1. 1 .. kept = {}
          BY <3>1
        <4> QED
          BY <4>1, Zenon DEF Copies
      <3>2. CASE d = gone
        <4>1. Copies(all, lq, q, 0)
          BY DEF lq
        <4> QED
          BY <2>1, <2>3, <2>4, <2>5, <3>2, <4>1, CopiesChain, Zenon
      <3> QED
        BY <2>4, <2>5, <3>1, <3>2
    <2>8. d = 0 \/ Len(n) = C
      BY <2>3
    <2>9. d + kept = Len(q) /\ kept < Len(n)
      BY <2>3, <2>5 DEF lq
    <2>7. \E m \in 1 .. Len(n) : Arrived(q, n, m, C)
      BY <2>1, <2>3, <2>5, <2>6, <2>8, <2>9, Keeping, Zenon
    <2> QED
      BY <2>1, <2>2, <2>3, <2>7
  <1> QED
    BY <1>1, <1>2, <1>3

-----------------------------------------------------------------------------
(* The types the steps need; deadlines and want are not bounded here.       *)
Read == [port : Nat, want : Nat, deadline : Nat]
Emu == [at : EmuAt, todo : SUBSET Workers, started : Nat, hasData : BOOLEAN, want : Nat]
Timeout == [interval : {0, 1}, mult : Nat, const : Nat]

LineType ==
  /\ sent \in [inputs : Nat, bytes : Nat]
  /\ serial \in Seq(Nat) /\ Len(serial) <= MaxSerialBytes /\ received \in Seq(Nat)
  /\ now \in Nat
  /\ emu \in Emu
  /\ tstate \in [Workers -> {"runnable", "serial", "wave"}]
  /\ port \in [Ports -> [state : {"unused", "open", "closed"}, timeouts : Timeout]]
  /\ reads \in [Workers -> Read]

(* Only parked threads have a pending read.                                 *)
ReadsInv ==
  \A t \in Workers : reads[t] # NoRead => tstate[t] = "serial" /\ reads[t].want > 0

(* What the emulator thread knows while it is not in the guest: the reads   *)
(* of its copy are still pending, and the answer it has chosen still holds. *)
EmuInv ==
  /\ emu.at = "read" => emu.want > 0
  /\ emu.at \in {"check", "answer"} =>
       emu.todo # {} /\ emu.started <= now /\ \A t \in emu.todo : reads[t] # NoRead
  /\ emu.at = "answer" /\ emu.hasData => serial # << >>
  /\ emu.at = "answer" /\ ~emu.hasData => TimedOut(Next1(emu.todo))

SInv == LineType /\ ReadsInv /\ EmuInv

(* Workers are numbers, so that a first one can be chosen.                  *)
LEMMA WorkersAreNumbers == Workers \subseteq Nat
  BY SerialAssumption DEF Workers

(* What a guest sets, and what a port starts with, are time-outs.           *)
LEMMA TimeoutTypes == Timeouts \cup {AtOnce} \subseteq Timeout
  BY SerialAssumption DEF Timeout, AtOnce

(* The invariant of the ports holds at first.                               *)
LEMMA InitInv == Init => SInv
  <1> SUFFICES ASSUME Init
               PROVE  SInv
    OBVIOUS
  <1>1. << >> \in Seq(Nat) /\ Len(<< >>) = 0
    BY EmptySeq
  <1>2. LineType
    BY <1>1, EndpointAssumption, TimeoutTypes
       DEF Init, EndpointInit, SerialInit, LineType, Emu, EmuAt, Read, NoRead
  <1>3. ReadsInv
    BY DEF Init, SerialInit, ReadsInv
  <1>4. EmuInv
    BY DEF Init, SerialInit, EmuInv
  <1> QED
    BY <1>2, <1>3, <1>4 DEF SInv

(* Steps that leave the ports and the line alone.                           *)
lineParts == <<serial, received, now, emu, tstate, port, reads>>

(* A step that leaves the ports alone is none of the line.                  *)
LEMMA Unmoved ==
  ASSUME SInv, UNCHANGED lineParts, sent' \in [inputs : Nat, bytes : Nat]
  PROVE  SInv' /\ UNCHANGED Line!lineVars
  <1>1. SInv'
    BY DEF SInv, lineParts, LineType, ReadsInv, EmuInv, TimedOut
  <1>2. UNCHANGED Line!lineVars
    BY DEF lineParts, Line!lineVars, Waiting
  <1> QED
    BY <1>1, <1>2

(* Steps of the emulator thread and the guest that change neither what      *)
(* waits nor the line: where the emulator is, which handles are open,       *)
(* which threads wait for the event.                                        *)
LEMMA OtherStep ==
  ASSUME SInv, UNCHANGED <<serial, received, now, reads, sent>>,
         tstate' \in [Workers -> {"runnable", "serial", "wave"}],
         \A t \in Workers : (tstate'[t] = "serial") <=> (tstate[t] = "serial"),
         port' \in [Ports -> [state : {"unused", "open", "closed"}, timeouts : Timeout]],
         emu' \in Emu, EmuInv'
  PROVE  SInv' /\ UNCHANGED Line!lineVars
  <1>1. SInv'
    BY DEF SInv, LineType, ReadsInv
  <1>2. UNCHANGED [t \in Workers |-> Waiting(t)]
    BY DEF Waiting
  <1> QED
    BY <1>1, <1>2 DEF Line!lineVars

(* Go changes where the emulator is and nothing else.                       *)
LEMMA GoType ==
  ASSUME SInv, NEW at \in EmuAt
  PROVE  Go(at) \in Emu /\ Go(at).at = at /\ Go(at).want = emu.want
         /\ Go(at).todo = emu.todo /\ Go(at).hasData = emu.hasData /\ Go(at).started = emu.started
  BY DEF SInv, LineType, Emu, Go

(* Where the emulator has nothing in hand, EmuInv says nothing.             *)
Idle == {"guest", "loop", "waves", "serial", "kernel"}

(* EmuInv asks for nothing where the emulator has nothing in hand.          *)
LEMMA IdleInv ==
  ASSUME emu'.at \in Idle
  PROVE  EmuInv'
  BY DEF EmuInv, Idle

(* Opening a port and setting its time-outs.                                *)
LEMMA OpenStep ==
  ASSUME SInv, NEW h \in Ports, OpenGuestSerialDevice(h) \/ SetCommTimeouts(h)
  PROVE  SInv' /\ UNCHANGED Line!lineVars
  <1>1. UNCHANGED <<serial, received, now, reads, sent, tstate, emu>>
    BY DEF OpenGuestSerialDevice, SetCommTimeouts, endpointVars
  <1>2. port' \in [Ports -> [state : {"unused", "open", "closed"}, timeouts : Timeout]]
    <2>1. CASE OpenGuestSerialDevice(h)
      <3>1. [state |-> "open", timeouts |-> AtOnce]
              \in [state : {"unused", "open", "closed"}, timeouts : Timeout]
        BY TimeoutTypes
      <3>2. port' = [port EXCEPT ![h] = [state |-> "open", timeouts |-> AtOnce]]
        BY <2>1 DEF OpenGuestSerialDevice
      <3> QED
        BY <3>1, <3>2 DEF SInv, LineType
    <2>2. CASE SetCommTimeouts(h)
      <3>1. PICK new \in Timeouts : port' = [port EXCEPT ![h].timeouts = new]
        BY <2>2 DEF SetCommTimeouts
      <3>2. new \in Timeout
        BY TimeoutTypes
      <3> QED
        BY <3>1, <3>2 DEF SInv, LineType
    <2> QED
      BY <2>1, <2>2
  <1>3. emu.at = "guest"
    BY DEF OpenGuestSerialDevice, SetCommTimeouts, Calls
  <1>4. EmuInv' /\ emu' \in Emu
    BY <1>1, <1>3 DEF EmuInv, SInv, LineType
  <1>5. tstate' \in [Workers -> {"runnable", "serial", "wave"}]
    BY <1>1 DEF SInv, LineType
  <1> QED
    BY <1>1, <1>2, <1>4, <1>5, OtherStep

(* The end of a slice and a turn of the host loop.                          *)
LEMMA HostMoves ==
  ASSUME SInv, EndSlice \/ HostLoop
  PROVE  SInv' /\ UNCHANGED Line!lineVars
  <1>1. UNCHANGED <<serial, received, now, reads, sent, tstate, port>>
    BY DEF EndSlice, HostLoop, DrainRemoteInputEvents, endpointVars
  <1>2. emu' \in Emu /\ emu'.at \in Idle
    BY GoType DEF EndSlice, HostLoop, EmuAt, Idle, SInv, LineType
  <1>3. EmuInv'
    BY <1>2, IdleInv
  <1>4. /\ tstate' \in [Workers -> {"runnable", "serial", "wave"}]
        /\ port' \in [Ports -> [state : {"unused", "open", "closed"}, timeouts : Timeout]]
    BY <1>1 DEF SInv, LineType
  <1> QED
    BY <1>1, <1>2, <1>3, <1>4, OtherStep

(* The copy of the pending reads that a refresh works on is made.           *)
LEMMA RefreshStarts ==
  ASSUME SInv, RefreshPendingSerialReads
  PROVE  SInv' /\ UNCHANGED Line!lineVars
  <1>1. UNCHANGED <<serial, received, now, reads, sent, tstate, port>>
    BY DEF RefreshPendingSerialReads, endpointVars
  <1>2. emu' \in Emu /\ EmuInv'
    <2>1. CASE Pending = {}
      <3>1. emu' \in Emu /\ emu'.at \in Idle
        BY <2>1, GoType DEF RefreshPendingSerialReads, EmuAt, Idle
      <3> QED
        BY <3>1, IdleInv
    <2>2. CASE Pending # {}
      <3>1. /\ emu' \in Emu /\ emu'.at = "check"
            /\ emu'.todo = Pending /\ emu'.started = now
        BY <2>2 DEF RefreshPendingSerialReads, Go, SInv, LineType, Emu, EmuAt, Pending
      <3>2. now' = now /\ reads' = reads /\ now <= now
        BY <1>1 DEF SInv, LineType
      <3>3. \A t \in Pending : reads[t] # NoRead
        BY DEF Pending
      <3> QED
        BY <2>2, <3>1, <3>2, <3>3 DEF EmuInv
    <2> QED
      BY <2>1, <2>2
  <1>3. /\ tstate' \in [Workers -> {"runnable", "serial", "wave"}]
        /\ port' \in [Ports -> [state : {"unused", "open", "closed"}, timeouts : Timeout]]
    BY <1>1 DEF SInv, LineType
  <1> QED
    BY <1>1, <1>2, <1>3, OtherStep

(* What the waits for the event change.                                     *)
LEMMA WaveStep ==
  ASSUME SInv, Wave
  PROVE  SInv' /\ UNCHANGED Line!lineVars
  <1>1. CASE WaitForEvent
    <2>1. emu.at = "guest" /\ Player \in Workers /\ UNCHANGED <<serial, received, now, reads, sent, port>>
          /\ (tstate[Player] = "runnable" \/ Player = Main)
      BY <1>1, WaveAssumption, SerialAssumption DEF WaitForEvent, Calls, endpointVars, Player, Workers
    <2>2. /\ tstate' \in [Workers -> {"runnable", "serial", "wave"}]
          /\ \A t \in Workers : (tstate'[t] = "serial") <=> (tstate[t] = "serial")
      BY <1>1, <2>1, SerialAssumption DEF WaitForEvent, Calls, SInv, LineType
    <2>3. emu' \in Emu /\ emu'.at \in Idle
      BY <1>1, <2>1, GoType DEF WaitForEvent, EmuAt, Idle, SInv, LineType
    <2>4. port' \in [Ports -> [state : {"unused", "open", "closed"}, timeouts : Timeout]]
      BY <2>1 DEF SInv, LineType
    <2> QED
      BY <2>1, <2>2, <2>3, <2>4, IdleInv, OtherStep
  <1>2. CASE RefreshCompletedHostWaveBuffers
    <2>1. UNCHANGED <<serial, received, now, reads, sent, port>>
      BY <1>2 DEF RefreshCompletedHostWaveBuffers, endpointVars
    <2>2. /\ tstate' \in [Workers -> {"runnable", "serial", "wave"}]
          /\ \A t \in Workers : (tstate'[t] = "serial") <=> (tstate[t] = "serial")
      BY <1>2 DEF RefreshCompletedHostWaveBuffers, SInv, LineType
    <2>3. emu' \in Emu /\ emu'.at \in Idle
      BY <1>2, GoType DEF RefreshCompletedHostWaveBuffers, EmuAt, Idle
    <2>4. port' \in [Ports -> [state : {"unused", "open", "closed"}, timeouts : Timeout]]
      BY <2>1 DEF SInv, LineType
    <2> QED
      BY <2>1, <2>2, <2>3, <2>4, IdleInv, OtherStep
  <1>3. CASE RefreshSignaledWaits
    <2>1. UNCHANGED <<serial, received, now, reads, sent, port>>
      BY <1>3 DEF RefreshSignaledWaits, endpointVars
    <2>2. /\ tstate' \in [Workers -> {"runnable", "serial", "wave"}]
          /\ \A t \in Workers : (tstate'[t] = "serial") <=> (tstate[t] = "serial")
      <3> DEFINE parked == {t \in Workers : tstate[t] = "wave"}
      <3>1. CASE tstate' = tstate
        BY <3>1 DEF SInv, LineType
      <3>2. CASE parked # {} /\ tstate' = [tstate EXCEPT ![Next1(parked)] = "runnable"]
        <4>1. parked \in SUBSET Nat
          BY WorkersAreNumbers
        <4>2. Next1(parked) \in parked
          BY <3>2, <4>1, Next1Member
        <4>3. Next1(parked) \in Workers /\ tstate[Next1(parked)] = "wave"
          BY <4>2
        <4> HIDE DEF parked
        <4> QED
          BY <3>2, <4>3 DEF SInv, LineType
      <3> QED
        BY <1>3, <3>1, <3>2 DEF RefreshSignaledWaits
    <2>3. emu' \in Emu /\ emu'.at \in Idle
      BY <1>3, GoType DEF RefreshSignaledWaits, EmuAt, Idle
    <2>4. port' \in [Ports -> [state : {"unused", "open", "closed"}, timeouts : Timeout]]
      BY <2>1 DEF SInv, LineType
    <2> QED
      BY <2>1, <2>2, <2>3, <2>4, IdleInv, OtherStep
  <1>4. ASSUME UNCHANGED <<endpointVars, now, emu, port, reads, received>>, UNCHANGED tstate
        PROVE  SInv' /\ UNCHANGED Line!lineVars
    BY <1>4, Unmoved DEF endpointVars, lineParts, SInv, LineType
  <1>5. CASE GuestWaveCall
    <2>1. ASSUME NEW h \in Streams, NEW f \in Formats, WaveOutOpen(h, f)
          PROVE  SInv' /\ UNCHANGED Line!lineVars
      BY <1>4, <2>1, Zenon DEF WaveOutOpen, Other
    <2>2. ASSUME NEW h \in Streams, NEW x \in Headers, NEW size \in Sizes, WaveOutWrite(h, x, size)
          PROVE  SInv' /\ UNCHANGED Line!lineVars
      BY <1>4, <2>2, Zenon DEF WaveOutWrite, Other
    <2>3. ASSUME NEW h \in Streams, NEW x \in Headers,
                 WaveOutWriteFails(h, x) \/ WaveOutUnprepareHeader(h, x)
          PROVE  SInv' /\ UNCHANGED Line!lineVars
      BY <1>4, <2>3, Zenon DEF WaveOutWriteFails, WaveOutUnprepareHeader, Other
    <2>4. ASSUME NEW h \in Streams, WaveOutReset(h) \/ WaveOutClose(h) \/ CloseWaveHandle(h)
          PROVE  SInv' /\ UNCHANGED Line!lineVars
      BY <1>4, <2>4, Zenon DEF WaveOutReset, WaveOutClose, CloseWaveHandle, Other
    <2> QED
      BY <1>1, <1>5, <2>1, <2>2, <2>3, <2>4, Zenon DEF GuestWaveCall
  <1>6. CASE Backend
    BY <1>4, <1>6 DEF Backend, BackendTake, BackendPlayed, serialVars
  <1> QED
    BY <1>2, <1>3, <1>5, <1>6 DEF Wave

(* Audio clients have nothing to do with the ports.                         *)
LEMMA ClientMoves ==
  ASSUME SInv, NEW c \in Clients, ClientStep(c)
  PROVE  SInv' /\ UNCHANGED Line!lineVars
  <1>1. UNCHANGED <<endpointVars, serialVars>>
    BY Zenon DEF ClientStep, RegisterRemoteAudioClient, WaitForRemoteAudioChunks, TakeRemoteAudioChunk,
           Paced, UnregisterRemoteAudioClient, Still
  <1> QED
    BY <1>1, Unmoved DEF endpointVars, serialVars, lineParts, SInv, LineType

-----------------------------------------------------------------------------
(* The steps of the line.  New bytes behind what it holds are an arrival.   *)
LEMMA InjectStep ==
  ASSUME SInv, NEW s \in Sessions, NEW n \in 1 .. 2, InjectRemoteSerialBytes(s, n),
         UNCHANGED serialVars
  PROVE  SInv' /\ Line!Arrive
  <1> DEFINE more == [i \in 1 .. n |-> sent.bytes + i]
             all  == serial \o more
             C    == MaxSerialBytes
  <1>1. /\ serial \in Seq(Nat) /\ Len(serial) <= C /\ C \in Nat \ {0} /\ Len(serial) \in Nat
        /\ sent.bytes \in Nat /\ n \in Nat /\ n > 0
    BY EndpointAssumption, LenProperties DEF SInv, LineType
  <1>2. more \in Seq(Nat) /\ Len(more) = n
    BY <1>1, NewBytes
  <1> HIDE DEF more
  <1>3. /\ all \in Seq(Nat) /\ Len(all) = Len(serial) + n
        /\ \A i \in 1 .. Len(serial) + n : all[i] = IF i <= Len(serial) THEN serial[i]
                                                                        ELSE more[i - Len(serial)]
    BY <1>1, <1>2, ConcatProperties
  <1>4. Copies(all, Len(serial), serial, 0)
    <2> DEFINE lq == Len(serial)
    <2> SUFFICES ASSUME NEW i \in 1 .. lq
                 PROVE  all[i] = serial[0 + i]
      BY DEF Copies
    <2>1. i \in 1 .. lq + n /\ i <= lq /\ 0 + i = i
      BY <1>1
    <2> HIDE DEF all, lq
    <2> QED
      BY <1>3, <2>1 DEF lq
  <1> HIDE DEF all
  <1>5. serial' = Cut(all, C)
    BY DEF InjectRemoteSerialBytes, Newest, Cut, all, more
  <1> HIDE DEF C
  <1>6. /\ serial' \in Seq(Nat) /\ Len(serial') \in 1 .. C
        /\ \E m \in 1 .. Len(serial') : Arrived(serial, serial', m, C)
    <2>1. /\ Cut(all, C) \in Seq(Nat) /\ Len(Cut(all, C)) \in 1 .. C
          /\ \E m \in 1 .. Len(Cut(all, C)) : Arrived(serial, Cut(all, C), m, C)
      BY <1>1, <1>3, <1>4, NewestBytes
    <2> QED
      BY <1>5, <2>1, Zenon
  <1>7. serial' # << >> /\ Len(serial') <= C
    BY <1>1, <1>6, EmptySeq
  <1>8. sent' \in [inputs : Nat, bytes : Nat]
    <2>1. sent' = [sent EXCEPT !.bytes = @ + n]
      BY Zenon DEF InjectRemoteSerialBytes
    <2>2. sent \in [inputs : Nat, bytes : Nat]
      BY DEF SInv, LineType
    <2> QED
      BY <1>1, <2>1, <2>2
  <1>9. SInv'
    BY <1>6, <1>7, <1>8 DEF SInv, LineType, ReadsInv, EmuInv, TimedOut, serialVars, C
  <1>10. UNCHANGED <<received, [t \in Workers |-> Waiting(t)], now>>
    BY DEF serialVars, Waiting
  <1>11. Line!Arrive
    <2>1. PICK m \in 1 .. Len(serial') : Arrived(serial, serial', m, C)
      BY <1>6
    <2> QED
      BY <1>10, <2>1, Zenon DEF Line!Arrive, Arrived, C
  <1> QED
    BY <1>9, <1>11

(* A request of a server thread is an arrival, or nothing to the line.      *)
LEMMA EndpointStep ==
  ASSUME SInv, Endpoint
  PROVE  SInv' /\ (Line!Arrive \/ UNCHANGED Line!lineVars)
  <1>1. PICK s \in Sessions : SessionStep(s)
    BY DEF Endpoint
  <1>2. UNCHANGED serialVars
    BY DEF Endpoint
  <1>3. ASSUME NEW n \in 1 .. 2, InjectRemoteSerialBytes(s, n)
        PROVE  SInv' /\ (Line!Arrive \/ UNCHANGED Line!lineVars)
    BY <1>2, <1>3, InjectStep
  <1>4. ASSUME UNCHANGED serial, sent' \in [inputs : Nat, bytes : Nat]
        PROVE  SInv' /\ (Line!Arrive \/ UNCHANGED Line!lineVars)
    BY <1>2, <1>4, Unmoved DEF serialVars, lineParts
  <1>5. ASSUME UNCHANGED serial,
               sent' = [sent EXCEPT !.inputs = NewNumber] \/ UNCHANGED sent
        PROVE  SInv' /\ (Line!Arrive \/ UNCHANGED Line!lineVars)
    <2>1. sent' \in [inputs : Nat, bytes : Nat]
      BY <1>5, SMTT(20) DEF SInv, LineType, NewNumber
    <2> QED
      BY <1>4, <1>5, <2>1
  <1>6. ASSUME NEW phase \in Touches, EnqueueRemoteTouch(s, phase)
        PROVE  SInv' /\ (Line!Arrive \/ UNCHANGED Line!lineVars)
    BY <1>5, <1>6, Zenon DEF EnqueueRemoteTouch
  <1>7. CASE EnqueueRemoteKey(s)
    BY <1>5, <1>7, Zenon DEF EnqueueRemoteKey
  <1>8. CASE NotifyRemoteInputQueued(s) \/ SetPaused(s)
    BY <1>5, <1>8, Zenon DEF NotifyRemoteInputQueued, SetPaused
  <1> QED
    BY <1>1, <1>3, <1>6, <1>7, <1>8, Zenon DEF SessionStep

(* Time passes: what has timed out stays timed out.                         *)
LEMMA TickStep ==
  ASSUME SInv, Tick
  PROVE  SInv' /\ Line!Pass
  <1>1. now' = now + 1 /\ now' \in Nat /\ now' > now /\ emu.started \in Nat
        /\ (emu.started <= now => emu.started <= now')
    BY DEF Tick, SInv, LineType, Emu
  <1>2. UNCHANGED <<serial, sent, received, emu, tstate, port, reads>>
    BY DEF Tick, endpointVars
  <1>3. SInv'
    BY <1>1, <1>2 DEF SInv, LineType, ReadsInv, EmuInv, TimedOut
  <1>4. UNCHANGED <<serial, received, [t \in Workers |-> Waiting(t)]>>
    BY <1>2 DEF Waiting
  <1> QED
    BY <1>1, <1>3, <1>4, Zenon DEF Line!Pass

(* n bytes, or as many as there are, go from the line to the reader.        *)
Shorter(n) == IF n < Len(serial) THEN n ELSE Len(serial)

(* Reading takes the oldest bytes, as many as are wanted or there are.      *)
LEMMA TakeStep ==
  ASSUME SInv, NEW n \in Nat, n > 0, TakeBytes(n)
  PROVE  /\ serial' \in Seq(Nat) /\ Len(serial') <= MaxSerialBytes /\ received' \in Seq(Nat)
         /\ UNCHANGED sent
         /\ serial # << >> => /\ Shorter(n) \in 1 .. Len(serial) /\ Line!Take(Shorter(n))
                              /\ Shorter(n) <= n
                              /\ Shorter(n) = n \/ Shorter(n) = Len(serial)
         /\ serial = << >> => UNCHANGED <<serial, received>>
  <1> DEFINE m == Shorter(n)
  <1>1. serial \in Seq(Nat) /\ received \in Seq(Nat) /\ Len(serial) \in Nat
        /\ Len(serial) <= MaxSerialBytes /\ MaxSerialBytes \in Nat
    BY LenProperties, EndpointAssumption DEF SInv, LineType
  <1>2. m \in 0 .. Len(serial) /\ m <= n /\ (m = n \/ m = Len(serial))
        /\ (Len(serial) # 0 => m \in 1 .. Len(serial))
    BY <1>1 DEF Shorter
  <1>3. received' = received \o SubSeq(serial, 1, m)
        /\ serial' = SubSeq(serial, Len(SubSeq(serial, 1, m)) + 1, Len(serial))
    BY DEF TakeBytes, Oldest, Rest, Shorter
  <1> HIDE DEF m
  <1>4. /\ SubSeq(serial, 1, m) \in Seq(Nat) /\ Len(SubSeq(serial, 1, m)) = m
        /\ SubSeq(serial, m + 1, Len(serial)) \in Seq(Nat)
        /\ Len(SubSeq(serial, m + 1, Len(serial))) = Len(serial) - m
    BY <1>1, <1>2, RestOfLine
  <1>5. serial' = SubSeq(serial, m + 1, Len(serial))
    BY <1>3, <1>4
  <1>6. serial' \in Seq(Nat) /\ Len(serial') = Len(serial) - m /\ Len(serial') <= MaxSerialBytes
    <2>1. Len(serial) - m <= MaxSerialBytes
      BY <1>1, <1>2
    <2> QED
      BY <1>4, <1>5, <2>1
  <1>7. received' \in Seq(Nat)
    BY <1>1, <1>3, <1>4, ConcatProperties
  <1>8. Line!Take(m)
    BY <1>3, <1>5, Zenon DEF Line!Take
  <1>9. serial # << >> => Len(serial) # 0
    BY <1>1, EmptySeq
  <1>10. ASSUME serial = << >>
         PROVE  UNCHANGED <<serial, received>>
    <2>1. Len(serial) = 0 /\ m = 0
      BY <1>2, <1>10, EmptySeq
    <2>2. SubSeq(serial, 1, m) = << >>
      BY <1>4, <2>1, EmptySeq
    <2>3. Len(serial') = 0
      BY <1>6, <2>1
    <2>4. serial' = << >>
      BY <1>6, <2>3, EmptySeq
    <2>5. received' = received
      BY <1>1, <1>3, <2>2, ConcatEmptySeq
    <2> QED
      BY <1>10, <2>4, <2>5
  <1>11. UNCHANGED sent
    BY DEF TakeBytes
  <1> QED
    BY <1>2, <1>6, <1>7, <1>8, <1>9, <1>10, <1>11 DEF m

(* A ReadFile that does not park, or finds no bytes.                        *)
LEMMA ReadStep ==
  ASSUME SInv, HandleReadFile
  PROVE  SInv' /\ (Line!Read \/ UNCHANGED Line!lineVars)
  <1>1. emu.want \in Nat /\ emu.want > 0 /\ TakeBytes(emu.want)
    BY DEF SInv, LineType, EmuInv, Emu, HandleReadFile
  <1>2. UNCHANGED <<now, tstate, port, reads>>
    BY DEF HandleReadFile
  <1>3. emu' \in Emu /\ emu'.at \in Idle
    <2>1. emu' = [Go("guest") EXCEPT !.want = 0]
      BY DEF HandleReadFile
    <2>2. Go("guest") \in Emu /\ Go("guest").at = "guest"
      BY GoType DEF EmuAt
    <2> QED
      BY <2>1, <2>2 DEF Emu, Idle
  <1>4. /\ serial' \in Seq(Nat) /\ Len(serial') <= MaxSerialBytes /\ received' \in Seq(Nat)
        /\ UNCHANGED sent
    BY <1>1, TakeStep
  <1>5. SInv'
    BY <1>2, <1>3, <1>4, IdleInv DEF SInv, LineType, ReadsInv
  <1>6. UNCHANGED <<[t \in Workers |-> Waiting(t)], now>>
    BY <1>2 DEF Waiting
  <1>7. CASE serial = << >>
    <2>1. UNCHANGED <<serial, received>>
      BY <1>1, <1>7, TakeStep
    <2> QED
      BY <1>5, <1>6, <2>1 DEF Line!lineVars
  <1>8. CASE serial # << >>
    <2>1. Shorter(emu.want) \in 1 .. Len(serial) /\ Line!Take(Shorter(emu.want))
      BY <1>1, <1>8, TakeStep
    <2> QED
      BY <1>5, <1>6, <2>1, Zenon DEF Line!Read
  <1> QED
    BY <1>7, <1>8

(* A handle is closed: who waits at it waits for ever.                      *)
LEMMA CloseStep ==
  ASSUME SInv, NEW h \in Ports, CloseSerial(h)
  PROVE  SInv' /\ Line!Abandon
  <1> DEFINE gone == {t \in Workers : reads[t].port = h}
  <1>1. UNCHANGED <<serial, sent, received, now, emu, tstate>> /\ emu.at = "guest"
    BY DEF CloseSerial, endpointVars, Calls
  <1>2. reads' = [t \in Workers |-> IF reads[t].port = h THEN NoRead ELSE reads[t]]
    BY DEF CloseSerial
  <1>3. NoRead \in Read /\ NoRead.port # h /\ h \in Nat
    BY SerialAssumption DEF NoRead, Read, Ports
  <1>4. \A t \in gone : reads[t] # NoRead /\ tstate[t] = "serial" /\ reads[t].want > 0
    BY <1>3 DEF SInv, ReadsInv
  <1>5. SInv'
    <2>1. reads' \in [Workers -> Read]
      BY <1>2, <1>3 DEF SInv, LineType
    <2>2. port' \in [Ports -> [state : {"unused", "open", "closed"}, timeouts : Timeout]]
      BY DEF CloseSerial, SInv, LineType
    <2>3. ReadsInv'
      BY <1>1, <1>2 DEF SInv, ReadsInv
    <2>4. EmuInv'
      BY <1>1, IdleInv DEF Idle
    <2> QED
      BY <1>1, <2>1, <2>2, <2>3, <2>4 DEF SInv, LineType
  <1>6. ASSUME NEW t \in gone
        PROVE  /\ Waiting(t) # Line!NoWait /\ Waiting(t) # Line!Forgotten
               /\ Waiting(t)' = Line!Forgotten
    <2>1. reads[t] # NoRead /\ reads[t].want > 0 /\ tstate[t] = "serial" /\ t \in Workers
      BY <1>4
    <2>2. Waiting(t).want # 0
      BY <2>1 DEF Waiting, SInv, LineType, Read
    <2>3. reads'[t] = NoRead /\ tstate'[t] = "serial"
      BY <1>1, <1>2, <2>1
    <2> QED
      BY <2>2, <2>3 DEF Line!NoWait, Line!Forgotten, Waiting
  <1>7. ASSUME NEW t \in Workers \ gone
        PROVE  Waiting(t)' = Waiting(t)
    <2>1. reads'[t] = reads[t] /\ tstate'[t] = tstate[t]
      BY <1>1, <1>2
    <2> QED
      BY <2>1 DEF Waiting
  <1> HIDE DEF gone
  <1>8. gone \in SUBSET Workers
    BY DEF gone
  <1>9. \A t \in gone : Line!Waits(t)
    BY <1>6, <1>8 DEF Line!Waits
  <1>10. [t \in Workers |-> Waiting(t)]'
           = [t \in Workers |-> IF t \in gone THEN Line!Forgotten
                                ELSE [u \in Workers |-> Waiting(u)][t]]
    BY <1>6, <1>7
  <1> QED
    BY <1>1, <1>5, <1>8, <1>9, <1>10, Zenon DEF Line!Abandon

(* The deadline of a read that parks is none or in the future.              *)
LEMMA DecisionType ==
  ASSUME SInv, NEW h \in Ports, NEW n \in 1 .. 2, Decision(h, n) # 0
  PROVE  \/ Decision(h, n) = -1
         \/ Decision(h, n) \in Nat /\ Decision(h, n) > now
  <1> DEFINE to == port[h].timeouts
             product == to.mult * n
             total == product + to.const
  <1>1. to \in Timeout /\ now \in Nat
    BY DEF SInv, LineType
  <1>2. to.mult \in Nat /\ to.const \in Nat /\ n \in Nat
    BY <1>1 DEF Timeout
  <1>3. product \in Nat
    <2>1. n = 1 \/ n = 2
      OBVIOUS
    <2>2. n = 1 => product = to.mult
      BY <1>2
    <2>3. n = 2 => product = to.mult + to.mult
      BY <1>2
    <2> QED
      BY <1>2, <2>1, <2>2, <2>3
  <1>4. total \in Nat
    <2> HIDE DEF product
    <2> QED
      BY <1>2, <1>3
  <1>5. Decision(h, n) = CASE to = AtOnce -> 0 [] total = 0 -> -1 [] OTHER -> now + total
    BY DEF Decision
  <1> HIDE DEF to, total
  <1>6. total # 0 => now + total \in Nat /\ now + total > now
    BY <1>1, <1>4
  <1> QED
    BY <1>5, <1>6

(* A thread parks: it had no read pending, and there are no bytes.          *)
LEMMA ParkStep ==
  ASSUME SInv, NEW h \in Ports, NEW t \in Workers, NEW n \in 1 .. 2,
         tstate[t] = "runnable", serial = << >>, Decision(h, n) # 0, Park(t, h, n),
         UNCHANGED <<endpointVars, now, port, received>>
  PROVE  SInv' /\ Line!Wait(t)
  <1> DEFINE deadline == IF Decision(h, n) = -1 THEN NoDeadline ELSE Decision(h, n)
  <1>1. /\ tstate' = [tstate EXCEPT ![t] = "serial"]
        /\ reads' = [reads EXCEPT ![t] = [port |-> h, want |-> n, deadline |-> deadline]]
        /\ emu' = Go("waves")
    BY DEF Park
  <1>2. deadline \in Nat /\ (deadline # 0 => deadline > now)
    BY DecisionType DEF NoDeadline
  <1> HIDE DEF deadline
  <1>3. [port |-> h, want |-> n, deadline |-> deadline] \in Read /\ n > 0 /\ n # 0
    BY <1>2 DEF Read, Ports
  <1>4. emu' \in Emu /\ emu'.at \in Idle
    BY <1>1, GoType DEF EmuAt, Idle
  <1>5. UNCHANGED <<serial, sent, received, now, port>>
    BY DEF endpointVars
  <1>6. /\ reads \in [Workers -> Read] /\ reads' \in [Workers -> Read]
        /\ tstate \in [Workers -> {"runnable", "serial", "wave"}]
        /\ tstate' \in [Workers -> {"runnable", "serial", "wave"}]
    BY <1>1, <1>3 DEF SInv, LineType
  <1>7. /\ reads'[t] = [port |-> h, want |-> n, deadline |-> deadline] /\ tstate'[t] = "serial"
        /\ \A u \in Workers \ {t} : reads'[u] = reads[u] /\ tstate'[u] = tstate[u]
    BY <1>1, <1>6
  <1>8. SInv'
    <2>1. ReadsInv'
      BY <1>3, <1>6, <1>7 DEF SInv, ReadsInv
    <2> QED
      BY <1>4, <1>5, <1>6, <2>1, IdleInv DEF SInv, LineType
  <1> DEFINE new == [want |-> n, deadline |-> deadline]
  <1>9. reads[t] = NoRead
    BY DEF SInv, ReadsInv
  <1>10. Waiting(t) = Line!NoWait
    BY <1>9 DEF Waiting, Line!NoWait, NoRead
  <1>11. Waiting(t)' = new
    <2>1. reads'[t] # NoRead
      BY <1>3, <1>7 DEF NoRead
    <2> QED
      BY <1>7, <2>1 DEF Waiting
  <1>12. ASSUME NEW u \in Workers \ {t}
         PROVE  Waiting(u)' = Waiting(u)
    BY <1>7 DEF Waiting
  <1>13. new.want = n /\ new.deadline = deadline
    OBVIOUS
  <1> HIDE DEF new
  <1>14. [u \in Workers |-> Waiting(u)]'
           = [[u \in Workers |-> Waiting(u)] EXCEPT ![t] = new]
    BY <1>11, <1>12
  <1>15. [u \in Workers |-> Waiting(u)]'[t] = new /\ [u \in Workers |-> Waiting(u)][t] = Line!NoWait
    BY <1>10, <1>11
  <1>16. Line!Wait(t)
    BY <1>2, <1>3, <1>5, <1>13, <1>14, <1>15 DEF Line!Wait
  <1> QED
    BY <1>8, <1>16

(* ReadFile parks its thread, or leaves the line as it is.                  *)
LEMMA ReadFileStep ==
  ASSUME SInv, NEW t \in Callers, NEW h \in Ports, NEW n \in 1 .. 2, ReadFile(t, h, n)
  PROVE  SInv' /\ ((\E r \in Workers : Line!Wait(r)) \/ UNCHANGED Line!lineVars)
  <1>1. /\ Calls(t, "read")
        /\ UNCHANGED <<endpointVars, now, port, received>>
    BY DEF ReadFile
  <1>2. CASE serial = << >> /\ t # Main /\ Decision(h, n) # 0
    <2>1. t \in Workers /\ tstate[t] = "runnable" /\ Park(t, h, n)
      BY <1>1, <1>2 DEF ReadFile, Callers, Calls
    <2> QED
      BY <1>1, <1>2, <2>1, ParkStep
  <1>3. CASE ~(serial = << >> /\ t # Main /\ Decision(h, n) # 0)
    <2>1. emu' = [Go("read") EXCEPT !.want = n] /\ UNCHANGED <<tstate, reads>>
      BY <1>3, Zenon DEF ReadFile
    <2>2. Go("read") \in Emu /\ Go("read").at = "read"
      BY GoType DEF EmuAt
    <2>3. emu' \in Emu /\ emu'.at = "read" /\ emu'.want = n /\ n > 0
      BY <2>1, <2>2 DEF Emu
    <2>4. EmuInv'
      BY <2>3 DEF EmuInv
    <2>5. /\ tstate' \in [Workers -> {"runnable", "serial", "wave"}]
          /\ port' \in [Ports -> [state : {"unused", "open", "closed"}, timeouts : Timeout]]
      BY <1>1, <2>1 DEF SInv, LineType
    <2> QED
      BY <1>1, <2>1, <2>3, <2>4, <2>5, OtherStep DEF endpointVars
  <1> QED
    BY <1>2, <1>3

(* Done with the first of the copy.                                         *)
LEMMA AfterStep ==
  ASSUME SInv, emu.at \in {"check", "answer"}, emu' = After(emu), UNCHANGED now,
         \A t \in emu.todo \ {Next1(emu.todo)} : reads'[t] # NoRead
  PROVE  emu' \in Emu /\ EmuInv'
  <1> DEFINE left == emu.todo \ {Next1(emu.todo)}
  <1>1. emu \in Emu /\ left \in SUBSET Workers /\ emu.started <= now
    BY DEF SInv, LineType, Emu, EmuInv
  <1>2. emu' = [emu EXCEPT !.todo = left, !.at = IF left = {} THEN "kernel" ELSE "check",
                           !.started = IF left = {} THEN 0 ELSE @, !.hasData = FALSE]
    BY DEF After
  <1> HIDE DEF left
  <1>3. emu' \in Emu /\ emu'.todo = left
    <2> DEFINE at == IF left = {} THEN "kernel" ELSE "check"
               started == IF left = {} THEN 0 ELSE emu.started
    <2>1. at \in EmuAt /\ started \in Nat
      BY <1>1 DEF EmuAt, Emu
    <2>2. emu' = [emu EXCEPT !.todo = left, !.at = at, !.started = started, !.hasData = FALSE]
      BY <1>1, <1>2 DEF Emu
    <2> HIDE DEF at, started
    <2> QED
      BY <1>1, <2>1, <2>2 DEF Emu
  <1>4. CASE left = {}
    BY <1>1, <1>2, <1>4, IdleInv, <1>3 DEF Emu, Idle
  <1>5. CASE left # {}
    <2>1. emu'.at = "check" /\ emu'.started = emu.started
      BY <1>1, <1>2, <1>5 DEF Emu
    <2>2. \A t \in left : reads'[t] # NoRead
      BY DEF left
    <2> QED
      BY <1>1, <1>3, <1>5, <2>1, <2>2 DEF EmuInv
  <1> QED
    BY <1>3, <1>4, <1>5

(* The first thread of a refresh's copy is parked with a read.              *)
LEMMA First ==
  ASSUME SInv, emu.at \in {"check", "answer"}
  PROVE  /\ Next1(emu.todo) \in emu.todo /\ Next1(emu.todo) \in Workers
         /\ reads[Next1(emu.todo)] # NoRead /\ tstate[Next1(emu.todo)] = "serial"
         /\ reads[Next1(emu.todo)].want > 0
  <1>1. emu.todo \in SUBSET Workers /\ emu.todo # {} /\ \A t \in emu.todo : reads[t] # NoRead
    BY DEF SInv, LineType, Emu, EmuInv
  <1>2. emu.todo \in SUBSET Nat
    BY <1>1, WorkersAreNumbers
  <1>3. Next1(emu.todo) \in emu.todo
    BY <1>1, <1>2, Next1Member
  <1> QED
    BY <1>1, <1>3 DEF SInv, ReadsInv

(* What a refresh finds out about the first of its copy.                    *)
LEMMA CheckStep ==
  ASSUME SInv, CheckRead
  PROVE  SInv' /\ UNCHANGED Line!lineVars
  <1> DEFINE t == Next1(emu.todo)
  <1>1. /\ t \in emu.todo /\ t \in Workers /\ reads[t] # NoRead /\ tstate[t] = "serial"
        /\ emu.at = "check"
    BY First DEF CheckRead
  <1>2. /\ emu' = IF StillWaits(t) THEN After(emu)
                  ELSE [Go("answer") EXCEPT !.hasData = serial # << >>]
        /\ UNCHANGED <<endpointVars, now, tstate, port, reads, received>>
    BY <1>1 DEF CheckRead
  <1>3. UNCHANGED <<serial, received, now, reads, sent, tstate, port>>
    BY <1>2 DEF endpointVars
  <1>4. \A u \in emu.todo : reads[u] # NoRead
    BY <1>1 DEF SInv, EmuInv
  <1>5. emu' \in Emu /\ EmuInv'
    <2>1. CASE StillWaits(t)
      BY <1>1, <1>2, <1>3, <1>4, <2>1, AfterStep
    <2>2. CASE ~StillWaits(t)
      <3>1. Go("answer") \in Emu /\ Go("answer").at = "answer" /\ Go("answer").todo = emu.todo
            /\ Go("answer").started = emu.started
        BY GoType DEF EmuAt
      <3>2. /\ emu' \in Emu /\ emu'.at = "answer" /\ emu'.todo = emu.todo
            /\ emu'.started = emu.started /\ emu'.hasData = (serial # << >>)
        BY <1>2, <2>2, <3>1 DEF Emu
      <3>3. emu.todo # {} /\ emu.started <= now
        BY <1>1 DEF SInv, EmuInv
      <3>4. serial = << >> => TimedOut(t)'
        BY <1>3, <2>2, <3>2 DEF StillWaits, TimedOut
      <3> QED
        BY <1>1, <1>3, <1>4, <3>2, <3>3, <3>4 DEF EmuInv
    <2> QED
      BY <2>1, <2>2
  <1>6. /\ tstate' \in [Workers -> {"runnable", "serial", "wave"}]
        /\ port' \in [Ports -> [state : {"unused", "open", "closed"}, timeouts : Timeout]]
    BY <1>3 DEF SInv, LineType
  <1> QED
    BY <1>3, <1>5, <1>6, OtherStep

(* The first of the copy runs again: with bytes it was served, without any  *)
(* its time had passed when the refresh began, and so it has now.           *)
LEMMA AnswerStep ==
  ASSUME SInv, AnswerRead
  PROVE  SInv' /\ \E r \in Workers : Line!Serve(r) \/ Line!Expire(r)
  <1>0. PICK t \in Workers : t = Next1(emu.todo)
    BY First DEF AnswerRead
  <1>1. /\ t \in emu.todo /\ t \in Workers /\ reads[t] # NoRead /\ tstate[t] = "serial"
        /\ emu.at = "answer" /\ reads[t].want > 0
    BY <1>0, First DEF AnswerRead
  <1>2. /\ IF emu.hasData THEN TakeBytes(reads[t].want) ELSE UNCHANGED <<endpointVars, received>>
        /\ tstate' = [tstate EXCEPT ![t] = "runnable"]
        /\ reads' = [reads EXCEPT ![t] = NoRead]
        /\ emu' = After(emu)
        /\ UNCHANGED <<now, port>>
    BY <1>0, Zenon DEF AnswerRead
  <1>3. /\ reads \in [Workers -> Read] /\ reads' \in [Workers -> Read]
        /\ tstate \in [Workers -> {"runnable", "serial", "wave"}]
        /\ tstate' \in [Workers -> {"runnable", "serial", "wave"}]
    BY <1>2 DEF SInv, LineType, Read, NoRead
  <1>4. /\ reads'[t] = NoRead /\ tstate'[t] = "runnable"
        /\ \A u \in Workers \ {t} : reads'[u] = reads[u] /\ tstate'[u] = tstate[u]
    BY <1>1, <1>2, <1>3
  <1>5. \A u \in emu.todo \ {t} : reads'[u] # NoRead
    <2>1. \A u \in emu.todo : u \in Workers /\ reads[u] # NoRead
      BY <1>1 DEF SInv, LineType, Emu, EmuInv
    <2> QED
      BY <1>4, <2>1
  <1>6. emu' \in Emu /\ EmuInv'
    BY <1>0, <1>1, <1>2, <1>5, AfterStep
  <1>7. ReadsInv'
    BY <1>3, <1>4 DEF SInv, ReadsInv
  <1>8. Waiting(t) = [want |-> reads[t].want, deadline |-> reads[t].deadline]
    BY <1>1 DEF Waiting
  <1>9. Waiting(t)' = Line!NoWait
    BY <1>4 DEF Waiting, Line!NoWait, NoRead
  <1>10. ASSUME NEW u \in Workers \ {t}
         PROVE  Waiting(u)' = Waiting(u)
    BY <1>4 DEF Waiting
  <1> DEFINE waits == [u \in Workers |-> Waiting(u)]
  <1>11. waits' = [waits EXCEPT ![t] = Line!NoWait]
    BY <1>9, <1>10
  <1>12. waits[t].want = reads[t].want /\ waits[t].deadline = reads[t].deadline
    BY <1>1, <1>8
  <1>13. reads[t].want \in Nat
    BY <1>1, <1>3 DEF Read
  <1>14. Line!Waits(t)
    BY <1>1, <1>12, <1>13 DEF Line!Waits, Line!NoWait, Line!Forgotten
  <1>15. CASE emu.hasData
    <2>1. TakeBytes(reads[t].want) /\ serial # << >>
      BY <1>1, <1>2, <1>15 DEF SInv, EmuInv
    <2>2. /\ serial' \in Seq(Nat) /\ Len(serial') <= MaxSerialBytes /\ received' \in Seq(Nat)
          /\ UNCHANGED sent
      BY <1>1, <1>13, <2>1, TakeStep
    <2>3. SInv'
      BY <1>2, <1>3, <1>6, <1>7, <2>2 DEF SInv, LineType
    <2>4. /\ Shorter(reads[t].want) \in 1 .. Len(serial) /\ Line!Take(Shorter(reads[t].want))
          /\ Shorter(reads[t].want) <= reads[t].want
          /\ Shorter(reads[t].want) = reads[t].want \/ Shorter(reads[t].want) = Len(serial)
      BY <1>1, <1>13, <2>1, TakeStep
    <2> DEFINE n == Shorter(reads[t].want)
    <2>5. n \in 1 .. Len(serial) /\ Line!Take(n) /\ n <= waits[t].want
          /\ (n = waits[t].want \/ n = Len(serial))
      BY <1>12, <2>4
    <2> HIDE DEF n
    <2>6. Line!Serve(t)
      BY <1>2, <1>11, <1>14, <2>5, Zenon DEF Line!Serve
    <2> QED
      BY <1>1, <2>3, <2>6
  <1>16. CASE ~emu.hasData
    <2>1. UNCHANGED <<serial, sent, received, now, port>>
      BY <1>2, <1>16 DEF endpointVars
    <2>2. SInv'
      BY <1>3, <1>6, <1>7, <2>1 DEF SInv, LineType
    <2>3. reads[t].deadline # 0 /\ emu.started >= reads[t].deadline /\ emu.started <= now
      BY <1>0, <1>1, <1>16 DEF SInv, EmuInv, TimedOut, NoDeadline
    <2>4. reads[t].deadline \in Nat /\ emu.started \in Nat /\ now \in Nat
      BY <1>1, <1>3 DEF SInv, LineType, Emu, Read
    <2>5. waits[t].deadline # 0 /\ now >= waits[t].deadline
      BY <1>12, <2>3, <2>4
    <2>6. Line!Expire(t)
      BY <1>11, <1>14, <2>1, <2>5, Zenon DEF Line!Expire
    <2> QED
      BY <1>1, <2>2, <2>6
  <1> QED
    BY <1>15, <1>16

-----------------------------------------------------------------------------
(* Every step of the ports is one of the line, or none.                     *)
LEMMA SerialStep ==
  ASSUME SInv, Serial
  PROVE  SInv' /\ (Line!Next \/ UNCHANGED Line!lineVars)
  <1>1. CASE HandleReadFile
    BY <1>1, ReadStep, Zenon DEF Line!Next
  <1>2. ASSUME NEW h \in Ports, OpenGuestSerialDevice(h) \/ SetCommTimeouts(h)
        PROVE  SInv' /\ (Line!Next \/ UNCHANGED Line!lineVars)
    BY <1>2, OpenStep, Zenon
  <1>3. ASSUME NEW h \in Ports, CloseSerial(h)
        PROVE  SInv' /\ (Line!Next \/ UNCHANGED Line!lineVars)
    BY <1>3, CloseStep, Zenon DEF Line!Next
  <1>4. ASSUME NEW h \in Ports, NEW t \in Callers, NEW n \in 1 .. 2, ReadFile(t, h, n)
        PROVE  SInv' /\ (Line!Next \/ UNCHANGED Line!lineVars)
    BY <1>4, ReadFileStep, Zenon DEF Line!Next
  <1>5. CASE EndSlice \/ HostLoop
    BY <1>5, HostMoves, Zenon
  <1>6. CASE RefreshPendingSerialReads
    BY <1>6, RefreshStarts, Zenon
  <1>7. CASE CheckRead
    BY <1>7, CheckStep, Zenon
  <1>8. CASE AnswerRead
    BY <1>8, AnswerStep, Zenon DEF Line!Next
  <1>9. CASE Tick
    BY <1>9, TickStep, Zenon DEF Line!Next
  <1> QED
    BY <1>1, <1>2, <1>3, <1>4, <1>5, <1>6, <1>7, <1>8, <1>9, Zenon
       DEF Serial, GuestSerialCall, HostStep

(* Every step keeps the invariant and is one of the line's, or none.        *)
LEMMA Step ==
  ASSUME SInv, [Next]_vars
  PROVE  SInv' /\ [Line!Next]_(Line!lineVars)
  <1>1. CASE Endpoint
    BY <1>1, EndpointStep, Zenon DEF Line!Next
  <1>2. CASE Serial
    BY <1>2, SerialStep
  <1>3. CASE Wave
    BY <1>3, WaveStep
  <1>4. ASSUME NEW c \in Clients, ClientStep(c)
        PROVE  SInv' /\ UNCHANGED Line!lineVars
    BY <1>4, ClientMoves
  <1>5. CASE UNCHANGED vars
    <2>1. UNCHANGED lineParts /\ sent' \in [inputs : Nat, bytes : Nat]
      BY <1>5 DEF vars, endpointVars, serialVars, lineParts, SInv, LineType
    <2> QED
      BY <2>1, Unmoved
  <1> QED
    BY <1>1, <1>2, <1>3, <1>4, <1>5, Zenon DEF Next

(* The ports are an empty line at first.                                    *)
LEMMA LineInit ==
  ASSUME Init
  PROVE  Line!Init
  <1>1. serial = << >> /\ received = << >> /\ now \in Nat
    BY DEF Init, EndpointInit, SerialInit
  <1>2. [t \in Workers |-> Waiting(t)] = [t \in Workers |-> Line!NoWait]
    BY DEF Init, SerialInit, Waiting, NoRead, Line!NoWait
  <1> QED
    BY <1>1, <1>2, Zenon DEF Line!Init

(* The serial ports keep what SerialLine promises readers, whatever server  *)
(* threads, the guest, waveOut and audio clients do between two accesses to *)
(* the queue: bytes in order and once, only the oldest lost, and a parked   *)
(* ReadFile that ends with bytes or at its deadline.                        *)
THEOREM PortsAreALine == Spec => LineRefined
  <1>1. Init => SInv /\ Line!Init
    BY InitInv, LineInit
  <1>2. SInv /\ [Next]_vars => SInv' /\ [Line!Next]_(Line!lineVars)
    BY Step
  <1> QED
    BY <1>1, <1>2, PTL DEF Spec, LineRefined, Line!Spec

-----------------------------------------------------------------------------
(* Taps.  Each queue of inputs, and what was delivered, is whole by itself: *)
(* server threads and the emulator only ever append whole requests.         *)
Whole(q) ==
  \A i \in 1 .. Len(q) :
    q[i].phase = "press" =>
      i < Len(q) /\ q[i + 1] = [number |-> q[i].number, phase |-> "release"]

TapInv ==
  /\ touches \in Seq(Input) /\ keys \in Seq(Input) /\ delivered \in Seq(Input)
  /\ Whole(touches) /\ Whole(keys) /\ Whole(delivered)
  /\ sent.inputs \in Nat

(* Two whole queues, one after the other, are whole.                        *)
LEMMA WholeConcat ==
  ASSUME NEW a \in Seq(Input), NEW b \in Seq(Input), Whole(a), Whole(b)
  PROVE  a \o b \in Seq(Input) /\ Whole(a \o b)
  <1> DEFINE c == a \o b
  <1>1. Len(a) \in Nat /\ Len(b) \in Nat
    BY LenProperties
  <1>2. PICK k \in Nat, l \in Nat : Len(a) = k /\ Len(b) = l
    BY <1>1
  <1>3. /\ c \in Seq(Input) /\ Len(c) = k + l
        /\ \A j \in 1 .. k + l : c[j] = IF j <= k THEN a[j] ELSE b[j - k]
    BY <1>2, ConcatProperties
  <1> HIDE DEF c
  <1>4. ASSUME NEW i \in 1 .. k + l, c[i].phase = "press"
        PROVE  i < k + l /\ c[i + 1] = [number |-> c[i].number, phase |-> "release"]
    <2>1. CASE i <= k
      <3>1. c[i] = a[i] /\ i < k /\ a[i + 1] = [number |-> a[i].number, phase |-> "release"]
        BY <1>2, <1>3, <1>4, <2>1 DEF Whole
      <3>2. i + 1 \in 1 .. k + l /\ i + 1 <= k
        BY <1>2, <2>1, <3>1
      <3> QED
        BY <1>3, <3>1, <3>2
    <2>2. CASE i > k
      <3>1. c[i] = b[i - k] /\ i - k \in 1 .. l
        BY <1>2, <1>3, <2>2
      <3>2. i - k < l /\ b[(i - k) + 1] = [number |-> b[i - k].number, phase |-> "release"]
        BY <1>2, <1>4, <3>1 DEF Whole
      <3>3. i + 1 \in 1 .. k + l /\ ~(i + 1 <= k) /\ (i + 1) - k = (i - k) + 1
        BY <1>2, <2>2, <3>2
      <3>4. c[i + 1] = b[(i - k) + 1]
        BY <1>3, <3>3
      <3> QED
        BY <3>1, <3>2, <3>3, <3>4
    <2> QED
      BY <1>2, <2>1, <2>2
  <1> QED
    BY <1>3, <1>4 DEF Whole, c

(* A request appends a press with its release, or neither.                  *)
LEMMA RequestWhole ==
  ASSUME NEW n \in 1 .. MaxInputs
  PROVE  /\ \A phase \in Touches :
              Messages(phase, n) \in Seq(Input) /\ Whole(Messages(phase, n))
         /\ <<[number |-> n, phase |-> "key"]>> \in Seq(Input)
         /\ Whole(<<[number |-> n, phase |-> "key"]>>)
  <1> DEFINE in(phase) == [number |-> n, phase |-> phase]
  <1>1. \A phase \in Phases : in(phase) \in Input /\ in(phase).phase = phase
    BY DEF Input
  <1>2. \A phase \in {"down", "move", "up", "key"} : in(phase) \in Input /\ in(phase).phase # "press"
    BY <1>1 DEF Phases
  <1>3. \A phase \in {"down", "move", "up", "key"} : <<in(phase)>> \in Seq(Input) /\ Whole(<<in(phase)>>)
    BY <1>2 DEF Whole
  <1>4. <<in("press"), in("release")>> \in Seq(Input)
    BY <1>1 DEF Phases
  <1>5. Whole(<<in("press"), in("release")>>)
    BY <1>1 DEF Whole, Phases
  <1>6. Messages("tap", n) = <<in("press"), in("release")>> 
    BY DEF Messages
  <1>7. \A phase \in Touches \ {"tap"} : Messages(phase, n) = <<in(phase)>>
                                       /\ phase \in {"down", "move", "up", "key"}
    BY DEF Messages, Touches
  <1> HIDE DEF in
  <1> QED
    BY <1>3, <1>4, <1>5, <1>6, <1>7 DEF in

(* A request keeps the queues whole.                                        *)
LEMMA TapEndpoint ==
  ASSUME TapInv, NEW s \in Sessions, SessionStep(s)
  PROVE  TapInv'
  <1>1. CASE \E phase \in Touches : EnqueueRemoteTouch(s, phase)
    <2>1. PICK phase \in Touches : EnqueueRemoteTouch(s, phase)
      BY <1>1
    <2>2. NewNumber \in 1 .. MaxInputs
      BY <2>1, EndpointAssumption DEF EnqueueRemoteTouch, Numbered, NewNumber, TapInv
    <2>3. touches' \in Seq(Input) /\ Whole(touches')
      BY <2>1, <2>2, RequestWhole, WholeConcat DEF EnqueueRemoteTouch, TapInv
    <2>4. sent'.inputs \in Nat
      BY <2>1, <2>2 DEF EnqueueRemoteTouch, TapInv
    <2> QED
      BY <2>1, <2>3, <2>4 DEF TapInv, EnqueueRemoteTouch
  <1>2. CASE EnqueueRemoteKey(s)
    <2> DEFINE press == [number |-> NewNumber, phase |-> "key"]
    <2>1. NewNumber \in 1 .. MaxInputs
      BY <1>2, EndpointAssumption DEF EnqueueRemoteKey, Numbered, NewNumber, TapInv
    <2>2. press \in Input
      BY <2>1 DEF Input, Phases
    <2>3. keys' = Append(keys, press) /\ keys' = keys \o <<press>>
      BY <1>2, <2>2, AppendIsConcat DEF EnqueueRemoteKey, TapInv
    <2>4. keys' \in Seq(Input) /\ Whole(keys')
      BY <2>1, <2>3, RequestWhole, WholeConcat DEF TapInv
    <2>5. sent'.inputs \in Nat
      BY <1>2, <2>1 DEF EnqueueRemoteKey, TapInv
    <2> QED
      BY <1>2, <2>4, <2>5 DEF TapInv, EnqueueRemoteKey
  <1>3. CASE \E n \in 1 .. 2 : InjectRemoteSerialBytes(s, n)
    <2>1. UNCHANGED <<touches, keys, delivered>> /\ sent'.inputs = sent.inputs
      BY <1>3 DEF InjectRemoteSerialBytes, TapInv
    <2> QED
      BY <2>1 DEF TapInv
  <1>4. CASE NotifyRemoteInputQueued(s) \/ SetPaused(s)
    BY <1>4 DEF TapInv, NotifyRemoteInputQueued, SetPaused
  <1> QED
    BY <1>1, <1>2, <1>3, <1>4 DEF SessionStep

(* Every step keeps the queues whole.                                       *)
LEMMA TapStep ==
  ASSUME TapInv, [Next]_vars
  PROVE  TapInv'
  <1>1. CASE Endpoint
    BY <1>1, TapEndpoint DEF Endpoint
  <1>2. CASE HostLoop
    <2>1. /\ delivered' = delivered \o touches \o keys
          /\ touches' = << >> /\ keys' = << >> /\ UNCHANGED sent
      BY <1>2 DEF HostLoop, DrainRemoteInputEvents
    <2>2. delivered' \in Seq(Input) /\ Whole(delivered')
      BY <2>1, WholeConcat DEF TapInv
    <2>3. << >> \in Seq(Input) /\ Whole(<< >>)
      BY EmptySeq DEF Whole
    <2> QED
      BY <2>1, <2>2, <2>3 DEF TapInv
  <1>3. CASE UNCHANGED <<touches, keys, delivered, sent>>
    BY <1>3 DEF TapInv
  <1>4. Serial => HostLoop \/ UNCHANGED <<touches, keys, delivered, sent>>
    BY DEF Serial, GuestSerialCall, HandleReadFile, OpenGuestSerialDevice, SetCommTimeouts,
       CloseSerial, ReadFile, HostStep, EndSlice, RefreshPendingSerialReads, CheckRead,
       AnswerRead, Tick, TakeBytes, endpointVars
  <1>5. Wave => UNCHANGED <<touches, keys, delivered, sent>>
    BY ZenonT(40) DEF Wave, GuestWaveCall, WaveOutOpen, WaveOutWrite, WaveOutWriteFails,
       WaveOutUnprepareHeader, WaveOutReset, WaveOutClose, CloseWaveHandle, WaitForEvent,
       RefreshCompletedHostWaveBuffers, RefreshSignaledWaits, Backend, BackendTake,
       BackendPlayed, Other, endpointVars
  <1>6. (\E c \in Clients : ClientStep(c)) => UNCHANGED <<touches, keys, delivered, sent>>
    BY DEF ClientStep, RegisterRemoteAudioClient, WaitForRemoteAudioChunks,
       TakeRemoteAudioChunk, Paced, UnregisterRemoteAudioClient, Still, endpointVars
  <1>7. CASE UNCHANGED vars
    BY <1>3, <1>7 DEF vars, endpointVars
  <1> QED
    BY <1>1, <1>2, <1>3, <1>4, <1>5, <1>6, <1>7 DEF Next

(* The queues are whole at first: they are empty.                           *)
LEMMA TapInit == Init => TapInv
  <1> SUFFICES ASSUME Init PROVE TapInv
    OBVIOUS
  <1>1. << >> \in Seq(Input) /\ Whole(<< >>)
    BY EmptySeq DEF Whole
  <1> QED
    BY <1>1 DEF Init, EndpointInit, TapInv

(* A tap reaches the guest whole: for any number of server threads, its     *)
(* release follows its press, before and after the queues are drained.      *)
THEOREM TapsStayWhole == Spec => []TapsWhole
  <1>1. Init => TapInv
    BY TapInit
  <1>2. TapInv /\ [Next]_vars => TapInv'
    BY TapStep
  <1>3. TapInv => TapsWhole
    <2> SUFFICES ASSUME TapInv PROVE TapsWhole
      OBVIOUS
    <2> DEFINE all == delivered \o touches \o keys
    <2>1. all \in Seq(Input) /\ Whole(all)
      BY WholeConcat DEF TapInv
    <2>2. DOMAIN all = 1 .. Len(all)
      BY <2>1, LenProperties
    <2> HIDE DEF all
    <2> QED
      BY <2>1, <2>2 DEF TapsWhole, Whole, all
  <1> QED
    BY <1>1, <1>2, <1>3, PTL DEF Spec

-----------------------------------------------------------------------------
(* waveOut.                                                                 *)
StreamRecord == [state : {"unused", "open", "closed", "gone"}, format : Formats,
                 buffers : Seq(Buffer), next : Nat, device : 0 .. MaxStreams]
HeaderRecord == [stored : BOOLEAN, inqueue : BOOLEAN, done : BOOLEAN]

WaveTypes ==
  /\ stream \in [Streams -> StreamRecord]
  /\ header \in [Headers -> HeaderRecord]
  /\ event \in BOOLEAN /\ writes \in 0 .. MaxWrites
  /\ backend \in [chunks : Seq(Chunk), plays : Chunk] /\ Len(backend.chunks) <= MaxChunks
  /\ device \in [Streams -> {"closed", "open", "cached"}]
  /\ cached \in Seq(Streams) /\ Len(cached) <= MaxCached

(* An open stream has an open device for itself; the cache has devices      *)
(* nobody uses, each once.                                                  *)
DeviceInv ==
  /\ \A h \in Streams : stream[h].state = "open"
       => stream[h].device \in Streams /\ device[stream[h].device] = "open"
  /\ \A g, h \in Streams : stream[g].state = "open" /\ stream[h].state = "open" /\ g # h
       => stream[g].device # stream[h].device
  /\ \A h \in Streams : stream[h].state = "unused" => device[h] = "closed"
  /\ \A i \in 1 .. Len(cached) : device[cached[i]] = "cached"
  /\ \A i, j \in 1 .. Len(cached) : i # j => cached[i] # cached[j]

ChunkInv ==
  \A i \in 1 .. Len(backend.chunks) :
    LET c == backend.chunks[i]
    IN  c.stream \in Streams /\ stream[c.stream].state = "open" /\ stream[c.stream].device = c.device

ShutInv == \A h \in Streams : stream[h].state # "open" => stream[h].buffers = << >>

QueuedAt(x, h, i) == i \in 1 .. Len(stream[h].buffers) /\ stream[h].buffers[i].header = x

(* A guest that keeps waveOut's rules has a header queued at one place of   *)
(* one stream while it says so, and its copy is stored.                     *)
HeaderInv ==
  Polite =>
    /\ \A x \in Headers : header[x].inqueue <=> \E h \in Streams, i \in Nat : QueuedAt(x, h, i)
    /\ \A x \in Headers : header[x].inqueue => header[x].stored
    /\ \A x \in Headers, g, h \in Streams, i, j \in Nat :
         QueuedAt(x, g, i) /\ QueuedAt(x, h, j) => g = h /\ i = j

(* With one buffer at a time that is all there is.                          *)
SingleInv ==
  Does("single") =>
    /\ \A g, h \in Playing : g = h
    /\ \A h \in Streams : Len(stream[h].buffers) <= 1
    /\ event => Playing = {}

(* The waiting thread has a buffer that will signal it, or was signaled.    *)
PlayerInv == Polite /\ tstate[Player] = "wave" => event \/ Playing # {}

WInv == WaveTypes /\ DeviceInv /\ ChunkInv /\ ShutInv /\ HeaderInv /\ SingleInv /\ PlayerInv

(* How long a number of bytes lasts is a number.                            *)
LEMMA DurationType ==
  ASSUME NEW f \in Formats, NEW n \in Nat
  PROVE  Duration(f, n) \in Nat
  <1>1. f.num \in Nat \ {0} /\ f.den \in Nat \ {0}
    BY WaveAssumption
  <1>2. PICK k \in Nat, m \in Nat \ {0} : k = n * f.den /\ m = f.num
    BY <1>1
  <1>3. k \div m \in Nat
    BY SMT
  <1> QED
    BY <1>2, <1>3 DEF Duration

(* The first of a set of threads is its least.                              *)
LEMMA Next1Least ==
  ASSUME NEW S \in SUBSET Nat, S # {}
  PROVE  Next1(S) \in S /\ \A k \in S : Next1(S) <= k
  BY LeastNat DEF Next1

(* The thread that waits for buffers is the first worker.                   *)
LEMMA PlayerWorks == Player \in Workers /\ \A t \in Workers : Player <= t
  BY SerialAssumption, WaveAssumption DEF Player, Workers

(* A stream that was not opened has its type and no buffers.                *)
LEMMA NoStreamType == NoStream \in StreamRecord /\ NoStream.buffers = << >>
  <1>1. << >> \in Seq(Buffer) /\ 0 \in 0 .. MaxStreams
    BY WaveAssumption, EmptySeq
  <1>2. PICK f \in Formats : f = CHOOSE g \in Formats : TRUE
    BY WaveAssumption
  <1>3. NoStream = [state |-> "unused", format |-> f, buffers |-> << >>, next |-> 0, device |-> 0]
    BY <1>2, Zenon DEF NoStream
  <1> QED
    BY <1>1, <1>3 DEF StreamRecord

(* An empty time line, and one that is not.                                 *)
LEMMA LineLength ==
  ASSUME NEW st \in [Streams -> StreamRecord], NEW h \in Streams
  PROVE  /\ Len(st[h].buffers) \in Nat
         /\ st[h].buffers # << >> <=> Len(st[h].buffers) > 0
  <1>1. st[h].buffers \in Seq(Buffer)
    BY DEF StreamRecord
  <1> QED
    BY <1>1, EmptySeq, LenProperties

(* The streams that play are those with buffers.                            *)
LEMMA PlayingIs ==
  ASSUME WaveTypes
  PROVE  /\ \A h \in Streams : Len(stream[h].buffers) \in Nat
         /\ \A h \in Streams : h \in Playing <=> Len(stream[h].buffers) > 0
         /\ Playing \subseteq Streams
  BY LineLength DEF WaveTypes, Playing

(* The streams that play after the step.                                    *)
LEMMA PlayingThen ==
  ASSUME WaveTypes'
  PROVE  /\ \A h \in Streams : Len(stream'[h].buffers) \in Nat
         /\ \A h \in Streams : h \in Playing' <=> Len(stream'[h].buffers) > 0
         /\ Playing' \subseteq Streams
  BY LineLength DEF WaveTypes, Playing

(* A stream is opened, on a device of the cache or on a new one.            *)
LEMMA OpenedStep ==
  ASSUME SInv, WInv, NEW h \in Streams, NEW f \in Formats, WaveOutOpen(h, f)
  PROVE  WInv'
  <1> DEFINE i == Next1(Matching(f))
             d == IF Matching(f) = {} THEN h ELSE cached[i]
             n == Len(cached)
  <1>1. /\ stream[h].state = "unused"
        /\ stream' = [stream EXCEPT ![h] = [NoStream EXCEPT !.state = "open", !.format = f,
                                                            !.device = d]]
        /\ device' = [device EXCEPT ![d] = "open"]
        /\ cached' = IF Matching(f) = {} THEN cached ELSE RemoveAt(cached, i)
        /\ UNCHANGED <<scene, tstate, header, event, writes, backend>>
    BY DEF WaveOutOpen, Next1, RemoveAt, Other, endpointVars
  <1>2. n \in Nat /\ DOMAIN cached = 1 .. n /\ \A k \in 1 .. n : cached[k] \in Streams
    BY LenProperties, ElementOfSeq DEF WInv, WaveTypes
  <1>3. Matching(f) # {} => i \in 1 .. n
    <2>1. Matching(f) \in SUBSET (1 .. n) /\ Matching(f) \in SUBSET Nat
      BY <1>2 DEF Matching
    <2> QED
      BY <2>1, Next1Least
  <1> HIDE DEF i
  <1>4. d \in Streams /\ (Matching(f) = {} => d = h /\ device[d] = "closed")
        /\ (Matching(f) # {} => d = cached[i] /\ device[d] = "cached")
    BY <1>1, <1>2, <1>3 DEF WInv, DeviceInv
  <1> HIDE DEF d
  <1>5. /\ device'[d] = "open" /\ device' \in [Streams -> {"closed", "open", "cached"}]
        /\ \A e \in Streams \ {d} : device'[e] = device[e]
    BY <1>1, <1>4 DEF WInv, WaveTypes
  <1>6. /\ stream'[h].state = "open" /\ stream'[h].device = d /\ stream'[h].buffers = << >>
        /\ stream'[h] \in StreamRecord
        /\ \A g \in Streams \ {h} : stream'[g] = stream[g]
        /\ stream' \in [Streams -> StreamRecord]
    <2> DEFINE r == [NoStream EXCEPT !.state = "open", !.format = f, !.device = d]
    <2>1. << >> \in Seq(Buffer) /\ d \in 0 .. MaxStreams
      BY <1>4, WaveAssumption, EmptySeq DEF Streams
    <2>2. NoStream \in StreamRecord /\ NoStream.buffers = << >>
      BY <2>1, NoStreamType
    <2>3. r \in StreamRecord /\ r.state = "open" /\ r.device = d /\ r.buffers = << >>
      BY <2>1, <2>2 DEF StreamRecord
    <2> HIDE DEF r
    <2> QED
      BY <1>1, <2>3 DEF WInv, WaveTypes, r
  <1>7. /\ cached' \in Seq(Streams) /\ Len(cached') <= MaxCached
        /\ \A k \in 1 .. Len(cached') :
             \E l \in 1 .. n : cached'[k] = cached[l] /\ cached[l] # d
        /\ \A k, l \in 1 .. Len(cached') : k # l => cached'[k] # cached'[l]
    <2>1. CASE Matching(f) = {}
      <3>1. cached' = cached
        BY <1>1, <2>1
      <3>2. \A k \in 1 .. n : cached[k] # d
        BY <1>4, <2>1 DEF WInv, DeviceInv
      <3> QED
        BY <3>1, <3>2 DEF WInv, WaveTypes, DeviceInv
    <2>2. CASE Matching(f) # {}
      <3>1. cached' = RemoveAt(cached, i) /\ i \in 1 .. n /\ d = cached[i] /\ cached \in Seq(Streams)
        BY <1>1, <1>3, <1>4, <2>2 DEF WInv, WaveTypes
      <3>2. /\ cached' \in Seq(Streams) /\ Len(cached') = n - 1
            /\ \A k \in 1 .. n - 1 : cached'[k] = IF k < i THEN cached[k] ELSE cached[k + 1]
        BY <3>1, RemoveAtSeq
      <3> DEFINE up(k) == IF k < i THEN k ELSE k + 1
      <3>3. \A k \in 1 .. n - 1 : up(k) \in 1 .. n /\ up(k) # i /\ cached'[k] = cached[up(k)]
        BY <1>2, <3>1, <3>2
      <3>4. \A k, l \in 1 .. n - 1 : k # l => up(k) # up(l)
        BY <1>2, <3>1
      <3>5. \A k, l \in 1 .. n : k # l => cached[k] # cached[l]
        BY DEF WInv, DeviceInv
      <3> HIDE DEF up
      <3>6. \A k \in 1 .. n - 1 :
              up(k) \in 1 .. n /\ cached'[k] = cached[up(k)] /\ cached[up(k)] # d
        BY <3>1, <3>3, <3>5
      <3>7. \A k, l \in 1 .. n - 1 : k # l => cached'[k] # cached'[l]
        BY <3>3, <3>4, <3>5
      <3>8. n - 1 <= MaxCached
        BY <1>2, WaveAssumption DEF WInv, WaveTypes
      <3> HIDE DEF n
      <3>9. \A k \in 1 .. n - 1 : \E l \in 1 .. n : cached'[k] = cached[l] /\ cached[l] # d
        BY <3>6
      <3> QED
        BY <3>2, <3>7, <3>8, <3>9
    <2> QED
      BY <2>1, <2>2
  <1>8. WaveTypes'
    BY <1>1, <1>5, <1>6, <1>7 DEF WInv, WaveTypes
  <1>9. DeviceInv'
    <2>1. ASSUME NEW g \in Streams, stream'[g].state = "open"
          PROVE  stream'[g].device \in Streams /\ device'[stream'[g].device] = "open"
      BY <1>4, <1>5, <1>6, <2>1 DEF WInv, DeviceInv
    <2>2. ASSUME NEW g \in Streams, NEW k \in Streams, g # k,
                 stream'[g].state = "open", stream'[k].state = "open"
          PROVE  stream'[g].device # stream'[k].device
      BY <1>4, <1>5, <1>6, <2>2 DEF WInv, DeviceInv
    <2>3. ASSUME NEW g \in Streams, stream'[g].state = "unused"
          PROVE  device'[g] = "closed"
      BY <1>4, <1>5, <1>6, <2>3 DEF WInv, DeviceInv
    <2>4. ASSUME NEW k \in 1 .. Len(cached')
          PROVE  device'[cached'[k]] = "cached"
      BY <1>2, <1>5, <1>7 DEF WInv, DeviceInv
    <2> QED
      BY <1>7, <2>1, <2>2, <2>3, <2>4 DEF DeviceInv
  <1>10. \A g \in Streams : stream'[g].buffers = stream[g].buffers
    BY <1>1, <1>6 DEF WInv, ShutInv
  <1>11. ChunkInv'
    BY <1>1, <1>6 DEF WInv, ChunkInv
  <1>12. ShutInv'
    BY <1>6, <1>10 DEF WInv, ShutInv
  <1>13. HeaderInv' /\ SingleInv' /\ PlayerInv'
    BY <1>1, <1>10 DEF WInv, HeaderInv, SingleInv, PlayerInv, Polite, Does, QueuedAt, Playing
  <1> QED
    BY <1>8, <1>9, <1>11, <1>12, <1>13 DEF WInv

(* A buffer goes to the end of its time line.                               *)
LEMMA QueuedLast ==
  ASSUME WaveTypes, NEW h \in Streams, NEW x \in Headers, NEW size \in Sizes,
         writes < MaxWrites, now \in Nat, QueueBuffer(h, x, size)
  PROVE  /\ stream' \in [Streams -> StreamRecord]
         /\ \A g \in Streams \ {h} : stream'[g] = stream[g]
         /\ stream'[h].state = stream[h].state /\ stream'[h].device = stream[h].device
         /\ Len(stream'[h].buffers) = Len(stream[h].buffers) + 1
         /\ stream'[h].buffers[Len(stream[h].buffers) + 1].header = x
         /\ \A i \in 1 .. Len(stream[h].buffers) :
              stream'[h].buffers[i] = stream[h].buffers[i]
  <1> DEFINE start == StartOf(h)
             end == start + Duration(stream[h].format, size)
             b == [header |-> x, write |-> writes + 1, size |-> size,
                   start |-> start, end |-> end]
             all == Append(stream[h].buffers, b)
  <1>1. /\ stream[h] \in StreamRecord /\ stream[h].buffers \in Seq(Buffer)
        /\ stream[h].next \in Nat /\ stream[h].format \in Formats
    BY DEF WaveTypes, StreamRecord
  <1>2. start \in Nat /\ size \in Nat
    BY <1>1, WaveAssumption DEF StartOf, Later
  <1>3. Duration(stream[h].format, size) \in Nat
    BY <1>1, <1>2, DurationType
  <1>4. end \in Nat
    BY <1>2, <1>3
  <1>5. writes + 1 \in 1 .. MaxWrites
    BY WaveAssumption DEF WaveTypes
  <1>6. stream' = [stream EXCEPT ![h].buffers = all, ![h].next = end]
    BY DEF QueueBuffer
  <1> HIDE DEF start, end
  <1>7. b \in Buffer /\ b.header = x
    BY <1>2, <1>4, <1>5 DEF Buffer
  <1> HIDE DEF b
  <1>8. /\ all \in Seq(Buffer) /\ Len(all) = Len(stream[h].buffers) + 1
        /\ all[Len(stream[h].buffers) + 1] = b
        /\ \A i \in 1 .. Len(stream[h].buffers) : all[i] = stream[h].buffers[i]
    BY <1>1, <1>7, AppendProperties
  <1> HIDE DEF all
  <1>9. /\ stream' \in [Streams -> StreamRecord]
        /\ \A g \in Streams \ {h} : stream'[g] = stream[g]
        /\ stream'[h].state = stream[h].state /\ stream'[h].device = stream[h].device
        /\ stream'[h].buffers = all
    BY <1>4, <1>6, <1>8, ZenonT(40) DEF WaveTypes, StreamRecord
  <1> QED
    BY <1>7, <1>8, <1>9

(* Its chunk goes to the backend, which may drop its oldest.                *)
LEMMA ChunkLast ==
  ASSUME WaveTypes, NEW h \in Streams, QueueChunk(h)
  PROVE  /\ backend' \in [chunks : Seq(Chunk), plays : Chunk] /\ Len(backend'.chunks) <= MaxChunks
         /\ \A k \in 1 .. Len(backend'.chunks) :
              \/ \E l \in 1 .. Len(backend.chunks) : backend'.chunks[k] = backend.chunks[l]
              \/ backend'.chunks[k].stream = h /\ backend'.chunks[k].device = stream[h].device
  <1> DEFINE c == [stream |-> h, device |-> stream[h].device]
             all == Append(backend.chunks, c)
             new == IF Len(all) > MaxChunks THEN SubSeq(all, 2, Len(all)) ELSE all
  <1>1. c \in Chunk /\ c.stream = h /\ c.device = stream[h].device
    BY WaveAssumption DEF WaveTypes, StreamRecord, Chunk, Streams
  <1>2. backend.chunks \in Seq(Chunk) /\ Len(backend.chunks) <= MaxChunks
    BY DEF WaveTypes
  <1>3. PICK n \in Nat : n = Len(backend.chunks) /\ n <= MaxChunks
    BY <1>2, LenProperties
  <1> HIDE DEF c
  <1>4. /\ all \in Seq(Chunk) /\ Len(all) = n + 1 /\ all[n + 1] = c
        /\ \A k \in 1 .. n : all[k] = backend.chunks[k]
    BY <1>1, <1>2, <1>3, AppendProperties
  <1> HIDE DEF all
  <1>5. \A k \in 1 .. n + 1 : (\E l \in 1 .. n : all[k] = backend.chunks[l]) \/ all[k] = c
    <2>1. \A k \in 1 .. n + 1 : k \in 1 .. n \/ k = n + 1
      OBVIOUS
    <2> QED
      BY <1>4, <2>1
  <1>6. /\ new \in Seq(Chunk) /\ Len(new) <= MaxChunks
        /\ \A k \in 1 .. Len(new) : \E l \in 1 .. n + 1 : new[k] = all[l]
    <2>1. CASE n + 1 > MaxChunks
      <3>1. new = SubSeq(all, 2, n + 1)
        BY <1>4, <2>1
      <3>3. /\ new \in Seq(Chunk) /\ Len(new) = n
            /\ \A k \in 1 .. n : new[k] = all[k + 1]
        BY <1>4, <3>1, DropFirst
      <3>4. \A k \in 1 .. n : k + 1 \in 1 .. n + 1
        OBVIOUS
      <3> HIDE DEF new
      <3> QED
        BY <1>3, <3>3, <3>4
    <2>2. CASE ~(n + 1 > MaxChunks)
      <3>1. new = all /\ n + 1 <= MaxChunks
        BY <1>4, <2>2, WaveAssumption
      <3> QED
        BY <1>4, <3>1
    <2> QED
      BY <2>1, <2>2
  <1>7. backend' = [backend EXCEPT !.chunks = new]
    BY DEF QueueChunk, all, c
  <1> HIDE DEF new
  <1>8. backend' \in [chunks : Seq(Chunk), plays : Chunk] /\ backend'.chunks = new
    BY <1>6, <1>7 DEF WaveTypes
  <1>9. \A k \in 1 .. Len(new) :
          (\E l \in 1 .. n : new[k] = backend.chunks[l]) \/ new[k] = c
    BY <1>5, <1>6
  <1> QED
    BY <1>1, <1>3, <1>6, <1>8, <1>9

(* waveOutWrite keeps WInv: its header is queued once, at the end of the    *)
(* stream.                                                                  *)
LEMMA WrittenStep ==
  ASSUME SInv, WInv, NEW h \in Streams, NEW x \in Headers, NEW size \in Sizes,
         WaveOutWrite(h, x, size)
  PROVE  WInv'
  <1>1. /\ stream[h].state = "open" /\ writes < MaxWrites /\ ~header[x].inqueue
        /\ Does("single") => Playing = {}
        /\ header' = [header EXCEPT ![x] = [stored |-> TRUE, inqueue |-> TRUE, done |-> FALSE]]
        /\ event' = FALSE /\ writes' = writes + 1
        /\ QueueBuffer(h, x, size) /\ QueueChunk(h)
        /\ UNCHANGED <<scene, tstate, device, cached>>
    BY DEF WaveOutWrite, OnStream, ResetByWrite, Other, endpointVars
  <1>2. PICK n \in Nat : n = Len(stream[h].buffers)
    BY PlayingIs DEF WInv
  <1>3. /\ stream' \in [Streams -> StreamRecord]
        /\ \A g \in Streams \ {h} : stream'[g] = stream[g]
        /\ stream'[h].state = "open" /\ stream'[h].device = stream[h].device
        /\ Len(stream'[h].buffers) = n + 1 /\ stream'[h].buffers[n + 1].header = x
        /\ \A i \in 1 .. n : stream'[h].buffers[i] = stream[h].buffers[i]
    BY <1>1, <1>2, QueuedLast DEF SInv, LineType, WInv
  <1>4. /\ backend' \in [chunks : Seq(Chunk), plays : Chunk] /\ Len(backend'.chunks) <= MaxChunks
        /\ \A k \in 1 .. Len(backend'.chunks) :
             \/ \E l \in 1 .. Len(backend.chunks) : backend'.chunks[k] = backend.chunks[l]
             \/ backend'.chunks[k].stream = h /\ backend'.chunks[k].device = stream[h].device
    BY <1>1, ChunkLast DEF WInv
  <1>5. /\ header' \in [Headers -> HeaderRecord]
        /\ header'[x].inqueue /\ header'[x].stored
        /\ \A y \in Headers \ {x} : header'[y] = header[y]
    BY <1>1 DEF WInv, WaveTypes, HeaderRecord
  <1>6. WaveTypes'
    <2>1. writes' \in 0 .. MaxWrites
      BY <1>1, WaveAssumption DEF WInv, WaveTypes
    <2>2. event' \in BOOLEAN
      BY <1>1
    <2> QED
      BY <1>1, <1>3, <1>4, <1>5, <2>1, <2>2 DEF WInv, WaveTypes
  <1>7. DeviceInv'
    BY <1>1, <1>3 DEF WInv, DeviceInv
  <1>8. ChunkInv'
    <2>1. ASSUME NEW k \in 1 .. Len(backend'.chunks)
          PROVE  LET c == backend'.chunks[k]
                 IN  /\ c.stream \in Streams /\ stream'[c.stream].state = "open"
                     /\ stream'[c.stream].device = c.device
      <3>1. CASE backend'.chunks[k].stream = h /\ backend'.chunks[k].device = stream[h].device
        BY <1>3, <3>1
      <3>2. ASSUME NEW l \in 1 .. Len(backend.chunks), backend'.chunks[k] = backend.chunks[l]
            PROVE  LET c == backend'.chunks[k]
                   IN  /\ c.stream \in Streams /\ stream'[c.stream].state = "open"
                       /\ stream'[c.stream].device = c.device
        BY <1>1, <1>3, <3>2 DEF WInv, ChunkInv
      <3> QED
        BY <1>4, <3>1, <3>2
    <2> QED
      BY <2>1 DEF ChunkInv
  <1>9. ShutInv'
    BY <1>3 DEF WInv, ShutInv
  <1>10. HeaderInv'
    <2> SUFFICES ASSUME Polite' PROVE HeaderInv'
      BY DEF HeaderInv
    <2>1. Polite
      BY <1>1 DEF Polite, Does
    <2>2. \A y \in Headers, g \in Streams, i \in Nat :
            QueuedAt(y, g, i)' <=> QueuedAt(y, g, i) \/ (g = h /\ y = x /\ i = n + 1)
      <3> TAKE y \in Headers, g \in Streams, i \in Nat
      <3>1. CASE g # h
        BY <1>3, <3>1 DEF QueuedAt
      <3>2. CASE g = h /\ i = n + 1
        BY <1>2, <1>3, <3>2 DEF QueuedAt
      <3>3. CASE g = h /\ i # n + 1
        <4>1. i \in 1 .. n + 1 <=> i \in 1 .. n
          BY <3>3
        <4> QED
          BY <1>2, <1>3, <3>3, <4>1 DEF QueuedAt
      <3> QED
        BY <3>1, <3>2, <3>3
    <2>3. \A g \in Streams, i \in Nat : ~QueuedAt(x, g, i)
      BY <1>1, <2>1 DEF WInv, HeaderInv
    <2>4. \A y \in Headers :
            header'[y].inqueue <=> \E g \in Streams, i \in Nat : QueuedAt(y, g, i)'
      <3> TAKE y \in Headers
      <3>1. CASE y = x
        <4>1. QueuedAt(x, h, n + 1)' /\ n + 1 \in Nat
          BY <2>2
        <4> QED
          BY <1>5, <3>1, <4>1
      <3>2. CASE y # x
        BY <1>5, <2>1, <2>2, <3>2 DEF WInv, HeaderInv
      <3> QED
        BY <3>1, <3>2
    <2>5. \A y \in Headers : header'[y].inqueue => header'[y].stored
      BY <1>5, <2>1 DEF WInv, HeaderInv
    <2>6. \A y \in Headers, g, k \in Streams, i, j \in Nat :
            QueuedAt(y, g, i)' /\ QueuedAt(y, k, j)' => g = k /\ i = j
      BY <2>1, <2>2, <2>3 DEF WInv, HeaderInv
    <2> QED
      BY <2>4, <2>5, <2>6 DEF HeaderInv
  <1>11. SingleInv'
    <2> SUFFICES ASSUME Does("single")' PROVE SingleInv'
      BY DEF SingleInv
    <2>1. Playing = {}
      BY <1>1 DEF Does
    <2>2. \A g \in Streams : Len(stream[g].buffers) = 0
      BY <2>1, PlayingIs DEF WInv
    <2>3. n = 0
      BY <1>2, <2>2
    <2>4. \A g \in Streams : Len(stream'[g].buffers) = IF g = h THEN 1 ELSE 0
      BY <1>3, <2>2, <2>3
    <2>5. \A g \in Streams : g \in Playing' <=> Len(stream'[g].buffers) > 0
      BY <1>6, PlayingThen
    <2>6. Playing' \subseteq Streams
      BY DEF Playing
    <2>7. \A g \in Playing' : g = h
      BY <2>4, <2>5, <2>6
    <2> QED
      BY <1>1, <2>4, <2>7 DEF SingleInv
  <1>12. PlayerInv'
    <2>1. Len(stream'[h].buffers) > 0
      BY <1>3
    <2>2. h \in Playing'
      BY <1>6, <2>1, PlayingThen
    <2> QED
      BY <2>2 DEF PlayerInv
  <1> QED
    BY <1>6, <1>7, <1>8, <1>9, <1>10, <1>11, <1>12 DEF WInv

(* The data of a buffer cannot be read; a header's copy is given up.        *)
LEMMA UnreadableStep ==
  ASSUME SInv, WInv, NEW h \in Streams, NEW x \in Headers, WaveOutWriteFails(h, x)
  PROVE  WInv'
  <1>1. /\ header' = [header EXCEPT ![x] = [stored |-> TRUE, inqueue |-> TRUE, done |-> FALSE]]
        /\ event' = FALSE /\ Does("unreadable")
        /\ UNCHANGED <<scene, tstate, stream, writes, backend, device, cached>>
    BY DEF WaveOutWriteFails, OnStream, Calls, Other, endpointVars
  <1>2. WaveTypes'
    <2>1. header' \in [Headers -> HeaderRecord] /\ event' \in BOOLEAN
      BY <1>1 DEF WInv, WaveTypes, HeaderRecord
    <2> QED
      BY <1>1, <2>1 DEF WInv, WaveTypes
  <1>3. ~Polite'
    BY <1>1 DEF Polite, Does
  <1>4. DeviceInv' /\ ChunkInv' /\ ShutInv'
    BY <1>1 DEF WInv, DeviceInv, ChunkInv, ShutInv
  <1>5. SingleInv'
    BY <1>1 DEF WInv, SingleInv, Does, Playing
  <1> QED
    BY <1>2, <1>3, <1>4, <1>5 DEF WInv, HeaderInv, PlayerInv

(* A header is queued where a buffer of a stream has it.                    *)
LEMMA HeaderQueued ==
  ASSUME WaveTypes, NEW h \in Streams, NEW x
  PROVE  x \in HeadersOf(stream[h].buffers) <=> \E i \in Nat : QueuedAt(x, h, i)
  <1>1. stream[h].buffers \in Seq(Buffer)
    BY DEF WaveTypes, StreamRecord
  <1>2. DOMAIN stream[h].buffers = 1 .. Len(stream[h].buffers) /\ Len(stream[h].buffers) \in Nat
    BY <1>1, LenProperties
  <1> QED
    BY <1>2 DEF HeadersOf, QueuedAt

(* waveOutUnprepareHeader keeps WInv.                                       *)
LEMMA UnpreparedStep ==
  ASSUME SInv, WInv, NEW h \in Streams, NEW x \in Headers, WaveOutUnprepareHeader(h, x)
  PROVE  WInv'
  <1>1. /\ header' = [header EXCEPT ![x].stored = FALSE]
        /\ \A g \in Streams : x \notin HeadersOf(stream[g].buffers)
        /\ UNCHANGED <<scene, tstate, stream, event, writes, backend, device, cached>>
    BY DEF WaveOutUnprepareHeader, Other, endpointVars
  <1>2. WaveTypes'
    <2>1. header' \in [Headers -> HeaderRecord]
      BY <1>1 DEF WInv, WaveTypes, HeaderRecord
    <2> QED
      BY <1>1, <2>1 DEF WInv, WaveTypes
  <1>3. DeviceInv' /\ ChunkInv' /\ ShutInv' /\ SingleInv' /\ PlayerInv'
    BY <1>1 DEF WInv, DeviceInv, ChunkInv, ShutInv, SingleInv, PlayerInv, Does, Polite, Playing
  <1>4. HeaderInv'
    <2> SUFFICES ASSUME Polite' PROVE HeaderInv'
      BY DEF HeaderInv
    <2>1. Polite
      BY <1>1 DEF Polite, Does
    <2>2. ~header[x].inqueue
      BY <1>1, <2>1, HeaderQueued DEF WInv, HeaderInv
    <2>3. \A y \in Headers : header'[y].inqueue = header[y].inqueue
                              /\ (y # x => header'[y] = header[y])
      BY <1>1 DEF WInv, WaveTypes, HeaderRecord
    <2>4. \A y \in Headers, g \in Streams, i \in Nat : QueuedAt(y, g, i)' <=> QueuedAt(y, g, i)
      BY <1>1 DEF QueuedAt
    <2> QED
      BY <2>1, <2>2, <2>3, <2>4 DEF WInv, HeaderInv
  <1> QED
    BY <1>2, <1>3, <1>4 DEF WInv

(* The chunks of a stream are forgotten.                                    *)
LEMMA ChunksLeft ==
  ASSUME WaveTypes, NEW h \in Streams, backend' = Without(h)
  PROVE  /\ backend' \in [chunks : Seq(Chunk), plays : Chunk] /\ Len(backend'.chunks) <= MaxChunks
         /\ \A k \in 1 .. Len(backend'.chunks) :
              \E l \in 1 .. Len(backend.chunks) :
                backend'.chunks[k] = backend.chunks[l] /\ backend.chunks[l].stream # h
  <1> DEFINE S == {c \in Chunk : c.stream # h}
             new == Keep(backend.chunks, S)
  <1>1. backend.chunks \in Seq(Chunk) /\ Len(backend.chunks) <= MaxChunks
    BY DEF WaveTypes
  <1>2. backend' = [backend EXCEPT !.chunks = new]
    BY DEF Without
  <1>3. PICK e : Embeds(e, backend.chunks, Len(backend.chunks), S, new)
    BY <1>1, KeepSeq
  <1>4. new \in Seq(Chunk) /\ Len(new) \in Nat /\ Len(new) <= Len(backend.chunks)
        /\ Len(backend.chunks) \in Nat
    BY <1>1, KeepSeq, KeepShorter, LenProperties
  <1> HIDE DEF new
  <1>5. backend' \in [chunks : Seq(Chunk), plays : Chunk] /\ backend'.chunks = new
    BY <1>2, <1>4 DEF WaveTypes
  <1>6. Len(new) <= MaxChunks
    BY <1>1, <1>4, WaveAssumption
  <1>7. \A k \in 1 .. Len(new) : /\ e[k] \in 1 .. Len(backend.chunks)
                                  /\ new[k] = backend.chunks[e[k]]
                                  /\ backend.chunks[e[k]].stream # h
    BY <1>3 DEF Embeds
  <1> QED
    BY <1>5, <1>6, <1>7

(* Chunks that stay are still their streams'.                               *)
LEMMA ChunksKept ==
  ASSUME WaveTypes, ChunkInv, NEW h \in Streams, backend' = Without(h),
         \A g \in Streams \ {h} : stream'[g] = stream[g]
  PROVE  ChunkInv'
  <1>1. ASSUME NEW k \in 1 .. Len(backend'.chunks)
        PROVE  LET c == backend'.chunks[k]
               IN  /\ c.stream \in Streams /\ stream'[c.stream].state = "open"
                   /\ stream'[c.stream].device = c.device
    <2>1. PICK l \in 1 .. Len(backend.chunks) :
            backend'.chunks[k] = backend.chunks[l] /\ backend.chunks[l].stream # h
      BY ChunksLeft
    <2> QED
      BY <2>1 DEF ChunkInv
  <1> QED
    BY <1>1 DEF ChunkInv

(* The time line of a stream is given up, and its headers are told.         *)
LEMMA LineStopped ==
  ASSUME WInv, NEW h \in Streams, WaveTypes', UNCHANGED <<scene, tstate>>,
         \A g \in Streams \ {h} : stream'[g] = stream[g], stream'[h].buffers = << >>,
         header' = Finished(HeadersOf(stream[h].buffers)),
         event' = (event \/ stream[h].buffers # << >>)
  PROVE  HeaderInv' /\ SingleInv' /\ PlayerInv'
  <1>1. \A x \in Headers, g \in Streams, i \in Nat :
          QueuedAt(x, g, i)' <=> g # h /\ QueuedAt(x, g, i)
    <2>1. Len(<< >>) = 0
      BY EmptySeq
    <2>2. \A x \in Headers, i \in Nat : ~QueuedAt(x, h, i)'
      BY <2>1 DEF QueuedAt
    <2>3. \A x \in Headers, g \in Streams \ {h}, i \in Nat :
            QueuedAt(x, g, i)' <=> QueuedAt(x, g, i)
      BY DEF QueuedAt
    <2> QED
      BY <2>2, <2>3
  <1>2. \A g \in Streams : g \in Playing' <=> g # h /\ g \in Playing
    BY DEF Playing
  <1>3. h \in Playing <=> stream[h].buffers # << >>
    BY DEF Playing
  <1>4. \A g \in Streams : Len(stream'[g].buffers) <= Len(stream[g].buffers)
    <2>1. Len(stream'[h].buffers) = 0 /\ Len(stream[h].buffers) \in Nat
      BY EmptySeq, PlayingIs DEF WInv
    <2>2. \A g \in Streams \ {h} : Len(stream'[g].buffers) = Len(stream[g].buffers)
      OBVIOUS
    <2>3. \A g \in Streams : Len(stream[g].buffers) \in Nat
      BY PlayingIs DEF WInv
    <2> QED
      BY <2>1, <2>2, <2>3
  <1>5. HeaderInv'
    <2> SUFFICES ASSUME Polite' PROVE HeaderInv'
      BY DEF HeaderInv
    <2>1. Polite
      BY DEF Polite, Does
    <2>2. \A x \in Headers : (\E i \in Nat : QueuedAt(x, h, i)) =>
            header[x].stored /\ ~header'[x].inqueue
            /\ \A g \in Streams, i \in Nat : QueuedAt(x, g, i) => g = h
      <3> TAKE x \in Headers
      <3> HAVE \E i \in Nat : QueuedAt(x, h, i)
      <3>1. x \in HeadersOf(stream[h].buffers)
        BY HeaderQueued DEF WInv
      <3>2. header[x].stored /\ \A g \in Streams, i \in Nat : QueuedAt(x, g, i) => g = h
        BY <2>1 DEF WInv, HeaderInv
      <3>3. header'[x] = [header[x] EXCEPT !.inqueue = FALSE, !.done = TRUE]
        BY <3>1, <3>2 DEF Finished
      <3>4. ~header'[x].inqueue
        BY <3>3 DEF WInv, WaveTypes, HeaderRecord
      <3> QED
        BY <3>2, <3>4
    <2>3. \A x \in Headers : ~(\E i \in Nat : QueuedAt(x, h, i)) => header'[x] = header[x]
      <3> TAKE x \in Headers
      <3> HAVE ~(\E i \in Nat : QueuedAt(x, h, i))
      <3>1. x \notin HeadersOf(stream[h].buffers)
        BY HeaderQueued DEF WInv
      <3> QED
        BY <3>1 DEF Finished
    <2>4. \A x \in Headers :
            header'[x].inqueue <=> \E g \in Streams, i \in Nat : QueuedAt(x, g, i)'
      <3> TAKE x \in Headers
      <3>1. CASE \E i \in Nat : QueuedAt(x, h, i)
        BY <1>1, <2>2, <3>1
      <3>2. CASE ~(\E i \in Nat : QueuedAt(x, h, i))
        BY <1>1, <2>1, <2>3, <3>2 DEF WInv, HeaderInv
      <3> QED
        BY <3>1, <3>2
    <2>5. \A x \in Headers : header'[x].inqueue => header'[x].stored
      BY <2>1, <2>2, <2>3 DEF WInv, HeaderInv
    <2>6. \A x \in Headers, g, k \in Streams, i, j \in Nat :
            QueuedAt(x, g, i)' /\ QueuedAt(x, k, j)' => g = k /\ i = j
      BY <1>1, <2>1 DEF WInv, HeaderInv
    <2> QED
      BY <2>4, <2>5, <2>6 DEF HeaderInv
  <1>6. Playing' \subseteq Streams /\ Playing \subseteq Streams
    BY DEF Playing
  <1>7. SingleInv'
    <2> SUFFICES ASSUME Does("single")' PROVE SingleInv'
      BY DEF SingleInv
    <2>1. /\ \A g, k \in Playing : g = k
          /\ \A g \in Streams : Len(stream[g].buffers) <= 1
          /\ event => Playing = {}
      BY DEF WInv, SingleInv, Does
    <2>2. \A g, k \in Playing' : g = k
      BY <1>2, <1>6, <2>1
    <2>3. \A g \in Streams : Len(stream'[g].buffers) <= 1
      BY <1>4, <2>1, PlayingIs, PlayingThen DEF WInv
    <2>4. event' => Playing' = {}
      BY <1>2, <1>3, <1>6, <2>1
    <2> QED
      BY <2>2, <2>3, <2>4 DEF SingleInv
  <1>8. PlayerInv'
    <2>1. Polite' => Polite
      BY DEF Polite, Does
    <2>2. Playing # {} => event' \/ Playing' # {}
      BY <1>2, <1>3, <1>6
    <2> QED
      BY <2>1, <2>2 DEF WInv, PlayerInv
  <1> QED
    BY <1>5, <1>7, <1>8

(* Headers that are finished keep their type.                               *)
LEMMA FinishedType ==
  ASSUME WaveTypes, NEW xs
  PROVE  Finished(xs) \in [Headers -> HeaderRecord]
  BY DEF WaveTypes, HeaderRecord, Finished

(* waveOutReset keeps WInv: the stream's buffers and chunks go together.    *)
LEMMA StoppedStep ==
  ASSUME SInv, WInv, NEW h \in Streams, WaveOutReset(h)
  PROVE  WInv'
  <1>1. /\ stream[h].state = "open" /\ backend' = Without(h)
        /\ header' = Finished(HeadersOf(stream[h].buffers))
        /\ event' = (event \/ stream[h].buffers # << >>)
        /\ stream' = [stream EXCEPT ![h].buffers = << >>, ![h].next = 0]
        /\ UNCHANGED <<scene, tstate, writes, device, cached>>
    BY DEF WaveOutReset, OnStream, Other, endpointVars
  <1>2. /\ stream' \in [Streams -> StreamRecord]
        /\ \A g \in Streams \ {h} : stream'[g] = stream[g]
        /\ stream'[h].state = "open" /\ stream'[h].device = stream[h].device
        /\ stream'[h].buffers = << >>
    <2>1. << >> \in Seq(Buffer)
      BY EmptySeq
    <2> QED
      BY <1>1, <2>1, ZenonT(40) DEF WInv, WaveTypes, StreamRecord
  <1>3. WaveTypes'
    <2>1. event' \in BOOLEAN
      BY <1>1 DEF WInv, WaveTypes
    <2> QED
      BY <1>1, <1>2, <2>1, ChunksLeft, FinishedType DEF WInv, WaveTypes
  <1>4. DeviceInv' /\ ShutInv'
    BY <1>1, <1>2 DEF WInv, DeviceInv, ShutInv
  <1>5. ChunkInv'
    BY <1>1, <1>2, ChunksKept DEF WInv
  <1> QED
    BY <1>1, <1>2, <1>3, <1>4, <1>5, LineStopped DEF WInv

(* The device of a closed stream goes to the cache, whose oldest may go.    *)
Caches(h) ==
  LET all == Append(cached, stream[h].device)
      old == IF Len(all) > MaxCached THEN {all[1]} ELSE {}
  IN /\ cached' = IF old = {} THEN all ELSE SubSeq(all, 2, Len(all))
     /\ device' = [d \in Streams |-> IF d \in old THEN "closed"
                                     ELSE IF d = stream[h].device THEN "cached"
                                     ELSE device[d]]

(* The cache after a stream's device was put there: each device once, none  *)
(* in use.                                                                  *)
LEMMA CachedDevice ==
  ASSUME WaveTypes, DeviceInv, NEW h \in Streams, stream[h].state = "open", Caches(h)
  PROVE  /\ cached' \in Seq(Streams) /\ Len(cached') <= MaxCached
         /\ device' \in [Streams -> {"closed", "open", "cached"}]
         /\ \A d \in Streams : device[d] = "open" /\ d # stream[h].device => device'[d] = "open"
         /\ \A d \in Streams : device[d] = "closed" => device'[d] = "closed"
         /\ \A i \in 1 .. Len(cached') : device'[cached'[i]] = "cached"
         /\ \A i, j \in 1 .. Len(cached') : i # j => cached'[i] # cached'[j]
  <1> DEFINE mine == stream[h].device
             all == Append(cached, mine)
             old == IF Len(all) > MaxCached THEN {all[1]} ELSE {}
  <1>1. mine \in Streams /\ device[mine] = "open"
    BY DEF DeviceInv
  <1>2. PICK n \in Nat : n = Len(cached) /\ n <= MaxCached
    BY LenProperties DEF WaveTypes
  <1>3. /\ Len(all) > MaxCached =>
             /\ cached' = SubSeq(all, 2, Len(all))
             /\ device' = [d \in Streams |-> IF d = all[1] THEN "closed"
                                             ELSE IF d = mine THEN "cached" ELSE device[d]]
        /\ ~(Len(all) > MaxCached) =>
             /\ cached' = all
             /\ device' = [d \in Streams |-> IF d = mine THEN "cached" ELSE device[d]]
    <2>1. CASE Len(all) > MaxCached
      <3>1. old = {all[1]} /\ old # {} /\ \A d : d \in old <=> d = all[1]
        BY <2>1
      <3> QED
        BY <2>1, <3>1 DEF Caches
    <2>2. CASE ~(Len(all) > MaxCached)
      <3>1. old = {} /\ \A d : d \notin old
        BY <2>2
      <3> QED
        BY <2>2, <3>1 DEF Caches
    <2> QED
      BY <2>1, <2>2
  <1> HIDE DEF old
  <1> HIDE DEF mine
  <1>4. /\ all \in Seq(Streams) /\ Len(all) = n + 1 /\ all[n + 1] = mine
        /\ \A i \in 1 .. n : all[i] = cached[i]
    BY <1>1, <1>2, AppendProperties DEF WaveTypes
  <1> HIDE DEF all
  <1>5. \A i \in 1 .. n : /\ all[i] \in Streams /\ device[all[i]] = "cached"
                          /\ all[i] # mine
    BY <1>1, <1>2, <1>4, ElementOfSeq DEF DeviceInv, WaveTypes
  <1>6. \A i, j \in 1 .. n + 1 : i # j => all[i] # all[j]
    <2>1. \A i \in 1 .. n + 1 : i \in 1 .. n \/ i = n + 1
      OBVIOUS
    <2>2. \A i, j \in 1 .. n : i # j => all[i] # all[j]
      BY <1>2, <1>4 DEF DeviceInv
    <2> QED
      BY <1>4, <1>5, <2>1, <2>2
  <1>7. CASE n + 1 <= MaxCached
    <2>1. cached' = all
      BY <1>3, <1>4, <1>7, WaveAssumption
    <2>2. device' = [d \in Streams |-> IF d = mine THEN "cached" ELSE device[d]]
      BY <1>3, <1>4, <1>7, WaveAssumption
    <2>3. \A i \in 1 .. n + 1 : device'[all[i]] = "cached"
      <3>1. \A i \in 1 .. n + 1 : i \in 1 .. n \/ i = n + 1
        OBVIOUS
      <3> QED
        BY <1>1, <1>4, <1>5, <2>2, <3>1
    <2>4. device' \in [Streams -> {"closed", "open", "cached"}]
      BY <2>2 DEF WaveTypes
    <2>5. \A d \in Streams : device[d] = "open" /\ d # mine => device'[d] = "open"
      BY <2>2
    <2>6. \A d \in Streams : device[d] = "closed" => device'[d] = "closed"
      BY <1>1, <2>2
    <2>7. mine = stream[h].device
      BY DEF mine
    <2>8. Len(cached') = n + 1 /\ cached' \in Seq(Streams)
      BY <1>4, <2>1
    <2>9. \A i, j \in 1 .. n + 1 : i # j => cached'[i] # cached'[j]
      BY <1>6, <2>1
    <2>10. \A i \in 1 .. n + 1 : device'[cached'[i]] = "cached"
      BY <2>1, <2>3
    <2> QED
      BY <1>7, <2>4, <2>5, <2>6, <2>7, <2>8, <2>9, <2>10
  <1>8. CASE ~(n + 1 <= MaxCached)
    <2>1. /\ n >= 1 /\ cached' = SubSeq(all, 2, n + 1)
          /\ device' = [d \in Streams |-> IF d = all[1] THEN "closed"
                                          ELSE IF d = mine THEN "cached" ELSE device[d]]
      BY <1>2, <1>3, <1>4, <1>8, WaveAssumption
    <2>2. /\ cached' \in Seq(Streams) /\ Len(cached') = n
          /\ \A i \in 1 .. n : cached'[i] = all[i + 1]
      BY <1>4, <2>1, DropFirst
    <2>3. /\ device' \in [Streams -> {"closed", "open", "cached"}]
          /\ all[1] \in Streams /\ device[all[1]] = "cached" /\ all[1] # mine
          /\ \A d \in Streams : device'[d] = IF d = all[1] THEN "closed"
                                            ELSE IF d = mine THEN "cached" ELSE device[d]
      BY <1>5, <2>1 DEF WaveTypes
    <2>4. \A i \in 1 .. n : /\ i + 1 \in 1 .. n + 1 /\ i + 1 # 1 /\ 1 \in 1 .. n + 1
                            /\ (i + 1 = n + 1 \/ i + 1 \in 1 .. n)
      BY <2>1
    <2>5. ASSUME NEW i \in 1 .. n
          PROVE  cached'[i] # all[1] /\ cached'[i] \in Streams
                 /\ (cached'[i] = mine \/ device[cached'[i]] = "cached")
      <3>1. PICK j \in 1 .. n + 1 : j = i + 1 /\ j # 1 /\ (j = n + 1 \/ j \in 1 .. n)
        BY <2>4
      <3>2. cached'[i] = all[j] /\ all[j] # all[1]
        BY <1>6, <2>2, <2>4, <3>1
      <3>3. CASE j = n + 1
        <4>1. all[j] = mine
          BY <1>4, <3>3
        <4> QED
          BY <1>1, <3>2, <4>1
      <3>4. CASE j \in 1 .. n
        <4>1. all[j] \in Streams /\ device[all[j]] = "cached"
          BY <1>5, <3>4
        <4> QED
          BY <3>2, <4>1
      <3> QED
        BY <3>1, <3>3, <3>4
    <2>6. \A i \in 1 .. n : device'[cached'[i]] = "cached"
      BY <2>3, <2>5
    <2>7. \A i, j \in 1 .. n : i # j => cached'[i] # cached'[j]
      <3>1. \A i, j \in 1 .. n : i # j => i + 1 # j + 1
        OBVIOUS
      <3> QED
        BY <1>6, <2>2, <2>4, <3>1
    <2>8. \A d \in Streams : device[d] = "open" /\ d # mine => device'[d] = "open"
      BY <2>3
    <2>9. \A d \in Streams : device[d] = "closed" => device'[d] = "closed"
      BY <1>1, <2>3
    <2> QED
      BY <1>2, <2>2, <2>3, <2>6, <2>7, <2>8, <2>9 DEF mine
  <1> QED
    BY <1>7, <1>8, Zenon

(* waveOutClose keeps WInv.                                                 *)
LEMMA ClosedStep ==
  ASSUME SInv, WInv, NEW h \in Streams, WaveOutClose(h)
  PROVE  WInv'
  <1>1. /\ stream[h].state = "open" /\ backend' = Without(h)
        /\ header' = Finished(HeadersOf(stream[h].buffers))
        /\ event' = (event \/ stream[h].buffers # << >>)
        /\ stream' = [stream EXCEPT ![h].state = "closed", ![h].buffers = << >>]
        /\ UNCHANGED <<scene, tstate, writes>>
    BY DEF WaveOutClose, OnStream, ChunksCleared, EventAtClose, Other, endpointVars
  <1>2. /\ stream' \in [Streams -> StreamRecord]
        /\ \A g \in Streams \ {h} : stream'[g] = stream[g]
        /\ stream'[h].state = "closed" /\ stream'[h].buffers = << >>
    <2>1. << >> \in Seq(Buffer)
      BY EmptySeq
    <2> QED
      BY <1>1, <2>1, ZenonT(40) DEF WInv, WaveTypes, StreamRecord
  <1>3. /\ cached' \in Seq(Streams) /\ Len(cached') <= MaxCached
        /\ device' \in [Streams -> {"closed", "open", "cached"}]
        /\ \A d \in Streams : device[d] = "open" /\ d # stream[h].device => device'[d] = "open"
        /\ \A d \in Streams : device[d] = "closed" => device'[d] = "closed"
        /\ \A i \in 1 .. Len(cached') : device'[cached'[i]] = "cached"
        /\ \A i, j \in 1 .. Len(cached') : i # j => cached'[i] # cached'[j]
    BY <1>1, CachedDevice DEF WInv, WaveOutClose, Caches
  <1>4. WaveTypes'
    <2>1. event' \in BOOLEAN
      BY <1>1 DEF WInv, WaveTypes
    <2> QED
      BY <1>1, <1>2, <1>3, <2>1, ChunksLeft, FinishedType DEF WInv, WaveTypes
  <1>5. DeviceInv'
    <2>1. ASSUME NEW g \in Streams, stream'[g].state = "open"
          PROVE  g # h /\ stream'[g] = stream[g] /\ stream[g].device \in Streams
                 /\ device'[stream[g].device] = "open"
      BY <1>1, <1>2, <1>3, <2>1 DEF WInv, DeviceInv
    <2>2. ASSUME NEW g \in Streams, stream'[g].state = "unused"
          PROVE  device'[g] = "closed"
      BY <1>2, <1>3, <2>2 DEF WInv, DeviceInv
    <2> QED
      BY <1>3, <2>1, <2>2 DEF WInv, DeviceInv
  <1>6. ChunkInv' /\ ShutInv'
    BY <1>1, <1>2, ChunksKept DEF WInv, ShutInv
  <1> QED
    BY <1>1, <1>2, <1>4, <1>5, <1>6, LineStopped DEF WInv

(* CloseHandle on a stream.                                                 *)
LEMMA HandleClosedStep ==
  ASSUME SInv, WInv, NEW h \in Streams, CloseWaveHandle(h)
  PROVE  WInv'
  <1>1. /\ stream[h].state = "open" /\ backend' = Without(h) /\ Does("closehandle")
        /\ header' = [x \in Headers |-> [header[x] EXCEPT !.stored = FALSE]]
        /\ stream' = [stream EXCEPT ![h].state = "gone", ![h].buffers = << >>]
        /\ device' = [device EXCEPT ![stream[h].device] = "closed"]
        /\ UNCHANGED <<scene, tstate, event, writes, cached>>
    BY DEF CloseWaveHandle, OnStream, Calls, Other, endpointVars
  <1>2. /\ stream' \in [Streams -> StreamRecord]
        /\ \A g \in Streams \ {h} : stream'[g] = stream[g]
        /\ stream'[h].state = "gone" /\ stream'[h].buffers = << >>
    <2>1. << >> \in Seq(Buffer)
      BY EmptySeq
    <2> QED
      BY <1>1, <2>1, ZenonT(40) DEF WInv, WaveTypes, StreamRecord
  <1>3. /\ stream[h].device \in Streams /\ device[stream[h].device] = "open"
        /\ device' \in [Streams -> {"closed", "open", "cached"}]
        /\ \A d \in Streams : device'[d] = IF d = stream[h].device THEN "closed" ELSE device[d]
    BY <1>1 DEF WInv, WaveTypes, DeviceInv
  <1>4. WaveTypes'
    <2>1. header' \in [Headers -> HeaderRecord]
      BY <1>1 DEF WInv, WaveTypes, HeaderRecord
    <2> QED
      BY <1>1, <1>2, <1>3, <2>1, ChunksLeft DEF WInv, WaveTypes
  <1>5. DeviceInv'
    <2>1. ASSUME NEW g \in Streams, stream'[g].state = "open"
          PROVE  g # h /\ stream'[g] = stream[g] /\ stream[g].device \in Streams
                 /\ device'[stream[g].device] = "open"
      BY <1>1, <1>2, <1>3, <2>1 DEF WInv, DeviceInv
    <2>2. ASSUME NEW g \in Streams, stream'[g].state = "unused"
          PROVE  device'[g] = "closed"
      BY <1>2, <1>3, <2>2 DEF WInv, DeviceInv
    <2>3. ASSUME NEW i \in 1 .. Len(cached)
          PROVE  cached[i] \in Streams /\ device'[cached[i]] = "cached"
      <3>1. cached[i] \in Streams
        BY ElementOfSeq DEF WInv, WaveTypes
      <3> QED
        BY <1>3, <3>1 DEF WInv, DeviceInv
    <2>4. \A i, j \in 1 .. Len(cached) : i # j => cached[i] # cached[j]
      BY DEF WInv, DeviceInv
    <2>5. \A g, k \in Streams : stream[g].state = "open" /\ stream[k].state = "open" /\ g # k
            => stream[g].device # stream[k].device
      BY DEF WInv, DeviceInv
    <2>6. \A g \in Streams : stream'[g].state = "open"
            => /\ stream'[g] = stream[g]
               /\ stream'[g].device \in Streams /\ device'[stream'[g].device] = "open"
      BY <2>1
    <2>7. \A g, k \in Streams : stream'[g].state = "open" /\ stream'[k].state = "open" /\ g # k
            => stream'[g].device # stream'[k].device
      BY <2>5, <2>6
    <2>8. cached' = cached
      BY <1>1
    <2> QED
      BY <2>2, <2>3, <2>4, <2>6, <2>7, <2>8 DEF DeviceInv
  <1>6. ChunkInv' /\ ShutInv'
    BY <1>1, <1>2, ChunksKept DEF WInv, ShutInv
  <1>7. ~Polite'
    BY <1>1 DEF Polite, Does
  <1>8. SingleInv'
    <2> SUFFICES ASSUME Does("single")' PROVE SingleInv'
      BY DEF SingleInv
    <2>1. /\ \A g, k \in Playing : g = k
          /\ \A g \in Streams : Len(stream[g].buffers) <= 1
          /\ event => Playing = {}
      BY <1>1 DEF WInv, SingleInv, Does
    <2>2. Playing' \subseteq Playing
      BY <1>2 DEF Playing
    <2>3. \A g \in Streams : Len(stream'[g].buffers) <= 1
      BY <1>2, <2>1, EmptySeq
    <2> QED
      BY <1>1, <2>1, <2>2, <2>3 DEF SingleInv
  <1> QED
    BY <1>4, <1>5, <1>6, <1>7, <1>8 DEF WInv, HeaderInv, PlayerInv

(* The player waits: a header that says queued is on a time line.           *)
LEMMA WaitStep ==
  ASSUME SInv, WInv, WaitForEvent
  PROVE  WInv'
  <1>1. /\ UNCHANGED <<scene, stream, header, writes, backend, device, cached>>
        /\ tstate[Player] = "runnable"
        /\ event \/ \E x \in Headers : header[x].inqueue
        /\ (event /\ event' = FALSE /\ tstate' = tstate) \/ (~event /\ event' = event)
    <2>1. UNCHANGED <<scene, stream, header, writes, backend, device, cached>>
      BY DEF WaitForEvent, endpointVars
    <2>2. tstate[Player] = "runnable"
      BY SerialAssumption, PlayerWorks DEF WaitForEvent, Calls
    <2>3. (event \/ \E x \in Headers : header[x].inqueue)
          /\ IF event THEN event' = FALSE /\ UNCHANGED <<tstate, emu>> ELSE UNCHANGED event
      BY Zenon DEF WaitForEvent
    <2> QED
      BY <2>1, <2>2, <2>3
  <1>2. event' \in BOOLEAN /\ (event' => event)
    <2>1. event \in BOOLEAN
      BY DEF WInv, WaveTypes
    <2>2. CASE event
      <3>1. event' = FALSE
        BY <1>1, <2>2, Zenon
      <3> QED
        BY <3>1
    <2>3. CASE ~event
      <3>1. event' = event
        BY <1>1, <2>3, Zenon
      <3> QED
        BY <2>1, <2>3, <3>1, Zenon
    <2> QED
      BY <2>2, <2>3
  <1>3. WaveTypes'
    BY <1>1, <1>2 DEF WInv, WaveTypes
  <1>4. DeviceInv' /\ ChunkInv' /\ ShutInv'
    BY <1>1 DEF WInv, DeviceInv, ChunkInv, ShutInv
  <1>5. HeaderInv'
    BY <1>1 DEF WInv, HeaderInv, Polite, Does, QueuedAt
  <1>6. SingleInv'
    BY <1>1, <1>2 DEF WInv, SingleInv, Does, Playing
  <1>7. PlayerInv'
    <2> SUFFICES ASSUME Polite', tstate'[Player] = "wave" PROVE Playing' # {}
      BY DEF PlayerInv
    <2>1. Polite
      BY <1>1 DEF Polite, Does
    <2>2. PICK x \in Headers : header[x].inqueue
      BY <1>1
    <2>3. PICK h \in Streams, i \in Nat : QueuedAt(x, h, i)
      BY <2>1, <2>2 DEF WInv, HeaderInv
    <2>4. Len(stream[h].buffers) > 0
      BY <2>3, PlayingIs DEF QueuedAt, WInv
    <2>5. h \in Playing
      BY <2>4, PlayingIs DEF WInv
    <2> QED
      BY <1>1, <2>5 DEF Playing
  <1> QED
    BY <1>3, <1>4, <1>5, <1>6, <1>7 DEF WInv

(* What has not ended stays on the time lines, in its order.                *)
Unripe == {b \in Buffer : b.end > now}
Left(e, h) == Embeds(e, stream[h].buffers, Len(stream[h].buffers), Unripe, stream'[h].buffers)

(* A refresh leaves of each stream the buffers that have not ended, in      *)
(* order.                                                                   *)
LEMMA LinesLeft ==
  ASSUME SInv, WInv, RefreshCompletedHostWaveBuffers
  PROVE  /\ stream' \in [Streams -> StreamRecord]
         /\ \A h \in Streams : /\ stream'[h].state = stream[h].state
                               /\ stream'[h].device = stream[h].device
                               /\ \E e : Left(e, h)
  <1>1. stream' = [h \in Streams |->
          IF stream[h].state # "open" THEN stream[h]
          ELSE [stream[h] EXCEPT !.buffers = Keep(stream[h].buffers, Unripe),
                  !.next = IF Keep(stream[h].buffers, Unripe) = << >> THEN Later(@, now) ELSE @]]
    BY DEF RefreshCompletedHostWaveBuffers, Unripe
  <1>2. now \in Nat
    BY DEF SInv, LineType
  <1>3. ASSUME NEW h \in Streams
        PROVE  /\ stream'[h] \in StreamRecord
               /\ stream'[h].state = stream[h].state
               /\ stream'[h].device = stream[h].device
               /\ \E e : Left(e, h)
    <2> DEFINE left == Keep(stream[h].buffers, Unripe)
    <2>1. stream[h] \in StreamRecord /\ stream[h].buffers \in Seq(Buffer) /\ stream[h].next \in Nat
      BY DEF WInv, WaveTypes, StreamRecord
    <2>2. left \in Seq(Buffer)
          /\ \E e : Embeds(e, stream[h].buffers, Len(stream[h].buffers), Unripe, left)
      BY <2>1, KeepSeq
    <2>3. CASE stream[h].state # "open"
      <3>1. stream'[h] = stream[h] /\ stream[h].buffers = << >>
        BY <1>1, <2>3 DEF WInv, ShutInv
      <3> DEFINE e == [k \in 1 .. 0 |-> 0]
      <3>2. Len(<< >>) = 0
        BY EmptySeq
      <3>3. Embeds(e, << >>, 0, Unripe, << >>)
        BY <3>2 DEF Embeds
      <3>4. Left(e, h)
        BY <3>1, <3>2, <3>3 DEF Left
      <3> QED
        BY <2>1, <3>1, <3>4
    <2>4. CASE stream[h].state = "open"
      <3> DEFINE next == IF left = << >> THEN Later(stream[h].next, now) ELSE stream[h].next
      <3>1. stream'[h] = [stream[h] EXCEPT !.buffers = left, !.next = next]
        BY <1>1, <2>4
      <3>2. next \in Nat
        BY <1>2, <2>1 DEF Later
      <3> HIDE DEF next, left
      <3>3. /\ stream'[h] \in StreamRecord /\ stream'[h].state = stream[h].state
            /\ stream'[h].device = stream[h].device /\ stream'[h].buffers = left
        BY <2>1, <2>2, <3>1, <3>2 DEF StreamRecord
      <3> QED
        BY <2>2, <3>3 DEF Left
    <2> QED
      BY <2>3, <2>4
  <1>4. stream' \in [Streams -> StreamRecord]
    BY <1>1, <1>3
  <1> QED
    BY <1>3, <1>4

RipeAt(x, h, i) == QueuedAt(x, h, i) /\ stream[h].buffers[i].end <= now

(* A header is ripe where a buffer that has it has ended.                   *)
LEMMA RipeIs ==
  ASSUME WaveTypes
  PROVE  /\ \A x : x \in RipeHeaders <=> \E h \in Streams, i \in Nat : RipeAt(x, h, i)
         /\ RipeHeaders \subseteq Headers
  <1>1. \A h \in Streams : /\ stream[h].buffers \in Seq(Buffer)
                           /\ DOMAIN stream[h].buffers = 1 .. Len(stream[h].buffers)
                           /\ Len(stream[h].buffers) \in Nat
    BY LenProperties DEF WaveTypes, StreamRecord
  <1>2. \A h \in Streams : \A i \in 1 .. Len(stream[h].buffers) : stream[h].buffers[i] \in Buffer
    BY <1>1, ElementOfSeq
  <1>3. \A h \in Streams : Ripe(h) = {i \in 1 .. Len(stream[h].buffers) :
                                        stream[h].buffers[i].end <= now}
    BY <1>1 DEF Ripe
  <1>4. \A x : x \in RipeHeaders <=>
          \E h \in Streams : \E i \in Ripe(h) : x = stream[h].buffers[i].header
    BY DEF RipeHeaders
  <1>5. \A x : x \in RipeHeaders <=> \E h \in Streams, i \in Nat : RipeAt(x, h, i)
    <2> TAKE x
    <2>1. ASSUME NEW h \in Streams, NEW i \in Ripe(h), x = stream[h].buffers[i].header
          PROVE  \E g \in Streams, k \in Nat : RipeAt(x, g, k)
      BY <1>1, <1>3, <2>1 DEF RipeAt, QueuedAt
    <2>2. ASSUME NEW h \in Streams, NEW i \in Nat, RipeAt(x, h, i)
          PROVE  i \in Ripe(h) /\ x = stream[h].buffers[i].header
      BY <1>3, <2>2 DEF RipeAt, QueuedAt
    <2> QED
      BY <1>4, <2>1, <2>2, Zenon
  <1>6. RipeHeaders \subseteq Headers
    <2> SUFFICES ASSUME NEW x \in RipeHeaders PROVE x \in Headers
      OBVIOUS
    <2>1. PICK h \in Streams, i \in Nat : RipeAt(x, h, i)
      BY <1>5
    <2>2. stream[h].buffers[i] \in Buffer /\ stream[h].buffers[i].header = x
      BY <1>2, <2>1 DEF RipeAt, QueuedAt
    <2> QED
      BY <2>2 DEF Buffer
  <1> QED
    BY <1>5, <1>6

(* refreshCompletedHostWaveBuffers keeps WInv: what leaves the streams is   *)
(* marked done.                                                             *)
LEMMA RefreshedStep ==
  ASSUME SInv, WInv, RefreshCompletedHostWaveBuffers
  PROVE  WInv'
  <1>1. /\ header' = [x \in Headers |-> IF x \in RipeHeaders THEN Told(x) ELSE header[x]]
        /\ event' = (event \/ RipeHeaders # {})
        /\ tstate' = [t \in Workers |-> IF RipeHeaders # {} /\ tstate[t] = "wave" THEN "runnable"
                                        ELSE tstate[t]]
        /\ UNCHANGED <<scene, writes, backend, device, cached>>
    BY DEF RefreshCompletedHostWaveBuffers, endpointVars
  <1>2. /\ stream' \in [Streams -> StreamRecord]
        /\ \A h \in Streams : /\ stream'[h].state = stream[h].state
                              /\ stream'[h].device = stream[h].device
                              /\ \E e : Left(e, h)
    BY LinesLeft
  <1>3. /\ \A x : x \in RipeHeaders <=> \E h \in Streams, i \in Nat : RipeAt(x, h, i)
        /\ RipeHeaders \subseteq Headers
    BY RipeIs DEF WInv
  <1> DEFINE len(h) == Len(stream[h].buffers)
             left(h) == Len(stream'[h].buffers)
             E(h) == CHOOSE e : Left(e, h)
  <1>4. \A h \in Streams : Left(E(h), h)
    BY <1>2
  <1>5. \A h \in Streams : len(h) \in Nat /\ left(h) \in Nat
                           /\ (h \in Playing <=> len(h) > 0)
    BY PlayingIs, <1>2, LineLength DEF WInv
  <1> HIDE DEF E
  <1>6. ASSUME NEW h \in Streams
        PROVE  /\ \A k \in 1 .. left(h) :
                    /\ E(h)[k] \in 1 .. len(h)
                    /\ stream'[h].buffers[k] = stream[h].buffers[E(h)[k]]
                    /\ stream[h].buffers[E(h)[k]].end > now
               /\ \A k, l \in 1 .. left(h) : E(h)[k] = E(h)[l] => k = l
               /\ \A i \in 1 .. len(h) : stream[h].buffers[i].end > now
                    => \E k \in 1 .. left(h) : E(h)[k] = i
    <2>1. Embeds(E(h), stream[h].buffers, len(h), Unripe, stream'[h].buffers)
      BY <1>4 DEF Left
    <2>2. /\ E(h) \in [1 .. left(h) -> 1 .. len(h)]
          /\ \A k, l \in 1 .. left(h) : k < l => E(h)[k] < E(h)[l]
          /\ \A k \in 1 .. left(h) : /\ stream'[h].buffers[k] = stream[h].buffers[E(h)[k]]
                                     /\ stream[h].buffers[E(h)[k]] \in Unripe
          /\ \A i \in 1 .. len(h) : stream[h].buffers[i] \in Unripe
               => \E k \in 1 .. left(h) : E(h)[k] = i
      BY <2>1 DEF Embeds
    <2>3. \A i \in 1 .. len(h) : stream[h].buffers[i] \in Buffer
      BY ElementOfSeq DEF WInv, WaveTypes, StreamRecord
    <2>4. \A k, l \in 1 .. left(h) : E(h)[k] = E(h)[l] => k = l
      <3> TAKE k, l \in 1 .. left(h)
      <3>1. E(h)[k] \in Nat /\ E(h)[l] \in Nat
        <4>1. E(h)[k] \in 1 .. len(h) /\ E(h)[l] \in 1 .. len(h) /\ len(h) \in Nat
          BY <1>5, <2>2
        <4> HIDE DEF len
        <4> QED
          BY <4>1
      <3>2. (k < l => E(h)[k] < E(h)[l]) /\ (l < k => E(h)[l] < E(h)[k])
        BY <2>2
      <3> QED
        BY <1>5, <3>1, <3>2
    <2>5. \A k \in 1 .. left(h) : stream[h].buffers[E(h)[k]].end > now
      BY <2>2 DEF Unripe
    <2>6. \A i \in 1 .. len(h) : stream[h].buffers[i].end > now
            => stream[h].buffers[i] \in Unripe
      BY <2>3 DEF Unripe
    <2> QED
      BY <2>2, <2>4, <2>5, <2>6
  <1>7. \A h \in Streams : \A i \in 1 .. len(h) :
          stream[h].buffers[i].end \in Nat
    <2> TAKE h \in Streams
    <2> TAKE i \in 1 .. len(h)
    <2>1. stream[h].buffers[i] \in Buffer
      BY ElementOfSeq DEF WInv, WaveTypes, StreamRecord
    <2> QED
      BY <2>1 DEF Buffer
  <1>8. now \in Nat
    BY DEF SInv, LineType
  <1>9. \A x \in Headers, h \in Streams, k \in Nat : QueuedAt(x, h, k)' =>
          E(h)[k] \in Nat /\ QueuedAt(x, h, E(h)[k]) /\ ~RipeAt(x, h, E(h)[k])
    <2> TAKE x \in Headers, h \in Streams, k \in Nat
    <2> HAVE QueuedAt(x, h, k)'
    <2>1. k \in 1 .. left(h) /\ stream'[h].buffers[k].header = x
      BY DEF QueuedAt
    <2>2. /\ E(h)[k] \in 1 .. len(h)
          /\ stream[h].buffers[E(h)[k]].header = x
          /\ stream[h].buffers[E(h)[k]].end > now
      BY <1>6, <2>1
    <2>3. ~(stream[h].buffers[E(h)[k]].end <= now) /\ E(h)[k] \in Nat
      BY <1>5, <1>7, <1>8, <2>2
    <2> QED
      BY <2>2, <2>3 DEF QueuedAt, RipeAt
  <1>10. \A x \in Headers, h \in Streams, i \in Nat : QueuedAt(x, h, i) /\ ~RipeAt(x, h, i)
           => \E k \in Nat : QueuedAt(x, h, k)'
    <2> TAKE x \in Headers, h \in Streams, i \in Nat
    <2> HAVE QueuedAt(x, h, i) /\ ~RipeAt(x, h, i)
    <2>1. i \in 1 .. len(h) /\ stream[h].buffers[i].header = x /\ stream[h].buffers[i].end > now
      BY <1>7, <1>8 DEF QueuedAt, RipeAt
    <2>2. PICK k \in 1 .. left(h) : E(h)[k] = i
      BY <1>6, <2>1
    <2>3. stream'[h].buffers[k] = stream[h].buffers[i] /\ k \in Nat
      BY <1>5, <1>6, <2>2
    <2> QED
      BY <2>1, <2>3 DEF QueuedAt
  <1>11. header' \in [Headers -> HeaderRecord]
         /\ \A x \in Headers : /\ x \in RipeHeaders => ~header'[x].inqueue
                               /\ x \notin RipeHeaders => header'[x] = header[x]
    BY <1>1 DEF WInv, WaveTypes, HeaderRecord, Told
  <1>12. WaveTypes'
    <2>1. event' \in BOOLEAN
      BY <1>1 DEF WInv, WaveTypes
    <2> QED
      BY <1>1, <1>2, <1>11, <2>1 DEF WInv, WaveTypes
  <1>13. DeviceInv' /\ ChunkInv'
    BY <1>1, <1>2 DEF WInv, DeviceInv, ChunkInv
  <1>14. \A h \in Streams : left(h) = 0 \/ len(h) > 0
    <2> TAKE h \in Streams
    <2>1. left(h) \in Nat /\ len(h) \in Nat
      BY <1>5
    <2>2. 1 \in 1 .. left(h) => E(h)[1] \in 1 .. len(h)
      BY <1>6
    <2> HIDE DEF left, len
    <2> QED
      BY <2>1, <2>2
  <1>15. ShutInv'
    <2> SUFFICES ASSUME NEW h \in Streams, stream'[h].state # "open"
                 PROVE  stream'[h].buffers = << >>
      BY DEF ShutInv
    <2>1. len(h) = 0
      BY <1>2, EmptySeq DEF WInv, ShutInv
    <2>2. left(h) = 0
      BY <1>14, <2>1
    <2> QED
      BY <1>2, <2>2, LineLength
  <1>16. \A h \in Streams : h \in Playing' <=> left(h) > 0
    BY <1>12, PlayingThen
  <1>17. Playing' \subseteq Playing
    BY <1>5, <1>14, <1>16 DEF Playing
  <1>18. RipeHeaders = {} => \A h \in Streams : len(h) > 0 => left(h) > 0
    <2> SUFFICES ASSUME RipeHeaders = {}, NEW h \in Streams, len(h) > 0
                 PROVE  left(h) > 0
      OBVIOUS
    <2>1. 1 \in 1 .. len(h) /\ 1 \in Nat
      BY <1>5
    <2>2. PICK x : x = stream[h].buffers[1].header
      OBVIOUS
    <2>3. ~RipeAt(x, h, 1) /\ QueuedAt(x, h, 1)
      BY <1>3, <2>1, <2>2 DEF QueuedAt
    <2>4. stream[h].buffers[1].end > now
      BY <1>7, <1>8, <2>1, <2>3 DEF RipeAt
    <2>5. PICK k \in 1 .. left(h) : E(h)[k] = 1
      BY <1>6, <2>1, <2>4
    <2> QED
      BY <1>5, <2>5
  <1>19. HeaderInv'
    <2> SUFFICES ASSUME Polite' PROVE HeaderInv'
      BY DEF HeaderInv
    <2>1. Polite
      BY <1>1 DEF Polite, Does
    <2>2. \A x \in Headers, g, h \in Streams, i, j \in Nat :
            QueuedAt(x, g, i) /\ QueuedAt(x, h, j) => g = h /\ i = j
      BY <2>1 DEF WInv, HeaderInv
    <2>3. \A x \in Headers : header[x].inqueue <=> \E h \in Streams, i \in Nat : QueuedAt(x, h, i)
      BY <2>1 DEF WInv, HeaderInv
    <2>4. \A x \in Headers :
            header'[x].inqueue <=> \E h \in Streams, i \in Nat : QueuedAt(x, h, i)'
      <3> TAKE x \in Headers
      <3>1. CASE x \in RipeHeaders
        <4>1. ~header'[x].inqueue
          BY <1>11, <3>1
        <4>2. PICK h \in Streams, i \in Nat : RipeAt(x, h, i)
          BY <1>3, <3>1
        <4>3. ASSUME NEW g \in Streams, NEW k \in Nat, QueuedAt(x, g, k)' PROVE FALSE
          <5>1. E(g)[k] \in Nat /\ QueuedAt(x, g, E(g)[k]) /\ ~RipeAt(x, g, E(g)[k])
            BY <1>9, <4>3
          <5>2. PICK j \in Nat : j = E(g)[k]
            BY <5>1
          <5>3. QueuedAt(x, h, i)
            BY <4>2 DEF RipeAt
          <5>4. g = h /\ j = i
            BY <2>2, <5>1, <5>2, <5>3
          <5> QED
            BY <4>2, <5>1, <5>2, <5>4
        <4> QED
          BY <4>1, <4>3
      <3>2. CASE x \notin RipeHeaders
        <4>1. header'[x] = header[x]
          BY <1>11, <3>2
        <4>2. \A h \in Streams, i \in Nat : ~RipeAt(x, h, i)
          BY <1>3, <3>2
        <4>3. ASSUME NEW h \in Streams, NEW i \in Nat, QueuedAt(x, h, i)
              PROVE  \E k \in Nat : QueuedAt(x, h, k)'
          BY <1>10, <4>2, <4>3
        <4>4. ASSUME NEW h \in Streams, NEW k \in Nat, QueuedAt(x, h, k)'
              PROVE  \E i \in Nat : QueuedAt(x, h, i)
          BY <1>9, <4>4
        <4> QED
          BY <2>3, <4>1, <4>3, <4>4
      <3> QED
        BY <3>1, <3>2
    <2>5. \A x \in Headers : header'[x].inqueue => header'[x].stored
      BY <1>11, <2>1 DEF WInv, HeaderInv
    <2>6. ASSUME NEW x \in Headers, NEW g \in Streams, NEW h \in Streams, NEW k \in Nat, NEW l \in Nat,
                 QueuedAt(x, g, k)', QueuedAt(x, h, l)'
          PROVE  g = h /\ k = l
      <3>1. PICK i \in Nat, j \in Nat : i = E(g)[k] /\ j = E(h)[l]
        BY <1>9, <2>6
      <3>2. QueuedAt(x, g, i) /\ QueuedAt(x, h, j)
        BY <1>9, <2>6, <3>1
      <3>3. g = h /\ i = j
        BY <2>2, <3>2
      <3>4. k \in 1 .. left(g) /\ l \in 1 .. left(g)
        BY <2>6, <3>3 DEF QueuedAt
      <3> QED
        BY <1>6, <3>1, <3>3, <3>4
    <2> QED
      BY <2>4, <2>5, <2>6 DEF HeaderInv
  <1>20. SingleInv'
    <2> SUFFICES ASSUME Does("single")' PROVE SingleInv'
      BY DEF SingleInv
    <2>1. /\ \A g, h \in Playing : g = h
          /\ \A h \in Streams : len(h) <= 1
          /\ event => Playing = {}
      BY <1>1 DEF WInv, SingleInv, Does
    <2>2. \A g, h \in Playing' : g = h
      BY <1>17, <2>1
    <2>3. ASSUME NEW h \in Streams
          PROVE  left(h) <= 1
      <3>1. left(h) \in Nat /\ len(h) \in Nat /\ len(h) <= 1
        BY <1>5, <2>1
      <3>2. CASE 2 \in 1 .. left(h) /\ 1 \in 1 .. left(h)
        <4>1. E(h)[1] \in 1 .. len(h) /\ E(h)[2] \in 1 .. len(h)
          BY <1>6, <3>2
        <4> HIDE DEF len, left
        <4>2. E(h)[1] = 1 /\ E(h)[2] = 1
          BY <3>1, <4>1
        <4>3. 1 = 2
          BY <1>6, <3>2, <4>2
        <4> QED
          BY <4>3
      <3> HIDE DEF len, left
      <3> QED
        BY <3>1, <3>2
    <2>4. ASSUME event' PROVE Playing' = {}
      <3>1. CASE event
        BY <1>17, <2>1, <3>1
      <3>2. CASE RipeHeaders # {}
        <4>0. PICK x \in RipeHeaders : TRUE
          BY <3>2
        <4>1. PICK h \in Streams, i \in Nat : RipeAt(x, h, i)
          BY <1>3, <4>0
        <4>2. i \in 1 .. len(h) /\ stream[h].buffers[i].end <= now
          BY <4>1 DEF RipeAt, QueuedAt
        <4>3. i = 1 /\ len(h) = 1 /\ h \in Playing
          <5>1. len(h) \in Nat /\ len(h) <= 1 /\ (h \in Playing <=> len(h) > 0)
            BY <1>5, <2>1
          <5> HIDE DEF len
          <5> QED
            BY <4>2, <5>1
        <4>4. ASSUME NEW g \in Playing' PROVE FALSE
          <5>1. g = h /\ left(h) > 0
            BY <1>16, <1>17, <2>1, <4>3, <4>4 DEF Playing
          <5>2. 1 \in 1 .. left(h)
            BY <1>5, <5>1
          <5>3. PICK j : j = E(h)[1] /\ j \in 1 .. len(h) /\ stream[h].buffers[j].end > now
            BY <1>6, <5>2
          <5>4. j = 1
            BY <4>3, <5>3
          <5> QED
            BY <1>7, <1>8, <4>2, <4>3, <5>3, <5>4
        <4> QED
          BY <4>4
      <3> QED
        BY <1>1, <2>4, <3>1, <3>2
    <2> QED
      BY <2>2, <2>3, <2>4 DEF SingleInv
  <1>21. PlayerInv'
    <2> SUFFICES ASSUME Polite', tstate'[Player] = "wave", ~event' PROVE Playing' # {}
      BY DEF PlayerInv
    <2>1. Polite /\ RipeHeaders = {} /\ ~event
      BY <1>1 DEF Polite, Does
    <2>2. tstate[Player] = "wave"
      BY <1>1, <2>1, PlayerWorks
    <2>3. PICK h \in Playing : TRUE
      BY <2>1, <2>2 DEF WInv, PlayerInv
    <2>4. h \in Streams /\ len(h) > 0
      BY <1>5, <2>3 DEF Playing
    <2>5. h \in Playing'
      BY <1>16, <1>18, <2>1, <2>4
    <2> QED
      BY <2>5
  <1> QED
    BY <1>12, <1>13, <1>15, <1>19, <1>20, <1>21 DEF WInv

(* A signaled event goes to the first of the waiting threads: the player,   *)
(* which is the first of all, where it waits.                               *)
LEMMA SignaledStep ==
  ASSUME SInv, WInv, RefreshSignaledWaits
  PROVE  WInv'
  <1> DEFINE parked == {t \in Workers : tstate[t] = "wave"}
  <1>1. UNCHANGED <<scene, stream, header, writes, backend, device, cached>>
    BY DEF RefreshSignaledWaits, endpointVars
  <1>2. IF event /\ parked # {}
        THEN tstate' = [tstate EXCEPT ![Next1(parked)] = "runnable"] /\ event' = FALSE
        ELSE UNCHANGED <<tstate, event>>
    BY Zenon DEF RefreshSignaledWaits
  <1>3. event' \in BOOLEAN /\ (event' => event)
    <2>1. event \in BOOLEAN
      BY DEF WInv, WaveTypes
    <2>2. CASE event /\ parked # {}
      <3>1. event' = FALSE
        BY <1>2, <2>2, Zenon
      <3> QED
        BY <3>1
    <2>3. CASE ~(event /\ parked # {})
      <3>1. event' = event
        BY <1>2, <2>3, Zenon
      <3> QED
        BY <2>1, <3>1
    <2> QED
      BY <2>2, <2>3
  <1>4. WaveTypes'
    BY <1>1, <1>3 DEF WInv, WaveTypes
  <1>5. DeviceInv' /\ ChunkInv' /\ ShutInv'
    BY <1>1 DEF WInv, DeviceInv, ChunkInv, ShutInv
  <1>6. HeaderInv'
    BY <1>1 DEF WInv, HeaderInv, Polite, Does, QueuedAt
  <1>7. SingleInv'
    BY <1>1, <1>3 DEF WInv, SingleInv, Does, Playing
  <1>8. PlayerInv'
    <2> SUFFICES ASSUME Polite', tstate'[Player] = "wave", ~event' PROVE Playing' # {}
      BY DEF PlayerInv
    <2>1. Polite /\ (Playing # {} => Playing' # {})
      BY <1>1 DEF Polite, Does, Playing
    <2>2. CASE event /\ parked # {}
      <3>1. parked \in SUBSET Nat
        BY WorkersAreNumbers
      <3>2. Next1(parked) \in parked /\ \A k \in parked : Next1(parked) <= k
        BY <2>2, <3>1, Next1Least
      <3>3. tstate' = [tstate EXCEPT ![Next1(parked)] = "runnable"]
        BY <1>2, <2>2, Zenon
      <3>4. PICK n : n = Next1(parked)
        OBVIOUS
      <3>5. n \in Workers /\ n \in Nat /\ (Player \in parked => n <= Player)
            /\ Player <= n /\ Player \in Nat
        BY <3>1, <3>2, <3>4, PlayerWorks, WorkersAreNumbers
      <3>6. tstate' = [tstate EXCEPT ![n] = "runnable"]
        BY <3>3, <3>4
      <3>7. tstate'[Player] # "wave"
        <4>1. CASE Player \in parked
          <5>1. n = Player
            BY <3>5, <4>1
          <5> QED
            BY <3>5, <3>6, <5>1 DEF SInv, LineType
        <4>2. CASE Player \notin parked
          BY <3>5, <3>6, <4>2, PlayerWorks DEF SInv, LineType
        <4> QED
          BY <4>1, <4>2
      <3> QED
        BY <3>7
    <2>3. CASE ~(event /\ parked # {})
      <3>1. tstate' = tstate /\ event' = event
        BY <1>2, <2>3, Zenon
      <3> QED
        BY <2>1, <3>1 DEF WInv, PlayerInv
    <2> QED
      BY <2>2, <2>3
  <1> QED
    BY <1>4, <1>5, <1>6, <1>7, <1>8 DEF WInv

(* The backend thread only takes chunks away.                               *)
LEMMA BackendStep ==
  ASSUME SInv, WInv, Backend
  PROVE  WInv'
  <1>1. UNCHANGED <<scene, tstate, stream, header, event, writes, device, cached>>
    BY DEF Backend, BackendTake, BackendPlayed, endpointVars, serialVars
  <1>2. /\ backend' \in [chunks : Seq(Chunk), plays : Chunk]
        /\ Len(backend'.chunks) <= MaxChunks
        /\ \A k \in 1 .. Len(backend'.chunks) :
             \E l \in 1 .. Len(backend.chunks) : backend'.chunks[k] = backend.chunks[l]
    <2>1. backend.chunks \in Seq(Chunk) /\ Len(backend.chunks) <= MaxChunks
          /\ Len(backend.chunks) \in Nat
      BY LenProperties DEF WInv, WaveTypes
    <2>2. CASE BackendPlayed
      <3>1. NoChunk \in Chunk
        BY WaveAssumption DEF NoChunk, Chunk
      <3>2. backend' \in [chunks : Seq(Chunk), plays : Chunk] /\ backend'.chunks = backend.chunks
        BY <2>2, <3>1 DEF BackendPlayed, WInv, WaveTypes
      <3> QED
        BY <2>1, <3>2
    <2>3. CASE BackendTake
      <3>1. backend.chunks # << >>
            /\ backend' = [chunks |-> Tail(backend.chunks), plays |-> Head(backend.chunks)]
        BY <2>3 DEF BackendTake
      <3>2. /\ Head(backend.chunks) \in Chunk /\ Tail(backend.chunks) \in Seq(Chunk)
            /\ Len(Tail(backend.chunks)) = Len(backend.chunks) - 1
            /\ \A k \in 1 .. Len(Tail(backend.chunks)) :
                 Tail(backend.chunks)[k] = backend.chunks[k + 1]
        BY <2>1, <3>1, HeadTailProperties
      <3>3. PICK n \in Nat, new \in Seq(Chunk), first \in Chunk :
              /\ n = Len(backend.chunks) /\ new = Tail(backend.chunks)
              /\ first = Head(backend.chunks)
        BY <2>1, <3>2
      <3>4. backend' = [chunks |-> new, plays |-> first] /\ n <= MaxChunks
        BY <2>1, <3>1, <3>3
      <3>5. backend' \in [chunks : Seq(Chunk), plays : Chunk] /\ backend'.chunks = new
        BY <3>4
      <3>6. Len(new) = n - 1 /\ \A k \in 1 .. Len(new) : new[k] = backend.chunks[k + 1]
        BY <3>2, <3>3
      <3>7. \A k \in 1 .. n - 1 : k + 1 \in 1 .. n
        OBVIOUS
      <3>8. \A k \in 1 .. Len(new) : \E l \in 1 .. n : new[k] = backend.chunks[l]
        BY <3>6, <3>7
      <3>9. Len(new) <= MaxChunks
        BY <3>4, <3>6, WaveAssumption
      <3> QED
        BY <3>3, <3>5, <3>8, <3>9
    <2> QED
      BY <2>2, <2>3 DEF Backend
  <1>3. WaveTypes'
    BY <1>1, <1>2 DEF WInv, WaveTypes
  <1>4. DeviceInv' /\ ShutInv'
    BY <1>1 DEF WInv, DeviceInv, ShutInv
  <1>5. ChunkInv'
    BY <1>1, <1>2 DEF WInv, ChunkInv
  <1>6. HeaderInv' /\ SingleInv' /\ PlayerInv'
    BY <1>1, SMTT(20) DEF WInv, HeaderInv, SingleInv, PlayerInv, Polite, Does, QueuedAt, Playing
  <1> QED
    BY <1>3, <1>4, <1>5, <1>6 DEF WInv

(* What leaves waveOut alone and makes nobody wait for it.                  *)
LEMMA WaveAlone ==
  ASSUME WInv, UNCHANGED scene, UNCHANGED waveVars,
         tstate'[Player] = "wave" => tstate[Player] = "wave"
  PROVE  WInv'
  <1>1. UNCHANGED <<scene, stream, header, event, writes, backend, device, cached>>
    BY DEF waveVars
  <1>2. WaveTypes' /\ DeviceInv' /\ ShutInv' /\ ChunkInv'
    BY <1>1 DEF WInv, WaveTypes, DeviceInv, ShutInv, ChunkInv
  <1>3. HeaderInv' /\ SingleInv' /\ PlayerInv'
    BY <1>1 DEF WInv, HeaderInv, SingleInv, PlayerInv, Polite, Does, QueuedAt, Playing
  <1> QED
    BY <1>2, <1>3 DEF WInv

(* The ports make nobody wait for a buffer.                                 *)
LEMMA SerialAlone ==
  ASSUME SInv, Serial
  PROVE  UNCHANGED scene /\ (tstate'[Player] = "wave" => tstate[Player] = "wave")
  <1>1. Player \in Workers /\ tstate \in [Workers -> {"runnable", "serial", "wave"}]
    BY PlayerWorks DEF SInv, LineType
  <1>2. ASSUME NEW h \in Ports, NEW t \in Callers, NEW n \in 1 .. 2, ReadFile(t, h, n)
        PROVE  UNCHANGED scene /\ (tstate'[Player] = "wave" => tstate[Player] = "wave")
    <2>1. tstate' = tstate \/ tstate' = [tstate EXCEPT ![t] = "serial"]
      BY <1>2, Zenon DEF ReadFile, Park
    <2>2. UNCHANGED scene
      BY <1>2 DEF ReadFile, endpointVars
    <2> QED
      BY <1>1, <2>1, <2>2
  <1>3. CASE AnswerRead
    <2>1. tstate' = [tstate EXCEPT ![Next1(emu.todo)] = "runnable"]
      BY <1>3, Zenon DEF AnswerRead
    <2>2. UNCHANGED scene
      BY <1>3 DEF AnswerRead, TakeBytes, endpointVars
    <2> QED
      BY <1>1, <2>1, <2>2
  <1>4. CASE HandleReadFile \/ Tick \/ EndSlice \/ HostLoop \/ RefreshPendingSerialReads \/ CheckRead
    BY <1>4 DEF HandleReadFile, TakeBytes, Tick, EndSlice, HostLoop, DrainRemoteInputEvents,
                RefreshPendingSerialReads, CheckRead, endpointVars
  <1>5. ASSUME NEW h \in Ports,
               OpenGuestSerialDevice(h) \/ SetCommTimeouts(h) \/ CloseSerial(h)
        PROVE  UNCHANGED scene /\ tstate' = tstate
    BY <1>5 DEF OpenGuestSerialDevice, SetCommTimeouts, CloseSerial, endpointVars
  <1> QED
    BY <1>2, <1>3, <1>4, <1>5 DEF Serial, GuestSerialCall, HostStep

(* Every step keeps WInv.                                                   *)
LEMMA WInvStep ==
  ASSUME SInv, WInv, [Next]_vars
  PROVE  WInv'
  <1>1. CASE Endpoint
    <2>1. UNCHANGED <<scene, tstate>> /\ UNCHANGED waveVars
      BY <1>1 DEF Endpoint, SessionStep, EnqueueRemoteTouch, EnqueueRemoteKey,
                  InjectRemoteSerialBytes, NotifyRemoteInputQueued, SetPaused, serialVars
    <2> QED
      BY <2>1, WaveAlone
  <1>2. CASE Serial
    <2>1. UNCHANGED waveVars
      BY <1>2 DEF Serial
    <2> QED
      BY <1>2, <2>1, SerialAlone, WaveAlone
  <1>3. CASE \E c \in Clients : ClientStep(c)
    <2>1. UNCHANGED <<scene, tstate>> /\ UNCHANGED waveVars
      BY <1>3 DEF ClientStep, RegisterRemoteAudioClient, WaitForRemoteAudioChunks,
         TakeRemoteAudioChunk, Paced, UnregisterRemoteAudioClient, Still, endpointVars,
         serialVars
    <2> QED
      BY <2>1, WaveAlone
  <1>4. CASE UNCHANGED vars
    BY <1>4, WaveAlone DEF vars, endpointVars, serialVars
  <1>5. CASE GuestWaveCall
    BY <1>5, OpenedStep, WrittenStep, UnreadableStep, UnpreparedStep, StoppedStep, ClosedStep,
       HandleClosedStep, WaitStep, Zenon DEF GuestWaveCall
  <1>6. CASE Wave
    BY <1>5, <1>6, RefreshedStep, SignaledStep, BackendStep, Zenon DEF Wave
  <1> QED
    BY <1>1, <1>2, <1>3, <1>4, <1>6 DEF Next

(* WInv holds at first: no stream, no chunk, no device.                     *)
LEMMA WInvInit == Init => WInv
  <1> SUFFICES ASSUME Init PROVE WInv
    OBVIOUS
  <1>1. /\ stream = [h \in Streams |-> NoStream]
        /\ header = [x \in Headers |-> [stored |-> FALSE, inqueue |-> FALSE, done |-> FALSE]]
        /\ event = FALSE /\ writes = 0
        /\ backend = [chunks |-> << >>, plays |-> NoChunk]
        /\ device = [d \in Streams |-> "closed"]
        /\ cached = << >>
        /\ tstate = [t \in Workers |-> "runnable"]
    BY DEF Init, WaveInit, SerialInit
  <1>2. NoStream \in StreamRecord /\ NoStream.buffers = << >>
    BY NoStreamType
  <1>3. NoStream.state = "unused"
    BY DEF NoStream
  <1>4. \A h \in Streams : stream[h] = NoStream /\ stream[h].buffers = << >>
                           /\ stream[h].state = "unused"
    BY <1>1, <1>2, <1>3
  <1>5. Len(<< >>) = 0 /\ << >> \in Seq(Chunk) /\ << >> \in Seq(Streams)
    BY EmptySeq
  <1>6. WaveTypes
    <2>1. NoChunk \in Chunk
      BY WaveAssumption DEF NoChunk, Chunk
    <2>2. backend \in [chunks : Seq(Chunk), plays : Chunk] /\ Len(backend.chunks) <= MaxChunks
      BY <1>1, <1>5, <2>1, WaveAssumption
    <2>3. header \in [Headers -> HeaderRecord]
      BY <1>1 DEF HeaderRecord
    <2>4. stream \in [Streams -> StreamRecord] /\ device \in [Streams -> {"closed", "open", "cached"}]
      BY <1>1, <1>2
    <2>5. event \in BOOLEAN /\ writes \in 0 .. MaxWrites
      <3>1. event = FALSE /\ writes = 0
        BY <1>1
      <3>2. event \in BOOLEAN
        BY <3>1
      <3>3. writes \in 0 .. MaxWrites
        BY <3>1, WaveAssumption
      <3> QED
        BY <3>2, <3>3
    <2>6. cached \in Seq(Streams) /\ Len(cached) <= MaxCached
      BY <1>1, <1>5, WaveAssumption
    <2> QED
      BY <2>2, <2>3, <2>4, <2>5, <2>6 DEF WaveTypes
  <1>7. DeviceInv /\ ChunkInv /\ ShutInv
    BY <1>1, <1>4, <1>5 DEF DeviceInv, ChunkInv, ShutInv
  <1>8. HeaderInv
    BY <1>1, <1>4, <1>5 DEF HeaderInv, QueuedAt
  <1>9. Playing = {}
    BY <1>4 DEF Playing
  <1>10. SingleInv /\ PlayerInv
    BY <1>1, <1>4, <1>5, <1>9, PlayerWorks DEF SingleInv, PlayerInv
  <1> QED
    BY <1>6, <1>7, <1>8, <1>10 DEF WInv

(* The invariants of ports and streams always hold.                         *)
LEMMA WaveInvariant == Spec => [](SInv /\ WInv)
  <1>1. Init => SInv /\ WInv
    BY InitInv, WInvInit
  <1>2. SInv /\ WInv /\ [Next]_vars => SInv' /\ WInv'
    BY Step, WInvStep
  <1> QED
    BY <1>1, <1>2, PTL DEF Spec

(* WHDR_INQUEUE is on a header exactly while a stream will play it, through *)
(* completion, reset and close, for a guest that keeps waveOut's rules.     *)
THEOREM InQueueTrue == Spec => []InQueueIsQueued
  <1>1. WInv => InQueueIsQueued
    <2> SUFFICES ASSUME WInv, Polite, NEW x \in Headers
                 PROVE  header[x].inqueue <=> Queued(x)
      BY DEF InQueueIsQueued
    <2>1. header[x].inqueue <=> \E h \in Streams, i \in Nat : QueuedAt(x, h, i)
      BY DEF WInv, HeaderInv
    <2>2. Queued(x) <=> \E h \in Streams : \E i \in Nat : QueuedAt(x, h, i)
      BY HeaderQueued DEF Queued, WInv
    <2> QED
      BY <2>1, <2>2
  <1> QED
    BY <1>1, WaveInvariant, PTL

(* The completion event tells of buffers: the thread that waits for it has  *)
(* a buffer that will signal it, or was signaled; with one buffer at a time *)
(* it is signaled only when that one is done.                               *)
THEOREM EventTells == Spec => []EventTellsOfBuffers
  <1>1. WInv => EventTellsOfBuffers
    BY DEF WInv, PlayerInv, SingleInv, EventTellsOfBuffers
  <1> QED
    BY <1>1, WaveInvariant, PTL

(* The backend thread never has a chunk for a device that was closed or     *)
(* given to another stream.                                                 *)
THEOREM ChunksHaveDevices == Spec => []ChunkHasItsDevice
  <1>1. WInv => ChunkHasItsDevice
    <2> SUFFICES ASSUME WInv PROVE ChunkHasItsDevice
      OBVIOUS
    <2>1. DOMAIN backend.chunks = 1 .. Len(backend.chunks)
      BY LenProperties DEF WInv, WaveTypes
    <2> QED
      BY <2>1 DEF WInv, DeviceInv, ChunkInv, ChunkHasItsDevice
  <1> QED
    BY <1>1, WaveInvariant, PTL

-----------------------------------------------------------------------------
(* Types.  The proofs above leave some ranges open; these are the others.   *)
EndpointRest ==
  /\ scene \in Scenes /\ session \in [Sessions -> {"idle", "press", "notify"}]
  /\ inputPending \in BOOLEAN /\ paused \in BOOLEAN
  /\ sent \in [inputs : 0 .. MaxInputs, bytes : 0 .. MaxBytes]
  /\ serial \in Seq(Bytes)

SerialRest ==
  /\ now \in 1 .. MaxTime /\ emu.started \in 0 .. MaxTime
  /\ \A h \in Ports : port[h].timeouts \in Timeouts \cup {AtOnce}
  /\ \A t \in Workers : reads[t].port \in 0 .. MaxHandles
  /\ received \in Seq(Bytes)

(* The tap with its cursor and the slices that wait.                        *)
Tap == {t \in [cursor : Nat, chunks : Seq(Slice)] : Len(t.chunks) <= MaxRemoteChunks}

AudioRest ==
  /\ client \in [Clients -> [at : {"out", "wait", "take", "pace"}, until : Nat]]
  /\ tap \in Tap /\ joins \in 0 .. MaxJoins /\ cut \in Seq(Slice)

(* A part of a sequence, and what is taken and left of the queue.           *)
LEMMA PartSeq ==
  ASSUME NEW T, NEW q \in Seq(T), NEW a \in Int, NEW b \in Int, 1 <= a, b <= Len(q)
  PROVE  SubSeq(q, a, b) \in Seq(T)
  <1>1. Len(q) \in Nat
    BY LenProperties
  <1>2. \A i \in a .. b : q[i] \in T
    BY <1>1, ElementOfSeq
  <1> QED
    BY <1>2, SubSeqProperties

(* What is read and what stays are bytes.                                   *)
LEMMA TakeTypes ==
  ASSUME serial \in Seq(Bytes), received \in Seq(Bytes), NEW n \in Nat, TakeBytes(n)
  PROVE  serial' \in Seq(Bytes) /\ received' \in Seq(Bytes)
  <1>1. Len(serial) \in Nat
    BY LenProperties
  <1>2. PICK m \in Int : m = (IF n < Len(serial) THEN n ELSE Len(serial)) /\ m <= Len(serial)
    BY <1>1
  <1>3. Oldest(n) = SubSeq(serial, 1, m) /\ Oldest(n) \in Seq(Bytes)
    BY <1>2, PartSeq DEF Oldest
  <1>4. Len(Oldest(n)) \in Nat
    BY <1>3, LenProperties
  <1>5. Rest(n) \in Seq(Bytes)
    BY <1>1, <1>4, PartSeq DEF Rest
  <1>6. received \o Oldest(n) \in Seq(Bytes)
    BY <1>3, ConcatProperties
  <1> QED
    BY <1>5, <1>6 DEF TakeBytes

(* New bytes, numbered on.                                                  *)
LEMMA InjectTypes ==
  ASSUME EndpointRest, NEW s \in Sessions, NEW n \in 1 .. 2, InjectRemoteSerialBytes(s, n)
  PROVE  EndpointRest'
  <1> DEFINE more == [i \in 1 .. n |-> sent.bytes + i]
             all  == serial \o more
  <1>1. sent.bytes \in 0 .. MaxBytes /\ sent.bytes + n <= MaxBytes /\ MaxBytes \in Nat
        /\ MaxSerialBytes \in Nat \ {0} /\ n \in Nat
    BY EndpointAssumption DEF EndpointRest, InjectRemoteSerialBytes
  <1>2. more \in [1 .. n -> Bytes]
    BY <1>1 DEF Bytes
  <1>3. more \in Seq(Bytes)
    BY <1>1, <1>2, SeqDef
  <1>4. Len(more) \in Nat /\ Len(serial) \in Nat /\ serial \in Seq(Bytes)
    BY <1>3, LenProperties DEF EndpointRest
  <1> HIDE DEF more
  <1>5. all \in Seq(Bytes) /\ Len(all) \in Nat
    BY <1>3, <1>4, ConcatProperties
  <1> HIDE DEF all
  <1>6. Newest(all) \in Seq(Bytes)
    <2>1. CASE Len(all) <= MaxSerialBytes
      BY <1>5, <2>1 DEF Newest
    <2>2. CASE ~(Len(all) <= MaxSerialBytes)
      <3>1. Len(all) - MaxSerialBytes + 1 \in Int /\ 1 <= Len(all) - MaxSerialBytes + 1
        BY <1>1, <1>5, <2>2
      <3>2. SubSeq(all, Len(all) - MaxSerialBytes + 1, Len(all)) \in Seq(Bytes)
        BY <1>5, <3>1, PartSeq
      <3> QED
        BY <2>2, <3>2 DEF Newest
    <2> QED
      BY <2>1, <2>2
  <1>7. serial' = Newest(all) /\ sent' = [sent EXCEPT !.bytes = @ + n] /\ inputPending' = TRUE
        /\ UNCHANGED <<scene, session, paused>>
    BY DEF InjectRemoteSerialBytes, all, more
  <1>8. sent' \in [inputs : 0 .. MaxInputs, bytes : 0 .. MaxBytes]
    BY <1>1, <1>7 DEF EndpointRest
  <1> QED
    BY <1>6, <1>7, <1>8 DEF EndpointRest

(* The requests of the server threads.                                      *)
LEMMA RequestTypes ==
  ASSUME EndpointRest, Endpoint
  PROVE  EndpointRest'
  <1>1. PICK s \in Sessions : SessionStep(s)
    BY DEF Endpoint
  <1>2. ASSUME session' = [session EXCEPT ![s] = "notify"],
               UNCHANGED <<scene, inputPending, paused, serial>>,
               sent' = [sent EXCEPT !.inputs = NewNumber], Numbered(s)
        PROVE  EndpointRest'
    <2>1. NewNumber \in 0 .. MaxInputs
      BY <1>2, EndpointAssumption DEF EndpointRest, Numbered, NewNumber
    <2> QED
      BY <1>2, <2>1 DEF EndpointRest
  <1>3. ASSUME NEW phase \in Touches, EnqueueRemoteTouch(s, phase)
        PROVE  EndpointRest'
    BY <1>2, <1>3 DEF EnqueueRemoteTouch
  <1>4. CASE EnqueueRemoteKey(s)
    BY <1>2, <1>4 DEF EnqueueRemoteKey
  <1>5. CASE NotifyRemoteInputQueued(s)
    BY <1>5 DEF NotifyRemoteInputQueued, EndpointRest
  <1>6. CASE SetPaused(s)
    BY <1>6 DEF SetPaused, EndpointRest
  <1> QED
    BY <1>1, <1>3, <1>4, <1>5, <1>6, InjectTypes DEF SessionStep

(* A read, and a refresh, of the serial ports.                              *)
LEMMA SerialTypes ==
  ASSUME SInv, EndpointRest, SerialRest, Serial
  PROVE  EndpointRest' /\ SerialRest'
  <1>1. /\ emu \in Emu /\ Workers \subseteq Nat /\ 0 \in 0 .. MaxHandles /\ 0 \in 0 .. MaxTime
        /\ reads \in [Workers -> Read] /\ NoRead.port = 0 /\ now \in 0 .. MaxTime
        /\ Ports = 1 .. MaxHandles
    BY SerialAssumption, WorkersAreNumbers DEF SInv, LineType, NoRead, SerialRest, Ports
  <1>2. ASSUME NEW at, NEW w \in BOOLEAN
        PROVE  /\ Go(at).started = emu.started
               /\ [Go(at) EXCEPT !.hasData = w].started = emu.started
               /\ \A n : [Go(at) EXCEPT !.want = n].started = emu.started
    BY <1>1 DEF Go, Emu
  <1>3. After(emu).started \in {0, emu.started}
    BY <1>1 DEF After, Emu
  <1>4. CASE HandleReadFile
    <2>1. TakeBytes(emu.want) /\ emu.want \in Nat /\ emu'.started = emu.started
          /\ UNCHANGED <<now, port, reads>>
      BY <1>1, <1>2, <1>4 DEF HandleReadFile, Emu
    <2>2. serial' \in Seq(Bytes) /\ received' \in Seq(Bytes)
      BY <2>1, TakeTypes DEF EndpointRest, SerialRest
    <2> QED
      BY <2>1, <2>2 DEF EndpointRest, SerialRest, TakeBytes
  <1>5. ASSUME NEW h \in Ports, OpenGuestSerialDevice(h)
        PROVE  EndpointRest' /\ SerialRest'
    BY <1>5 DEF OpenGuestSerialDevice, EndpointRest, SerialRest, endpointVars, SInv, LineType
  <1>6. ASSUME NEW h \in Ports, SetCommTimeouts(h)
        PROVE  EndpointRest' /\ SerialRest'
    <2>1. PICK new \in Timeouts : port' = [port EXCEPT ![h].timeouts = new]
      BY <1>6 DEF SetCommTimeouts
    <2>2. \A g \in Ports : port'[g].timeouts \in Timeouts \cup {AtOnce}
      BY <2>1 DEF SerialRest, SInv, LineType
    <2> QED
      BY <1>6, <2>2 DEF SetCommTimeouts, EndpointRest, SerialRest, endpointVars
  <1>7. ASSUME NEW h \in Ports, CloseSerial(h)
        PROVE  EndpointRest' /\ SerialRest'
    <2>1. \A g \in Ports : port'[g].timeouts = port[g].timeouts
      BY <1>7 DEF CloseSerial, SInv, LineType
    <2>2. \A t \in Workers : reads'[t].port \in 0 .. MaxHandles
      BY <1>1, <1>7 DEF CloseSerial, SerialRest
    <2> QED
      BY <1>7, <2>1, <2>2 DEF CloseSerial, EndpointRest, SerialRest, endpointVars
  <1>8. ASSUME NEW h \in Ports, NEW t \in Callers, NEW n \in 1 .. 2, ReadFile(t, h, n)
        PROVE  EndpointRest' /\ SerialRest'
    <2>1. UNCHANGED <<endpointVars, now, port, received>>
      BY <1>8 DEF ReadFile
    <2>2. emu'.started = emu.started /\ \A u \in Workers : reads'[u].port \in 0 .. MaxHandles
      <3>1. CASE Park(t, h, n)
        <4>1. PICK deadline : reads' = [reads EXCEPT ![t] = [port |-> h, want |-> n,
                                                             deadline |-> deadline]]
          BY <3>1 DEF Park
        <4>2. \A u \in Workers : reads'[u].port \in 0 .. MaxHandles
          BY <1>1, <4>1 DEF SerialRest
        <4> QED
          BY <1>2, <3>1, <4>2 DEF Park
      <3>2. CASE emu' = [Go("read") EXCEPT !.want = n] /\ UNCHANGED reads
        BY <1>2, <3>2 DEF SerialRest
      <3> QED
        BY <1>8, <3>1, <3>2 DEF ReadFile
    <2> QED
      BY <2>1, <2>2 DEF EndpointRest, SerialRest, endpointVars
  <1>9. CASE EndSlice \/ HostLoop \/ RefreshPendingSerialReads \/ CheckRead
    <2>1. UNCHANGED <<scene, session, paused, sent, serial, received, now, port>>
          /\ inputPending' \in BOOLEAN
      BY <1>9 DEF EndSlice, HostLoop, DrainRemoteInputEvents, RefreshPendingSerialReads, CheckRead,
                  endpointVars, EndpointRest
    <2>2. \A t \in Workers : reads'[t].port \in 0 .. MaxHandles
      <3>1. CASE reads' = [reads EXCEPT ![Next1(emu.todo)] = NoRead]
        BY <1>1, <3>1 DEF SerialRest
      <3>2. CASE UNCHANGED reads
        BY <3>2 DEF SerialRest
      <3> QED
        BY <1>9, <3>1, <3>2 DEF EndSlice, HostLoop, RefreshPendingSerialReads, CheckRead
    <2>3. emu'.started \in {0, emu.started, now}
      <3>1. CASE EndSlice \/ HostLoop
        BY <1>2, <3>1 DEF EndSlice, HostLoop
      <3>2. CASE RefreshPendingSerialReads
        <4>1. [Go("check") EXCEPT !.todo = Pending, !.started = now].started = now
          BY <1>1 DEF Go, Emu
        <4> QED
          BY <1>2, <3>2, <4>1 DEF RefreshPendingSerialReads
      <3>3. CASE CheckRead
        BY <1>2, <1>3, <3>3 DEF CheckRead
      <3> QED
        BY <1>9, <3>1, <3>2, <3>3
    <2> QED
      BY <1>1, <2>1, <2>2, <2>3 DEF EndpointRest, SerialRest
  <1>10. CASE AnswerRead
    <2> DEFINE t == Next1(emu.todo)
    <2>1. /\ t \in Workers /\ reads' = [reads EXCEPT ![t] = NoRead] /\ emu' = After(emu)
          /\ UNCHANGED <<now, port>>
          /\ IF emu.hasData THEN TakeBytes(reads[t].want) ELSE UNCHANGED <<endpointVars, received>>
      BY <1>10, First DEF AnswerRead
    <2>2. reads[t].want \in Nat
      BY <1>1, <2>1 DEF Read
    <2>3. /\ serial' \in Seq(Bytes) /\ received' \in Seq(Bytes)
          /\ UNCHANGED <<scene, session, inputPending, paused, sent>>
      BY <2>1, <2>2, TakeTypes DEF TakeBytes, endpointVars, EndpointRest, SerialRest
    <2>4. \A u \in Workers : reads'[u].port \in 0 .. MaxHandles
      BY <1>1, <2>1 DEF SerialRest
    <2> QED
      BY <1>1, <1>3, <2>1, <2>3, <2>4 DEF EndpointRest, SerialRest
  <1>11. CASE Tick
    BY <1>11, SerialAssumption DEF Tick, EndpointRest, SerialRest, endpointVars
  <1> QED
    BY <1>4, <1>5, <1>6, <1>7, <1>8, <1>9, <1>10, <1>11 DEF Serial, GuestSerialCall, HostStep

(* The first of the numbers that qualify.                                   *)
LEMMA LeastChosen ==
  ASSUME NEW S \in SUBSET Nat, S # {}
  PROVE  (CHOOSE m \in S : \A k \in S : m <= k) \in S
  BY LeastNat

(* What a slice is cut from: a buffer that sounds at the cursor.            *)
LEMMA ReachedBuffer ==
  ASSUME WaveTypes, NEW h \in Streams, NEW at \in Nat, Reached(h, at) # {}
  PROVE  FirstReached(h, at) \in Buffer /\ at < FirstReached(h, at).end
  <1>1. stream[h].buffers \in Seq(Buffer) /\ Len(stream[h].buffers) \in Nat
        /\ DOMAIN stream[h].buffers = 1 .. Len(stream[h].buffers)
    BY LenProperties DEF WaveTypes, StreamRecord
  <1>2. Reached(h, at) \subseteq 1 .. Len(stream[h].buffers)
    BY <1>1 DEF Reached
  <1>3. PICK i \in Reached(h, at) : i = CHOOSE m \in Reached(h, at) : \A k \in Reached(h, at) : m <= k
    BY <1>1, <1>2, LeastChosen
  <1>4. FirstReached(h, at) = stream[h].buffers[i] /\ at < stream[h].buffers[i].end
    BY <1>3 DEF FirstReached, Reached
  <1>5. stream[h].buffers[i] \in Buffer
    BY <1>1, <1>2, <1>3, ElementOfSeq
  <1> QED
    BY <1>4, <1>5

(* Bytes from time and time from bytes are numbers.                         *)
LEMMA BytesType ==
  ASSUME NEW f \in Formats, NEW ms \in Nat
  PROVE  BytesAt(f, ms) \in Nat
  <1>1. f.num \in Nat \ {0} /\ f.den \in Nat \ {0}
    BY WaveAssumption
  <1>2. PICK k \in Nat, m \in Nat \ {0} : k = ms * f.num /\ m = f.den
    BY <1>1
  <1>3. k \div m \in Nat
    BY SMT
  <1> QED
    BY <1>2, <1>3 DEF BytesAt

(* A slice has a part of a buffer and lasts a while.                        *)
LEMMA SliceType ==
  ASSUME WaveTypes, NEW at \in Nat
  PROVE  LiveSlice(at) \subseteq Slice
  <1> DEFINE sounding == {h \in Streams : Reached(h, at) # {} /\ FirstReached(h, at).start <= at}
             h == CHOOSE g \in sounding : \A k \in sounding : g <= k
             f == stream[h].format
             b == FirstReached(h, at)
             from == BytesAt(f, at - b.start)
             end == IF b.end < at + SliceMs THEN b.end ELSE at + SliceMs
             upTo == BytesAt(f, end - b.start)
             to == IF upTo > b.size THEN b.size ELSE Later(from + 1, upTo)
  <1>1. LiveSlice(at) = IF sounding = {} \/ from >= b.size THEN {}
                        ELSE {[write |-> b.write, format |-> f, from |-> from, to |-> to, start |-> at,
                               length |-> Duration(f, to - from)]}
    BY Zenon DEF LiveSlice
  <1> SUFFICES ASSUME sounding # {}, ~(from >= b.size)
               PROVE  [write |-> b.write, format |-> f, from |-> from, to |-> to, start |-> at,
                       length |-> Duration(f, to - from)] \in Slice
    BY <1>1
  <1>2. sounding \in SUBSET Nat /\ SliceMs \in Nat
    BY AudioAssumption DEF Streams
  <1>3. h \in sounding
    BY <1>2, LeastChosen
  <1> HIDE DEF h
  <1>4. h \in Streams /\ Reached(h, at) # {} /\ b.start <= at
    BY <1>3
  <1>5. b \in Buffer /\ at < b.end
    BY <1>4, ReachedBuffer
  <1> HIDE DEF sounding, b
  <1>6. /\ b.write \in 1 .. MaxWrites /\ b.size \in Nat /\ b.start \in Nat /\ b.end \in Nat
        /\ f \in Formats
    BY <1>4, <1>5, WaveAssumption DEF Buffer, WaveTypes, StreamRecord
  <1>7. at - b.start \in Nat /\ end - b.start \in Nat
    BY <1>2, <1>4, <1>5, <1>6
  <1> HIDE DEF f, end
  <1>8. from \in Nat /\ upTo \in Nat
    BY <1>6, <1>7, BytesType
  <1> HIDE DEF from, upTo
  <1>9. to \in Nat /\ to - from \in Nat
    BY <1>6, <1>8 DEF Later
  <1> HIDE DEF to
  <1>10. Duration(f, to - from) \in Nat
    BY <1>6, <1>9, DurationType
  <1> QED
    BY <1>6, <1>8, <1>9, <1>10 DEF Slice

(* A slice is made, or the cursor moves.                                    *)
LEMMA MaterializeType ==
  ASSUME WaveTypes, now \in Nat, NEW t \in Tap, NEW s \in Seq(Slice)
  PROVE  Materialize(t, s).tap \in Tap /\ Materialize(t, s).cut \in Seq(Slice)
  <1> DEFINE at == CursorFor(t)
             new == LiveSlice(at)
             x == CHOOSE y \in new : TRUE
             all == Append(t.chunks, x)
             held == IF Len(all) > MaxRemoteChunks THEN Tail(all) ELSE all
  <1>1. t.cursor \in Nat /\ t.chunks \in Seq(Slice) /\ MaxRemoteChunks \in Nat
        /\ Len(t.chunks) \in Nat /\ Len(t.chunks) <= MaxRemoteChunks
    BY AudioAssumption, LenProperties DEF Tap
  <1>2. at \in Nat
    BY <1>1 DEF CursorFor
  <1>3. Materialize(t, s) =
          IF new = {} THEN [tap |-> [t EXCEPT !.cursor = at], cut |-> s]
          ELSE [tap |-> [cursor |-> at + x.length, chunks |-> held], cut |-> Append(s, x)]
    BY Zenon DEF Materialize
  <1> HIDE DEF at
  <1>4. new \subseteq Slice
    BY <1>2, SliceType
  <1>5. CASE new = {}
    <2>1. [t EXCEPT !.cursor = at] \in Tap
      BY <1>2 DEF Tap
    <2> QED
      BY <1>3, <1>5, <2>1
  <1>6. CASE new # {}
    <2>1. x \in Slice
      BY <1>4, <1>6
    <2> HIDE DEF x, new
    <2>2. x.length \in Nat /\ Append(s, x) \in Seq(Slice)
      BY <2>1, AppendProperties DEF Slice
    <2>3. all \in Seq(Slice) /\ all # << >> /\ Len(all) = Len(t.chunks) + 1
      BY <1>1, <2>1, AppendProperties
    <2> HIDE DEF all
    <2>4. Tail(all) \in Seq(Slice) /\ Len(Tail(all)) = Len(all) - 1
      BY <2>3, HeadTailProperties
    <2>5. held \in Seq(Slice) /\ Len(held) <= MaxRemoteChunks
      BY <1>1, <2>3, <2>4
    <2> HIDE DEF held
    <2>6. [cursor |-> at + x.length, chunks |-> held] \in Tap
      BY <1>2, <2>2, <2>5 DEF Tap
    <2> QED
      BY <1>3, <1>6, <2>2, <2>6
  <1> QED
    BY <1>5, <1>6

(* The audio clients' steps.                                                *)
LEMMA ClientTypes ==
  ASSUME WaveTypes, now \in Nat, AudioRest, NEW c \in Clients, ClientStep(c)
  PROVE  AudioRest'
  <1>1. << >> \in Seq(Slice) /\ Len(<< >>) = 0 /\ MaxRemoteChunks \in Nat
        /\ [cursor |-> now, chunks |-> << >>] \in Tap /\ [cursor |-> 0, chunks |-> << >>] \in Tap
    BY EmptySeq, AudioAssumption DEF Tap
  <1>2. \A t \in Tap, s \in Seq(Slice) :
          Materialize(t, s).tap \in Tap /\ Materialize(t, s).cut \in Seq(Slice)
    BY MaterializeType
  <1>3. CASE RegisterRemoteAudioClient(c)
    <2>1. TapAtJoin.tap \in Tap /\ TapAtJoin.cut \in Seq(Slice)
      BY <1>1 DEF TapAtJoin, AudioRest
    <2>2. tap' \in Tap /\ cut' \in Seq(Slice)
      BY <1>2, <1>3, <2>1 DEF RegisterRemoteAudioClient
    <2>3. joins' \in 0 .. MaxJoins
      BY <1>3, AudioAssumption DEF RegisterRemoteAudioClient, AudioRest
    <2>4. client' = [client EXCEPT ![c].at = "wait"]
      BY <1>3 DEF RegisterRemoteAudioClient
    <2> QED
      BY <2>2, <2>3, <2>4 DEF AudioRest
  <1>4. CASE WaitForRemoteAudioChunks(c)
    <2>1. tap' \in Tap /\ cut' \in Seq(Slice)
      BY <1>2, <1>4 DEF WaitForRemoteAudioChunks, AudioRest
    <2>2. client' = [client EXCEPT ![c].at = "take"] /\ UNCHANGED joins
      BY <1>4 DEF WaitForRemoteAudioChunks
    <2> QED
      BY <2>1, <2>2 DEF AudioRest
  <1>5. CASE TakeRemoteAudioChunk(c)
    <2> DEFINE new == IfEmpty(tap, cut)
    <2>1. new.tap \in Tap /\ new.cut \in Seq(Slice)
      BY <1>2 DEF IfEmpty, AudioRest
    <2>2. /\ cut' = new.cut /\ UNCHANGED joins
          /\ IF new.tap.chunks = << >>
             THEN tap' = new.tap /\ client' = [client EXCEPT ![c].at = "wait"]
             ELSE /\ tap' = [new.tap EXCEPT !.chunks = Tail(@)]
                  /\ client' = [client EXCEPT ![c] =
                       [at |-> "pace", until |-> PaceUntil(Head(new.tap.chunks))]]
      BY <1>5 DEF TakeRemoteAudioChunk
    <2> HIDE DEF new
    <2>3. CASE new.tap.chunks = << >>
      BY <2>1, <2>2, <2>3 DEF AudioRest
    <2>4. CASE new.tap.chunks # << >>
      <3>1. new.tap.chunks \in Seq(Slice) /\ Len(new.tap.chunks) \in Nat
            /\ Len(new.tap.chunks) <= MaxRemoteChunks
        BY <2>1, LenProperties DEF Tap
      <3>2. /\ Head(new.tap.chunks) \in Slice /\ Tail(new.tap.chunks) \in Seq(Slice)
            /\ Len(Tail(new.tap.chunks)) = Len(new.tap.chunks) - 1
        BY <2>4, <3>1, HeadTailProperties
      <3>3. Len(Tail(new.tap.chunks)) <= MaxRemoteChunks
        BY <1>1, <3>1, <3>2
      <3> DEFINE first == Head(new.tap.chunks)
                 left == Tail(new.tap.chunks)
      <3>4. /\ first \in Slice /\ left \in Seq(Slice) /\ Len(left) <= MaxRemoteChunks
            /\ tap' = [new.tap EXCEPT !.chunks = left]
            /\ client' = [client EXCEPT ![c] = [at |-> "pace", until |-> PaceUntil(first)]]
        BY <2>2, <2>4, <3>2, <3>3
      <3> HIDE DEF first, left
      <3>5. first.length \in Nat
        BY <3>4 DEF Slice
      <3>6. PaceUntil(first) \in Nat
        BY <3>5 DEF PaceUntil
      <3>7. [at |-> "pace", until |-> PaceUntil(first)]
              \in [at : {"out", "wait", "take", "pace"}, until : Nat]
        BY <3>6
      <3>8. client' \in [Clients -> [at : {"out", "wait", "take", "pace"}, until : Nat]]
        BY <3>4, <3>7 DEF AudioRest
      <3>9. tap' \in Tap
        BY <2>1, <3>4 DEF Tap
      <3> QED
        BY <2>1, <2>2, <3>8, <3>9 DEF AudioRest
    <2> QED
      BY <2>3, <2>4
  <1>6. CASE Paced(c)
    BY <1>6 DEF Paced, AudioRest
  <1>7. CASE UnregisterRemoteAudioClient(c)
    BY <1>1, <1>7 DEF UnregisterRemoteAudioClient, AudioRest
  <1> QED
    BY <1>3, <1>4, <1>5, <1>6, <1>7 DEF ClientStep

(* What a step of the streams changes of the emulator.                      *)
LEMMA WaveTypesStep ==
  ASSUME SInv, SerialRest, EndpointRest, Wave
  PROVE  SerialRest' /\ EndpointRest'
  <1>1. /\ UNCHANGED <<endpointVars, now, port, reads, received>>
        /\ emu' = emu \/ \E at \in EmuAt : emu' = Go(at)
    BY ZenonT(40) DEF Wave, GuestWaveCall, WaveOutOpen, WaveOutWrite, WaveOutWriteFails,
       WaveOutUnprepareHeader, WaveOutReset, WaveOutClose, CloseWaveHandle, WaitForEvent,
       RefreshCompletedHostWaveBuffers, RefreshSignaledWaits, Backend, BackendTake,
       BackendPlayed, Other, serialVars, EmuAt
  <1>2. emu'.started = emu.started
    BY <1>1 DEF Go, SInv, LineType, Emu
  <1> QED
    BY <1>1, <1>2 DEF SerialRest, EndpointRest, endpointVars

(* Every step keeps every type.                                             *)
LEMMA RestStep ==
  ASSUME SInv, WInv, SerialRest, EndpointRest, AudioRest, [Next]_vars
  PROVE  SerialRest' /\ EndpointRest' /\ AudioRest'
  <1>1. CASE Endpoint
    BY <1>1, RequestTypes DEF Endpoint, serialVars, audioVars, SerialRest, AudioRest
  <1>2. CASE Serial
    BY <1>2, SerialTypes DEF Serial, audioVars, AudioRest
  <1>3. CASE Wave /\ UNCHANGED audioVars
    BY <1>3, WaveTypesStep DEF audioVars, AudioRest
  <1>4. CASE \E c \in Clients : ClientStep(c)
    <2>1. WaveTypes /\ now \in Nat
      BY DEF SInv, LineType, WInv
    <2>2. UNCHANGED <<endpointVars, serialVars>>
      BY <1>4 DEF ClientStep, RegisterRemoteAudioClient, WaitForRemoteAudioChunks,
         TakeRemoteAudioChunk, Paced, UnregisterRemoteAudioClient, Still
    <2> QED
      BY <1>4, <2>1, <2>2, ClientTypes DEF endpointVars, serialVars, SerialRest, EndpointRest
  <1>5. CASE UNCHANGED vars
    BY <1>5 DEF vars, endpointVars, serialVars, audioVars, SerialRest, EndpointRest, AudioRest
  <1> QED
    BY <1>1, <1>2, <1>3, <1>4, <1>5 DEF Next

(* The types hold at first.                                                 *)
LEMMA RestInit == Init => SerialRest /\ EndpointRest /\ AudioRest
  <1> SUFFICES ASSUME Init PROVE SerialRest /\ EndpointRest /\ AudioRest
    OBVIOUS
  <1>1. << >> \in Seq(Bytes) /\ << >> \in Seq(Slice) /\ Len(<< >>) = 0
    BY EmptySeq
  <1>2. SerialRest
    BY <1>1, SerialAssumption DEF Init, SerialInit, SerialRest, NoRead
  <1>3. EndpointRest
    <2>1. [inputs |-> 0, bytes |-> 0] \in [inputs : 0 .. MaxInputs, bytes : 0 .. MaxBytes]
      BY EndpointAssumption
    <2>2. [s \in Sessions |-> "idle"] \in [Sessions -> {"idle", "press", "notify"}]
      OBVIOUS
    <2>3. inputPending \in BOOLEAN /\ paused \in BOOLEAN /\ scene \in Scenes
          /\ serial \in Seq(Bytes)
      BY <1>1, Zenon DEF Init, EndpointInit
    <2>4. /\ session = [s \in Sessions |-> "idle"]
          /\ sent = [inputs |-> 0, bytes |-> 0]
      BY DEF Init, EndpointInit
    <2> QED
      BY <2>1, <2>2, <2>3, <2>4 DEF EndpointRest
  <1>4. AudioRest
    BY <1>1, AudioAssumption DEF Init, AudioInit, AudioRest, Tap
  <1> QED
    BY <1>2, <1>3, <1>4

(* Every variable of the devices keeps its type, and every queue its bound, *)
(* whatever the guest, the server threads, the backend and the audio        *)
(* clients do: for all formats a slice is a part of a buffer and lasts.     *)
THEOREM DevicesTyped == Spec => []TypeOK
  <1>1. Init => TapInv /\ SInv /\ WInv /\ SerialRest /\ EndpointRest /\ AudioRest
    BY TapInit, InitInv, WInvInit, RestInit
  <1>2. TapInv /\ SInv /\ WInv /\ SerialRest /\ EndpointRest /\ AudioRest /\ [Next]_vars
          => TapInv' /\ SInv' /\ WInv' /\ SerialRest' /\ EndpointRest' /\ AudioRest'
    BY TapStep, Step, WInvStep, RestStep
  <1>3. TapInv /\ SInv /\ WInv /\ SerialRest /\ EndpointRest /\ AudioRest => TypeOK
    <2> SUFFICES ASSUME TapInv, SInv, WInv, SerialRest, EndpointRest, AudioRest PROVE TypeOK
      OBVIOUS
    <2>1. EndpointType
      BY DEF TapInv, SInv, LineType, EndpointRest, EndpointType
    <2>2. SerialType
      <3>1. emu \in [at : EmuAt, todo : SUBSET Workers, started : 0 .. MaxTime,
                     hasData : BOOLEAN, want : Nat]
        BY DEF SInv, LineType, Emu, SerialRest
      <3>2. port \in [Ports -> [state : {"unused", "open", "closed"},
                                timeouts : Timeouts \cup {AtOnce}]]
        BY DEF SInv, LineType, SerialRest
      <3>3. reads \in [Workers -> [port : 0 .. MaxHandles, want : Nat, deadline : Nat]]
        BY DEF SInv, LineType, Read, SerialRest
      <3> QED
        BY <3>1, <3>2, <3>3 DEF SInv, LineType, SerialRest, SerialType
    <2>3. WaveType
      BY DEF WInv, WaveTypes, WaveType, StreamRecord, HeaderRecord
    <2>4. AudioType
      BY DEF AudioRest, Tap, AudioType
    <2> QED
      BY <2>1, <2>2, <2>3, <2>4 DEF TypeOK
  <1> QED
    BY <1>1, <1>2, <1>3, PTL DEF Spec
=============================================================================

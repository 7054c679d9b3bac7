----------------------------- MODULE SerialLine -----------------------------
(***************************************************************************)
(* What a virtual serial port promises its readers, without handles, locks *)
(* or a host loop: bytes arrive on a line that keeps the newest Capacity   *)
(* of them; a reader takes the oldest, or, finding none, waits.  A wait    *)
(* ends with bytes when there are some, or without any when its deadline   *)
(* has passed and not before.  Readers can be abandoned: they wait for     *)
(* ever.                                                                   *)
(***************************************************************************)
EXTENDS Integers, Sequences

CONSTANTS Readers, Capacity

VARIABLES
  line,     \* bytes that arrived and were not read
  got,      \* bytes that were read, in order
  wait,     \* wait[r]: the bytes wanted and the deadline (0: none)
  clock

lineVars == <<line, got, wait, clock>>

NoWait == [want |-> 0, deadline |-> 0]
Forgotten == [want |-> 0, deadline |-> -1]
Waits(r) == wait[r] \notin {NoWait, Forgotten}

Init ==
  /\ line = << >> /\ got = << >> /\ clock \in Nat
  /\ wait = [r \in Readers |-> NoWait]

(* Some bytes arrive behind those on the line; the oldest may be lost when  *)
(* there are more than the line holds.                                      *)
Arrive ==
  \E n \in 1 .. Len(line') :
    /\ LET kept == Len(line') - n
       IN /\ kept <= Len(line) /\ (kept < Len(line) => Len(line') = Capacity)
          /\ SubSeq(line', 1, kept) = SubSeq(line, Len(line) - kept + 1, Len(line))
    /\ UNCHANGED <<got, wait, clock>>

Take(n) ==
  /\ got' = got \o SubSeq(line, 1, n)
  /\ line' = SubSeq(line, n + 1, Len(line))

Read == (\E n \in 1 .. Len(line) : Take(n)) /\ UNCHANGED <<wait, clock>>

Wait(r) ==
  /\ wait[r] = NoWait /\ line = << >>
  /\ wait'[r].deadline # 0 => wait'[r].deadline > clock
  /\ wait' = [wait EXCEPT ![r] = wait'[r]] /\ wait'[r].want > 0
  /\ UNCHANGED <<line, got, clock>>

Serve(r) ==
  /\ Waits(r)
  /\ \E n \in 1 .. Len(line) : n <= wait[r].want /\ Take(n)
                                /\ (n = wait[r].want \/ n = Len(line))
  /\ wait' = [wait EXCEPT ![r] = NoWait]
  /\ UNCHANGED clock

Expire(r) ==
  /\ Waits(r) /\ wait[r].deadline # 0 /\ clock >= wait[r].deadline
  /\ wait' = [wait EXCEPT ![r] = NoWait]
  /\ UNCHANGED <<line, got, clock>>

Abandon ==
  \E rs \in SUBSET Readers :
    /\ \A r \in rs : Waits(r)
    /\ wait' = [r \in Readers |-> IF r \in rs THEN Forgotten ELSE wait[r]]
    /\ UNCHANGED <<line, got, clock>>

Pass == clock' > clock /\ UNCHANGED <<line, got, wait>>

Next ==
  \/ Arrive \/ Read \/ Abandon \/ Pass
  \/ \E r \in Readers : Wait(r) \/ Serve(r) \/ Expire(r)

Spec == Init /\ [][Next]_lineVars
=============================================================================

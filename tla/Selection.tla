------------------------------ MODULE Selection ------------------------------
(***************************************************************************)
(* Going through a list from front to back: removing entries where they    *)
(* are (std::remove_if and its kin), and doing something for each entry.   *)
(* Both are functions of the place reached, which can be reasoned about.   *)
(***************************************************************************)
EXTENDS Integers, Sequences

(* The entries of q that are in S, in their order.                          *)
Keep(q, S) ==
  LET kept[i \in 0 .. Len(q)] ==
        IF i = 0 THEN << >>
        ELSE IF q[i] \in S THEN Append(kept[i - 1], q[i]) ELSE kept[i - 1]
  IN  kept[Len(q)]

(* What op makes of base with one entry of s after the other.               *)
ForEach(op(_, _), base, s) ==
  LET after[i \in 0 .. Len(s)] == IF i = 0 THEN base ELSE op(after[i - 1], s[i])
  IN  after[Len(s)]
=============================================================================

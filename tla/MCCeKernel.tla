----------------------------- MODULE MCCeKernel -----------------------------
(***************************************************************************)
(* CeKernel on a small instance: an auto-reset and a manual-reset event,   *)
(* and waits for any and for all of them.                                  *)
(***************************************************************************)
EXTENDS CeKernel

CONSTANTS Auto, Manual

EventsConst == {Auto, Manual}
ManualConst == {Manual}

AnyOfBoth == [handles |-> <<Auto, Manual>>, all |-> FALSE]
AllOfBoth == [handles |-> <<Manual, Auto>>, all |-> TRUE]
AnyOfOneThread == [handles |-> <<1, Auto>>, all |-> FALSE]
NoObjects == [handles |-> << >>, all |-> FALSE]

MultiConst == {AnyOfBoth, AllOfBoth, AnyOfOneThread, NoObjects}
NoEvents == {}
MainAndOne == {Main, 1}
OnlyOne == {1}
NoWaits == {}
=============================================================================

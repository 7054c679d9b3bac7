------------------------------ MODULE MCDevices ------------------------------
(***************************************************************************)
(* Devices for TLC: the calls of one device at a time, and the pairs that  *)
(* share something.                                                        *)
(***************************************************************************)
EXTENDS Devices

MCScenes == {
  {"touch"},
  {"open", "timeouts", "close", "read", "inject", "pause"},
  {"wave", "wait", "single", "stop"},
  {"wave", "wait", "stop", "prepare"},
  {"wave", "unreadable", "closehandle", "backend"},
  {"wave", "audio"}}

MCTimeouts == {[interval |-> 0, mult |-> 0, const |-> 0], [interval |-> 0, mult |-> 1, const |-> 0]}

(* Four bytes in three milliseconds: like 11025 Hz, no whole number of      *)
(* bytes in one, so that offsets and lengths are rounded.                   *)
FourPerThreeMs == [num |-> 4, den |-> 3]
MCFormats == {FourPerThreeMs}
MCSizes == {4}
=============================================================================

------------------------------ MODULE MCBroker ------------------------------
(* Two processes, each with one view of the whole mapping.                  *)
EXTENDS Broker

CONSTANTS p1, p2

TwoProcs  == {p1, p2}
OwnView   == [v \in Views |-> IF v = 1 THEN p1 ELSE p2]
WholeView == [v \in Views |-> Cells]
MappingScene == {"create", "map", "flush", "sync", "write"}
SmallScene   == {"create", "map", "flush", "sync", "write", "small", "solo"}
WindowScene  == {"publish", "find", "post", "poll", "tick"}
DataScene    == {"write", "sync", "post", "poll"}
CrashScene   == {"write", "post", "poll", "crash"}
TickScene    == {"post", "poll", "crash", "tick"}
CircleScene  == {"copydata", "broadcast", "poll"}
UndoScene    == {"map", "write", "writers"}
TwoWriters   == {UndoScene}
AllScenes    ==
  {MappingScene, SmallScene, WindowScene, DataScene, CrashScene, TickScene, CircleScene}
=============================================================================

------------------------------ MODULE MCCeGwe ------------------------------
(* CeGwe for TLC: the main thread and one worker, in four scenes.          *)
EXTENDS CeGwe

CONSTANTS main, worker
TwoOwners    == {main, worker}
ThreeWindows == {1, 2, 3}

(* Windows of two threads: posted, sent, timer and quit messages, keys.     *)
Posting == [owners |-> TwoOwners, windows |-> {1, 2}, timers |-> {1}, styles |-> {"plain"},
            calls |-> {"post", "send", "key"}, messages |-> 3]

(* A window with a child, both touched; the child is told of touches.       *)
Pressing == [owners |-> {main}, windows |-> {1, 2}, timers |-> {},
             styles |-> {"plain", "child"}, calls |-> {"touch", "send"}, messages |-> 6]

(* A window and a full-screen popup, shown, hidden and touched.             *)
Touching == [owners |-> {main}, windows |-> {1, 2}, timers |-> {},
             styles |-> {"plain", "full"}, calls |-> {"touch", "show"}, messages |-> 4]

(* A window and two popups over it, one of which may replace the other.     *)
Painting == [owners |-> {main}, windows |-> ThreeWindows, timers |-> {},
             styles |-> {"plain", "owned", "full"}, calls |-> {"paint"}, messages |-> 5]

(* A window and a timer.                                                    *)
Timing == [owners |-> {main}, windows |-> {1}, timers |-> {1}, styles |-> {"plain"},
           calls |-> {"post"}, messages |-> 3]

AllScenes == {Posting, Pressing, Touching, Painting}
OneScene == {Timing}
=============================================================================

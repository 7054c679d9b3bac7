----------------------------- MODULE MCGraphics -----------------------------
EXTENDS Graphics

MCWindows == {1, 2, 3}
MCPoints  == 0 .. 2

Role(style, parent, x, width) == [style |-> style, parent |-> parent, x |-> x, width |-> width]
Main == Role("plain", NoWindow, 0, 2)

(* A partial and a full-screen popup, a child on a full-screen popup, two   *)
(* main windows and a popup, a child beside a popup, and a secondary window *)
(* alone and under a popup                                                  *)
Casts ==
  {<<Main, Role("owned", 1, 1, 1), Role("owned", 1, 0, 2)>>,
   <<Main, Role("owned", 1, 0, 2), Role("child", 2, 1, 1)>>,
   <<Role("plain", NoWindow, 0, 1), Main, Role("popup", NoWindow, 0, 1)>>,
   <<Main, Role("child", 1, 0, 2), Role("owned", 1, 1, 1)>>,
   <<Main, Role("secondary", 1, 1, 1), Role("popup", NoWindow, 0, 1)>>,
   <<Main, Role("secondary", 1, 0, 2)>>}

(* Two popups alike: both full-screen, both partial with or without owner   *)
Twins == {<<Main, role, role>> : role \in
  {Role("owned", 1, 0, 2), Role("owned", 1, 0, 1), Role("popup", NoWindow, 0, 1)}}

Scene(cast, calls, handles) == [cast |-> cast, calls |-> calls, handles |-> handles]

MCScenes ==
  {Scene(cast, {"show", "draw", "hidden"}, 0) : cast \in Casts}
  \cup {Scene(cast, {"show", "draw"}, 0) : cast \in Twins}
  \cup {Scene(<<Main, role>>, {"show", "raise", "destroy", "draw", "hidden"}, 0) :
          role \in {Role("owned", 1, 0, 2), Role("owned", 1, 1, 1), Role("popup", NoWindow, 0, 1),
                    Role("secondary", 1, 1, 1)}}
  \cup {Scene(<<Main, Role("plain", NoWindow, 0, 1)>>, {"show", "raise", "move", "draw"}, 0),
        Scene(<<Main, Role("owned", 1, 0, 2)>>, {"show", "paint", "fill"}, 5),
        Scene(<<Main>>, {"paint", "fill", "region"}, 5),
        Scene(<<Main>>, {"memory", "bitmap", "image", "select", "delete", "fill"}, 6),
        Scene(<< >>, {"memory", "delete", "select", "bitmap", "palette"}, 7),
        Scene(<< >>, {"memory", "close", "select", "bitmap", "palette"}, 6),
        Scene(<<Main>>, {"dc", "close", "select", "tool"}, 4),
        Scene(<<Main>>, {"dc", "delete", "select", "tool"}, 5),
        Scene(<<Main>>, {"paint", "memory", "release", "close", "color"}, 5),
        Scene(<<Main>>, {"paint", "region", "close"}, 5),
        Scene(<< >>, {"memory", "bitmap", "image", "release"}, 6),
        Scene(<< >>, {"region", "pattern", "delete"}, 3),
        Scene(<< >>, {"region", "window region", "delete"}, 2)}
=============================================================================

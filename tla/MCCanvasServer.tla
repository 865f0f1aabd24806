---------------------------- MODULE MCCanvasServer ----------------------------
(* Small instances of CanvasServer: what the peers of each run can ask for. *)
EXTENDS CanvasServer, TLC

CONSTANT u1

NoName(resp) == [type |-> "no_name", resp |-> resp]
Plain(type) == [type |-> type]
Register == [type |-> "register", user |-> u1]
Login(good) == [type |-> "login", user |-> u1, good |-> good]
Join(r) == [type |-> "join_room", room |-> r]
Save(c) == [type |-> "save_canvas", canvas |-> c]
Draw == [type |-> "draw", stroke |-> "s"]

\* Connections come and go, log in, join, draw and break off.
SessionRequests ==
  {Register, Login(TRUE), NoName("login_resp"), Plain("list_rooms"), Join(1), Draw,
   Plain("huge"), Plain("other")}

\* Drawings are stored and read back.
SaveRequests ==
  {Register, Login(TRUE), Plain("create_room"), Join(1)}
    \union {Save(c) : c \in Canvases \union {"bad"}}

FdSymmetry == Permutations(Fds)
===============================================================================

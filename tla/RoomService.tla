------------------------------ MODULE RoomService ------------------------------
(***************************************************************************)
(* What server.c with its database promises to those who connect: a        *)
(* session per connection, which begins and ends with it; rooms that pass  *)
(* on what is said in them; and a drawing per room, which keeps what was   *)
(* confirmed.  Nothing of slots, epoll, sockets, ids of users or the       *)
(* handle of the database; a full socket or a failing database only means  *)
(* that less happens.                                                      *)
(***************************************************************************)
EXTENDS Sequences

CONSTANTS
  Connections,  \* whoever can be connected
  Users,        \* user names
  Drawings,     \* what can be saved
  Empty,        \* the drawing of a new room
  Rooms,        \* numbers that can be asked for as a room, 0 for none
  Contents      \* what can be said in a room

VARIABLES
  live,     \* the connections that are accepted and not closed
  who,      \* per connection: the names it has logged in as, at most one
  room,     \* per connection: the room it is in, 0 for none
  known,    \* the names that are registered
  stored,   \* the rooms, each with its drawing
  settled,  \* per number: the drawing last confirmed, and those whose save
            \* was reported as failed since; for want of a room, Empty too
  heard     \* what the last step passed on, and to whom

sessions == <<live, who, room>>
rooms == <<stored, settled>>
vars == <<sessions, known, rooms, heard>>

Init ==
  /\ live = {}
  /\ who = [c \in Connections |-> {}] /\ room = [c \in Connections |-> 0]
  /\ known = {}
  /\ stored = <<>> /\ settled = [r \in Rooms \ {0} |-> {Empty}]
  /\ heard = {}

Silent == heard' = {}
LoggedIn(c) == c \in live /\ who[c] # {}

Arrive(c) ==
  /\ c \notin live /\ live' = live \union {c}
  /\ Silent /\ UNCHANGED <<who, room, known, rooms>>

Leave(c) ==
  /\ c \in live /\ live' = live \ {c}
  /\ who' = [who EXCEPT ![c] = {}] /\ room' = [room EXCEPT ![c] = 0]
  /\ Silent /\ UNCHANGED <<known, rooms>>

\* The process ends, and with it everybody's session; what is stored stays.
Stop ==
  /\ live' = {}
  /\ who' = [c \in Connections |-> {}] /\ room' = [c \in Connections |-> 0]
  /\ Silent /\ UNCHANGED <<known, rooms>>

\* Also of a request that was answered with a failure.
Register(u) ==
  /\ known' = known \union {u}
  /\ Silent /\ UNCHANGED <<sessions, rooms>>

\* A second login changes the name and stays in the room.
Login(c, u) ==
  /\ c \in live /\ u \in known
  /\ who' = [who EXCEPT ![c] = {u}]
  /\ Silent /\ UNCHANGED <<live, room, known, rooms>>

\* Rooms that nobody has created can be entered, too.
Enter(c, r) ==
  /\ LoggedIn(c)
  /\ room' = [room EXCEPT ![c] = r]
  /\ Silent /\ UNCHANGED <<live, who, known, rooms>>

Create ==
  /\ \E c \in Connections : LoggedIn(c)
  /\ stored' = Append(stored, Empty)
  /\ Silent /\ UNCHANGED <<sessions, known, settled>>

\* The drawing of the room that c is in; a save that is reported as failed may
\* have been carried out, and one into a room that nobody has created is lost,
\* whatever was reported.
Save(c, d, ok) ==
  /\ LoggedIn(c) /\ room[c] # 0
  /\ LET exists == room[c] \in DOMAIN stored
     IN  /\ \/ exists /\ stored' = [stored EXCEPT ![room[c]] = d]
            \/ ~ (ok /\ exists) /\ stored' = stored
         /\ settled' = [settled EXCEPT ![room[c]] =
                           IF ~ok THEN @ \union {d}
                           ELSE IF exists THEN {d} ELSE {d, Empty}]
  /\ Silent /\ UNCHANGED <<sessions, known>>

\* The others in the room hear it, or those of them whose sockets have room.
Mates(c) == {d \in live \ {c} : room[d] = room[c] /\ who[d] # {}}
Say(c, x) ==
  /\ LoggedIn(c) /\ room[c] # 0
  /\ \E to \in SUBSET Mates(c) : heard' = [to : to, msg : {x}]
  /\ UNCHANGED <<sessions, known, rooms>>

\* Nothing happens that anybody could tell.
Rest == Silent /\ UNCHANGED <<sessions, known, rooms>>

Next ==
  \/ \E c \in Connections :
       \/ Arrive(c) \/ Leave(c)
       \/ \E u \in Users : Login(c, u)
       \/ \E r \in Rooms : Enter(c, r)
       \/ \E d \in Drawings, ok \in BOOLEAN : Save(c, d, ok)
       \/ \E x \in Contents : Say(c, x)
  \/ \E u \in Users : Register(u)
  \/ Create \/ Stop
  \/ Rest

Spec == Init /\ [][Next]_vars
===============================================================================

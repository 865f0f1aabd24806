----------------------------- MODULE CanvasServer -----------------------------
(***************************************************************************)
(* src/server/server.c: the epoll loop, the table of client slots and the  *)
(* handler of every message, over the database of CanvasDb.  One thread:   *)
(* EpollWait returns a batch of ready descriptors, each is served in turn  *)
(* (Accept, ReadEnds, ReadFrames), and the complete frames that one read   *)
(* brought are handled one after the other before the next descriptor (the *)
(* Handle actions).                                                        *)
(* A message is a whole frame; ClientStream is about frames and bytes.     *)
(***************************************************************************)
EXTENDS CanvasDb

CONSTANTS
  MaxClients,   \* MAX_EVENTS: slots, and the largest batch of epoll_wait
  Fds,          \* descriptors the kernel can hand out for connections
  Listen,       \* server_fd
  NoFd,         \* -1
  Strokes,      \* what a relayed message can carry
  Requests,     \* messages a peer may send
  MaxPending,   \* bound: connections waiting for accept
  MaxIn,        \* bound: messages of one connection not yet read
  SendCap       \* messages a socket takes before send would block

ASSUME MaxClientsAssumption == MaxClients \in Nat \ {0}
ASSUME FdsAssumption == NoFd \notin Fds /\ Listen \notin Fds /\ Listen # NoFd
ASSUME BoundsAssumption == {MaxPending, MaxIn, SendCap} \subseteq Nat

Slots == 1..MaxClients
Rooms == 0..MaxProjects   \* what join_room may name; 0 is no room

Hello == [type |-> "hello"]   \* the HTTP upgrade request
AllRequests ==
  [type : {"login"}, user : Users, good : BOOLEAN]
    \union [type : {"register"}, user : Users]
    \union [type : {"no_name"}, resp : {"login_resp", "register_resp"}]
    \union [type : {"list_rooms", "create_room", "huge", "other"}]
    \union [type : {"join_room"}, room : Rooms]
    \union [type : {"save_canvas"}, canvas : Canvases \union {"bad"}]
    \union [type : {"draw", "chat", "undo", "redo", "clear"}, stroke : Strokes]

ASSUME RequestsAssumption == Requests \subseteq AllRequests

Relayed == {"draw", "chat", "undo", "redo", "clear"}

VARIABLES
  up,        \* the server process runs
  clients,   \* clients[]: fd, user_id, room_id, is_handshaked
  epolled,   \* the descriptors epoll_fd watches
  open,      \* kernel: descriptors of connections that are open
  pending,   \* kernel: connections not yet accepted
  inq, eof,  \* kernel: messages received and not read; peer has gone
  unread,    \* kernel: how many messages sent the peer has not taken
  wire,      \* what the last step put on the sockets
  events,    \* the rest of the batch epoll_wait returned
  serving,   \* descriptor whose frames are being handled, or NoFd
  batch,     \* complete frames in its buffer
  auth,      \* ghost: whom each connection has logged in as
  joined,    \* ghost: the last room each connection asked for
  acked,     \* ghost: per room, the last drawing whose save was confirmed
             \* and those whose save failed since
  vain       \* ghost: the rooms where this confirmed save found no row

table == <<up, clients, epolled>>
sockets == <<unread, wire>>
kernel == <<open, pending, inq, eof, sockets>>
loop == <<events, serving, batch>>
ghosts == <<auth, joined, acked, vain>>
vars == <<dbVars, table, kernel, loop, ghosts>>

Free == [fd |-> NoFd, user |-> 0, room |-> 0, shaken |-> FALSE]

Init ==
  /\ DbInit
  /\ up = TRUE
  /\ clients = [s \in Slots |-> Free]
  /\ epolled = {Listen} /\ open = {} /\ pending = 0
  /\ inq = [f \in Fds |-> <<>>] /\ eof = [f \in Fds |-> FALSE]
  /\ unread = [f \in Fds |-> 0] /\ wire = {}
  /\ events = {} /\ serving = NoFd /\ batch = <<>>
  /\ auth = [f \in Fds |-> 0] /\ joined = [f \in Fds |-> 0]
  /\ acked = [r \in 1..MaxProjects |-> {Blank}] /\ vain = {}

Running == up /\ conn # "fault"
SlotsOf(f) == {s \in Slots : clients[s].fd = f}

\* get_client and the loop of remove_client: the first slot that matches.
SlotOf(f) == CHOOSE s \in SlotsOf(f) : \A t \in SlotsOf(f) : s <= t

\* Nothing is sent.
Quiet == wire' = {} /\ unread' = unread

--------------------------------------------------------------------------------
(* The peers and the network *)

Connect ==
  /\ up /\ pending < MaxPending /\ pending' = pending + 1
  /\ Quiet
  /\ UNCHANGED <<dbVars, table, open, inq, eof, loop, ghosts>>

\* A peer starts talking once it has the answer to its handshake.
PeerSend(f, m) ==
  /\ f \in open /\ ~eof[f] /\ Len(inq[f]) < MaxIn
  /\ \E s \in SlotsOf(f) : clients[s].shaken
  /\ inq' = [inq EXCEPT ![f] = Append(@, m)]
  /\ Quiet
  /\ UNCHANGED <<dbVars, table, open, pending, eof, loop, ghosts>>

\* A close leaves what was sent readable; a reset may drop it.
PeerClose(f, left) ==
  /\ f \in open /\ ~eof[f]
  /\ left \in {inq[f], <<>>}
  /\ eof' = [eof EXCEPT ![f] = TRUE]
  /\ inq' = [inq EXCEPT ![f] = left]
  /\ Quiet
  /\ UNCHANGED <<dbVars, table, open, pending, loop, ghosts>>

PeerTake(f) ==
  /\ f \in open /\ unread[f] > 0
  /\ unread' = [unread EXCEPT ![f] = @ - 1] /\ wire' = {}
  /\ UNCHANGED <<dbVars, table, open, pending, inq, eof, loop, ghosts>>

Database ==
  /\ DbDown \/ DbUp \/ DbIdle
  /\ Quiet
  /\ UNCHANGED <<table, open, pending, inq, eof, loop, ghosts>>

--------------------------------------------------------------------------------
(* The end of the process, and its next start *)

\* The table is gone, and the kernel closes every connection with its queues.
ProcessEnds ==
  /\ up' = FALSE
  /\ clients' = [s \in Slots |-> Free]
  /\ epolled' = {Listen} /\ open' = {} /\ pending' = 0
  /\ inq' = [f \in Fds |-> <<>>] /\ eof' = [f \in Fds |-> FALSE]
  /\ unread' = [f \in Fds |-> 0] /\ wire' = {}
  /\ events' = {} /\ serving' = NoFd /\ batch' = <<>>
  /\ UNCHANGED <<dbVars, ghosts>>

\* Any error of epoll_wait ends the loop and main with it: also EINTR, which a
\* process gets that was stopped and continued.
EpollFails ==
  /\ Running /\ events = {} /\ serving = NoFd
  /\ ProcessEnds

\* Somebody starts the server again; users and projects are still there.
Start ==
  /\ ~up /\ up' = TRUE
  /\ DbConnect
  /\ Quiet
  /\ UNCHANGED <<clients, epolled, open, pending, inq, eof, loop, ghosts>>

--------------------------------------------------------------------------------
(* epoll_wait and accept *)

Ready == {f \in epolled : IF f = Listen THEN pending > 0 ELSE inq[f] # <<>> \/ eof[f]}

EpollWait ==
  /\ Running /\ events = {} /\ serving = NoFd
  /\ events' \in SUBSET Ready
  /\ Cardinality(events') =
       IF Cardinality(Ready) < MaxClients THEN Cardinality(Ready) ELSE MaxClients
  /\ events' # {}
  /\ Quiet
  /\ UNCHANGED <<dbVars, table, open, pending, inq, eof, serving, batch, ghosts>>

\* add_client takes the first free slot; without one the connection is closed.
AddClient(f) ==
  IF SlotsOf(NoFd) = {}
    THEN /\ UNCHANGED <<clients, epolled, open, inq>>
    ELSE /\ clients' = [clients EXCEPT ![SlotOf(NoFd)] = [Free EXCEPT !.fd = f]]
         /\ epolled' = epolled \union {f}
         /\ open' = open \union {f}
         /\ inq' = [inq EXCEPT ![f] = <<Hello>>]

Accept(f) ==
  /\ Running /\ serving = NoFd /\ Listen \in events
  /\ f \in Fds \ open
  /\ events' = events \ {Listen}
  /\ pending' = pending - 1
  /\ AddClient(f)
  /\ auth' = [auth EXCEPT ![f] = 0] /\ joined' = [joined EXCEPT ![f] = 0]
  /\ Quiet
  /\ UNCHANGED <<dbVars, up, eof, serving, batch, acked, vain>>

\* accept fails for want of a descriptor; the connection keeps waiting.
AcceptFails ==
  /\ Running /\ serving = NoFd /\ Listen \in events
  /\ Fds \subseteq open
  /\ events' = events \ {Listen}
  /\ Quiet
  /\ UNCHANGED <<dbVars, table, open, pending, inq, eof, serving, batch, ghosts>>

--------------------------------------------------------------------------------
(* Closing: remove_client, close (which also takes the descriptor out of   *)
(* epoll) and the end of whatever the connection had in its queues.        *)

\* Mutant: remove_client leaves user_id and room_id in the slot.
RemoveClientKeepsUser(f) ==
  clients' = IF SlotsOf(f) = {} THEN clients
             ELSE [clients EXCEPT ![SlotOf(f)].fd = NoFd, ![SlotOf(f)].shaken = FALSE]

RemoveClient(f) ==
  clients' = IF SlotsOf(f) = {} THEN clients ELSE [clients EXCEPT ![SlotOf(f)] = Free]

Close(f) ==
  /\ RemoveClient(f)
  /\ epolled' = epolled \ {f}
  /\ open' = open \ {f}
  /\ inq' = [inq EXCEPT ![f] = <<>>]
  /\ eof' = [eof EXCEPT ![f] = FALSE]
  /\ unread' = [unread EXCEPT ![f] = 0] /\ wire' = {}

--------------------------------------------------------------------------------
(* A readable connection: read, then the frames.  An event without a slot  *)
(* (471-480), end of file and an error all end in the same close.          *)

\* Mutant: the end of a connection is noticed, and the connection kept.
ReadEndsKeeps(f) ==
  /\ Running /\ serving = NoFd /\ f \in events \ {Listen}
  /\ SlotsOf(f) = {} \/ (inq[f] = <<>> /\ eof[f])
  /\ events' = events \ {f}
  /\ Quiet
  /\ UNCHANGED <<dbVars, table, open, pending, inq, eof, serving, batch, ghosts>>

ReadEnds(f) ==
  /\ Running /\ serving = NoFd /\ f \in events \ {Listen}
  /\ SlotsOf(f) = {} \/ (inq[f] = <<>> /\ eof[f])
  /\ events' = events \ {f}
  /\ Close(f)
  /\ UNCHANGED <<dbVars, up, pending, serving, batch, ghosts>>

\* n messages are complete in the buffer; what follows them stays to be read.
ReadFrames(f, n) ==
  /\ Running /\ serving = NoFd /\ f \in events \ {Listen}
  /\ SlotsOf(f) # {} /\ n \in 1..Len(inq[f])
  /\ events' = events \ {f}
  /\ serving' = f
  /\ batch' = SubSeq(inq[f], 1, n)
  /\ inq' = [inq EXCEPT ![f] = SubSeq(@, n + 1, Len(@))]
  /\ Quiet
  /\ UNCHANGED <<dbVars, table, open, pending, eof, ghosts>>

--------------------------------------------------------------------------------
(* Sending.  A socket that is full gets nothing, or the head of a frame    *)
(* ("torn"): broadcast_room ignores what send returns, send_ws_frame gives *)
(* up after ten attempts.                                                  *)

Torn == [type |-> "torn"]

SendTo(to, m) ==
  LET took == {f \in to : unread[f] < SendCap}
  IN  \E torn \in SUBSET {f \in to : unread[f] = SendCap} :
        /\ unread' = [f \in Fds |-> IF f \in took \union torn THEN unread[f] + 1
                                                             ELSE unread[f]]
        /\ wire' = [to : took, msg : {m}] \union [to : torn, msg : {Torn}]

Reply(type, ok) == SendTo({serving}, [type |-> type, ok |-> ok])

--------------------------------------------------------------------------------
(* handle_message *)

me == SlotOf(serving)

\* The frame at the front of the buffer, and the loop over what follows it.
Handling(type) ==
  /\ Running /\ serving # NoFd
  /\ Head(batch).type = type

Handled ==
  /\ batch' = Tail(batch)
  /\ serving' = IF Tail(batch) = <<>> THEN NoFd ELSE serving
  /\ UNCHANGED <<up, epolled, open, pending, inq, eof, events>>

\* The upgrade request: the response, and the buffer is emptied.
HandleHello ==
  /\ Handling("hello")
  /\ clients' = [clients EXCEPT ![me].shaken = TRUE]
  /\ Reply("101", TRUE)
  /\ batch' = <<>> /\ serving' = NoFd
  /\ UNCHANGED <<dbVars, up, epolled, open, pending, inq, eof, events, ghosts>>

\* A frame larger than the buffer ends the connection and the frames behind it.
HandleHuge ==
  /\ Handling("huge")
  /\ Close(serving)
  /\ batch' = <<>> /\ serving' = NoFd
  /\ UNCHANGED <<dbVars, up, pending, events, ghosts>>

\* No JSON, no known type, or fields missing, which only register answers (and
\* save_canvas, where it is a "bad" drawing).
HandleOther ==
  /\ Handling("other")
  /\ Handled
  /\ Quiet \/ Reply("register_resp", FALSE)
  /\ UNCHANGED <<dbVars, clients, ghosts>>

\* Login or register with a username that is no string: valuestring is NULL,
\* and strlen(NULL) ends the process, unless there is no handle to look it up.
HandleNoName ==
  /\ Handling("no_name")
  /\ IF conn = "null"
       THEN /\ Reply(Head(batch).resp, FALSE)
            /\ Handled
            /\ UNCHANGED <<dbVars, clients, ghosts>>
       ELSE ProcessEnds

HandleLogin ==
  /\ Handling("login")
  /\ \E id \in 0..Cardinality(Users) :
       /\ DbLogin(Head(batch).user, Head(batch).good, id)
       /\ clients' = IF id > 0 THEN [clients EXCEPT ![me].user = id] ELSE clients
       /\ auth' = IF id > 0 THEN [auth EXCEPT ![serving] = id] ELSE auth
       /\ Reply("login_resp", id > 0)
  /\ Handled
  /\ UNCHANGED <<joined, acked, vain>>

HandleRegister ==
  /\ Handling("register")
  /\ \E ok \in BOOLEAN : /\ DbRegister(Head(batch).user, ok)
                         /\ Reply("register_resp", ok)
  /\ Handled
  /\ UNCHANGED <<clients, ghosts>>

HandleListRooms ==
  /\ Handling("list_rooms")
  /\ IF clients[me].user = 0
       THEN Reply("error", FALSE) /\ UNCHANGED dbVars
       ELSE \E ok \in BOOLEAN : DbGetProjects(ok) /\ Reply("room_list", ok)
  /\ Handled
  /\ UNCHANGED <<clients, ghosts>>

\* Mutant: create_room without the test of user_id.
HandleCreateRoomUnchecked ==
  /\ Handling("create_room")
  /\ \E ok \in BOOLEAN : /\ DbCreateProject(clients[me].user, ok)
                         /\ Reply("create_room_resp", ok)
  /\ Handled
  /\ UNCHANGED <<clients, ghosts>>

HandleCreateRoom ==
  /\ Handling("create_room")
  /\ IF clients[me].user = 0
       THEN Quiet /\ UNCHANGED dbVars
       ELSE \E ok \in BOOLEAN :
              /\ DbCreateProject(clients[me].user, ok)
              /\ Reply("create_room_resp", ok)
  /\ Handled
  /\ UNCHANGED <<clients, ghosts>>

\* The answer, then the stored drawing when there is one.
JoinReplies(data) ==
  LET ok == [type |-> "join_room_resp", ok |-> TRUE]
      canvas == [type |-> "load_canvas", canvas |-> data]
      all == IF data = Blank THEN <<ok>> ELSE <<ok, canvas>>
      room == SendCap - unread[serving]
      fit == IF Len(all) <= room THEN Len(all) ELSE room
      sent == {all[i] : i \in 1..fit}
  IN  \E torn \in {t \in BOOLEAN : t => 0 <= room /\ room < Len(all)} :
        /\ unread' = [unread EXCEPT ![serving] =
                         IF room < 0 THEN @ ELSE @ + fit + (IF torn THEN 1 ELSE 0)]
        /\ wire' = [to : {serving}, msg : sent \union (IF torn THEN {Torn} ELSE {})]

\* Mutant: join_room without the test of user_id.
HandleJoinRoomUnchecked ==
  /\ Handling("join_room")
  /\ clients' = [clients EXCEPT ![me].room = Head(batch).room]
  /\ joined' = [joined EXCEPT ![serving] = Head(batch).room]
  /\ \E data \in Canvases \union {Blank, NoStrokes} :
       DbGetProjectData(Head(batch).room, data) /\ JoinReplies(data)
  /\ Handled
  /\ UNCHANGED <<auth, acked, vain>>

HandleJoinRoom ==
  /\ Handling("join_room")
  /\ LET r == Head(batch).room
     IN  IF clients[me].user = 0
           THEN Quiet /\ UNCHANGED <<dbVars, clients, joined>>
           ELSE /\ clients' = [clients EXCEPT ![me].room = r]
                /\ joined' = [joined EXCEPT ![serving] = r]
                /\ \E data \in Canvases \union {Blank, NoStrokes} :
                     /\ DbGetProjectData(r, data)
                     /\ JoinReplies(data)
  /\ Handled
  /\ UNCHANGED <<auth, acked, vain>>

\* The ghosts: what is known of the drawing in r after the answer to a save.
Recorded(r, c, ok) ==
  /\ acked' = [acked EXCEPT ![r] = IF ok THEN {c} ELSE @ \union {c}]
  /\ vain' = IF ~ok THEN vain
             ELSE IF r \in DOMAIN projects THEN vain \ {r} ELSE vain \union {r}

\* The drawing is checked, stored and confirmed; the read-back is only logged.
\* An UPDATE of no row is confirmed like any other.
HandleSaveCanvas ==
  /\ Handling("save_canvas")
  /\ LET r == clients[me].room
         c == Head(batch).canvas
     IN  IF r = 0
           THEN Quiet /\ UNCHANGED <<dbVars, acked, vain>>
         ELSE IF c = "bad"
           THEN Reply("save_canvas_resp", FALSE) /\ UNCHANGED <<dbVars, acked, vain>>
           ELSE \E ok \in BOOLEAN :
                  /\ DbSaveProjectData(r, c, ok)
                  /\ Recorded(r, c, ok)
                  /\ Reply("save_canvas_resp", ok)
  /\ Handled
  /\ UNCHANGED <<clients, auth, joined>>

\* Mutant: the test of room_id is lost, every other client hears it.
AudienceEverybody(f, r) == {clients[s].fd : s \in Slots} \ {NoFd, f}

\* broadcast_room: everybody else whose slot is in the room.
Audience(f, r) ==
  {clients[s].fd : s \in {t \in Slots : clients[t].room = r}} \ {NoFd, f}

HandleRelay(type) ==
  /\ Handling(type)
  /\ IF clients[me].room = 0
       THEN Quiet
       ELSE SendTo(Audience(serving, clients[me].room),
                   Head(batch))
  /\ Handled
  /\ UNCHANGED <<dbVars, clients, ghosts>>

--------------------------------------------------------------------------------
Peers ==
  \/ Connect
  \/ \E f \in Fds, m \in Requests : PeerSend(f, m)
  \/ \E f \in Fds : \E left \in {inq[f], <<>>} : PeerClose(f, left)
  \/ \E f \in Fds : PeerTake(f)

Server ==
  \/ EpollWait
  \/ \E f \in Fds : Accept(f)
  \/ AcceptFails
  \/ \E f \in Fds : ReadEnds(f)
  \/ \E f \in Fds, n \in 1..MaxIn : ReadFrames(f, n)
  \/ HandleHello \/ HandleHuge \/ HandleOther
  \/ HandleNoName \/ HandleLogin \/ HandleRegister
  \/ HandleListRooms \/ HandleCreateRoom \/ HandleJoinRoom
  \/ HandleSaveCanvas
  \/ \E type \in Relayed : HandleRelay(type)

Next == Peers \/ Database \/ EpollFails \/ Start \/ Server

Spec == Init /\ [][Next]_vars

\* The loop goes on while the process runs, which nothing here promises; and the
\* kernel puts a descriptor it has reported at the end of its ready list: one
\* that stays ready is reported in the end.
FairSpec ==
  /\ Spec
  /\ WF_vars(Server)
  /\ \A f \in Fds : SF_vars(EpollWait /\ f \in events')

--------------------------------------------------------------------------------
(* Properties *)

Messages ==
  [type : {"torn"}]
    \union [type : {"101", "login_resp", "register_resp", "error", "room_list",
                    "create_room_resp", "join_room_resp", "save_canvas_resp"},
            ok : BOOLEAN]
    \union [type : {"load_canvas"}, canvas : Canvases \union {NoStrokes}]
    \union [type : Relayed, stroke : Strokes]

Slot == [fd : Fds \union {NoFd}, user : Nat, room : Nat, shaken : BOOLEAN]

TypeOK ==
  /\ DbTypeOK
  /\ up \in BOOLEAN
  /\ clients \in [Slots -> Slot]
  /\ epolled \subseteq Fds \union {Listen} /\ open \subseteq Fds
  /\ pending \in Nat
  /\ inq \in [Fds -> Seq(Requests \union {Hello})] /\ eof \in [Fds -> BOOLEAN]
  /\ unread \in [Fds -> Nat] /\ wire \subseteq [to : Fds, msg : Messages]
  /\ events \subseteq Fds \union {Listen}
  /\ serving \in Fds \union {NoFd}
  /\ batch \in Seq(Requests \union {Hello})
  /\ auth \in [Fds -> Nat] /\ joined \in [Fds -> Nat]
  /\ acked \in [1..MaxProjects -> SUBSET (Canvases \union {Blank})]
  /\ vain \subseteq Nat

\* The table, epoll and the kernel agree: one slot per open connection, each
\* watched, and a free slot remembers nothing of its last client.
TableInSync ==
  /\ \A s, t \in Slots : clients[s].fd = clients[t].fd /\ clients[s].fd # NoFd => s = t
  /\ {clients[s].fd : s \in Slots} \ {NoFd} = open
  /\ epolled = open \union {Listen}
  /\ \A s \in Slots : clients[s].fd = NoFd => clients[s] = Free

\* An event is never for a connection closed earlier in the batch (the case
\* 471-480 guards against), and the connection being served has its slot and
\* is done with its event.
EventsInSync ==
  /\ events \subseteq epolled /\ serving \notin events
  /\ Listen \in events => pending > 0
  /\ IF serving = NoFd THEN batch = <<>>
                       ELSE serving \in open /\ batch # <<>>

\* A slot speaks for its own connection: it has the login and the room of
\* that connection, never those of one that had the descriptor before, and
\* nobody is in a room without being logged in.
SessionIsOwn ==
  \A s \in Slots : clients[s].fd # NoFd =>
    /\ clients[s].user = auth[clients[s].fd]
    /\ clients[s].room = joined[clients[s].fd]
    /\ clients[s].room # 0 => clients[s].user # 0

\* The inductive invariant behind the theorems of CanvasServerProofs.
ServerInv == TypeOK /\ TableInSync /\ EventsInSync /\ SessionIsOwn

\* A drawing in the database changes only by a save of a connection that has
\* logged in and that asked for this room last.
OnlyMembersSave ==
  [][\A p \in DOMAIN projects : projects'[p].canvas # projects[p].canvas =>
       serving # NoFd /\ auth[serving] # 0 /\ joined[serving] = p]_vars

\* What a connection drew, typed or undid reaches only others that asked for
\* the same room last.
HearsOnlyItsRoom ==
  [][\A d \in wire' : d.msg.type \in Relayed =>
       /\ d.to # serving /\ joined[d.to] = joined[serving]
       /\ joined[serving] # 0 /\ auth[serving] # 0]_vars

\* A save that was confirmed is what the database holds, through losses of the
\* connection, reconnects and ends of the process; only a save that was reported
\* as failed, and was carried out, can take its place.  Not so a save into a
\* room that has no row: "Canvas saved" is the answer (342-346), nothing is
\* stored, and when the row is created it is empty.
MayHold(r) == acked[r] \union {x \in {Blank} : r \in vain}
ConfirmedIsStored == \A p \in DOMAIN projects : projects[p].canvas \in MayHold(p)

\* What the peers can tell of the state: the names that a connection has logged
\* in as (those with the id of its login), the room it asked for last, the
\* drawings, what was confirmed of them, and who hears whom.
NamesOf(f) == {u \in Users : f \in open /\ auth[f] # 0 /\ users[u] = auth[f]}
LoggedInAs == [f \in Fds |-> NamesOf(f)]
InRoom == [f \in Fds |-> IF f \in open THEN joined[f] ELSE 0]
StoredDrawings == [p \in DOMAIN projects |-> projects[p].canvas]
Settled == [r \in 1..MaxProjects |-> MayHold(r)]
Heard == {d \in wire : d.msg.type \in Relayed}

Service ==
  INSTANCE RoomService
  WITH Connections <- Fds, Drawings <- Canvases, Empty <- Blank,
       Contents <- [type : Relayed, stroke : Strokes],
       live <- open, who <- LoggedInAs, room <- InRoom, known <- Registered,
       stored <- StoredDrawings, settled <- Settled, heard <- Heard

\* Behind slots that are reused, events that outlive connections, sockets that
\* are full and a database that comes and goes there is a room service: every
\* step of the server is one of its steps, or nothing that anybody can tell.
KeepsTheService == Service!Spec

\* 306: "Send current canvas state": who joins a room where a drawing was saved,
\* and the save confirmed, is sent this drawing.  (A room without one is left
\* out: that its "" is sent as "[]" is no difference.)
JoinSendsStored ==
  [][\A d \in wire' :
       d.msg.type = "load_canvas" =>
         \A p \in DOMAIN projects :
           /\ joined'[d.to] = p
           /\ projects[p].canvas # Blank /\ acked[p] = {projects[p].canvas}
           => d.msg.canvas = projects[p].canvas]_vars

\* 386: "Don't exit, just continue without DB features".
SurvivesWithoutDb == conn # "fault"

\* Every connection that has something to say, or has gone, is served in the
\* end, however busy the others are, unless the process ends before.
EveryoneServed == \A f \in Fds : f \in Ready ~> (serving = f \/ f \notin Ready \/ ~up)
===============================================================================

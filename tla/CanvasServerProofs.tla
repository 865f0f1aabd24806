--------------------------- MODULE CanvasServerProofs ---------------------------
(***************************************************************************)
(* ServerInv holds in every reachable state of CanvasServer, for any       *)
(* number of slots and descriptors, any requests, users and drawings; and  *)
(* what follows from it: who may change a drawing, who hears an edit, that *)
(* a confirmed save is stored, and that the whole implements RoomService.  *)
(***************************************************************************)
EXTENDS CanvasServer, TLAPS, FiniteSetTheorems, SequenceTheorems, WellFoundedInduction

--------------------------------------------------------------------------------
(* The slot of a connection, and the first free slot *)

\* The order of the naturals is well founded: which slot a scan finds first.
LEMMA NatLess == IsWellFoundedOn({ss \in Nat \X Nat : ss[1] < ss[2]}, Nat)
BY ONLY NatLessThanWellFounded, Zenon DEF OpToRel

\* A set of naturals that is not empty has a least member.
LEMMA Least ==
  ASSUME NEW T \in SUBSET Nat, T # {}
  PROVE  \E x \in T : \A y \in T : x <= y
<1>1. \E x \in T : \A y \in T : ~ (<<y, x>> \in {ss \in Nat \X Nat : ss[1] < ss[2]})
  BY NatLess, WFMin, Zenon
<1>2. \A x, y \in Nat : ~ (<<y, x>> \in {ss \in Nat \X Nat : ss[1] < ss[2]}) => x <= y
  OBVIOUS
<1> QED BY <1>1, <1>2, Zenon

\* get_client: a descriptor in the table has exactly one slot, SlotOf.
LEMMA SlotOfOpen ==
  ASSUME TypeOK, TableInSync, NEW f \in Fds, SlotsOf(f) # {}
  PROVE  /\ SlotOf(f) \in Slots /\ clients[SlotOf(f)].fd = f
         /\ \A s \in Slots : clients[s].fd = f => s = SlotOf(f)
<1>1. PICK s \in Slots : clients[s].fd = f
  BY DEF SlotsOf
<1>2. \A t \in Slots : clients[t].fd = f => t = s
  BY <1>1, FdsAssumption DEF TableInSync
<1>3. SlotsOf(f) = {s} /\ s <= s
  BY <1>1, <1>2, MaxClientsAssumption DEF SlotsOf, Slots
<1>4. SlotOf(f) = s
  BY <1>3 DEF SlotOf
<1> QED BY <1>1, <1>2, <1>4

\* add_client: when a slot is free, the one found is free.
LEMMA SlotOfFree ==
  ASSUME SlotsOf(NoFd) # {}
  PROVE  SlotOf(NoFd) \in Slots /\ clients[SlotOf(NoFd)].fd = NoFd
<1>1. SlotsOf(NoFd) \in SUBSET Nat
  BY MaxClientsAssumption DEF SlotsOf, Slots
<1>2. \E s \in SlotsOf(NoFd) : \A t \in SlotsOf(NoFd) : s <= t
  BY <1>1, Least
<1>3. SlotOf(NoFd) \in SlotsOf(NoFd)
  BY <1>2 DEF SlotOf
<1> QED BY <1>3 DEF SlotsOf

\* The fields that a request of each type carries.
LEMMA RequestShape ==
  ASSUME NEW m \in Requests \union {Hello}
  PROVE  /\ m.type \in {"login", "register"} => m.user \in Users
         /\ m.type = "no_name" => m.resp \in {"login_resp", "register_resp"}
         /\ m.type = "join_room" => m.room \in Nat
         /\ m.type = "save_canvas" => m.canvas \in Canvases \union {"bad"}
         /\ m.type \in Relayed => m \in [type : Relayed, stroke : Strokes]
<1>1. m \in AllRequests \/ m = Hello
  BY RequestsAssumption
<1>2. m \in AllRequests => (m.type = "join_room" => m.room \in Rooms)
  BY DEF AllRequests
<1>3. Rooms \subseteq Nat
  BY MaxProjectsAssumption DEF Rooms
<1>4. m \in AllRequests => (m.type \in Relayed => m \in [type : Relayed, stroke : Strokes])
  BY DEF AllRequests, Relayed
<1>5. m \in AllRequests => /\ m.type \in {"login", "register"} => m.user \in Users
                           /\ m.type = "save_canvas" => m.canvas \in Canvases \union {"bad"}
  BY DEF AllRequests
<1>6. m = Hello => m.type = "hello"
  BY DEF Hello
<1>7. m \in AllRequests => (m.type = "no_name" => m.resp \in {"login_resp", "register_resp"})
  BY DEF AllRequests
<1> QED BY <1>1, <1>2, <1>3, <1>4, <1>5, <1>6, <1>7 DEF Relayed

--------------------------------------------------------------------------------
(* The calls of the database *)

\* What a statement leaves in the handle.
LEMMA StatementConn ==
  ASSUME DbTypeOK, NEW ok, NEW done, Statement(ok, done)
  PROVE  conn' \in {"open", "lost", "null", "freed", "fault"}
BY DEF DbTypeOK, Statement, Touched, Answers

\* db_register_user keeps the types of the database.
LEMMA RegisterType ==
  ASSUME DbTypeOK, NEW u \in Users, NEW ok, DbRegister(u, ok)
  PROVE  DbTypeOK' /\ projects' = projects
<1>1. conn' \in {"open", "lost", "null", "freed", "fault"}
  BY StatementConn DEF DbRegister
<1>2. Cardinality(Registered) \in Nat
  <2>1. IsFiniteSet(Registered)
    BY UsersAssumption, FS_Subset DEF Registered
  <2> QED BY <2>1, FS_CardinalityType
<1>3. users' \in [Users -> Nat]
  BY <1>2 DEF DbRegister, DbTypeOK
<1> QED BY <1>1, <1>3 DEF DbRegister, DbTypeOK

\* db_login_user keeps the types and changes no row.
LEMMA LoginType ==
  ASSUME DbTypeOK, NEW u \in Users, NEW good, NEW id, DbLogin(u, good, id)
  PROVE  DbTypeOK' /\ projects' = projects /\ id \in Nat
<1>1. conn' \in {"open", "lost", "null", "freed", "fault"}
  BY StatementConn DEF DbLogin
<1> QED BY <1>1 DEF DbLogin, DbTypeOK

\* db_create_project appends one empty row or leaves the rows alone.
LEMMA CreateProjectType ==
  ASSUME DbTypeOK, NEW uid \in Nat, NEW ok, DbCreateProject(uid, ok)
  PROVE  /\ DbTypeOK'
         /\ \/ projects' = projects
            \/ /\ Len(projects) < MaxProjects
               /\ projects' = Append(projects, [owner |-> uid, canvas |-> Blank])
<1>1. conn' \in {"open", "lost", "null", "freed", "fault"}
  BY StatementConn DEF DbCreateProject
<1>2. \/ projects' = projects
      \/ /\ Len(projects) < MaxProjects
         /\ projects' = Append(projects, [owner |-> uid, canvas |-> Blank])
  BY DEF DbCreateProject
<1>3. projects' \in Seq([owner : Nat, canvas : Canvases \union {Blank}])
  <2> DEFINE Row == [owner : Nat, canvas : Canvases \union {Blank}]
  <2>1. [owner |-> uid, canvas |-> Blank] \in Row
    OBVIOUS
  <2>2. projects \in Seq(Row)
    BY DEF DbTypeOK
  <2> HIDE DEF Row
  <2>3. Append(projects, [owner |-> uid, canvas |-> Blank]) \in Seq(Row)
    BY <2>1, <2>2, AppendProperties
  <2> QED BY <1>2, <2>2, <2>3 DEF Row
<1> QED BY <1>1, <1>2, <1>3 DEF DbCreateProject, DbTypeOK

\* db_get_projects changes no row.
LEMMA GetProjectsType ==
  ASSUME DbTypeOK, NEW ok, DbGetProjects(ok)
  PROVE  DbTypeOK' /\ projects' = projects
<1>1. conn' \in {"open", "lost", "null", "freed", "fault"}
  BY StatementConn DEF DbGetProjects
<1> QED BY <1>1 DEF DbGetProjects, DbTypeOK

\* db_get_project_data changes no row.
LEMMA GetProjectDataType ==
  ASSUME DbTypeOK, NEW r, NEW d, DbGetProjectData(r, d)
  PROVE  DbTypeOK' /\ projects' = projects
<1>1. conn' \in {"open", "lost", "null", "freed", "fault"}
  BY StatementConn DEF DbGetProjectData
<1> QED BY <1>1 DEF DbGetProjectData, DbTypeOK

\* An UPDATE changes the drawing of one row and the number of none.
LEMMA StoredType ==
  ASSUME DbTypeOK, NEW r, NEW c \in Canvases
  PROVE  /\ Stored(r, c) \in Seq([owner : Nat, canvas : Canvases \union {Blank}])
         /\ Len(Stored(r, c)) = Len(projects)
         /\ \A p \in DOMAIN projects :
              Stored(r, c)[p].canvas = IF p = r THEN c ELSE projects[p].canvas
<1> DEFINE Row == [owner : Nat, canvas : Canvases \union {Blank}]
<1>1. CASE r \notin DOMAIN projects
  BY <1>1 DEF Stored, DbTypeOK
<1>2. CASE r \in DOMAIN projects
  <2>1. projects \in Seq(Row) /\ r \in 1..Len(projects)
    BY <1>2 DEF DbTypeOK
  <2>2. [projects[r] EXCEPT !.canvas = c] \in Row
    <3>1. projects[r] \in Row
      BY <2>1, ElementOfSeq
    <3> QED BY <3>1
  <2>3. Stored(r, c) = [projects EXCEPT ![r] = [projects[r] EXCEPT !.canvas = c]]
    BY <1>2 DEF Stored
  <2> HIDE DEF Row
  <2>4. Stored(r, c) \in Seq(Row) /\ Len(Stored(r, c)) = Len(projects)
    BY <2>1, <2>2, <2>3, ExceptSeq
  <2>5. \A p \in DOMAIN projects :
          Stored(r, c)[p].canvas = IF p = r THEN c ELSE projects[p].canvas
    BY <2>1, <2>3 DEF Row
  <2> QED BY <2>4, <2>5 DEF Row
<1> QED BY <1>1, <1>2

\* A save that succeeds is stored; one that fails may be.
LEMMA SaveProjectDataType ==
  ASSUME DbTypeOK, NEW r, NEW c \in Canvases, NEW ok \in BOOLEAN, DbSaveProjectData(r, c, ok)
  PROVE  /\ DbTypeOK'
         /\ projects' = Stored(r, c) \/ (~ok /\ projects' = projects)
<1>1. PICK done \in BOOLEAN :
        /\ \/ conn # "null" /\ Statement(ok, done)
           \/ conn \in {"lost", "null"} /\ Reconnected(ok, done)
        /\ projects' = IF done THEN Stored(r, c) ELSE projects
  BY DEF DbSaveProjectData
<1>2. conn' \in {"open", "lost", "null", "freed", "fault"}
  BY <1>1, StatementConn DEF Reconnected
<1>3. ok => done
  BY <1>1 DEF Statement, Reconnected
<1>4. projects' \in Seq([owner : Nat, canvas : Canvases \union {Blank}])
  BY <1>1, StoredType DEF DbTypeOK
<1> QED BY <1>1, <1>2, <1>3, <1>4 DEF DbSaveProjectData, DbTypeOK

--------------------------------------------------------------------------------
(* What is sent *)

\* What a send leaves in the sockets: the message, whole or torn.
LEMMA SendToType ==
  ASSUME TypeOK, NEW tos \in SUBSET Fds, NEW m \in Messages, SendTo(tos, m)
  PROVE  /\ unread' \in [Fds -> Nat]
         /\ wire' \subseteq [to : Fds, msg : Messages]
         /\ \A d \in wire' : d.to \in tos /\ d.msg \in {m, Torn}
<1>1. Torn \in Messages
  BY DEF Torn, Messages
<1>2. PICK torn \in SUBSET {f \in tos : unread[f] = SendCap} :
        /\ unread' = [f \in Fds |-> IF f \in {g \in tos : unread[g] < SendCap} \union torn
                                    THEN unread[f] + 1 ELSE unread[f]]
        /\ wire' = [to : {f \in tos : unread[f] < SendCap}, msg : {m}]
                     \union [to : torn, msg : {Torn}]
  BY DEF SendTo
<1>3. unread' \in [Fds -> Nat]
  BY <1>2 DEF TypeOK
<1> QED BY <1>1, <1>2, <1>3

\* An answer of the server is no edit, chat or cursor line.
LEMMA ReplyType ==
  ASSUME TypeOK, serving \in Fds, NEW ok \in BOOLEAN,
         NEW type \in {"101", "login_resp", "register_resp", "error", "room_list",
                       "create_room_resp", "join_room_resp", "save_canvas_resp"},
         Reply(type, ok)
  PROVE  /\ unread' \in [Fds -> Nat]
         /\ wire' \subseteq [to : Fds, msg : Messages]
         /\ \A d \in wire' : d.msg.type \notin Relayed
<1>1. [type |-> type, ok |-> ok] \in Messages
  BY DEF Messages
<1>2. {serving} \in SUBSET Fds
  OBVIOUS
<1>3. /\ unread' \in [Fds -> Nat]
      /\ wire' \subseteq [to : Fds, msg : Messages]
      /\ \A d \in wire' : d.msg \in {[type |-> type, ok |-> ok], Torn}
  BY <1>1, <1>2, SendToType DEF Reply
<1> QED BY <1>3 DEF Torn, Relayed

\* What a join sends is no edit that somebody relayed.
LEMMA JoinRepliesType ==
  ASSUME TypeOK, serving \in Fds, NEW data \in Canvases \union {Blank, NoStrokes},
         JoinReplies(data)
  PROVE  /\ unread' \in [Fds -> Nat]
         /\ wire' \subseteq [to : Fds, msg : Messages]
         /\ \A d \in wire' : d.msg.type \notin Relayed
<1> DEFINE ok == [type |-> "join_room_resp", ok |-> TRUE]
           canvas == [type |-> "load_canvas", canvas |-> data]
           all == IF data = Blank THEN <<ok>> ELSE <<ok, canvas>>
           room == SendCap - unread[serving]
           fit == IF Len(all) <= room THEN Len(all) ELSE room
           sent == {all[i] : i \in 1..fit}
<1>1. PICK torn \in {t \in BOOLEAN : t => 0 <= room /\ room < Len(all)} :
        /\ unread' = [unread EXCEPT ![serving] =
                         IF room < 0 THEN @ ELSE @ + fit + (IF torn THEN 1 ELSE 0)]
        /\ wire' = [to : {serving}, msg : sent \union (IF torn THEN {Torn} ELSE {})]
  BY DEF JoinReplies
<1>2. room \in Int /\ unread[serving] \in Nat /\ Len(all) \in {1, 2}
  BY BoundsAssumption DEF TypeOK
<1>3. fit \in Int /\ fit <= Len(all) /\ (room >= 0 => fit >= 0)
  BY <1>2
<1>4. unread' \in [Fds -> Nat]
  <2>1. ~(room < 0) => unread[serving] + fit + (IF torn THEN 1 ELSE 0) \in Nat
    BY <1>2, <1>3
  <2> HIDE DEF room, fit, all
  <2> QED BY <1>1, <1>2, <2>1 DEF TypeOK
<1>5. sent \subseteq {ok} \union (IF data = Blank THEN {} ELSE {canvas})
  <2>1. \A i \in 1..fit : i = 1 \/ (i = 2 /\ Len(all) = 2)
    BY <1>2, <1>3
  <2>2. all[1] = ok /\ (Len(all) = 2 => all[2] = canvas /\ data # Blank)
    BY <1>2
  <2> HIDE DEF ok, canvas, all, fit
  <2> QED BY <2>1, <2>2
<1>6. ok \in Messages /\ Torn \in Messages /\ (data # Blank => canvas \in Messages)
  BY DEF Messages, Torn
<1>7. ok.type \notin Relayed /\ canvas.type \notin Relayed /\ Torn.type \notin Relayed
  BY DEF Torn, Relayed
<1> HIDE DEF ok, canvas, sent
<1>8. wire' \subseteq [to : Fds, msg : Messages]
  BY <1>1, <1>5, <1>6
<1>9. \A d \in wire' : d.msg.type \notin Relayed
  BY <1>1, <1>5, <1>7
<1> QED BY <1>4, <1>8, <1>9

--------------------------------------------------------------------------------
(* The connection being served, and the frames of its batch *)

\* It is open and has one slot.
LEMMA Served ==
  ASSUME ServerInv, serving # NoFd
  PROVE  /\ serving \in Fds /\ serving \in open /\ serving \notin events
         /\ me \in Slots /\ clients[me].fd = serving
         /\ \A s \in Slots : clients[s].fd = serving => s = me
         /\ batch # <<>> /\ Head(batch) \in Requests \union {Hello}
<1>1. serving \in open /\ serving \in Fds /\ serving \notin events /\ batch # <<>>
  BY DEF ServerInv, TypeOK, EventsInSync
<1>2. SlotsOf(serving) # {}
  BY <1>1 DEF ServerInv, TableInSync, SlotsOf
<1>3. Head(batch) \in Requests \union {Hello}
  BY <1>1, HeadTailProperties DEF ServerInv, TypeOK
<1> QED BY <1>1, <1>2, <1>3, SlotOfOpen DEF ServerInv, me

\* A handler leaves the batch, the events and the descriptors in order.
LEMMA HandledStep ==
  ASSUME ServerInv, serving # NoFd, Handled
  PROVE  /\ EventsInSync'
         /\ batch' \in Seq(Requests \union {Hello}) /\ serving' \in Fds \union {NoFd}
<1>1. batch' \in Seq(Requests \union {Hello})
  BY Served, HeadTailProperties DEF Handled, ServerInv, TypeOK
<1>2. serving' \in Fds \union {NoFd}
  BY Served DEF Handled
<1>3. NoFd \notin events
  BY FdsAssumption DEF ServerInv, TypeOK
<1>4. EventsInSync'
  <2>1. CASE Tail(batch) = <<>>
    BY <2>1, <1>3 DEF Handled, ServerInv, EventsInSync
  <2>2. CASE Tail(batch) # <<>>
    BY <2>2, Served DEF Handled, ServerInv, EventsInSync
  <2> QED BY <2>1, <2>2
<1> QED BY <1>1, <1>2, <1>4

--------------------------------------------------------------------------------
(* Changes of the table *)

\* A step that leaves table and kernel alone keeps them in agreement.
LEMMA SameTable ==
  ASSUME ServerInv, UNCHANGED <<clients, epolled, open>>
  PROVE  TableInSync' /\ clients' \in [Slots -> Slot]
BY DEF ServerInv, TypeOK, TableInSync, Slots

\* A step that leaves slots and ghosts alone keeps sessions their own.
LEMMA SameSessions ==
  ASSUME ServerInv, UNCHANGED <<clients, auth, joined>>
  PROVE  SessionIsOwn'
BY DEF ServerInv, SessionIsOwn

\* The slot of the connection being served gets another login, room or flag.
LEMMA UpdatedSlot ==
  ASSUME ServerInv, serving # NoFd, UNCHANGED <<epolled, open>>,
         NEW x \in Slot, x.fd = serving, clients' = [clients EXCEPT ![me] = x]
  PROVE  TableInSync' /\ clients' \in [Slots -> Slot]
<1>1. clients' \in [Slots -> Slot]
  BY Served DEF ServerInv, TypeOK
<1>2. \A s \in Slots : clients'[s].fd = clients[s].fd
  BY Served DEF ServerInv, TypeOK
<1>3. \A s, t \in Slots : clients'[s].fd = clients'[t].fd /\ clients'[s].fd # NoFd => s = t
  BY <1>2 DEF ServerInv, TableInSync
<1>4. {clients'[s].fd : s \in Slots} \ {NoFd} = open'
  BY <1>2 DEF ServerInv, TableInSync
<1>5. \A s \in Slots : clients'[s].fd = NoFd => clients'[s] = Free
  BY <1>2, Served DEF ServerInv, TableInSync, TypeOK
<1> QED BY <1>1, <1>3, <1>4, <1>5 DEF ServerInv, TableInSync, Slots

\* A new login or room goes to the slot of the connection that sent it.
LEMMA UpdatedSession ==
  ASSUME ServerInv, serving # NoFd,
         NEW x \in Slot, x.fd = serving, clients' = [clients EXCEPT ![me] = x],
         x.user = auth'[serving], x.room = joined'[serving], x.room # 0 => x.user # 0,
         \A f \in Fds \ {serving} : auth'[f] = auth[f] /\ joined'[f] = joined[f]
  PROVE  SessionIsOwn'
<1> SUFFICES ASSUME NEW s \in Slots, clients'[s].fd # NoFd
             PROVE  /\ clients'[s].user = auth'[clients'[s].fd]
                    /\ clients'[s].room = joined'[clients'[s].fd]
                    /\ clients'[s].room # 0 => clients'[s].user # 0
  BY DEF SessionIsOwn, Slots
<1>1. CASE s = me
  BY <1>1, Served DEF ServerInv, TypeOK
<1>2. CASE s # me
  <2>1. clients'[s] = clients[s] /\ clients[s].fd \in Fds \ {serving}
    BY <1>2, Served DEF ServerInv, TypeOK, Slot
  <2> QED BY <2>1 DEF ServerInv, SessionIsOwn
<1> QED BY <1>1, <1>2

\* remove_client and close: the slot is free again and nothing is left of
\* the session.
LEMMA Closed ==
  ASSUME ServerInv, NEW f \in Fds, Close(f), UNCHANGED <<auth, joined>>
  PROVE  /\ TableInSync' /\ SessionIsOwn' /\ clients' \in [Slots -> Slot]
         /\ epolled' \subseteq Fds \union {Listen} /\ open' \subseteq Fds
         /\ inq' \in [Fds -> Seq(Requests \union {Hello})] /\ eof' \in [Fds -> BOOLEAN]
         /\ unread' \in [Fds -> Nat] /\ wire' = {}
<1>1. Free \in Slot /\ Free.fd = NoFd
  BY DEF Free, Slot
<1>2. \A s \in Slots : clients'[s] = IF clients[s].fd = f THEN Free ELSE clients[s]
  <2>1. CASE SlotsOf(f) = {}
    BY <2>1 DEF Close, RemoveClient, SlotsOf
  <2>2. CASE SlotsOf(f) # {}
    <3>1. /\ SlotOf(f) \in Slots /\ clients[SlotOf(f)].fd = f
          /\ \A s \in Slots : clients[s].fd = f => s = SlotOf(f)
      BY <2>2, SlotOfOpen DEF ServerInv
    <3>2. clients' = [clients EXCEPT ![SlotOf(f)] = Free]
      BY <2>2 DEF Close, RemoveClient
    <3> QED BY <3>1, <3>2 DEF ServerInv, TypeOK
  <2> QED BY <2>1, <2>2
<1>3. clients' \in [Slots -> Slot]
  <2>1. clients' = clients \/ clients' = [clients EXCEPT ![SlotOf(f)] = Free]
    BY DEF Close, RemoveClient
  <2> QED BY <2>1, <1>1 DEF ServerInv, TypeOK
<1>4. TableInSync'
  <2>1. \A s, t \in Slots : clients'[s].fd = clients'[t].fd /\ clients'[s].fd # NoFd => s = t
    BY <1>1, <1>2 DEF ServerInv, TableInSync
  <2>2. {clients'[s].fd : s \in Slots} \ {NoFd} = open'
    <3>1. {clients'[s].fd : s \in Slots} \ {NoFd} = ({clients[s].fd : s \in Slots} \ {NoFd}) \ {f}
      BY <1>1, <1>2, FdsAssumption
    <3> QED BY <3>1 DEF ServerInv, TableInSync, Close
  <2>3. epolled' = open' \union {Listen}
    BY FdsAssumption DEF Close, ServerInv, TableInSync
  <2>4. \A s \in Slots : clients'[s].fd = NoFd => clients'[s] = Free
    BY <1>2 DEF ServerInv, TableInSync
  <2> QED BY <2>1, <2>2, <2>3, <2>4 DEF TableInSync, Slots
<1>5. SessionIsOwn'
  BY <1>1, <1>2 DEF ServerInv, SessionIsOwn, Slots
<1>6. /\ inq' \in [Fds -> Seq(Requests \union {Hello})] /\ eof' \in [Fds -> BOOLEAN]
      /\ unread' \in [Fds -> Nat] /\ wire' = {}
  BY DEF Close, ServerInv, TypeOK
<1> QED BY <1>3, <1>4, <1>5, <1>6 DEF Close, ServerInv, TypeOK

\* A new connection takes a free slot, or is closed at once.
LEMMA Added ==
  ASSUME ServerInv, NEW f \in Fds \ open, AddClient(f),
         auth' = [auth EXCEPT ![f] = 0], joined' = [joined EXCEPT ![f] = 0]
  PROVE  /\ TableInSync' /\ SessionIsOwn' /\ clients' \in [Slots -> Slot]
         /\ epolled \subseteq epolled' /\ open \subseteq open'
         /\ epolled' \subseteq Fds \union {Listen} /\ open' \subseteq Fds
         /\ inq' \in [Fds -> Seq(Requests \union {Hello})]
<1>1. f # NoFd /\ \A s \in Slots : clients[s].fd # f
  BY FdsAssumption DEF ServerInv, TableInSync
<1>2. CASE SlotsOf(NoFd) = {}
  <2>1. UNCHANGED <<clients, epolled, open, inq>>
    BY <1>2 DEF AddClient
  <2>2. SessionIsOwn'
    BY <2>1, <1>1 DEF ServerInv, SessionIsOwn, TypeOK, Slot, Slots
  <2>3. TableInSync' /\ clients' \in [Slots -> Slot]
    BY <2>1, SameTable DEF table
  <2> QED BY <2>1, <2>2, <2>3 DEF ServerInv, TypeOK
<1>3. CASE SlotsOf(NoFd) # {}
  <2> DEFINE n == SlotOf(NoFd)
             x == [Free EXCEPT !.fd = f]
  <2>1. n \in Slots /\ clients[n].fd = NoFd
    BY <1>3, SlotOfFree
  <2>2. x \in Slot /\ x.fd = f /\ x.user = 0 /\ x.room = 0
    <3>1. Free \in Slot /\ Free.user = 0 /\ Free.room = 0
      BY DEF Free, Slot
    <3> QED BY <3>1 DEF Slot
  <2>3. /\ clients' = [clients EXCEPT ![n] = x]
        /\ epolled' = epolled \union {f} /\ open' = open \union {f}
        /\ inq' = [inq EXCEPT ![f] = <<Hello>>]
    BY <1>3 DEF AddClient
  <2> HIDE DEF n, x
  <2>4. clients' \in [Slots -> Slot] /\ \A s \in Slots : clients'[s] = IF s = n THEN x ELSE clients[s]
    BY <2>1, <2>2, <2>3 DEF ServerInv, TypeOK
  <2>5. TableInSync'
    <3>1. \A s, t \in Slots : clients'[s].fd = clients'[t].fd /\ clients'[s].fd # NoFd => s = t
      BY <1>1, <2>2, <2>4 DEF ServerInv, TableInSync
    <3>2. {clients'[s].fd : s \in Slots} \ {NoFd} = ({clients[s].fd : s \in Slots} \ {NoFd}) \union {f}
      BY <1>1, <2>1, <2>2, <2>4
    <3>3. {clients'[s].fd : s \in Slots} \ {NoFd} = open'
      BY <3>2, <2>3 DEF ServerInv, TableInSync
    <3>4. \A s \in Slots : clients'[s].fd = NoFd => clients'[s] = Free
      BY <1>1, <2>2, <2>4 DEF ServerInv, TableInSync
    <3>5. epolled' = open' \union {Listen}
      BY <2>3 DEF ServerInv, TableInSync
    <3> QED BY <3>1, <3>3, <3>4, <3>5 DEF TableInSync, Slots
  <2>6. SessionIsOwn'
    <3>1. \A s \in Slots : clients[s].fd # NoFd => clients[s].fd \in Fds \ {f}
      BY <1>1 DEF ServerInv, TypeOK, Slot
    <3> QED BY <3>1, <1>1, <2>2, <2>4 DEF ServerInv, SessionIsOwn, TypeOK, Slots
  <2>7. inq' \in [Fds -> Seq(Requests \union {Hello})]
    BY <2>3 DEF ServerInv, TypeOK
  <2> QED BY <2>3, <2>4, <2>5, <2>6, <2>7 DEF ServerInv, TypeOK
<1> QED BY <1>2, <1>3

--------------------------------------------------------------------------------
(* Each action keeps the invariant, and only HandleRelay passes something  *)
(* from one connection to another.                                         *)

NothingRelayed == \A d \in wire : d.msg.type \notin Relayed

AckedOK ==
  acked \in [1..MaxProjects -> SUBSET (Canvases \union {Blank})] /\ vain \subseteq Nat

\* The actions of handle_message that end with Handled.
LEMMA HandledInv ==
  ASSUME ServerInv, serving # NoFd, Handled,
         DbTypeOK', TableInSync', SessionIsOwn', clients' \in [Slots -> Slot],
         unread' \in [Fds -> Nat], wire' \subseteq [to : Fds, msg : Messages],
         auth' \in [Fds -> Nat], joined' \in [Fds -> Nat], AckedOK'
  PROVE  ServerInv'
<1>1. TypeOK'
  BY HandledStep DEF Handled, ServerInv, TypeOK, AckedOK, Slots
<1> QED BY <1>1, HandledStep DEF ServerInv

\* The steps that do not serve a connection and leave the table alone.
LEMMA IdleInv ==
  ASSUME ServerInv, UNCHANGED <<clients, epolled, open, serving, batch, ghosts>>,
         up' \in BOOLEAN,
         DbTypeOK', unread' \in [Fds -> Nat], wire' = {},
         pending' \in Nat, pending' >= pending,
         inq' \in [Fds -> Seq(Requests \union {Hello})], eof' \in [Fds -> BOOLEAN],
         events' = events
  PROVE  ServerInv' /\ NothingRelayed'
<1>1. TypeOK'
  BY DEF ServerInv, TypeOK, ghosts, Slots
<1>2. TableInSync' /\ SessionIsOwn'
  BY SameTable, SameSessions DEF ghosts
<1>3. EventsInSync'
  BY DEF ServerInv, TypeOK, EventsInSync
<1> QED BY <1>1, <1>2, <1>3 DEF ServerInv, NothingRelayed

\* A peer connects.
LEMMA ConnectStep ==
  ASSUME ServerInv, Connect
  PROVE  ServerInv' /\ NothingRelayed'
<1>1. DbTypeOK'
  BY DEF Connect, ServerInv, TypeOK, DbTypeOK, dbVars
<1>2. pending' \in Nat /\ pending' >= pending /\ events' = events
  BY DEF Connect, ServerInv, TypeOK, loop
<1>3. UNCHANGED <<clients, epolled, open, serving, batch, ghosts>> /\ up' \in BOOLEAN
  BY DEF Connect, table, loop, ServerInv, TypeOK
<1>4. /\ unread' \in [Fds -> Nat] /\ wire' = {}
      /\ inq' \in [Fds -> Seq(Requests \union {Hello})] /\ eof' \in [Fds -> BOOLEAN]
  BY DEF Connect, Quiet, ServerInv, TypeOK
<1> QED BY <1>1, <1>2, <1>3, <1>4, IdleInv

\* A peer sends a message.
LEMMA PeerSendStep ==
  ASSUME ServerInv, NEW f \in Fds, NEW m \in Requests, PeerSend(f, m)
  PROVE  ServerInv' /\ NothingRelayed'
<1>1. DbTypeOK'
  BY DEF PeerSend, ServerInv, TypeOK, DbTypeOK, dbVars
<1>2. pending' \in Nat /\ pending' >= pending /\ events' = events
  BY DEF PeerSend, ServerInv, TypeOK, loop
<1>3. UNCHANGED <<clients, epolled, open, serving, batch, ghosts>> /\ up' \in BOOLEAN
  BY DEF PeerSend, table, loop, ServerInv, TypeOK
<1>4. Append(inq[f], m) \in Seq(Requests \union {Hello})
  BY AppendProperties DEF ServerInv, TypeOK
<1>5. /\ unread' \in [Fds -> Nat] /\ wire' = {}
      /\ inq' \in [Fds -> Seq(Requests \union {Hello})] /\ eof' \in [Fds -> BOOLEAN]
  BY <1>4 DEF PeerSend, Quiet, ServerInv, TypeOK
<1> QED BY <1>1, <1>2, <1>3, <1>5, IdleInv

\* A peer closes its end.
LEMMA PeerCloseStep ==
  ASSUME ServerInv, NEW f \in Fds, NEW left, PeerClose(f, left)
  PROVE  ServerInv' /\ NothingRelayed'
<1>1. DbTypeOK'
  BY DEF PeerClose, ServerInv, TypeOK, DbTypeOK, dbVars
<1>2. pending' \in Nat /\ pending' >= pending /\ events' = events
  BY DEF PeerClose, ServerInv, TypeOK, loop
<1>3. UNCHANGED <<clients, epolled, open, serving, batch, ghosts>> /\ up' \in BOOLEAN
  BY DEF PeerClose, table, loop, ServerInv, TypeOK
<1>4. left \in Seq(Requests \union {Hello})
  BY EmptySeq DEF PeerClose, ServerInv, TypeOK
<1>5. /\ unread' \in [Fds -> Nat] /\ wire' = {}
      /\ inq' \in [Fds -> Seq(Requests \union {Hello})] /\ eof' \in [Fds -> BOOLEAN]
  BY <1>4 DEF PeerClose, Quiet, ServerInv, TypeOK
<1> QED BY <1>1, <1>2, <1>3, <1>5, IdleInv

\* A peer reads what was sent to it.
LEMMA PeerTakeStep ==
  ASSUME ServerInv, NEW f \in Fds, PeerTake(f)
  PROVE  ServerInv' /\ NothingRelayed'
<1>1. DbTypeOK'
  BY DEF PeerTake, ServerInv, TypeOK, DbTypeOK, dbVars
<1>2. pending' \in Nat /\ pending' >= pending /\ events' = events
  BY DEF PeerTake, ServerInv, TypeOK, loop
<1>3. UNCHANGED <<clients, epolled, open, serving, batch, ghosts>> /\ up' \in BOOLEAN
  BY DEF PeerTake, table, loop, ServerInv, TypeOK
<1>4. /\ unread' \in [Fds -> Nat] /\ wire' = {}
      /\ inq' \in [Fds -> Seq(Requests \union {Hello})] /\ eof' \in [Fds -> BOOLEAN]
  BY DEF PeerTake, ServerInv, TypeOK
<1> QED BY <1>1, <1>2, <1>3, <1>4, IdleInv

\* The database goes away or comes back.
LEMMA DatabaseStep ==
  ASSUME ServerInv, Database
  PROVE  ServerInv' /\ NothingRelayed' /\ projects' = projects
<1>1. DbTypeOK' /\ projects' = projects
  BY DEF Database, DbDown, DbUp, DbIdle, ServerInv, TypeOK, DbTypeOK
<1>2. pending' \in Nat /\ pending' >= pending /\ events' = events
  BY DEF Database, ServerInv, TypeOK, loop
<1>3. UNCHANGED <<clients, epolled, open, serving, batch, ghosts>> /\ up' \in BOOLEAN
  BY DEF Database, table, loop, ServerInv, TypeOK
<1>4. /\ unread' \in [Fds -> Nat] /\ wire' = {}
      /\ inq' \in [Fds -> Seq(Requests \union {Hello})] /\ eof' \in [Fds -> BOOLEAN]
  BY DEF Database, Quiet, ServerInv, TypeOK
<1> QED BY <1>1, <1>2, <1>3, <1>4, IdleInv

\* epoll_wait reports descriptors that are open and ready.
LEMMA EpollWaitStep ==
  ASSUME ServerInv, EpollWait
  PROVE  ServerInv' /\ NothingRelayed'
<1>1. TypeOK'
  <2>1. events' \subseteq Fds \union {Listen}
    BY DEF EpollWait, Ready, ServerInv, TypeOK
  <2>2. DbTypeOK'
    BY DEF EpollWait, ServerInv, TypeOK, DbTypeOK, dbVars
  <2> QED BY <2>1, <2>2 DEF EpollWait, Quiet, ServerInv, TypeOK, table, ghosts, Slots
<1>2. TableInSync' /\ SessionIsOwn'
  BY SameTable, SameSessions DEF EpollWait, table, ghosts
<1>3. EventsInSync'
  BY FdsAssumption DEF EpollWait, Ready, ServerInv, EventsInSync, table, TypeOK
<1> QED BY <1>1, <1>2, <1>3 DEF ServerInv, EpollWait, Quiet, NothingRelayed

\* accept: the new descriptor takes a slot or is closed.
LEMMA AcceptStep ==
  ASSUME ServerInv, NEW f \in Fds, Accept(f)
  PROVE  ServerInv' /\ NothingRelayed'
<1>1. /\ TableInSync' /\ SessionIsOwn' /\ clients' \in [Slots -> Slot]
      /\ epolled \subseteq epolled' /\ open \subseteq open'
      /\ epolled' \subseteq Fds \union {Listen} /\ open' \subseteq Fds
      /\ inq' \in [Fds -> Seq(Requests \union {Hello})]
  BY Added DEF Accept
<1>2. pending > 0
  BY DEF Accept, ServerInv, EventsInSync
<1>3. TypeOK'
  <2>1. DbTypeOK'
    BY DEF Accept, ServerInv, TypeOK, DbTypeOK, dbVars
  <2>2. auth' \in [Fds -> Nat] /\ joined' \in [Fds -> Nat] /\ pending' \in Nat
    BY <1>2 DEF Accept, ServerInv, TypeOK
  <2> QED BY <1>1, <2>1, <2>2 DEF Accept, Quiet, ServerInv, TypeOK, Slots
<1>4. EventsInSync'
  BY <1>1, FdsAssumption DEF Accept, ServerInv, EventsInSync
<1> QED BY <1>1, <1>3, <1>4 DEF ServerInv, Accept, Quiet, NothingRelayed

\* accept fails: the event is dropped.
LEMMA AcceptFailsStep ==
  ASSUME ServerInv, AcceptFails
  PROVE  ServerInv' /\ NothingRelayed'
<1>1. TypeOK'
  <2>1. DbTypeOK'
    BY DEF AcceptFails, ServerInv, TypeOK, DbTypeOK, dbVars
  <2> QED BY <2>1 DEF AcceptFails, Quiet, ServerInv, TypeOK, table, ghosts, Slots
<1>2. TableInSync' /\ SessionIsOwn'
  BY SameTable, SameSessions DEF AcceptFails, table, ghosts
<1>3. EventsInSync'
  BY DEF AcceptFails, ServerInv, EventsInSync, table
<1> QED BY <1>1, <1>2, <1>3 DEF ServerInv, AcceptFails, Quiet, NothingRelayed

\* recv returns 0 or an error: the connection is removed.
LEMMA ReadEndsStep ==
  ASSUME ServerInv, NEW f \in Fds, ReadEnds(f)
  PROVE  ServerInv' /\ NothingRelayed'
<1>1. /\ TableInSync' /\ SessionIsOwn' /\ clients' \in [Slots -> Slot]
      /\ epolled' \subseteq Fds \union {Listen} /\ open' \subseteq Fds
      /\ inq' \in [Fds -> Seq(Requests \union {Hello})] /\ eof' \in [Fds -> BOOLEAN]
      /\ unread' \in [Fds -> Nat] /\ wire' = {}
  BY Closed DEF ReadEnds, ghosts
<1>2. TypeOK'
  <2>1. DbTypeOK'
    BY DEF ReadEnds, ServerInv, TypeOK, DbTypeOK, dbVars
  <2> QED BY <1>1, <2>1 DEF ReadEnds, ServerInv, TypeOK, ghosts, Slots
<1>3. EventsInSync'
  BY DEF ReadEnds, Close, ServerInv, EventsInSync
<1> QED BY <1>1, <1>2, <1>3 DEF ServerInv, NothingRelayed

\* recv returns messages: the connection is served.
LEMMA ReadFramesStep ==
  ASSUME ServerInv, NEW f \in Fds, NEW n \in 1..MaxIn, ReadFrames(f, n)
  PROVE  ServerInv' /\ NothingRelayed'
<1>1. inq[f] \in Seq(Requests \union {Hello}) /\ n \in 1..Len(inq[f])
  BY DEF ReadFrames, ServerInv, TypeOK
<1>2. batch' \in Seq(Requests \union {Hello}) /\ batch' # <<>>
  <2>1. \A i \in 1..n : inq[f][i] \in Requests \union {Hello}
    BY <1>1, ElementOfSeq
  <2>2. SubSeq(inq[f], 1, n) \in Seq(Requests \union {Hello}) /\ Len(SubSeq(inq[f], 1, n)) = n
    BY <1>1, <2>1, SubSeqProperties
  <2> QED BY <1>1, <2>2 DEF ReadFrames
<1>3. inq' \in [Fds -> Seq(Requests \union {Hello})]
  <2>1. \A i \in n + 1..Len(inq[f]) : inq[f][i] \in Requests \union {Hello}
    BY <1>1, ElementOfSeq
  <2>2. SubSeq(inq[f], n + 1, Len(inq[f])) \in Seq(Requests \union {Hello})
    BY <1>1, <2>1, SubSeqProperties
  <2> QED BY <2>2 DEF ReadFrames, ServerInv, TypeOK
<1>4. TypeOK'
  <2>1. DbTypeOK'
    BY DEF ReadFrames, ServerInv, TypeOK, DbTypeOK, dbVars
  <2> QED BY <1>2, <1>3, <2>1 DEF ReadFrames, Quiet, ServerInv, TypeOK, table, ghosts, Slots
<1>5. TableInSync' /\ SessionIsOwn'
  BY SameTable, SameSessions DEF ReadFrames, table, ghosts
<1>6. EventsInSync'
  <2>1. f \in open /\ f # NoFd
    BY FdsAssumption DEF ReadFrames, ServerInv, EventsInSync, TableInSync
  <2> QED BY <1>2, <2>1 DEF ReadFrames, ServerInv, EventsInSync, table
<1> QED BY <1>4, <1>5, <1>6 DEF ServerInv, ReadFrames, Quiet, NothingRelayed

\* The handshake marks the slot of its connection, and nothing else.
LEMMA HelloStep ==
  ASSUME ServerInv, HandleHello
  PROVE  ServerInv' /\ NothingRelayed'
<1>1. serving # NoFd
  BY DEF HandleHello, Handling
<1> DEFINE x == [clients[me] EXCEPT !.shaken = TRUE]
<1>2. clients[me] \in Slot
  BY <1>1, Served DEF ServerInv, TypeOK
<1>3. /\ x \in Slot /\ x.fd = serving
      /\ x.user = clients[me].user /\ x.room = clients[me].room
  BY <1>1, <1>2, Served DEF Slot
<1>4. clients' = [clients EXCEPT ![me] = x] /\ UNCHANGED <<epolled, open, auth, joined>>
  BY DEF HandleHello, ghosts
<1>5. clients[me].user = auth[serving] /\ clients[me].room = joined[serving]
      /\ (clients[me].room # 0 => clients[me].user # 0)
  BY <1>1, Served DEF ServerInv, SessionIsOwn
<1> HIDE DEF x
<1>6. TableInSync' /\ clients' \in [Slots -> Slot]
  BY <1>1, <1>3, <1>4, UpdatedSlot
<1>7. SessionIsOwn'
  BY <1>1, <1>3, <1>4, <1>5, UpdatedSession
<1>8. unread' \in [Fds -> Nat] /\ wire' \subseteq [to : Fds, msg : Messages] /\ NothingRelayed'
  BY <1>1, Served, ReplyType DEF HandleHello, ServerInv, NothingRelayed
<1>9. TypeOK'
  <2>1. DbTypeOK'
    BY DEF HandleHello, ServerInv, TypeOK, DbTypeOK, dbVars
  <2>2. <<>> \in Seq(Requests \union {Hello})
    BY EmptySeq
  <2> QED BY <1>6, <1>8, <2>1, <2>2 DEF HandleHello, ServerInv, TypeOK, ghosts, Slots
<1>10. EventsInSync'
  BY <1>1, FdsAssumption DEF HandleHello, ServerInv, EventsInSync, TypeOK
<1> QED BY <1>6, <1>7, <1>8, <1>9, <1>10 DEF ServerInv

\* A frame longer than the buffer removes the connection.
LEMMA HugeStep ==
  ASSUME ServerInv, HandleHuge
  PROVE  ServerInv' /\ NothingRelayed'
<1>1. serving # NoFd
  BY DEF HandleHuge, Handling
<1>2. /\ TableInSync' /\ SessionIsOwn' /\ clients' \in [Slots -> Slot]
      /\ epolled' \subseteq Fds \union {Listen} /\ open' \subseteq Fds
      /\ inq' \in [Fds -> Seq(Requests \union {Hello})] /\ eof' \in [Fds -> BOOLEAN]
      /\ unread' \in [Fds -> Nat] /\ wire' = {}
  BY <1>1, Served, Closed DEF HandleHuge, ghosts
<1>3. TypeOK'
  <2>1. DbTypeOK'
    BY DEF HandleHuge, ServerInv, TypeOK, DbTypeOK, dbVars
  <2>2. <<>> \in Seq(Requests \union {Hello})
    BY EmptySeq
  <2> QED BY <1>2, <2>1, <2>2 DEF HandleHuge, ServerInv, TypeOK, ghosts, Slots
<1>4. EventsInSync'
  <2>1. serving \notin events /\ NoFd \notin events
    BY <1>1, Served, FdsAssumption DEF ServerInv, TypeOK
  <2> QED BY <2>1 DEF HandleHuge, Close, ServerInv, EventsInSync
<1> QED BY <1>2, <1>3, <1>4 DEF ServerInv, NothingRelayed

\* The end of the process frees every slot and closes every connection.
LEMMA EndsStep ==
  ASSUME ServerInv, ProcessEnds
  PROVE  ServerInv' /\ NothingRelayed'
<1>1. TypeOK'
  <2>1. <<>> \in Seq(Requests \union {Hello})
    BY EmptySeq
  <2>2. Free \in Slot
    BY DEF Free, Slot
  <2>3. DbTypeOK'
    BY DEF ProcessEnds, ServerInv, TypeOK, DbTypeOK, dbVars
  <2> QED BY <2>1, <2>2, <2>3 DEF ProcessEnds, ServerInv, TypeOK, ghosts, Slots
<1>2. TableInSync' /\ SessionIsOwn'
  BY DEF ProcessEnds, Free, TableInSync, SessionIsOwn, Slots
<1>3. EventsInSync'
  BY DEF ProcessEnds, EventsInSync
<1> QED BY <1>1, <1>2, <1>3 DEF ServerInv, ProcessEnds, NothingRelayed

\* The server is started again, with an empty table.
LEMMA StartStep ==
  ASSUME ServerInv, Start
  PROVE  ServerInv' /\ NothingRelayed'
<1>1. DbTypeOK'
  BY DEF Start, DbConnect, ServerInv, TypeOK, DbTypeOK
<1>2. pending' \in Nat /\ pending' >= pending /\ events' = events
  BY DEF Start, ServerInv, TypeOK, loop
<1>3. UNCHANGED <<clients, epolled, open, serving, batch, ghosts>> /\ up' \in BOOLEAN
  BY DEF Start, loop
<1>4. /\ unread' \in [Fds -> Nat] /\ wire' = {}
      /\ inq' \in [Fds -> Seq(Requests \union {Hello})] /\ eof' \in [Fds -> BOOLEAN]
  BY DEF Start, Quiet, ServerInv, TypeOK
<1> QED BY <1>1, <1>2, <1>3, <1>4, IdleInv

\* A login or registration without a name is refused, or ends the process.
LEMMA NoNameStep ==
  ASSUME ServerInv, HandleNoName
  PROVE  /\ ServerInv' /\ NothingRelayed'
         /\ ProcessEnds \/ UNCHANGED <<dbVars, clients, open, ghosts>>
<1>1. CASE ProcessEnds
  BY <1>1, EndsStep
<1>2. CASE ~ProcessEnds
  <2>1. /\ serving # NoFd /\ Handled /\ UNCHANGED <<dbVars, clients, ghosts>>
        /\ Reply(Head(batch).resp, FALSE) /\ Head(batch).type = "no_name"
    BY <1>2 DEF HandleNoName, Handling
  <2>2. Head(batch).resp \in {"login_resp", "register_resp"}
    BY <2>1, Served, RequestShape
  <2>3. unread' \in [Fds -> Nat] /\ wire' \subseteq [to : Fds, msg : Messages] /\ NothingRelayed'
    BY <2>1, <2>2, Served, ReplyType DEF ServerInv, NothingRelayed
  <2>4. TableInSync' /\ SessionIsOwn' /\ clients' \in [Slots -> Slot]
    BY <2>1, SameTable, SameSessions DEF Handled, ghosts
  <2>5. DbTypeOK' /\ AckedOK' /\ auth' \in [Fds -> Nat] /\ joined' \in [Fds -> Nat]
    BY <2>1 DEF ServerInv, TypeOK, AckedOK, DbTypeOK, dbVars, ghosts
  <2> QED BY <2>1, <2>3, <2>4, <2>5, HandledInv DEF Handled
<1> QED BY <1>1, <1>2

\* A message of no known type changes nothing; one without its fields is
\* answered at most.
LEMMA OtherStep ==
  ASSUME ServerInv, HandleOther
  PROVE  ServerInv' /\ NothingRelayed'
<1>1. /\ serving # NoFd /\ Handled /\ UNCHANGED <<dbVars, clients, ghosts>>
      /\ Quiet \/ Reply("register_resp", FALSE)
  BY DEF HandleOther, Handling
<1>2. TableInSync' /\ SessionIsOwn' /\ clients' \in [Slots -> Slot]
  BY <1>1, SameTable, SameSessions DEF Handled, ghosts
<1>3. DbTypeOK' /\ AckedOK' /\ auth' \in [Fds -> Nat] /\ joined' \in [Fds -> Nat]
  BY <1>1 DEF ServerInv, TypeOK, AckedOK, DbTypeOK, dbVars, ghosts
<1>4. unread' \in [Fds -> Nat] /\ wire' \subseteq [to : Fds, msg : Messages] /\ NothingRelayed'
  <2>1. CASE Quiet
    BY <2>1 DEF Quiet, ServerInv, TypeOK, NothingRelayed
  <2>2. CASE Reply("register_resp", FALSE)
    BY <1>1, <2>2, Served, ReplyType DEF ServerInv, NothingRelayed
  <2> QED BY <1>1, <2>1, <2>2
<1> QED BY <1>1, <1>2, <1>3, <1>4, HandledInv

\* A login goes to the slot of its own connection.
LEMMA LoginStep ==
  ASSUME ServerInv, HandleLogin
  PROVE  ServerInv' /\ NothingRelayed' /\ projects' = projects
<1>1. serving # NoFd /\ Handled /\ Head(batch).type = "login" /\ UNCHANGED <<joined, acked, vain>>
  BY DEF HandleLogin, Handling
<1>2. PICK id \in 0..Cardinality(Users) :
        /\ DbLogin(Head(batch).user, Head(batch).good, id)
        /\ clients' = IF id > 0 THEN [clients EXCEPT ![me].user = id] ELSE clients
        /\ auth' = IF id > 0 THEN [auth EXCEPT ![serving] = id] ELSE auth
        /\ Reply("login_resp", id > 0)
  BY DEF HandleLogin
<1>3. DbTypeOK' /\ projects' = projects /\ id \in Nat
  BY <1>1, <1>2, Served, RequestShape, LoginType DEF ServerInv, TypeOK
<1>4. unread' \in [Fds -> Nat] /\ wire' \subseteq [to : Fds, msg : Messages] /\ NothingRelayed'
  <2>1. PICK ok \in BOOLEAN : Reply("login_resp", ok)
    <3>1. (id > 0) \in BOOLEAN
      OBVIOUS
    <3> QED BY <1>2, <3>1, Zenon
  <2> QED BY <1>1, <2>1, Served, ReplyType DEF ServerInv, NothingRelayed
<1>5. TableInSync' /\ SessionIsOwn' /\ clients' \in [Slots -> Slot] /\ auth' \in [Fds -> Nat]
  <2>1. CASE id > 0
    <3> DEFINE x == [clients[me] EXCEPT !.user = id]
    <3>1. clients[me] \in Slot
      BY <1>1, Served DEF ServerInv, TypeOK
    <3>2. x \in Slot /\ x.fd = serving /\ x.user = id /\ x.room = clients[me].room
      BY <1>1, <1>3, <3>1, Served DEF Slot
    <3>3. clients' = [clients EXCEPT ![me] = x] /\ auth' = [auth EXCEPT ![serving] = id]
      BY <1>2, <2>1
    <3>4. /\ auth'[serving] = id /\ \A f \in Fds \ {serving} : auth'[f] = auth[f]
          /\ joined' = joined /\ clients[me].room = joined[serving] /\ auth' \in [Fds -> Nat]
      BY <1>1, <1>3, <3>3, Served DEF ServerInv, SessionIsOwn, TypeOK
    <3> HIDE DEF x
    <3>5. TableInSync' /\ clients' \in [Slots -> Slot]
      BY <1>1, <3>2, <3>3, UpdatedSlot DEF Handled
    <3>6. /\ x.user = auth'[serving] /\ x.room = joined'[serving] /\ x.user # 0
          /\ \A f \in Fds \ {serving} : auth'[f] = auth[f] /\ joined'[f] = joined[f]
      BY <2>1, <1>3, <3>2, <3>4
    <3>7. SessionIsOwn'
      BY <1>1, <3>2, <3>3, <3>6, UpdatedSession
    <3> QED BY <3>4, <3>5, <3>7
  <2>2. CASE ~(id > 0)
    BY <1>1, <1>2, <2>2, SameTable, SameSessions DEF Handled, table, ServerInv, TypeOK
  <2> QED BY <2>1, <2>2
<1>6. joined' \in [Fds -> Nat] /\ AckedOK'
  BY <1>1 DEF ServerInv, TypeOK, AckedOK
<1> QED BY <1>1, <1>3, <1>4, <1>5, <1>6, HandledInv

\* A registration changes no session.
LEMMA RegisterStep ==
  ASSUME ServerInv, HandleRegister
  PROVE  ServerInv' /\ NothingRelayed' /\ projects' = projects
<1>1. serving # NoFd /\ Handled /\ Head(batch).type = "register" /\ UNCHANGED <<clients, ghosts>>
  BY DEF HandleRegister, Handling
<1>2. PICK ok \in BOOLEAN : DbRegister(Head(batch).user, ok) /\ Reply("register_resp", ok)
  BY DEF HandleRegister
<1>3. DbTypeOK' /\ projects' = projects
  BY <1>1, <1>2, Served, RequestShape, RegisterType DEF ServerInv, TypeOK
<1>4. unread' \in [Fds -> Nat] /\ wire' \subseteq [to : Fds, msg : Messages] /\ NothingRelayed'
  BY <1>1, <1>2, Served, ReplyType DEF ServerInv, NothingRelayed
<1>5. TableInSync' /\ SessionIsOwn' /\ clients' \in [Slots -> Slot]
  BY <1>1, SameTable, SameSessions DEF Handled, table, ghosts
<1>6. /\ auth' \in [Fds -> Nat] /\ joined' \in [Fds -> Nat]
      /\ AckedOK'
  BY <1>1 DEF ghosts, ServerInv, TypeOK, AckedOK
<1> QED BY <1>1, <1>3, <1>4, <1>5, <1>6, HandledInv

\* The room list changes no session.
LEMMA ListRoomsStep ==
  ASSUME ServerInv, HandleListRooms
  PROVE  ServerInv' /\ NothingRelayed' /\ projects' = projects
<1>1. serving # NoFd /\ Handled /\ UNCHANGED <<clients, ghosts>>
  BY DEF HandleListRooms, Handling
<1>2. \/ Reply("error", FALSE) /\ UNCHANGED dbVars
      \/ \E ok \in BOOLEAN : DbGetProjects(ok) /\ Reply("room_list", ok)
  BY DEF HandleListRooms
<1>3. DbTypeOK' /\ projects' = projects
  BY <1>2, GetProjectsType DEF ServerInv, TypeOK, DbTypeOK, dbVars
<1>4. unread' \in [Fds -> Nat] /\ wire' \subseteq [to : Fds, msg : Messages] /\ NothingRelayed'
  BY <1>1, <1>2, Served, ReplyType DEF ServerInv, NothingRelayed
<1>5. TableInSync' /\ SessionIsOwn' /\ clients' \in [Slots -> Slot]
  BY <1>1, SameTable, SameSessions DEF Handled, table, ghosts
<1>6. /\ auth' \in [Fds -> Nat] /\ joined' \in [Fds -> Nat]
      /\ AckedOK'
  BY <1>1 DEF ghosts, ServerInv, TypeOK, AckedOK
<1> QED BY <1>1, <1>3, <1>4, <1>5, <1>6, HandledInv

\* A new room is a new row; the creator is not in it yet.
LEMMA CreateRoomStep ==
  ASSUME ServerInv, HandleCreateRoom
  PROVE  /\ ServerInv' /\ NothingRelayed' /\ UNCHANGED <<acked, vain>>
         /\ \/ projects' = projects
            \/ /\ Len(projects) < MaxProjects
               /\ \E uid \in Nat :
                    projects' = Append(projects, [owner |-> uid, canvas |-> Blank])
<1>1. serving # NoFd /\ Handled /\ UNCHANGED <<clients, ghosts>>
  BY DEF HandleCreateRoom, Handling
<1>2. \/ Quiet /\ UNCHANGED dbVars
      \/ \E ok \in BOOLEAN : DbCreateProject(clients[me].user, ok) /\ Reply("create_room_resp", ok)
  BY DEF HandleCreateRoom
<1>3. clients[me].user \in Nat
  BY <1>1, Served DEF ServerInv, TypeOK, Slot
<1>4. CASE Quiet /\ UNCHANGED dbVars
  <2>1. DbTypeOK' /\ projects' = projects
    BY <1>4 DEF ServerInv, TypeOK, DbTypeOK, dbVars
  <2>2. unread' \in [Fds -> Nat] /\ wire' \subseteq [to : Fds, msg : Messages] /\ NothingRelayed'
    BY <1>4 DEF Quiet, ServerInv, TypeOK, NothingRelayed
  <2>3. TableInSync' /\ SessionIsOwn' /\ clients' \in [Slots -> Slot]
    BY <1>1, SameTable, SameSessions DEF Handled, table, ghosts
  <2>4. /\ auth' \in [Fds -> Nat] /\ joined' \in [Fds -> Nat]
        /\ AckedOK' /\ UNCHANGED <<acked, vain>>
    BY <1>1 DEF ghosts, ServerInv, TypeOK, AckedOK
  <2> QED BY <1>1, <2>1, <2>2, <2>3, <2>4, HandledInv
<1>5. CASE \E ok \in BOOLEAN : DbCreateProject(clients[me].user, ok) /\ Reply("create_room_resp", ok)
  <2>1. /\ DbTypeOK'
        /\ \/ projects' = projects
           \/ /\ Len(projects) < MaxProjects
              /\ projects' = Append(projects, [owner |-> clients[me].user, canvas |-> Blank])
    BY <1>3, <1>5, CreateProjectType DEF ServerInv, TypeOK
  <2>2. unread' \in [Fds -> Nat] /\ wire' \subseteq [to : Fds, msg : Messages] /\ NothingRelayed'
    BY <1>1, <1>5, Served, ReplyType DEF ServerInv, NothingRelayed
  <2>3. TableInSync' /\ SessionIsOwn' /\ clients' \in [Slots -> Slot]
    BY <1>1, SameTable, SameSessions DEF Handled, table, ghosts
  <2>4. /\ auth' \in [Fds -> Nat] /\ joined' \in [Fds -> Nat]
        /\ AckedOK' /\ UNCHANGED <<acked, vain>>
    BY <1>1 DEF ghosts, ServerInv, TypeOK, AckedOK
  <2> QED BY <1>1, <1>3, <2>1, <2>2, <2>3, <2>4, HandledInv
<1> QED BY <1>2, <1>4, <1>5

\* A join gives the room to the slot of its own connection.
LEMMA JoinRoomStep ==
  ASSUME ServerInv, HandleJoinRoom
  PROVE  ServerInv' /\ NothingRelayed' /\ projects' = projects
<1> DEFINE r == Head(batch).room
<1>1. serving # NoFd /\ Handled /\ Head(batch).type = "join_room" /\ UNCHANGED <<auth, acked, vain>>
  BY DEF HandleJoinRoom, Handling
<1>2. r \in Nat
  BY <1>1, Served, RequestShape
<1>3. auth' \in [Fds -> Nat] /\ AckedOK'
  BY <1>1 DEF ServerInv, TypeOK, AckedOK
<1> HIDE DEF r
<1>4. CASE clients[me].user = 0
  <2>1. Quiet /\ UNCHANGED <<dbVars, clients, joined>>
    BY <1>4 DEF HandleJoinRoom
  <2>2. DbTypeOK' /\ projects' = projects /\ joined' \in [Fds -> Nat]
    BY <2>1 DEF ServerInv, TypeOK, DbTypeOK, dbVars
  <2>3. unread' \in [Fds -> Nat] /\ wire' \subseteq [to : Fds, msg : Messages] /\ NothingRelayed'
    BY <2>1 DEF Quiet, ServerInv, TypeOK, NothingRelayed
  <2>4. TableInSync' /\ SessionIsOwn' /\ clients' \in [Slots -> Slot]
    BY <1>1, <2>1, SameTable, SameSessions DEF Handled, table
  <2> QED BY <1>1, <1>3, <2>2, <2>3, <2>4, HandledInv
<1>5. CASE clients[me].user # 0
  <2>1. /\ clients' = [clients EXCEPT ![me].room = r]
        /\ joined' = [joined EXCEPT ![serving] = r]
        /\ \E data \in Canvases \union {Blank, NoStrokes} :
             DbGetProjectData(r, data) /\ JoinReplies(data)
    BY <1>5 DEF HandleJoinRoom, r
  <2>2. DbTypeOK' /\ projects' = projects
    BY <2>1, GetProjectDataType DEF ServerInv, TypeOK
  <2>3. unread' \in [Fds -> Nat] /\ wire' \subseteq [to : Fds, msg : Messages] /\ NothingRelayed'
    BY <1>1, <2>1, Served, JoinRepliesType DEF ServerInv, NothingRelayed
  <2> DEFINE x == [clients[me] EXCEPT !.room = r]
  <2>4. clients[me] \in Slot
    BY <1>1, Served DEF ServerInv, TypeOK
  <2>5. x \in Slot /\ x.fd = serving /\ x.user = clients[me].user /\ x.room = r
    BY <1>1, <1>2, <2>4, Served DEF Slot
  <2>6. clients' = [clients EXCEPT ![me] = x]
    BY <2>1
  <2>7. clients[me].user = auth[serving]
    BY <1>1, Served DEF ServerInv, SessionIsOwn
  <2>8. joined' \in [Fds -> Nat]
    BY <1>2, <2>1 DEF ServerInv, TypeOK
  <2> HIDE DEF x
  <2>9. /\ x.user = auth'[serving] /\ x.room = joined'[serving] /\ x.user # 0
        /\ \A f \in Fds \ {serving} : auth'[f] = auth[f] /\ joined'[f] = joined[f]
    BY <1>1, <1>5, <2>1, <2>5, <2>7, Served DEF ServerInv, TypeOK
  <2>10. TableInSync' /\ clients' \in [Slots -> Slot]
    BY <1>1, <2>5, <2>6, UpdatedSlot DEF Handled
  <2>11. SessionIsOwn'
    BY <1>1, <2>5, <2>6, <2>9, UpdatedSession
  <2> QED BY <1>1, <1>3, <2>2, <2>3, <2>8, <2>10, <2>11, HandledInv
<1> QED BY <1>4, <1>5

\* A save touches the drawing of the room that its sender is in, no other;
\* what is acknowledged afterwards says what the row may hold.
LEMMA SaveCanvasStep ==
  ASSUME ServerInv, HandleSaveCanvas
  PROVE  /\ ServerInv' /\ NothingRelayed'
         /\ \/ projects' = projects /\ UNCHANGED <<acked, vain>>
            \/ \E c \in Canvases, ok \in BOOLEAN :
                 /\ clients[me].room # 0
                 /\ projects' = Stored(clients[me].room, c) \/ (~ok /\ projects' = projects)
                 /\ Recorded(clients[me].room, c, ok)
<1> DEFINE r == clients[me].room
           c == Head(batch).canvas
<1>1. serving # NoFd /\ Handled /\ Head(batch).type = "save_canvas"
      /\ UNCHANGED <<clients, auth, joined>>
  BY DEF HandleSaveCanvas, Handling
<1>2. c \in Canvases \union {"bad"}
  BY <1>1, Served, RequestShape
<1>3. auth' \in [Fds -> Nat] /\ joined' \in [Fds -> Nat]
  BY <1>1 DEF ServerInv, TypeOK
<1>4. TableInSync' /\ SessionIsOwn' /\ clients' \in [Slots -> Slot]
  BY <1>1, SameTable, SameSessions DEF Handled, table
<1> HIDE DEF c, r
<1>5. CASE r = 0
  <2>1. Quiet /\ UNCHANGED <<dbVars, acked, vain>>
    BY <1>5 DEF HandleSaveCanvas, r
  <2>2. /\ DbTypeOK' /\ projects' = projects
        /\ AckedOK' /\ UNCHANGED <<acked, vain>>
    BY <2>1 DEF ServerInv, TypeOK, AckedOK, DbTypeOK, dbVars
  <2>3. unread' \in [Fds -> Nat] /\ wire' \subseteq [to : Fds, msg : Messages] /\ NothingRelayed'
    BY <2>1 DEF Quiet, ServerInv, TypeOK, NothingRelayed
  <2> QED BY <1>1, <1>3, <1>4, <2>2, <2>3, HandledInv
<1>6. CASE r # 0 /\ c = "bad"
  <2>1. Reply("save_canvas_resp", FALSE) /\ UNCHANGED <<dbVars, acked, vain>>
    BY <1>6 DEF HandleSaveCanvas, r, c
  <2>2. /\ DbTypeOK' /\ projects' = projects
        /\ AckedOK' /\ UNCHANGED <<acked, vain>>
    BY <2>1 DEF ServerInv, TypeOK, AckedOK, DbTypeOK, dbVars
  <2>3. unread' \in [Fds -> Nat] /\ wire' \subseteq [to : Fds, msg : Messages] /\ NothingRelayed'
    BY <1>1, <2>1, Served, ReplyType DEF ServerInv, NothingRelayed
  <2> QED BY <1>1, <1>3, <1>4, <2>2, <2>3, HandledInv
<1>7. CASE r # 0 /\ c # "bad"
  <2>1. PICK ok \in BOOLEAN :
          /\ DbSaveProjectData(r, c, ok)
          /\ Recorded(r, c, ok)
          /\ Reply("save_canvas_resp", ok)
    BY <1>7 DEF HandleSaveCanvas, r, c
  <2>2. c \in Canvases
    BY <1>2, <1>7
  <2>3. DbTypeOK' /\ (projects' = Stored(r, c) \/ (~ok /\ projects' = projects))
    BY <2>1, <2>2, SaveProjectDataType DEF ServerInv, TypeOK
  <2>4. AckedOK'
    <3>1. acked \in [1..MaxProjects -> SUBSET (Canvases \union {Blank})]
      BY DEF ServerInv, TypeOK, AckedOK
    <3>2. r \in 1..MaxProjects =>
            (IF ok THEN {c} ELSE acked[r] \union {c}) \in SUBSET (Canvases \union {Blank})
      BY <2>2, <3>1
    <3>3. r \in Nat
      BY <1>1, Served DEF r, ServerInv, TypeOK, Slot
    <3>4. vain' \subseteq Nat
      BY <2>1, <3>3 DEF Recorded, ServerInv, TypeOK
    <3> QED BY <2>1, <3>1, <3>2, <3>4 DEF Recorded, AckedOK
  <2>5. unread' \in [Fds -> Nat] /\ wire' \subseteq [to : Fds, msg : Messages] /\ NothingRelayed'
    BY <1>1, <2>1, Served, ReplyType DEF ServerInv, NothingRelayed
  <2>6. ServerInv'
    BY <1>1, <1>3, <1>4, <2>3, <2>4, <2>5, HandledInv
  <2> QED BY <1>7, <2>1, <2>2, <2>3, <2>5, <2>6 DEF r
<1> QED BY <1>5, <1>6, <1>7

\* What is passed on goes to others that are in the sender's room.
LEMMA RelayStep ==
  ASSUME ServerInv, NEW type \in Relayed, HandleRelay(type)
  PROVE  /\ ServerInv'
         /\ \A d \in wire' : d.msg.type \in Relayed =>
              /\ d.to # serving /\ joined[d.to] = joined[serving]
              /\ joined[serving] # 0 /\ auth[serving] # 0
<1>1. serving # NoFd /\ Handled /\ Head(batch).type = type /\ UNCHANGED <<dbVars, clients, ghosts>>
  BY DEF HandleRelay, Handling
<1>2. TableInSync' /\ SessionIsOwn' /\ clients' \in [Slots -> Slot]
  BY <1>1, SameTable, SameSessions DEF Handled, table, ghosts
<1>3. /\ DbTypeOK'
      /\ auth' \in [Fds -> Nat] /\ joined' \in [Fds -> Nat]
      /\ AckedOK'
  BY <1>1 DEF ghosts, ServerInv, TypeOK, AckedOK, DbTypeOK, dbVars
<1>4. CASE clients[me].room = 0
  <2>1. Quiet
    BY <1>4 DEF HandleRelay
  <2>2. unread' \in [Fds -> Nat] /\ wire' = {}
    BY <2>1 DEF Quiet, ServerInv, TypeOK
  <2> QED BY <1>1, <1>2, <1>3, <2>2, HandledInv
<1>5. CASE clients[me].room # 0
  <2> DEFINE r == clients[me].room
  <2>1. SendTo(Audience(serving, r), Head(batch))
    BY <1>5 DEF HandleRelay
  <2>2. \A f \in Audience(serving, r) :
          f \in Fds /\ f # serving /\ joined[f] = joined[serving]
    <3>1. r = joined[serving]
      BY <1>1, Served DEF ServerInv, SessionIsOwn
    <3> SUFFICES ASSUME NEW t \in Slots, clients[t].room = r, clients[t].fd \notin {NoFd, serving}
                 PROVE  clients[t].fd \in Fds /\ joined[clients[t].fd] = joined[serving]
      BY DEF Audience
    <3>2. clients[t].fd \in Fds
      BY DEF ServerInv, TypeOK, Slot
    <3> QED BY <3>1, <3>2 DEF ServerInv, SessionIsOwn
  <2>3. joined[serving] # 0 /\ auth[serving] # 0
    BY <1>1, <1>5, Served DEF ServerInv, SessionIsOwn
  <2>4. Head(batch) \in Messages
    BY <1>1, Served, RequestShape DEF Messages
  <2> HIDE DEF r
  <2>5. /\ unread' \in [Fds -> Nat] /\ wire' \subseteq [to : Fds, msg : Messages]
        /\ \A d \in wire' : d.to \in Audience(serving, r)
    <3>1. Audience(serving, r) \in SUBSET Fds
      BY <2>2
    <3> QED BY <2>1, <2>4, <3>1, SendToType DEF ServerInv
  <2> QED BY <1>1, <1>2, <1>3, <2>2, <2>3, <2>5, HandledInv
<1> QED BY <1>4, <1>5

--------------------------------------------------------------------------------
(* The theorems *)

\* The table starts empty.
LEMMA InitInv == Init => ServerInv
<1> SUFFICES ASSUME Init PROVE ServerInv
  OBVIOUS
<1>1. DbTypeOK
  <2>1. <<>> \in Seq([owner : Nat, canvas : Canvases \union {Blank}])
    BY EmptySeq
  <2> QED BY <2>1 DEF Init, DbInit, DbTypeOK
<1>2. TypeOK
  <2>1. <<>> \in Seq(Requests \union {Hello})
    BY EmptySeq
  <2>2. Free \in Slot
    BY DEF Free, Slot
  <2> QED BY <1>1, <2>1, <2>2 DEF Init, TypeOK
<1>3. TableInSync /\ SessionIsOwn
  BY DEF Init, Free, TableInSync, SessionIsOwn
<1>4. EventsInSync
  BY DEF Init, EventsInSync
<1> QED BY <1>2, <1>3, <1>4 DEF ServerInv

\* A stuttering step changes nothing the invariant speaks of.
LEMMA StutterInv ==
  ASSUME ServerInv, UNCHANGED vars
  PROVE  ServerInv'
<1>1. TypeOK'
  BY DEF ServerInv, TypeOK, DbTypeOK, vars, dbVars, table, kernel, sockets, loop, ghosts, Slots
<1>2. TableInSync' /\ SessionIsOwn'
  BY SameTable, SameSessions DEF vars, table, kernel, ghosts
<1>3. EventsInSync'
  BY DEF ServerInv, EventsInSync, vars, table, kernel, loop
<1> QED BY <1>1, <1>2, <1>3 DEF ServerInv

\* Every step keeps the invariant, one lemma above per action.
LEMMA NextInv ==
  ASSUME ServerInv, Next
  PROVE  ServerInv'
<1>1. CASE Peers
  BY <1>1, ConnectStep, PeerSendStep, PeerCloseStep, PeerTakeStep DEF Peers
<1>2. CASE Database
  BY <1>2, DatabaseStep
<1>3. CASE EpollWait \/ AcceptFails \/ (\E f \in Fds : Accept(f)) \/ EpollFails \/ Start
  BY <1>3, EpollWaitStep, AcceptStep, AcceptFailsStep, EndsStep, StartStep DEF EpollFails
<1>4. CASE (\E f \in Fds : ReadEnds(f)) \/ \E f \in Fds, n \in 1..MaxIn : ReadFrames(f, n)
  BY <1>4, ReadEndsStep, ReadFramesStep
<1>5. CASE HandleHello \/ HandleHuge \/ HandleOther \/ HandleNoName \/ HandleLogin \/ HandleRegister
  BY <1>5, HelloStep, HugeStep, OtherStep, NoNameStep, LoginStep, RegisterStep
<1>6. CASE HandleListRooms \/ HandleCreateRoom \/ HandleJoinRoom \/ HandleSaveCanvas
  BY <1>6, ListRoomsStep, CreateRoomStep, JoinRoomStep, SaveCanvasStep
<1>7. CASE \E type \in Relayed : HandleRelay(type)
  BY <1>7, RelayStep
<1> QED BY <1>1, <1>2, <1>3, <1>4, <1>5, <1>6, <1>7 DEF Next, Server

\* Slots, epoll and the kernel's descriptors agree, events are for open
\* connections, and a slot has the login and the room of its own connection:
\* server.c's table for any number of slots, descriptors and messages.
THEOREM ServerInvariant == Spec => []ServerInv
<1>1. ServerInv /\ [Next]_vars => ServerInv'
  BY NextInv, StutterInv
<1> QED BY InitInv, <1>1, PTL DEF Spec

\* broadcast_room: an edit or a chat line reaches only others that asked for
\* the same room last, and only from a connection that has logged in.
THEOREM OnlyItsRoomHears == Spec => HearsOnlyItsRoom
<1> DEFINE A == \A d \in wire' : d.msg.type \in Relayed =>
                  /\ d.to # serving /\ joined[d.to] = joined[serving]
                  /\ joined[serving] # 0 /\ auth[serving] # 0
<1>1. ASSUME ServerInv, Next PROVE A
  <2>1. CASE Peers
    BY <2>1, <1>1, ConnectStep, PeerSendStep, PeerCloseStep, PeerTakeStep DEF Peers, NothingRelayed
  <2>2. CASE Database
    BY <2>2, DatabaseStep, <1>1 DEF NothingRelayed
  <2>3. CASE EpollWait \/ AcceptFails \/ (\E f \in Fds : Accept(f)) \/ EpollFails \/ Start
    BY <2>3, <1>1, EpollWaitStep, AcceptStep, AcceptFailsStep, EndsStep, StartStep
       DEF EpollFails, NothingRelayed
  <2>4. CASE (\E f \in Fds : ReadEnds(f)) \/ \E f \in Fds, n \in 1..MaxIn : ReadFrames(f, n)
    BY <2>4, <1>1, ReadEndsStep, ReadFramesStep DEF NothingRelayed
  <2>5. CASE HandleHello \/ HandleHuge \/ HandleOther \/ HandleNoName \/ HandleLogin \/ HandleRegister
    BY <2>5, <1>1, HelloStep, HugeStep, OtherStep, NoNameStep, LoginStep, RegisterStep
       DEF NothingRelayed
  <2>6. CASE HandleListRooms \/ HandleCreateRoom \/ HandleJoinRoom \/ HandleSaveCanvas
    BY <2>6, <1>1, ListRoomsStep, CreateRoomStep, JoinRoomStep, SaveCanvasStep DEF NothingRelayed
  <2>7. CASE \E type \in Relayed : HandleRelay(type)
    BY <2>7, <1>1, RelayStep
  <2> QED BY <1>1, <2>1, <2>2, <2>3, <2>4, <2>5, <2>6, <2>7 DEF Next, Server
<1>2. ServerInv /\ [Next]_vars => [A]_vars
  BY <1>1
<1> QED BY <1>2, ServerInvariant, PTL DEF Spec, HearsOnlyItsRoom

\* What a step does to the drawings in the database: nothing, a new row, or
\* one save for the room of the connection being served.
ProjectsKept == projects' = projects /\ UNCHANGED <<acked, vain>>
RowAdded ==
  /\ Len(projects) < MaxProjects /\ UNCHANGED <<acked, vain>>
  /\ \E uid \in Nat : projects' = Append(projects, [owner |-> uid, canvas |-> Blank])
RowSaved ==
  \E c \in Canvases, ok \in BOOLEAN :
    /\ serving # NoFd /\ clients[me].room # 0
    /\ projects' = Stored(clients[me].room, c) \/ (~ok /\ projects' = projects)
    /\ Recorded(clients[me].room, c, ok)

\* A step leaves the drawings alone, adds an empty one or saves one.
LEMMA ProjectsStep ==
  ASSUME ServerInv, Next
  PROVE  ProjectsKept \/ RowAdded \/ RowSaved
<1>1. CASE Peers
  BY <1>1 DEF Peers, Connect, PeerSend, PeerClose, PeerTake, dbVars, ghosts, ProjectsKept
<1>2. CASE Database
  BY <1>2, DatabaseStep DEF Database, ghosts, ProjectsKept
<1>3. CASE EpollWait \/ AcceptFails \/ (\E f \in Fds : Accept(f)) \/ EpollFails \/ Start
  BY <1>3 DEF EpollWait, AcceptFails, Accept, EpollFails, ProcessEnds, Start, DbConnect, dbVars,
              ghosts, ProjectsKept
<1>4. CASE (\E f \in Fds : ReadEnds(f)) \/ \E f \in Fds, n \in 1..MaxIn : ReadFrames(f, n)
  BY <1>4 DEF ReadEnds, ReadFrames, dbVars, ghosts, ProjectsKept
<1>5. CASE HandleHello \/ HandleHuge \/ HandleOther \/ \E type \in Relayed : HandleRelay(type)
  BY <1>5 DEF HandleHello, HandleHuge, HandleOther, HandleRelay, dbVars, ghosts, ProjectsKept
<1>6. CASE HandleLogin \/ HandleRegister \/ HandleListRooms \/ HandleJoinRoom
  <2>1. projects' = projects
    BY <1>6, LoginStep, RegisterStep, ListRoomsStep, JoinRoomStep
  <2>2. UNCHANGED <<acked, vain>>
    BY <1>6 DEF HandleLogin, HandleRegister, HandleListRooms, HandleJoinRoom, ghosts
  <2> QED BY <2>1, <2>2 DEF ProjectsKept
<1>7. CASE HandleCreateRoom
  BY <1>7, CreateRoomStep DEF ProjectsKept, RowAdded
<1>8. CASE HandleSaveCanvas
  <2>1. serving # NoFd
    BY <1>8 DEF HandleSaveCanvas, Handling
  <2> QED BY <1>8, <2>1, SaveCanvasStep DEF ProjectsKept, RowSaved
<1>9. CASE HandleNoName
  BY <1>9, NoNameStep DEF ProcessEnds, dbVars, ghosts, ProjectsKept
<1> QED BY <1>1, <1>2, <1>3, <1>4, <1>5, <1>6, <1>7, <1>8, <1>9 DEF Next, Server

\* HandleSaveCanvas: the drawing of a room changes only by a save of somebody
\* who logged in and whose last join_room was for this room.
THEOREM MembersSave == Spec => OnlyMembersSave
<1> DEFINE A == \A p \in DOMAIN projects : projects'[p].canvas # projects[p].canvas =>
                  serving # NoFd /\ auth[serving] # 0 /\ joined[serving] = p
<1>1. ASSUME ServerInv, Next PROVE A
  <2>1. CASE ProjectsKept
    BY <2>1 DEF ProjectsKept
  <2>2. CASE RowAdded
    <3>1. projects \in Seq([owner : Nat, canvas : Canvases \union {Blank}])
      BY <1>1 DEF ServerInv, TypeOK, DbTypeOK
    <3>2. \A p \in DOMAIN projects : projects'[p] = projects[p]
      BY <2>2, <3>1 DEF RowAdded
    <3> QED BY <3>2
  <2>3. CASE RowSaved
    <3>1. PICK c \in Canvases :
            /\ serving # NoFd /\ clients[me].room # 0
            /\ projects' = Stored(clients[me].room, c) \/ projects' = projects
      BY <2>3 DEF RowSaved
    <3>2. \A p \in DOMAIN projects :
            projects'[p].canvas # projects[p].canvas => p = clients[me].room
      BY <1>1, <3>1, StoredType DEF ServerInv, TypeOK
    <3>3. clients[me].room = joined[serving] /\ auth[serving] # 0
      BY <1>1, <3>1, Served DEF ServerInv, SessionIsOwn
    <3> QED BY <3>1, <3>2, <3>3
  <2> QED BY <1>1, <2>1, <2>2, <2>3, ProjectsStep
<1>2. ServerInv /\ [Next]_vars => [A]_vars
  BY <1>1
<1> QED BY <1>2, ServerInvariant, PTL DEF Spec, OnlyMembersSave

\* What a save changes of what is known: after a confirmed one the row holds
\* this drawing, or is empty once it is created; after a failed one maybe this.
LEMMA MayHoldStep ==
  ASSUME ServerInv, NEW r, NEW c, NEW ok \in BOOLEAN, Recorded(r, c, ok)
  PROVE  \A p \in 1..MaxProjects :
           MayHold(p)' = IF p # r THEN MayHold(p)
                         ELSE IF ~ok THEN MayHold(p) \union {c}
                         ELSE IF r \in DOMAIN projects THEN {c} ELSE {c, Blank}
<1> SUFFICES ASSUME NEW p \in 1..MaxProjects
             PROVE  MayHold(p)' = IF p # r THEN MayHold(p)
                                  ELSE IF ~ok THEN MayHold(p) \union {c}
                                  ELSE IF r \in DOMAIN projects THEN {c} ELSE {c, Blank}
  OBVIOUS
<1>1. acked'[p] = IF p # r THEN acked[p] ELSE IF ok THEN {c} ELSE acked[p] \union {c}
  BY DEF Recorded, ServerInv, TypeOK
<1>2. p \in vain' <=> IF p = r /\ ok THEN r \notin DOMAIN projects ELSE p \in vain
  BY DEF Recorded
<1>3. MayHold(p)' = acked'[p] \union {x \in {Blank} : p \in vain'}
  BY DEF MayHold
<1>4. MayHold(p) = acked[p] \union {x \in {Blank} : p \in vain}
  BY DEF MayHold
<1>5. CASE p # r
  BY <1>1, <1>2, <1>3, <1>4, <1>5
<1>6. CASE p = r /\ ~ok
  BY <1>1, <1>2, <1>3, <1>4, <1>6
<1>7. CASE p = r /\ ok
  <2>1. MayHold(p)' = {c} \union {x \in {Blank} : r \notin DOMAIN projects}
    BY <1>1, <1>2, <1>3, <1>7
  <2> QED BY <1>7, <2>1
<1> QED BY <1>5, <1>6, <1>7

\* ConfirmedIsStored as an inductive invariant: a row not yet created may be
\* empty when it is, whatever was confirmed before.
ConfirmedInv ==
  /\ Len(projects) <= MaxProjects
  /\ ConfirmedIsStored
  /\ \A p \in 1..MaxProjects : p > Len(projects) => Blank \in MayHold(p)

\* Every step keeps ConfirmedInv.
LEMMA ConfirmedStep ==
  ASSUME ServerInv, ConfirmedInv, Next
  PROVE  ConfirmedInv'
<1> DEFINE Row == [owner : Nat, canvas : Canvases \union {Blank}]
<1>1. projects \in Seq(Row) /\ DOMAIN projects = 1..Len(projects) /\ Len(projects) \in Nat
  BY DEF ServerInv, TypeOK, DbTypeOK
<1>2. CASE ProjectsKept
  BY <1>2 DEF ProjectsKept, ConfirmedInv, ConfirmedIsStored, MayHold
<1>3. CASE RowAdded
  <2>1. PICK uid \in Nat : projects' = Append(projects, [owner |-> uid, canvas |-> Blank])
    BY <1>3 DEF RowAdded
  <2>2. /\ Len(projects') = Len(projects) + 1 /\ DOMAIN projects' = 1..Len(projects) + 1
        /\ \A p \in 1..Len(projects) : projects'[p] = projects[p]
        /\ projects'[Len(projects) + 1].canvas = Blank
    BY <1>1, <2>1
  <2>3. Len(projects) < MaxProjects /\ \A p : MayHold(p)' = MayHold(p)
    BY <1>3 DEF RowAdded, MayHold
  <2>4. Blank \in MayHold(Len(projects) + 1)
    BY <1>1, <2>3, MaxProjectsAssumption DEF ConfirmedInv
  <2>5. \A p \in DOMAIN projects' : projects'[p].canvas \in MayHold(p)'
    BY <1>1, <2>2, <2>3, <2>4 DEF ConfirmedInv, ConfirmedIsStored
  <2>6. \A p \in 1..MaxProjects : p > Len(projects') => Blank \in MayHold(p)'
    BY <1>1, <2>2, <2>3 DEF ConfirmedInv
  <2> QED BY <1>1, <2>2, <2>3, <2>5, <2>6, MaxProjectsAssumption DEF ConfirmedInv, ConfirmedIsStored
<1>4. CASE RowSaved
  <2> DEFINE r == clients[me].room
  <2>1. PICK c \in Canvases, ok \in BOOLEAN :
          /\ serving # NoFd /\ r # 0
          /\ projects' = Stored(r, c) \/ (~ok /\ projects' = projects)
          /\ Recorded(r, c, ok)
    BY <1>4 DEF RowSaved
  <2>2. r \in Nat \ {0}
    BY <2>1, Served DEF ServerInv, TypeOK, Slot
  <2> HIDE DEF r
  <2>3. /\ Len(projects') = Len(projects) /\ DOMAIN projects' = DOMAIN projects
        /\ \A p \in DOMAIN projects : projects'[p].canvas = projects[p].canvas
                                        \/ (p = r /\ projects'[p].canvas = c)
        /\ ok => \A p \in DOMAIN projects : p = r => projects'[p].canvas = c
    <3>1. Stored(r, c) \in Seq(Row) /\ Len(Stored(r, c)) = Len(projects)
      BY StoredType DEF ServerInv, TypeOK
    <3>2. DOMAIN Stored(r, c) = DOMAIN projects
      BY <1>1, <3>1
    <3> QED BY <2>1, <3>1, <3>2, StoredType DEF ServerInv, TypeOK
  <2>4. \A p \in 1..MaxProjects :
          MayHold(p)' = IF p # r THEN MayHold(p)
                        ELSE IF ~ok THEN MayHold(p) \union {c}
                        ELSE IF r \in DOMAIN projects THEN {c} ELSE {c, Blank}
    BY <2>1, MayHoldStep
  <2>5. \A p \in DOMAIN projects : p \in 1..MaxProjects /\ projects[p].canvas \in MayHold(p)
    BY <1>1, MaxProjectsAssumption DEF ConfirmedInv, ConfirmedIsStored
  <2>6. ConfirmedIsStored'
    <3> SUFFICES ASSUME NEW p \in DOMAIN projects PROVE projects'[p].canvas \in MayHold(p)'
      BY <2>3 DEF ConfirmedIsStored
    <3> QED BY <2>3, <2>4, <2>5
  <2>7. \A p \in 1..MaxProjects : p > Len(projects') => Blank \in MayHold(p)'
    <3> SUFFICES ASSUME NEW p \in 1..MaxProjects, p > Len(projects) PROVE Blank \in MayHold(p)'
      BY <2>3
    <3>1. Blank \in MayHold(p) /\ p \notin DOMAIN projects
      BY <1>1 DEF ConfirmedInv
    <3> QED BY <2>4, <3>1
  <2> QED BY <2>3, <2>6, <2>7 DEF ConfirmedInv
<1> QED BY <1>2, <1>3, <1>4, ProjectsStep

\* db_save_project_data: a save that was confirmed is what the database holds,
\* whenever the connection breaks and the process ends, if the room had a row;
\* if it had none the row is empty when it is created, confirmed or not.
THEOREM ConfirmedStored == Spec => []ConfirmedIsStored
<1>1. Init => ConfirmedInv
  BY MaxProjectsAssumption DEF Init, DbInit, ConfirmedInv, ConfirmedIsStored, MayHold
<1>2. ServerInv /\ ConfirmedInv /\ [Next]_vars => ConfirmedInv'
  <2>1. ASSUME ConfirmedInv, UNCHANGED vars PROVE ConfirmedInv'
    BY <2>1 DEF ConfirmedInv, ConfirmedIsStored, MayHold, vars, dbVars, ghosts
  <2> QED BY <2>1, ConfirmedStep
<1>3. ConfirmedInv => ConfirmedIsStored
  BY DEF ConfirmedInv
<1> QED BY <1>1, <1>2, <1>3, ServerInvariant, PTL DEF Spec

--------------------------------------------------------------------------------
(* The server implements RoomService *)

\* Names and logins: ids count up from 1, each for one name, and whoever has
\* logged in has the id of a registered name.
IdsInv ==
  /\ \A u \in Users : users[u] \in 0..Cardinality(Registered)
  /\ \A u, v \in Registered : users[u] = users[v] => u = v
  /\ \A f \in Fds : auth[f] # 0 => \E u \in Users : users[u] = auth[f]

ServiceInv == ServerInv /\ ConfirmedInv /\ IdsInv

\* What a step does to names and logins: nothing, a new name with the next id,
\* or a connection that starts anew or gets the id of a registered name.
NamesKept == users' = users /\ auth' = auth
NameAdded ==
  /\ auth' = auth
  /\ \E u \in Users : /\ users[u] = 0
                      /\ users' = [users EXCEPT ![u] = Cardinality(Registered) + 1]
LoginChanged ==
  /\ users' = users
  /\ \E f \in Fds, id \in Nat : /\ auth' = [auth EXCEPT ![f] = id]
                                /\ id = 0 \/ \E u \in Users : users[u] = id

\* The number of registered names is a number.
LEMMA RegisteredCount == IsFiniteSet(Registered) /\ Cardinality(Registered) \in Nat
<1>1. IsFiniteSet(Registered)
  BY UsersAssumption, FS_Subset DEF Registered
<1> QED BY <1>1, FS_CardinalityType

\* db_register_user: a name that is free gets the next id, or nothing happens.
LEMMA RegisterNames ==
  ASSUME ServerInv, HandleRegister
  PROVE  \/ users' = users
         \/ /\ Head(batch).user \in Users /\ users[Head(batch).user] = 0
            /\ users' = [users EXCEPT ![Head(batch).user] = Cardinality(Registered) + 1]
<1>1. serving # NoFd /\ Head(batch).type = "register"
  BY DEF HandleRegister, Handling
<1>2. Head(batch).user \in Users
  BY <1>1, Served, RequestShape
<1> QED BY <1>2 DEF HandleRegister, DbRegister

\* db_login_user: the id of the name, or nothing happens.
LEMMA LoginNames ==
  ASSUME ServerInv, HandleLogin
  PROVE  /\ users' = users
         /\ \/ auth' = auth
            \/ /\ Head(batch).user \in Registered
               /\ auth' = [auth EXCEPT ![serving] = users[Head(batch).user]]
<1>1. serving # NoFd /\ Head(batch).type = "login"
  BY DEF HandleLogin, Handling
<1>2. Head(batch).user \in Users
  BY <1>1, Served, RequestShape
<1>3. PICK id \in 0..Cardinality(Users) :
        /\ DbLogin(Head(batch).user, Head(batch).good, id)
        /\ auth' = IF id > 0 THEN [auth EXCEPT ![serving] = id] ELSE auth
  BY DEF HandleLogin
<1>4. id \in Nat /\ users' = users
  BY <1>2, <1>3, LoginType DEF DbLogin, ServerInv, TypeOK
<1>5. id = 0 \/ id = users[Head(batch).user]
  BY <1>3 DEF DbLogin
<1>6. CASE id = 0
  BY <1>3, <1>4, <1>6
<1>7. CASE id # 0
  <2>1. id = users[Head(batch).user] /\ Head(batch).user \in Registered
    BY <1>2, <1>5, <1>7 DEF Registered
  <2>2. auth' = [auth EXCEPT ![serving] = id]
    BY <1>3, <1>4, <1>7
  <2> QED BY <1>4, <2>1, <2>2
<1> QED BY <1>6, <1>7

\* Every other action leaves the names alone.
LEMMA NamesStep ==
  ASSUME ServerInv, Next
  PROVE  NamesKept \/ NameAdded \/ LoginChanged
<1>1. CASE Peers
  BY <1>1 DEF Peers, Connect, PeerSend, PeerClose, PeerTake, dbVars, ghosts, NamesKept
<1>2. CASE Database
  BY <1>2 DEF Database, DbDown, DbUp, DbIdle, ghosts, NamesKept
<1>3. CASE EpollWait \/ AcceptFails \/ EpollFails \/ Start
  BY <1>3 DEF EpollWait, AcceptFails, EpollFails, ProcessEnds, Start, DbConnect, dbVars, ghosts,
              NamesKept
<1>4. CASE \E f \in Fds : Accept(f)
  BY <1>4 DEF Accept, dbVars, LoginChanged
<1>5. CASE (\E f \in Fds : ReadEnds(f)) \/ \E f \in Fds, n \in 1..MaxIn : ReadFrames(f, n)
  BY <1>5 DEF ReadEnds, ReadFrames, dbVars, ghosts, NamesKept
<1>6. CASE \/ HandleHello \/ HandleHuge \/ HandleOther \/ HandleNoName
           \/ \E type \in Relayed : HandleRelay(type)
  BY <1>6, NoNameStep DEF HandleHello, HandleHuge, HandleOther, HandleRelay, ProcessEnds, dbVars,
                          ghosts, NamesKept
<1>7. CASE HandleLogin
  <2>1. serving \in Fds
    BY <1>7, Served DEF HandleLogin, Handling
  <2>2. \A u \in Registered : u \in Users /\ users[u] \in Nat
    BY DEF Registered, ServerInv, TypeOK, DbTypeOK
  <2> QED BY <1>7, <2>1, <2>2, LoginNames DEF NamesKept, LoginChanged
<1>8. CASE HandleRegister
  <2>1. auth' = auth
    BY <1>8 DEF HandleRegister, ghosts
  <2> QED BY <1>8, <2>1, RegisterNames DEF NamesKept, NameAdded
<1>9. CASE HandleListRooms \/ HandleJoinRoom
  BY <1>9 DEF HandleListRooms, HandleJoinRoom, DbGetProjects, DbGetProjectData, dbVars, ghosts,
              NamesKept
<1>10. CASE HandleCreateRoom \/ HandleSaveCanvas
  BY <1>10 DEF HandleCreateRoom, HandleSaveCanvas, DbCreateProject, DbSaveProjectData, dbVars,
               ghosts, NamesKept
<1> QED BY <1>1, <1>2, <1>3, <1>4, <1>5, <1>6, <1>7, <1>8, <1>9, <1>10 DEF Next, Server

\* A new name adds itself to those registered, and no id is used twice.
LEMMA AddedName ==
  ASSUME DbTypeOK, IdsInv, NEW u \in Users, users[u] = 0,
         users' = [users EXCEPT ![u] = Cardinality(Registered) + 1]
  PROVE  /\ Registered' = Registered \union {u} /\ u \notin Registered
         /\ Cardinality(Registered') = Cardinality(Registered) + 1
         /\ \A v \in Users : users'[v] = IF v = u THEN Cardinality(Registered) + 1 ELSE users[v]
<1>1. \A v \in Users : users'[v] = IF v = u THEN Cardinality(Registered) + 1 ELSE users[v]
  BY DEF DbTypeOK
<1>2. Cardinality(Registered) + 1 # 0
  BY RegisteredCount
<1>3. Registered' = Registered \union {u} /\ u \notin Registered
  BY <1>1, <1>2 DEF Registered
<1> QED BY <1>1, <1>3, RegisteredCount, FS_AddElement

\* Every step keeps IdsInv.
LEMMA IdsStep ==
  ASSUME ServerInv, IdsInv, Next
  PROVE  IdsInv'
<1>1. CASE NamesKept
  BY <1>1 DEF NamesKept, IdsInv, Registered
<1>2. CASE NameAdded
  <2> DEFINE n == Cardinality(Registered)
  <2>1. PICK u \in Users : users[u] = 0 /\ users' = [users EXCEPT ![u] = n + 1]
    BY <1>2 DEF NameAdded
  <2>2. /\ Registered' = Registered \union {u} /\ u \notin Registered
        /\ Cardinality(Registered') = n + 1
        /\ \A v \in Users : users'[v] = IF v = u THEN n + 1 ELSE users[v]
    BY <2>1, AddedName DEF ServerInv, TypeOK
  <2>3. n \in Nat
    BY RegisteredCount
  <2>4. \A v \in Users : users[v] \in 0..n
    BY DEF IdsInv
  <2> HIDE DEF n
  <2>5. \A v \in Users : users'[v] \in 0..Cardinality(Registered')
    BY <2>2, <2>3, <2>4
  <2>6. Registered \subseteq Users /\ \A v, w \in Registered : users[v] = users[w] => v = w
    BY DEF IdsInv, Registered
  <2>7. \A v, w \in Registered' : users'[v] = users'[w] => v = w
    BY <2>2, <2>3, <2>4, <2>6
  <2>8. \A f \in Fds : auth'[f] # 0 => \E v \in Users : users'[v] = auth'[f]
    BY <1>2, <2>1, <2>2 DEF NameAdded, IdsInv
  <2> QED BY <2>5, <2>7, <2>8 DEF IdsInv
<1>3. CASE LoginChanged
  <2>1. PICK f \in Fds, id \in Nat : /\ auth' = [auth EXCEPT ![f] = id]
                                     /\ id = 0 \/ \E u \in Users : users[u] = id
    BY <1>3 DEF LoginChanged
  <2>2. \A g \in Fds : auth'[g] = IF g = f THEN id ELSE auth[g]
    BY <2>1 DEF ServerInv, TypeOK
  <2>3. Registered' = Registered /\ users' = users
    BY <1>3 DEF LoginChanged, Registered
  <2> QED BY <2>1, <2>2, <2>3 DEF IdsInv
<1> QED BY <1>1, <1>2, <1>3, NamesStep

\* A connection that is served has a name exactly if its slot has a user, and
\* then it is in the room of its slot.
LEMMA ServedSession ==
  ASSUME ServiceInv, serving # NoFd
  PROVE  /\ serving \in Fds /\ serving \in open
         /\ clients[me].user = auth[serving]
         /\ auth[serving] # 0 => LoggedInAs[serving] # {}
         /\ InRoom[serving] = clients[me].room
         /\ clients[me].room # 0 => auth[serving] # 0
<1>1. /\ serving \in Fds /\ serving \in open
      /\ clients[me].user = auth[serving] /\ clients[me].room = joined[serving]
      /\ clients[me].room # 0 => clients[me].user # 0
  BY Served DEF ServiceInv, ServerInv, SessionIsOwn
<1>2. auth[serving] # 0 => NamesOf(serving) # {}
  BY <1>1 DEF ServiceInv, IdsInv, NamesOf
<1> QED BY <1>1, <1>2 DEF LoggedInAs, InRoom

\* A step that passes on nothing and changes none of this is no step of the
\* service.
LEMMA NothingToTell ==
  ASSUME NothingRelayed', UNCHANGED <<open, users, auth, joined, projects, acked, vain>>
  PROVE  Service!Rest
<1>1. Heard' = {}
  BY DEF NothingRelayed, Heard
<1>2. LoggedInAs' = LoggedInAs /\ Registered' = Registered
  BY DEF LoggedInAs, NamesOf, Registered
<1>3. InRoom' = InRoom /\ StoredDrawings' = StoredDrawings /\ Settled' = Settled
  BY DEF InRoom, StoredDrawings, Settled, MayHold
<1> QED BY <1>1, <1>2, <1>3
        DEF Service!Rest, Service!Silent, Service!sessions, Service!rooms

\* The steps of the peers, of the database and of the loop that open and close
\* nothing.
LEMMA ServiceIdle ==
  ASSUME ServiceInv,
         \/ Peers \/ Database \/ Start \/ EpollWait \/ AcceptFails
         \/ \E f \in Fds, n \in 1..MaxIn : ReadFrames(f, n)
         \/ HandleHello \/ HandleOther \/ HandleListRooms
  PROVE  Service!Rest
<1>1. CASE Peers
  <2>1. NothingRelayed'
    BY <1>1, ConnectStep, PeerSendStep, PeerCloseStep, PeerTakeStep DEF Peers, ServiceInv
  <2>2. UNCHANGED <<open, users, auth, joined, projects, acked, vain>>
    BY <1>1 DEF Peers, Connect, PeerSend, PeerClose, PeerTake, dbVars, ghosts
  <2> QED BY <2>1, <2>2, NothingToTell
<1>2. CASE Database \/ Start
  <2>1. UNCHANGED <<open, users, auth, joined, projects, acked, vain>>
    BY <1>2 DEF Database, DbDown, DbUp, DbIdle, Start, DbConnect, ghosts
  <2> QED BY <1>2, <2>1, DatabaseStep, StartStep, NothingToTell DEF ServiceInv
<1>3. CASE EpollWait \/ AcceptFails \/ \E f \in Fds, n \in 1..MaxIn : ReadFrames(f, n)
  <2>1. NothingRelayed'
    BY <1>3, EpollWaitStep, AcceptFailsStep, ReadFramesStep DEF ServiceInv
  <2>2. UNCHANGED <<open, users, auth, joined, projects, acked, vain>>
    BY <1>3 DEF EpollWait, AcceptFails, ReadFrames, dbVars, ghosts
  <2> QED BY <2>1, <2>2, NothingToTell
<1>4. CASE HandleHello \/ HandleOther
  <2>1. NothingRelayed'
    BY <1>4, HelloStep, OtherStep DEF ServiceInv
  <2>2. UNCHANGED <<open, users, auth, joined, projects, acked, vain>>
    BY <1>4 DEF HandleHello, HandleOther, Handled, dbVars, ghosts
  <2> QED BY <2>1, <2>2, NothingToTell
<1>5. CASE HandleListRooms
  <2>1. UNCHANGED <<open, users, auth, joined, acked, vain>>
    BY <1>5 DEF HandleListRooms, Handled, DbGetProjects, dbVars, ghosts
  <2> QED BY <1>5, <2>1, ListRoomsStep, NothingToTell DEF ServiceInv
<1> QED BY <1>1, <1>2, <1>3, <1>4, <1>5

\* accept: a connection that gets a slot arrives, with no name and no room.
LEMMA ServiceAccept ==
  ASSUME ServiceInv, NEW f \in Fds, Accept(f)
  PROVE  Service!Arrive(f) \/ Service!Rest
<1>1. NothingRelayed' /\ Heard' = {}
  BY AcceptStep DEF ServiceInv, NothingRelayed, Heard
<1>2. /\ f \notin open /\ open' \in {open, open \union {f}}
      /\ auth' = [auth EXCEPT ![f] = 0] /\ joined' = [joined EXCEPT ![f] = 0]
      /\ UNCHANGED <<users, projects, acked, vain>>
  BY DEF Accept, AddClient, dbVars
<1>3. /\ auth \in [Fds -> Nat] /\ joined \in [Fds -> Nat]
  BY DEF ServiceInv, ServerInv, TypeOK
<1>4. LoggedInAs' = LoggedInAs
  <2>1. \A g \in Fds : NamesOf(g)' = NamesOf(g)
    BY <1>2, <1>3 DEF NamesOf
  <2> QED BY <2>1 DEF LoggedInAs
<1>5. InRoom' = InRoom
  <2>1. \A g \in Fds : (IF g \in open THEN joined[g] ELSE 0)'
                         = IF g \in open THEN joined[g] ELSE 0
    BY <1>2, <1>3
  <2> QED BY <2>1 DEF InRoom
<1>6. Registered' = Registered /\ StoredDrawings' = StoredDrawings /\ Settled' = Settled
  BY <1>2 DEF Registered, StoredDrawings, Settled, MayHold
<1> QED BY <1>1, <1>2, <1>4, <1>5, <1>6
        DEF Service!Rest, Service!Arrive, Service!Silent, Service!sessions, Service!rooms

\* remove_client and close end the session with the connection.
LEMMA ServiceClose ==
  ASSUME ServiceInv, NEW f \in Fds, f \in open, Close(f), NothingRelayed',
         UNCHANGED <<users, auth, joined, projects, acked, vain>>
  PROVE  Service!Leave(f)
<1>1. open' = open \ {f}
  BY DEF Close
<1>2. LoggedInAs' = [LoggedInAs EXCEPT ![f] = {}]
  <2>1. \A g \in Fds : NamesOf(g)' = IF g = f THEN {} ELSE NamesOf(g)
    BY <1>1 DEF NamesOf
  <2> QED BY <2>1 DEF LoggedInAs
<1>3. InRoom' = [InRoom EXCEPT ![f] = 0]
  BY <1>1 DEF InRoom
<1>4. Registered' = Registered /\ StoredDrawings' = StoredDrawings /\ Settled' = Settled
  BY DEF Registered, StoredDrawings, Settled, MayHold
<1>5. Heard' = {}
  BY DEF NothingRelayed, Heard
<1> QED BY <1>1, <1>2, <1>3, <1>4, <1>5 DEF Service!Leave, Service!Silent, Service!rooms

\* The end of the process is the end of every session, and of nothing else.
LEMMA ServiceStop ==
  ASSUME ServiceInv, EpollFails \/ HandleNoName
  PROVE  Service!Stop \/ Service!Rest
<1>1. NothingRelayed'
  BY EndsStep, NoNameStep DEF EpollFails, ServiceInv
<1>2. CASE ProcessEnds
  <2>1. open' = {} /\ UNCHANGED <<users, auth, joined, projects, acked, vain>>
    BY <1>2 DEF ProcessEnds, dbVars, ghosts
  <2>2. LoggedInAs' = [f \in Fds |-> {}] /\ InRoom' = [f \in Fds |-> 0]
    BY <2>1 DEF LoggedInAs, NamesOf, InRoom
  <2>3. Registered' = Registered /\ StoredDrawings' = StoredDrawings /\ Settled' = Settled
    BY <2>1 DEF Registered, StoredDrawings, Settled, MayHold
  <2>4. Heard' = {}
    BY <1>1 DEF NothingRelayed, Heard
  <2> QED BY <2>1, <2>2, <2>3, <2>4 DEF Service!Stop, Service!Silent, Service!rooms
<1>3. CASE ~ProcessEnds
  <2>1. UNCHANGED <<open, users, auth, joined, projects, acked, vain>>
    BY <1>3, NoNameStep DEF EpollFails, ServiceInv, dbVars, ghosts
  <2> QED BY <1>1, <2>1, NothingToTell
<1> QED BY <1>2, <1>3

\* A connection leaves when its peer has gone, and after a frame too large.
LEMMA ServiceLeave ==
  ASSUME ServiceInv, (\E f \in Fds : ReadEnds(f)) \/ HandleHuge
  PROVE  \E f \in Fds : Service!Leave(f)
<1>1. ASSUME NEW f \in Fds, ReadEnds(f) PROVE Service!Leave(f)
  <2>1. f \in open
    BY <1>1 DEF ReadEnds, ServiceInv, ServerInv, EventsInSync, TableInSync
  <2>2. Close(f) /\ UNCHANGED <<users, auth, joined, projects, acked, vain>>
    BY <1>1 DEF ReadEnds, dbVars, ghosts
  <2> QED BY <1>1, <2>1, <2>2, ReadEndsStep, ServiceClose DEF ServiceInv
<1>2. CASE HandleHuge
  <2>1. serving \in Fds /\ serving \in open
    BY <1>2, ServedSession DEF HandleHuge, Handling
  <2>2. Close(serving) /\ UNCHANGED <<users, auth, joined, projects, acked, vain>>
    BY <1>2 DEF HandleHuge, dbVars, ghosts
  <2>3. NothingRelayed'
    BY <1>2, HugeStep DEF ServiceInv
  <2>4. Service!Leave(serving)
    BY <2>1, <2>2, <2>3, ServiceClose
  <2> QED BY <2>1, <2>4
<1> QED BY <1>1, <1>2

\* db_register_user: a new name takes nobody's id, so no session changes.
LEMMA ServiceRegister ==
  ASSUME ServiceInv, HandleRegister
  PROVE  (\E u \in Users : Service!Register(u)) \/ Service!Rest
<1>1. NothingRelayed' /\ projects' = projects
  BY RegisterStep DEF ServiceInv
<1>2. UNCHANGED <<open, auth, joined, acked, vain>>
  BY DEF HandleRegister, Handled, ghosts
<1>3. CASE users' = users
  BY <1>1, <1>2, <1>3, NothingToTell
<1>4. CASE users' # users
  <2> DEFINE u == Head(batch).user
             n == Cardinality(Registered)
  <2>1. u \in Users /\ users[u] = 0 /\ users' = [users EXCEPT ![u] = n + 1]
    BY <1>4, RegisterNames DEF ServiceInv
  <2>2. /\ Registered' = Registered \union {u}
        /\ \A v \in Users : users'[v] = IF v = u THEN n + 1 ELSE users[v]
    BY <2>1, AddedName DEF ServiceInv, ServerInv, TypeOK
  <2>3. n \in Nat /\ \A v \in Users : users[v] \in 0..n
    BY RegisteredCount DEF ServiceInv, IdsInv
  <2> HIDE DEF u, n
  <2>4. \A f \in Fds : auth[f] # 0 => auth[f] \in 0..n
    BY <2>3 DEF ServiceInv, IdsInv
  <2>5. \A f \in Fds : NamesOf(f)' = NamesOf(f)
    <3> SUFFICES ASSUME NEW f \in Fds, auth[f] # 0
                 PROVE  {v \in Users : users'[v] = auth[f]} = {v \in Users : users[v] = auth[f]}
      BY <1>2 DEF NamesOf
    <3>1. auth[f] # n + 1
      BY <2>3, <2>4
    <3> QED BY <2>1, <2>2, <3>1
  <2>6. LoggedInAs' = LoggedInAs
    BY <2>5 DEF LoggedInAs
  <2>7. InRoom' = InRoom /\ StoredDrawings' = StoredDrawings /\ Settled' = Settled
    BY <1>1, <1>2 DEF InRoom, StoredDrawings, Settled, MayHold
  <2>8. Heard' = {}
    BY <1>1 DEF NothingRelayed, Heard
  <2>9. Service!Register(u)
    BY <1>2, <2>2, <2>6, <2>7, <2>8
       DEF Service!Register, Service!Silent, Service!sessions, Service!rooms
  <2> QED BY <2>1, <2>9
<1> QED BY <1>3, <1>4

\* db_login_user: the id of a name is nobody else's, so the session gets this
\* name and no other.
LEMMA ServiceLogin ==
  ASSUME ServiceInv, HandleLogin
  PROVE  (\E f \in Fds, u \in Users : Service!Login(f, u)) \/ Service!Rest
<1>1. NothingRelayed' /\ projects' = projects
  BY LoginStep DEF ServiceInv
<1>2. UNCHANGED <<open, joined, acked, vain>> /\ serving \in Fds /\ serving \in open
  BY ServedSession DEF HandleLogin, Handling, Handled
<1>3. users' = users
  BY LoginNames DEF ServiceInv
<1>4. CASE auth' = auth
  BY <1>1, <1>2, <1>3, <1>4, NothingToTell
<1>5. CASE auth' # auth
  <2> DEFINE u == Head(batch).user
  <2>1. u \in Registered /\ auth' = [auth EXCEPT ![serving] = users[u]]
    BY <1>5, LoginNames DEF ServiceInv
  <2> HIDE DEF u
  <2>2. /\ u \in Users /\ users[u] # 0
        /\ \A f \in Fds : auth'[f] = IF f = serving THEN users[u] ELSE auth[f]
    BY <2>1 DEF Registered, ServiceInv, ServerInv, TypeOK
  <2>3. \A v \in Users : users[v] = users[u] => v = u
    BY <2>1, <2>2 DEF ServiceInv, IdsInv, Registered
  <2>4. \A f \in Fds : NamesOf(f)' = IF f = serving THEN {u} ELSE NamesOf(f)
    BY <1>2, <1>3, <2>2, <2>3 DEF NamesOf
  <2>5. LoggedInAs' = [LoggedInAs EXCEPT ![serving] = {u}]
    BY <2>4 DEF LoggedInAs
  <2>6. InRoom' = InRoom /\ StoredDrawings' = StoredDrawings /\ Settled' = Settled
    BY <1>1, <1>2 DEF InRoom, StoredDrawings, Settled, MayHold
  <2>7. Registered' = Registered
    BY <1>3 DEF Registered
  <2>8. Heard' = {}
    BY <1>1 DEF NothingRelayed, Heard
  <2>9. Service!Login(serving, u)
    BY <1>2, <2>1, <2>5, <2>6, <2>7, <2>8 DEF Service!Login, Service!Silent, Service!rooms
  <2> QED BY <1>2, <2>2, <2>9
<1> QED BY <1>4, <1>5

\* db_create_project: only for somebody who has logged in, one empty drawing.
LEMMA ServiceCreate ==
  ASSUME ServiceInv, HandleCreateRoom
  PROVE  Service!Create \/ Service!Rest
<1>1. NothingRelayed' /\ UNCHANGED <<open, auth, joined, acked, vain, users>>
  BY CreateRoomStep
     DEF ServiceInv, HandleCreateRoom, Handled, DbCreateProject, dbVars, ghosts
<1>2. CASE projects' = projects
  BY <1>1, <1>2, NothingToTell
<1>3. CASE projects' # projects
  <2>1. PICK uid \in Nat : /\ Len(projects) < MaxProjects
                           /\ projects' = Append(projects, [owner |-> uid, canvas |-> Blank])
    BY <1>3, CreateRoomStep DEF ServiceInv
  <2>2. serving # NoFd /\ clients[me].user # 0
    BY <1>3 DEF HandleCreateRoom, Handling, dbVars
  <2>3. \E f \in Fds : Service!LoggedIn(f)
    BY <2>2, ServedSession DEF Service!LoggedIn
  <2>4. projects \in Seq([owner : Nat, canvas : Canvases \union {Blank}])
    BY DEF ServiceInv, ServerInv, TypeOK, DbTypeOK
  <2>5. /\ Len(projects) \in Nat /\ DOMAIN projects = 1..Len(projects)
        /\ DOMAIN projects' = 1..Len(projects) + 1
        /\ \A p \in 1..Len(projects) : projects'[p] = projects[p]
        /\ projects'[Len(projects) + 1].canvas = Blank
    BY <2>1, <2>4
  <2>6. StoredDrawings' = Append(StoredDrawings, Blank)
    BY <2>5 DEF StoredDrawings
  <2>7. Settled' = Settled
    BY <1>1 DEF Settled, MayHold
  <2>8. LoggedInAs' = LoggedInAs /\ InRoom' = InRoom /\ Registered' = Registered
    BY <1>1 DEF LoggedInAs, NamesOf, InRoom, Registered
  <2>9. Heard' = {}
    BY <1>1 DEF NothingRelayed, Heard
  <2> QED BY <1>1, <2>3, <2>6, <2>7, <2>8, <2>9
          DEF Service!Create, Service!Silent, Service!sessions
<1> QED BY <1>2, <1>3

\* join_room: whoever has logged in is in the room it asked for.
LEMMA ServiceEnter ==
  ASSUME ServiceInv, HandleJoinRoom
  PROVE  (\E f \in Fds, r \in Rooms : Service!Enter(f, r)) \/ Service!Rest
<1>1. NothingRelayed' /\ projects' = projects
  BY JoinRoomStep DEF ServiceInv
<1>2. UNCHANGED <<open, auth, users, acked, vain>> /\ serving # NoFd /\ Head(batch).type = "join_room"
  BY DEF HandleJoinRoom, Handling, Handled, DbGetProjectData, dbVars
<1>3. CASE clients[me].user = 0
  BY <1>1, <1>2, <1>3, NothingToTell DEF HandleJoinRoom
<1>4. CASE clients[me].user # 0
  <2> DEFINE r == Head(batch).room
  <2>1. r \in Rooms
    BY <1>2, Served, RequestsAssumption DEF ServiceInv, AllRequests, Hello
  <2>2. joined' = [joined EXCEPT ![serving] = r]
    BY <1>4 DEF HandleJoinRoom
  <2> HIDE DEF r
  <2>3. serving \in Fds /\ serving \in open /\ LoggedInAs[serving] # {}
    BY <1>2, <1>4, ServedSession
  <2>4. InRoom' = [InRoom EXCEPT ![serving] = r]
    BY <1>2, <2>2, <2>3 DEF InRoom, ServiceInv, ServerInv, TypeOK
  <2>5. LoggedInAs' = LoggedInAs /\ Registered' = Registered
    BY <1>2 DEF LoggedInAs, NamesOf, Registered
  <2>6. StoredDrawings' = StoredDrawings /\ Settled' = Settled
    BY <1>1, <1>2 DEF StoredDrawings, Settled, MayHold
  <2>7. Heard' = {}
    BY <1>1 DEF NothingRelayed, Heard
  <2>8. Service!Enter(serving, r)
    BY <1>2, <2>3, <2>4, <2>5, <2>6, <2>7
       DEF Service!Enter, Service!LoggedIn, Service!Silent, Service!rooms
  <2> QED BY <2>1, <2>3, <2>8
<1> QED BY <1>3, <1>4

\* save_canvas: the drawing of the room that the session is in, and none other.
LEMMA ServiceSave ==
  ASSUME ServiceInv, HandleSaveCanvas
  PROVE  (\E f \in Fds, d \in Canvases, ok \in BOOLEAN : Service!Save(f, d, ok)) \/ Service!Rest
<1>1. NothingRelayed' /\ UNCHANGED <<open, auth, joined, users>> /\ serving # NoFd
  BY SaveCanvasStep
     DEF ServiceInv, HandleSaveCanvas, Handling, Handled, DbSaveProjectData, dbVars
<1>2. CASE projects' = projects /\ UNCHANGED <<acked, vain>>
  BY <1>1, <1>2, NothingToTell
<1>3. CASE ~(projects' = projects /\ UNCHANGED <<acked, vain>>)
  <2> DEFINE r == clients[me].room
  <2>1. PICK c \in Canvases, ok \in BOOLEAN :
          /\ r # 0
          /\ projects' = Stored(r, c) \/ (~ok /\ projects' = projects)
          /\ Recorded(r, c, ok)
    BY <1>3, SaveCanvasStep DEF ServiceInv
  <2>2. r \in Nat
    BY <1>1, Served DEF ServiceInv, ServerInv, TypeOK, Slot
  <2>3. serving \in Fds /\ serving \in open /\ InRoom[serving] = r /\ LoggedInAs[serving] # {}
    BY <1>1, <2>1, ServedSession
  <2> HIDE DEF r
  <2>4. projects \in Seq([owner : Nat, canvas : Canvases \union {Blank}])
        /\ DOMAIN projects = 1..Len(projects)
    BY DEF ServiceInv, ServerInv, TypeOK, DbTypeOK
  <2>5. /\ DOMAIN Stored(r, c) = DOMAIN projects
        /\ \A p \in DOMAIN projects :
             Stored(r, c)[p].canvas = IF p = r THEN c ELSE projects[p].canvas
    <3>1. DbTypeOK
      BY DEF ServiceInv, ServerInv, TypeOK
    <3>2. Stored(r, c) \in Seq([owner : Nat, canvas : Canvases \union {Blank}])
          /\ Len(Stored(r, c)) = Len(projects)
      BY <3>1, StoredType
    <3>3. \A p \in DOMAIN projects :
            Stored(r, c)[p].canvas = IF p = r THEN c ELSE projects[p].canvas
      BY <3>1, StoredType
    <3> QED BY <2>4, <3>2, <3>3
  <2>6. DOMAIN StoredDrawings = DOMAIN projects
    BY DEF StoredDrawings
  <2>7. \/ r \in DOMAIN projects /\ StoredDrawings' = [StoredDrawings EXCEPT ![r] = c]
        \/ ~ (ok /\ r \in DOMAIN projects) /\ StoredDrawings' = StoredDrawings
    <3>1. CASE projects' = projects
      <4>1. r \notin DOMAIN projects \/ ~ok \/ projects' = Stored(r, c)
        BY <2>1
      <4>2. StoredDrawings' = StoredDrawings
        BY <3>1 DEF StoredDrawings
      <4>3. ASSUME r \in DOMAIN projects, projects' = Stored(r, c)
            PROVE  StoredDrawings' = [StoredDrawings EXCEPT ![r] = c]
        BY <2>5, <4>3 DEF StoredDrawings
      <4> QED BY <4>1, <4>2, <4>3
    <3>2. CASE projects' # projects
      <4>1. projects' = Stored(r, c) /\ r \in DOMAIN projects
        BY <2>1, <3>2 DEF Stored
      <4> QED BY <2>5, <4>1 DEF StoredDrawings
    <3> QED BY <3>1, <3>2
  <2>8. Settled' = [Settled EXCEPT ![r] = IF ~ok THEN @ \union {c}
                                          ELSE IF r \in DOMAIN projects THEN {c} ELSE {c, Blank}]
    <3>1. \A p \in 1..MaxProjects :
            MayHold(p)' = IF p # r THEN MayHold(p)
                          ELSE IF ~ok THEN MayHold(p) \union {c}
                          ELSE IF r \in DOMAIN projects THEN {c} ELSE {c, Blank}
      BY <2>1, MayHoldStep DEF ServiceInv
    <3>2. Settled' = [p \in 1..MaxProjects |-> MayHold(p)']
      BY DEF Settled
    <3>3. Settled = [p \in 1..MaxProjects |-> MayHold(p)]
      BY DEF Settled
    <3> HIDE DEF Settled
    <3> QED BY <3>1, <3>2, <3>3
  <2>9. LoggedInAs' = LoggedInAs /\ InRoom' = InRoom /\ Registered' = Registered
    BY <1>1 DEF LoggedInAs, NamesOf, InRoom, Registered
  <2>10. Heard' = {}
    BY <1>1 DEF NothingRelayed, Heard
  <2>11. Service!Save(serving, c, ok)
    BY <1>1, <2>1, <2>3, <2>6, <2>7, <2>8, <2>9, <2>10
       DEF Service!Save, Service!LoggedIn, Service!Silent, Service!sessions
  <2> QED BY <2>3, <2>11
<1> QED BY <1>2, <1>3

\* broadcast_room: the others in the room hear it, but for those whose sockets
\* are full.
LEMMA ServiceSay ==
  ASSUME ServiceInv, NEW type \in Relayed, HandleRelay(type)
  PROVE  \/ \E f \in Fds, x \in [type : Relayed, stroke : Strokes] : Service!Say(f, x)
         \/ Service!Rest
<1>1. /\ serving # NoFd /\ Head(batch).type = type
      /\ UNCHANGED <<open, auth, joined, users, projects, acked, vain>>
  BY DEF HandleRelay, Handling, Handled, dbVars, ghosts
<1>2. CASE clients[me].room = 0
  <2>1. NothingRelayed'
    BY <1>2 DEF HandleRelay, Quiet, NothingRelayed
  <2> QED BY <1>1, <2>1, NothingToTell
<1>3. CASE clients[me].room # 0
  <2> DEFINE r == clients[me].room
             x == Head(batch)
  <2>1. x \in [type : Relayed, stroke : Strokes]
    BY <1>1, Served, RequestShape DEF ServiceInv
  <2>2. SendTo(Audience(serving, r), x)
    BY <1>3 DEF HandleRelay
  <2>3. /\ serving \in Fds /\ serving \in open /\ InRoom[serving] = r
        /\ LoggedInAs[serving] # {} /\ r # 0
    BY <1>1, <1>3, ServedSession
  <2>4. Audience(serving, r) \subseteq Service!Mates(serving)
    <3> SUFFICES ASSUME NEW t \in Slots, clients[t].room = r, clients[t].fd \notin {NoFd, serving}
                 PROVE  clients[t].fd \in Service!Mates(serving)
      BY DEF Audience
    <3> DEFINE f == clients[t].fd
    <3>1. /\ f \in Fds /\ f \in open
          /\ auth[f] # 0 /\ joined[f] = r
      BY <2>3 DEF ServiceInv, ServerInv, TypeOK, Slot, TableInSync, SessionIsOwn
    <3> HIDE DEF f
    <3>2. NamesOf(f) # {}
      BY <3>1 DEF NamesOf, ServiceInv, IdsInv
    <3>3. InRoom[f] = InRoom[serving] /\ LoggedInAs[f] # {}
      BY <2>3, <3>1, <3>2 DEF InRoom, LoggedInAs
    <3>4. f # serving
      BY DEF f
    <3>5. f \in Service!Mates(serving)
      BY <3>1, <3>3, <3>4 DEF Service!Mates
    <3> QED BY <3>5 DEF f
  <2> HIDE DEF x, r
  <2>5. PICK torn \in SUBSET {f \in Audience(serving, r) : unread[f] = SendCap} :
          wire' = [to : {f \in Audience(serving, r) : unread[f] < SendCap}, msg : {x}]
                    \union [to : torn, msg : {Torn}]
    BY <2>2 DEF SendTo
  <2>6. x.type \in Relayed /\ Torn.type \notin Relayed
    BY <2>1 DEF Torn, Relayed
  <2>7. Heard' = [to : {f \in Audience(serving, r) : unread[f] < SendCap}, msg : {x}]
    BY <2>5, <2>6 DEF Heard
  <2>8. \E to \in SUBSET Service!Mates(serving) : Heard' = [to : to, msg : {x}]
    <3>1. {f \in Audience(serving, r) : unread[f] < SendCap} \in SUBSET Service!Mates(serving)
      BY <2>4
    <3> QED BY <2>7, <3>1
  <2>9. LoggedInAs' = LoggedInAs /\ InRoom' = InRoom /\ Registered' = Registered
    BY <1>1 DEF LoggedInAs, NamesOf, InRoom, Registered
  <2>10. StoredDrawings' = StoredDrawings /\ Settled' = Settled
    BY <1>1 DEF StoredDrawings, Settled, MayHold
  <2>11. Service!Say(serving, x)
    BY <1>1, <2>3, <2>8, <2>9, <2>10
       DEF Service!Say, Service!LoggedIn, Service!sessions, Service!rooms
  <2> QED BY <2>1, <2>3, <2>11
<1> QED BY <1>2, <1>3

\* Every step of the server is a step of the service.
LEMMA ServiceStep ==
  ASSUME ServiceInv, Next
  PROVE  Service!Next
<1>1. CASE \/ Peers \/ Database \/ Start \/ EpollWait \/ AcceptFails
           \/ \E f \in Fds, n \in 1..MaxIn : ReadFrames(f, n)
           \/ HandleHello \/ HandleOther \/ HandleListRooms
  BY <1>1, ServiceIdle DEF Service!Next
<1>2. CASE \E f \in Fds : Accept(f)
  BY <1>2, ServiceAccept DEF Service!Next
<1>3. CASE (\E f \in Fds : ReadEnds(f)) \/ HandleHuge
  BY <1>3, ServiceLeave DEF Service!Next
<1>4. CASE HandleLogin \/ HandleRegister
  BY <1>4, ServiceLogin, ServiceRegister DEF Service!Next
<1>5. CASE HandleCreateRoom \/ HandleJoinRoom
  BY <1>5, ServiceCreate, ServiceEnter DEF Service!Next
<1>6. CASE HandleSaveCanvas
  BY <1>6, ServiceSave DEF Service!Next
<1>7. CASE \E type \in Relayed : HandleRelay(type)
  BY <1>7, ServiceSay DEF Service!Next
<1>8. CASE EpollFails \/ HandleNoName
  BY <1>8, ServiceStop DEF Service!Next
<1> QED BY <1>1, <1>2, <1>3, <1>4, <1>5, <1>6, <1>7, <1>8 DEF Next, Server

\* The server begins where the service begins.
LEMMA ServiceInit == Init => Service!Init /\ ServiceInv
<1> SUFFICES ASSUME Init PROVE Service!Init /\ ServiceInv
  OBVIOUS
<1>1. Registered = {} /\ LoggedInAs = [f \in Fds |-> {}] /\ InRoom = [f \in Fds |-> 0]
  BY DEF Init, DbInit, Registered, LoggedInAs, NamesOf, InRoom
<1>2. StoredDrawings = <<>> /\ Settled = [r \in Rooms \ {0} |-> {Blank}]
  <2>1. Rooms \ {0} = 1..MaxProjects
    BY MaxProjectsAssumption DEF Rooms
  <2> QED BY <2>1 DEF Init, DbInit, StoredDrawings, Settled, MayHold
<1>3. Heard = {} /\ open = {}
  BY DEF Init, Heard
<1>4. Service!Init
  BY <1>1, <1>2, <1>3 DEF Service!Init
<1>5. ConfirmedInv
  BY MaxProjectsAssumption DEF Init, DbInit, ConfirmedInv, ConfirmedIsStored, MayHold
<1>6. IdsInv
  <2>1. Cardinality(Registered) \in Nat
    BY RegisteredCount
  <2> QED BY <1>1, <2>1 DEF Init, DbInit, IdsInv
<1> QED BY <1>4, <1>5, <1>6, InitInv DEF ServiceInv

\* server.c with its database, seen from outside, is a room service: sessions
\* that begin and end with their connections, names that belong to one user,
\* edits heard in the room only, and drawings that keep what was confirmed.
THEOREM ImplementsService == Spec => KeepsTheService
<1>1. ServiceInv /\ Next => ServiceInv'
  BY NextInv, ConfirmedStep, IdsStep DEF ServiceInv
<1>2. ServiceInv /\ UNCHANGED vars => ServiceInv' /\ UNCHANGED Service!vars
  <2> SUFFICES ASSUME ServiceInv, UNCHANGED vars
               PROVE  ServiceInv' /\ UNCHANGED Service!vars
    OBVIOUS
  <2>1. UNCHANGED <<open, users, auth, joined, projects, acked, vain, wire>>
    BY DEF vars, dbVars, kernel, sockets, ghosts
  <2>2. ConfirmedInv' /\ IdsInv'
    BY <2>1 DEF ServiceInv, ConfirmedInv, ConfirmedIsStored, MayHold, IdsInv, Registered
  <2>3. /\ LoggedInAs' = LoggedInAs /\ InRoom' = InRoom /\ Registered' = Registered
        /\ StoredDrawings' = StoredDrawings /\ Settled' = Settled /\ Heard' = Heard
    BY <2>1 DEF LoggedInAs, NamesOf, InRoom, Registered, StoredDrawings, Settled, MayHold, Heard
  <2> QED BY <2>1, <2>2, <2>3, StutterInv
          DEF ServiceInv, Service!vars, Service!sessions, Service!rooms
<1>3. ServiceInv /\ [Next]_vars => [Service!Next]_(Service!vars)
  BY <1>2, ServiceStep
<1>4. ServiceInv /\ [Next]_vars => ServiceInv'
  BY <1>1, <1>2
<1> QED BY <1>3, <1>4, ServiceInit, PTL DEF Spec, KeepsTheService, Service!Spec
================================================================================

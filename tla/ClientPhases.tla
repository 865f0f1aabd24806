----------------------------- MODULE ClientPhases -----------------------------
(***************************************************************************)
(* One run of the GUI client (gui_main.c) from the login form over the     *)
(* lobby into a room, against the server's session of its connection and   *)
(* the database of CanvasDb, which others use as well.  `phase' changes in *)
(* on_net_message, the widgets only later in update_ui_idle: between the   *)
(* two the user still has the old widgets, and answers already find the    *)
(* new phase.  Drawing is in Collab; here a connection carries messages in *)
(* order and whole, and may end at any time (ClientStream, ServerStream);  *)
(* what JSON and the buffers do to a message's fields is in Codec.         *)
(***************************************************************************)
EXTENDS CanvasDb, Codec, SequencesExt

CONSTANTS
  Known,       \* users registered before this client starts
  ListMax,     \* LIMIT of the SELECT in db_get_projects
  MaxLines,    \* bound: chat lines of others
  MaxTries,    \* bound: logins and registrations
  MaxUnderWay  \* bound: messages of the connection under way, either direction

ASSUME ClientBoundsAssumption == {ListMax, MaxLines, MaxTries, MaxUnderWay} \subseteq Nat

NoName == "none"    \* an empty entry, username or session
ASSUME NamesAssumption == NoName \notin Users /\ Known \subseteq Users

VARIABLES
  phase,     \* app->phase
  view,      \* the widgets that main_container holds
  idle,      \* update_ui_idle calls added and not yet run
  entry,     \* text of login_entry_user
  mode,      \* buttons of the form: "login" or "register"
  waiting,   \* login_status_label says "Logging in..." or "Registering..."
  username,  \* app->username
  listed,    \* rooms in room_list_store
  chat,      \* others' lines in chat_buffer, by number
  link,      \* "new", "up", "ending" (the server is gone), "down"
  out, in,   \* messages to, and from, the server
  session,   \* server: whom the slot of the connection is logged in as
  room,      \* server: room_id of the slot
  seconds,   \* created_at of each project
  lines,     \* number of lines others sent
  tries,     \* number of logins and registrations sent
  edited     \* ghost: the name was edited with a login under way or after it

form == <<entry, mode, waiting>>
screen == <<phase, view, idle, form, username, listed, chat>>
server == <<session, room>>
world == <<dbVars, seconds, lines>>
vars == <<screen, link, out, in, server, world, tries, edited>>

\* Users registered before have an id each, others none.
Numbered(ids) ==
  \A u \in Users : /\ ids[u] = 0 <=> u \notin Known
                   /\ \A v \in Known \ {u} : ids[u] # ids[v]

Init ==
  /\ users \in {ids \in [Users -> 0..Cardinality(Known)] : Numbered(ids)}
  /\ projects = <<>> /\ conn = "open" /\ mysqld = "up"
  /\ seconds = <<>> /\ lines = 0
  /\ phase = "login" /\ view = "login" /\ idle = 0
  /\ entry = NoName /\ mode = "login" /\ waiting = FALSE /\ username = NoName
  /\ listed = {} /\ chat = <<>>
  /\ link = "new" /\ out = <<>> /\ in = <<>>
  /\ session = NoName /\ room = 0
  /\ tries = 0 /\ edited = FALSE

Plain(type) == [type |-> type]
Answer(type, ok) == [type |-> type, ok |-> ok]

--------------------------------------------------------------------------------
(* The connection *)

\* Another text on login_status_label, which exists until build_lobby_ui.
Told == waiting' = (waiting /\ view # "login")

\* The response to the handshake, or no server to connect to.
Connect ==
  /\ link = "new"
  /\ \/ link' = "up" /\ Told
     \/ link' = "down" /\ UNCHANGED waiting
  /\ UNCHANGED <<phase, view, idle, entry, mode, username, listed, chat, out, in, server,
                 world, tries, edited>>

\* The server dies or closes, the network breaks: what was sent and not
\* handled is lost, what is under way to the client may arrive or not.
LinkBreaks ==
  /\ link = "up" /\ link' = "ending"
  /\ out' = <<>> /\ in' \in {SubSeq(in, 1, n) : n \in 0..Len(in)}
  /\ session' = NoName /\ room' = 0
  /\ UNCHANGED <<screen, world, tries, edited>>

\* on_net_disconnect
Disconnected ==
  /\ link = "ending" /\ in = <<>> /\ link' = "down"
  /\ Told
  /\ UNCHANGED <<phase, view, idle, entry, mode, username, listed, chat, out, in, server,
                 world, tries, edited>>

\* net_client_send: refused when not connected, into nothing when the other
\* side has just gone.
Send(m) == out' = IF link = "up" THEN Append(out, m) ELSE out
Sendable == link \in {"up", "ending"}
RoomForMore == Len(out) + Len(in) < MaxUnderWay

--------------------------------------------------------------------------------
(* The login form: its widgets stay until update_ui_idle has run *)

LoginUnderWay ==
  \/ \E m \in Range(out) : m.type = "login"
  \/ \E m \in Range(in) : m.type = "login_resp"

TypeName(u) ==
  /\ view = "login" /\ entry' = u
  /\ edited' = (edited \/ LoginUnderWay \/ phase # "login")
  /\ UNCHANGED <<phase, view, idle, mode, waiting, username, listed, chat, link, out, in, server,
                 world, tries>>

Switch ==
  /\ view = "login"
  /\ mode' = (IF mode = "login" THEN "register" ELSE "login") /\ waiting' = FALSE
  /\ UNCHANGED <<phase, view, idle, entry, username, listed, chat, link, out, in, server,
                 world, tries, edited>>

\* on_login_clicked, also for Enter in the password, whatever the mode; without
\* a name or a password nothing is sent.
ClickLogin(full, good) ==
  /\ view = "login" /\ tries < MaxTries /\ RoomForMore
  /\ IF entry = NoName \/ ~full
       THEN waiting' = FALSE /\ UNCHANGED <<out, tries>>
       ELSE /\ waiting' = Sendable
            /\ Send([type |-> "login", user |-> entry, good |-> good])
            /\ tries' = tries + 1
  /\ UNCHANGED <<phase, view, idle, entry, mode, username, listed, chat, link, in, server,
                 world, edited>>

\* on_register_submit, the other fields filled in or not.
ClickRegister(full) ==
  /\ view = "login" /\ mode = "register" /\ tries < MaxTries /\ RoomForMore
  /\ IF entry = NoName \/ ~full
       THEN waiting' = FALSE /\ UNCHANGED <<out, tries>>
       ELSE /\ waiting' = Sendable
            /\ Send([type |-> "register", user |-> entry])
            /\ tries' = tries + 1
  /\ UNCHANGED <<phase, view, idle, entry, mode, username, listed, chat, link, in, server,
                 world, edited>>

--------------------------------------------------------------------------------
(* The lobby and the chat *)

ClickRefresh ==
  /\ view = "lobby" /\ Sendable /\ RoomForMore /\ Send(Plain("list_rooms"))
  /\ UNCHANGED <<screen, link, in, server, world, tries, edited>>

ClickCreate ==
  /\ view = "lobby" /\ Sendable /\ RoomForMore /\ Send(Plain("create_room"))
  /\ UNCHANGED <<screen, link, in, server, world, tries, edited>>

ClickJoin(r) ==
  /\ view = "lobby" /\ r \in listed
  /\ Sendable /\ RoomForMore /\ Send([type |-> "join_room", room |-> r])
  /\ UNCHANGED <<screen, link, in, server, world, tries, edited>>

\* clear_container, which forgets the form and the list; build_lobby_ui asks for
\* the list, build_canvas_ui has a new chat_buffer.
UpdateUi ==
  /\ idle > 0 /\ idle' = idle - 1
  /\ view' = phase
  /\ entry' = NoName /\ mode' = "login" /\ waiting' = FALSE /\ listed' = {}
  /\ IF phase = "lobby" THEN Send(Plain("list_rooms")) ELSE out' = out
  /\ chat' = IF phase = "canvas" THEN <<>> ELSE chat
  /\ UNCHANGED <<phase, username, link, in, server, world, tries, edited>>

--------------------------------------------------------------------------------
(* on_net_message *)

Hearing(type) == in # <<>> /\ Head(in).type = type /\ in' = Tail(in)
NotHeard == UNCHANGED <<link, server, world, tries, edited>>

\* Mutant: an answer is taken in every phase.
HearLoginAlways ==
  /\ Hearing("login_resp")
  /\ IF Head(in).ok
       THEN phase' = "lobby" /\ username' = entry /\ idle' = idle + 1 /\ waiting' = waiting
       ELSE waiting' = FALSE /\ UNCHANGED <<phase, username, idle>>
  /\ UNCHANGED <<view, entry, mode, listed, chat, out>> /\ NotHeard

\* Mutant: an error is only logged.
HearLoginSilent ==
  /\ Hearing("login_resp")
  /\ IF phase = "login" /\ Head(in).ok
       THEN phase' = "lobby" /\ username' = entry /\ idle' = idle + 1
       ELSE UNCHANGED <<phase, username, idle>>
  /\ UNCHANGED <<view, form, listed, chat, out>> /\ NotHeard

HearLogin ==
  /\ Hearing("login_resp")
  /\ CASE phase = "login" /\ Head(in).ok ->
            phase' = "lobby" /\ username' = entry /\ idle' = idle + 1 /\ waiting' = waiting
       [] phase = "login" /\ ~Head(in).ok ->
            waiting' = FALSE /\ UNCHANGED <<phase, username, idle>>
       [] OTHER -> UNCHANGED <<phase, username, idle, waiting>>
  /\ UNCHANGED <<view, entry, mode, listed, chat, out>> /\ NotHeard

\* Mutant: the form is emptied for the next user.
HearRegisterClears ==
  /\ Hearing("register_resp")
  /\ IF phase # "login" THEN UNCHANGED form
     ELSE IF Head(in).ok THEN mode' = "login" /\ waiting' = FALSE /\ entry' = NoName
     ELSE waiting' = FALSE /\ UNCHANGED <<mode, entry>>
  /\ UNCHANGED <<phase, view, idle, username, listed, chat, out>> /\ NotHeard

HearRegister ==
  /\ Hearing("register_resp")
  /\ IF phase # "login" THEN UNCHANGED <<mode, waiting>>
     ELSE IF Head(in).ok THEN mode' = "login" /\ waiting' = FALSE
     ELSE waiting' = FALSE /\ UNCHANGED mode
  /\ UNCHANGED <<phase, view, idle, entry, username, listed, chat, out>> /\ NotHeard

HearRoomList ==
  /\ Hearing("room_list")
  /\ listed' = IF phase = "lobby" THEN Head(in).rooms ELSE listed
  /\ UNCHANGED <<phase, view, idle, form, username, chat, out>> /\ NotHeard

\* Mutant: the list is not asked for again.
HearCreatedNoRefresh ==
  /\ Hearing("create_room_resp")
  /\ UNCHANGED <<screen, out>> /\ NotHeard

HearCreated ==
  /\ Hearing("create_room_resp")
  /\ IF phase = "lobby" /\ Sendable THEN Send(Plain("list_rooms")) ELSE out' = out
  /\ UNCHANGED screen /\ NotHeard

\* Mutant: an answer is taken in every phase.
HearJoinedAlways ==
  /\ Hearing("join_room_resp")
  /\ phase' = "canvas" /\ idle' = idle + 1
  /\ UNCHANGED <<view, form, username, listed, chat, out>> /\ NotHeard

HearJoined ==
  /\ Hearing("join_room_resp")
  /\ IF phase = "lobby" THEN phase' = "canvas" /\ idle' = idle + 1
                        ELSE UNCHANGED <<phase, idle>>
  /\ UNCHANGED <<view, form, username, listed, chat, out>> /\ NotHeard

\* Mutant: strcmp without "!= 0".
HearChatOwn ==
  /\ Hearing("chat")
  /\ chat' = IF phase = "canvas" /\ view = "canvas" /\ Head(in).from = username
               THEN Append(chat, Head(in).line) ELSE chat
  /\ UNCHANGED <<phase, view, idle, form, username, listed, out>> /\ NotHeard

\* Nothing is shown of a line from one's own name, in another phase, or when
\* there is no chat_buffer yet.
HearChat ==
  /\ Hearing("chat")
  /\ chat' = IF phase = "canvas" /\ view = "canvas" /\ Head(in).from # username
               THEN Append(chat, Head(in).line) ELSE chat
  /\ UNCHANGED <<phase, view, idle, form, username, listed, out>> /\ NotHeard

--------------------------------------------------------------------------------
(* handle_message, for this connection *)

Serving(type) == out # <<>> /\ Head(out).type = type /\ out' = Tail(out)
Reply(m) == in' = Append(in, m)
Served == UNCHANGED <<screen, link, lines, tries, edited>>

\* Mutant: user_id is set to whatever db_login_user returns.
ServeLoginResets ==
  /\ Serving("login")
  /\ \E id \in 0..Cardinality(Users) :
       /\ DbLogin(Head(out).user, Head(out).good, id)
       /\ session' = IF id > 0 THEN Head(out).user ELSE NoName
       /\ Reply(Answer("login_resp", id > 0))
  /\ UNCHANGED <<room, seconds>> /\ Served

ServeLogin ==
  /\ Serving("login")
  /\ \E id \in 0..Cardinality(Users) :
       /\ DbLogin(Head(out).user, Head(out).good, id)
       /\ session' = IF id > 0 THEN Head(out).user ELSE session
       /\ Reply(Answer("login_resp", id > 0))
  /\ UNCHANGED <<room, seconds>> /\ Served

ServeRegister ==
  /\ Serving("register")
  /\ \E ok \in BOOLEAN : /\ DbRegister(Head(out).user, ok)
                         /\ Reply(Answer("register_resp", ok))
  /\ UNCHANGED <<session, room, seconds>> /\ Served

\* The newest ListMax rows; which ones of the same second is left to MySQL.
Newest(rows) ==
  /\ Cardinality(rows) = IF Len(projects) < ListMax THEN Len(projects) ELSE ListMax
  /\ \A p \in rows, q \in DOMAIN projects \ rows : seconds[p] >= seconds[q]

\* A query that fails counts no rows.  This client never gets the error
\* (PhasesAgree).
ServeListRooms ==
  /\ Serving("list_rooms")
  /\ IF session = NoName
       THEN Reply(Plain("error")) /\ UNCHANGED dbVars
       ELSE \E ok \in BOOLEAN, rows \in SUBSET DOMAIN projects :
              /\ DbGetProjects(ok)
              /\ IF ok THEN Newest(rows) ELSE rows = {}
              /\ Reply([type |-> "room_list", rooms |-> rows])
  /\ UNCHANGED <<session, room, seconds>> /\ Served

\* created_at counts seconds: a row may have that of the row before it.
Created(uid, ok) ==
  /\ DbCreateProject(uid, ok)
  /\ IF Len(projects') = Len(projects) THEN seconds' = seconds
     ELSE \E second \in IF seconds = <<>> THEN {0} ELSE {Last(seconds), Last(seconds) + 1} :
            seconds' = Append(seconds, second)

\* Without a session there is no answer at all.
ServeCreateRoom ==
  /\ Serving("create_room")
  /\ IF session = NoName
       THEN UNCHANGED <<in, dbVars, seconds>>
       ELSE \E ok \in BOOLEAN :
              /\ Created(users[session], ok)
              /\ Reply(Answer("create_room_resp", ok))
  /\ UNCHANGED <<session, room>> /\ Served

\* The answer comes whatever the query for the drawing makes of it; the
\* drawing itself is in Collab.
ServeJoinRoom ==
  /\ Serving("join_room")
  /\ IF session = NoName
       THEN UNCHANGED <<in, room, dbVars>>
       ELSE /\ room' = Head(out).room
            /\ \E data \in Canvases \union {Blank, NoStrokes} :
                 DbGetProjectData(Head(out).room, data)
            /\ Reply(Answer("join_room_resp", TRUE))
  /\ UNCHANGED <<session, seconds>> /\ Served

--------------------------------------------------------------------------------
(* Other clients *)

\* broadcast_room; the sender may use the same name, or one never registered.
OthersChat(u) ==
  /\ link = "up" /\ room # 0 /\ lines < MaxLines /\ lines' = lines + 1 /\ RoomForMore
  /\ in' = Append(in, [type |-> "chat", from |-> u, line |-> lines'])
  /\ UNCHANGED <<screen, link, out, server, dbVars, seconds, tries, edited>>

\* Rooms made before are as good as made now.
OthersCreate ==
  /\ link = "up" /\ phase = "lobby"
  /\ Created(0, TRUE)
  /\ UNCHANGED <<screen, link, out, in, server, lines, tries, edited>>

\* Somebody saves a drawing (which one is left out): the one call that
\* reconnects to MySQL when a statement has found the connection lost.
OthersSave ==
  /\ link = "up" /\ conn = "lost" /\ Reconnected(TRUE, TRUE)
  /\ UNCHANGED <<users, projects, mysqld>>
  /\ UNCHANGED <<screen, link, out, in, server, seconds, lines, tries, edited>>

--------------------------------------------------------------------------------
Hear ==
  HearLogin \/ HearRegister \/ HearRoomList \/ HearCreated \/ HearJoined \/ HearChat

Serve == ServeLogin \/ ServeRegister \/ ServeListRooms \/ ServeCreateRoom \/ ServeJoinRoom

User ==
  \/ \E u \in Users \union {NoName} : TypeName(u)
  \/ Switch
  \/ \E full, good \in BOOLEAN : ClickLogin(full, good)
  \/ \E full \in BOOLEAN : ClickRegister(full)
  \/ ClickRefresh \/ ClickCreate \/ \E r \in 1..MaxProjects : ClickJoin(r)

Others ==
  \/ \E u \in Users : OthersChat(u)
  \/ OthersCreate \/ OthersSave

Next == User \/ Hear \/ UpdateUi \/ Connect \/ LinkBreaks \/ Disconnected \/ Serve \/ Others

Spec == Init /\ [][Next]_vars

\* Both event loops run and the kernel reports a connection that has ended;
\* users, the network and MySQL do as they please.
FairSpec ==
  /\ Spec
  /\ WF_vars(Hear) /\ WF_vars(UpdateUi) /\ WF_vars(Disconnected) /\ WF_vars(Serve)

--------------------------------------------------------------------------------
(* Properties *)

Names == Users \union {NoName}
Rooms == 1..MaxProjects
Requests ==
  [type : {"login"}, user : Users, good : BOOLEAN] \union [type : {"register"}, user : Users]
    \union [type : {"list_rooms", "create_room"}] \union [type : {"join_room"}, room : Rooms]
Replies ==
  [type : {"login_resp", "register_resp", "create_room_resp", "join_room_resp"}, ok : BOOLEAN]
    \union [type : {"room_list"}, rooms : SUBSET Rooms]
    \union [type : {"chat"}, from : Names, line : 1..MaxLines]

TypeOK ==
  /\ DbTypeOK /\ Len(projects) <= MaxProjects
  /\ seconds \in Seq(Nat) /\ Len(seconds) = Len(projects) /\ lines \in 0..MaxLines
  /\ {phase, view} \subseteq {"login", "lobby", "canvas"} /\ idle \in 0..1
  /\ {entry, username, session} \subseteq Names /\ mode \in {"login", "register"}
  /\ waiting \in BOOLEAN /\ listed \subseteq Rooms /\ chat \in Seq(1..MaxLines)
  /\ link \in {"new", "up", "ending", "down"}
  /\ out \in Seq(Requests) /\ in \in Seq(Replies) /\ room \in Rooms \union {0}
  /\ edited \in BOOLEAN

\* The callback that rebuilds the window is added once per change of phase and
\* finds it as it left it; a room list, which is written to the lobby's store
\* when the phase is right, never comes before the store exists.
ViewFollowsPhase ==
  /\ idle = 0 <=> view = phase
  /\ <<view, phase>> \in {<<"login", "login">>, <<"login", "lobby">>, <<"lobby", "lobby">>,
                          <<"lobby", "canvas">>, <<"canvas", "canvas">>}
  /\ phase = "lobby" /\ view = "login" => \A m \in Range(in) : m.type # "room_list"

\* Whoever has left the login form is logged in at the server as long as the
\* connection stands, also if login was sent more than once: no request from
\* the lobby goes unanswered for want of a session.
SessionFollowsPhase == phase # "login" /\ link = "up" => session # NoName

\* Requests are on a connection that stands, answers on one that did; there is
\* none before the login.
LinkAgrees ==
  /\ link # "up" => out = <<>>
  /\ link \in {"new", "down"} => in = <<>>
  /\ link = "new" => phase = "login"

\* Nothing of the lobby is asked, or answered, while the form is still shown.
LobbyRequests == {"list_rooms", "create_room", "join_room"}
LobbyReplies == {"room_list", "create_room_resp", "join_room_resp"}
FormAlone ==
  view = "login" => /\ \A m \in Range(out) : m.type \notin LobbyRequests
                    /\ \A m \in Range(in) : m.type \notin LobbyReplies

\* A login that succeeded is answered with the session already there.
LoggedIn == Answer("login_resp", TRUE) \in Range(in)
SessionAnswered == link = "up" /\ LoggedIn => session # NoName

PhasesAgree ==
  TypeOK /\ LinkAgrees /\ FormAlone /\ ViewFollowsPhase /\ SessionAnswered /\ SessionFollowsPhase

\* The client takes its name from the form when the answer comes, not when it
\* asks; it is the name the server knows unless the user edited the form in
\* between, or before the lobby had replaced it.
NameIsSessions == phase # "login" /\ link = "up" /\ ~edited => username = session

\* Why that is so: until then every login under way has the name in the form,
\* which a success under way has made the session's; later, the client's name,
\* which is in the form as long as there is one.
LoginsAreFor(u) == \A m \in Range(out) : m.type = "login" => m.user = u
NameUnderWay ==
  link = "up" /\ ~edited =>
    IF phase = "login" THEN LoginsAreFor(entry) /\ (LoggedIn => session = entry)
    ELSE LoginsAreFor(username) /\ (view = "login" => entry = username)

NamesAgree == NameIsSessions /\ NameUnderWay

\* What the chat shows is never taken back: the room's view is built once,
\* however often Join was clicked.
ChatKept == [][view = "canvas" => IsPrefix(chat, chat')]_vars

\* "Logging in..." and "Registering..." give way to an answer, an error or the
\* lobby, also when the database fails or the connection ends.
AnswerShown == waiting /\ view = "login" ~> ~waiting \/ view # "login"

\* A line from another name that is under way when the room's view is there is
\* shown; one that comes before is not.
ChatShown ==
  \A i \in 1..MaxLines :
    (view = "canvas" /\ \E m \in Range(in) : /\ m.type = "chat" /\ m.line = i
                                            /\ m.from # username)
      ~> i \in Range(chat) \/ link # "up"

\* When this client is told that a room was created, the room it created comes
\* to its list, unless the user goes on to a room, the connection or MySQL's
\* ends, or the list is full of rooms that are not older.
Crowded(p) ==
  /\ p \in DOMAIN projects
  /\ Cardinality({q \in DOMAIN projects \ {p} : seconds[q] >= seconds[p]}) >= ListMax
CreatedRoomListed ==
  \A p \in Rooms :
    /\ p \in DOMAIN projects /\ projects[p].owner # 0
    /\ Answer("create_room_resp", TRUE) \in Range(in)
    ~> p \in listed \/ phase = "canvas" \/ link # "up" \/ conn # "open" \/ Crowded(p)

--------------------------------------------------------------------------------
(* The formulas of Codec have no state: TLC, which would evaluate them in   *)
(* each one, is asked for them in the initial state alone.                  *)

AtStart(formula) ==
  link = "new" /\ view = "login" /\ entry = NoName /\ mode = "login" /\ projects = <<>>
    /\ mysqld = "up" => formula

\* A stroke comes back from a message and from a file as it was (StrokesSurvive).
StrokesAtStart == AtStart(StrokesSurvive)

\* Names and chat lines arrive, whatever is in unset bytes (TextsArrive).
TextsAtStart == AtStart(TextsArrive)
===============================================================================

-------------------------- MODULE ClientPhasesProofs --------------------------
(***************************************************************************)
(* The window, the session and the name of a client agree in every         *)
(* reachable state of ClientPhases (PhasesAgree, NamesAgree), and its chat *)
(* is never taken back (ChatKept): for any users, rooms and lines, any     *)
(* number of logins and any number of messages under way.  And what Codec  *)
(* says of strokes and texts, for every one of them.                       *)
(***************************************************************************)
EXTENDS ClientPhases, TLAPS, FiniteSetTheorems, SequenceTheorems

--------------------------------------------------------------------------------
(* Queues and what is in them *)

LEMMA RangeFacts ==
  ASSUME NEW S, NEW q \in Seq(S)
  PROVE  /\ Range(q) \subseteq S /\ Len(q) \in Nat
         /\ q = <<>> <=> Range(q) = {}
         /\ q # <<>> => /\ Head(q) \in Range(q) /\ Head(q) \in S
                        /\ Tail(q) \in Seq(S) /\ Range(Tail(q)) \subseteq Range(q)
<1>1. Range(q) = {q[i] : i \in 1..Len(q)} /\ Len(q) \in Nat /\ Range(q) \subseteq S
  BY RangeEquality, RangeOfSeq, LenProperties
<1>2. q = <<>> <=> Len(q) = 0
  BY EmptySeq
<1>3. q = <<>> <=> Range(q) = {}
  <2>1. q # <<>> => 1 \in 1..Len(q)
    BY <1>1, <1>2
  <2>2. q = <<>> => 1..Len(q) = {}
    BY <1>2
  <2> QED BY <1>1, <2>1, <2>2
<1>4. ASSUME q # <<>>
      PROVE  /\ Head(q) \in Range(q) /\ Head(q) \in S
             /\ Tail(q) \in Seq(S) /\ Range(Tail(q)) \subseteq Range(q)
  <2>1. /\ Head(q) = q[1] /\ Tail(q) \in Seq(S) /\ Len(Tail(q)) = Len(q) - 1
        /\ \A i \in 1..(Len(q) - 1) : Tail(q)[i] = q[i + 1]
    BY <1>4, HeadTailProperties
  <2>2. 1 \in 1..Len(q)
    BY <1>1, <1>2, <1>4
  <2>3. Range(Tail(q)) = {Tail(q)[i] : i \in 1..(Len(q) - 1)}
    BY <2>1, RangeEquality
  <2>4. \A i \in 1..(Len(q) - 1) : i + 1 \in 1..Len(q)
    BY <1>1
  <2> QED BY <1>1, <2>1, <2>2, <2>3, <2>4
<1> QED BY <1>1, <1>3, <1>4

LEMMA RangeAppend ==
  ASSUME NEW S, NEW q \in Seq(S), NEW m \in S
  PROVE  /\ Append(q, m) \in Seq(S) /\ Len(Append(q, m)) = Len(q) + 1
         /\ Range(Append(q, m)) = Range(q) \union {m}
<1>1. /\ Append(q, m) \in Seq(S) /\ Len(Append(q, m)) = Len(q) + 1 /\ Len(q) \in Nat
      /\ Append(q, m)[Len(q) + 1] = m /\ \A i \in 1..Len(q) : Append(q, m)[i] = q[i]
  BY AppendProperties, LenProperties
<1>2. /\ Range(Append(q, m)) = {Append(q, m)[i] : i \in 1..(Len(q) + 1)}
      /\ Range(q) = {q[i] : i \in 1..Len(q)}
  BY <1>1, RangeEquality
<1>3. \A i \in 1..(Len(q) + 1) : i = Len(q) + 1 \/ i \in 1..Len(q)
  BY <1>1
<1>4. Len(q) + 1 \in 1..(Len(q) + 1) /\ 1..Len(q) \subseteq 1..(Len(q) + 1)
  BY <1>1
<1> QED BY <1>1, <1>2, <1>3, <1>4

\* The first n messages of a queue.
LEMMA RangePart ==
  ASSUME NEW S, NEW q \in Seq(S), NEW n \in 0..Len(q)
  PROVE  SubSeq(q, 1, n) \in Seq(S) /\ Range(SubSeq(q, 1, n)) \subseteq Range(q)
<1> DEFINE p == SubSeq(q, 1, n)
<1>1. Len(q) \in Nat /\ n \in Nat /\ \A i \in 1..Len(q) : q[i] \in S
  BY LenProperties, ElementOfSeq
<1>2. \A i \in 1..n : i \in 1..Len(q) /\ q[i] \in S
  BY <1>1
<1>3. p \in Seq(S) /\ Len(p) = n /\ \A i \in 1..n : p[i] = q[i]
  BY <1>1, <1>2, SubSeqProperties
<1> HIDE DEF p
<1>4. Range(p) = {p[i] : i \in 1..n} /\ Range(q) = {q[i] : i \in 1..Len(q)}
  BY <1>3, RangeEquality
<1>5. Range(p) \subseteq Range(q)
  BY <1>2, <1>3, <1>4
<1> QED BY <1>3, <1>5 DEF p

\* A line at the end takes no other back.
LEMMA PrefixFacts ==
  ASSUME NEW S, NEW q \in Seq(S)
  PROVE  /\ IsPrefix(q, q)
         /\ \A m \in S : IsPrefix(q, Append(q, m))
<1>1. Len(q) \in Nat /\ \A i \in 1..Len(q) : q[i] \in S
  BY LenProperties, ElementOfSeq
<1>2. IsPrefix(q, q)
  BY <1>1 DEF IsPrefix
<1>3. ASSUME NEW m \in S PROVE IsPrefix(q, Append(q, m))
  <2> DEFINE p == Append(q, m)
             a == SubSeq(q, 1, Len(q))
             b == SubSeq(p, 1, Len(q))
  <2>1. /\ p \in Seq(S) /\ Len(p) = Len(q) + 1
        /\ \A i \in 1..Len(q) : p[i] = q[i]
    BY AppendProperties
  <2>2. a \in Seq(S) /\ Len(a) = Len(q) /\ \A i \in 1..Len(q) : a[i] = q[i]
    BY <1>1, SubSeqProperties
  <2>3. \A i \in 1..Len(q) : p[i] \in S
    BY <1>1, <2>1
  <2> HIDE DEF p, a
  <2>4. b \in Seq(S) /\ Len(b) = Len(q) /\ \A i \in 1..Len(q) : b[i] = p[i]
    BY <1>1, <2>1, <2>3, SubSeqProperties
  <2> HIDE DEF b
  <2>5. \A i \in 1..Len(a) : a[i] = b[i]
    BY <2>1, <2>2, <2>4
  <2>6. a = b
    BY <2>2, <2>4, <2>5, SeqEqual
  <2> QED BY <1>1, <2>1, <2>6 DEF IsPrefix, a, b, p
<1> QED BY <1>2, <1>3

--------------------------------------------------------------------------------
(* Messages, and the calls of the database *)

LEMMA RequestShape ==
  ASSUME NEW m \in Requests
  PROVE  /\ m.type \in {"login", "register"} => m.user \in Users
         /\ m.type = "join_room" => m.room \in Rooms
BY DEF Requests

LEMMA ReplyShape ==
  ASSUME NEW m \in Replies
  PROVE  /\ m.type = "login_resp" => m.ok \in BOOLEAN /\ m = Answer("login_resp", m.ok)
         /\ m.type = "register_resp" => m.ok \in BOOLEAN
         /\ m.type = "room_list" => m.rooms \subseteq Rooms
         /\ m.type = "chat" => m.line \in 1..MaxLines
<1>1. \/ m \in [type : {"login_resp", "register_resp", "create_room_resp", "join_room_resp"},
                ok : BOOLEAN]
      \/ m \in [type : {"room_list"}, rooms : SUBSET Rooms]
      \/ m \in [type : {"chat"}, from : Names, line : 1..MaxLines]
  BY DEF Replies
<1>2. m.type = "login_resp" => m = [type |-> "login_resp", ok |-> m.ok] /\ m.ok \in BOOLEAN
  BY <1>1
<1> QED BY <1>1, <1>2 DEF Answer

LEMMA AnswerType ==
  ASSUME NEW ok \in BOOLEAN,
         NEW t \in {"login_resp", "register_resp", "create_room_resp", "join_room_resp"}
  PROVE  Answer(t, ok) \in Replies /\ Answer(t, ok).type = t /\ Answer(t, ok).ok = ok
BY DEF Answer, Replies

\* What a statement leaves in the handle.
LEMMA StatementConn ==
  ASSUME DbTypeOK, NEW ok, NEW done, Statement(ok, done)
  PROVE  conn' \in {"open", "lost", "null", "freed", "fault"}
BY DEF DbTypeOK, Statement, Touched, Answers

\* A new user gets a number; nothing else changes in the tables.
LEMMA RegisterType ==
  ASSUME DbTypeOK, NEW u \in Users, NEW ok, DbRegister(u, ok)
  PROVE  DbTypeOK' /\ projects' = projects
<1>1. conn' \in {"open", "lost", "null", "freed", "fault"}
  BY StatementConn DEF DbRegister
<1>2. IsFiniteSet(Registered)
  BY UsersAssumption, FS_Subset DEF Registered
<1>3. Cardinality(Registered) + 1 \in Nat
  BY <1>2, FS_CardinalityType
<1>4. users' \in [Users -> Nat]
  BY <1>3 DEF DbRegister, DbTypeOK
<1> QED BY <1>1, <1>4 DEF DbRegister, DbTypeOK

\* The queries change no row.
LEMMA QueryType ==
  ASSUME DbTypeOK, NEW ok, NEW done, Statement(ok, done), UNCHANGED <<users, projects, mysqld>>
  PROVE  DbTypeOK'
BY StatementConn DEF DbTypeOK

\* A new room is one more row, with the time it was made.
LEMMA CreatedType ==
  ASSUME DbTypeOK, Len(projects) <= MaxProjects, seconds \in Seq(Nat),
         Len(seconds) = Len(projects), NEW uid \in Nat, NEW ok, Created(uid, ok)
  PROVE  /\ DbTypeOK' /\ Len(projects') <= MaxProjects
         /\ seconds' \in Seq(Nat) /\ Len(seconds') = Len(projects')
<1> DEFINE Row == [owner : Nat, canvas : Canvases \union {Blank}]
           row == [owner |-> uid, canvas |-> Blank]
<1>1. DbCreateProject(uid, ok)
  BY DEF Created
<1>2. conn' \in {"open", "lost", "null", "freed", "fault"}
  BY <1>1, StatementConn DEF DbCreateProject
<1>3. \/ projects' = projects
      \/ Len(projects) < MaxProjects /\ projects' = Append(projects, row)
  BY <1>1 DEF DbCreateProject
<1>4. row \in Row /\ projects \in Seq(Row)
  BY DEF DbTypeOK
<1> HIDE DEF Row, row
<1>5. Append(projects, row) \in Seq(Row) /\ Len(Append(projects, row)) = Len(projects) + 1
      /\ Len(projects) \in Nat
  BY <1>4, AppendProperties, LenProperties
<1>6. projects' \in Seq(Row) /\ Len(projects') <= MaxProjects
  BY <1>3, <1>4, <1>5, MaxProjectsAssumption
<1>7. DbTypeOK'
  BY <1>1, <1>2, <1>6 DEF DbCreateProject, DbTypeOK, Row
<1>8. CASE projects' = projects
  <2>1. seconds' = seconds
    BY <1>8 DEF Created
  <2> QED BY <1>6, <1>7, <1>8, <2>1
<1>9. CASE projects' = Append(projects, row)
  <2>1. Len(projects') # Len(projects)
    BY <1>5, <1>9
  <2>2. PICK second \in IF seconds = <<>> THEN {0} ELSE {Last(seconds), Last(seconds) + 1} :
          seconds' = Append(seconds, second)
    BY <2>1 DEF Created
  <2>3. second \in Nat
    <3>1. CASE seconds = <<>> BY <2>2, <3>1
    <3>2. CASE seconds # <<>>
      <4>1. Len(seconds) \in 1..Len(seconds)
        BY <3>2, EmptySeq, LenProperties
      <4>2. Last(seconds) \in Nat
        BY <4>1, ElementOfSeq DEF Last
      <4> QED BY <2>2, <3>2, <4>2
    <3> QED BY <3>1, <3>2
  <2>4. seconds' \in Seq(Nat) /\ Len(seconds') = Len(seconds) + 1
    BY <2>2, <2>3, AppendProperties
  <2> QED BY <1>5, <1>6, <1>7, <1>9, <2>4
<1> QED BY <1>3, <1>8, <1>9

--------------------------------------------------------------------------------
(* The invariant, its parts without the types, and the steps of a connection *)

ClientInv == PhasesAgree /\ NamesAgree

Parts ==
  /\ LinkAgrees /\ FormAlone /\ ViewFollowsPhase
  /\ SessionAnswered /\ SessionFollowsPhase /\ NameIsSessions /\ NameUnderWay

LEMMA ClientParts == (ClientInv <=> TypeOK /\ Parts)
BY DEF ClientInv, PhasesAgree, NamesAgree, Parts

LEMMA ClientPartsNext == (ClientInv' <=> TypeOK' /\ Parts')
BY DEF ClientInv, PhasesAgree, NamesAgree, Parts

LEMMA InitClient == Init => ClientInv
<1> SUFFICES ASSUME Init PROVE ClientInv
  OBVIOUS
<1>1. <<>> \in Seq(Requests) /\ <<>> \in Seq(Replies) /\ <<>> \in Seq(Nat) /\ Len(<<>>) = 0
      /\ <<>> \in Seq(1..MaxLines) /\ <<>> \in Seq([owner : Nat, canvas : Canvases \union {Blank}])
      /\ Range(<<>>) = {}
  BY EmptySeq, RangeFacts
<1>2. users \in [Users -> Nat]
  BY DEF Init
<1>3. DbTypeOK
  BY <1>1, <1>2 DEF Init, DbTypeOK
<1>4. 0 <= MaxProjects /\ 0 \in 0..MaxLines
  BY MaxProjectsAssumption, ClientBoundsAssumption
<1>5. TypeOK
  <2>1. /\ projects = <<>> /\ seconds = <<>> /\ lines = 0 /\ chat = <<>> /\ out = <<>> /\ in = <<>>
        /\ phase = "login" /\ view = "login" /\ idle = 0 /\ entry = NoName /\ mode = "login"
        /\ waiting = FALSE /\ username = NoName /\ session = NoName /\ listed = {}
        /\ link = "new" /\ room = 0 /\ edited = FALSE
    BY DEF Init
  <2>2. Len(projects) <= MaxProjects /\ seconds \in Seq(Nat) /\ Len(seconds) = Len(projects)
        /\ lines \in 0..MaxLines /\ chat \in Seq(1..MaxLines)
        /\ out \in Seq(Requests) /\ in \in Seq(Replies)
    BY <1>1, <1>4, <2>1
  <2>3. {phase, view} \subseteq {"login", "lobby", "canvas"} /\ idle \in 0..1
    BY <2>1
  <2>4. {entry, username, session} \subseteq Names /\ mode \in {"login", "register"}
    BY <2>1 DEF Names
  <2>5. waiting \in BOOLEAN /\ listed \subseteq Rooms /\ room \in Rooms \union {0}
    BY <2>1
  <2>6. edited \in BOOLEAN /\ link \in {"new", "up", "ending", "down"}
    BY <2>1
  <2> QED BY <1>3, <2>2, <2>3, <2>4, <2>5, <2>6 DEF TypeOK
<1>6. Parts
  BY <1>1 DEF Init, Parts, LinkAgrees, FormAlone, ViewFollowsPhase, SessionAnswered,
     SessionFollowsPhase, NameIsSessions, NameUnderWay, LoginsAreFor, LoggedIn
<1> QED BY <1>5, <1>6, ClientParts

LEMMA QueueTypes ==
  ASSUME TypeOK
  PROVE  /\ out \in Seq(Requests) /\ Range(out) \subseteq Requests
         /\ out = <<>> <=> Range(out) = {}
         /\ in \in Seq(Replies) /\ Range(in) \subseteq Replies
         /\ in = <<>> <=> Range(in) = {}
BY RangeFacts DEF TypeOK

\* What the network library takes, and when.
LEMMA SendFacts ==
  ASSUME TypeOK, NEW m \in Requests, Send(m)
  PROVE  /\ out' \in Seq(Requests)
         /\ \A x \in Range(out') : x \in Range(out) \/ (x = m /\ link = "up")
BY QueueTypes, RangeAppend DEF Send

LEMMA ServingFacts ==
  ASSUME TypeOK, LinkAgrees, NEW t, Serving(t)
  PROVE  /\ out' \in Seq(Requests) /\ \A x \in Range(out') : x \in Range(out)
         /\ Head(out) \in Range(out) /\ Head(out) \in Requests /\ Head(out).type = t
         /\ link = "up"
BY QueueTypes, RangeFacts DEF Serving, LinkAgrees

LEMMA HearingFacts ==
  ASSUME TypeOK, LinkAgrees, NEW t, Hearing(t)
  PROVE  /\ in' \in Seq(Replies) /\ \A x \in Range(in') : x \in Range(in)
         /\ Head(in) \in Range(in) /\ Head(in) \in Replies /\ Head(in).type = t
         /\ link \in {"up", "ending"}
BY QueueTypes, RangeFacts DEF Hearing, LinkAgrees, TypeOK

LEMMA ReplyFacts ==
  ASSUME TypeOK, NEW m \in Replies, Reply(m)
  PROVE  /\ in' \in Seq(Replies)
         /\ \A x \in Range(in') : x \in Range(in) \/ x = m
BY QueueTypes, RangeAppend DEF Reply

\* Steps that leave the phase, the window, the name and the session alone: what
\* they send is not of the lobby while the form is shown, a login is for the
\* name in the form, and no success of a login is answered.
LEMMA PartsStay ==
  ASSUME TypeOK, TypeOK', Parts,
         UNCHANGED <<phase, view, idle, entry, username, link, session, edited>>,
         \A m \in Range(out') :
           m \in Range(out)
             \/ /\ link = "up" /\ (view = "login" => m.type \notin LobbyRequests)
                /\ m.type = "login" => m.user = entry /\ view = "login",
         \A m \in Range(in') :
           m \in Range(in)
             \/ /\ link = "up" /\ m # Answer("login_resp", TRUE)
                /\ view = "login" => m.type \notin LobbyReplies
  PROVE  Parts'
<1>1. /\ out = <<>> <=> Range(out) = {}
      /\ out' = <<>> <=> Range(out') = {}
      /\ in = <<>> <=> Range(in) = {}
      /\ in' = <<>> <=> Range(in') = {}
  BY QueueTypes, RangeFacts DEF TypeOK
<1>2. LinkAgrees'
  BY <1>1 DEF Parts, LinkAgrees
<1>3. FormAlone'
  BY DEF Parts, FormAlone
<1>4. ViewFollowsPhase'
  BY DEF Parts, ViewFollowsPhase, FormAlone, LobbyReplies
<1>5. SessionAnswered' /\ (link = "up" /\ LoggedIn' => LoggedIn)
  BY DEF Parts, SessionAnswered, LoggedIn, Answer
<1>6. SessionFollowsPhase' /\ NameIsSessions'
  BY DEF Parts, SessionFollowsPhase, NameIsSessions
<1>7. NameUnderWay'
  <2>1. SUFFICES ASSUME link = "up", ~ edited
                 PROVE  IF phase = "login" THEN LoginsAreFor(entry)' /\ (LoggedIn' => session = entry)
                        ELSE LoginsAreFor(username)' /\ (view = "login" => entry = username)
    BY DEF NameUnderWay, LoginsAreFor
  <2>2. IF phase = "login" THEN LoginsAreFor(entry) /\ (LoggedIn => session = entry)
        ELSE LoginsAreFor(username) /\ (view = "login" => entry = username)
    BY <2>1 DEF Parts, NameUnderWay
  <2>3. CASE phase = "login"
    BY <1>5, <2>1, <2>2, <2>3 DEF LoginsAreFor
  <2>4. CASE phase # "login"
    BY <2>1, <2>2, <2>4 DEF LoginsAreFor
  <2> QED BY <2>3, <2>4
<1> QED BY <1>2, <1>3, <1>4, <1>5, <1>6, <1>7 DEF Parts

--------------------------------------------------------------------------------
(* The connection *)

LEMMA ConnectInv == ClientInv /\ Connect => ClientInv'
<1> SUFFICES ASSUME ClientInv, Connect PROVE ClientInv'
  OBVIOUS
<1>1. TypeOK /\ Parts
  BY ClientParts
<1>2. /\ link = "new" /\ link' \in {"up", "down"} /\ waiting' \in BOOLEAN
      /\ UNCHANGED <<phase, view, idle, entry, mode, username, listed, chat, out, in, session, room,
                     users, projects, conn, mysqld, seconds, lines, tries, edited>>
  BY <1>1 DEF Connect, Told, server, world, dbVars, TypeOK
<1>3. TypeOK'
  BY <1>1, <1>2 DEF TypeOK, DbTypeOK
<1>4. phase = "login" /\ out = <<>> /\ in = <<>> /\ Range(out) = {} /\ Range(in) = {}
  BY <1>1, <1>2, QueueTypes DEF Parts, LinkAgrees
<1>5. Parts'
  BY <1>1, <1>2, <1>4 DEF Parts, LinkAgrees, FormAlone, ViewFollowsPhase, SessionAnswered,
     SessionFollowsPhase, NameIsSessions, NameUnderWay, LoginsAreFor, LoggedIn
<1> QED BY <1>3, <1>5, ClientPartsNext

LEMMA LinkBreaksInv == ClientInv /\ LinkBreaks => ClientInv'
<1> SUFFICES ASSUME ClientInv, LinkBreaks PROVE ClientInv'
  OBVIOUS
<1>1. TypeOK /\ Parts
  BY ClientParts
<1>2. PICK n \in 0..Len(in) : in' = SubSeq(in, 1, n)
  BY DEF LinkBreaks
<1>3. /\ link = "up" /\ link' = "ending" /\ out' = <<>> /\ session' = NoName /\ room' = 0
      /\ UNCHANGED <<phase, view, idle, entry, mode, waiting, username, listed, chat,
                     users, projects, conn, mysqld, seconds, lines, tries, edited>>
  BY DEF LinkBreaks, screen, form, world, dbVars
<1>4. in' \in Seq(Replies) /\ Range(in') \subseteq Range(in)
  BY <1>1, <1>2, RangePart DEF TypeOK
<1>5. out' \in Seq(Requests) /\ Range(out') = {}
  BY <1>3, EmptySeq, RangeFacts
<1>6. TypeOK'
  BY <1>1, <1>3, <1>4, <1>5 DEF TypeOK, DbTypeOK, Names
<1>7. Parts'
  BY <1>1, <1>3, <1>4, <1>5 DEF Parts, LinkAgrees, FormAlone, ViewFollowsPhase, SessionAnswered,
     SessionFollowsPhase, NameIsSessions, NameUnderWay
<1> QED BY <1>6, <1>7, ClientPartsNext

LEMMA DisconnectedInv == ClientInv /\ Disconnected => ClientInv'
<1> SUFFICES ASSUME ClientInv, Disconnected PROVE ClientInv'
  OBVIOUS
<1>1. TypeOK /\ Parts
  BY ClientParts
<1>2. /\ link = "ending" /\ link' = "down" /\ waiting' \in BOOLEAN /\ in = <<>>
      /\ UNCHANGED <<phase, view, idle, entry, mode, username, listed, chat, out, in, session, room,
                     users, projects, conn, mysqld, seconds, lines, tries, edited>>
  BY <1>1 DEF Disconnected, Told, server, world, dbVars, TypeOK
<1>3. TypeOK'
  BY <1>1, <1>2 DEF TypeOK, DbTypeOK
<1>4. Parts'
  BY <1>1, <1>2 DEF Parts, LinkAgrees, FormAlone, ViewFollowsPhase, SessionAnswered,
     SessionFollowsPhase, NameIsSessions, NameUnderWay
<1> QED BY <1>3, <1>4, ClientPartsNext

--------------------------------------------------------------------------------
(* What the user does *)

\* Once the name is edited with a login under way, or after it, no more is
\* claimed of the name.
LEMMA TypeNameInv == ASSUME ClientInv, NEW u \in Names, TypeName(u) PROVE ClientInv'
<1>1. TypeOK /\ Parts
  BY ClientParts
<1>2. /\ view = "login" /\ entry' = u /\ edited' = (edited \/ LoginUnderWay \/ phase # "login")
      /\ UNCHANGED <<phase, view, idle, mode, waiting, username, listed, chat, link, out, in,
                     session, room, users, projects, conn, mysqld, seconds, lines, tries>>
  BY DEF TypeName, server, world, dbVars
<1>3. TypeOK'
  BY <1>1, <1>2 DEF TypeOK, DbTypeOK
<1>4. NameUnderWay'
  <2>1. SUFFICES ASSUME link = "up", ~ edited' PROVE NameUnderWay'
    BY <1>2 DEF NameUnderWay
  <2>2. phase = "login" /\ ~ LoginUnderWay
    BY <1>2, <2>1
  <2>3. LoginsAreFor(entry)' /\ ~ LoggedIn'
    BY <1>2, <2>2 DEF LoginsAreFor, LoggedIn, LoginUnderWay, Answer
  <2> QED BY <1>2, <2>2, <2>3 DEF NameUnderWay
<1>5. Parts'
  BY <1>1, <1>2, <1>4 DEF Parts, LinkAgrees, FormAlone, ViewFollowsPhase, SessionAnswered,
     SessionFollowsPhase, NameIsSessions, LoggedIn
<1> QED BY <1>3, <1>5, ClientPartsNext

LEMMA SwitchInv == ClientInv /\ Switch => ClientInv'
<1> SUFFICES ASSUME ClientInv, Switch PROVE ClientInv'
  OBVIOUS
<1>1. TypeOK /\ Parts
  BY ClientParts
<1>2. TypeOK'
  BY <1>1 DEF Switch, TypeOK, DbTypeOK, server, world, dbVars
<1>3. Parts'
  BY <1>1, <1>2, PartsStay DEF Switch, server
<1> QED BY <1>2, <1>3, ClientPartsNext

LEMMA ClickLoginInv ==
  ASSUME ClientInv, NEW full \in BOOLEAN, NEW good \in BOOLEAN, ClickLogin(full, good)
  PROVE  ClientInv'
<1> DEFINE m == [type |-> "login", user |-> entry, good |-> good]
<1>1. TypeOK /\ Parts
  BY ClientParts
<1>2. /\ view = "login" /\ waiting' \in BOOLEAN
      /\ out' = out \/ (m \in Requests /\ Send(m))
      /\ UNCHANGED <<phase, view, idle, entry, mode, username, listed, chat, link, in,
                     session, room, users, projects, conn, mysqld, seconds, lines, edited>>
  <2>1. entry # NoName => m \in Requests
    BY <1>1 DEF TypeOK, Names, Requests
  <2>2. waiting' = FALSE \/ waiting' = Sendable
    BY DEF ClickLogin
  <2>3. waiting' \in BOOLEAN
    <3>1. Sendable \in BOOLEAN
      BY DEF Sendable
    <3> QED BY <2>2, <3>1
  <2>4. out' = out \/ (entry # NoName /\ Send(m))
    BY DEF ClickLogin
  <2> QED BY <2>1, <2>3, <2>4 DEF ClickLogin, server, world, dbVars
<1>3. m.type = "login" /\ m.user = entry
  OBVIOUS
<1> HIDE DEF m
<1>4. /\ out' \in Seq(Requests)
      /\ \A x \in Range(out') : x \in Range(out) \/ (x = m /\ link = "up")
  BY <1>1, <1>2, SendFacts, QueueTypes
<1>5. TypeOK'
  BY <1>1, <1>2, <1>4 DEF TypeOK, DbTypeOK
<1>6. Parts'
  BY <1>1, <1>2, <1>3, <1>4, <1>5, PartsStay DEF LobbyRequests
<1> QED BY <1>5, <1>6, ClientPartsNext

LEMMA ClickRegisterInv ==
  ASSUME ClientInv, NEW full \in BOOLEAN, ClickRegister(full)
  PROVE  ClientInv'
<1> DEFINE m == [type |-> "register", user |-> entry]
<1>1. TypeOK /\ Parts
  BY ClientParts
<1>2. /\ waiting' \in BOOLEAN
      /\ out' = out \/ (m \in Requests /\ Send(m))
      /\ UNCHANGED <<phase, view, idle, entry, mode, username, listed, chat, link, in,
                     session, room, users, projects, conn, mysqld, seconds, lines, edited>>
  <2>1. entry # NoName => m \in Requests
    BY <1>1 DEF TypeOK, Names, Requests
  <2>2. waiting' = FALSE \/ waiting' = Sendable
    BY DEF ClickRegister
  <2>3. waiting' \in BOOLEAN
    <3>1. Sendable \in BOOLEAN
      BY DEF Sendable
    <3> QED BY <2>2, <3>1
  <2>4. out' = out \/ (entry # NoName /\ Send(m))
    BY DEF ClickRegister
  <2> QED BY <2>1, <2>3, <2>4 DEF ClickRegister, server, world, dbVars
<1>3. m.type = "register"
  OBVIOUS
<1> HIDE DEF m
<1>4. /\ out' \in Seq(Requests)
      /\ \A x \in Range(out') : x \in Range(out) \/ (x = m /\ link = "up")
  BY <1>1, <1>2, SendFacts, QueueTypes
<1>5. TypeOK'
  BY <1>1, <1>2, <1>4 DEF TypeOK, DbTypeOK
<1>6. Parts'
  BY <1>1, <1>2, <1>3, <1>4, <1>5, PartsStay DEF LobbyRequests
<1> QED BY <1>5, <1>6, ClientPartsNext

\* The buttons of the lobby.
LEMMA LobbyInv ==
  ASSUME ClientInv, NEW m \in Requests, m.type # "login", view # "login", Send(m),
         UNCHANGED <<screen, link, in, server, world, tries, edited>>
  PROVE  ClientInv'
<1>1. TypeOK /\ Parts
  BY ClientParts
<1>2. /\ out' \in Seq(Requests)
      /\ \A x \in Range(out') : x \in Range(out) \/ (x = m /\ link = "up")
  BY <1>1, SendFacts
<1>3. TypeOK'
  BY <1>1, <1>2 DEF TypeOK, DbTypeOK, screen, form, server, world, dbVars
<1>4. Parts'
  BY <1>1, <1>2, <1>3, PartsStay DEF screen, form, server
<1> QED BY <1>3, <1>4, ClientPartsNext

LEMMA LobbyMessages ==
  /\ \A t \in {"list_rooms", "create_room"} : Plain(t) \in Requests /\ Plain(t).type = t
  /\ \A r \in Rooms : [type |-> "join_room", room |-> r] \in Requests
BY DEF Plain, Requests

LEMMA ClickLobbyInv ==
  ASSUME ClientInv, ClickRefresh \/ ClickCreate \/ \E r \in Rooms : ClickJoin(r)
  PROVE  ClientInv'
<1>1. CASE ClickRefresh BY <1>1, LobbyMessages, LobbyInv DEF ClickRefresh
<1>2. CASE ClickCreate BY <1>2, LobbyMessages, LobbyInv DEF ClickCreate
<1>3. ASSUME NEW r \in Rooms, ClickJoin(r) PROVE ClientInv'
  <2>1. [type |-> "join_room", room |-> r] \in Requests
        /\ [type |-> "join_room", room |-> r].type = "join_room"
    BY LobbyMessages
  <2> QED BY <1>3, <2>1, LobbyInv DEF ClickJoin
<1> QED BY <1>1, <1>2, <1>3

\* The window follows the phase; only now the lobby asks for the list.
LEMMA UpdateUiInv == ClientInv /\ UpdateUi => ClientInv'
<1> SUFFICES ASSUME ClientInv, UpdateUi PROVE ClientInv'
  OBVIOUS
<1> DEFINE m == Plain("list_rooms")
<1>1. TypeOK /\ Parts
  BY ClientParts
<1>2. idle = 1 /\ phase \in {"lobby", "canvas"}
  BY <1>1 DEF UpdateUi, TypeOK, Parts, ViewFollowsPhase
<1>3. /\ idle' = 0 /\ view' = phase /\ entry' = NoName /\ mode' = "login" /\ waiting' = FALSE
      /\ listed' = {} /\ chat' \in {<<>>, chat}
      /\ Send(m) \/ out' = out
      /\ UNCHANGED <<phase, username, link, in, session, room, users, projects, conn, mysqld,
                     seconds, lines, tries, edited>>
  BY <1>2 DEF UpdateUi, server, world, dbVars
<1>4. m \in Requests /\ m.type = "list_rooms"
  BY LobbyMessages
<1> HIDE DEF m
<1>5. /\ out' \in Seq(Requests)
      /\ \A x \in Range(out') : x \in Range(out) \/ (x = m /\ link = "up")
      /\ out' = <<>> <=> Range(out') = {}
  BY <1>1, <1>3, <1>4, SendFacts, QueueTypes, RangeFacts
<1>6. TypeOK'
  <2>1. chat' \in Seq(1..MaxLines)
    BY <1>1, <1>3, EmptySeq DEF TypeOK
  <2>2. {phase, view}' \subseteq {"login", "lobby", "canvas"}
    BY <1>2, <1>3
  <2>3. {entry, username, session}' \subseteq Names /\ listed' \subseteq Rooms
    BY <1>1, <1>3 DEF TypeOK, Names
  <2>4. idle' \in 0..1 /\ mode' \in {"login", "register"}
    BY <1>3
  <2>5. waiting' \in BOOLEAN
    BY <1>3
  <2> QED BY <1>1, <1>3, <1>5, <2>1, <2>2, <2>3, <2>4, <2>5 DEF TypeOK, DbTypeOK
<1>7. LinkAgrees'
  BY <1>1, <1>3, <1>5, QueueTypes DEF Parts, LinkAgrees
<1>8. FormAlone' /\ ViewFollowsPhase'
  BY <1>2, <1>3 DEF FormAlone, ViewFollowsPhase
<1>9. SessionAnswered' /\ SessionFollowsPhase' /\ NameIsSessions'
  BY <1>1, <1>3 DEF Parts, SessionAnswered, SessionFollowsPhase, NameIsSessions, LoggedIn
<1>10. NameUnderWay'
  BY <1>1, <1>2, <1>3, <1>4, <1>5 DEF Parts, NameUnderWay, LoginsAreFor
<1> QED BY <1>6, <1>7, <1>8, <1>9, <1>10, ClientPartsNext DEF Parts

--------------------------------------------------------------------------------
(* What the client hears *)

\* Messages that change neither the phase nor the name.
LEMMA HearPlainInv ==
  ASSUME ClientInv, NEW t \in {"register_resp", "room_list", "chat"}, Hearing(t), NotHeard,
         UNCHANGED <<phase, view, idle, entry, username, out>>,
         mode' \in {"login", "register"}, waiting' \in BOOLEAN, listed' \subseteq Rooms,
         chat' \in Seq(1..MaxLines)
  PROVE  ClientInv'
<1>1. TypeOK /\ Parts
  BY ClientParts
<1>2. in' \in Seq(Replies) /\ \A x \in Range(in') : x \in Range(in)
  BY <1>1, HearingFacts DEF Parts
<1>3. UNCHANGED <<link, session, room, users, projects, conn, mysqld, seconds, lines, edited>>
  BY DEF NotHeard, server, world, dbVars
<1>4. TypeOK'
  BY <1>1, <1>2, <1>3 DEF TypeOK, DbTypeOK
<1>5. Parts'
  BY <1>1, <1>2, <1>3, <1>4, PartsStay
<1> QED BY <1>4, <1>5, ClientPartsNext

LEMMA HearRegisterInv == ClientInv /\ HearRegister => ClientInv'
<1> SUFFICES ASSUME ClientInv, HearRegister PROVE ClientInv'
  OBVIOUS
<1>1. TypeOK
  BY ClientParts
<1>2. mode' \in {"login", "register"}
  BY <1>1 DEF HearRegister, TypeOK
<1>3. waiting' = FALSE \/ waiting' = waiting
  BY DEF HearRegister
<1>4. waiting' \in BOOLEAN
  BY <1>1, <1>3 DEF TypeOK
<1> QED BY <1>1, <1>2, <1>4, HearPlainInv DEF HearRegister, TypeOK

LEMMA HearRoomListInv == ClientInv /\ HearRoomList => ClientInv'
<1> SUFFICES ASSUME ClientInv, HearRoomList PROVE ClientInv'
  OBVIOUS
<1>1. TypeOK /\ LinkAgrees
  BY ClientParts DEF Parts
<1>2. Head(in) \in Replies /\ Head(in).type = "room_list"
  BY <1>1, HearingFacts DEF HearRoomList
<1>3. listed' \subseteq Rooms
  BY <1>1, <1>2, ReplyShape DEF HearRoomList, TypeOK
<1> QED BY <1>1, <1>3, HearPlainInv DEF HearRoomList, TypeOK, form

\* A line comes to the end of the chat, or the chat stays.
LEMMA HearChatStep ==
  ASSUME TypeOK, LinkAgrees, HearChat
  PROVE  \/ chat' = chat
         \/ \E l \in 1..MaxLines : chat' = Append(chat, l)
<1>1. Head(in) \in Replies /\ Head(in).type = "chat"
  BY HearingFacts DEF HearChat
<1>2. Head(in).line \in 1..MaxLines
  BY <1>1, ReplyShape
<1> QED BY <1>2 DEF HearChat

LEMMA HearChatInv == ClientInv /\ HearChat => ClientInv'
<1> SUFFICES ASSUME ClientInv, HearChat PROVE ClientInv'
  OBVIOUS
<1>1. TypeOK /\ LinkAgrees
  BY ClientParts DEF Parts
<1>2. chat' \in Seq(1..MaxLines)
  <2>1. chat \in Seq(1..MaxLines)
    BY <1>1 DEF TypeOK
  <2>2. \A l \in 1..MaxLines : Append(chat, l) \in Seq(1..MaxLines)
    BY <2>1, AppendProperties
  <2> QED BY <1>1, <2>1, <2>2, HearChatStep
<1> QED BY <1>1, <1>2, HearPlainInv DEF HearChat, TypeOK, form

\* The answer to create_room only comes to who has left the form.
LEMMA HearCreatedInv == ClientInv /\ HearCreated => ClientInv'
<1> SUFFICES ASSUME ClientInv, HearCreated PROVE ClientInv'
  OBVIOUS
<1> DEFINE m == Plain("list_rooms")
<1>1. TypeOK /\ Parts
  BY ClientParts
<1>2. /\ in' \in Seq(Replies) /\ \A x \in Range(in') : x \in Range(in)
      /\ Head(in) \in Range(in) /\ Head(in).type = "create_room_resp"
  BY <1>1, HearingFacts DEF HearCreated, Parts
<1>3. view # "login"
  BY <1>1, <1>2 DEF Parts, FormAlone, LobbyReplies
<1>4. m \in Requests /\ m.type = "list_rooms"
  BY LobbyMessages
<1>5. Send(m) \/ out' = out
  BY DEF HearCreated
<1>6. UNCHANGED <<phase, view, idle, entry, mode, waiting, username, listed, chat, link, session,
                  room, users, projects, conn, mysqld, seconds, lines, edited>>
  BY DEF HearCreated, NotHeard, screen, form, server, world, dbVars
<1> HIDE DEF m
<1>7. /\ out' \in Seq(Requests)
      /\ \A x \in Range(out') : x \in Range(out) \/ (x = m /\ link = "up")
  BY <1>1, <1>4, <1>5, SendFacts, QueueTypes
<1>8. TypeOK'
  BY <1>1, <1>2, <1>6, <1>7 DEF TypeOK, DbTypeOK
<1>9. Parts'
  BY <1>1, <1>2, <1>3, <1>4, <1>6, <1>7, <1>8, PartsStay
<1> QED BY <1>8, <1>9, ClientPartsNext

\* The first success takes the client to the lobby, with the name then in the
\* form; the next ones, and failures, change nothing that matters here.
LEMMA HearLoginInv == ClientInv /\ HearLogin => ClientInv'
<1> SUFFICES ASSUME ClientInv, HearLogin PROVE ClientInv'
  OBVIOUS
<1>1. TypeOK /\ Parts
  BY ClientParts
<1>2. /\ in' \in Seq(Replies) /\ \A x \in Range(in') : x \in Range(in)
      /\ Head(in) \in Range(in) /\ Head(in) \in Replies /\ Head(in).type = "login_resp"
      /\ link \in {"up", "ending"}
  BY <1>1, HearingFacts DEF HearLogin, Parts
<1>3. UNCHANGED <<view, entry, mode, listed, chat, out, link, session, room,
                  users, projects, conn, mysqld, seconds, lines, edited>>
  BY DEF HearLogin, NotHeard, server, world, dbVars
<1>4. Head(in).ok \in BOOLEAN /\ Head(in) = Answer("login_resp", Head(in).ok)
  BY <1>2, ReplyShape
<1>5. CASE phase = "login" /\ Head(in).ok
  <2>1. phase' = "lobby" /\ username' = entry /\ idle' = idle + 1 /\ waiting' = waiting
    BY <1>5 DEF HearLogin
  <2>2. view = "login" /\ idle = 0
    BY <1>1, <1>5 DEF Parts, ViewFollowsPhase, TypeOK
  <2>3. LoggedIn
    BY <1>2, <1>4, <1>5 DEF LoggedIn
  <2>4. TypeOK'
    <3>1. {phase, view}' \subseteq {"login", "lobby", "canvas"} /\ idle' \in 0..1
      BY <1>3, <2>1, <2>2
    <3>2. {entry, username, session}' \subseteq Names
      BY <1>1, <1>3, <2>1 DEF TypeOK
    <3>3. waiting' \in BOOLEAN
      BY <1>1, <2>1 DEF TypeOK
    <3> QED BY <1>1, <1>2, <1>3, <3>1, <3>2, <3>3 DEF TypeOK, DbTypeOK
  <2>5. LinkAgrees'
    BY <1>1, <1>2, <1>3 DEF Parts, LinkAgrees
  <2>6. FormAlone'
    BY <1>1, <1>2, <1>3 DEF Parts, FormAlone
  <2>7. ViewFollowsPhase'
    BY <1>3, <2>1, <2>2, <2>6 DEF ViewFollowsPhase, FormAlone, LobbyReplies
  <2>8. SessionAnswered' /\ SessionFollowsPhase'
    BY <1>1, <1>2, <1>3, <2>3 DEF Parts, SessionAnswered, SessionFollowsPhase, LoggedIn
  <2>9. NameIsSessions' /\ NameUnderWay'
    BY <1>1, <1>3, <1>5, <2>1, <2>3 DEF Parts, NameIsSessions, NameUnderWay, LoginsAreFor
  <2> QED BY <2>4, <2>5, <2>6, <2>7, <2>8, <2>9, ClientPartsNext DEF Parts
<1>6. CASE ~ (phase = "login" /\ Head(in).ok)
  <2>1. UNCHANGED <<phase, username, idle>>
    BY <1>4, <1>6 DEF HearLogin
  <2>2. waiting' = FALSE \/ waiting' = waiting
    BY <1>4, <1>6 DEF HearLogin
  <2>3. waiting' \in BOOLEAN
    BY <1>1, <2>2 DEF TypeOK
  <2>4. TypeOK'
    BY <1>1, <1>2, <1>3, <2>1, <2>3 DEF TypeOK, DbTypeOK
  <2>5. Parts'
    BY <1>1, <1>2, <1>3, <2>1, <2>4, PartsStay
  <2> QED BY <2>4, <2>5, ClientPartsNext
<1> QED BY <1>5, <1>6

\* No answer to join_room comes before the lobby is there, so its window is
\* the one that the room replaces.
LEMMA HearJoinedInv == ClientInv /\ HearJoined => ClientInv'
<1> SUFFICES ASSUME ClientInv, HearJoined PROVE ClientInv'
  OBVIOUS
<1>1. TypeOK /\ Parts
  BY ClientParts
<1>2. /\ in' \in Seq(Replies) /\ \A x \in Range(in') : x \in Range(in)
      /\ Head(in) \in Range(in) /\ Head(in).type = "join_room_resp"
      /\ link \in {"up", "ending"}
  BY <1>1, HearingFacts DEF HearJoined, Parts
<1>3. UNCHANGED <<view, entry, mode, waiting, username, listed, chat, out, link, session, room,
                  users, projects, conn, mysqld, seconds, lines, edited>>
  BY DEF HearJoined, NotHeard, form, server, world, dbVars
<1>4. view # "login"
  BY <1>1, <1>2 DEF Parts, FormAlone, LobbyReplies
<1>5. CASE phase = "lobby"
  <2>1. phase' = "canvas" /\ idle' = idle + 1
    BY <1>5 DEF HearJoined
  <2>2. view = "lobby" /\ idle = 0
    BY <1>1, <1>4, <1>5 DEF Parts, ViewFollowsPhase, TypeOK
  <2>3. TypeOK'
    <3>1. {phase, view}' \subseteq {"login", "lobby", "canvas"} /\ idle' \in 0..1
      BY <1>3, <2>1, <2>2
    <3>2. waiting' \in BOOLEAN
      BY <1>1, <1>3 DEF TypeOK
    <3> QED BY <1>1, <1>2, <1>3, <3>1, <3>2 DEF TypeOK, DbTypeOK
  <2>4. LinkAgrees' /\ FormAlone' /\ ViewFollowsPhase'
    BY <1>1, <1>2, <1>3, <2>1, <2>2 DEF Parts, LinkAgrees, FormAlone, ViewFollowsPhase
  <2>5. SessionAnswered' /\ SessionFollowsPhase' /\ NameIsSessions'
    BY <1>1, <1>2, <1>3, <1>5, <2>1 DEF Parts, SessionAnswered, SessionFollowsPhase,
       NameIsSessions, LoggedIn
  <2>6. NameUnderWay'
    BY <1>1, <1>3, <1>5, <2>1 DEF Parts, NameUnderWay, LoginsAreFor
  <2> QED BY <2>3, <2>4, <2>5, <2>6, ClientPartsNext DEF Parts
<1>6. CASE phase # "lobby"
  <2>1. UNCHANGED <<phase, idle>>
    BY <1>6 DEF HearJoined
  <2>2. TypeOK'
    BY <1>1, <1>2, <1>3, <2>1 DEF TypeOK, DbTypeOK
  <2>3. Parts'
    BY <1>1, <1>2, <1>3, <2>1, <2>2, PartsStay
  <2> QED BY <2>2, <2>3, ClientPartsNext
<1> QED BY <1>5, <1>6

--------------------------------------------------------------------------------
(* What the server does with a message of this client *)

\* Answers other than a successful login, from a session that stays.
LEMMA ServePlainInv ==
  ASSUME ClientInv, NEW t, Serving(t), Served, session' = session,
         room' \in Rooms \union {0}, DbTypeOK', Len(projects') <= MaxProjects,
         seconds' \in Seq(Nat), Len(seconds') = Len(projects'),
         in' = in \/ \E m \in Replies : /\ Reply(m) /\ m # Answer("login_resp", TRUE)
                                        /\ view = "login" => m.type \notin LobbyReplies
  PROVE  ClientInv'
<1>1. TypeOK /\ Parts
  BY ClientParts
<1>2. out' \in Seq(Requests) /\ (\A x \in Range(out') : x \in Range(out)) /\ link = "up"
  BY <1>1, ServingFacts DEF Parts
<1>3. /\ in' \in Seq(Replies)
      /\ \A x \in Range(in') :
           x \in Range(in) \/ /\ x # Answer("login_resp", TRUE)
                              /\ view = "login" => x.type \notin LobbyReplies
  BY <1>1, ReplyFacts, QueueTypes
<1>4. UNCHANGED <<phase, view, idle, entry, mode, waiting, username, listed, chat, link, lines,
                  edited>>
  BY DEF Served, screen, form
<1>5. TypeOK'
  BY <1>1, <1>2, <1>3, <1>4 DEF TypeOK
<1>6. Parts'
  BY <1>1, <1>2, <1>3, <1>4, <1>5, PartsStay
<1> QED BY <1>5, <1>6, ClientPartsNext

\* A name is in the session when the answer says so, and stays when a second
\* login fails.
LEMMA ServeLoginInv == ClientInv /\ ServeLogin => ClientInv'
<1> SUFFICES ASSUME ClientInv, ServeLogin PROVE ClientInv'
  OBVIOUS
<1> DEFINE user == Head(out).user
<1>1. TypeOK /\ Parts
  BY ClientParts
<1>2. PICK id \in 0..Cardinality(Users) :
        /\ DbLogin(user, Head(out).good, id)
        /\ session' = IF id > 0 THEN user ELSE session
        /\ Reply(Answer("login_resp", id > 0))
  BY DEF ServeLogin
<1>3. /\ out' \in Seq(Requests) /\ \A x \in Range(out') : x \in Range(out)
      /\ Head(out) \in Range(out) /\ Head(out) \in Requests /\ Head(out).type = "login"
      /\ link = "up"
  BY <1>1, ServingFacts DEF ServeLogin, Parts
<1>4. user \in Users /\ user # NoName
  BY <1>3, RequestShape, NamesAssumption
<1>5. DbTypeOK' /\ projects' = projects
  BY <1>1, <1>2, QueryType DEF DbLogin, TypeOK
<1>6. UNCHANGED <<phase, view, idle, entry, mode, waiting, username, listed, chat, link, lines,
                  edited, room, seconds>>
  BY DEF ServeLogin, Served, screen, form
<1>7. (id > 0) \in BOOLEAN
  OBVIOUS
<1>8. CASE id > 0
  <2>1. session' = user /\ Reply(Answer("login_resp", TRUE))
    BY <1>2, <1>7, <1>8
  <2>2. Answer("login_resp", TRUE) \in Replies /\ Answer("login_resp", TRUE).type = "login_resp"
    BY AnswerType
  <2>3. /\ in' \in Seq(Replies)
        /\ \A x \in Range(in') : x \in Range(in) \/ x.type = "login_resp"
    BY <1>1, <2>1, <2>2, ReplyFacts
  <2>4. TypeOK'
    <3>1. {entry, username, session}' \subseteq Names
      BY <1>1, <1>4, <1>6, <2>1 DEF TypeOK, Names
    <3>2. waiting' \in BOOLEAN
      BY <1>1, <1>6 DEF TypeOK
    <3> QED BY <1>1, <1>3, <1>5, <1>6, <2>3, <3>1, <3>2 DEF TypeOK
  <2>5. LinkAgrees'
    BY <1>1, <1>3, <1>6 DEF Parts, LinkAgrees
  <2>6. FormAlone' /\ ViewFollowsPhase'
    BY <1>1, <1>3, <1>6, <2>3 DEF Parts, FormAlone, ViewFollowsPhase, LobbyReplies
  <2>7. SessionAnswered' /\ SessionFollowsPhase'
    BY <1>4, <2>1 DEF SessionAnswered, SessionFollowsPhase
  <2>8. ~ edited => user = IF phase = "login" THEN entry ELSE username
    BY <1>1, <1>3 DEF Parts, NameUnderWay, LoginsAreFor
  <2>9. NameIsSessions' /\ NameUnderWay'
    BY <1>1, <1>3, <1>6, <2>1, <2>8 DEF Parts, NameIsSessions, NameUnderWay, LoginsAreFor
  <2> QED BY <2>4, <2>5, <2>6, <2>7, <2>9, ClientPartsNext DEF Parts
<1>9. CASE ~ (id > 0)
  <2> DEFINE m == Answer("login_resp", FALSE)
  <2>1. session' = session /\ Reply(m)
    BY <1>2, <1>7, <1>9
  <2>2. m \in Replies /\ m.type = "login_resp" /\ m.ok = FALSE
    BY AnswerType
  <2>3. Answer("login_resp", TRUE).ok = TRUE
    BY AnswerType
  <2>4. m # Answer("login_resp", TRUE) /\ m.type \notin LobbyReplies
    BY <2>2, <2>3 DEF LobbyReplies
  <2>5. Serving("login") /\ Served
    BY DEF ServeLogin
  <2> HIDE DEF m
  <2> QED BY <1>1, <1>5, <1>6, <2>1, <2>2, <2>4, <2>5, ServePlainInv DEF TypeOK
<1> QED BY <1>8, <1>9

LEMMA ServeRegisterInv == ClientInv /\ ServeRegister => ClientInv'
<1> SUFFICES ASSUME ClientInv, ServeRegister PROVE ClientInv'
  OBVIOUS
<1>1. TypeOK /\ Parts
  BY ClientParts
<1>2. PICK ok \in BOOLEAN : DbRegister(Head(out).user, ok) /\ Reply(Answer("register_resp", ok))
  BY DEF ServeRegister
<1>3. Head(out).user \in Users
  BY <1>1, ServingFacts, RequestShape DEF ServeRegister, Parts
<1>4. DbTypeOK' /\ projects' = projects
  BY <1>1, <1>2, <1>3, RegisterType DEF TypeOK
<1>5. /\ Answer("register_resp", ok) \in Replies
      /\ Answer("register_resp", ok).type = "register_resp"
      /\ Answer("login_resp", TRUE).type = "login_resp"
  BY AnswerType
<1>6. Answer("register_resp", ok) # Answer("login_resp", TRUE)
      /\ Answer("register_resp", ok).type \notin LobbyReplies
  BY <1>5 DEF LobbyReplies
<1> QED BY <1>1, <1>2, <1>4, <1>5, <1>6, ServePlainInv DEF ServeRegister, TypeOK

\* A request of the lobby comes from a client that is logged in.
LEMMA LobbyHasSession ==
  ASSUME TypeOK, Parts, NEW t \in LobbyRequests, Serving(t)
  PROVE  view # "login" /\ session # NoName
<1>1. Head(out) \in Range(out) /\ Head(out).type = t /\ link = "up"
  BY ServingFacts DEF Parts
<1>2. view # "login"
  BY <1>1 DEF Parts, FormAlone
<1> QED BY <1>1, <1>2 DEF Parts, ViewFollowsPhase, SessionFollowsPhase

LEMMA ServeListRoomsInv == ClientInv /\ ServeListRooms => ClientInv'
<1> SUFFICES ASSUME ClientInv, ServeListRooms PROVE ClientInv'
  OBVIOUS
<1>1. TypeOK /\ Parts
  BY ClientParts
<1>2. view # "login" /\ session # NoName
  BY <1>1, LobbyHasSession DEF ServeListRooms, LobbyRequests
<1>3. PICK ok \in BOOLEAN, rows \in SUBSET DOMAIN projects :
        DbGetProjects(ok) /\ Reply([type |-> "room_list", rooms |-> rows])
  BY <1>2 DEF ServeListRooms
<1> DEFINE m == [type |-> "room_list", rooms |-> rows]
<1>4. DbTypeOK' /\ projects' = projects
  BY <1>1, <1>3, QueryType DEF DbGetProjects, TypeOK
<1>5. rows \subseteq Rooms
  <2>1. DOMAIN projects = 1..Len(projects) /\ Len(projects) \in Nat
    BY <1>1, LenProperties DEF TypeOK, DbTypeOK
  <2> QED BY <1>1, <2>1, MaxProjectsAssumption DEF TypeOK, Rooms
<1>6. m \in Replies /\ m.type = "room_list" /\ Answer("login_resp", TRUE).type = "login_resp"
  BY <1>5, AnswerType DEF Replies
<1> HIDE DEF m
<1>7. Reply(m)
  BY <1>3 DEF m
<1> QED BY <1>1, <1>2, <1>4, <1>6, <1>7, ServePlainInv DEF ServeListRooms, TypeOK

LEMMA ServeCreateRoomInv == ClientInv /\ ServeCreateRoom => ClientInv'
<1> SUFFICES ASSUME ClientInv, ServeCreateRoom PROVE ClientInv'
  OBVIOUS
<1>1. TypeOK /\ Parts
  BY ClientParts
<1>2. view # "login" /\ session # NoName
  BY <1>1, LobbyHasSession DEF ServeCreateRoom, LobbyRequests
<1>3. PICK ok \in BOOLEAN : Created(users[session], ok) /\ Reply(Answer("create_room_resp", ok))
  BY <1>2 DEF ServeCreateRoom
<1>4. users[session] \in Nat
  BY <1>1, <1>2 DEF TypeOK, DbTypeOK, Names
<1>5. /\ DbTypeOK' /\ Len(projects') <= MaxProjects
      /\ seconds' \in Seq(Nat) /\ Len(seconds') = Len(projects')
  BY <1>1, <1>3, <1>4, CreatedType DEF TypeOK
<1>6. /\ Answer("create_room_resp", ok) \in Replies
      /\ Answer("create_room_resp", ok).type = "create_room_resp"
      /\ Answer("login_resp", TRUE).type = "login_resp"
  BY AnswerType
<1>7. Answer("create_room_resp", ok) # Answer("login_resp", TRUE)
  BY <1>6
<1> QED BY <1>1, <1>2, <1>3, <1>5, <1>6, <1>7, ServePlainInv DEF ServeCreateRoom, TypeOK

LEMMA ServeJoinRoomInv == ClientInv /\ ServeJoinRoom => ClientInv'
<1> SUFFICES ASSUME ClientInv, ServeJoinRoom PROVE ClientInv'
  OBVIOUS
<1>1. TypeOK /\ Parts
  BY ClientParts
<1>2. view # "login" /\ session # NoName
  BY <1>1, LobbyHasSession DEF ServeJoinRoom, LobbyRequests
<1>3. room' = Head(out).room /\ Reply(Answer("join_room_resp", TRUE))
  BY <1>2 DEF ServeJoinRoom
<1>4. Head(out) \in Requests /\ Head(out).type = "join_room"
  BY <1>1, ServingFacts DEF ServeJoinRoom, Parts
<1>5. room' \in Rooms
  BY <1>3, <1>4, RequestShape
<1>6. /\ Answer("join_room_resp", TRUE) \in Replies
      /\ Answer("join_room_resp", TRUE).type = "join_room_resp"
      /\ Answer("login_resp", TRUE).type = "login_resp"
  BY AnswerType
<1>7. Answer("join_room_resp", TRUE) # Answer("login_resp", TRUE)
  BY <1>6
<1>8. PICK data : DbGetProjectData(Head(out).room, data)
  BY <1>2 DEF ServeJoinRoom
<1>9. DbTypeOK' /\ projects' = projects
  BY <1>1, <1>8, QueryType DEF DbGetProjectData, TypeOK
<1> QED BY <1>1, <1>2, <1>3, <1>5, <1>6, <1>7, <1>8, <1>9, ServePlainInv DEF ServeJoinRoom, TypeOK

--------------------------------------------------------------------------------
(* What others do *)

LEMMA OthersChatInv == ASSUME ClientInv, NEW u \in Users, OthersChat(u) PROVE ClientInv'
<1> DEFINE m == [type |-> "chat", from |-> u, line |-> lines']
<1>1. TypeOK /\ Parts
  BY ClientParts
<1>2. /\ link = "up" /\ lines' = lines + 1 /\ lines < MaxLines /\ Reply(m)
      /\ UNCHANGED <<phase, view, idle, entry, mode, waiting, username, listed, chat, link, out,
                     session, room, users, projects, conn, mysqld, seconds, edited>>
  BY DEF OthersChat, Reply, screen, form, server, dbVars
<1>3. lines' \in 1..MaxLines
  BY <1>1, <1>2, ClientBoundsAssumption DEF TypeOK
<1>4. m \in Replies /\ m.type = "chat" /\ Answer("login_resp", TRUE).type = "login_resp"
  BY <1>3, AnswerType DEF Replies, Names
<1> HIDE DEF m
<1>5. in' \in Seq(Replies) /\ \A x \in Range(in') : x \in Range(in) \/ x = m
  BY <1>1, <1>2, <1>4, ReplyFacts
<1>6. TypeOK'
  <2>1. lines' \in 0..MaxLines
    BY <1>3, ClientBoundsAssumption
  <2> QED BY <1>1, <1>2, <1>5, <2>1 DEF TypeOK, DbTypeOK
<1>7. Parts'
  BY <1>1, <1>2, <1>4, <1>5, <1>6, PartsStay DEF LobbyReplies
<1> QED BY <1>6, <1>7, ClientPartsNext

LEMMA OthersCreateInv == ClientInv /\ OthersCreate => ClientInv'
<1> SUFFICES ASSUME ClientInv, OthersCreate PROVE ClientInv'
  OBVIOUS
<1>1. TypeOK /\ Parts
  BY ClientParts
<1>2. UNCHANGED <<phase, view, idle, entry, mode, waiting, username, listed, chat, link, out, in,
                  session, room, lines, edited>>
  BY DEF OthersCreate, screen, form, server
<1>3. /\ DbTypeOK' /\ Len(projects') <= MaxProjects
      /\ seconds' \in Seq(Nat) /\ Len(seconds') = Len(projects')
  BY <1>1, CreatedType DEF OthersCreate, TypeOK
<1>4. TypeOK'
  BY <1>1, <1>2, <1>3 DEF TypeOK
<1>5. Parts'
  BY <1>1, <1>2, <1>4, PartsStay
<1> QED BY <1>4, <1>5, ClientPartsNext

LEMMA OthersSaveInv == ClientInv /\ OthersSave => ClientInv'
<1> SUFFICES ASSUME ClientInv, OthersSave PROVE ClientInv'
  OBVIOUS
<1>1. TypeOK /\ Parts
  BY ClientParts
<1>2. /\ UNCHANGED <<phase, view, idle, entry, mode, waiting, username, listed, chat, link, out, in,
                     session, room, users, projects, mysqld, seconds, lines, edited>>
      /\ conn' = "open"
  BY DEF OthersSave, Reconnected, screen, form, server
<1>3. TypeOK'
  BY <1>1, <1>2 DEF TypeOK, DbTypeOK
<1>4. Parts'
  BY <1>1, <1>2, <1>3, PartsStay
<1> QED BY <1>3, <1>4, ClientPartsNext

--------------------------------------------------------------------------------
(* Every step *)

LEMMA UserInv == ClientInv /\ User => ClientInv'
BY TypeNameInv, SwitchInv, ClickLoginInv, ClickRegisterInv, ClickLobbyInv DEF User, Names, Rooms

LEMMA HearInv == ClientInv /\ Hear => ClientInv'
BY HearLoginInv, HearRegisterInv, HearRoomListInv, HearCreatedInv, HearJoinedInv, HearChatInv
   DEF Hear

LEMMA ServeInv == ClientInv /\ Serve => ClientInv'
BY ServeLoginInv, ServeRegisterInv, ServeListRoomsInv, ServeCreateRoomInv, ServeJoinRoomInv
   DEF Serve

LEMMA OthersInv == ClientInv /\ Others => ClientInv'
BY OthersChatInv, OthersCreateInv, OthersSaveInv DEF Others

LEMMA StillClient == ClientInv /\ UNCHANGED vars => ClientInv'
<1> SUFFICES ASSUME ClientInv, UNCHANGED vars PROVE ClientInv'
  OBVIOUS
<1>1. TypeOK /\ Parts
  BY ClientParts
<1>2. UNCHANGED <<phase, view, idle, entry, mode, waiting, username, listed, chat, link, out, in,
                  session, room, users, projects, conn, mysqld, seconds, lines, edited>>
  BY DEF vars, screen, form, server, world, dbVars
<1>3. TypeOK'
  BY <1>1, <1>2 DEF TypeOK, DbTypeOK
<1>4. Parts'
  BY <1>1, <1>2, <1>3, PartsStay
<1> QED BY <1>3, <1>4, ClientPartsNext

LEMMA NextClient == ClientInv /\ [Next]_vars => ClientInv'
BY UserInv, HearInv, UpdateUiInv, ConnectInv, LinkBreaksInv, DisconnectedInv, ServeInv, OthersInv,
   StillClient DEF Next

LEMMA ClientInvariant == Spec => []ClientInv
BY InitClient, NextClient, PTL DEF Spec

\* From the form over the lobby into the room, the window follows the phase
\* that on_net_message has set, nothing of the lobby is under way before the
\* lobby is shown, and who has left the form is logged in at the server as
\* long as the connection stands.
THEOREM PhasesInvariant == Spec => []PhasesAgree
<1>1. ClientInv => PhasesAgree
  BY DEF ClientInv
<1> QED BY <1>1, ClientInvariant, PTL

\* The name under which the client chats is the session's, unless the form was
\* edited between the login and the lobby.
THEOREM NamesInvariant == Spec => []NamesAgree
<1>1. ClientInv => NamesAgree
  BY DEF ClientInv
<1> QED BY <1>1, ClientInvariant, PTL

\* Only build_canvas_ui empties the chat, and once the room is shown it does
\* not run again, whatever answers still come.
THEOREM ChatStays == Spec => ChatKept
<1>1. ClientInv /\ [Next]_vars => [view = "canvas" => IsPrefix(chat, chat')]_vars
  <2> SUFFICES ASSUME ClientInv, Next, view = "canvas" PROVE IsPrefix(chat, chat')
    OBVIOUS
  <2>1. TypeOK /\ Parts
    BY ClientParts
  <2>2. idle = 0
    BY <2>1 DEF Parts, ViewFollowsPhase
  <2>3. chat \in Seq(1..MaxLines)
    BY <2>1 DEF TypeOK
  <2>4. ~ UpdateUi
    BY <2>2 DEF UpdateUi
  <2>5. chat' = chat \/ HearChat
    <3>1. CASE User
      BY <3>1 DEF User, TypeName, Switch, ClickLogin, ClickRegister, ClickRefresh, ClickCreate,
         ClickJoin, screen
    <3>2. CASE Hear
      BY <3>2 DEF Hear, HearLogin, HearRegister, HearRoomList, HearCreated, HearJoined, screen
    <3>3. CASE Serve
      BY <3>3 DEF Serve, ServeLogin, ServeRegister, ServeListRooms, ServeCreateRoom,
         ServeJoinRoom, Served, screen
    <3>4. CASE Others
      BY <3>4 DEF Others, OthersChat, OthersCreate, OthersSave, screen
    <3>5. CASE Connect \/ LinkBreaks \/ Disconnected
      BY <3>5 DEF Connect, LinkBreaks, Disconnected, screen
    <3> QED BY <2>4, <3>1, <3>2, <3>3, <3>4, <3>5 DEF Next
  <2>6. chat' = chat \/ \E l \in 1..MaxLines : chat' = Append(chat, l)
    BY <2>1, <2>5, HearChatStep DEF Parts
  <2> QED BY <2>3, <2>6, PrefixFacts
<1> QED BY <1>1, ClientInvariant, PTL DEF Spec, ChatKept

--------------------------------------------------------------------------------
(* What JSON and fixed buffers do to strokes and texts (Codec) *)

\* json_codec.c and the items of undo_redo.c: a stroke with any number of points
\* comes back from a message and from a file as it was.
THEOREM EveryStrokeSurvives ==
  ASSUME NEW stroke \in [tool : Int, color : Int, width : Int, points : Seq([x : Int, y : Int])]
  PROVE  Survives(stroke)
<1>0. PICK points \in Seq([x : Int, y : Int]) : points = stroke.points
  OBVIOUS
<1>1. PICK n \in Nat : /\ n = Len(points) /\ DOMAIN points = 1..n
                       /\ points = [i \in 1..n |-> points[i]]
                       /\ \A i \in 1..n : points[i] \in [x : Int, y : Int]
  <2> DEFINE P == [x : Int, y : Int]
  <2>1. points \in Seq(P) OBVIOUS
  <2> HIDE DEF P
  <2>2. /\ Len(points) \in Nat /\ DOMAIN points = 1..Len(points)
        /\ points = [i \in 1..Len(points) |-> points[i]]
        /\ \A i \in 1..Len(points) : points[i] \in P
    BY <2>1
  <2> QED BY <2>2 DEF P
<1>2. stroke = [tool |-> stroke.tool, color |-> stroke.color, width |-> stroke.width,
                points |-> points]
  BY <1>0
<1>3. \A i \in 1..n : /\ Has(points[i], {"x", "y"})
                      /\ Coordinates(points[i]) = points[i]
  <2>1. ASSUME NEW p \in [x : Int, y : Int]
        PROVE  Has(p, {"x", "y"}) /\ Coordinates(p) = p
    <3>1. DOMAIN p = {"x", "y"} /\ p = [x |-> p.x, y |-> p.y] OBVIOUS
    <3> QED BY <3>1 DEF Has, Coordinates, Get
  <2> QED BY <1>1, <2>1
<1>4. ReadDraw(WriteDraw(stroke)) = stroke
  <2>1. PICK data : data = WriteDraw(stroke) OBVIOUS
  <2>2. /\ data.tool = stroke.tool /\ data.color = stroke.color /\ data.width = stroke.width
        /\ data.points = points /\ DOMAIN data = {"tool", "color", "width", "points"}
    BY <1>0, <2>1 DEF WriteDraw
  <2>3. Has(data, {"tool", "color", "width", "points"})
    BY <2>2 DEF Has
  <2>4. [i \in DOMAIN points |-> IF Has(points[i], {"x", "y"}) THEN points[i]
                                                              ELSE [x |-> 0, y |-> 0]] = points
    <3>1. \A i \in DOMAIN points : Has(points[i], {"x", "y"}) BY <1>1, <1>3
    <3>2. points = [i \in DOMAIN points |-> points[i]] BY <1>1
    <3> QED BY <3>1, <3>2, Zenon
  <2>5. ReadDraw(data) = [tool |-> data.tool, color |-> data.color, width |-> data.width,
                          points |-> points]
    BY <2>2, <2>3, <2>4, Zenon DEF ReadDraw
  <2> QED BY <1>2, <2>1, <2>2, <2>5, Zenon
<1>5. ReadItem(WriteItem(stroke)) = stroke
  <2>1. PICK item : item = WriteItem(stroke) OBVIOUS
  <2>2. /\ item.tool = stroke.tool /\ item.color = stroke.color /\ item.width = stroke.width
        /\ item.points = points /\ item.count = n
        /\ DOMAIN item = {"tool", "color", "width", "points", "count"}
    BY <1>0, <1>1, <2>1 DEF WriteItem
  <2>3. /\ Get(item, "tool", 0) = stroke.tool /\ Get(item, "color", 0) = stroke.color
        /\ Get(item, "width", 0) = stroke.width /\ Get(item, "count", 0) = n
        /\ Has(item, {"points"})
    BY <2>2 DEF Get, Has
  <2>4. [i \in 1..n |-> IF i <= Len(points) THEN Coordinates(points[i])
                                            ELSE [x |-> Junk, y |-> Junk]] = points
    <3>1. \A i \in 1..n : i <= Len(points) BY <1>1
    <3> QED BY <1>1, <1>3, <3>1, Zenon
  <2>5. ReadItem(item) = [tool |-> stroke.tool, color |-> stroke.color, width |-> stroke.width,
                          points |-> points]
    BY <2>2, <2>3, <2>4, Zenon DEF ReadItem
  <2> QED BY <1>2, <2>1, <2>5, Zenon
<1> QED BY <1>4, <1>5 DEF Survives

\* Any character but the one that ends a string.
Character == Int \ {0}

\* Two texts are the same, or their first k characters are.
Agree(s, t, k) == s = t \/ /\ Len(s) >= k /\ Len(t) >= k
                           /\ \A i \in 1..k : s[i] = t[i]

LEMMA FirstFacts ==
  ASSUME NEW s \in Seq(Character), NEW k \in Nat
  PROVE  /\ FirstOf(s, k) \in Seq(Character)
         /\ Len(FirstOf(s, k)) = IF k < Len(s) THEN k ELSE Len(s)
         /\ \A i \in 1..(IF k < Len(s) THEN k ELSE Len(s)) : FirstOf(s, k)[i] = s[i]
<1>1. PICK m \in 0..Len(s) : m = IF k < Len(s) THEN k ELSE Len(s)
  <2>1. Len(s) \in Nat OBVIOUS
  <2> QED BY <2>1
<1>2. SubSeq(s, 1, m) \in Seq(Character) /\ Len(SubSeq(s, 1, m)) = m
      /\ \A i \in 1..m : SubSeq(s, 1, m)[i] = s[i]
  <2> HIDE DEF Character
  <2> QED BY <1>1
<1>3. FirstOf(s, k) = SubSeq(s, 1, m)
  BY <1>1 DEF FirstOf
<1> QED BY <1>1, <1>2, <1>3

LEMMA SameText ==
  ASSUME NEW S, NEW s \in Seq(S), NEW t \in Seq(S), Len(s) = Len(t),
         \A i \in 1..Len(s) : s[i] = t[i]
  PROVE  s = t
OBVIOUS

LEMMA FirstAgree ==
  ASSUME NEW s \in Seq(Character), NEW t \in Seq(Character), NEW k \in Nat, NEW m \in 0..k,
         Agree(s, t, k)
  PROVE  FirstOf(s, m) = FirstOf(t, m)
<1>1. CASE s = t BY <1>1
<1>2. CASE Len(s) >= k /\ Len(t) >= k /\ \A i \in 1..k : s[i] = t[i]
  <2>1. PICK a : a = FirstOf(s, m) OBVIOUS
  <2>2. PICK b : b = FirstOf(t, m) OBVIOUS
  <2>3. Len(s) \in Nat /\ Len(t) \in Nat OBVIOUS
  <2>4. /\ (IF m < Len(s) THEN m ELSE Len(s)) = m /\ (IF m < Len(t) THEN m ELSE Len(t)) = m
    BY <1>2, <2>3
  <2>5. a \in Seq(Character) /\ Len(a) = m /\ \A i \in 1..m : a[i] = s[i]
    <3>1. m \in Nat OBVIOUS
    <3> QED BY <2>1, <2>4, <3>1, FirstFacts, Zenon
  <2>6. b \in Seq(Character) /\ Len(b) = m /\ \A i \in 1..m : b[i] = t[i]
    <3>1. m \in Nat OBVIOUS
    <3> QED BY <2>2, <2>4, <3>1, FirstFacts, Zenon
  <2>7. \A i \in 1..m : i \in 1..k OBVIOUS
  <2> HIDE DEF Character
  <2>8. a = b BY <1>2, <2>5, <2>6, <2>7, SameText
  <2> QED BY <2>1, <2>2, <2>8
<1> QED BY <1>1, <1>2 DEF Agree

\* What is in a buffer after strncpy, whatever its last byte was.
LEMMA StringOf ==
  ASSUME NEW text \in Seq(Character), NEW size \in Nat \ {0}, NEW last \in Int
  PROVE  LET s == String(Strncpy(text, size, last))
         IN  /\ s \in Seq(Character) /\ Agree(s, text, size - 1)
             /\ Len(text) <= size - 2 => s = text
             /\ last = 0 => s = FirstOf(text, size - 1)
<1>1. PICK n \in Nat : n = Len(text) OBVIOUS
<1>2. PICK b : b = Strncpy(text, size, last) OBVIOUS
<1>3. PICK s : s = String(b) OBVIOUS
<1>4. \A i \in 1..n : text[i] \in Character /\ text[i] \in Int /\ text[i] # 0
  <2>1. \A i \in 1..n : text[i] \in Character
    <3> HIDE DEF Character
    <3> QED BY <1>1
  <2> QED BY <2>1 DEF Character
<1>5. /\ b \in Seq(Int) /\ Len(b) = size /\ DOMAIN b = 1..size
      /\ b[size] = last
      /\ \A i \in 1..(size - 1) : b[i] = IF i <= n THEN text[i] ELSE 0
  <2>1. b = [i \in 1..size |-> IF i = size THEN last ELSE IF i <= n THEN text[i] ELSE 0]
    BY <1>1, <1>2 DEF Strncpy
  <2>2. \A i \in 1..size : (IF i = size THEN last ELSE IF i <= n THEN text[i] ELSE 0) \in Int
    BY <1>4
  <2>3. b \in Seq(Int) /\ Len(b) = size /\ DOMAIN b = 1..size BY <2>1, <2>2
  <2>4. size \in 1..size /\ \A i \in 1..(size - 1) : i \in 1..size /\ i # size OBVIOUS
  <2> QED BY <2>1, <2>3, <2>4
\* The first k bytes, when the next one is the first 0.
<1>6. ASSUME NEW k \in 0..(size - 1), k <= n, b[k + 1] = 0
      PROVE  /\ s \in Seq(Character) /\ Len(s) = k /\ \A i \in 1..k : s[i] = text[i]
  <2>1. \A i \in 1..k : b[i] = text[i] /\ b[i] # 0 /\ b[i] \in Character
    BY <1>4, <1>5, <1>6
  <2> DEFINE P(i) == b[i] = 0 /\ \A j \in 1..i - 1 : b[j] # 0
  <2>2. k + 1 \in DOMAIN b /\ P(k + 1)
    BY <1>5, <1>6, <2>1
  <2>3. ASSUME NEW i \in DOMAIN b, P(i) PROVE i = k + 1
    <3>1. i \in 1..size BY <1>5
    <3>2. ~ (i < k + 1) BY <2>1, <2>3, <3>1
    <3>3. ~ (k + 1 < i)
      <4>1. k + 1 < i => k + 1 \in 1..i - 1 BY <3>1
      <4> QED BY <1>6, <2>3, <4>1
    <3> QED BY <3>1, <3>2, <3>3
  <2>4. (CHOOSE i \in DOMAIN b : P(i)) = k + 1
    <3> HIDE DEF P
    <3> QED BY <2>2, <2>3
  <2>5. ~ \A i \in DOMAIN b : b[i] # 0 BY <1>6, <2>2
  <2>6. s = SubSeq(b, 1, (k + 1) - 1)
    BY <1>3, <2>4, <2>5 DEF String
  <2>7. s = SubSeq(b, 1, k) /\ k \in 0..Len(b)
    <3>1. (k + 1) - 1 = k OBVIOUS
    <3> QED BY <1>5, <2>6, <3>1
  <2>8. Len(s) = k /\ \A i \in 1..k : s[i] = b[i] BY <1>5, <2>7
  <2>9. s \in Seq(Character)
    <3>1. s = [i \in 1..k |-> s[i]] BY <1>5, <2>7
    <3>2. \A i \in 1..k : s[i] \in Character BY <2>1, <2>8
    <3> HIDE DEF Character
    <3> QED BY <3>1, <3>2
  <2> QED BY <2>1, <2>8, <2>9
<1>7. CASE n <= size - 2
  <2>1. n \in 0..(size - 1) /\ n + 1 \in 1..(size - 1) BY <1>7
  <2>2. b[n + 1] = 0 BY <1>5, <2>1
  <2>3. s \in Seq(Character) /\ Len(s) = n /\ \A i \in 1..n : s[i] = text[i]
    BY <1>6, <2>1, <2>2
  <2>4. s = text
    <3> HIDE DEF Character
    <3> QED BY <1>1, <2>3, SameText
  <2>5. FirstOf(text, size - 1) = text
    <3>1. PICK f : f = FirstOf(text, size - 1) OBVIOUS
    <3>2. size - 1 \in Nat /\ (IF size - 1 < Len(text) THEN size - 1 ELSE Len(text)) = n
      BY <1>1, <1>7
    <3>3. f \in Seq(Character) /\ Len(f) = n /\ \A i \in 1..n : f[i] = text[i]
      BY <3>1, <3>2, FirstFacts, Zenon
    <3> HIDE DEF Character
    <3>4. f = text BY <1>1, <3>3, SameText
    <3> QED BY <3>1, <3>4
  <2> QED BY <1>2, <1>3, <2>3, <2>4, <2>5 DEF Agree
<1>8. CASE n >= size - 1 /\ last = 0
  <2>1. size - 1 \in 0..(size - 1) /\ size - 1 <= n /\ (size - 1) + 1 = size BY <1>8
  <2>2. /\ s \in Seq(Character) /\ Len(s) = size - 1
        /\ \A i \in 1..(size - 1) : s[i] = text[i]
    BY <1>5, <1>6, <1>8, <2>1
  <2>3. Agree(s, text, size - 1)
    BY <1>1, <1>8, <2>2 DEF Agree
  <2>4. s = FirstOf(text, size - 1)
    <3>1. PICK f : f = FirstOf(text, size - 1) OBVIOUS
    <3>2. size - 1 \in Nat
          /\ (IF size - 1 < Len(text) THEN size - 1 ELSE Len(text)) = size - 1
      BY <1>1, <1>8
    <3>3. f \in Seq(Character) /\ Len(f) = size - 1 /\ \A i \in 1..(size - 1) : f[i] = text[i]
      BY <3>1, <3>2, FirstFacts, Zenon
    <3> HIDE DEF Character
    <3>4. f = s BY <2>2, <3>3, SameText
    <3> QED BY <3>1, <3>4
  <2>5. ~ (Len(text) <= size - 2) BY <1>1, <1>8
  <2> QED BY <1>2, <1>3, <2>2, <2>3, <2>4, <2>5
<1>9. CASE n >= size - 1 /\ last # 0
  <2>1. \A i \in 1..(size - 1) : b[i] = text[i]
    BY <1>5, <1>9
  <2>2. \A i \in 1..size : b[i] # 0 /\ b[i] \in Int /\ b[i] \in Character
    <3>1. ASSUME NEW i \in 1..size PROVE b[i] # 0 /\ b[i] \in Int
      <4>1. CASE i = size BY <1>5, <1>9, <4>1
      <4>2. CASE i # size
        <5>1. i \in 1..(size - 1) /\ i \in 1..n BY <1>9, <4>2
        <5> QED BY <1>4, <2>1, <5>1
      <4> QED BY <4>1, <4>2
    <3> QED BY <3>1 DEF Character
  <2>3. s = Append(b, Junk)
    BY <1>3, <1>5, <2>2 DEF String
  <2>4. b \in Seq(Character)
    <3>1. b = [i \in 1..size |-> b[i]] BY <1>5
    <3> HIDE DEF Character
    <3> QED BY <2>2, <3>1
  <2>5. Junk \in Character BY DEF Junk, Character
  <2>6. s \in Seq(Character) /\ Len(s) = size + 1 /\ \A i \in 1..size : s[i] = b[i]
    <3> HIDE DEF Character
    <3> QED BY <1>5, <2>3, <2>4, <2>5
  <2>7. \A i \in 1..(size - 1) : s[i] = text[i]
    <3>1. \A i \in 1..(size - 1) : i \in 1..size OBVIOUS
    <3> QED BY <2>1, <2>6, <3>1
  <2>8. Len(s) >= size - 1 BY <2>6
  <2>9. ~ (Len(text) <= size - 2) BY <1>1, <1>9
  <2> QED BY <1>1, <1>2, <1>3, <1>9, <2>6, <2>7, <2>8, <2>9 DEF Agree
<1> QED BY <1>7, <1>8, <1>9

\* A text that goes through two buffers of one size.
Twice(text, size, a, b) == String(Strncpy(String(Strncpy(text, size, a)), size, b))

LEMMA TwoBuffers ==
  ASSUME NEW text \in Seq(Character), NEW size \in Nat \ {0}, NEW a \in Int, NEW b \in Int
  PROVE  /\ Twice(text, size, a, b) \in Seq(Character)
         /\ Len(text) <= size - 2 => Twice(text, size, a, b) = text
         /\ \A k \in 0..(size - 1) : FirstOf(Twice(text, size, a, b), k) = FirstOf(text, k)
<1>1. PICK t : t = String(Strncpy(text, size, a)) OBVIOUS
<1>2. /\ t \in Seq(Character) /\ Agree(t, text, size - 1)
      /\ Len(text) <= size - 2 => t = text
  BY <1>1, StringOf, Zenon
<1>3. PICK s : s = Twice(text, size, a, b) /\ s = String(Strncpy(t, size, b))
  BY <1>1 DEF Twice
<1>4. /\ s \in Seq(Character) /\ Agree(s, t, size - 1)
      /\ Len(t) <= size - 2 => s = t
  BY <1>2, <1>3, StringOf, Zenon
<1>5. size - 1 \in Nat OBVIOUS
<1>6. ASSUME NEW k \in 0..(size - 1) PROVE FirstOf(s, k) = FirstOf(text, k)
  <2>1. FirstOf(s, k) = FirstOf(t, k) BY <1>2, <1>4, <1>5, FirstAgree
  <2>2. FirstOf(t, k) = FirstOf(text, k) BY <1>2, <1>5, FirstAgree
  <2> QED BY <2>1, <2>2
<1> QED BY <1>1, <1>2, <1>3, <1>4, <1>6

\* The strncpy calls of gui_main.c, database.c and server.c: for every text,
\* every name of a sender and whatever is in the bytes that nobody has written.
THEOREM EveryTextArrives ==
  ASSUME NEW text \in Seq(Character), NEW from \in Seq(Character),
         NEW sent \in Int, NEW received \in Int
  PROVE  Arrives(text, from, sent, received)
<1> DEFINE auth == WriteAuth(text, text, text)
           row == [id |-> 1, owner |-> 1, description |-> "", name |-> WriteRoom(text, sent).name]
           shown == ReadChat(WriteChat(from, text, sent), received)
<1>1. auth = WriteAuth(text, text, text) OBVIOUS
<1>2. row = [id |-> 1, owner |-> 1, description |-> "", name |-> WriteRoom(text, sent).name]
  OBVIOUS
<1>3. shown = ReadChat(WriteChat(from, text, sent), received) OBVIOUS
<1> HIDE DEF auth, row, shown
<1>4. /\ LoginUnderstood(auth) /\ auth.username = FirstOf(text, 63)
      /\ text # <<>> => RegisterUnderstood(auth)
  <2>1. PICK name : name = String(Strncpy(text, 64, 0)) OBVIOUS
  <2>2. PICK mail : mail = String(Strncpy(text, 128, 0)) OBVIOUS
  <2>3. name = FirstOf(text, 63)
    <3>1. 64 \in Nat \ {0} /\ 0 \in Int /\ 64 - 1 = 63 OBVIOUS
    <3> QED BY <2>1, <3>1, StringOf, Zenon
  <2>4. text # <<>> => mail # <<>>
    <3>1. PICK m \in Nat \ {0} : m = 128 /\ m - 1 = 127 OBVIOUS
    <3>2. mail = FirstOf(text, 127) BY <2>2, <3>1, StringOf
    <3>3. Len(mail) = IF 127 < Len(text) THEN 127 ELSE Len(text)
      <4>1. 127 \in Nat OBVIOUS
      <4> QED BY <3>2, <4>1, FirstFacts, Zenon
    <3>4. Len(text) \in Nat /\ (text # <<>> => Len(text) > 0) OBVIOUS
    <3>5. Len(<<>>) = 0 OBVIOUS
    <3>6. ASSUME text # <<>> PROVE mail # <<>>
      <4>1. Len(mail) > 0 BY <3>3, <3>4, <3>6
      <4>2. Len(mail) # 0 BY <4>1
      <4> QED BY <3>5, <4>2, Zenon
    <3> QED BY <3>6
  <2>5. auth = IF mail = <<>> THEN [username |-> name, password |-> name]
               ELSE [username |-> name, password |-> name, email |-> mail]
    BY <1>1, <2>1, <2>2 DEF WriteAuth
  <2>6. /\ auth.username = name /\ {"username", "password"} \subseteq DOMAIN auth
        /\ mail # <<>> => {"username", "password", "email"} \subseteq DOMAIN auth
    BY <2>5
  <2> QED BY <2>3, <2>4, <2>6 DEF LoginUnderstood, RegisterUnderstood, Has
<1>5. ASSUME Len(text) <= 126
      PROVE  ReadRoomList(WriteRoomList(<<row>>, received)) = <<[id |-> 1, name |-> text]>>
  <2>1. PICK m \in Nat \ {0} : m = 128 /\ m - 2 = 126 OBVIOUS
  <2>2. String(Strncpy(text, 128, sent)) = text /\ String(Strncpy(text, 128, received)) = text
    <3>1. Len(text) <= m - 2 BY <1>5, <2>1
    <3>2. String(Strncpy(text, m, sent)) = text BY <3>1, StringOf
    <3>3. String(Strncpy(text, m, received)) = text BY <3>1, StringOf
    <3> QED BY <2>1, <3>2, <3>3
  <2>3. row.name = text /\ row.id = 1
    BY <1>2, <2>2 DEF WriteRoom
  <2>4. PICK list : list = WriteRoomList(<<row>>, received) OBVIOUS
  <2>5. list = [i \in {1} |-> [id |-> 1, name |-> text, desc |-> row.description,
                               owner |-> row.owner]]
    <3>1. DOMAIN <<row>> = {1} /\ <<row>>[1] = row OBVIOUS
    <3>2. \A i \in {1} : <<row>>[i] = row BY <3>1
    <3> QED BY <2>2, <2>3, <2>4, <3>1, <3>2 DEF WriteRoomList
  <2>6. ReadRoomList(list) = [i \in {1} |-> [id |-> 1, name |-> text]]
    BY <2>5 DEF ReadRoomList
  <2>7. [i \in {1} |-> [id |-> 1, name |-> text]] = <<[id |-> 1, name |-> text]>>
    <3>1. PICK r : r = [id |-> 1, name |-> text] OBVIOUS
    <3>2. [i \in {1} |-> r] = <<r>>
      <4>1. 1..1 = {1} OBVIOUS
      <4> QED BY <4>1
    <3> QED BY <3>1, <3>2
  <2> QED BY <2>4, <2>6, <2>7
<1>6. /\ shown.sender \in Seq(Character) /\ shown.content \in Seq(Character)
      /\ Len(from) <= 62 => shown.sender = from
      /\ Len(text) <= 510 => shown.content = text
      /\ FirstOf(shown.sender, 32) = FirstOf(from, 32)
      /\ FirstOf(shown.content, 440) = FirstOf(text, 440)
  <2>1. /\ shown.sender = String(Strncpy(String(Strncpy(from, 64, sent)), 64, received))
        /\ shown.content = String(Strncpy(String(Strncpy(text, 512, sent)), 512, received))
    BY <1>3 DEF ReadChat, WriteChat
  <2>2. PICK m \in Nat \ {0} : m = 64 /\ m - 2 = 62 /\ 32 \in 0..(m - 1) OBVIOUS
  <2>3. PICK n \in Nat \ {0} : n = 512 /\ n - 2 = 510 /\ 440 \in 0..(n - 1) OBVIOUS
  <2>4. PICK s : s = Twice(from, m, sent, received) OBVIOUS
  <2>5. PICK c : c = Twice(text, n, sent, received) OBVIOUS
  <2>6. s = shown.sender /\ c = shown.content
    BY <2>1, <2>2, <2>3, <2>4, <2>5 DEF Twice
  <2>7. /\ s \in Seq(Character)
        /\ Len(from) <= 62 => s = from
        /\ FirstOf(s, 32) = FirstOf(from, 32)
    <3>1. /\ s \in Seq(Character)
          /\ Len(from) <= m - 2 => s = from
          /\ \A k \in 0..(m - 1) : FirstOf(s, k) = FirstOf(from, k)
      BY <2>4, TwoBuffers
    <3> QED BY <2>2, <3>1
  <2>8. /\ c \in Seq(Character)
        /\ Len(text) <= 510 => c = text
        /\ FirstOf(c, 440) = FirstOf(text, 440)
    <3>1. /\ c \in Seq(Character)
          /\ Len(text) <= n - 2 => c = text
          /\ \A k \in 0..(n - 1) : FirstOf(c, k) = FirstOf(text, k)
      BY <2>5, TwoBuffers
    <3> QED BY <2>3, <3>1
  <2> QED BY <2>6, <2>7, <2>8
<1>7. ChatLine(shown) = <<FirstOf(from, 32), FirstOf(text, 440)>>
  BY <1>6 DEF ChatLine
<1> QED BY <1>4, <1>5, <1>6, <1>7 DEF Arrives, auth, row, shown

\* json_codec.c and undo_redo.c: the strokes that TLC tries are of that kind.
THEOREM StrokesComeBack == Spec => []StrokesAtStart
<1>1. ASSUME NEW stroke \in Strokes PROVE Survives(stroke)
  <2>1. Points \subseteq [x : Int, y : Int] BY DEF Points
  <2>2. \A n \in 0..2 : [1..n -> Points] \subseteq Seq([x : Int, y : Int])
    <3>1. ASSUME NEW n \in 0..2, NEW f \in [1..n -> Points] PROVE f \in Seq([x : Int, y : Int])
      <4> DEFINE P == [x : Int, y : Int]
      <4>1. n \in Nat /\ \A i \in 1..n : f[i] \in P BY <2>1
      <4>2. f = [i \in 1..n |-> f[i]] OBVIOUS
      <4> HIDE DEF P
      <4>3. f \in Seq(P) BY <4>1, <4>2
      <4> QED BY <4>3 DEF P
    <3> QED BY <3>1
  <2>3. stroke.points \in Seq([x : Int, y : Int])
    <3>1. stroke.points \in UNION {[1..n -> Points] : n \in 0..2} BY DEF Strokes
    <3> QED BY <2>2, <3>1
  <2>4. /\ stroke = [tool |-> stroke.tool, color |-> stroke.color, width |-> stroke.width,
                     points |-> stroke.points]
        /\ stroke.tool \in Int /\ stroke.color \in Int /\ stroke.width \in Int
    BY SMT DEF Strokes
  <2>5. stroke \in [tool : Int, color : Int, width : Int, points : Seq([x : Int, y : Int])]
    BY <2>3, <2>4
  <2> QED BY <2>5, EveryStrokeSurvives
<1>2. StrokesAtStart
  BY <1>1 DEF StrokesAtStart, AtStart, StrokesSurvive
<1> QED BY <1>2, PTL

\* gui_main.c, database.c and server.c: and so are its texts.
THEOREM TextsComeThrough == Spec => []TextsAtStart
<1>1. \A n \in Nat : Text(n) \in Seq(Character)
  <2>1. ASSUME NEW n \in Nat PROVE Text(n) \in Seq(Character)
    <3>1. \A i \in 1..n : 1 + (i % 7) \in Character BY SMT DEF Character
    <3> HIDE DEF Character
    <3> QED BY <3>1 DEF Text
  <2> QED BY <2>1
<1>2. Sizes \subseteq Nat /\ {0, 1, 50, 62, 63} \subseteq Nat /\ {0, 5} \subseteq Int
  BY DEF Sizes
<1>3. TextsArrive
  BY <1>1, <1>2, EveryTextArrives DEF TextsArrive
<1>4. TextsAtStart
  BY <1>3 DEF TextsAtStart, AtStart
<1> QED BY <1>4, PTL
===============================================================================

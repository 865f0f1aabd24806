------------------------------- MODULE CanvasDb -------------------------------
(***************************************************************************)
(* src/common/database.c and the two tables of schema.sql: the connection  *)
(* handle `conn' with its ways of failing, and what each call of the       *)
(* server does to the rows.  Every call holds db_mutex from start to end   *)
(* and the server has one thread, so a call is one step.                   *)
(***************************************************************************)
EXTENDS Integers, Sequences, FiniteSets

CONSTANTS
  Users,        \* user names
  Canvases,     \* serialized drawings
  MaxProjects,  \* bound: rows in projects
  DbFaults      \* "boot": MySQL may be unreachable when the server starts;
                \* "outage": it may go away, or drop the connection, later

ASSUME UsersAssumption == IsFiniteSet(Users)
ASSUME MaxProjectsAssumption == MaxProjects \in Nat
ASSUME FaultsAssumption == DbFaults \subseteq {"boot", "outage"}

Blank == ""         \* canvas_data of a new project
NoStrokes == "[]"   \* what db_get_project_data answers for lack of data

ASSUME CanvasAssumption == Blank \notin Canvases

VARIABLES
  users,     \* table users: name -> id, 0 for a name not registered
  projects,  \* table projects: id -> [owner, canvas]
  conn,      \* the handle: "open", "lost" (server gone), "null", "freed"
  mysqld     \* external: the database server, "up" or "down"

dbVars == <<users, projects, conn, mysqld>>

\* db_init that fails closes the handle (48) and leaves `conn' pointing at it;
\* main only warns (384-391).
DbInit ==
  /\ users = [u \in Users |-> 0]
  /\ projects = <<>>
  /\ \/ conn = "open" /\ mysqld = "up"
     \/ "boot" \in DbFaults /\ conn = "freed" /\ mysqld \in {"up", "down"}

\* The same when the server is started again.
DbConnect ==
  /\ \/ conn' = "open" /\ mysqld = "up"
     \/ "boot" \in DbFaults /\ conn' = "freed"
  /\ UNCHANGED <<users, projects, mysqld>>

\* A statement succeeds only on a connection that is alive.
Answers == conn = "open"

\* What using the handle makes of it: "fault" is a process killed for
\* touching freed memory.
Touched == IF conn = "freed" THEN {"freed", "fault"} ELSE {conn}

Registered == {u \in Users : users[u] # 0}

\* One statement: it answers; or the connection breaks under it, when it may
\* have been carried out all the same; or there is no connection to send it on.
Statement(ok, done) ==
  \/ Answers /\ ok /\ done /\ conn' = conn
  \/ Answers /\ "outage" \in DbFaults /\ ~ok /\ conn' = "lost"
  \/ ~Answers /\ ~ok /\ ~done /\ conn' \in Touched

\* Mutant: the name is not UNIQUE, a second registration gets another id.
DbRegisterAgain(u, ok) ==
  /\ \E ran, done \in BOOLEAN :
       /\ Statement(ran, done)
       /\ ok = ran
       /\ users' = IF done THEN [users EXCEPT ![u] = Cardinality(Registered) + 1] ELSE users
  /\ UNCHANGED <<projects, mysqld>>

\* INSERT INTO users: the name is UNIQUE, the email is not.
DbRegister(u, ok) ==
  /\ \E ran, done \in BOOLEAN :
       /\ Statement(ran, done)
       /\ ok = (ran /\ users[u] = 0)
       /\ users' = IF done /\ users[u] = 0
                    THEN [users EXCEPT ![u] = Cardinality(Registered) + 1] ELSE users
  /\ UNCHANGED <<projects, mysqld>>

\* 0 for a wrong password, an unknown name or no database.
DbLogin(u, good, id) ==
  /\ \E ran, done \in BOOLEAN : /\ Statement(ran, done)
                               /\ id = IF ran /\ good THEN users[u] ELSE 0
  /\ UNCHANGED <<users, projects, mysqld>>

\* The name goes into the statement as it is: one that is too long for
\* query[1024], or that ends the quotation, makes the INSERT fail here (names
\* that turn it into a different statement are left out).
DbCreateProject(uid, ok) ==
  /\ \E ran, done, valid \in BOOLEAN :
       /\ Statement(ran, done)
       /\ ok = (ran /\ valid)
       /\ done /\ valid => Len(projects) < MaxProjects
       /\ projects' = IF done /\ valid
                       THEN Append(projects, [owner |-> uid, canvas |-> Blank]) ELSE projects
  /\ UNCHANGED <<users, mysqld>>

DbGetProjects(ok) ==
  /\ \E done \in BOOLEAN : Statement(ok, done)
  /\ UNCHANGED <<users, projects, mysqld>>

\* A missing row and a failed query both answer "[]".
DbGetProjectData(r, data) ==
  /\ \E ran, done \in BOOLEAN :
       /\ Statement(ran, done)
       /\ data = IF ran /\ r \in DOMAIN projects THEN projects[r].canvas ELSE NoStrokes
  /\ UNCHANGED <<users, projects, mysqld>>

\* UPDATE of a row that does not exist changes nothing and succeeds.
Stored(r, c) ==
  IF r \in DOMAIN projects THEN [projects EXCEPT ![r].canvas = c] ELSE projects

\* db_reconnect and the statement on the new connection.
Reconnected(ok, done) ==
  \/ mysqld = "up" /\ ok /\ done /\ conn' = "open"
  \/ mysqld = "up" /\ "outage" \in DbFaults /\ ~ok /\ conn' = "lost"
  \/ mysqld = "down" /\ ~ok /\ ~done /\ conn' = "null"

\* Mutant: the call reports success after the reconnect without the UPDATE.
DbSaveProjectDataNoRetry(r, c, ok) ==
  /\ \E done \in BOOLEAN :
       /\ \/ conn # "null" /\ Statement(ok, done)
          \/ conn \in {"lost", "null"} /\ Reconnected(ok, done)
       /\ projects' = IF done /\ conn = "open" THEN Stored(r, c) ELSE projects
  /\ UNCHANGED <<users, mysqld>>

\* The only call that reconnects: at once when there is no handle, and after
\* a CR_SERVER_GONE_ERROR; another error on a lost connection is the end.
DbSaveProjectData(r, c, ok) ==
  /\ \E done \in BOOLEAN :
       /\ \/ conn # "null" /\ Statement(ok, done)
          \/ conn \in {"lost", "null"} /\ Reconnected(ok, done)
       /\ projects' = IF done THEN Stored(r, c) ELSE projects
  /\ UNCHANGED <<users, mysqld>>

\* The database server stops and comes back, or drops an idle connection.
DbDown ==
  /\ "outage" \in DbFaults /\ mysqld = "up" /\ mysqld' = "down"
  /\ conn' = IF conn = "open" THEN "lost" ELSE conn
  /\ UNCHANGED <<users, projects>>

DbUp ==
  /\ mysqld = "down" /\ mysqld' = "up"
  /\ UNCHANGED <<users, projects, conn>>

DbIdle ==
  /\ "outage" \in DbFaults /\ conn = "open" /\ conn' = "lost"
  /\ UNCHANGED <<users, projects, mysqld>>

DbTypeOK ==
  /\ users \in [Users -> Nat]
  /\ projects \in Seq([owner : Nat, canvas : Canvases \union {Blank}])
  /\ conn \in {"open", "lost", "null", "freed", "fault"}
  /\ mysqld \in {"up", "down"}
===============================================================================

-------------------------------- MODULE Collab --------------------------------
(***************************************************************************)
(* A room of src/client/gui_main.c clients joined through server.c: every  *)
(* client has its own drawing history (undo_redo.c, by the operators that  *)
(* UndoList.tla implements) and its own surface; the server relays edits   *)
(* and keeps, per room, the last drawing saved.  Clients are logged in and *)
(* start in the lobby.  Connections are reliable and in order here; the    *)
(* server's table, slow sockets and the database are in CanvasServer.      *)
(***************************************************************************)
EXTENDS UndoOps, FiniteSets, SequencesExt

CONSTANTS
  Clients,
  Rooms,
  Limit,      \* the 50 of undo_redo_init(50)
  Features,   \* what the users of a run do, out of AllFeatures
  MaxDraws,   \* bound: strokes drawn
  MaxChannel  \* bound: messages of one direction of one connection under way

\* "again": Join is clicked before the last click had its effect; "outage":
\* the database is away when somebody joins.
AllFeatures == {"undo", "clear", "save", "file", "quit", "again", "outage"}
NoRoom == 0

ASSUME RoomsAssumption == NoRoom \notin Rooms
ASSUME LimitAssumption == Limit \in Nat \ {0}
ASSUME FeaturesAssumption == Features \subseteq AllFeatures
ASSUME BoundsAssumption == MaxDraws \in Nat /\ MaxChannel \in Nat

VARIABLES
  hist,     \* per client: g_history
  phase,    \* per client: app->phase, or "gone": the program was closed
  built,    \* per client: build_canvas_ui has run
  surface,  \* per client: app->surface is not NULL
  painted,  \* per client: the strokes on the surface, oldest first
  file,     \* the drawing in the local file
  out, in,  \* per client: messages to, and from, the server
  room,     \* per client: room_id of its slot in the server
  saved,    \* per room: canvas_data, <<>> when nothing was saved
  drawn,    \* number of strokes drawn; a stroke is its number
  canon,    \* ghost, per room: the edits relayed since it was last empty
  stray     \* ghost: clients that left the common drawing (StrayedBy...)

app == <<hist, phase, built, surface, painted, file, drawn>>
server == <<room, saved>>
ghosts == <<canon, stray>>
vars == <<app, in, out, server, ghosts>>

Draw(s) == [type |-> "draw", stroke |-> s]
Plain(type) == [type |-> type]
Edits == {"draw", "undo", "redo", "clear"}
Has(q, types) == \E i \in DOMAIN q : q[i].type \in types

Init ==
  /\ hist = [c \in Clients |-> Fresh(0)]
  /\ phase = [c \in Clients |-> "lobby"]
  /\ built = [c \in Clients |-> FALSE] /\ surface = [c \in Clients |-> FALSE]
  /\ painted = [c \in Clients |-> <<>>] /\ file = <<>> /\ drawn = 0
  /\ out = [c \in Clients |-> <<>>] /\ in = [c \in Clients |-> <<>>]
  /\ room = [c \in Clients |-> NoRoom] /\ saved = [r \in Rooms |-> <<>>]
  /\ canon = [r \in Rooms |-> Fresh(Limit)] /\ stray = {}

\* What one edit does to a history, wherever it comes from.
Edited(h, m) ==
  CASE m.type = "draw"  -> Push(h, m.stroke)
    [] m.type = "undo"  -> Undo(h)
    [] m.type = "redo"  -> Redo(h)
    [] m.type = "clear" -> Fresh(Limit)

--------------------------------------------------------------------------------
(* What a user does *)

Send(c, m) == Len(out[c]) < MaxChannel /\ out' = [out EXCEPT ![c] = Append(@, m)]

\* Set the history of c, and repaint_all: white, then the visible strokes.
Repainted(c, h) == [painted EXCEPT ![c] = IF surface[c] THEN Visible(h) ELSE @]
SetAndRepaint(c, h) == hist' = [hist EXCEPT ![c] = h] /\ painted' = Repainted(c, h)

\* An edit made before everything sent to this client was heard.
StrayedByRace(c) == IF in[c] # <<>> THEN {c} ELSE {}

\* The Join button, until the lobby has been replaced: it can be clicked again.
ClickJoin(c, r) ==
  /\ phase[c] # "gone" /\ ~built[c]
  /\ "again" \in Features \/ (phase[c] = "lobby" /\ out[c] = <<>> /\ in[c] = <<>>)
  /\ Send(c, [type |-> "join", room |-> r])
  /\ UNCHANGED <<app, in, server, ghosts>>

\* update_ui_idle after join_room_resp.
BuildCanvas(c) ==
  /\ phase[c] = "canvas" /\ ~built[c]
  /\ built' = [built EXCEPT ![c] = TRUE]
  /\ UNCHANGED <<hist, phase, surface, painted, file, drawn, in, out, server, ghosts>>

\* Mutant: the new surface is only filled with white.
ConfigureWhite(c) ==
  /\ built[c]
  /\ surface' = [surface EXCEPT ![c] = TRUE]
  /\ painted' = [painted EXCEPT ![c] = <<>>]
  /\ UNCHANGED <<hist, phase, built, file, drawn, in, out, server, ghosts>>

\* The first configure event makes the surface; every one repaints it, as
\* does the timer behind delayed_repaint.
Configure(c) ==
  /\ built[c]
  /\ surface' = [surface EXCEPT ![c] = TRUE]
  /\ painted' = [painted EXCEPT ![c] = Visible(hist[c])]
  /\ UNCHANGED <<hist, phase, built, file, drawn, in, out, server, ghosts>>

\* draw_brush: paint, push, send.
DrawBrush(c) ==
  /\ surface[c] /\ drawn < MaxDraws
  /\ drawn' = drawn + 1
  /\ painted' = [painted EXCEPT ![c] = Append(@, drawn')]
  /\ hist' = [hist EXCEPT ![c] = Push(@, drawn')]
  /\ Send(c, Draw(drawn'))
  /\ stray' = stray \union StrayedByRace(c)
  /\ UNCHANGED <<phase, built, surface, file, in, server, canon>>

\* The Undo and Redo buttons do nothing when there is nothing to do.
ClickUndo(c) ==
  /\ "undo" \in Features /\ built[c] /\ hist[c].cur > 0
  /\ SetAndRepaint(c, Undo(hist[c]))
  /\ Send(c, Plain("undo"))
  /\ stray' = stray \union StrayedByRace(c)
  /\ UNCHANGED <<phase, built, surface, file, drawn, in, server, canon>>

ClickRedo(c) ==
  /\ "undo" \in Features /\ built[c] /\ hist[c].cur < Len(hist[c].log)
  /\ SetAndRepaint(c, Redo(hist[c]))
  /\ Send(c, Plain("redo"))
  /\ stray' = stray \union StrayedByRace(c)
  /\ UNCHANGED <<phase, built, surface, file, drawn, in, server, canon>>

ClickClear(c) ==
  /\ "clear" \in Features /\ surface[c]
  /\ SetAndRepaint(c, Fresh(Limit))
  /\ Send(c, Plain("clear"))
  /\ stray' = stray \union StrayedByRace(c)
  /\ UNCHANGED <<phase, built, surface, file, drawn, in, server, canon>>

\* Nothing is sent when the drawing is empty.
ClickSave(c) ==
  /\ "save" \in Features /\ built[c] /\ Visible(hist[c]) # <<>>
  /\ Send(c, [type |-> "save", canvas |-> Visible(hist[c])])
  /\ UNCHANGED <<app, in, server, ghosts>>

SaveLocal(c) ==
  /\ "file" \in Features /\ built[c]
  /\ file' = Visible(hist[c])
  /\ UNCHANGED <<hist, phase, built, surface, painted, drawn, in, out, server, ghosts>>

\* The file replaces the drawing here; nobody else is told.
LoadLocal(c) ==
  /\ "file" \in Features /\ built[c]
  /\ SetAndRepaint(c, Load(hist[c], file, Limit))
  /\ stray' = stray \union {c}
  /\ UNCHANGED <<phase, built, surface, file, drawn, in, out, server, canon>>

\* The window is closed; the server learns it behind what was sent before.
Quit(c) ==
  /\ "quit" \in Features /\ phase[c] # "gone"
  /\ phase' = [phase EXCEPT ![c] = "gone"]
  /\ built' = [built EXCEPT ![c] = FALSE] /\ surface' = [surface EXCEPT ![c] = FALSE]
  /\ hist' = [hist EXCEPT ![c] = Fresh(0)] /\ painted' = [painted EXCEPT ![c] = <<>>]
  /\ out' = [out EXCEPT ![c] = Append(@, Plain("bye"))] /\ in' = [in EXCEPT ![c] = <<>>]
  /\ UNCHANGED <<file, drawn, server, ghosts>>

--------------------------------------------------------------------------------
(* on_net_message *)

Arrives(c, type) == phase[c] # "gone" /\ in[c] # <<>> /\ Head(in[c]).type = type
Consumed(c) == in' = [in EXCEPT ![c] = Tail(@)]

\* join_room_resp counts in the lobby only; a second one is ignored.
HearJoined(c) ==
  /\ Arrives(c, "joined") /\ Consumed(c)
  /\ phase' = [phase EXCEPT ![c] = "canvas"]
  /\ hist' = [hist EXCEPT ![c] = IF phase[c] = "lobby" THEN Fresh(Limit) ELSE @]
  /\ UNCHANGED <<built, surface, painted, file, drawn, out, server, ghosts>>

\* An empty drawing resets the history to Limit, any other keeps its limit.
Loaded(h, s) == IF s = <<>> THEN Fresh(Limit) ELSE Load(h, s, Limit)

HearLoad(c) ==
  /\ Arrives(c, "load") /\ Consumed(c)
  /\ SetAndRepaint(c, Loaded(hist[c], Head(in[c]).canvas))
  /\ UNCHANGED <<phase, built, surface, file, drawn, out, server, ghosts>>

HearDraw(c) ==
  /\ Arrives(c, "draw") /\ Consumed(c)
  /\ hist' = [hist EXCEPT ![c] = Edited(@, Head(in[c]))]
  /\ painted' = [painted EXCEPT ![c] = IF surface[c] THEN Append(@, Head(in[c]).stroke) ELSE @]
  /\ UNCHANGED <<phase, built, surface, file, drawn, out, server, ghosts>>

\* Mutant: the stroke another user undid stays on the surface.
HearUndoUnpainted(c) ==
  /\ Arrives(c, "undo") /\ Consumed(c)
  /\ hist' = [hist EXCEPT ![c] = Undo(@)]
  /\ UNCHANGED <<painted, phase, built, surface, file, drawn, out, server, ghosts>>

\* An undo with nothing to undo does not repaint.
HearUndo(c) ==
  /\ Arrives(c, "undo") /\ Consumed(c)
  /\ IF hist[c].cur > 0 THEN SetAndRepaint(c, Undo(hist[c])) ELSE UNCHANGED <<hist, painted>>
  /\ UNCHANGED <<phase, built, surface, file, drawn, out, server, ghosts>>

HearRedo(c) ==
  /\ Arrives(c, "redo") /\ Consumed(c)
  /\ IF hist[c].cur < Len(hist[c].log)
       THEN SetAndRepaint(c, Redo(hist[c])) ELSE UNCHANGED <<hist, painted>>
  /\ UNCHANGED <<phase, built, surface, file, drawn, out, server, ghosts>>

\* Without a surface the clear is dropped, the history with it.
HearClear(c) ==
  /\ Arrives(c, "clear") /\ Consumed(c)
  /\ IF surface[c] THEN SetAndRepaint(c, Fresh(Limit)) ELSE UNCHANGED <<hist, painted>>
  /\ stray' = IF surface[c] THEN stray ELSE stray \union {c}
  /\ UNCHANGED <<phase, built, surface, file, drawn, out, server, canon>>

--------------------------------------------------------------------------------
(* server.c, one message *)

Serves(c, types) == out[c] # <<>> /\ Head(out[c]).type \in types

\* What is sent to a program that was closed is lost.
Deliver(to, msgs) ==
  LET live == {d \in to : phase[d] # "gone"}
  IN  /\ \A d \in live : Len(in[d]) + Len(msgs) <= MaxChannel
      /\ in' = [d \in Clients |-> IF d \in live THEN in[d] \o msgs ELSE in[d]]

\* Mutant: room_id is not compared, everybody who has joined a room hears it.
OthersAnywhere(c, r) == {d \in Clients \ {c} : room[d] # NoRoom}

Others(c, r) == {d \in Clients \ {c} : room[d] = r}

\* What a client shows that comes to room r now.
Arrival(r) == Loaded(Fresh(Limit), saved[r])

\* It comes late: the others have edited past the saved drawing; or it has a
\* drawing already, which a room without a saved one does not replace; or it
\* drew on, not knowing yet.
StrayedByJoin(c, r) ==
  \/ Others(c, r) # {} /\ Arrival(r) # canon[r]
  \/ saved[r] = <<>> /\ (phase[c] = "canvas" \/ in[c] # <<>>)
  \/ Has(Tail(out[c]), Edits)

JoinReplies(r) ==
  {<<Plain("joined")>> \o
     (IF saved[r] = <<>> THEN <<>> ELSE <<[type |-> "load", canvas |-> saved[r]]>>)}
  \union
  {<<Plain("joined"), [type |-> "load", canvas |-> <<>>]>> : x \in Features \cap {"outage"}}

ServeJoin(c) ==
  /\ Serves(c, {"join"})
  /\ LET r == Head(out[c]).room
     IN  /\ room' = [room EXCEPT ![c] = r]
         /\ canon' = IF Others(c, r) = {} THEN [canon EXCEPT ![r] = Arrival(r)] ELSE canon
         /\ \E reply \in JoinReplies(r) :
              /\ Deliver({c}, reply)
              /\ stray' = IF StrayedByJoin(c, r) \/ (saved[r] # <<>> /\ Last(reply).canvas = <<>>)
                            THEN stray \union {c} ELSE stray \ {c}
  /\ out' = [out EXCEPT ![c] = Tail(@)]
  /\ UNCHANGED <<app, saved>>

\* Mutant: an undo is not passed on.
ServeEditDropsUndo(c) ==
  /\ Serves(c, Edits)
  /\ LET m == Head(out[c])
         to == IF m.type = "undo" THEN {} ELSE Others(c, room[c])
     IN  /\ Deliver(to, <<m>>)
         /\ canon' = [canon EXCEPT ![room[c]] = Edited(@, m)]
         /\ stray' = stray \union {d \in to : Has(out[d], Edits)}
  /\ out' = [out EXCEPT ![c] = Tail(@)]
  /\ UNCHANGED <<app, room, saved>>

\* broadcast_room to the others; one that has an edit of its own under way
\* applies the two in another order than the rest.
ServeEdit(c) ==
  /\ Serves(c, Edits)
  /\ LET m == Head(out[c])
         to == Others(c, room[c])
     IN  /\ Deliver(to, <<m>>)
         /\ canon' = [canon EXCEPT ![room[c]] = Edited(@, m)]
         /\ stray' = stray \union {d \in to : Has(out[d], Edits)}
  /\ out' = [out EXCEPT ![c] = Tail(@)]
  /\ UNCHANGED <<app, room, saved>>

ServeSave(c) ==
  /\ Serves(c, {"save"})
  /\ saved' = [saved EXCEPT ![room[c]] = Head(out[c]).canvas]
  /\ out' = [out EXCEPT ![c] = Tail(@)]
  /\ UNCHANGED <<app, in, room, ghosts>>

\* remove_client; the program is started again and logs in.
ServeBye(c) ==
  /\ Serves(c, {"bye"})
  /\ room' = [room EXCEPT ![c] = NoRoom]
  /\ out' = [out EXCEPT ![c] = <<>>]
  /\ phase' = [phase EXCEPT ![c] = "lobby"]
  /\ stray' = stray \ {c}
  /\ UNCHANGED <<hist, built, surface, painted, file, drawn, in, saved, canon>>

--------------------------------------------------------------------------------
User(c) ==
  \/ \E r \in Rooms : ClickJoin(c, r)
  \/ BuildCanvas(c) \/ Configure(c)
  \/ DrawBrush(c) \/ ClickUndo(c) \/ ClickRedo(c) \/ ClickClear(c)
  \/ ClickSave(c) \/ SaveLocal(c) \/ LoadLocal(c) \/ Quit(c)

Hear(c) ==
  \/ HearJoined(c) \/ HearLoad(c)
  \/ HearDraw(c) \/ HearUndo(c) \/ HearRedo(c) \/ HearClear(c)

Serve(c) == ServeJoin(c) \/ ServeEdit(c) \/ ServeSave(c) \/ ServeBye(c)

Next == \E c \in Clients : User(c) \/ Hear(c) \/ Serve(c)

Spec == Init /\ [][Next]_vars

--------------------------------------------------------------------------------
(* Properties *)

Strokes == 1..MaxDraws
Canvas == Seq(Strokes)
History == [log : Canvas, cur : Nat, max : {0, Limit}]
Requests ==
  [type : {"join"}, room : Rooms] \union [type : {"draw"}, stroke : Strokes]
    \union [type : {"undo", "redo", "clear", "bye"}] \union [type : {"save"}, canvas : Canvas]
Answers ==
  [type : {"draw"}, stroke : Strokes] \union [type : {"joined", "undo", "redo", "clear"}]
    \union [type : {"load"}, canvas : Canvas]

\* Types; no history outgrows the limit or shows more than it has, on any
\* screen or in the common drawing.
TypeOK ==
  /\ hist \in [Clients -> History] /\ canon \in [Rooms -> History]
  /\ \A h \in {canon[r] : r \in Rooms} \union {hist[c] : c \in Clients} :
       h.cur <= Len(h.log) /\ Len(h.log) <= Limit
  /\ phase \in [Clients -> {"lobby", "canvas", "gone"}]
  /\ built \in [Clients -> BOOLEAN] /\ surface \in [Clients -> BOOLEAN]
  /\ painted \in [Clients -> Canvas] /\ file \in Canvas /\ drawn \in 0..MaxDraws
  /\ out \in [Clients -> Seq(Requests)] /\ in \in [Clients -> Seq(Answers)]
  /\ room \in [Clients -> Rooms \union {NoRoom}] /\ saved \in [Rooms -> Canvas]
  /\ stray \subseteq Clients

\* Phases, rooms and messages agree: who has a canvas, edits under way, or
\* anything to hear is in a room; a program that was closed hears nothing more.
PhasesInSync ==
  \A c \in Clients :
    /\ surface[c] => built[c]
    /\ built[c] => phase[c] = "canvas"
    /\ phase[c] = "canvas" \/ in[c] # <<>> \/ Has(out[c], Edits) => room[c] # NoRoom
    /\ phase[c] = "gone" => in[c] = <<>>
    /\ Has(out[c], {"bye"}) => phase[c] = "gone"

\* The inductive invariant behind the theorems of CollabProofs, with InStep and
\* ScreenShowsHistory.
RoomInv == TypeOK /\ PhasesInSync

\* What a client in state x, its phase and history, is after one message and
\* after those of q.
Then(x, m) ==
  CASE m.type = "joined" -> [phase |-> "canvas",
                             hist |-> IF x.phase = "lobby" THEN Fresh(Limit) ELSE x.hist]
    [] m.type = "load"   -> [x EXCEPT !.hist = Loaded(@, m.canvas)]
    [] m.type \in Edits  -> [x EXCEPT !.hist = Edited(@, m)]
    [] OTHER             -> x
After(x, q) ==
  LET at[i \in 0..Len(q)] == IF i = 0 THEN x ELSE Then(at[i - 1], q[i])
  IN  at[Len(q)]

\* A client now, and one that has the common drawing of a room.
Now(c) == [phase |-> phase[c], hist |-> hist[c]]
Common(r) == [phase |-> "canvas", hist |-> canon[r]]

\* The drawings of a room stay one drawing, the edits in the order the server
\* relayed them: once a client has heard all that is under way to it, it has
\* the common drawing and its own edits that are under way; every client that
\* did not edit while an edit of another was on its way to it, come late, miss
\* a clear or load a file.
InStep ==
  \A c \in Clients \ stray :
    room[c] # NoRoom /\ phase[c] # "gone" /\ ~Has(out[c], {"join"}) =>
      After(Now(c), in[c]).hist = After(Common(room[c]), out[c]).hist

\* The visible part of the history is on the surface, last and in order,
\* however edits of this user and of others, loads and repaints interleave.
ScreenShowsHistory ==
  \A c \in Clients : surface[c] => Newest(painted[c], hist[c].cur) = Visible(hist[c])

\* README 11, "MySQL stores ... the state of the canvas": what a save stores
\* is what its user had on the surface.
SavesWhatIsShown ==
  [][\A c \in Clients : (surface[c] /\ out'[c] # out[c] /\ Len(out'[c]) > Len(out[c])
        /\ Last(out'[c]).type = "save") => Last(out'[c]).canvas = painted[c]]_vars
===============================================================================

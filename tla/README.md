# A verification of CanvasHub in TLA+

CanvasHub is a shared drawing board: a single-threaded epoll server
(`src/server/server.c`) over MySQL (`src/common/database.c`), and a GTK client
(`src/client/gui_main.c`, `src/client/net_client.c`) that keeps its drawing in a
history with undo (`src/common/undo_redo.c`). They talk JSON over a WebSocket of
their own (`src/protocol/`). This directory models the parts that keep state,
checks the models with TLC, and proves theorems about them with TLAPS.

    tlc -workers 2 -config MCUndoList.cfg MCUndoList          # a run
    tlapm UndoListProofs.tla                                  # the proofs

Line numbers in comments refer to the source file the module's header names.

## 1. The system

### Components

| component | state | operations | correct when |
|---|---|---|---|
| **drawing history** `undo_redo.c` (client) | `g_history`: doubly linked list, `head`, `tail`, `current`, `count`, `max_steps`; heap cells | `init`, `push`, `undo`, `redo`, `iterate`, `serialize`, `deserialize`, `canvas_get_command_count` | no leak, double free or use after free; `count` is the length and within the limit; the list is a bounded log with a cursor; walks return exactly what is on screen; every call returns |
| **server** `server.c` | `clients[64]` (fd, user, room, handshake flag, buffer), the epoll set | accept, handshake, eleven message types, broadcast, close, the end of the process | slots, epoll and the kernel agree; a slot speaks for its own connection; only members save or are heard; everybody is served while the process runs |
| **database** `database.c`, `schema.sql` | handle `conn`; tables `users`, `projects` | register, login, create/list/get/save project, reconnect | what was confirmed in a room that has a row is stored; a lost connection is survived |
| **network client** `net_client.c` | `buffer`, `buf_len`, `connected`, `handshake_complete` | connect, send, `socket_io_callback` | every frame is delivered once and in order |
| **GUI client** `gui_main.c` | phase, widgets, surface, tool, name | login, lobby, canvas, edits, chat, save, files; `on_net_message` | widgets, phase and the server's session agree; answers and chat are shown; all who share a room show the same drawing; the screen shows the history; saves store what is shown, in the right room |
| **framing** `ws_handshake.c` | none | handshake key, base64, SHA-1, build and parse a frame | readers undo every writer, also with part of a frame; base64 and SHA-1 are the standard's |
| **JSON codec** `json_codec*.c`, **bcrypt wrapper** | none | conversions | a stroke or text comes back as it was; no unset byte is shown; the salt fits its buffer |
| **canvas.c**, cJSON, tests | none | stubs, third party | (not modelled, section 6) |

### How they interact

    user -> gui_main --push/undo/redo--> undo_redo      (calls, one thread)
             |   ^
             |   | on_message callback, one per frame
             v   |
           net_client <====== TCP, WebSocket frames ======> server --> database
                                                              |
                                                              +--> every other
                                                                   member of the room

A client applies its own edit at once and sends it; the server relays `draw`,
`chat`, `undo`, `redo` and `clear` to the *other* members of the room and never
back to the author, and stores a drawing only when a client sends `save_canvas`.
Whoever joins gets `join_room_resp` and then, when there is one, the drawing that
was saved last (`load_canvas`).

### What is hard here

* **Replication without an order.** Every client has a replica of the drawing and
  orders its own edits before those it has not heard yet; undo, redo and clear
  depend on the order. Joins, saves, a second click on Join, local files and the
  history limit pull replicas apart in other ways.
* **One thread for everybody.** A batch of epoll events is handled while
  connections close and descriptors and slots are reused under it. A send may be
  cut short, and nobody looks. Any error of `epoll_wait`, and a login whose username is
  no string, end the process, and with it every session.
* **A stream cut anywhere.** TCP delivers frames in pieces, the buffer is finite,
  a callback handles ten frames, and GLib calls back only for new bytes. Either side
  may send only the beginning of a frame and go on with the next. The server reads
  the handshake as a string from a buffer that earlier connections have used.
* **Phase and widgets apart.** `on_net_message` changes `phase` at once and the
  window in an idle callback: clicks on the old widgets and messages for the new phase
  come in between.
* **Pointers.** `push` after undo frees a suffix, the limit frees the head, which
  may also be the tail or current; an allocation of points may fail and leave a
  stroke without them.
* **A database that comes and goes**, also in the middle of a statement, and a
  handle that `db_init` may free and keep.

PROJECT.json lists the hazards one by one with their lines.

## 2. The modules

| module | models | abstract specification |
|---|---|---|
| `UndoOps` | what each call does to a history `[log, cur, max]`, as operators | |
| `UndoLog` | what the history promises its caller: a bounded log with a cursor | itself |
| `UndoList` | the pointer code, each loop one iteration per step | `UndoLog`, by `Log == INSTANCE UndoLog WITH hist <- Hist` |
| `UndoListProofs`, `UndoListRefines` | theorems about `UndoList` | |
| `CanvasDb` | the database layer and its two tables | |
| `RoomService` | what the server with its database promises to those who connect: sessions, rooms, drawings | itself |
| `CanvasServer` | the event loop, slots and handlers, over `CanvasDb` | `RoomService` |
| `CanvasServerProofs` | theorems about `CanvasServer` | |
| `FrameChannel` | what a connection promises to whoever reads frames from it | itself |
| `ClientStream`, `ClientStreamProofs` | the server's sends and the receiving side of `net_client.c`, at byte positions | `FrameChannel` |
| `ServerStream`, `ServerStreamProofs` | `net_client_send` and the byte buffer of a server slot, over the connections that have it | `FrameChannel` |
| `Framing`, `FramingProofs` | headers, base64, SHA-1's blocks, bcrypt's salt, as operators | |
| `Sha1` | the rounds of SHA-1 on 32-bit words, as operators, over `Framing` | |
| `ClientPhases`, `ClientPhasesProofs` | one GUI client from login to chat, the server's session, others, over `CanvasDb` | |
| `Codec` | the JSON writers and readers and the fixed buffers around them, as operators | |
| `Collab`, `CollabProofs` | several GUI clients, their histories and surfaces, and the rooms of the server, over `UndoOps` | |
| `MC...` | instances for TLC | |

A `...Proofs` module holds the theorems about the module it is named after (section 4).

`UndoList` implements the operators of `UndoOps`; `Collab` uses them in place of
the list. `CanvasServer` and `ClientPhases` extend `CanvasDb`. `Framing`, `Sha1` and `Codec`
have no state: `Sha1` extends `Framing`, `ServerStream` extends `Sha1`, `ClientPhases`
extends `Codec`, and their formulas are invariants asked for in the initial state alone
(`AtStart`).

### UndoList

The variables `head` ... `maxSteps` are `g_history`; `next`, `prev`, `data` the
fields of the heap cells, `live` what malloc has returned and free has not; `pc`,
`node`, `arg`, `steps`, `loading`, `json`, `item` the control point, locals and
arguments of the call that is running. `order` and `doomed` are ghosts: the list as
a sequence, and the cells the running loop still has to free; `lost` is a ghost too: the
items of the file that a load passed over because malloc failed for their points. One thread calls the
history, so a call starts at `pc = "ready"`. A free cell holds `Junk`. A draw
command is one value; what matters of its points is whether their array was
allocated (`held`), which `serialize` looks at and `iterate` does not.
A load has to leave the newest strokes of those that are well formed and not `lost`: exactly
these, so one that keeps the oldest, or passes over a stroke it could read, is an error.
What a walk has returned and what a load has kept are said with positions (`Place`,
`LastOf`): the last strokes of a list, without those that lost their points.
`undo_redo_init(50)` is `ResetCall`; `push` is `PushCall`, `FreeNode`*, `CutDone`,
`LinkNode`, and `TrimHead` or `TrimNothing`; `deserialize` is `LoadCall`, the
reset, and for each item `SkipItem` or `LoadItem` and a push; a walk is `WalkCall`
and its iterations.

### CanvasDb and CanvasServer

`conn` is the handle: `"open"`, `"lost"` (the server went away and nobody has
noticed), `"null"`, `"freed"` (`db_init` closed it and left the pointer). Using a
freed handle is undefined, so it is a choice: nothing happens, or the process dies
(`"fault"`). A statement on a live connection may break half way, and then may
have been carried out all the same (`Statement`). Only `db_save_project_data`
reconnects.

`clients`, `epolled` are the table and the epoll set; `open`, `pending`, `inq`,
`eof`, `unread` the kernel's side; `events` the rest of the batch that
`epoll_wait` returned, `serving` and `batch` the connection being read and the
complete frames in its buffer. `wire` is what the last step put on sockets. A send
to a socket that is full does nothing or puts a torn frame on it. A message is a
whole frame; a frame larger than the server's buffer is the message `"huge"`,
which closes the connection. `auth`, `joined` and `acked` are ghosts that remember,
independently of the slots, who logged in on a connection, what room it asked for,
and which drawing was confirmed.

`up` is the process. It ends when `epoll_wait` returns -1 for whatever reason (`EpollFails`;
the loop has no case for EINTR), and at a login or registration whose username is JSON but no
string: `valuestring` is NULL then and `strlen` gets it (`HandleNoName`), except that with no
handle the database layer returns before. Both go through `ProcessEnds`: the table, the batch and
the kernel's queues are gone, the rows stay. `Start` is somebody starting the server
again, with `db_init` (`DbConnect`).

A `join_room` is never checked against the table `projects`, so a room can be joined, and saved
into, before its row exists. The UPDATE then changes no row, which is no error, and the
answer is "Canvas saved" (`server.c` 342-346, `database.c` 276-282): nothing is stored,
and when the row is created its drawing is empty. The ghost `vain` has the rooms
whose last confirmed save was one of these. What a row may hold, `MayHold`, is the drawing last confirmed,
or one of the drawings whose save failed since, or, for a room in `vain`, nothing.

### RoomService

What the server promises, without slots, epoll, sockets, ids of users or the handle of the
database: a session per connection, which begins and ends with it (`Arrive`, `Login`, `Enter`,
`Leave`) or with the server (`Stop`); rooms that pass on what is said in them to others who are logged in there, or to
those of them whose sockets have room (`Say`); the names that are registered; and a
drawing per room (`Create`, `Save`). `settled` is the drawing last confirmed and those
whose save was reported as failed since: a failed save may have been carried out. A save into
a number that nobody has created is lost whatever was reported, so there `settled` has the empty drawing as well. `CanvasServer`
implements it by `Service == INSTANCE RoomService WITH ...`. The session is mapped from the
ghosts `auth` and `joined`, not from the slots: that a slot has the session of its own connection is part of
what has to be shown. A name is mapped from the id of the login (`NamesOf`), so two users with one
id would be one session with two names, which no step of the service makes.

### FrameChannel, ClientStream, ServerStream

`FrameChannel` numbers the frames put on a connection and says what may come out:
the next one while the channel is `intact`, anything once bytes were lost, and bytes
once lost do not come back. Both stream modules implement it, each by its own
`Channel == INSTANCE FrameChannel WITH ...`: the mapping takes `intact` from what happened to
the bytes, never from what came out.

In both, bytes are numbered from the start of the connection; `ends` says where frames
end, `size` how long their headers say they are, and `read - len` is the position at
which the buffer begins. A frame cut short by its sender is `Torn`: it ends before its
size. A buffer that begins on a frame parses as that frame, a torn one taking what it
lacks from the bytes behind it; one that begins anywhere else is garbage that
may parse as a frame of any length. The reader gets the frame's number, or 0 for garbage.

*ClientStream*: `Broadcast` and `Reply` are the two ways the server sends (one `send`,
or ten while the client may be reading); `pc = "full"` is the branch at a full
buffer, `"recv"` the read, `"parse"` the loop of at most `Burst` frames.

*ServerStream*: the buffer is kept cell by cell, because `add_client` and `remove_client`
leave its bytes and `ws_is_handshake` reads it with `strstr`. The handshake is four
cells (to the end of `GET`, of `Upgrade: websocket`, of the key's line, the rest);
a cell of a frame may hold a zero or not, so where the string ends is a
choice (`StringEnds`). `cut` is a ghost: a read ended inside the handshake. A length
that overflows the 32-bit int is `FrameOverflows`: undefined, the state `"fault"`.

### Framing, Sha1 and Codec

`Framing` has the two functions that write a header (`BuildHeader` for
`ws_build_frame` and `send_ws_frame`, `SendHeader` for `net_client_send`) and the two that
read one (`ParseFrame`, `ServerParse`), on bytes; `Base64` with digits as indices into
the table (`Digit`); `EncodeBase64` and `SaltLength` of `bcrypt_wrapper.c` (`SaltDigit`); and
`SHA1Update` and
`SHA1Final`, which collect the blocks that `SHA1Transform` is given. `Sha1` has the
rounds of `SHA1Transform` with its circular buffer of sixteen words and its renamed registers;
a word is a pair of 16-bit halves, since TLC's integers have 32 bits with a sign, and `&`, `|`, `^`
work on the sixteen bits of a half (`BitOf`, `Half`). The eighty rounds are a recursive function whose value
at `i` is the sequence of the states so far.

`Codec` has JSON objects as functions from their keys and texts as sequences of
characters. `Strncpy` leaves the last byte of a buffer as it was, and `String` runs on
behind a buffer that does not end.

### ClientPhases

`phase` is `app->phase`, `view` the widgets that are there, `idle` the pending calls of
`update_ui_idle`, `entry`, `mode` and `waiting` the login form, `listed` the room list,
`chat` the lines of others. `ClickX` are the widgets, `HearX` the branches of
`on_net_message`, `ServeX` the server's handling of this connection's messages with the
calls of `CanvasDb`; others chat, create rooms and save. A form with an empty name or
password is refused before anything is sent (`full`). `edited` is a ghost: the name
was edited while a login was under way, or after it.

### Collab

Per client: `hist` (its `g_history`), `phase`, `built`, `surface`, `painted` (the
strokes on the cairo surface, in order), the local `file`, and the channels `out`
and `in`. A stroke is its number. `ClickJoin` ... `Quit` are the widgets,
`HearX` the branches of `on_net_message`, `ServeX` the server's handling of one
message. `room` and `saved` are the server's. `canon` is a ghost: the edits of a
room in the order the server relayed them. `stray` is a ghost: the clients for which
agreement is *not* claimed, each for a reason that the code names: it edited while
an edit of another was under way, arrived after unsaved edits, loaded a file,
missed a clear, was sent an empty drawing in an outage, or moved to a room that did
not replace its drawing.

## 3. What is checked

With two workers a run takes from a second to three minutes.

| run | checks | shows |
|---|---|---|
| `list` | `ListInv`, `WalkedIsVisible`, `LoadsNewest`, `ImplementsUndoLog`, `CallsShrink`, `CallsReturn` | the pointer code keeps heap, list and count sound, implements the bounded log, has less to do after every step of a call and comes back from it; walks return what is on screen and a load keeps the newest strokes of those it has memory for, all with allocations of points that may fail |
| `server_sessions` | `ServerInv`, `HearsOnlyItsRoom`, `KeepsTheService` | slots, epoll and kernel agree, sessions do not leak into reused slots or descriptors, edits reach only the room; all of it is the room service, also when the process ends and is started again |
| `server_saves` | `ConfirmedIsStored`, `OnlyMembersSave`, `KeepsTheService`, `EveryoneServed` | a save confirmed in a room that has a row is stored, through outages, reconnects and ends of the process; only members save; the room service, with drawings; while the process runs nobody starves when more descriptors are ready than a batch holds |
| `server_outage` | *violated* `JoinSendsStored` | who joins a room whose drawing was saved and confirmed is sent an empty one when the connection to the database drops under the query |
| `server_no_db` | *violated* `SurvivesWithoutDb` | without a database at the start a freed handle is used |
| `stream_steps` | `StreamInv`, `KeepsTheChannel`, `EveryFrameDelivered` | the client implements the frame channel however TCP and short sends cut the stream; recv is never called without room; whole frames are delivered but for a full burst with nothing behind it |
| `stream_lone_byte` | *violated* `DeliveredInOrder` | a piece that ends one byte into a frame loses the framing |
| `server_stream` | `StreamInv`, `LossHasACause`, `KeepsTheChannel`, `EveryFrameHandled` | the server implements the frame channel over several connections in one slot; read is never called without room; only a handshake in pieces or a torn frame loses anything, so no leftover of an earlier connection does; every frame is handled |
| | `FramesParseAtStart`, `Base64AtStart`, `BlocksAtStart`, `DigestAtStart`, `ExampleAtStart` | readers take exactly the frame that was written, and wait until it is there; base64 is RFC 4648's but for the padding, where the code has "A"; SHA-1 is given the padded blocks of RFC 3174 for lengths up to 184, and its unrolled rounds are FIPS 180's; the constants, which code and reference share, give the standard's example |
| `client_phases` | `PhasesAgree`, `NamesAgree` | widgets, phase and session agree through crossing clicks and answers; the client's name is the one the server knows unless the form was edited in between |
| | `ChatKept`, `ChatShown`, `AnswerShown`, `CreatedRoomListed` | the chat is never emptied and shows every line that comes after the view is built; "Logging in..." always gives way; a created room comes to the list |
| | `StrokesAtStart`, `TextsAtStart` | a stroke survives relaying, saving and loading; texts arrive whole up to the sizes named, and no unset byte is ever shown |
| `collab_edits`, `collab_files` | `InStep` | replicas whose users did not race, come late, ... are the room's drawing; rooms do not mix |
| | `ScreenShowsHistory` | the visible history is on the surface, last and in order |
| `collab_files` | `RoomInv` | histories stay within the limit on every path, and what is under way fits the phases and the server's rooms |
| `collab_limit` | *violated* `SavesWhatIsShown` | a save stores the last strokes of the history, not what is on the screen |

The findings in PROJECT.json quote the lines that the violated properties state.

More of what the models show has no run of its own, because a property that passes
has it as its excuse:

* Clients that race, come after strokes nobody saved, or click Join twice for different
  rooms are in `stray` of `Collab`: for them `InStep` fails.
* Frames left in the client's buffer after a burst wait for unrelated traffic (the last
  disjunct of `EveryFrameDelivered`).
* A frame that was sent in part (`broadcast_room`, `send_ws_frame`, `net_client_send`)
  takes its reader out of step for good (`Torn` in both stream modules).
* A handshake that arrives in two reads may be answered from its first piece and lost
  (`cut` in `LossHasACause`; the code says "Assumes handshake fits in one read").
* A save into a room whose row does not exist is confirmed and lost (`vain` in
  `ConfirmedIsStored`).
* A process that has ended serves nobody (`~up` in `EveryoneServed`).
* A stroke whose points could not be allocated, when it is the last on screen, makes
  `serialize` skip the test that ends its loop (the last sentence of `WalkedIsVisible`).
* A chat line that arrives between the join and the building of the view is lost
  (`ChatShown` speaks of lines under way when the view is there).
* The name shown and sent in chats is what the form holds when the answer comes
  (`edited` in `NameIsSessions`).
* A created room is missing from the list when the query fails on a lost connection, or
  when 50 rooms have the same or a later second (`conn`, `Crowded` in `CreatedRoomListed`).

### Bounds

* **UndoList**: four cells, two commands, limits 0 and 3, files of four items, points
  that may fail. A list of three and the new node need four cells; a limit of 0 makes the
  head the tail and current when it is trimmed; four items overflow either limit. There is
  no symmetry set, since the run checks liveness.
* **CanvasServer**: two slots and two descriptors (`server_sessions`): one
  connection closes while an event for the other, or for the next user of its slot,
  is in the batch; three or more add only symmetric cases. `server_saves` has one slot
  and two descriptors, so that a batch is smaller than the ready set and a
  connection finds the table full, and one drawing besides the empty one: enough for the
  order of confirmed, failed and half-done saves and of outages, and for a save before and behind
  the creation of its room. One connection waits for accept (`MaxPending`): again and again, so that the
  listening socket can take every batch of one.
  `MaxPending`, `MaxIn`, `SendCap`, `MaxProjects` bound the backlog, unread
  messages, a socket's buffer and the rows.
* **ClientStream**: a buffer of six bytes, three frames of 2, 4 or 7 bytes with
  two lengths of header, a burst of 2 and 8 bytes under way: several frames in one read, a frame over
  two reads, a frame cut before or behind its length, a frame that does not fit, a full
  burst. Only the distances to the buffer's end, the burst and the frames' ends matter.
* **ServerStream**: the same lengths, two frames on each of three connections in one
  slot: the third finds what two have left behind, and a handshake of four cells in a buffer of
  six finds them before, inside and behind it.
* **Framing**: `PayloadLengths` has the lengths around every change of form up to 16 MB, with
  any part of the header there; base64 of up to four bytes from the four values of `Octets`
  (two groups, every padding); SHA-1 of the `MessageLengths` from 0 to 184 bytes in two parts
  (up to four blocks, the remainders around the end of a block).
* **Sha1**: six lengths of one and two blocks, and the standard's example.
* **ClientPhases**: two names, one registered, two rooms with a list of one, one chat line
  of others, three logins or registrations, two messages under way: the same request
  twice, a wrong one behind a right one, a full list, an answer crossing a click.
* **Codec**: strokes of up to two points; texts around the size of every buffer.
* **Collab**: two clients, two strokes, limit 1 or 2, channels of two messages, two
  rooms in `collab_files`. Races need two; a third client would see what the second
  sees. Two strokes are one more than the limit of 1. `Features` selects what users do,
  so that each run has the interleavings of its question.

### Fairness

* `UndoList!FairSpec`: a call that has started keeps running; nobody must start one.
* `CanvasServer!FairSpec`: the loop goes on as long as the process runs (`WF(Server)`: all
  its steps but `HandleNoName` need `up` and leave it), and a descriptor that
  stays ready is reported in the end (`SF`): the kernel moves what it has reported to
  the end of its ready list. That is Linux's documented behaviour when more than
  `maxevents` descriptors are ready; the code relies on it. Nothing says that the process goes on
  running, since the code does not see to it: `EpollFails` may happen at every call of `epoll_wait`,
  `Start` need not, and `EveryoneServed` speaks of the time until the process ends. Peers have no fairness.
* `ClientStream!FairSpec`: TCP delivers, and the GTK main loop calls back while the
  socket is readable. The server need not send anything: that is why a burst is left
  waiting.
* `ServerStream!FairSpec`: the event loop reads what has arrived. Clients need not send or
  close.
* `ClientPhases!FairSpec`: both event loops run, idle callbacks too, and the kernel reports
  the end of a connection. Users, the network, others and MySQL have no fairness: the
  database may stay away for ever.

## 4. What is proved

| theorem | module | states |
|---|---|---|
| `ListInvariant` | `UndoListProofs` | `Spec => []ListInv` |
| `ListSafety` | `UndoListProofs` | no leak, double free or use after free, a well-formed list, a sound count |
| `CallsComeToAnEnd` | `UndoListProofs` | `Spec => CallsShrink`: every step of a call leaves less of it to do, and with nothing left it has returned |
| `LimitInvariant` | `UndoListRefines` | the limit in force is one that was asked for or the default |
| `Refinement` | `UndoListRefines` | `Spec => Log!Spec`: the pointer code implements `UndoLog` |
| `WalksReturnVisible` | `UndoListRefines` | `Spec => []WalkedIsVisible`: a walk that is over has returned what is on screen |
| `LoadsKeepNewest` | `UndoListRefines` | `Spec => []LoadsNewest`: a load keeps the newest strokes of the file but those it had no memory for |
| `ServerInvariant` | `CanvasServerProofs` | `Spec => []ServerInv`: slots, epoll set and kernel agree, events are for open connections, a slot has the session of its own connection |
| `OnlyItsRoomHears` | `CanvasServerProofs` | `Spec => HearsOnlyItsRoom` |
| `MembersSave` | `CanvasServerProofs` | `Spec => OnlyMembersSave` |
| `ConfirmedStored` | `CanvasServerProofs` | `Spec => []ConfirmedIsStored`: a row holds the drawing last confirmed for it or one whose save failed since; it may be empty if the save last confirmed found no row |
| `ImplementsService` | `CanvasServerProofs` | `Spec => KeepsTheService`: the server implements `RoomService` |
| `StreamInvariant` | `ClientStreamProofs` | `Spec => []StreamInv`: room to read, in step until bytes are lost |
| `ImplementsChannel` | `ClientStreamProofs` | `Spec => KeepsTheChannel`: the client implements `FrameChannel` |
| `StreamInvariant` | `ServerStreamProofs` | `Spec => []StreamInv`: the same for a slot of the server |
| `LossCaused` | `ServerStreamProofs` | `Spec => []LossHasACause` |
| `ImplementsChannel` | `ServerStreamProofs` | `Spec => KeepsTheChannel`: a slot implements `FrameChannel`, connection after connection |
| `EveryFrameParses` | `FramingProofs` | both readers wait for, refuse or take exactly the frame that either writer wrote, for every length below 2^31 and whatever lies behind it |
| `FramesReadBack` | `FramingProofs` | `Spec => []FramesParseAtStart` |
| `MessageInPaddedBlocks` | `FramingProofs` | SHA-1 is given RFC 3174's blocks of every message below 2^28 bytes, wherever it is cut in two |
| `MessagesArePadded` | `FramingProofs` | `Spec => []BlocksAtStart` |
| `TransformIsReference` | `FramingProofs` | for every state and block, the unrolled rounds over a circular buffer are FIPS 180's eighty steps |
| `EveryDigest` | `FramingProofs` | the digest of every message below 2^28 bytes is FIPS 180's |
| `DigestIsFips` | `FramingProofs` | `Spec => []DigestAtStart` |
| `EveryInputEncoded` | `FramingProofs` | both encoders are RFC 4648's but for the padding, for every sequence of bytes |
| `KeysAreEncoded` | `FramingProofs` | `Spec => []Base64AtStart` |
| `PhasesInvariant` | `ClientPhasesProofs` | `Spec => []PhasesAgree`: window, phase and session agree |
| `NamesInvariant` | `ClientPhasesProofs` | `Spec => []NamesAgree`: the client's name is the session's unless the form was edited in between |
| `ChatStays` | `ClientPhasesProofs` | `Spec => ChatKept` |
| `EveryStrokeSurvives` | `ClientPhasesProofs` | a stroke of any length comes back from a message and from a file |
| `StrokesComeBack` | `ClientPhasesProofs` | `Spec => []StrokesAtStart` |
| `EveryTextArrives` | `ClientPhasesProofs` | a text of any length arrives whole or cut where the buffers say, without an unset byte |
| `TextsComeThrough` | `ClientPhasesProofs` | `Spec => []TextsAtStart` |
| `RoomInvariant` | `CollabProofs` | `Spec => []RoomInv`: histories within the limit, phases, rooms and messages in sync |
| `RoomStaysInStep` | `CollabProofs` | `Spec => []InStep`: whoever did not stray has the room's drawing |
| `ScreensShowHistories` | `CollabProofs` | `Spec => []ScreenShowsHistory` |

All hold for every value of the constants that meets the assumptions of the modules, and
these are weak: the limits of the list are naturals and contain the default, `Null`, `Junk` and
`Malformed` are not cells or commands; there are finitely many users, bounds are
naturals, descriptors differ from `Listen` and `NoFd`; the buffers of the streams have room for
something, frames have at least the bytes of their header; the payloads and messages that TLC tries have lengths
that an int can count (`FormatAssumption`). No bound of section 3 is used in a proof.

**The list.** `HeapSound`, `ListShape` and `CountSound` say what a reader wants
and are not inductive: while `push` frees the redo branch or `init` the whole list,
`head` and `tail` point into memory that is being freed, and only `node` is safe to
follow. `LoopSound` says what holds inside the loops: the doomed cells hang together from `node`,
`current` is the last cell that stays, and `current = tail` from the end of the
cut until the call returns. The ghosts `order` and `doomed` turn reachability, which
would need induction over the heap, into statements about indices. `ListInv` is the
conjunction of all; `UndoListProofs` proves it action by action, one lemma per
action that touches pointers, over lemmas about `Tail`, `SubSeq` and `Append` of
sequences without repetition.

The refinement maps a call to the abstract step at the moment it starts: from then on
`Hist` is what the list *will* be when the running loop is done, so the later
steps of the call are stutters. `LimitSound` is needed on top of `ListInv` because
`UndoLog` resets only to a limit somebody asked for.

`CallsShrink` is the part of termination that is a safety property. `Work` bounds the steps that are left:
the cells a loop still has to free (`doomed`), four for every item of a file, the cells
between `node` and the end of the list. It decreases because `ListInv` ties `node` and `doomed` to the list, and
because a load starts every push with nothing undone (`ItemsSound`), so that reading an item frees no redo
branch.

What a whole loop has computed needs no induction over data once the invariant says it of
every iteration. `WalkSound`: `node` is the k-th cell, and `out` is what the walk had to return of
the k-1 before it; `serialize` is past `current` only if it had to skip it. `LoadSound`: at
every item the list is what must be kept of the items before. Which strokes are kept is a
statement about places in a set of indices (`Place`), so a step adds one index, and a trim
shifts the places by one.

**The server.** `ServerInv` is inductive as it stands, because the ghosts `auth` and
`joined` remember the session of a connection by its descriptor and not by its slot. The end of the
process clears the table and the kernel's side together, so nothing is left to disagree (`EndsStep`).
What carries the proof: no descriptor has two slots, so `get_client` has one answer
(`SlotOfOpen`); a free slot is wholly cleared, so the connection that takes it
inherits nothing; the connection being served has no event left in the batch
(`serving \notin events`), so closing it leaves no event behind for whoever gets its
descriptor next. There is one lemma per action (`HelloStep` ... `RelayStep`), over lemmas
about each database call and about what a send leaves in the sockets.

The action properties are read off the same lemmas: only `HandleRelay` sends what was
relayed, to slots whose room is the sender's, and by `SessionIsOwn` the rooms of the slots
are those the connections asked for; only `HandleSaveCanvas` changes a drawing, that
of its sender's room. `ConfirmedIsStored` needs two facts more (`ConfirmedInv`): the
rows fit the bound, and a room without a row may be found empty (`Blank \in MayHold(p)`): nobody
has saved into it yet, a save was reported as failed, or the save last confirmed is in `vain`.

`ImplementsService` needs one invariant more, `IdsInv`: ids count up, no two registered names have the
same one, and the id that a connection has logged in with is that of a registered name. With it the id in a slot stands for
one name; without it a registration could add a name to a session that is running. `ServiceInv` is the
conjunction of `ServerInv`, `ConfirmedInv` and `IdsInv`. Again one lemma per action says which step of
the service it is (`ServiceCreate`, `ServiceEnter`, `ServiceSave`, `ServiceSay`, ...);
a handler's early returns, replies and failed statements are stutters or `Rest`.

**The streams.** In both modules `StreamInv` is the inductive invariant. `RoomToRead` and
`InStep` are what a reader wants; `EndsInOrder` (frames end one behind the other, none later
than its header says) and `BurstSound` resp. `HandshakeFirst` (nothing is sent or handled before
the answer) are what the steps need. The heart is one fact: a buffer that begins
where a frame begins, and is not spoilt, parses as the next frame, and what is left begins where
the one behind it does. If that frame was torn, taking it reads over its end, and the stream is
spoilt from then on, for good. So every step either leaves `delivered` alone, appends the next number, or
happens in a spoilt stream: a stutter or a step of `FrameChannel`. A new connection in a
slot is the channel's reset. `LossHasACause` is inductive together with `StreamInv`: the zero bytes
and leftovers that `ws_is_handshake` may find do not matter when the whole handshake has
been written over them by one read.

**Framing.** A header is read back because the bytes of a length, put together, are
the length (`div` and `mod` by 256), and because no reader looks at a byte behind the ones it was
told of. For the blocks, `Holds(ctx, s)` says that a context has cut `s` into whole blocks
and keeps the rest: `SHA1Update` takes `Holds(ctx, s)` to `Holds(ctx', s \o data)` whatever
`data` is, and the calls of `SHA1Final` append exactly RFC 3174's padding. For base64, the 24 bits
of a group of three bytes are regrouped into four sextets.

**SHA-1.** The code and FIPS 180 differ in four ways. `Ch` and `Maj` are computed by other
formulas: a half is determined by its sixteen bits and has them back (`BitsBack`), so
the formulas are compared bit by bit (`ChoiceOfWords`, `MajorityOfWords`). The sum of a round is
associated otherwise (`SumAssociates`: addition modulo 2^32 with a carry between the halves). The
registers are renamed, not moved, and the words overwrite each other in a circle: `Agree` relates
the states after `i` rounds, where the register that the code calls `Var(k, i)` is number `k` of
the standard and cell `t % 16` holds word `t`, of the first sixteen and then of the last sixteen. It holds at the start, every round
keeps it, and after eighty rounds the names are back in their places, since 80 is a
multiple of 5. The digest of a message is then the same chain over the same blocks.

The rounds are recursive functions. The library's theorems about recursion and induction cannot be
cited (they have an operator as a parameter), so `FramingProofs` derives what it needs from the
well-foundedness of the naturals: a set that holds 0 and with each number its successor holds
them all (`Climb`), and a function that is defined step by step exists (`Recursion`), here for
functions and sets instead of operators. `Path` says that a sequence of states has one step behind
the other.

**Phases.** `PhasesAgree` is inductive together with `NamesAgree`. `NameIsSessions` is not,
since the client takes the name from the form when the answer arrives: `NameUnderWay` says that
until then every login under way, and a success under way, is for what the form holds.
`ChatKept` follows from `PhasesAgree`: the chat is emptied only where the room's view is built, in
an idle callback, and none is pending once that view is there. `EveryTextArrives` compares texts
by their first `k` characters (`Agree`): a buffer of `n` bytes keeps the first `n - 1` and ends, whatever was
in it before.

**Rooms.** `RoomInv` is inductive: types with the limit of every history, and
`PhasesInSync`, which ties a client's phase to what is under way and to the server's idea of its room.
`InStep` speaks of the future: what a client will have when it has heard all that is under way
to it is what the room will have when it has relayed all that is under way from that client. `Then` is
a client after one message, `After` after those of a channel. Two lemmas carry the proof: the
message at the head of a channel may be heard first (`AfterHead`), the one at its end last
(`AfterAppend`). An edit of one's own is made while nothing is under way to the client, or the
client strays; an edit relayed to a client with edits of its own under way makes it stray too. So for
the others at most one of the two channels holds edits, and the two sides grow by the same edit.
`After` is a recursive function on the positions of a channel; its lemmas compare two such
functions at the least position where they would differ, since the well-foundedness of the naturals,
unlike the induction theorems, can be cited without an operator as a parameter.
`ScreenShowsHistory` is inductive with `RoomInv`: every handler that changes the history of a
client with a surface paints the same change or repaints all that is visible, and one that starts a
new history in the lobby finds no surface.

## 5. Only model-checked

* Liveness (`CallsReturn`, `EveryoneServed`, `EveryFrameDelivered`, `EveryFrameHandled`,
  `AnswerShown`, `ChatShown`, `CreatedRoomListed`): the prover has no support for fairness and
  ENABLED. Of `CallsReturn` the decreasing measure is proved (`CallsShrink`); that a step is always possible
  until the call has returned, and taken, is checked.
* `ExampleAtStart`: one digest with its constants put in, an evaluation rather than a theorem.
* Codec's and Framing's samples are proved for all inputs (`EveryFrameParses`, `EveryDigest`, ...);
  that the references they are compared with are those of the standards is for the reader to see, and for
  SHA-1's constants `ExampleAtStart` shows it.

The four violated properties are refuted by TLC and have no theorem.

## 6. Not modelled

* cJSON and Unity: third party. `canvas.c`: stubs. `protocol_deserialize_auth` and
  `protocol_deserialize_room`: called by nobody.
* libcrypt's hash: a login says whether its password is right.
* Of the client: tools, colours, the geometry of strokes, the layout of the window.
* Of the database: the uniqueness of e-mail, SQL text. `db_create_project` puts the name of the
  project unescaped into its statement: here that makes the statement fail at most
  (`DbCreateProject`), and names that turn it into a different one are left out.
* A login whose password is no string, and the message of a request that is refused.
* A frame whose 64-bit length is within some bytes of 2^64: the sum with the header wraps
  (`ws_handshake.c` 274), and the copy runs out of the buffer. Only a reader that is already out of step, or a
  peer that is not this program, meets one (`ClientStream!Consumed`).
* After a process that died of a freed handle (`"fault"`) nothing follows; the other ends of the process
  have a next start.
* Malloc of a list node failing: the code dereferences the result at once.
* In `Collab` connections are reliable, in `ClientPhases` they may end; both are in order and the server's handling of a message
  is one step; sockets that are full, torn frames and pieces are the
  subject of `CanvasServer`, `ClientStream` and `ServerStream`.

## 7. Plan

Written, in this order: `UndoOps`, `UndoLog`, `UndoList` and its proofs (the state
every drawing lives in); `CanvasDb`, `CanvasServer`; `ClientStream`; `Collab`;
`FrameChannel` and torn frames in `ClientStream`; `ServerStream`; `Framing`; `Sha1`;
`ClientPhases`; `Codec`; `RoomService`; and the theorems of section 4 about each of them.

What would add most from here:

1. A run for the clear that is dropped before the first configure event.
2. `Collab` over `RoomService` instead of its own rooms, so that the server's theorem
   carries over to the replicas.
3. `ServerStream` below `CanvasServer`: a message there is a whole frame.

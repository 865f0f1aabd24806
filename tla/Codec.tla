--------------------------------- MODULE Codec ---------------------------------
(***************************************************************************)
(* What becomes of a stroke and of a text on their way through JSON:       *)
(* json_codec.c, json_codec_extra.c, the items of undo_redo_serialize and  *)
(* undo_redo_deserialize, and the fixed buffers that strncpy fills on      *)
(* either side.  An object is a function from its keys; cJSON keeps        *)
(* numbers and strings as they are.                                        *)
(***************************************************************************)
EXTENDS Integers, Sequences

Junk == -1   \* a number or character in memory that nobody has written
Failed == [error |-> TRUE]
Skipped == [skipped |-> TRUE]

Has(object, keys) == keys \subseteq DOMAIN object
Get(object, key, default) == IF key \in DOMAIN object THEN object[key] ELSE default

--------------------------------------------------------------------------------
(* Strokes: [tool, color, width, points], a point [x, y] *)

WriteDraw(stroke) ==
  [tool |-> stroke.tool, color |-> stroke.color, width |-> stroke.width,
   points |-> stroke.points]

\* protocol_deserialize_draw
ReadDraw(data) ==
  IF ~Has(data, {"tool", "color", "width", "points"}) THEN Failed
  ELSE [tool |-> data.tool, color |-> data.color, width |-> data.width,
        points |-> [i \in DOMAIN data.points |->
                      IF Has(data.points[i], {"x", "y"}) THEN data.points[i]
                                                        ELSE [x |-> 0, y |-> 0]]]

\* Mutant: the count is that of the lines, not of the points.
WriteItemLines(stroke) ==
  [tool |-> stroke.tool, color |-> stroke.color, width |-> stroke.width,
   points |-> stroke.points, count |-> Len(stroke.points) - 1]

WriteItem(stroke) ==
  [tool |-> stroke.tool, color |-> stroke.color, width |-> stroke.width,
   points |-> stroke.points, count |-> Len(stroke.points)]

\* One item of undo_redo_deserialize: `count' says how many points are read, or
\* it is a point of the older format, or nothing.
Coordinates(point) == [x |-> Get(point, "x", Junk), y |-> Get(point, "y", Junk)]
ReadItem(item) ==
  IF Has(item, {"points"})
    THEN [tool |-> Get(item, "tool", 0), color |-> Get(item, "color", 0),
          width |-> Get(item, "width", 0),
          points |-> [i \in 1..Get(item, "count", 0) |->
                        IF i <= Len(item.points) THEN Coordinates(item.points[i])
                                                 ELSE [x |-> Junk, y |-> Junk]]]
  ELSE IF Has(item, {"x", "y"})
    THEN [tool |-> Get(item, "tool", Get(item, "type", 0)), color |-> Get(item, "color", 0),
          width |-> Get(item, "width", Get(item, "size", 0)),
          points |-> <<[x |-> item.x, y |-> item.y]>>]
  ELSE Skipped

--------------------------------------------------------------------------------
(* Texts: sequences of characters, 0 ends a string *)

\* strncpy(buffer, text, size - 1); the last byte stays what it was.
Strncpy(text, size, last) ==
  [i \in 1..size |-> IF i = size THEN last ELSE IF i <= Len(text) THEN text[i] ELSE 0]

\* The string in a buffer; one that does not end runs on behind it.
String(buffer) ==
  IF \A i \in DOMAIN buffer : buffer[i] # 0 THEN Append(buffer, Junk)
  ELSE SubSeq(buffer, 1, (CHOOSE i \in DOMAIN buffer :
                            buffer[i] = 0 /\ \A j \in 1..i - 1 : buffer[j] # 0) - 1)
FirstOf(text, n) == SubSeq(text, 1, IF n < Len(text) THEN n ELSE Len(text))

\* on_login_clicked and on_register_submit clear the message first.
WriteAuth(user, pass, email) ==
  LET name == String(Strncpy(user, 64, 0))
      word == String(Strncpy(pass, 64, 0))
      mail == String(Strncpy(email, 128, 0))
  IN  IF mail = <<>> THEN [username |-> name, password |-> word]
      ELSE [username |-> name, password |-> word, email |-> mail]

\* handle_message: what login and register need.
LoginUnderstood(data) == Has(data, {"username", "password"})
RegisterUnderstood(data) == Has(data, {"username", "password", "email"})

\* on_create_room_clicked does not.
WriteRoom(name, last) ==
  [room_id |-> 0, name |-> String(Strncpy(name, 128, last)), description |-> "New Room"]

\* db_get_projects and list_rooms copy a row into buffers that are not cleared;
\* the client shows id and name.
WriteRoomList(rows, last) ==
  LET Copy(name) == String(Strncpy(name, 128, last))
  IN  [i \in DOMAIN rows |-> [id |-> rows[i].id, name |-> Copy(Copy(rows[i].name)),
                              desc |-> rows[i].description, owner |-> rows[i].owner]]
ReadRoomList(data) == [i \in DOMAIN data |-> [id |-> data[i].id, name |-> data[i].name]]

\* Mutant: the whole buffer is filled.
WriteChatFull(sender, content, last) ==
  [sender |-> String(Strncpy(sender, 64, last)), content |-> String(Strncpy(content, 511, last))]

\* on_chat_send, then what on_net_message shows of it: 32 and 440 characters.
WriteChat(sender, content, last) ==
  [sender |-> String(Strncpy(sender, 64, last)), content |-> String(Strncpy(content, 512, last))]
ReadChat(data, last) ==
  [sender |-> String(Strncpy(data.sender, 64, last)),
   content |-> String(Strncpy(data.content, 512, last))]
ChatLine(chat) == <<FirstOf(chat.sender, 32), FirstOf(chat.content, 440)>>

--------------------------------------------------------------------------------
(* Properties *)

\* A stroke that was drawn, relayed, saved and loaded again is the stroke: the
\* five writers and readers agree on every key and count, so a file or a room
\* written by this program never has a command with unset points.
Survives(stroke) ==
  LET heard == ReadDraw(WriteDraw(stroke))
  IN  heard = stroke /\ ReadItem(WriteItem(heard)) = stroke

\* Whatever is in the bytes that nobody has written: a name or password is cut
\* at 63 characters, the registration the form lets through has its e-mail, a
\* room's name of up to 126 and a chat line of up to 510 characters from a name
\* of up to 62 arrive whole, and of no line such a byte is shown.
Arrives(text, from, sent, received) ==
  LET auth == WriteAuth(text, text, text)
      row == [id |-> 1, owner |-> 1, description |-> "", name |-> WriteRoom(text, sent).name]
      chat == ReadChat(WriteChat(from, text, sent), received)
  IN  /\ LoginUnderstood(auth) /\ auth.username = FirstOf(text, 63)
      /\ text # <<>> => RegisterUnderstood(auth)
      /\ Len(text) <= 126 =>
           ReadRoomList(WriteRoomList(<<row>>, received)) = <<[id |-> 1, name |-> text]>>
      /\ Len(from) <= 62 => chat.sender = from
      /\ Len(text) <= 510 => chat.content = text
      /\ ChatLine(chat) = <<FirstOf(from, 32), FirstOf(text, 440)>>

\* What TLC tries: strokes of up to two points, and texts of the lengths around
\* the size of every buffer.
Points == [x : {0, 3}, y : {7}]
Strokes ==
  [tool : {0, 1}, color : {0, 255, 16777215}, width : {3, 10},
   points : UNION {[1..n -> Points] : n \in 0..2}]
Sizes == {0, 1, 32, 62, 63, 64, 126, 127, 128, 439, 440, 441, 510, 511, 512}
Text(n) == [i \in 1..n |-> 1 + (i % 7)]

StrokesSurvive == \A stroke \in Strokes : Survives(stroke)

TextsArrive ==
  \A n \in Sizes, m \in {0, 1, 50, 62, 63}, sent \in {0, 5}, received \in {0, 5} :
    Arrives(Text(n), Text(m), sent, received)
===============================================================================

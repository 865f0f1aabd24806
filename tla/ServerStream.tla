----------------------------- MODULE ServerStream -----------------------------
(***************************************************************************)
(* From the client's sends to the server's handle_message: net_client_send *)
(* on a non-blocking socket, and the byte buffer of one slot of server.c   *)
(* (main, 482-597) with ws_is_handshake and ws_parse_handshake_key, over   *)
(* the connections that have the slot one after the other.  The bytes of a *)
(* connection are numbered from its start, the handshake first.  A slot is *)
(* freed without clearing its buffer, and the handshake is looked for with *)
(* strstr, so the buffer is kept cell by cell: what later reads have not   *)
(* overwritten is still there.  Framing has the bytes of a header, and with *)
(* Sha1 how the answer to the handshake is computed.                       *)
(***************************************************************************)
EXTENDS Sha1

CONSTANTS
  BufferSize,   \* BUFFER_SIZE
  Lengths,      \* lengths of frames a client sends, headers included
  Long,         \* frames of this length and more have a long length field
  SockBuf,      \* bytes under way that the kernels hold before a send is short
  MaxFrames,    \* bound: frames sent on one connection
  MaxConns      \* bound: connections that have the slot, one after the other

\* The handshake is one text, the same for every connection.  Its parts, one
\* cell each: to the end of "GET", of "Upgrade: websocket", of the key's line,
\* and the rest.
Get == 1
Upgrade == 2
Key == 3
Hello == 4
Nul == 0      \* a cell never written
Data == 9     \* a cell of a frame, which may hold a zero as well

ASSUME SizesAssumption ==
  /\ BufferSize \in Nat /\ Hello < BufferSize
  /\ Lengths \subseteq Nat \ {0, 1}          \* a header has two bytes or more
  /\ Long \in Nat /\ SockBuf \in Nat
ASSUME BoundsAssumption == MaxFrames \in Nat /\ MaxConns \in Nat

VARIABLES
  conns,       \* number of connections made so far
  ends,        \* where the handshake and each frame behind it end
  size,        \* the length of each frame, by its header
  read,        \* how many bytes read has returned
  buffer,      \* buffer, a part of the handshake as its number
  len,         \* buf_len
  shaken,      \* is_handshaked: the 101 response has been written
  pc,          \* "free" slot, "epoll", "loop" over the buffer, "fault"
  handled,     \* what handle_message got: frame numbers, 0 for garbage
  cut,         \* ghost: a read ended inside the handshake
  spoilt       \* ghost: bytes were thrown away, or read over a torn end

stream == <<ends, size>>
slot == <<read, buffer, len, shaken, handled, cut, spoilt>>
vars == <<conns, stream, slot, pc>>

Init ==
  /\ conns = 0 /\ ends = <<Hello>> /\ size = <<>>
  /\ read = 0 /\ buffer = [i \in 1..BufferSize |-> Nul] /\ len = 0
  /\ shaken = FALSE /\ pc = "free" /\ handled = <<>>
  /\ cut = FALSE /\ spoilt = FALSE

--------------------------------------------------------------------------------
(* The client *)

Total == ends[Len(ends)]
Least(a, b) == IF a < b THEN a ELSE b
Room == IF Total - read < SockBuf THEN SockBuf - (Total - read) ELSE 0

\* net_client_send: only when the response has come, and in one send that
\* takes what there is room for; a frame cut short stays on the stream.
ClientSend(l) ==
  /\ pc # "free" /\ shaken /\ Len(size) < MaxFrames
  /\ LET n == Least(l, Room)
     IN  /\ n > 0
         /\ ends' = Append(ends, Total + n)
         /\ size' = Append(size, l)
  /\ UNCHANGED <<conns, slot, pc>>

\* accept and add_client, which leave the buffer as it is; the handshake is
\* under way.
Accept ==
  /\ pc = "free" /\ conns < MaxConns
  /\ conns' = conns + 1
  /\ ends' = <<Hello>> /\ size' = <<>> /\ read' = 0
  /\ len' = 0 /\ shaken' = FALSE /\ pc' = "epoll"
  /\ handled' = <<>> /\ cut' = FALSE /\ spoilt' = FALSE
  /\ UNCHANGED buffer

--------------------------------------------------------------------------------
(* main, one event of this connection *)

\* The connection has ended, with or without bytes that were not read.
ReadEnds ==
  /\ pc = "epoll" /\ pc' = "free"
  /\ UNCHANGED <<conns, stream, slot>>

Cell(p) == IF p <= Hello THEN p ELSE Data

ReadBytes(n) ==
  /\ pc = "epoll" /\ n \in 1..Least(Total - read, BufferSize - len)
  /\ buffer' = [i \in 1..BufferSize |-> IF i \in len + 1..len + n THEN Cell(read + i - len)
                                                                  ELSE buffer[i]]
  /\ read' = read + n /\ len' = len + n
  /\ cut' = (cut \/ read' < Hello)
  /\ pc' = "loop"
  /\ UNCHANGED <<conns, stream, shaken, handled, spoilt>>

\* Where the string in the buffer may end: strstr stops at the first zero.
StringEnds ==
  {i \in 1..BufferSize + 1 :
     /\ \A j \in 1..i - 1 : buffer[j] # Nul
     /\ i <= BufferSize => buffer[i] \in {Nul, Data}}
PartsBefore(e) == {buffer[i] : i \in 1..e - 1}
IsHandshake(parts) == {Get, Upgrade} \subseteq parts

\* Mutant: the key does not fit its buffer.
HandshakeWithoutKey ==
  /\ pc = "loop" /\ ~shaken
  /\ \E e \in StringEnds : IsHandshake(PartsBefore(e))
  /\ len' = 0 /\ pc' = "epoll"
  /\ spoilt' = TRUE
  /\ UNCHANGED <<conns, stream, read, buffer, shaken, handled, cut>>

\* Answered when the key is there, and emptied in any case.
Handshake ==
  /\ pc = "loop" /\ ~shaken
  /\ \E e \in StringEnds :
       /\ IsHandshake(PartsBefore(e))
       /\ shaken' = (Key \in PartsBefore(e))
  /\ len' = 0 /\ pc' = "epoll"
  /\ spoilt' = (spoilt \/ ~shaken' \/ read # Hello)
  /\ UNCHANGED <<conns, stream, read, buffer, handled, cut>>

NoHandshakeYet ==
  /\ pc = "loop" /\ ~shaken
  /\ \E e \in StringEnds : ~IsHandshake(PartsBefore(e))
  /\ pc' = IF len = BufferSize THEN "free" ELSE "epoll"
  /\ UNCHANGED <<conns, stream, slot>>

start == read - len   \* the byte before the first one in the buffer

\* The frame that begins the buffer, those cut short by the client, and those
\* of them that lack even their length.
Frame == {k \in DOMAIN size : ends[k] = start}
Torn == {k \in DOMAIN size : ends[k + 1] - ends[k] < size[k]}
Header(l) == IF l < Long THEN 2 ELSE 4
Headless == {k \in Torn : ends[k + 1] - ends[k] < Header(size[k])}

\* What the frame loop takes for the length of the frame at the start of the
\* buffer: any, for one that is none (0 for a length that overflows an int).
FrameLengths ==
  IF Frame \ Headless # {} THEN {size[k] : k \in Frame} ELSE {0} \union 2..BufferSize + 1

\* The header tells the length; it is garbage when it is not a whole frame's.
HeaderIsThere(l) == len >= 2 /\ (Frame # {} => len >= Header(l))

\* Mutant: buf_len is set only when bytes are left to move.
HandleFrameAgain ==
  /\ pc = "loop" /\ shaken
  /\ \E l \in FrameLengths :
       /\ HeaderIsThere(l) /\ l \in 1..len
       /\ handled' = Append(handled, IF Frame \ Torn = {} THEN 0 ELSE CHOOSE k \in Frame : TRUE)
       /\ spoilt' = (spoilt \/ Frame \ Torn = {})
       /\ len' = IF len > l THEN len - l ELSE len
       /\ buffer' = [i \in 1..BufferSize |-> IF i <= len - l THEN buffer[i + l] ELSE buffer[i]]
  /\ pc' = IF len' > 0 THEN "loop" ELSE "epoll"
  /\ UNCHANGED <<conns, stream, read, shaken, cut>>

\* Mutant: one frame per event.
HandleOneFrame ==
  /\ pc = "loop" /\ shaken
  /\ \E l \in FrameLengths :
       /\ HeaderIsThere(l) /\ l \in 1..len
       /\ handled' = Append(handled, IF Frame \ Torn = {} THEN 0 ELSE CHOOSE k \in Frame : TRUE)
       /\ spoilt' = (spoilt \/ Frame \ Torn = {})
       /\ len' = len - l
       /\ buffer' = [i \in 1..BufferSize |-> IF i <= len' THEN buffer[i + l] ELSE buffer[i]]
  /\ pc' = "epoll"
  /\ UNCHANGED <<conns, stream, read, shaken, cut>>

HandleFrame ==
  /\ pc = "loop" /\ shaken
  /\ \E l \in FrameLengths :
       /\ HeaderIsThere(l) /\ l \in 1..len
       /\ handled' = Append(handled, IF Frame \ Torn = {} THEN 0 ELSE CHOOSE k \in Frame : TRUE)
       /\ spoilt' = (spoilt \/ Frame \ Torn = {})
       /\ len' = len - l
       /\ buffer' = [i \in 1..BufferSize |-> IF i <= len' THEN buffer[i + l] ELSE buffer[i]]
  /\ pc' = IF len' > 0 THEN "loop" ELSE "epoll"
  /\ UNCHANGED <<conns, stream, read, shaken, cut>>

\* Mutant: a frame that does not fit is waited for.
FrameTooLargeWaits ==
  /\ pc = "loop" /\ shaken
  /\ \E l \in FrameLengths : HeaderIsThere(l) /\ l > BufferSize
  /\ pc' = "epoll"
  /\ UNCHANGED <<conns, stream, slot>>

FrameTooLarge ==
  /\ pc = "loop" /\ shaken
  /\ \E l \in FrameLengths : HeaderIsThere(l) /\ l > BufferSize
  /\ pc' = "free"
  /\ UNCHANGED <<conns, stream, slot>>

\* A 64-bit length that overflows the int makes the sizes negative: undefined.
FrameOverflows ==
  /\ pc = "loop" /\ shaken
  /\ 0 \in FrameLengths /\ len >= 4
  /\ pc' = "fault" /\ spoilt' = TRUE
  /\ UNCHANGED <<conns, stream, read, buffer, len, shaken, handled, cut>>

WaitForMore ==
  /\ pc = "loop" /\ shaken
  /\ \E l \in FrameLengths : ~HeaderIsThere(l) \/ l \in len + 1..BufferSize
  /\ pc' = "epoll"
  /\ UNCHANGED <<conns, stream, slot>>

--------------------------------------------------------------------------------
Server ==
  \/ \E n \in 1..BufferSize : ReadBytes(n)
  \/ Handshake \/ NoHandshakeYet
  \/ HandleFrame \/ FrameTooLarge \/ FrameOverflows \/ WaitForMore

Next == Accept \/ (\E l \in Lengths : ClientSend(l)) \/ ReadEnds \/ Server

Spec == Init /\ [][Next]_vars

\* The kernel hands over what was sent, and the event loop reads it; clients
\* need not send, or close.
FairSpec == Spec /\ WF_vars(Server)

--------------------------------------------------------------------------------
(* Properties *)

Cells == {Nul, Get, Upgrade, Key, Hello, Data}

TypeOK ==
  /\ conns \in 0..MaxConns
  /\ ends \in Seq(Nat) /\ size \in Seq(Lengths) /\ Len(ends) = Len(size) + 1
  /\ buffer \in [1..BufferSize -> Cells] /\ len \in 0..BufferSize
  /\ read \in 0..Total /\ len <= read
  /\ shaken \in BOOLEAN /\ cut \in BOOLEAN /\ spoilt \in BOOLEAN
  /\ pc \in {"free", "epoll", "loop", "fault"}
  /\ handled \in Seq(Nat)

\* read is never called without room: a result of 0 always means that the
\* client has gone, never a buffer that is full.
RoomToRead == pc = "epoll" => len < BufferSize

\* Until bytes are lost the server is in step with the client: it has handled
\* the first frames, once each and in order, none of them torn; the buffer
\* begins where the next one does, or holds the handshake from its start.
FirstFrames(n) == [i \in 1..n |-> i]
InStep ==
  (pc # "free" /\ ~spoilt) =>
    /\ handled = FirstFrames(Len(handled)) /\ Len(handled) <= Len(size)
    /\ \A k \in Torn : Len(handled) < k
    /\ shaken => start = ends[Len(handled) + 1]
    /\ ~shaken => start = 0 /\ \A i \in 1..len : buffer[i] = i
    /\ pc # "fault"

\* What the proofs need besides: where frames end, and that nothing is sent or
\* handled before the handshake's answer.
EndsInOrder ==
  /\ ends[1] = Hello
  /\ \A i, j \in DOMAIN ends : i < j => ends[i] < ends[j]
  /\ \A k \in DOMAIN size : ends[k + 1] - ends[k] <= size[k]

HandshakeFirst ==
  /\ ~shaken => handled = <<>> /\ size = <<>>
  /\ pc = "loop" => read > 0
  /\ ~cut => read = 0 \/ read >= Hello

\* The inductive invariant behind the theorems of ServerStreamProofs.
StreamInv == TypeOK /\ RoomToRead /\ InStep /\ EndsInOrder /\ HandshakeFirst

\* Nothing is lost without a cause: whatever earlier connections left in the
\* buffer, a handshake that comes in one read is answered from itself, and
\* with no frame cut short by its sender every byte behind it is handled as
\* what it is.
LossHasACause == spoilt => cut \/ Torn # {}

Channel == INSTANCE FrameChannel
             WITH sent <- Len(size), got <- handled, intact <- ~spoilt

\* However the bytes are cut, the server hands over frames as the channel
\* promises, and a new connection in the slot starts a new channel.
KeepsTheChannel == Channel!Spec

\* Every connection's handshake is answered, also one that comes in pieces, if
\* it was not thrown away; and every frame sent whole behind it is handled,
\* however many come in one read, unless the connection is over.
EveryFrameHandled ==
  /\ pc = "epoll" ~> shaken \/ spoilt \/ pc = "free"
  /\ \A k \in 1..MaxFrames :
       k <= Len(size) ~>
         \/ Len(handled) >= k \/ pc \in {"free", "fault"}
         \/ spoilt \/ \E j \in Torn : j <= k

--------------------------------------------------------------------------------
(* The formulas of Framing have no state: TLC, which would evaluate them in *)
(* each one, is asked for them in the initial state alone.                  *)

AtStart(formula) == conns = 0 => formula

\* Every header is read back as it was written (FramesParse).
FramesParseAtStart == AtStart(FramesParse)

\* The accept key's digits are base64's but for the padding (Base64UpToPadding).
Base64AtStart == AtStart(Base64UpToPadding)

\* SHA-1 is given the padded blocks of its message (BlocksArePadded).
BlocksAtStart == AtStart(BlocksArePadded)

\* SHA1Transform and what is around it compute SHA-1 (DigestIsSha1) ...
DigestAtStart == AtStart(DigestIsSha1)

\* ... with the constants that the standard's example was made with.
ExampleAtStart == AtStart(ExampleOfSha1)
===============================================================================

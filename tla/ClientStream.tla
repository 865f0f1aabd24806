----------------------------- MODULE ClientStream -----------------------------
(***************************************************************************)
(* From the server's sends to the client's on_message: what server.c puts  *)
(* on a non-blocking socket, and the receiving side of net_client.c        *)
(* (socket_io_callback) with ws_parse_frame.  Bytes are numbered from the  *)
(* start of the connection; the client's buffer always holds a run of them *)
(* that ends with the last one read.  TCP hands them over in pieces of any *)
(* size.                                                                   *)
(***************************************************************************)
EXTENDS Integers, Sequences

CONSTANTS
  BufferSize,   \* BUFFER_SIZE
  Burst,        \* 10: frames handled in one callback
  Hello,        \* length of the server's handshake response
  Lengths,      \* lengths of frames the server sends, headers included
  Long,         \* frames of this length and more have a header of four bytes
  SockBuf,      \* bytes under way that the kernels hold before a send is short
  MaxFrames     \* bound: frames sent

ASSUME SizesAssumption ==
  /\ Lengths \subseteq Nat \ {0, 1}          \* a header has two bytes or more
  /\ Long \in Nat
  /\ BufferSize \in Nat /\ Hello \in 1..BufferSize
  /\ Burst \in Nat \ {0} /\ MaxFrames \in Nat /\ SockBuf \in Nat

VARIABLES
  ends,        \* where the handshake response and each frame after it end
  size,        \* the length of each frame, by its header
  eof,         \* external: the server has closed
  read,        \* how many bytes recv has returned
  len,         \* buf_len
  shaken,      \* handshake_complete and connected
  pc,          \* "idle", "full", "recv", "parse", "closed"
  processed,   \* frames handled by this callback
  delivered,   \* what on_message got: frame numbers, 0 for garbage
  cleared      \* ghost: bytes were thrown away

network == <<ends, size, eof>>
client == <<read, len, shaken, pc, processed, delivered, cleared>>
vars == <<network, client>>

Init ==
  /\ ends = <<Hello>> /\ size = <<>> /\ eof = FALSE
  /\ read = 0 /\ len = 0 /\ shaken = FALSE /\ pc = "idle" /\ processed = 0
  /\ delivered = <<>> /\ cleared = FALSE

--------------------------------------------------------------------------------
(* The server and the network; a connection the client closed is over *)

Total == ends[Len(ends)]
Least(a, b) == IF a < b THEN a ELSE b
Room == IF Total - read < SockBuf THEN SockBuf - (Total - read) ELSE 0

\* The first n bytes of a frame of l bytes go out; for n = 0 nothing does.
Put(l, n) ==
  /\ ~eof /\ pc # "closed" /\ Len(size) < MaxFrames /\ n > 0
  /\ ends' = Append(ends, Total + n) /\ size' = Append(size, l)
  /\ UNCHANGED <<eof, client>>

\* broadcast_room: one send, whose result nobody looks at.
Broadcast(l) == Put(l, Least(l, Room))

\* send_ws_frame: ten sends, while the client may be reading.
Reply(l) == \E n \in Least(l, Room)..l : Put(l, n)

ServerCloses ==
  /\ ~eof /\ pc # "closed" /\ eof' = TRUE
  /\ UNCHANGED <<ends, size, client>>

--------------------------------------------------------------------------------
(* ws_parse_frame on the buffer: what it can return *)

start == read - len   \* the byte before the first one in the buffer

\* The number of the frame that begins the buffer, when one does; those that
\* went out in part; and those of them that lack even their length.
Frame == {k \in DOMAIN size : ends[k] = start}
Torn == {k \in DOMAIN size : ends[k + 1] - ends[k] < size[k]}
Header(l) == IF l < Long THEN 2 ELSE 4
Headless == {k \in Torn : ends[k + 1] - ends[k] < Header(size[k])}

\* -1 for fewer than two bytes, -2 for a frame that is not complete; a torn
\* frame takes the bytes it lacks from those behind it; a buffer that begins
\* inside a frame is read as a header of any length.  (Left out: one whose 64-bit
\* length is so near to 2^64 that the sum with the header wraps, 274, and the
\* copy runs out of the buffer; no frame that this program builds is like that.)
Consumed ==
  IF len < 2 THEN {-1}
  ELSE IF Frame \ Headless # {}
    THEN {IF size[k] <= len THEN size[k] ELSE -2 : k \in Frame}
    ELSE {-2} \union 2..len

Deliver(n) ==
  /\ delivered' = Append(delivered,
       IF Frame \ Torn = {} THEN 0 ELSE CHOOSE k \in Frame : TRUE)
  /\ len' = len - n
  /\ cleared' = cleared

Clear == len' = 0 /\ cleared' = TRUE /\ delivered' = delivered

--------------------------------------------------------------------------------
(* socket_io_callback *)

Callback ==
  /\ pc = "idle" /\ (Total > read \/ eof)
  /\ pc' = IF len = BufferSize THEN "full" ELSE "recv"
  /\ processed' = 0
  /\ UNCHANGED <<network, read, len, shaken, delivered, cleared>>

\* G_IO_HUP, G_IO_ERR or an error of recv: the connection is over, whatever
\* is unread.
HangUp ==
  /\ pc \in {"idle", "recv"} /\ pc' = "closed"
  /\ shaken' = FALSE
  /\ UNCHANGED <<network, read, len, processed, delivered, cleared>>

\* A full buffer: one frame is handled, or everything is thrown away.  Only a
\* frame that does not fit, or garbage, fills it, so it is always the latter.
MakeRoom ==
  /\ pc = "full" /\ pc' = "recv"
  /\ \E n \in Consumed : IF shaken /\ n > 0 THEN Deliver(n) ELSE Clear
  /\ UNCHANGED <<network, read, shaken, processed>>

\* Mutant: the response is cut off before its last byte.
RecvCutsShort(n) ==
  /\ pc = "recv" /\ n \in 1..Least(Total - read, BufferSize - len)
  /\ LET body == IF ~shaken /\ len + n >= Hello THEN len + n - Hello + 1 ELSE len + n
     IN  /\ read' = read + n
         /\ len' = body
         /\ shaken' = (shaken \/ len + n >= Hello)
         /\ pc' = IF shaken' /\ body > 0 THEN "parse" ELSE "idle"
  /\ UNCHANGED <<network, processed, delivered, cleared>>

\* TCP hands over as much as it likes of what is under way.
Recv(n) ==
  /\ pc = "recv" /\ n \in 1..Least(Total - read, BufferSize - len)
  /\ LET body == IF ~shaken /\ len + n >= Hello THEN len + n - Hello ELSE len + n
     IN  /\ read' = read + n
         /\ len' = body
         /\ shaken' = (shaken \/ len + n >= Hello)
         /\ pc' = IF shaken' /\ body > 0 THEN "parse" ELSE "idle"
  /\ UNCHANGED <<network, processed, delivered, cleared>>

RecvEnd ==
  /\ pc = "recv" /\ eof /\ read = Total
  /\ shaken' = FALSE /\ pc' = "closed"
  /\ UNCHANGED <<network, read, len, processed, delivered, cleared>>

\* Mutant: the bytes behind the frame are dropped with it.
ParseFrameDropsRest ==
  /\ pc = "parse"
  /\ \E n \in Consumed :
       /\ n > 0
       /\ Deliver(len)
       /\ processed' = processed + 1
       /\ pc' = "idle"
  /\ UNCHANGED <<network, read, shaken>>

\* Mutant: one frame per callback.
ParseOneFrame ==
  /\ pc = "parse"
  /\ \E n \in Consumed :
       /\ n > 0
       /\ Deliver(n)
       /\ processed' = processed + 1
       /\ pc' = "idle"
  /\ UNCHANGED <<network, read, shaken>>

\* One turn of `while (buf_len > 0 && processed < 10)'.
ParseFrame ==
  /\ pc = "parse"
  /\ \E n \in Consumed :
       /\ n > 0
       /\ Deliver(n)
       /\ processed' = processed + 1
       /\ pc' = IF len' > 0 /\ processed' < Burst THEN "parse" ELSE "idle"
  /\ UNCHANGED <<network, read, shaken>>

ParseWaits ==
  /\ pc = "parse" /\ -2 \in Consumed
  /\ pc' = "idle"
  /\ UNCHANGED <<network, read, len, shaken, processed, delivered, cleared>>

ParseFails ==
  /\ pc = "parse" /\ -1 \in Consumed
  /\ Clear
  /\ pc' = "idle"
  /\ UNCHANGED <<network, read, shaken, processed>>

--------------------------------------------------------------------------------
Network == (\E l \in Lengths : Broadcast(l) \/ Reply(l)) \/ ServerCloses
Client ==
  \/ Callback \/ MakeRoom \/ (\E n \in 1..BufferSize : Recv(n)) \/ RecvEnd
  \/ ParseFrame \/ ParseWaits \/ ParseFails

Next == Network \/ Client \/ HangUp

Spec == Init /\ [][Next]_vars

\* The network hands over what was sent, and the GTK main loop calls back
\* while there is something to read.
FairSpec == Spec /\ WF_vars(Client)

--------------------------------------------------------------------------------
(* Properties *)

TypeOK ==
  /\ ends \in Seq(Nat) /\ size \in Seq(Lengths) /\ Len(ends) = Len(size) + 1
  /\ read \in 0..Total /\ len \in 0..read
  /\ eof \in BOOLEAN /\ shaken \in BOOLEAN /\ cleared \in BOOLEAN
  /\ pc \in {"idle", "full", "recv", "parse", "closed"}
  /\ processed \in 0..Burst
  /\ delivered \in Seq(Nat)

\* The first n frames, once each and in order.
FirstFrames(n) == [i \in 1..n |-> i]

\* recv is never called without room: a result of 0 is always the end of the
\* connection, never mistaken for it.
RoomToRead == len <= BufferSize /\ (pc = "recv" => len < BufferSize)

\* The client is out of step: it threw bytes away, or read over the end of a
\* torn frame.
Spoilt == cleared \/ \E k \in Torn : ends[k] < start

\* Until then it is in step with the server: it has delivered the first
\* frames, once each and in order, none of them torn, and its buffer begins
\* where the next one does.
InStep ==
  ~Spoilt =>
    /\ delivered = FirstFrames(Len(delivered))
    /\ Len(delivered) <= Len(size)
    /\ \A k \in Torn : Len(delivered) < k
    /\ (shaken /\ pc # "closed") => start = ends[Len(delivered) + 1]
    /\ (~shaken /\ pc # "closed") => delivered = <<>> /\ start = 0

\* What the proofs need besides: where frames end, and what holds in the loop
\* over the frames.
EndsInOrder ==
  /\ ends[1] = Hello
  /\ \A i, j \in DOMAIN ends : i < j => ends[i] < ends[j]
  /\ \A k \in DOMAIN size : ends[k + 1] - ends[k] <= size[k]

BurstSound ==
  /\ pc \in {"full", "recv"} => processed = 0
  /\ pc = "parse" => shaken /\ processed < Burst

\* The inductive invariant behind the theorems of ClientStreamProofs.
StreamInv == TypeOK /\ RoomToRead /\ InStep /\ EndsInOrder /\ BurstSound

Channel == INSTANCE FrameChannel
             WITH sent <- Len(size), got <- delivered, intact <- ~Spoilt

\* However the bytes are cut, in the kernel or by a short send, the client
\* hands over frames as the channel promises: no step skips, repeats or
\* swaps a frame before bytes were lost, and lost bytes never come back.
KeepsTheChannel == Channel!Spec

\* protocol_ws.h 35: a negative result is an error or too little data, so too
\* little data is no reason to lose what comes after it.
DeliveredInOrder == delivered = FirstFrames(Len(delivered))

\* README 9: drawing and chat are synchronised in real time.  Every frame that
\* was sent whole, behind whole frames, is delivered in the end, unless bytes
\* were thrown away or the connection is over; the one way to be left waiting
\* is a callback that stopped at its tenth frame with nothing more to read.
EveryFrameDelivered ==
  \A k \in 1..MaxFrames :
    k <= Len(size) ~>
      \/ Len(delivered) >= k \/ pc = "closed"
      \/ cleared \/ \E j \in Torn : j <= k
      \/ pc = "idle" /\ processed = Burst /\ len > 0 /\ read = Total
===============================================================================

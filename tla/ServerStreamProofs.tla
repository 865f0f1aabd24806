--------------------------- MODULE ServerStreamProofs ---------------------------
(***************************************************************************)
(* StreamInv holds in every reachable state of ServerStream, for any       *)
(* buffer, frame lengths, socket buffer and number of connections; nothing *)
(* is lost without a cause; and the server's side implements FrameChannel. *)
(***************************************************************************)
EXTENDS ServerStream, TLAPS, SequenceTheorems

--------------------------------------------------------------------------------
(* Where frames end *)

\* What the assumptions on the sizes say.
LEMMA Sizes ==
  /\ BufferSize \in Nat /\ BufferSize > 4 /\ Hello = 4
  /\ SockBuf \in Nat /\ Long \in Nat /\ MaxConns \in Nat
  /\ \A l \in Lengths : l \in Nat /\ l >= 2
BY SizesAssumption, BoundsAssumption DEF Hello

\* The bookkeeping of what was sent, as numbers.
LEMMA EndsFacts ==
  ASSUME TypeOK, EndsInOrder
  PROVE  /\ Len(size) \in Nat /\ DOMAIN size = 1..Len(size)
         /\ DOMAIN ends = 1..Len(size) + 1 /\ Total = ends[Len(size) + 1]
         /\ \A k \in 1..Len(size) + 1 : ends[k] \in Nat /\ ends[k] <= Total /\ Hello <= ends[k]
         /\ \A k \in 1..Len(size) : size[k] \in Lengths /\ size[k] \in Nat /\ size[k] >= 2
         /\ \A i, j \in 1..Len(size) + 1 : i < j => ends[i] < ends[j]
         /\ \A k \in 1..Len(size) : ends[k + 1] - ends[k] <= size[k]
         /\ Total \in Nat /\ start \in Nat /\ start <= read
<1>1. Len(size) \in Nat /\ Len(ends) = Len(size) + 1
  BY DEF TypeOK
<1>2. DOMAIN size = 1..Len(size) /\ DOMAIN ends = 1..Len(size) + 1
  BY <1>1, LenProperties DEF TypeOK
<1>3. \A k \in 1..Len(size) + 1 : ends[k] \in Nat
  BY <1>1, ElementOfSeq DEF TypeOK
<1>4. \A k \in 1..Len(size) : size[k] \in Lengths
  BY <1>1, ElementOfSeq DEF TypeOK
<1>5. Total = ends[Len(size) + 1]
  BY <1>1 DEF Total
<1>6. \A k \in 1..Len(size) + 1 : ends[k] <= Total /\ Hello <= ends[k]
  BY <1>1, <1>2, <1>3, <1>5, Sizes DEF EndsInOrder
<1>7. Total \in Nat
  BY <1>1, <1>3, <1>5
<1>8. start \in Nat /\ start <= read
  BY <1>7 DEF start, TypeOK
<1>9. /\ \A i, j \in 1..Len(size) + 1 : i < j => ends[i] < ends[j]
      /\ \A k \in 1..Len(size) : ends[k + 1] - ends[k] <= size[k]
  BY <1>2 DEF EndsInOrder
<1> QED BY <1>9, <1>1, <1>2, <1>3, <1>4, <1>5, <1>6, <1>7, <1>8, Sizes

\* No two frames begin at the same byte.
LEMMA FrameIsOne ==
  ASSUME TypeOK, EndsInOrder, NEW d \in Nat, d < Len(size), start = ends[d + 1]
  PROVE  Frame = {d + 1} /\ (CHOOSE k \in Frame : TRUE) = d + 1
<1>1. d + 1 \in DOMAIN size /\ d + 1 \in DOMAIN ends
  BY EndsFacts
<1>2. \A k \in DOMAIN size : ends[k] = start => k = d + 1
  BY <1>1, EndsFacts
<1>3. Frame = {d + 1}
  BY <1>1, <1>2 DEF Frame
<1> QED BY <1>3

\* One more frame of l bytes, n of which went out.
LEMMA EndsAppend ==
  ASSUME TypeOK, EndsInOrder, NEW l \in Lengths, NEW n \in Nat, n > 0, n <= l,
         ends' = Append(ends, Total + n), size' = Append(size, l)
  PROVE  /\ ends' \in Seq(Nat) /\ size' \in Seq(Lengths) /\ Len(ends') = Len(size') + 1
         /\ Len(size') = Len(size) + 1 /\ Total' = Total + n
         /\ DOMAIN size' = 1..Len(size) + 1
         /\ \A k \in 1..Len(size) + 1 : ends'[k] = ends[k]
         /\ \A k \in 1..Len(size) : size'[k] = size[k]
         /\ EndsInOrder'
<1>1. Total + n \in Nat
  BY EndsFacts
<1>2. /\ ends' \in Seq(Nat) /\ Len(ends') = Len(size) + 2
      /\ \A k \in 1..Len(size) + 1 : ends'[k] = ends[k]
      /\ ends'[Len(size) + 2] = Total + n
  BY <1>1, AppendProperties DEF TypeOK
<1>3. /\ size' \in Seq(Lengths) /\ Len(size') = Len(size) + 1
      /\ \A k \in 1..Len(size) : size'[k] = size[k]
      /\ size'[Len(size) + 1] = l
  BY AppendProperties DEF TypeOK
<1>4. Total' = Total + n
  BY <1>2 DEF Total
<1>5. DOMAIN size' = 1..Len(size) + 1 /\ DOMAIN ends' = 1..Len(size) + 2
  BY <1>2, <1>3, LenProperties
<1>6. EndsInOrder'
  <2>1. ends'[1] = Hello
    BY <1>2, EndsFacts DEF EndsInOrder
  <2>2. \A i, j \in 1..Len(size) + 2 : i < j => ends'[i] < ends'[j]
    BY <1>2, EndsFacts
  <2>3. \A k \in 1..Len(size) + 1 : ends'[k + 1] - ends'[k] <= size'[k]
    <3> SUFFICES ASSUME NEW k \in 1..Len(size) + 1
                 PROVE  ends'[k + 1] - ends'[k] <= size'[k]
      OBVIOUS
    <3>1. CASE k = Len(size) + 1
      <4>1. ends'[k + 1] = Total + n /\ ends'[k] = Total /\ size'[k] = l
        BY <3>1, <1>2, <1>3, EndsFacts
      <4>2. Total \in Nat /\ l \in Nat
        BY EndsFacts, Sizes
      <4>3. (Total + n) - Total <= l
        BY <4>2
      <4> QED BY <4>1, <4>3, Zenon
    <3>2. CASE k \in 1..Len(size)
      <4>1. ends'[k + 1] = ends[k + 1] /\ ends'[k] = ends[k] /\ size'[k] = size[k]
        <5>1. k \in 1..Len(size) + 1 /\ k + 1 \in 1..Len(size) + 1
          BY <3>2, EndsFacts
        <5> QED BY <3>2, <5>1, <1>2, <1>3, Zenon
      <4>2. ends[k + 1] - ends[k] <= size[k]
        BY <3>2, EndsFacts
      <4> QED BY <4>1, <4>2, Zenon
    <3> QED BY <3>1, <3>2, EndsFacts
  <2> QED BY <1>5, <2>1, <2>2, <2>3 DEF EndsInOrder
<1> QED BY <1>2, <1>3, <1>4, <1>5, <1>6

\* One more frame handed to handle_message.
LEMMA FirstFramesAppend ==
  ASSUME NEW d \in Nat
  PROVE  /\ FirstFrames(d) \in Seq(Nat) /\ Len(FirstFrames(d)) = d
         /\ Append(FirstFrames(d), d + 1) = FirstFrames(d + 1)
<1>1. \A m \in Nat : FirstFrames(m) \in Seq(Nat) /\ Len(FirstFrames(m)) = m
  BY DEF FirstFrames
<1>2. \A m \in Nat : \A i \in 1..m : FirstFrames(m)[i] = i
  BY DEF FirstFrames
<1>3. Append(FirstFrames(d), d + 1) \in Seq(Nat) /\ Len(Append(FirstFrames(d), d + 1)) = d + 1
  BY <1>1, AppendProperties
<1>4. \A i \in 1..d + 1 : Append(FirstFrames(d), d + 1)[i] = FirstFrames(d + 1)[i]
  BY <1>1, <1>2, AppendProperties
<1>5. Append(FirstFrames(d), d + 1) = FirstFrames(d + 1)
  BY <1>1, <1>3, <1>4, SeqEqual
<1> QED BY <1>1, <1>5
\* The frames that went out in part, after one more was put on the stream.
LEMMA TornAppend ==
  ASSUME TypeOK, EndsInOrder, NEW l \in Lengths, NEW n \in Nat, n > 0, n <= l,
         ends' = Append(ends, Total + n), size' = Append(size, l)
  PROVE  Torn \subseteq Torn' /\ Torn' \subseteq Torn \union {Len(size) + 1}
<1>1. \A k \in 1..Len(size) : /\ ends'[k] = ends[k] /\ ends'[k + 1] = ends[k + 1]
                              /\ size'[k] = size[k]
  BY EndsAppend, EndsFacts
<1>2. DOMAIN size' = 1..Len(size) + 1 /\ DOMAIN size = 1..Len(size)
  BY EndsAppend, EndsFacts
<1>3. \A k \in 1..Len(size) + 1 : k = Len(size) + 1 \/ k \in 1..Len(size)
  BY EndsFacts
<1>4. \A k \in 1..Len(size) : k \in Torn' <=> k \in Torn
  BY <1>1, <1>2, EndsFacts DEF Torn
<1>5. Torn \subseteq 1..Len(size) /\ Torn' \subseteq 1..Len(size) + 1
  BY <1>2 DEF Torn
<1> QED BY <1>3, <1>4, <1>5

--------------------------------------------------------------------------------
(* The steps: each keeps the invariant, is a step of the channel, and loses *)
(* nothing without a cause                                                  *)

\* A step that touches neither the stream nor what was handled of it.
LEMMA QuietStep ==
  ASSUME StreamInv, UNCHANGED <<stream, slot>>, conns' = conns,
         pc' \in {"free", "epoll"} \/ pc' = pc,
         pc' = "epoll" => (pc # "free" /\ len < BufferSize)
  PROVE  StreamInv' /\ UNCHANGED Channel!vars /\ (LossHasACause => LossHasACause')
<1> USE DEF StreamInv, stream, slot
<1>1. start' = start /\ Torn' = Torn /\ Total' = Total
  BY DEF start, Torn, Total
<1>2. TypeOK'
  BY <1>1 DEF TypeOK
<1>3. RoomToRead' /\ EndsInOrder' /\ HandshakeFirst'
  BY DEF RoomToRead, EndsInOrder, HandshakeFirst
<1>4. InStep'
  BY <1>1 DEF InStep
<1> QED BY <1>1, <1>2, <1>3, <1>4 DEF Channel!vars, LossHasACause

\* net_client_send, whole or short.
LEMMA SendStep ==
  ASSUME StreamInv, NEW l \in Lengths, ClientSend(l)
  PROVE  StreamInv' /\ Channel!Put /\ (LossHasACause => LossHasACause')
<1> USE DEF StreamInv
<1> DEFINE n == Least(l, Room)
<1>1. /\ n > 0 /\ ends' = Append(ends, Total + n) /\ size' = Append(size, l)
      /\ UNCHANGED <<conns, slot, pc>> /\ pc # "free" /\ shaken
  BY DEF ClientSend
<1>2. n \in Nat /\ n <= l
  <2>1. Room \in Nat /\ l \in Nat
    BY EndsFacts, Sizes DEF Room, TypeOK
  <2> QED BY <2>1 DEF Least
<1>3. /\ start' = start
      /\ UNCHANGED <<len, read, buffer, handled, spoilt, cut, shaken>>
  BY <1>1 DEF slot, start
<1>4. TypeOK'
  <2>1. read' \in 0..Total'
    <3>1. Total' = Total + n /\ Total \in Nat
      BY <1>1, <1>2, EndsAppend, EndsFacts
    <3> QED BY <1>2, <1>3, <3>1 DEF TypeOK
  <2>2. ends' \in Seq(Nat) /\ size' \in Seq(Lengths) /\ Len(ends') = Len(size') + 1
    BY <1>1, <1>2, EndsAppend
  <2> QED BY <1>1, <1>3, <2>1, <2>2 DEF TypeOK
<1>5. InStep'
  <2> SUFFICES ASSUME ~spoilt
               PROVE  /\ handled = FirstFrames(Len(handled)) /\ Len(handled) <= Len(size')
                      /\ \A k \in Torn' : Len(handled) < k
                      /\ shaken => start = ends'[Len(handled) + 1]
                      /\ ~shaken => start = 0 /\ \A i \in 1..len : buffer[i] = i
                      /\ pc # "fault"
    BY <1>1, <1>3 DEF InStep
  <2>1. Len(handled) \in Nat
    BY LenProperties DEF TypeOK
  <2>2. Len(handled) <= Len(size) /\ \A k \in Torn : Len(handled) < k
    BY <1>1 DEF InStep
  <2>3. ends'[Len(handled) + 1] = ends[Len(handled) + 1] /\ Len(size') = Len(size) + 1
    BY <1>1, <1>2, <2>1, <2>2, EndsAppend, EndsFacts
  <2>4. \A k \in Torn' : Len(handled) < k
    BY <1>1, <1>2, <2>1, <2>2, TornAppend, EndsFacts
  <2> QED BY <1>1, <2>1, <2>2, <2>3, <2>4, EndsFacts DEF InStep
<1>6. RoomToRead' /\ EndsInOrder' /\ HandshakeFirst'
  BY <1>1, <1>2, <1>3, EndsAppend DEF RoomToRead, HandshakeFirst
<1>7. Channel!Put
  BY <1>1, <1>2, <1>3, EndsAppend DEF Channel!Put
<1>8. LossHasACause => LossHasACause'
  BY <1>1, <1>2, <1>3, TornAppend DEF LossHasACause
<1> QED BY <1>4, <1>5, <1>6, <1>7, <1>8

\* accept and add_client: a new channel, over whatever is in the buffer.
LEMMA AcceptStep ==
  ASSUME StreamInv, Accept
  PROVE  StreamInv' /\ Channel!Reopen /\ (LossHasACause => LossHasACause')
<1> USE DEF StreamInv
<1>1. /\ conns < MaxConns /\ conns' = conns + 1 /\ ends' = <<Hello>> /\ size' = <<>> /\ read' = 0
      /\ len' = 0 /\ shaken' = FALSE /\ pc' = "epoll" /\ handled' = <<>> /\ cut' = FALSE
      /\ spoilt' = FALSE /\ buffer' = buffer
  BY DEF Accept
<1>2. /\ ends' \in Seq(Nat) /\ Len(ends') = 1 /\ ends'[1] = Hello /\ DOMAIN ends' = {1}
      /\ size' \in Seq(Lengths) /\ Len(size') = 0 /\ DOMAIN size' = {}
      /\ handled' \in Seq(Nat) /\ Len(handled') = 0
  BY <1>1, Sizes
<1>3. Torn' = {} /\ start' = 0 /\ Total' = Hello
  BY <1>1, <1>2 DEF Torn, start, Total
<1>4. TypeOK'
  <2>1. conns' \in 0..MaxConns /\ Len(ends') = Len(size') + 1
    BY <1>1, <1>2, Sizes DEF TypeOK
  <2>2. read' \in 0..Total' /\ len' \in 0..BufferSize /\ len' <= read'
    BY <1>1, <1>3, Sizes
  <2> QED BY <1>1, <1>2, <2>1, <2>2, Zenon DEF TypeOK
<1>5. RoomToRead' /\ HandshakeFirst'
  BY <1>1, Sizes DEF RoomToRead, HandshakeFirst
<1>6. EndsInOrder'
  BY <1>2 DEF EndsInOrder
<1>7. InStep'
  <2>1. handled' = FirstFrames(Len(handled'))
    BY <1>1, <1>2 DEF FirstFrames
  <2> QED BY <1>1, <1>2, <1>3, <2>1 DEF InStep
<1>8. Channel!Reopen
  BY <1>1, <1>2 DEF Channel!Reopen
<1>9. LossHasACause'
  BY <1>1 DEF LossHasACause
<1> QED BY <1>4, <1>5, <1>6, <1>7, <1>8, <1>9

\* Before the answer to the handshake nothing but it is on the stream.
LEMMA BeforeAnswer ==
  ASSUME StreamInv, ~shaken
  PROVE  read <= Hello /\ Total = Hello /\ Torn = {} /\ handled = <<>> /\ size = <<>>
<1>1. handled = <<>> /\ size = <<>> /\ DOMAIN size = {} /\ Len(size) = 0
  BY DEF StreamInv, HandshakeFirst
<1>2. Total = Hello
  BY <1>1, EndsFacts DEF StreamInv, EndsInOrder
<1>3. Torn = {} /\ read <= Hello
  BY <1>1, <1>2, Sizes DEF Torn, StreamInv, TypeOK
<1> QED BY <1>1, <1>2, <1>3

\* read has returned n bytes, which go behind those in the buffer.
LEMMA ReadStep ==
  ASSUME StreamInv, NEW n \in 1..BufferSize, ReadBytes(n)
  PROVE  StreamInv' /\ UNCHANGED Channel!vars /\ (LossHasACause => LossHasACause')
<1> USE DEF StreamInv
<1>1. /\ pc = "epoll" /\ n \in Nat /\ n >= 1 /\ n <= Total - read /\ n <= BufferSize - len
  <2>1. n \in 1..Least(Total - read, BufferSize - len) /\ pc = "epoll"
    BY DEF ReadBytes
  <2>2. Total - read \in Int /\ BufferSize - len \in Int
    BY EndsFacts, Sizes DEF TypeOK
  <2> QED BY <2>1, <2>2 DEF Least
<1>2. /\ read' = read + n /\ len' = len + n /\ cut' = (cut \/ read' < Hello) /\ pc' = "loop"
      /\ buffer' = [i \in 1..BufferSize |-> IF i \in len + 1..len + n THEN Cell(read + i - len)
                                                                      ELSE buffer[i]]
      /\ UNCHANGED <<conns, ends, size, shaken, handled, spoilt>>
  BY DEF ReadBytes, stream
<1>3. /\ Total \in Nat /\ read \in Nat /\ len \in Nat /\ len <= read
      /\ BufferSize \in Nat /\ Hello = 4
  BY EndsFacts, Sizes DEF TypeOK
<1>4. Torn' = Torn /\ Total' = Total /\ start' = start
  BY <1>2, <1>3 DEF Torn, Total, start
<1>5. TypeOK'
  <2>1. buffer' \in [1..BufferSize -> Cells]
    <3>1. \A p \in Int : p >= 1 => Cell(p) \in Cells
      BY DEF Cell, Cells, Hello, Get, Upgrade, Key
    <3>2. \A i \in 1..BufferSize : i \in len + 1..len + n => Cell(read + i - len) \in Cells
      BY <1>1, <1>3, <3>1
    <3> QED BY <1>2, <3>2 DEF TypeOK
  <2>2. read' \in 0..Total' /\ len' \in 0..BufferSize /\ len' <= read'
    BY <1>1, <1>2, <1>3, <1>4
  <2>3. cut' \in BOOLEAN
    BY <1>2 DEF TypeOK
  <2> QED BY <1>2, <2>1, <2>2, <2>3 DEF TypeOK
<1>6. RoomToRead' /\ EndsInOrder'
  BY <1>2 DEF RoomToRead, EndsInOrder
<1>7. HandshakeFirst'
  <2>1. read' > 0 /\ (~(read' < Hello) => read' >= Hello)
    BY <1>1, <1>2, <1>3
  <2>2. ~cut' => ~(read' < Hello)
    BY <1>2
  <2> QED BY <1>2, <2>1, <2>2 DEF HandshakeFirst
<1>8. InStep'
  <2> SUFFICES ASSUME ~spoilt, ~shaken
               PROVE  \A i \in 1..len + n : buffer'[i] = i
    BY <1>1, <1>2, <1>4 DEF InStep
  <2>1. start = 0 /\ \A i \in 1..len : buffer[i] = i
    BY <1>1 DEF InStep
  <2>2. read = len /\ read + n <= 4
    BY <1>1, <1>3, <2>1, BeforeAnswer DEF start
  <2> SUFFICES ASSUME NEW i \in 1..len + n
               PROVE  buffer'[i] = i
    OBVIOUS
  <2>3. i \in 1..BufferSize
    BY <1>1, <1>3
  <2>4. CASE i \in 1..len
    BY <1>2, <1>3, <2>1, <2>3, <2>4
  <2>5. CASE i \in len + 1..len + n
    <3>1. buffer'[i] = Cell(read + i - len)
      BY <1>2, <2>3, <2>5
    <3>2. read + i - len = i /\ i <= 4
      BY <1>1, <1>3, <2>2
    <3> QED BY <3>1, <3>2, <1>3 DEF Cell
  <2> QED BY <1>1, <1>3, <2>4, <2>5
<1>9. UNCHANGED Channel!vars
  BY <1>2 DEF Channel!vars
<1>10. LossHasACause => LossHasACause'
  BY <1>2, <1>4 DEF LossHasACause
<1> QED BY <1>5, <1>6, <1>7, <1>8, <1>9, <1>10

\* The answer to the handshake, which empties the buffer in any case.  One that
\* came in one read is found, whatever earlier connections left behind it.
LEMMA HandshakeStep ==
  ASSUME StreamInv, Handshake
  PROVE  /\ StreamInv' /\ (Channel!Lose \/ UNCHANGED Channel!vars)
         /\ (LossHasACause => LossHasACause')
<1> USE DEF StreamInv
<1>1. PICK e \in StringEnds : IsHandshake(PartsBefore(e)) /\ shaken' = (Key \in PartsBefore(e))
  BY DEF Handshake
<1>2. /\ pc = "loop" /\ ~shaken /\ len' = 0 /\ pc' = "epoll"
      /\ spoilt' = (spoilt \/ ~shaken' \/ read # Hello)
      /\ UNCHANGED <<conns, ends, size, read, buffer, handled, cut>>
  BY DEF Handshake, stream
<1>3. /\ read <= Hello /\ Total = Hello /\ Torn = {} /\ handled = <<>> /\ size = <<>> /\ Hello = 4
  BY <1>2, BeforeAnswer, Sizes
<1>4. Torn' = Torn /\ Total' = Total /\ start' = read /\ read \in Nat /\ BufferSize \in Nat
  BY <1>2, EndsFacts, Sizes DEF Torn, Total, start, TypeOK
<1>5. TypeOK'
  BY <1>1, <1>2, <1>4 DEF TypeOK
<1>6. RoomToRead' /\ EndsInOrder' /\ HandshakeFirst'
  BY <1>2, <1>3, <1>4, Sizes DEF RoomToRead, EndsInOrder, HandshakeFirst
<1>7. InStep'
  <2> SUFFICES ASSUME ~spoilt'
               PROVE  /\ handled = FirstFrames(Len(handled)) /\ Len(handled) <= Len(size)
                      /\ start' = ends[Len(handled) + 1]
    BY <1>1, <1>2, <1>3, <1>4 DEF InStep
  <2>1. read = Hello
    BY <1>2
  <2>2. ends[1] = Hello
    BY DEF EndsInOrder
  <2>3. Len(handled) = 0 /\ Len(size) = 0 /\ handled = FirstFrames(0)
    BY <1>3 DEF FirstFrames
  <2> QED BY <1>4, <2>1, <2>2, <2>3
<1>8. Channel!Lose \/ UNCHANGED Channel!vars
  <2>1. CASE spoilt'
    BY <1>2, <2>1 DEF Channel!Lose
  <2>2. CASE ~spoilt'
    BY <1>2, <2>2 DEF Channel!vars
  <2> QED BY <2>1, <2>2
<1>9. LossHasACause => LossHasACause'
  <2> SUFFICES ASSUME LossHasACause, spoilt', ~cut
               PROVE  FALSE
    BY <1>2, <1>4 DEF LossHasACause, TypeOK
  <2>1. ~spoilt
    BY <1>3 DEF LossHasACause
  <2>2. read = Hello
    BY <1>2, <1>3, <1>4 DEF HandshakeFirst
  <2>3. len = 4 /\ \A i \in 1..4 : buffer[i] = i
    <3>1. start = 0 /\ \A i \in 1..len : buffer[i] = i
      BY <1>2, <2>1 DEF InStep
    <3> QED BY <1>3, <1>4, <2>2, <3>1 DEF start, TypeOK
  <2>4. e \in Nat /\ e > 4
    <3>1. e \in 1..BufferSize + 1 /\ (e <= BufferSize => buffer[e] \in {Nul, Data})
      BY <1>1 DEF StringEnds
    <3>2. e \in 1..4 => buffer[e] \notin {Nul, Data}
      BY <2>3 DEF Nul, Data
    <3> QED BY <1>4, <3>1, <3>2, Sizes
  <2>5. Key \in PartsBefore(e)
    <3>1. 3 \in 1..e - 1 /\ buffer[3] = Key
      BY <2>3, <2>4 DEF Key
    <3> QED BY <3>1 DEF PartsBefore
  <2> QED BY <1>1, <1>2, <2>1, <2>2, <2>5
<1> QED BY <1>5, <1>6, <1>7, <1>8, <1>9

\* In step, with bytes in the buffer, a frame begins it.
LEMMA FrameBegins ==
  ASSUME StreamInv, ~spoilt, pc # "free", shaken, len > 0
  PROVE  /\ Len(handled) \in Nat /\ Len(handled) < Len(size) /\ start = ends[Len(handled) + 1]
         /\ Frame = {Len(handled) + 1} /\ (CHOOSE k \in Frame : TRUE) = Len(handled) + 1
<1> USE DEF StreamInv
<1>1. Len(handled) \in Nat /\ len \in Nat /\ read \in Nat /\ read <= Total
  BY LenProperties, EndsFacts, Sizes DEF TypeOK
<1>2. Len(handled) <= Len(size) /\ start = ends[Len(handled) + 1]
  BY DEF InStep
<1>3. Len(handled) < Len(size)
  <2>1. Len(handled) = Len(size) => start = Total
    BY <1>2, EndsFacts
  <2> QED BY <1>1, <1>2, <2>1, EndsFacts DEF start
<1> QED BY <1>1, <1>2, <1>3, FrameIsOne

\* One frame, or what is taken for one, is handled and the rest moved down.
LEMMA HandleStep ==
  ASSUME StreamInv, HandleFrame
  PROVE  /\ StreamInv' /\ (Channel!HandNext \/ Channel!HandAny)
         /\ (LossHasACause => LossHasACause')
<1> USE DEF StreamInv
<1> DEFINE d == Len(handled)
           x == IF Frame \ Torn = {} THEN 0 ELSE CHOOSE k \in Frame : TRUE
<1>1. PICK l \in FrameLengths :
        /\ l \in 1..len /\ handled' = Append(handled, x) /\ len' = len - l
        /\ spoilt' = (spoilt \/ Frame \ Torn = {})
        /\ buffer' = [i \in 1..BufferSize |-> IF i <= len' THEN buffer[i + l] ELSE buffer[i]]
  BY DEF HandleFrame
<1>2. /\ pc = "loop" /\ shaken /\ pc' = (IF len' > 0 THEN "loop" ELSE "epoll")
      /\ UNCHANGED <<conns, ends, size, read, shaken, cut>>
  BY DEF HandleFrame, stream
<1>3. /\ len \in Nat /\ read \in Nat /\ len <= read /\ l \in Nat /\ l >= 1 /\ l <= len
      /\ BufferSize \in Nat /\ len <= BufferSize /\ BufferSize > 0
  BY <1>1, EndsFacts, Sizes DEF TypeOK
<1>4. Torn' = Torn /\ Total' = Total /\ start' = start + l
  BY <1>1, <1>2, <1>3 DEF Torn, Total, start
<1>5. x \in 0..Len(size)
  BY EndsFacts DEF Frame
<1>6. d \in Nat /\ handled' \in Seq(Nat) /\ Len(handled') = d + 1
  BY <1>1, <1>5, EndsFacts, AppendProperties, LenProperties DEF TypeOK
<1>7. TypeOK'
  <2>1. buffer' \in [1..BufferSize -> Cells]
    <3>1. \A i \in 1..BufferSize : i <= len' => i + l \in 1..BufferSize
      BY <1>1, <1>3
    <3> QED BY <1>1, <3>1 DEF TypeOK
  <2>2. read' \in 0..Total' /\ len' \in 0..BufferSize /\ len' <= read'
    BY <1>1, <1>2, <1>3, <1>4 DEF TypeOK
  <2>3. spoilt' \in BOOLEAN
    BY <1>1 DEF TypeOK
  <2> QED BY <1>2, <1>6, <2>1, <2>2, <2>3 DEF TypeOK
<1>8. RoomToRead' /\ EndsInOrder' /\ HandshakeFirst'
  BY <1>1, <1>2, <1>3 DEF RoomToRead, EndsInOrder, HandshakeFirst
<1>9. CASE spoilt'
  <2>1. InStep'
    BY <1>9 DEF InStep
  <2>2. Channel!HandAny
    BY <1>1, <1>2, <1>5, <1>9 DEF Channel!HandAny
  <2>3. ASSUME LossHasACause
        PROVE  LossHasACause'
    <3>1. CASE spoilt
      BY <1>2, <1>4, <2>3, <3>1 DEF LossHasACause
    <3>2. CASE ~spoilt
      <4>1. Frame = {d + 1}
        BY <1>2, <1>3, <3>2, FrameBegins
      <4>2. Torn # {}
        BY <1>1, <1>9, <3>2, <4>1
      <4> QED BY <1>4, <4>2 DEF LossHasACause
    <3> QED BY <3>1, <3>2
  <2> QED BY <1>7, <1>8, <2>1, <2>2, <2>3
<1>10. CASE ~spoilt'
  <2>1. ~spoilt /\ Frame \ Torn # {}
    BY <1>1, <1>10
  <2>2. /\ d < Len(size) /\ start = ends[d + 1]
        /\ Frame = {d + 1} /\ (CHOOSE k \in Frame : TRUE) = d + 1
    BY <1>2, <1>3, <2>1, FrameBegins
  <2>3. handled = FirstFrames(d) /\ (\A k \in Torn : d < k)
    BY <1>2, <2>1 DEF InStep
  <2>4. d + 1 \notin Torn /\ x = d + 1
    BY <2>1, <2>2
  <2>5. l = size[d + 1]
    <3>1. Frame \ Headless # {}
      BY <2>2, <2>4 DEF Headless
    <3> QED BY <1>1, <2>2, <3>1 DEF FrameLengths
  <2>6. start' = ends'[d + 2]
    <3>1. d + 1 \in 1..Len(size) /\ d + 1 \in DOMAIN size /\ (d + 1) + 1 = d + 2
      BY <1>6, <2>2, EndsFacts
    <3>2. ends[d + 2] - ends[d + 1] <= size[d + 1]
      BY <3>1, EndsFacts
    <3>3. ~(ends[d + 2] - ends[d + 1] < size[d + 1])
      BY <2>4, <3>1 DEF Torn
    <3>4. ends[d + 2] \in Nat /\ ends[d + 1] \in Nat /\ size[d + 1] \in Nat
      BY <1>6, <2>2, <3>1, EndsFacts
    <3> QED BY <1>2, <1>4, <2>2, <2>5, <3>2, <3>3, <3>4
  <2>7. handled' = FirstFrames(d + 1)
    BY <1>1, <1>6, <2>3, <2>4, FirstFramesAppend
  <2>8. \A k \in Torn' : d + 1 < k
    <3>1. \A k \in Torn : k \in Nat
      BY EndsFacts DEF Torn
    <3> QED BY <1>4, <1>6, <2>3, <2>4, <3>1
  <2>9. InStep'
    BY <1>2, <1>6, <2>2, <2>6, <2>7, <2>8, EndsFacts DEF InStep
  <2>10. Channel!HandNext
    BY <1>1, <1>2, <1>10, <2>1, <2>2, <2>4 DEF Channel!HandNext
  <2> QED BY <1>7, <1>8, <1>10, <2>9, <2>10 DEF LossHasACause
<1> QED BY <1>9, <1>10

\* A length that overflows is never that of a frame the client sent whole.
LEMMA OverflowStep ==
  ASSUME StreamInv, FrameOverflows
  PROVE  StreamInv' /\ Channel!Lose /\ (LossHasACause => LossHasACause')
<1> USE DEF StreamInv
<1>1. /\ pc = "loop" /\ shaken /\ 0 \in FrameLengths /\ len >= 4 /\ pc' = "fault" /\ spoilt' = TRUE
      /\ UNCHANGED <<conns, ends, size, read, buffer, len, shaken, handled, cut>>
  BY DEF FrameOverflows, stream
<1>2. Torn' = Torn /\ Total' = Total
  BY <1>1 DEF Torn, Total
<1>3. TypeOK'
  BY <1>1, <1>2 DEF TypeOK
<1>4. RoomToRead' /\ EndsInOrder' /\ HandshakeFirst' /\ InStep'
  BY <1>1 DEF RoomToRead, EndsInOrder, HandshakeFirst, InStep
<1>5. Channel!Lose
  BY <1>1 DEF Channel!Lose
<1>6. ASSUME LossHasACause, ~spoilt
      PROVE  Torn # {}
  <2>1. Len(handled) \in Nat /\ Len(handled) < Len(size) /\ Frame = {Len(handled) + 1}
    BY <1>1, <1>6, FrameBegins DEF TypeOK
  <2>2. size[Len(handled) + 1] \in Nat /\ size[Len(handled) + 1] >= 2
    BY <2>1, EndsFacts
  <2>3. Frame \ Headless = {}
    BY <1>1, <2>1, <2>2 DEF FrameLengths
  <2> QED BY <2>1, <2>3 DEF Headless
<1>7. LossHasACause => LossHasACause'
  BY <1>1, <1>2, <1>6 DEF LossHasACause
<1> QED BY <1>3, <1>4, <1>5, <1>7

\* Every step keeps the invariant, is a step of the channel, and loses nothing
\* without a cause.
LEMMA NextStep ==
  ASSUME StreamInv, [Next]_vars
  PROVE  /\ StreamInv' /\ [Channel!Next]_(Channel!vars)
         /\ (LossHasACause => LossHasACause')
<1> USE DEF Channel!Next
<1>1. CASE Accept
  BY <1>1, AcceptStep
<1>2. ASSUME NEW l \in Lengths, ClientSend(l)
      PROVE  StreamInv' /\ Channel!Put /\ (LossHasACause => LossHasACause')
  BY <1>2, SendStep
<1>3. CASE ReadEnds
  BY <1>3, QuietStep DEF ReadEnds
<1>4. ASSUME NEW n \in 1..BufferSize, ReadBytes(n)
      PROVE  StreamInv' /\ UNCHANGED Channel!vars /\ (LossHasACause => LossHasACause')
  BY <1>4, ReadStep
<1>5. CASE Handshake
  BY <1>5, HandshakeStep
<1>6. CASE NoHandshakeYet
  <2>1. len \in 0..BufferSize /\ BufferSize \in Nat
    BY Sizes DEF StreamInv, TypeOK
  <2> QED BY <1>6, <2>1, QuietStep DEF NoHandshakeYet
<1>7. CASE HandleFrame
  BY <1>7, HandleStep
<1>8. CASE FrameTooLarge
  BY <1>8, QuietStep DEF FrameTooLarge
<1>9. CASE FrameOverflows
  BY <1>9, OverflowStep
<1>10. CASE WaitForMore
  <2>1. PICK l \in FrameLengths : ~HeaderIsThere(l) \/ l \in len + 1..BufferSize
    BY <1>10 DEF WaitForMore
  <2>2. len \in Nat /\ BufferSize \in Nat /\ BufferSize > 4
    BY Sizes DEF StreamInv, TypeOK
  <2>3. len < BufferSize
    BY <2>1, <2>2 DEF HeaderIsThere, Header
  <2> QED BY <1>10, <2>3, QuietStep DEF WaitForMore
<1>11. CASE UNCHANGED vars
  <2>1. UNCHANGED <<stream, slot>> /\ conns' = conns /\ pc' = pc
    BY <1>11 DEF vars
  <2>2. pc' = "epoll" => len < BufferSize
    BY <2>1 DEF StreamInv, RoomToRead
  <2> QED BY <2>1, <2>2, QuietStep
<1> QED
  BY <1>1, <1>2, <1>3, <1>4, <1>5, <1>6, <1>7, <1>8, <1>9, <1>10, <1>11 DEF Next, Server

\* The slot starts free, and the channel with nothing on it.
LEMMA InitStep ==
  ASSUME Init
  PROVE  StreamInv /\ Channel!Init /\ LossHasACause
<1>1. /\ ends \in Seq(Nat) /\ Len(ends) = 1 /\ ends[1] = Hello /\ DOMAIN ends = {1}
      /\ size \in Seq(Lengths) /\ Len(size) = 0 /\ DOMAIN size = {}
      /\ handled \in Seq(Nat) /\ handled = <<>> /\ size = <<>>
  BY Sizes DEF Init
<1>2. /\ conns = 0 /\ read = 0 /\ len = 0 /\ shaken = FALSE /\ pc = "free"
      /\ cut = FALSE /\ spoilt = FALSE /\ buffer = [i \in 1..BufferSize |-> Nul]
  BY DEF Init
<1>3. Total = Hello
  BY <1>1 DEF Total
<1>4. TypeOK
  <2>1. buffer \in [1..BufferSize -> Cells]
    BY <1>2 DEF Cells
  <2>2. /\ conns \in 0..MaxConns /\ read \in 0..Total /\ len \in 0..BufferSize /\ len <= read
        /\ Len(ends) = Len(size) + 1
    BY <1>1, <1>2, <1>3, Sizes
  <2> QED BY <1>1, <1>2, <2>1, <2>2 DEF TypeOK
<1>5. EndsInOrder
  BY <1>1 DEF EndsInOrder
<1>6. RoomToRead /\ HandshakeFirst /\ InStep /\ LossHasACause
  BY <1>1, <1>2 DEF RoomToRead, HandshakeFirst, InStep, LossHasACause
<1>7. Channel!Init
  BY <1>1, <1>2 DEF Channel!Init
<1> QED BY <1>4, <1>5, <1>6, <1>7 DEF StreamInv

--------------------------------------------------------------------------------
(* The theorems *)

\* The server never reads without room, and until bytes are lost it has handled
\* the first frames of the connection that has the slot, once each and in order.
THEOREM StreamInvariant == Spec => []StreamInv
<1>1. Init => StreamInv
  BY InitStep
<1>2. StreamInv /\ [Next]_vars => StreamInv'
  BY NextStep
<1> QED BY <1>1, <1>2, PTL DEF Spec

\* Whatever earlier connections left in the buffer, only a handshake that came
\* in pieces or a frame cut short by its sender loses anything.
THEOREM LossCaused == Spec => []LossHasACause
<1>1. Init => LossHasACause
  BY InitStep
<1>2. StreamInv /\ LossHasACause /\ [Next]_vars => LossHasACause'
  BY NextStep
<1> QED BY <1>1, <1>2, StreamInvariant, PTL DEF Spec

\* The server's side of a connection implements the frame channel, and the next
\* connection in the slot a new one.
THEOREM ImplementsChannel == Spec => KeepsTheChannel
<1>1. Init => Channel!Init
  BY InitStep
<1>2. StreamInv /\ [Next]_vars => [Channel!Next]_(Channel!vars)
  BY NextStep
<1> QED BY <1>1, <1>2, StreamInvariant, PTL DEF Spec, KeepsTheChannel, Channel!Spec
===============================================================================

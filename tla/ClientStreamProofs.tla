--------------------------- MODULE ClientStreamProofs ---------------------------
(***************************************************************************)
(* StreamInv holds in every reachable state of ClientStream, for any       *)
(* buffer, burst, frame lengths and socket buffer; and the receiving side  *)
(* of net_client.c implements FrameChannel.                                *)
(***************************************************************************)
EXTENDS ClientStream, TLAPS, SequenceTheorems

--------------------------------------------------------------------------------
(* Where frames end *)

\* What the sizes of SizesAssumption say of one length.
LEMMA Sizes ==
  /\ BufferSize \in Nat /\ Hello \in Nat \ {0} /\ Hello <= BufferSize
  /\ Burst \in Nat \ {0} /\ SockBuf \in Nat /\ Long \in Nat
  /\ \A l \in Lengths : l \in Nat /\ l >= 2
BY SizesAssumption

\* The bookkeeping of what was sent, as numbers.
LEMMA EndsFacts ==
  ASSUME TypeOK, EndsInOrder
  PROVE  /\ Len(size) \in Nat /\ DOMAIN size = 1..Len(size)
         /\ DOMAIN ends = 1..Len(size) + 1 /\ Total = ends[Len(size) + 1]
         /\ \A k \in 1..Len(size) + 1 : ends[k] \in Nat /\ ends[k] <= Total /\ Hello <= ends[k]
         /\ \A k \in 1..Len(size) : size[k] \in Lengths /\ size[k] \in Nat /\ size[k] >= 2
         /\ \A i, j \in 1..Len(size) + 1 : i < j => ends[i] < ends[j]
         /\ \A k \in 1..Len(size) : ends[k + 1] - ends[k] <= size[k]
         /\ Total \in Nat /\ start \in Nat /\ start <= read
<1>1. Len(size) \in Nat /\ Len(ends) = Len(size) + 1
  BY DEF TypeOK
<1>2. DOMAIN size = 1..Len(size) /\ DOMAIN ends = 1..Len(size) + 1
  BY <1>1, LenProperties DEF TypeOK
<1>3. \A k \in 1..Len(size) + 1 : ends[k] \in Nat
  BY <1>1, ElementOfSeq DEF TypeOK
<1>4. \A k \in 1..Len(size) : size[k] \in Lengths
  BY <1>1, ElementOfSeq DEF TypeOK
<1>5. Total = ends[Len(size) + 1]
  BY <1>1 DEF Total
<1>6. \A k \in 1..Len(size) + 1 : ends[k] <= Total /\ Hello <= ends[k]
  BY <1>1, <1>2, <1>3, <1>5 DEF EndsInOrder
<1>7. Total \in Nat
  BY <1>1, <1>3, <1>5
<1>8. start \in Nat /\ start <= read
  BY <1>7 DEF start, TypeOK
<1>9. /\ \A i, j \in 1..Len(size) + 1 : i < j => ends[i] < ends[j]
      /\ \A k \in 1..Len(size) : ends[k + 1] - ends[k] <= size[k]
  BY <1>2 DEF EndsInOrder
<1> QED BY <1>9, <1>1, <1>2, <1>3, <1>4, <1>5, <1>6, <1>7, <1>8, Sizes

\* No two frames begin at the same byte.
LEMMA FrameIsOne ==
  ASSUME TypeOK, EndsInOrder, NEW d \in Nat, d < Len(size), start = ends[d + 1]
  PROVE  Frame = {d + 1} /\ (CHOOSE k \in Frame : TRUE) = d + 1
<1>1. d + 1 \in DOMAIN size /\ d + 1 \in DOMAIN ends
  BY EndsFacts
<1>2. \A k \in DOMAIN size : ends[k] = start => k = d + 1
  BY <1>1, EndsFacts
<1>3. Frame = {d + 1}
  BY <1>1, <1>2 DEF Frame
<1> QED BY <1>3

\* One more frame of l bytes, n of which went out.
LEMMA EndsAppend ==
  ASSUME TypeOK, EndsInOrder, NEW l \in Lengths, NEW n \in Nat, n > 0, n <= l,
         ends' = Append(ends, Total + n), size' = Append(size, l)
  PROVE  /\ ends' \in Seq(Nat) /\ size' \in Seq(Lengths) /\ Len(ends') = Len(size') + 1
         /\ Len(size') = Len(size) + 1 /\ Total' = Total + n
         /\ DOMAIN size' = 1..Len(size) + 1
         /\ \A k \in 1..Len(size) + 1 : ends'[k] = ends[k]
         /\ \A k \in 1..Len(size) : size'[k] = size[k]
         /\ EndsInOrder'
<1>1. Total + n \in Nat
  BY EndsFacts
<1>2. /\ ends' \in Seq(Nat) /\ Len(ends') = Len(size) + 2
      /\ \A k \in 1..Len(size) + 1 : ends'[k] = ends[k]
      /\ ends'[Len(size) + 2] = Total + n
  BY <1>1, AppendProperties DEF TypeOK
<1>3. /\ size' \in Seq(Lengths) /\ Len(size') = Len(size) + 1
      /\ \A k \in 1..Len(size) : size'[k] = size[k]
      /\ size'[Len(size) + 1] = l
  BY AppendProperties DEF TypeOK
<1>4. Total' = Total + n
  BY <1>2 DEF Total
<1>5. DOMAIN size' = 1..Len(size) + 1 /\ DOMAIN ends' = 1..Len(size) + 2
  BY <1>2, <1>3, LenProperties
<1>6. EndsInOrder'
  <2>1. ends'[1] = Hello
    BY <1>2, EndsFacts DEF EndsInOrder
  <2>2. \A i, j \in 1..Len(size) + 2 : i < j => ends'[i] < ends'[j]
    BY <1>2, EndsFacts
  <2>3. \A k \in 1..Len(size) + 1 : ends'[k + 1] - ends'[k] <= size'[k]
    <3> SUFFICES ASSUME NEW k \in 1..Len(size) + 1
                 PROVE  ends'[k + 1] - ends'[k] <= size'[k]
      OBVIOUS
    <3>1. CASE k = Len(size) + 1
      <4>1. ends'[k + 1] = Total + n /\ ends'[k] = Total /\ size'[k] = l
        BY <3>1, <1>2, <1>3, EndsFacts
      <4>2. Total \in Nat /\ l \in Nat
        BY EndsFacts, Sizes
      <4>3. (Total + n) - Total <= l
        BY <4>2
      <4> QED BY <4>1, <4>3, Zenon
    <3>2. CASE k \in 1..Len(size)
      <4>1. ends'[k + 1] = ends[k + 1] /\ ends'[k] = ends[k] /\ size'[k] = size[k]
        <5>1. k \in 1..Len(size) + 1 /\ k + 1 \in 1..Len(size) + 1
          BY <3>2, EndsFacts
        <5> QED BY <3>2, <5>1, <1>2, <1>3, Zenon
      <4>2. ends[k + 1] - ends[k] <= size[k]
        BY <3>2, EndsFacts
      <4> QED BY <4>1, <4>2, Zenon
    <3> QED BY <3>1, <3>2, EndsFacts
  <2> QED BY <1>5, <2>1, <2>2, <2>3 DEF EndsInOrder
<1> QED BY <1>2, <1>3, <1>4, <1>5, <1>6

--------------------------------------------------------------------------------
(* The reader's place *)

\* The bytes that ws_parse_frame may take: none, or some of the buffer's.
LEMMA ConsumedType ==
  ASSUME TypeOK, EndsInOrder, NEW n \in Consumed
  PROVE  n \in {-1, -2} \/ (n \in Nat /\ 2 <= n /\ n <= len)
<1>1. len \in Nat
  BY EndsFacts DEF TypeOK
<1>2. CASE len < 2
  BY <1>2 DEF Consumed
<1>3. CASE len >= 2 /\ Frame \ Headless = {}
  BY <1>1, <1>3 DEF Consumed
<1>4. CASE len >= 2 /\ Frame \ Headless # {}
  <2>1. PICK k \in Frame : n = IF size[k] <= len THEN size[k] ELSE -2
    BY <1>1, <1>4 DEF Consumed
  <2>2. size[k] \in Nat /\ size[k] >= 2
    BY <2>1, EndsFacts DEF Frame
  <2> QED BY <2>1, <2>2, <1>1
<1> QED BY <1>1, <1>2, <1>3, <1>4

\* A step that reads nothing over the end of a torn frame and throws nothing
\* away leaves the client as it was, in step or not.
LEMMA SpoiltSame ==
  ASSUME UNCHANGED <<ends, size, cleared>>, start' = start
  PROVE  Spoilt' = Spoilt
BY DEF Spoilt, Torn

\* Bytes once lost stay lost.
LEMMA SpoiltStays ==
  ASSUME TypeOK, EndsInOrder, Spoilt, UNCHANGED <<ends, size>>, cleared => cleared',
         start' \in Int, start <= start'
  PROVE  Spoilt'
<1>1. CASE cleared
  BY <1>1 DEF Spoilt
<1>2. CASE \E k \in Torn : ends[k] < start
  <2>1. PICK k \in Torn : ends[k] < start
    BY <1>2
  <2>2. k \in Torn' /\ ends'[k] < start'
    BY <2>1, EndsFacts DEF Torn
  <2> QED BY <2>2 DEF Spoilt
<1> QED BY <1>1, <1>2 DEF Spoilt

\* One more frame handed to on_message.
LEMMA FirstFramesAppend ==
  ASSUME NEW d \in Nat
  PROVE  /\ FirstFrames(d) \in Seq(Nat) /\ Len(FirstFrames(d)) = d
         /\ Append(FirstFrames(d), d + 1) = FirstFrames(d + 1)
<1>1. \A m \in Nat : FirstFrames(m) \in Seq(Nat) /\ Len(FirstFrames(m)) = m
  BY DEF FirstFrames
<1>2. \A m \in Nat : \A i \in 1..m : FirstFrames(m)[i] = i
  BY DEF FirstFrames
<1>3. Append(FirstFrames(d), d + 1) \in Seq(Nat) /\ Len(Append(FirstFrames(d), d + 1)) = d + 1
  BY <1>1, AppendProperties
<1>4. \A i \in 1..d + 1 : Append(FirstFrames(d), d + 1)[i] = FirstFrames(d + 1)[i]
  BY <1>1, <1>2, AppendProperties
<1>5. Append(FirstFrames(d), d + 1) = FirstFrames(d + 1)
  BY <1>1, <1>3, <1>4, SeqEqual
<1> QED BY <1>1, <1>5
--------------------------------------------------------------------------------
(* The steps *)

\* The frames that went out in part, after one more was put on the stream.
LEMMA TornAppend ==
  ASSUME TypeOK, EndsInOrder, NEW l \in Lengths, NEW n \in Nat, n > 0, n <= l,
         ends' = Append(ends, Total + n), size' = Append(size, l)
  PROVE  Torn \subseteq Torn' /\ Torn' \subseteq Torn \union {Len(size) + 1}
<1>1. \A k \in 1..Len(size) : /\ ends'[k] = ends[k] /\ ends'[k + 1] = ends[k + 1]
                              /\ size'[k] = size[k]
  BY EndsAppend, EndsFacts
<1>2. DOMAIN size' = 1..Len(size) + 1 /\ DOMAIN size = 1..Len(size)
  BY EndsAppend, EndsFacts
<1>3. \A k \in 1..Len(size) + 1 : k = Len(size) + 1 \/ k \in 1..Len(size)
  BY EndsFacts
<1>4. \A k \in 1..Len(size) : k \in Torn' <=> k \in Torn
  BY <1>1, <1>2, EndsFacts DEF Torn
<1>5. Torn \subseteq 1..Len(size) /\ Torn' \subseteq 1..Len(size) + 1
  BY <1>2 DEF Torn
<1> QED BY <1>3, <1>4, <1>5

\* A send, whole or short.
LEMMA PutStep ==
  ASSUME StreamInv, NEW l \in Lengths, NEW n \in Nat, n <= l, Put(l, n)
  PROVE  StreamInv' /\ Channel!Put
<1> USE DEF StreamInv
<1>1. /\ n > 0 /\ ends' = Append(ends, Total + n) /\ size' = Append(size, l)
      /\ UNCHANGED <<eof, client>>
  BY DEF Put
<1>2. start' = start /\ len' = len /\ read' = read /\ delivered' = delivered
  BY <1>1 DEF client, start
<1>3. Spoilt' = Spoilt
  <2>1. Len(size) + 1 \in Torn' => ~(ends'[Len(size) + 1] < start')
    BY <1>1, <1>2, EndsAppend, EndsFacts DEF TypeOK
  <2>2. \A k \in Torn : ends'[k] = ends[k]
    BY <1>1, EndsAppend, EndsFacts DEF Torn
  <2>3. cleared' = cleared
    BY <1>1 DEF client
  <2> QED BY <1>1, <1>2, <2>1, <2>2, <2>3, TornAppend DEF Spoilt
<1>4. TypeOK'
  <2>1. read' \in 0..Total'
    <3>1. Total' = Total + n /\ Total \in Nat
      BY <1>1, EndsAppend, EndsFacts
    <3> QED BY <1>2, <3>1 DEF TypeOK
  <2> QED BY <1>1, <2>1, EndsAppend DEF TypeOK, client
<1>5. InStep'
  <2> SUFFICES ASSUME ~Spoilt
               PROVE  /\ delivered = FirstFrames(Len(delivered))
                      /\ Len(delivered) <= Len(size')
                      /\ \A k \in Torn' : Len(delivered) < k
                      /\ (shaken /\ pc # "closed") => start = ends'[Len(delivered) + 1]
                      /\ (~shaken /\ pc # "closed") => delivered = <<>> /\ start = 0
    BY <1>1, <1>2, <1>3 DEF InStep, client
  <2>1. Len(delivered) \in Nat
    BY LenProperties DEF TypeOK
  <2>2. Len(delivered) <= Len(size) /\ \A k \in Torn : Len(delivered) < k
    BY DEF InStep
  <2>3. ends'[Len(delivered) + 1] = ends[Len(delivered) + 1] /\ Len(size') = Len(size) + 1
    BY <1>1, <2>1, <2>2, EndsAppend, EndsFacts
  <2>4. \A k \in Torn' : Len(delivered) < k
    BY <1>1, <2>1, <2>2, TornAppend, EndsFacts
  <2> QED BY <2>1, <2>2, <2>3, <2>4, EndsFacts DEF InStep
<1>6. RoomToRead' /\ EndsInOrder' /\ BurstSound'
  BY <1>1, EndsAppend DEF RoomToRead, BurstSound, client
<1>7. Channel!Put
  BY <1>1, <1>2, <1>3, EndsAppend DEF Channel!Put
<1> QED BY <1>4, <1>5, <1>6, <1>7

\* A step that touches neither the stream nor the buffer.
LEMMA QuietStep ==
  ASSUME StreamInv, UNCHANGED <<ends, size, read, len, delivered, cleared>>,
         pc' = "closed" \/ (pc # "closed" /\ shaken' = shaken) \/ UNCHANGED <<pc, shaken>>
  PROVE  InStep' /\ EndsInOrder' /\ Spoilt' = Spoilt /\ UNCHANGED Channel!vars
<1>1. start' = start /\ Torn' = Torn
  BY DEF start, Torn
<1>2. Spoilt' = Spoilt
  BY <1>1, SpoiltSame
<1>3. InStep'
  BY <1>1, <1>2 DEF InStep, StreamInv
<1>4. EndsInOrder'
  BY DEF EndsInOrder, StreamInv
<1>5. UNCHANGED Channel!vars
  BY <1>2 DEF Channel!vars
<1> QED BY <1>2, <1>3, <1>4, <1>5

\* The buffer is emptied: bytes are lost.
LEMMA ClearStep ==
  ASSUME StreamInv, Clear, UNCHANGED <<ends, size>>
  PROVE  InStep' /\ EndsInOrder' /\ len' = 0 /\ delivered' = delivered /\ Channel!Lose
<1>1. cleared' /\ Spoilt' /\ len' = 0 /\ delivered' = delivered
  BY DEF Clear, Spoilt
<1>2. InStep' /\ EndsInOrder'
  BY <1>1 DEF InStep, StreamInv, EndsInOrder
<1>3. Channel!Lose
  BY <1>1 DEF Channel!Lose
<1> QED BY <1>1, <1>2, <1>3

\* One frame, or what is taken for one, is handed over.
LEMMA DeliverStep ==
  ASSUME StreamInv, shaken, shaken', pc # "closed", pc' # "closed", NEW n \in Consumed, n > 0,
         Deliver(n), UNCHANGED <<ends, size, read>>
  PROVE  /\ InStep' /\ EndsInOrder' /\ len' \in Nat /\ len' < len
         /\ delivered' \in Seq(Nat) /\ (Channel!HandNext \/ Channel!HandAny)
<1> USE DEF StreamInv
<1> DEFINE d == Len(delivered)
           x == IF Frame \ Torn = {} THEN 0 ELSE CHOOSE k \in Frame : TRUE
<1>1. n \in Nat /\ 2 <= n /\ n <= len /\ len \in Nat /\ read \in Nat
  BY ConsumedType, EndsFacts DEF TypeOK
<1>2. len' = len - n /\ start' = start + n /\ cleared' = cleared /\ delivered' = Append(delivered, x)
  BY <1>1 DEF Deliver, start
<1>3. x \in 0..Len(size)
  BY EndsFacts DEF Frame
<1>4. d \in Nat /\ delivered' \in Seq(Nat) /\ Len(delivered') = d + 1
  BY <1>2, <1>3, EndsFacts, AppendProperties, LenProperties DEF TypeOK
<1>5. Torn' = Torn /\ EndsInOrder'
  BY DEF Torn, EndsInOrder
<1>6. CASE Spoilt'
  <2>1. InStep'
    BY <1>6 DEF InStep
  <2>2. Channel!HandAny
    BY <1>2, <1>3, <1>6 DEF Channel!HandAny
  <2> QED BY <1>1, <1>2, <1>4, <1>5, <2>1, <2>2
<1>7. CASE ~Spoilt'
  <2>1. ~Spoilt
    BY <1>1, <1>2, <1>7, SpoiltStays, EndsFacts
  <2>2. /\ delivered = FirstFrames(d) /\ d <= Len(size) /\ start = ends[d + 1]
        /\ \A k \in Torn : d < k
    BY <2>1 DEF InStep
  <2>3. d < Len(size)
    <3>1. d = Len(size) => start = Total
      BY <2>2, EndsFacts
    <3> QED BY <1>1, <1>4, <2>2, <3>1, EndsFacts DEF start, TypeOK
  <2>4. Frame = {d + 1} /\ (CHOOSE k \in Frame : TRUE) = d + 1
    BY <1>4, <2>2, <2>3, FrameIsOne
  <2>5. d + 1 \notin Torn
    <3>1. d + 1 \in Torn => ends'[d + 1] < start'
      BY <1>1, <1>2, <1>4, <2>2, <2>3, EndsFacts
    <3> QED BY <1>5, <1>7, <3>1 DEF Spoilt
  <2>6. Frame \ Headless = {d + 1} /\ Frame \ Torn = {d + 1}
    BY <2>4, <2>5 DEF Headless
  <2>7. n = size[d + 1]
    <3>1. Consumed = {IF size[k] <= len THEN size[k] ELSE -2 : k \in Frame}
      BY <1>1, <2>6 DEF Consumed
    <3> QED BY <1>1, <2>4, <3>1
  <2>8. start' = ends'[d + 2]
    <3>1. d + 1 \in 1..Len(size) /\ d + 1 \in DOMAIN size /\ (d + 1) + 1 = d + 2
      BY <1>4, <2>3, EndsFacts
    <3>2. ends[d + 2] - ends[d + 1] <= size[d + 1]
      BY <3>1, EndsFacts
    <3>3. ~(ends[d + 2] - ends[d + 1] < size[d + 1])
      BY <2>5, <3>1 DEF Torn
    <3>4. ends[d + 2] \in Nat /\ ends[d + 1] \in Nat /\ size[d + 1] \in Nat
      BY <1>4, <2>3, <3>1, EndsFacts
    <3> QED BY <1>2, <2>2, <2>7, <3>2, <3>3, <3>4
  <2>9. x = d + 1 /\ delivered' = FirstFrames(d + 1)
    BY <1>2, <1>4, <2>2, <2>4, <2>6, FirstFramesAppend
  <2>10. \A k \in Torn' : d + 1 < k
    <3>1. \A k \in Torn : k \in Nat
      BY EndsFacts DEF Torn
    <3> QED BY <1>4, <1>5, <2>2, <2>5, <3>1
  <2>11. InStep'
    BY <1>4, <2>3, <2>8, <2>9, <2>10, EndsFacts DEF InStep
  <2>12. Channel!HandNext
    BY <1>2, <1>7, <2>1, <2>3, <2>9 DEF Channel!HandNext
  <2> QED BY <1>1, <1>2, <1>4, <1>5, <2>11, <2>12
<1> QED BY <1>6, <1>7
\* recv has returned n bytes: the handshake response is cut off when it is
\* complete, and the buffer still begins where the next frame does.
LEMMA RecvStep ==
  ASSUME StreamInv, NEW n \in 1..BufferSize, Recv(n)
  PROVE  StreamInv' /\ UNCHANGED Channel!vars
<1> USE DEF StreamInv
<1> DEFINE response == ~shaken /\ len + n >= Hello
           body == IF response THEN len + n - Hello ELSE len + n
<1>1. /\ pc = "recv" /\ n \in Nat /\ n >= 1 /\ n <= Total - read /\ n <= BufferSize - len
  <2>1. n \in 1..Least(Total - read, BufferSize - len) /\ pc = "recv"
    BY DEF Recv
  <2>2. Total - read \in Int /\ BufferSize - len \in Int
    BY EndsFacts, Sizes DEF TypeOK
  <2> QED BY <2>1, <2>2 DEF Least
<1>0. /\ read' = read + n /\ len' = body /\ shaken' = (shaken \/ len + n >= Hello)
      /\ pc' = (IF shaken' /\ body > 0 THEN "parse" ELSE "idle")
      /\ UNCHANGED <<ends, size, eof, processed, delivered, cleared>>
  BY DEF Recv, network
<1>2. /\ Total \in Nat /\ read \in Nat /\ len \in Nat /\ len <= read /\ Hello \in Nat \ {0}
      /\ BufferSize \in Nat /\ start = read - len /\ start \in Nat
  BY EndsFacts, Sizes DEF TypeOK, start
<1>3. body \in Nat /\ body <= len + n
  BY <1>0, <1>1, <1>2
<1>4. Torn' = Torn /\ Total' = Total
  BY <1>0 DEF Torn, Total
<1>5. start' = IF response THEN start + Hello ELSE start
  BY <1>0, <1>1, <1>2, <1>3 DEF start
<1>6. \A k \in Torn : ends[k] \in Nat /\ ends[k] >= Hello
  BY EndsFacts DEF Torn
<1>7. Spoilt' = Spoilt
  <2>1. CASE Spoilt
    BY <1>0, <1>1, <1>2, <1>5, <2>1, SpoiltStays DEF Spoilt
  <2>2. CASE ~Spoilt /\ ~shaken
    <3>1. start' <= Hello
      BY <1>0, <1>1, <1>2, <1>5, <2>2 DEF InStep
    <3>2. \A k \in Torn : ~(ends[k] < start')
      BY <1>2, <1>5, <1>6, <3>1
    <3> QED BY <1>0, <1>1, <1>4, <2>2, <3>2 DEF Spoilt
  <2>3. CASE ~Spoilt /\ shaken
    BY <1>0, <1>1, <1>5, <2>3, SpoiltSame
  <2> QED BY <2>1, <2>2, <2>3
<1>8. TypeOK'
  BY <1>0, <1>1, <1>2, <1>3, <1>4 DEF TypeOK
<1>9. RoomToRead'
  BY <1>0, <1>1, <1>2, <1>3 DEF RoomToRead
<1>10. InStep'
  <2> SUFFICES ASSUME ~Spoilt
               PROVE  /\ delivered = FirstFrames(Len(delivered))
                      /\ Len(delivered) <= Len(size)
                      /\ \A k \in Torn : Len(delivered) < k
                      /\ shaken' => start' = ends[Len(delivered) + 1]
                      /\ ~shaken' => delivered = <<>> /\ start' = 0
    BY <1>0, <1>1, <1>4, <1>7 DEF InStep
  <2>1. /\ delivered = FirstFrames(Len(delivered)) /\ Len(delivered) <= Len(size)
        /\ \A k \in Torn : Len(delivered) < k
    BY DEF InStep
  <2>2. CASE shaken
    BY <1>0, <1>1, <1>5, <2>1, <2>2 DEF InStep
  <2>3. CASE ~shaken
    <3>1. delivered = <<>> /\ start = 0 /\ Len(delivered) + 1 = 1
      BY <1>0, <1>1, <2>3 DEF InStep
    <3>2. start' = (IF len + n >= Hello THEN Hello ELSE 0) /\ ends[1] = Hello
      BY <1>2, <1>5, <2>3, <3>1 DEF EndsInOrder
    <3> QED BY <1>0, <1>1, <2>1, <2>3, <3>1, <3>2
  <2> QED BY <2>2, <2>3
<1>11. EndsInOrder' /\ BurstSound'
  BY <1>0, <1>1, Sizes DEF EndsInOrder, BurstSound
<1>12. UNCHANGED Channel!vars
  BY <1>0, <1>1, <1>7 DEF Channel!vars
<1> QED BY <1>8, <1>9, <1>10, <1>11, <1>12

\* A full buffer gives up one frame or everything.
LEMMA MakeRoomStep ==
  ASSUME StreamInv, MakeRoom
  PROVE  StreamInv' /\ (Channel!HandNext \/ Channel!HandAny \/ Channel!Lose)
<1> USE DEF StreamInv
<1>1. PICK n \in Consumed : IF shaken /\ n > 0 THEN Deliver(n) ELSE Clear
  BY DEF MakeRoom
<1>2. pc = "full" /\ pc' = "recv" /\ UNCHANGED <<ends, size, eof, read, shaken, processed>>
  BY DEF MakeRoom, network
<1>3. /\ InStep' /\ EndsInOrder' /\ len' \in Nat /\ len' <= len /\ len' < BufferSize
      /\ delivered' \in Seq(Nat) /\ cleared' \in BOOLEAN
      /\ (Channel!HandNext \/ Channel!HandAny \/ Channel!Lose)
  <2>1. CASE shaken /\ n > 0
    <3>1. Deliver(n) /\ cleared' = cleared
      BY <1>1, <2>1 DEF Deliver
    <3> QED BY <1>2, <2>1, <3>1, DeliverStep, EndsFacts, Sizes DEF TypeOK, RoomToRead
  <2>2. CASE ~(shaken /\ n > 0)
    <3>1. Clear /\ cleared' = TRUE
      BY <1>1, <2>2 DEF Clear
    <3> QED BY <1>2, <3>1, ClearStep, EndsFacts, Sizes DEF TypeOK
  <2> QED BY <2>1, <2>2
<1>4. Total' = Total
  BY <1>2 DEF Total
<1>5. TypeOK'
  BY <1>2, <1>3, <1>4, EndsFacts DEF TypeOK
<1>6. RoomToRead' /\ BurstSound'
  BY <1>2, <1>3, Sizes DEF RoomToRead, BurstSound
<1> QED BY <1>3, <1>5, <1>6

\* One turn of the loop over the frames.
LEMMA ParseFrameStep ==
  ASSUME StreamInv, ParseFrame
  PROVE  StreamInv' /\ (Channel!HandNext \/ Channel!HandAny)
<1> USE DEF StreamInv
<1>1. PICK n \in Consumed :
        /\ n > 0 /\ Deliver(n) /\ processed' = processed + 1
        /\ pc' = IF len' > 0 /\ processed' < Burst THEN "parse" ELSE "idle"
  BY DEF ParseFrame
<1>2. pc = "parse" /\ UNCHANGED <<ends, size, eof, read, shaken>> /\ cleared' = cleared
  BY <1>1 DEF ParseFrame, network, Deliver
<1>3. processed \in Nat /\ processed < Burst /\ len <= BufferSize
  BY <1>2, Sizes DEF TypeOK, BurstSound, RoomToRead
<1>4. shaken
  BY <1>2 DEF BurstSound
<1>5. /\ InStep' /\ EndsInOrder' /\ len' \in Nat /\ len' < len /\ delivered' \in Seq(Nat)
      /\ (Channel!HandNext \/ Channel!HandAny)
  BY <1>1, <1>2, <1>4, DeliverStep
<1>6. Total' = Total
  BY <1>2 DEF Total
<1>7. TypeOK'
  BY <1>1, <1>2, <1>3, <1>5, <1>6, EndsFacts, Sizes DEF TypeOK
<1>8. RoomToRead' /\ BurstSound'
  BY <1>1, <1>2, <1>3, <1>4, <1>5, EndsFacts, Sizes DEF TypeOK, RoomToRead, BurstSound
<1> QED BY <1>5, <1>7, <1>8
\* Every step keeps the invariant and is a step of the channel.
LEMMA NextStep ==
  ASSUME StreamInv, [Next]_vars
  PROVE  StreamInv' /\ [Channel!Next]_(Channel!vars)
<1> USE DEF StreamInv
<1>1. ASSUME NEW l \in Lengths, Broadcast(l) \/ Reply(l)
      PROVE  StreamInv' /\ Channel!Put
  <2>1. Room \in Nat /\ l \in Nat
    BY EndsFacts, Sizes DEF Room, TypeOK
  <2>2. PICK n \in Nat : n <= l /\ Put(l, n)
    <3>1. CASE Broadcast(l)
      BY <2>1, <3>1 DEF Broadcast, Least
    <3>2. CASE Reply(l)
      BY <2>1, <3>2 DEF Reply, Least
    <3> QED BY <1>1, <3>1, <3>2
  <2> QED BY <2>2, PutStep
<1>2. CASE ServerCloses
  <2>1. UNCHANGED <<ends, size, read, len, delivered, cleared, pc, shaken, processed>> /\ eof' = TRUE
    BY <1>2 DEF ServerCloses, client
  <2> QED BY <2>1, QuietStep DEF TypeOK, Total, RoomToRead, BurstSound
<1>3. CASE Callback
  <2>1. /\ UNCHANGED <<ends, size, eof, read, len, delivered, cleared, shaken>>
        /\ pc = "idle" /\ pc' = (IF len = BufferSize THEN "full" ELSE "recv") /\ processed' = 0
    BY <1>3 DEF Callback, network
  <2>2. TypeOK' /\ BurstSound'
    BY <2>1, Sizes DEF TypeOK, Total, BurstSound
  <2>3. RoomToRead'
    BY <2>1, EndsFacts, Sizes DEF TypeOK, RoomToRead
  <2> QED BY <2>1, <2>2, <2>3, QuietStep
<1>4. CASE HangUp \/ RecvEnd
  <2>1. /\ UNCHANGED <<ends, size, eof, read, len, delivered, cleared, processed>>
        /\ pc' = "closed" /\ shaken' = FALSE
    BY <1>4 DEF HangUp, RecvEnd, network
  <2> QED BY <2>1, QuietStep DEF TypeOK, Total, RoomToRead, BurstSound
<1>5. CASE MakeRoom
  BY <1>5, MakeRoomStep DEF Channel!Next
<1>6. ASSUME NEW n \in 1..BufferSize, Recv(n)
      PROVE  StreamInv' /\ UNCHANGED Channel!vars
  BY <1>6, RecvStep
<1>7. CASE ParseFrame
  BY <1>7, ParseFrameStep DEF Channel!Next
<1>8. CASE ParseWaits
  <2>1. /\ UNCHANGED <<ends, size, eof, read, len, delivered, cleared, shaken, processed>>
        /\ pc = "parse" /\ pc' = "idle"
    BY <1>8 DEF ParseWaits, network
  <2> QED BY <2>1, QuietStep DEF TypeOK, Total, RoomToRead, BurstSound
<1>9. CASE ParseFails
  <2>1. /\ UNCHANGED <<ends, size, eof, read, shaken, processed>> /\ Clear /\ cleared' = TRUE
        /\ pc = "parse" /\ pc' = "idle"
    BY <1>9 DEF ParseFails, network, Clear
  <2>2. /\ InStep' /\ EndsInOrder' /\ len' = 0 /\ delivered' = delivered /\ Channel!Lose
    BY <2>1, ClearStep
  <2>3. TypeOK' /\ RoomToRead' /\ BurstSound'
    BY <2>1, <2>2, EndsFacts, Sizes DEF TypeOK, Total, RoomToRead, BurstSound
  <2> QED BY <2>2, <2>3 DEF Channel!Next
<1>10. CASE UNCHANGED vars
  <2>1. UNCHANGED <<ends, size, eof, read, len, delivered, cleared, pc, shaken, processed>>
    BY <1>10 DEF vars, network, client
  <2> QED BY <2>1, QuietStep DEF TypeOK, Total, RoomToRead, BurstSound
<1> QED
  BY <1>1, <1>2, <1>3, <1>4, <1>5, <1>6, <1>7, <1>8, <1>9, <1>10
  DEF Next, Network, Client, Channel!Next

\* The connection starts in step, and so does the channel.
LEMMA InitStep ==
  ASSUME Init
  PROVE  StreamInv /\ Channel!Init
<1> USE Sizes DEF Init
<1>1. ends \in Seq(Nat) /\ Len(ends) = 1 /\ ends[1] = Hello /\ DOMAIN ends = {1}
  OBVIOUS
<1>2. size \in Seq(Lengths) /\ Len(size) = 0 /\ DOMAIN size = {}
  OBVIOUS
<1>3. Torn = {} /\ ~Spoilt /\ start = 0 /\ Total = Hello
  BY <1>1, <1>2 DEF Torn, Spoilt, start, Total
<1>4. delivered = FirstFrames(Len(delivered)) /\ Len(delivered) = 0 /\ delivered \in Seq(Nat)
  BY DEF FirstFrames
<1>5. TypeOK /\ RoomToRead /\ EndsInOrder /\ BurstSound
  <2>1. TypeOK
    <3>0. 0 + 1 = 1
      OBVIOUS
    <3>1. ends \in Seq(Nat) /\ size \in Seq(Lengths) /\ Len(ends) = Len(size) + 1
      BY <1>1, <1>2, <3>0, Zenon
    <3>2. read \in 0..Total /\ len \in 0..read /\ processed \in 0..Burst
      BY <1>3
    <3>3. eof \in BOOLEAN /\ shaken \in BOOLEAN /\ cleared \in BOOLEAN /\ pc = "idle"
      OBVIOUS
    <3> QED BY <3>1, <3>2, <3>3, <1>4 DEF TypeOK
  <2>2. RoomToRead /\ BurstSound
    BY DEF RoomToRead, BurstSound
  <2>3. EndsInOrder
    BY <1>1, <1>2 DEF EndsInOrder
  <2> QED BY <2>1, <2>2, <2>3
<1>6. InStep
  BY <1>1, <1>2, <1>3, <1>4 DEF InStep
<1>7. Channel!Init
  BY <1>2, <1>3 DEF Channel!Init
<1> QED BY <1>5, <1>6, <1>7 DEF StreamInv

--------------------------------------------------------------------------------
(* The theorems *)

\* net_client.c never calls recv without room, and until it loses bytes it has
\* handed over the first frames, once each and in order: for every buffer,
\* burst and way to cut the stream.
THEOREM StreamInvariant == Spec => []StreamInv
<1>1. Init => StreamInv
  BY InitStep
<1>2. StreamInv /\ [Next]_vars => StreamInv'
  BY NextStep
<1> QED BY <1>1, <1>2, PTL DEF Spec

\* The receiving side of net_client.c implements the frame channel.
THEOREM ImplementsChannel == Spec => KeepsTheChannel
<1>1. Init => Channel!Init
  BY InitStep
<1>2. StreamInv /\ [Next]_vars => [Channel!Next]_(Channel!vars)
  BY NextStep
<1> QED BY <1>1, <1>2, StreamInvariant, PTL DEF Spec, KeepsTheChannel, Channel!Spec
===============================================================================

----------------------------- MODULE FramingProofs -----------------------------
(***************************************************************************)
(* The formats of Framing and Sha1, for every input: each writer's header  *)
(* is read back by both readers, a message reaches SHA1Transform as its    *)
(* padded blocks, the digest of those blocks is the one of FIPS 180, and   *)
(* both base64 encoders write the six bits that RFC 4648 asks for.         *)
(***************************************************************************)
EXTENDS ServerStream, TLAPS, SequenceTheorems, WellFoundedInduction

--------------------------------------------------------------------------------
(* Headers *)

Lens == {n \in Nat : n <= 2147483647}
Octet == 0..255

LEMMA OctetFacts == \A x : x \in Octet <=> x \in Nat /\ x <= 255
BY DEF Octet

\* The four bytes of a length put together again, and the two of a short one.
LEMMA BytesTogether ==
  ASSUME NEW n \in Lens
  PROVE  /\ \A k \in 0..3 : Byte(n, k) \in Octet
         /\ Byte(n, 4) = 0 /\ Byte(n, 5) = 0 /\ Byte(n, 6) = 0 /\ Byte(n, 7) = 0
         /\ ((Byte(n, 3) * 256 + Byte(n, 2)) * 256 + Byte(n, 1)) * 256 + Byte(n, 0) = n
         /\ n < 65536 => Byte(n, 1) * 256 + Byte(n, 0) = n
<1>0. n \in Nat /\ n <= 2147483647
  BY DEF Lens
<1>1. PICK q0 \in Nat, r0 \in Nat : r0 <= 255 /\ n = q0 * 256 + r0 /\ n \div 256 = q0 /\ n % 256 = r0
  BY <1>0, SMT
<1>2. n \div 65536 = q0 \div 256 /\ n \div 16777216 = q0 \div 65536 /\ q0 <= 8388607
  BY <1>0, <1>1, SMT
<1>3. PICK q1 \in Nat, r1 \in Nat : r1 <= 255 /\ q0 = q1 * 256 + r1 /\ q0 \div 256 = q1 /\ q0 % 256 = r1
  BY SMT
<1>4. q0 \div 65536 = q1 \div 256 /\ q1 <= 32767
  BY <1>2, <1>3, SMT
<1>5. PICK q2 \in Nat, r2 \in Nat :
        q2 <= 127 /\ r2 <= 255 /\ q1 = q2 * 256 + r2 /\ q1 \div 256 = q2 /\ q1 % 256 = r2
  BY <1>4, SMT
<1>6. q2 % 256 = q2
  BY <1>5, SMT
<1>7. Weight[1] = 1 /\ Weight[2] = 256 /\ Weight[3] = 65536 /\ Weight[4] = 16777216
  BY SMT DEF Weight
<1>8. n \div 1 = n
  BY <1>0, SMT
<1>9. Byte(n, 0) = r0 /\ Byte(n, 1) = r1 /\ Byte(n, 2) = r2 /\ Byte(n, 3) = q2
  BY <1>1, <1>2, <1>3, <1>4, <1>5, <1>6, <1>7, <1>8, SMT DEF Byte
<1>10. Byte(n, 4) = 0 /\ Byte(n, 5) = 0 /\ Byte(n, 6) = 0 /\ Byte(n, 7) = 0
  BY SMT DEF Byte
<1>11. n < 65536 => q1 = 0
  BY <1>1, <1>3, SMT
<1>12. \A k \in 0..3 : k = 0 \/ k = 1 \/ k = 2 \/ k = 3
  OBVIOUS
<1>13. \A k \in 0..3 : Byte(n, k) \in Octet
  BY <1>1, <1>3, <1>5, <1>9, <1>12, OctetFacts
<1> QED BY <1>1, <1>3, <1>5, <1>9, <1>10, <1>11, <1>13, SMT

\* The three forms of a length.
LEMMA LengthForms ==
  ASSUME NEW n \in Lens, NEW f, f = LengthField(n)
  PROVE  /\ f \in Seq(Octet) /\ f # <<>> /\ f[1] \in Nat /\ f[1] <= 127
         /\ f[1] < 126 => Len(f) = 1 /\ f[1] = n
         /\ f[1] = 126 => Len(f) = 3 /\ Shifted(f[2], f[3]) = n
         /\ f[1] = 127 =>
              /\ Len(f) = 9
              /\ Shifted(Shifted(Shifted(Shifted(Shifted(Shifted(Shifted(f[2],
                   f[3]), f[4]), f[5]), f[6]), f[7]), f[8]), f[9]) = n
<1>1. n \in Nat
  BY DEF Lens
<1>2. /\ Byte(n, 0) \in Octet /\ Byte(n, 1) \in Octet
      /\ Byte(n, 2) \in Octet /\ Byte(n, 3) \in Octet
      /\ Byte(n, 4) = 0 /\ Byte(n, 5) = 0 /\ Byte(n, 6) = 0 /\ Byte(n, 7) = 0
      /\ ((Byte(n, 3) * 256 + Byte(n, 2)) * 256 + Byte(n, 1)) * 256 + Byte(n, 0) = n
      /\ n < 65536 => Byte(n, 1) * 256 + Byte(n, 0) = n
  BY BytesTogether
<1>3. 126 \in Octet /\ 127 \in Octet /\ 0 \in Octet
  BY OctetFacts
<1>4. CASE n < 126
  <2>1. f = <<n>> /\ n \in Octet BY <1>1, <1>4, OctetFacts DEF LengthField
  <2> QED BY <1>1, <1>4, <2>1
<1>5. CASE ~ (n < 126) /\ n < 65536
  <2>1. PICK x \in Octet, y \in Octet : x = Byte(n, 1) /\ y = Byte(n, 0) BY <1>2
  <2>2. f = <<126, x, y>> BY <1>5, <2>1, SMT DEF LengthField
  <2>3. x * 256 + y = n BY <1>2, <1>5, <2>1
  <2>4. /\ f[1] = 126 /\ f[2] = x /\ f[3] = y
        /\ Len(f) = 3 /\ f \in Seq(Octet) /\ f # <<>>
    BY <1>3, <2>2
  <2> QED BY <2>3, <2>4 DEF Shifted
<1>6. CASE ~ (n < 126) /\ ~ (n < 65536)
  <2>1. PICK w \in Octet, x \in Octet, y \in Octet, z \in Octet :
          w = Byte(n, 3) /\ x = Byte(n, 2) /\ y = Byte(n, 1) /\ z = Byte(n, 0)
    BY <1>2
  <2>2. f = <<127, 0, 0, 0, 0, w, x, y, z>> BY <1>2, <1>6, <2>1, SMT DEF LengthField
  <2>3. ((w * 256 + x) * 256 + y) * 256 + z = n BY <1>2, <2>1
  <2>4. /\ f[1] = 127 /\ f[2] = 0 /\ f[3] = 0 /\ f[4] = 0 /\ f[5] = 0 /\ f[6] = w /\ f[7] = x
        /\ f[8] = y /\ f[9] = z /\ Len(f) = 9 /\ f \in Seq(Octet) /\ f # <<>>
    BY <1>3, <2>2
  <2>5. Shifted(Shifted(Shifted(0, 0), 0), 0) = 0 BY DEF Shifted
  <2>6. Shifted(Shifted(Shifted(Shifted(0, w), x), y), z) = n BY <2>3, OctetFacts DEF Shifted
  <2> QED BY <2>4, <2>5, <2>6
<1> QED BY <1>4, <1>5, <1>6

\* What a reader finds in a whole header: the length, and where it ends.
WholeHeader(b, n) ==
  /\ b \in Seq(Octet) /\ Len(b) >= 2 + Extra(b)
  /\ Start(b) = Len(b) /\ Payload(b) = n /\ Extra(b) \in {0, 2, 8}

\* A header is a byte, the length with or without the mask bit, and the mask.
LEMMA HeaderOf ==
  ASSUME NEW n \in Lens, NEW f, f = LengthField(n), NEW m \in {0, 4},
         NEW b \in Seq(Octet), Len(b) = 1 + Len(f) + m,
         b[2] = (IF m = 4 THEN 128 + f[1] ELSE f[1]),
         \A i \in 2..Len(f) : b[i + 1] = f[i]
  PROVE  WholeHeader(b, n)
<1>1. f \in Seq(Octet) /\ f[1] \in Nat /\ f[1] <= 127 /\ Len(f) \in Nat
  BY LengthForms
<1>2. Short(b) = f[1] /\ (Masked(b) <=> m = 4)
  <2>1. PICK x \in Nat : x = f[1] /\ x <= 127 BY <1>1
  <2>2. x % 128 = x /\ (128 + x) % 128 = x BY <2>1, SMT
  <2>3. CASE m = 4 BY <2>1, <2>2, <2>3 DEF Short, Masked
  <2>4. CASE m = 0 BY <2>1, <2>2, <2>4 DEF Short, Masked
  <2> QED BY <2>3, <2>4
<1>3. f[1] < 126 \/ f[1] = 126 \/ f[1] = 127
  BY <1>1
<1>4. CASE f[1] < 126
  <2>1. Len(f) = 1 /\ f[1] = n BY <1>4, LengthForms
  <2>2. Extra(b) = 0 /\ Payload(b) = n BY <1>2, <1>4, <2>1, <1>1 DEF Extra, Payload
  <2> QED BY <1>2, <2>1, <2>2 DEF Start, WholeHeader
<1>5. CASE f[1] = 126
  <2>1. Len(f) = 3 /\ Shifted(f[2], f[3]) = n BY <1>5, LengthForms
  <2>2. 2 \in 2..3 /\ 3 \in 2..3 /\ 2 + 1 = 3 /\ 3 + 1 = 4 OBVIOUS
  <2>3. b[3] = f[2] /\ b[4] = f[3] BY <2>1, <2>2
  <2>4. Extra(b) = 2 /\ Payload(b) = n BY <1>2, <1>5, <2>1, <2>3 DEF Extra, Payload
  <2> QED BY <1>2, <2>1, <2>4 DEF Start, WholeHeader
<1>6. CASE f[1] = 127
  <2>1. /\ Len(f) = 9
        /\ Shifted(Shifted(Shifted(Shifted(Shifted(Shifted(Shifted(f[2],
             f[3]), f[4]), f[5]), f[6]), f[7]), f[8]), f[9]) = n
    BY <1>6, LengthForms
  <2>2. /\ b[3] = f[2] /\ b[4] = f[3] /\ b[5] = f[4] /\ b[6] = f[5] /\ b[7] = f[6]
        /\ b[8] = f[7] /\ b[9] = f[8] /\ b[10] = f[9]
    BY <2>1
  <2>3. Extra(b) = 8 BY <1>2, <1>6 DEF Extra
  <2>4. Payload(b) = n BY <1>2, <1>6, <2>1, <2>2 DEF Payload
  <2> QED BY <1>2, <2>1, <2>3, <2>4 DEF Start, WholeHeader
<1> QED BY <1>3, <1>4, <1>5, <1>6

LEMMA BuiltHeader == ASSUME NEW n \in Lens PROVE WholeHeader(BuildHeader(n), n)
<1>1. PICK f : f = LengthField(n) OBVIOUS
<1>2. PICK b : b = BuildHeader(n) OBVIOUS
<1>3. f \in Seq(Octet) /\ f # <<>> /\ 129 \in Octet
  BY <1>1, LengthForms, OctetFacts
<1>4. b = <<129>> \o f
  BY <1>1, <1>2 DEF BuildHeader
<1>5. b \in Seq(Octet) /\ Len(b) = 1 + Len(f) /\ \A i \in 1..Len(f) : b[i + 1] = f[i]
  BY <1>3, <1>4
<1>6. b[2] = f[1]
  BY <1>3, <1>5
<1> QED BY <1>1, <1>2, <1>5, <1>6, HeaderOf

LEMMA Concat ==
  ASSUME NEW S, NEW s \in Seq(S), NEW t \in Seq(S)
  PROVE  /\ s \o t \in Seq(S) /\ Len(s \o t) = Len(s) + Len(t)
         /\ Len(s) \in Nat /\ Len(t) \in Nat
         /\ \A i \in 1..Len(s) : (s \o t)[i] = s[i]
         /\ \A i \in 1..Len(t) : (s \o t)[Len(s) + i] = t[i]
OBVIOUS

LEMMA SentHeader ==
  ASSUME NEW n \in Lens, NEW mask \in Seq(Octet), Len(mask) = 4
  PROVE  WholeHeader(SendHeader(n, mask), n)
<1>1. PICK f : f = LengthField(n) OBVIOUS
<1>2. PICK b : b = SendHeader(n, mask) OBVIOUS
<1>3. /\ f \in Seq(Octet) /\ f # <<>> /\ f[1] \in Nat /\ f[1] <= 127
      /\ 129 \in Octet /\ 128 + f[1] \in Octet
  <2>1. f \in Seq(Octet) /\ f # <<>> /\ f[1] \in Nat /\ f[1] <= 127 BY <1>1, LengthForms
  <2>2. 128 + f[1] \in Nat /\ 128 + f[1] <= 255 BY <2>1
  <2>3. 129 \in Octet BY OctetFacts
  <2>4. 128 + f[1] \in Octet BY <2>2, OctetFacts
  <2> QED BY <2>1, <2>3, <2>4
<1>4. PICK h : h = <<129, 128 + f[1]>> OBVIOUS
<1>5. h \in Seq(Octet) /\ Len(h) = 2 /\ h[2] = 128 + f[1]
  BY <1>3, <1>4
<1>6. PICK t : t = Tail(f) OBVIOUS
<1>7. /\ t \in Seq(Octet) /\ Len(t) = Len(f) - 1 /\ Len(f) \in Nat \ {0}
      /\ \A i \in 2..Len(f) : i - 1 \in 1..(Len(f) - 1) /\ t[i - 1] = f[i]
  BY <1>3, <1>6
<1>8. b = (h \o t) \o mask
  BY <1>1, <1>2, <1>4, <1>6 DEF SendHeader
<1>9. PICK g : g = h \o t OBVIOUS
<1>10. /\ g \in Seq(Octet) /\ Len(g) = Len(f) + 1 /\ g[2] = 128 + f[1]
       /\ \A j \in 1..(Len(f) - 1) : g[j + 2] = t[j]
  <2>1. /\ g \in Seq(Octet) /\ Len(g) = 2 + Len(t)
        /\ \A i \in 1..2 : g[i] = h[i]
        /\ \A i \in 1..Len(t) : g[2 + i] = t[i]
    <3>1. /\ h \o t \in Seq(Octet) /\ Len(h \o t) = Len(h) + Len(t)
          /\ \A i \in 1..Len(h) : (h \o t)[i] = h[i]
          /\ \A i \in 1..Len(t) : (h \o t)[Len(h) + i] = t[i]
      <4>1. h \in Seq(Octet) /\ t \in Seq(Octet) BY <1>5, <1>7
      <4> QED BY <4>1, Concat
    <3> QED BY <1>5, <1>9, <3>1
  <2>2. \A j \in 1..(Len(f) - 1) : j \in 1..Len(t) /\ j + 2 = 2 + j BY <1>7
  <2> QED BY <1>5, <1>7, <2>1, <2>2
<1>11. \A i \in 2..Len(f) : g[i + 1] = f[i]
  <2>1. ASSUME NEW i \in 2..Len(f) PROVE g[i + 1] = f[i]
    <3>1. i - 1 \in 1..(Len(f) - 1) /\ (i - 1) + 2 = i + 1 /\ t[i - 1] = f[i] BY <1>7
    <3> QED BY <1>10, <3>1
  <2> QED BY <2>1
<1>12. /\ b \in Seq(Octet) /\ Len(b) = 1 + Len(f) + 4
       /\ \A j \in 1..(Len(f) + 1) : b[j] = g[j]
  <2>1. /\ g \o mask \in Seq(Octet) /\ Len(g \o mask) = Len(g) + Len(mask)
        /\ \A i \in 1..Len(g) : (g \o mask)[i] = g[i]
    <3>1. g \in Seq(Octet) BY <1>10
    <3> QED BY <3>1, Concat
  <2> QED BY <1>7, <1>8, <1>9, <1>10, <2>1
<1>13. b[2] = 128 + f[1] /\ \A i \in 2..Len(f) : b[i + 1] = f[i]
  <2>1. 2 \in 1..(Len(f) + 1) /\ \A i \in 2..Len(f) : i + 1 \in 1..(Len(f) + 1)
    BY <1>7
  <2> QED BY <1>10, <1>11, <1>12, <2>1
<1> QED BY <1>1, <1>2, <1>12, <1>13, HeaderOf

\* ws_handshake.c 241-305, server.c 505-541: of a frame of which p bytes have
\* come, whatever is behind them, each reader decides alike and rightly.
LEMMA Readers ==
  ASSUME NEW n \in Nat, NEW b, WholeHeader(b, n), NEW p \in Nat, NEW room \in Int,
         NEW s, \A i \in 1..Len(b) : i <= p => s[i] = b[i]
  PROVE  ReadsFrame(b, n, p, s, room)
<1>1. /\ Len(b) \in Nat /\ Extra(b) \in {0, 2, 8} /\ Len(b) >= 2 + Extra(b)
      /\ Start(b) = Len(b) /\ Payload(b) = n
  BY DEF WholeHeader
<1>2. CASE p < 2
  BY <1>1, <1>2 DEF ReadsFrame, ParseFrame, ServerParse
<1>3. CASE ~ (p < 2)
  <2>1. s[2] = b[2]
    BY <1>1, <1>3
  <2>2. Short(s) = Short(b) /\ Masked(s) = Masked(b)
    BY <2>1 DEF Short, Masked
  <2>3. Extra(s) = Extra(b) /\ Start(s) = Start(b)
    BY <2>2 DEF Extra, Start
  <2>4. CASE p < 2 + Extra(b)
    BY <1>1, <1>3, <2>3, <2>4 DEF ReadsFrame, ParseFrame, ServerParse
  <2>5. CASE ~ (p < 2 + Extra(b))
    <3>1. \A i \in 1..(2 + Extra(b)) : s[i] = b[i]
      BY <1>1, <2>5
    <3>2. Payload(s) = Payload(b)
      <4>1. CASE Short(b) = 126
        <5>1. Extra(b) = 2 BY <4>1 DEF Extra
        <5>2. s[3] = b[3] /\ s[4] = b[4] BY <3>1, <5>1
        <5> QED BY <2>2, <4>1, <5>2 DEF Payload
      <4>2. CASE Short(b) = 127
        <5>1. Extra(b) = 8 BY <4>2 DEF Extra
        <5>2. /\ s[3] = b[3] /\ s[4] = b[4] /\ s[5] = b[5] /\ s[6] = b[6] /\ s[7] = b[7]
              /\ s[8] = b[8] /\ s[9] = b[9] /\ s[10] = b[10]
          BY <3>1, <5>1
        <5> QED BY <2>2, <4>2, <5>2 DEF Payload
      <4>3. CASE Short(b) # 126 /\ Short(b) # 127 BY <2>2, <4>3 DEF Payload
      <4> QED BY <4>1, <4>2, <4>3
    <3> QED BY <1>1, <1>3, <2>3, <2>5, <3>2 DEF ReadsFrame, ParseFrame, ServerParse
  <2> QED BY <2>4, <2>5
<1> QED BY <1>2, <1>3

\* Every length below 2^31, every mask, every number of bytes received and
\* whatever is behind them, both readers and every room of the buffer.
THEOREM EveryFrameParses ==
  ASSUME NEW n \in Lens, NEW mask \in Seq(Octet), Len(mask) = 4,
         NEW b \in {BuildHeader(n), SendHeader(n, mask)},
         NEW p \in Nat, NEW room \in Int, NEW s, \A i \in 1..Len(b) : i <= p => s[i] = b[i]
  PROVE  ReadsFrame(b, n, p, s, room)
<1>1. WholeHeader(b, n)
  BY BuiltHeader, SentHeader
<1>2. n \in Nat
  BY DEF Lens
<1> QED BY <1>1, <1>2, Readers

\* ws_handshake.c 204-241, 243-301 and server.c's frame loop: so the headers of
\* any instance are read back as they were written.
THEOREM FramesReadBack == Spec => []FramesParseAtStart
<1>1. ASSUME NEW n \in PayloadLengths, NEW junk \in Octets, NEW b \in Headers(n), NEW p \in Nat,
             NEW room \in Int
      PROVE  Len(b) + n \in Nat /\ ReadsFrame(b, n, p, Seen(b, p, junk), room)
  <2>1. n \in Lens /\ n \in Nat
    BY FormatAssumption DEF Lens
  <2>2. WholeHeader(b, n)
    <3>1. \A k \in Octets : <<k, k, k, k>> \in Seq(Octet) /\ Len(<<k, k, k, k>>) = 4
      BY FormatAssumption DEF Octet
    <3> QED BY <2>1, <3>1, BuiltHeader, SentHeader DEF Headers
  <2>3. Len(b) \in Nat /\ Len(b) <= 14
    BY <2>2, SMT DEF WholeHeader, Start
  <2>4. \A i \in 1..Len(b) : i <= p => Seen(b, p, junk)[i] = b[i]
    BY <2>3 DEF Seen
  <2> QED BY <2>1, <2>2, <2>4, Readers
<1>2. FramesParse
  <2> SUFFICES ASSUME NEW n \in PayloadLengths, NEW junk \in Octets, NEW b \in Headers(n)
               PROVE  LET total == Len(b) + n
                      IN  \A p \in 0..14 \union {total - 1, total, total + 1} :
                            p >= 0 => \A room \in {total - 1, total, total + 1} :
                                        ReadsFrame(b, n, p, Seen(b, p, junk), room)
    BY DEF FramesParse
  <2>1. Len(b) + n \in Nat
    BY <1>1
  <2>2. \A p \in 0..14 \union {(Len(b) + n) - 1, Len(b) + n, (Len(b) + n) + 1} : p >= 0 => p \in Nat
    BY <2>1
  <2>3. {(Len(b) + n) - 1, Len(b) + n, (Len(b) + n) + 1} \subseteq Int
    <3>1. \A t \in Nat : t - 1 \in Int /\ t \in Int /\ t + 1 \in Int OBVIOUS
    <3>2. (Len(b) + n) - 1 \in Int /\ Len(b) + n \in Int /\ (Len(b) + n) + 1 \in Int BY <2>1, <3>1
    <3> QED BY <3>2, Zenon
  <2> QED BY <1>1, <2>2, <2>3
<1> QED BY <1>2, PTL DEF FramesParseAtStart, AtStart

--------------------------------------------------------------------------------
(* What SHA-1 is given *)

LEMMA Division ==
  /\ \A n \in Nat : /\ n \div 64 \in Nat /\ n % 64 \in Nat /\ n % 64 < 64
                    /\ n = 64 * (n \div 64) + (n % 64)
  /\ \A a, r \in Nat : r < 64 => (64 * a + r) \div 64 = a /\ (64 * a + r) % 64 = r
BY SMT

LEMMA Rest ==
  ASSUME NEW S, NEW s \in Seq(S), NEW a \in 0..Len(s)
  PROVE  /\ SubSeq(s, a + 1, Len(s)) \in Seq(S)
         /\ Len(SubSeq(s, a + 1, Len(s))) = Len(s) - a
         /\ \A x \in 1..(Len(s) - a) : SubSeq(s, a + 1, Len(s))[x] = s[a + x]
<1>1. Len(s) \in Nat
  OBVIOUS
<1>2. \A x \in 1..(Len(s) - a) : a + x \in 1..Len(s) /\ (a + 1) + x - 1 = a + x
  BY <1>1
<1> QED BY <1>1, <1>2

LEMMA SameSequence ==
  ASSUME NEW S, NEW s \in Seq(S), NEW t \in Seq(S), Len(s) = Len(t),
         \A i \in 1..Len(s) : s[i] = t[i]
  PROVE  s = t
OBVIOUS

\* A context has taken in a message: counted its bytes, given away the whole
\* blocks and kept the rest.
Holds(ctx, s) ==
  /\ ctx.count = Len(s)
  /\ ctx.blocks = Blocks(s)
  /\ \A i \in 0..63 : i < Len(s) % 64 => ctx.buffer[i] = s[64 * (Len(s) \div 64) + i + 1]

LEMMA BlocksFacts ==
  ASSUME NEW S, NEW s \in Seq(S)
  PROVE  /\ Blocks(s) \in Seq([0..63 -> S]) /\ Len(Blocks(s)) = Len(s) \div 64
         /\ \A k \in 1..(Len(s) \div 64) : Blocks(s)[k] = BlockOf(s, 64 * (k - 1))
<1>1. Len(s) \in Nat /\ Len(s) \div 64 \in Nat /\ 64 * (Len(s) \div 64) <= Len(s)
  <2>1. Len(s) \in Nat OBVIOUS
  <2> QED BY <2>1, Division
<1>2. ASSUME NEW k \in 1..(Len(s) \div 64) PROVE BlockOf(s, 64 * (k - 1)) \in [0..63 -> S]
  <2>1. ASSUME NEW x \in 0..63 PROVE s[64 * (k - 1) + x + 1] \in S
    <3>1. 64 * (k - 1) + x + 1 \in 1..Len(s) BY <1>1
    <3> QED BY <3>1
  <2> QED BY <2>1 DEF BlockOf
<1>3. Blocks(s) = [k \in 1..(Len(s) \div 64) |-> BlockOf(s, 64 * (k - 1))]
  BY DEF Blocks
<1> QED BY <1>1, <1>2, <1>3

\* The whole blocks of a message are those of the longer one.
LEMMA BlocksKept ==
  ASSUME NEW S, NEW s \in Seq(S), NEW d \in Seq(S), NEW k \in 1..(Len(s) \div 64)
  PROVE  BlockOf(s \o d, 64 * (k - 1)) = BlockOf(s, 64 * (k - 1))
<1>1. Len(s) \in Nat /\ Len(s) \div 64 \in Nat /\ 64 * (Len(s) \div 64) <= Len(s)
  <2>1. Len(s) \in Nat OBVIOUS
  <2> QED BY <2>1, Division
<1>2. ASSUME NEW x \in 0..63 PROVE (s \o d)[64 * (k - 1) + x + 1] = s[64 * (k - 1) + x + 1]
  <2>1. 64 * (k - 1) + x + 1 \in 1..Len(s) BY <1>1
  <2> QED BY <2>1, Concat
<1> QED BY <1>2 DEF BlockOf

\* SHA1Update, when the buffer has room for it all.
LEMMA UpdateShort ==
  ASSUME NEW S, NEW s \in Seq(S), NEW d \in Seq(S), NEW ctx, Holds(ctx, s),
         (Len(s) % 64) + Len(d) <= 63
  PROVE  Holds(SHA1Update(ctx, d), s \o d)
<1>1. PICK q \in Nat, j \in Nat :
        Len(s) = 64 * q + j /\ j < 64 /\ Len(s) \div 64 = q /\ Len(s) % 64 = j
  <2>1. Len(s) \in Nat OBVIOUS
  <2> QED BY <2>1, Division
<1>2. PICK t : t = s \o d OBVIOUS
<1>3. /\ t \in Seq(S) /\ Len(t) = 64 * q + (j + Len(d)) /\ Len(d) \in Nat
      /\ \A i \in 1..Len(s) : t[i] = s[i]
      /\ \A i \in 1..Len(d) : t[Len(s) + i] = d[i]
  <2>1. /\ t \in Seq(S) /\ Len(t) = Len(s) + Len(d) /\ Len(d) \in Nat
        /\ \A i \in 1..Len(s) : t[i] = s[i]
        /\ \A i \in 1..Len(d) : t[Len(s) + i] = d[i]
    BY <1>2, Concat
  <2> QED BY <1>1, <2>1
<1>4. Len(t) \div 64 = q /\ Len(t) % 64 = j + Len(d)
  <2>1. PICK r \in Nat : r = j + Len(d) /\ r < 64 BY <1>1, <1>3
  <2>2. (64 * q + r) \div 64 = q /\ (64 * q + r) % 64 = r BY <2>1, Division
  <2> QED BY <1>3, <2>1, <2>2
<1>5. ctx.count = Len(s) /\ ctx.blocks = Blocks(s)
      /\ \A i \in 0..63 : i < j => ctx.buffer[i] = s[64 * q + i + 1]
  BY <1>1 DEF Holds
<1>6. SHA1Update(ctx, d) = [count |-> ctx.count + Len(d), blocks |-> ctx.blocks,
                            buffer |-> Copied(ctx.buffer, j, d)]
  BY <1>1, <1>3, <1>5 DEF SHA1Update
<1>7. Blocks(s) = Blocks(t)
  <2>1. \A k \in 1..q : BlockOf(t, 64 * (k - 1)) = BlockOf(s, 64 * (k - 1))
    BY <1>1, <1>2, BlocksKept
  <2> QED BY <1>1, <1>4, <2>1 DEF Blocks
<1>8. ASSUME NEW i \in 0..63, i < j + Len(d)
      PROVE  Copied(ctx.buffer, j, d)[i] = t[64 * q + i + 1]
  <2>1. CASE i < j
    <3>1. ~ (i \in j..j + Len(d) - 1) /\ 64 * q + i + 1 \in 1..Len(s) BY <1>1, <2>1
    <3> QED BY <1>3, <1>5, <2>1, <3>1 DEF Copied
  <2>2. CASE ~ (i < j)
    <3>1. /\ i \in j..j + Len(d) - 1 /\ i - j + 1 \in 1..Len(d)
          /\ 64 * q + i + 1 = Len(s) + (i - j + 1)
      BY <1>1, <1>3, <1>8, <2>2
    <3>2. Copied(ctx.buffer, j, d)[i] = d[i - j + 1] BY <3>1 DEF Copied
    <3>3. PICK x \in 1..Len(d) : x = i - j + 1 BY <3>1
    <3>4. t[Len(s) + x] = d[x] BY <1>3
    <3> QED BY <3>1, <3>2, <3>3, <3>4
  <2> QED BY <2>1, <2>2
<1>9. Len(t) = Len(s) + Len(d)
  BY <1>1, <1>3
<1>10. PICK c : c = SHA1Update(ctx, d) OBVIOUS
<1>11. c.count = Len(t) /\ c.blocks = Blocks(t) /\ c.buffer = Copied(ctx.buffer, j, d)
  BY <1>5, <1>6, <1>7, <1>9, <1>10
<1>12. Holds(c, t)
  BY <1>4, <1>8, <1>11 DEF Holds
<1> QED BY <1>2, <1>10, <1>12

\* SHA1Update, when the buffer fills: it is a block, so are all whole blocks
\* that follow, and the rest stays in the buffer.
LEMMA UpdateLong ==
  ASSUME NEW S, NEW s \in Seq(S), NEW d \in Seq(S), NEW ctx, Holds(ctx, s),
         (Len(s) % 64) + Len(d) > 63
  PROVE  Holds(SHA1Update(ctx, d), s \o d)
<1>1. PICK q \in Nat, j \in Nat :
        Len(s) = 64 * q + j /\ j < 64 /\ Len(s) \div 64 = q /\ Len(s) % 64 = j
  <2>1. Len(s) \in Nat OBVIOUS
  <2> QED BY <2>1, Division
<1>2. PICK t : t = s \o d OBVIOUS
<1>3. /\ t \in Seq(S) /\ Len(t) = Len(s) + Len(d) /\ Len(d) \in Nat
      /\ \A i \in 1..Len(s) : t[i] = s[i]
      /\ \A i \in 1..Len(d) : t[Len(s) + i] = d[i]
  BY <1>2, Concat
<1>4. PICK first \in Nat : first = 64 - j /\ first > 0 /\ first <= 64 /\ first <= Len(d)
  BY <1>1, <1>3
<1>5. PICK more \in Nat, rest \in Nat :
        /\ more = (Len(d) - first) \div 64
        /\ Len(d) - first = 64 * more + rest /\ rest < 64
  <2>1. Len(d) - first \in Nat BY <1>3, <1>4
  <2> QED BY <2>1, Division
<1>6. /\ Len(t) = 64 * (q + 1 + more) + rest /\ Len(d) = first + 64 * more + rest
      /\ Len(s) + first = 64 * q + 64
  <2>1. Len(d) = first + 64 * more + rest
    <3>1. Len(d) - first = 64 * more + rest /\ Len(d) \in Nat BY <1>3, <1>5
    <3> QED BY <3>1
  <2>2. Len(s) + first = 64 * q + 64
    <3>1. Len(s) = 64 * q + j /\ first = 64 - j BY <1>1, <1>4
    <3> QED BY <3>1
  <2>3. Len(t) = Len(s) + Len(d) /\ Len(s) \in Nat BY <1>1, <1>3
  <2> QED BY <2>1, <2>2, <2>3
<1>7. Len(t) \div 64 = q + 1 + more /\ Len(t) % 64 = rest
  <2>1. PICK n \in Nat : n = q + 1 + more OBVIOUS
  <2>2. (64 * n + rest) \div 64 = n /\ (64 * n + rest) % 64 = rest BY <1>5, Division
  <2> QED BY <1>6, <2>1, <2>2
<1>8. /\ ctx.count = Len(s) /\ ctx.blocks = Blocks(s)
      /\ \A i \in 0..63 : i < j => ctx.buffer[i] = s[64 * q + i + 1]
  BY <1>1 DEF Holds
<1> DEFINE full == Copied(ctx.buffer, j, SubSeq(d, 1, first))
           behind == [k \in 1..more |-> BlockOf(d, first + 64 * (k - 1))]
           left == SubSeq(d, first + 64 * more + 1, Len(d))
<1>9. PICK c : c = SHA1Update(ctx, d) OBVIOUS
<1>10. /\ c.count = Len(t) /\ c.blocks = Blocks(s) \o <<full>> \o behind
       /\ c.buffer = Copied(full, 0, left)
  BY <1>1, <1>3, <1>4, <1>5, <1>8, <1>9 DEF SHA1Update
<1>11. full = BlockOf(t, 64 * q)
  <2>1. PICK e : e = SubSeq(d, 1, first) OBVIOUS
  <2>2. Len(e) = first /\ \A i \in 1..first : e[i] = d[i]
    BY <1>3, <1>4, <2>1
  <2>3. ASSUME NEW i \in 0..63 PROVE Copied(ctx.buffer, j, e)[i] = t[64 * q + i + 1]
    <3>1. CASE i < j
      <4>1. ~ (i \in j..j + Len(e) - 1) /\ 64 * q + i + 1 \in 1..Len(s) BY <1>1, <3>1
      <4> QED BY <1>3, <1>8, <3>1, <4>1 DEF Copied
    <3>2. CASE ~ (i < j)
      <4>1. i \in j..j + Len(e) - 1 BY <1>4, <2>2, <3>2
      <4>2. PICK x \in 1..first : x = i - j + 1 BY <1>4, <3>2
      <4>3. x \in 1..Len(d) /\ Len(s) + x = 64 * q + i + 1 BY <1>1, <1>3, <1>4, <4>2
      <4>4. t[Len(s) + x] = d[x] BY <1>3, <4>3
      <4>5. Copied(ctx.buffer, j, e)[i] = e[i - j + 1] BY <4>1 DEF Copied
      <4> QED BY <2>2, <4>2, <4>3, <4>4, <4>5
    <3> QED BY <3>1, <3>2
  <2>4. Copied(ctx.buffer, j, e) = [x \in 0..63 |-> t[64 * q + x + 1]]
    BY <2>3 DEF Copied
  <2> QED BY <2>1, <2>4 DEF BlockOf
<1> HIDE DEF full
<1>12. ASSUME NEW k \in 1..more
       PROVE  BlockOf(d, first + 64 * (k - 1)) = BlockOf(t, 64 * (q + k))
  <2>1. ASSUME NEW x \in 0..63
        PROVE  d[first + 64 * (k - 1) + x + 1] = t[64 * (q + k) + x + 1]
    <3>1. PICK y \in 1..Len(d) : y = first + 64 * (k - 1) + x + 1
      BY <1>3, <1>4, <1>6
    <3>2. Len(s) + y = 64 * (q + k) + x + 1
      BY <1>1, <1>4, <1>6, <3>1
    <3>3. t[Len(s) + y] = d[y] BY <1>3
    <3> QED BY <3>1, <3>2, <3>3
  <2> QED BY <2>1 DEF BlockOf
<1>13. \A k \in 1..q : BlockOf(s, 64 * (k - 1)) = BlockOf(t, 64 * (k - 1))
  BY <1>1, <1>2, BlocksKept
<1>14. /\ Blocks(s) \in Seq([0..63 -> S]) /\ Len(Blocks(s)) = q
       /\ \A k \in 1..q : Blocks(s)[k] = BlockOf(s, 64 * (k - 1))
  BY <1>1, BlocksFacts
<1>15. /\ Blocks(t) \in Seq([0..63 -> S]) /\ Len(Blocks(t)) = q + 1 + more
       /\ \A k \in 1..(q + 1 + more) : Blocks(t)[k] = BlockOf(t, 64 * (k - 1))
  BY <1>3, <1>7, BlocksFacts
<1>16. c.blocks = Blocks(t)
  <2>1. PICK a : a = Blocks(s) OBVIOUS
  <2>2. PICK z : z = Blocks(t) OBVIOUS
  <2> DEFINE B == [0..63 -> S]
  <2>3. /\ a \in Seq(B) /\ Len(a) = q /\ z \in Seq(B) /\ Len(z) = q + 1 + more
    BY <1>14, <1>15, <2>1, <2>2
  <2>4. \A k \in 1..q : a[k] = z[k]
    BY <1>13, <1>14, <1>15, <2>1, <2>2
  <2>5. full = z[q + 1]
    <3>1. q + 1 \in 1..(q + 1 + more) /\ 64 * ((q + 1) - 1) = 64 * q OBVIOUS
    <3> QED BY <1>11, <1>15, <2>2, <3>1
  <2>6. \A k \in 1..more : behind[k] = z[q + 1 + k]
    <3>1. ASSUME NEW k \in 1..more PROVE behind[k] = z[q + 1 + k]
      <4>1. q + 1 + k \in 1..(q + 1 + more) /\ (q + 1 + k) - 1 = q + k OBVIOUS
      <4>2. z[q + 1 + k] = BlockOf(t, 64 * (q + k)) BY <1>15, <2>2, <4>1
      <4> QED BY <1>12, <4>2
    <3> QED BY <3>1
  <2>7. /\ full \in B /\ \A k \in 1..more : behind[k] \in B
    <3>1. \A k \in 1..(q + 1 + more) : z[k] \in B
      <4> HIDE DEF B
      <4> QED BY <2>3
    <3>2. q + 1 \in 1..(q + 1 + more) /\ \A k \in 1..more : q + 1 + k \in 1..(q + 1 + more)
      OBVIOUS
    <3> HIDE DEF B, behind
    <3> QED BY <2>5, <2>6, <3>1, <3>2
  <2>8. behind \in Seq(B) /\ Len(behind) = more
    <3> HIDE DEF B
    <3> QED BY <2>7
  <2> HIDE DEF B, behind
  <2>9. PICK b : b = <<full>> OBVIOUS
  <2>10. b \in Seq(B) /\ Len(b) = 1 /\ b[1] = full BY <2>7, <2>9
  <2>11. PICK y : y = a \o b OBVIOUS
  <2>12. /\ y \in Seq(B) /\ Len(y) = q + 1 /\ y[q + 1] = full /\ \A k \in 1..q : y[k] = a[k]
    <3>1. /\ a \o b \in Seq(B) /\ Len(a \o b) = Len(a) + Len(b)
          /\ \A k \in 1..Len(a) : (a \o b)[k] = a[k]
          /\ \A k \in 1..Len(b) : (a \o b)[Len(a) + k] = b[k]
      <4>1. a \in Seq(B) /\ b \in Seq(B) BY <2>3, <2>10
      <4> QED BY <4>1, Concat
    <3>2. 1 \in 1..1 OBVIOUS
    <3> QED BY <2>3, <2>10, <2>11, <3>1, <3>2
  <2>13. PICK w : w = y \o behind OBVIOUS
  <2>14. /\ w \in Seq(B) /\ Len(w) = q + 1 + more
         /\ \A k \in 1..(q + 1) : w[k] = y[k]
         /\ \A k \in 1..more : w[q + 1 + k] = behind[k]
    <3>1. /\ y \o behind \in Seq(B) /\ Len(y \o behind) = Len(y) + Len(behind)
          /\ \A k \in 1..Len(y) : (y \o behind)[k] = y[k]
          /\ \A k \in 1..Len(behind) : (y \o behind)[Len(y) + k] = behind[k]
      <4>1. y \in Seq(B) /\ behind \in Seq(B) BY <2>8, <2>12
      <4> QED BY <4>1, Concat
    <3> QED BY <2>8, <2>12, <2>13, <3>1
  <2>15. ASSUME NEW k \in 1..(q + 1 + more) PROVE w[k] = z[k]
    <3>1. CASE k \in 1..q
      BY <2>4, <2>12, <2>14, <3>1
    <3>2. CASE k = q + 1
      <4>1. q + 1 \in 1..(q + 1) OBVIOUS
      <4> QED BY <2>5, <2>12, <2>14, <3>2, <4>1
    <3>3. CASE k > q + 1
      <4>1. PICK i \in 1..more : k = q + 1 + i
        <5>1. k - (q + 1) \in 1..more /\ k = q + 1 + (k - (q + 1)) BY <3>3
        <5> QED BY <5>1
      <4> QED BY <2>6, <2>14, <4>1
    <3> QED BY <3>1, <3>2, <3>3
  <2>16. w = z
    BY <2>3, <2>14, <2>15, SameSequence
  <2>17. c.blocks = (a \o b) \o behind
    BY <1>10, <2>1, <2>9 DEF behind
  <2> QED BY <2>2, <2>11, <2>13, <2>16, <2>17
<1>17. ASSUME NEW i \in 0..63, i < rest
       PROVE  c.buffer[i] = t[64 * (q + 1 + more) + i + 1]
  <2>1. PICK e : e = left OBVIOUS
  <2>2. Len(e) = rest /\ \A x \in 1..rest : e[x] = d[first + 64 * more + x]
    <3>1. PICK a \in 0..Len(d) : a = first + 64 * more /\ Len(d) = a + rest
      <4>1. first + 64 * more \in 0..Len(d) BY <1>3, <1>6
      <4> QED BY <1>6, <4>1
    <3>2. e = SubSeq(d, a + 1, Len(d)) BY <2>1, <3>1
    <3>3. Len(e) = Len(d) - a /\ \A x \in 1..(Len(d) - a) : e[x] = d[a + x] BY <3>2, Rest
    <3>4. Len(d) - a = rest BY <3>1, <1>3
    <3> QED BY <3>1, <3>3, <3>4
  <2>3. PICK x \in 1..rest : x = i + 1 BY <1>5, <1>17
  <2>4. i \in 0..0 + Len(e) - 1 /\ i - 0 + 1 = x BY <1>17, <2>2, <2>3
  <2>5. c.buffer[i] = e[x] BY <1>10, <2>1, <2>4 DEF Copied
  <2>6. PICK y \in 1..Len(d) : y = first + 64 * more + x
    <3>1. first + 64 * more + x \in 1..Len(d) BY <1>6
    <3> QED BY <3>1
  <2>7. Len(s) + y = 64 * (q + 1 + more) + i + 1 BY <1>1, <1>4, <2>3, <2>6
  <2>8. t[Len(s) + y] = d[y] BY <1>3
  <2> QED BY <2>2, <2>5, <2>6, <2>7, <2>8
<1>18. Holds(c, t)
  BY <1>7, <1>10, <1>16, <1>17 DEF Holds
<1> QED BY <1>2, <1>9, <1>18

\* ws_handshake.c 37-52: a message taken in after another is as if they were
\* one.
LEMMA UpdateHolds ==
  ASSUME NEW S, NEW s \in Seq(S), NEW d \in Seq(S), NEW ctx, Holds(ctx, s)
  PROVE  Holds(SHA1Update(ctx, d), s \o d)
<1>1. (Len(s) % 64) + Len(d) \in Nat
  <2>1. Len(s) \in Nat /\ Len(d) \in Nat OBVIOUS
  <2> QED BY <2>1, Division
<1> QED BY <1>1, UpdateShort, UpdateLong

LEMMA FreshHolds == Holds(Fresh64, <<>>)
<1>1. Len(<<>>) = 0 /\ 0 \div 64 = 0 /\ 0 % 64 = 0
  <2>1. Len(<<>>) = 0 OBVIOUS
  <2>2. (64 * 0 + 0) \div 64 = 0 /\ (64 * 0 + 0) % 64 = 0 BY Division
  <2> QED BY <2>1, <2>2
<1>2. Blocks(<<>>) = <<>>
  BY <1>1 DEF Blocks
<1> QED BY <1>1, <1>2 DEF Holds, Fresh64

\* The two ways to count the zeros agree.
LEMMA Zeros ==
  ASSUME NEW n \in Nat
  PROVE  LET z == CHOOSE z \in 0..63 : (n + 9 + z) % 64 = 0
         IN  z \in 0..63 /\ z = CHOOSE y \in 0..63 : (n + 1 + y) % 64 = 56
<1> DEFINE P(z) == (n + 9 + z) % 64 = 0
           Q(z) == (n + 1 + z) % 64 = 56
<1>1. ASSUME NEW z \in 0..63 PROVE P(z) <=> Q(z)
  <2>1. PICK a \in Nat, r \in Nat : r < 64 /\ n + 1 + z = 64 * a + r /\ (n + 1 + z) % 64 = r
    <3>1. PICK x \in Nat : x = n + 1 + z OBVIOUS
    <3> QED BY <3>1, Division
  <2>2. CASE r < 56
    <3>1. n + 9 + z = 64 * a + (r + 8) /\ r + 8 \in Nat /\ r + 8 < 64 BY <2>1, <2>2
    <3>2. (64 * a + (r + 8)) % 64 = r + 8 BY <3>1, Division
    <3> QED BY <2>1, <2>2, <3>1, <3>2
  <2>3. CASE r >= 56
    <3>1. PICK y \in Nat : r = 56 + y /\ y < 8
      <4>1. r - 56 \in Nat /\ r = 56 + (r - 56) /\ r - 56 < 8 BY <2>1, <2>3
      <4> QED BY <4>1
    <3>2. n + 9 + z = 64 * (a + 1) + y BY <2>1, <3>1
    <3>3. (64 * (a + 1) + y) % 64 = y
      <4>1. a + 1 \in Nat OBVIOUS
      <4> QED BY <3>1, <4>1, Division
    <3> QED BY <2>1, <3>1, <3>2, <3>3
  <2> QED BY <2>1, <2>2, <2>3
<1>2. PICK b \in Nat, s \in Nat : s < 64 /\ n + 1 = 64 * b + s
  <2>1. n + 1 \in Nat OBVIOUS
  <2> QED BY <2>1, Division
<1>3. \E z \in 0..63 : Q(z)
  <2>1. CASE s <= 56
    <3>1. 56 - s \in 0..63 /\ n + 1 + (56 - s) = 64 * b + 56 BY <1>2, <2>1
    <3>2. (64 * b + 56) % 64 = 56 BY Division
    <3> QED BY <3>1, <3>2
  <2>2. CASE s > 56
    <3>1. 120 - s \in 0..63 /\ n + 1 + (120 - s) = 64 * (b + 1) + 56 BY <1>2, <2>2
    <3>2. (64 * (b + 1) + 56) % 64 = 56
      <4>1. b + 1 \in Nat OBVIOUS
      <4> QED BY <4>1, Division
    <3> QED BY <3>1, <3>2
  <2> QED BY <1>2, <2>1, <2>2
<1>4. ASSUME NEW y \in 0..63, NEW z \in 0..63, Q(y), Q(z) PROVE y = z
  <2>1. PICK c \in Nat : n + 1 + y = 64 * c + 56
    <3>1. PICK x \in Nat : x = n + 1 + y OBVIOUS
    <3>2. x % 64 = 56 BY <1>4, <3>1
    <3> QED BY <3>1, <3>2, Division
  <2>2. PICK d \in Nat : n + 1 + z = 64 * d + 56
    <3>1. PICK x \in Nat : x = n + 1 + z OBVIOUS
    <3>2. x % 64 = 56 BY <1>4, <3>1
    <3> QED BY <3>1, <3>2, Division
  <2> QED BY <2>1, <2>2
<1> DEFINE z0 == CHOOSE z \in 0..63 : P(z)
           y0 == CHOOSE y \in 0..63 : Q(y)
<1> HIDE DEF P, Q
<1>5. z0 \in 0..63 /\ P(z0)
  BY <1>1, <1>3
<1>6. y0 \in 0..63 /\ Q(y0)
  BY <1>3
<1>7. z0 = y0
  <2> HIDE DEF z0, y0
  <2> QED BY <1>1, <1>4, <1>5, <1>6
<1> QED BY <1>5, <1>7 DEF P, Q

LEMMA Appended ==
  ASSUME NEW S, NEW a \in Seq(S), NEW b \in Seq(S), NEW c \in Seq(S), NEW d \in Seq(S)
  PROVE  a \o b \o c \o d = ((a \o b) \o c) \o d
OBVIOUS

\* A message in two parts.
LEMMA TwoParts ==
  ASSUME NEW S, NEW m \in Seq(S), NEW k \in 0..Len(m)
  PROVE  /\ SubSeq(m, 1, k) \in Seq(S) /\ SubSeq(m, k + 1, Len(m)) \in Seq(S)
         /\ SubSeq(m, 1, k) \o SubSeq(m, k + 1, Len(m)) = m
<1>1. PICK a : a = SubSeq(m, 1, k) OBVIOUS
<1>2. PICK b : b = SubSeq(m, k + 1, Len(m)) OBVIOUS
<1>3. a \in Seq(S) /\ Len(a) = k /\ \A i \in 1..k : a[i] = m[i]
  BY <1>1
<1>4. /\ b \in Seq(S) /\ Len(b) = Len(m) - k
      /\ \A x \in 1..(Len(m) - k) : b[x] = m[k + x]
  BY <1>2, Rest
<1>5. PICK c : c = a \o b OBVIOUS
<1>6. /\ c \in Seq(S) /\ Len(c) = Len(a) + Len(b)
      /\ \A i \in 1..Len(a) : c[i] = a[i]
      /\ \A i \in 1..Len(b) : c[Len(a) + i] = b[i]
  BY <1>3, <1>4, <1>5, Concat
<1>7. Len(m) \in Nat OBVIOUS
<1>8. Len(c) = Len(m) BY <1>3, <1>4, <1>6, <1>7
<1>9. ASSUME NEW i \in 1..Len(m) PROVE c[i] = m[i]
  <2>1. CASE i <= k
    <3>1. i \in 1..k BY <2>1, <1>7
    <3> QED BY <1>3, <1>6, <3>1
  <2>2. CASE i > k
    <3>1. PICK x \in 1..(Len(m) - k) : i = k + x
      <4>1. i - k \in 1..(Len(m) - k) /\ i = k + (i - k) BY <1>7, <2>2
      <4> QED BY <4>1
    <3> QED BY <1>3, <1>4, <1>6, <3>1
  <2> QED BY <2>1, <2>2, <1>7
<1>10. c = m BY <1>6, <1>8, <1>9, SameSequence
<1> QED BY <1>1, <1>2, <1>3, <1>4, <1>5, <1>10

LEMMA FinalBlocks ==
  ASSUME NEW S, NEW m \in Seq(S), NEW ctx, Holds(ctx, m), 0 \in S, 128 \in S,
         \A k \in 0..7 : Byte(8 * Len(m), k) \in S
  PROVE  SHA1Final(ctx).blocks = Blocks(Padded(m))
<1> DEFINE n == Len(m)
           need == CHOOSE z \in 0..63 : (n + 9 + z) % 64 = 0
           one == <<128>>
           zeros == [k \in 1..need |-> 0]
           bits == [k \in 1..8 |-> Byte(8 * n, 8 - k)]
           ended == SHA1Update(ctx, one)
           filled == SHA1Update(ended, zeros)
           all == SHA1Update(filled, bits)
<1>1. n \in Nat /\ ctx.count = n
  BY DEF Holds
<1>2a. need \in 0..63 /\ need = CHOOSE y \in 0..63 : (n + 1 + y) % 64 = 56
  BY <1>1, Zeros
<1>2. need \in 0..63
  BY <1>2a
<1> HIDE DEF n, need
<1>3. one \in Seq(S) /\ zeros \in Seq(S) /\ Len(one) = 1
  <2>1. one \in Seq(S) /\ Len(one) = 1 OBVIOUS
  <2>2. need \in Nat BY <1>2
  <2>3. \A x \in 1..need : zeros[x] \in S OBVIOUS
  <2>4. zeros \in Seq(S) BY <2>2, <2>3
  <2> QED BY <2>1, <2>4
<1>4. bits \in Seq(S)
  <2>1. \A k \in 1..8 : Byte(8 * n, 8 - k) \in S BY DEF n
  <2> QED BY <2>1
<1>5. Holds(ended, m \o one)
  BY <1>3, UpdateHolds
<1>6. m \o one \in Seq(S) /\ Len(m \o one) = n + 1
  BY <1>3 DEF n
<1>7. ended.count = n + 1
  BY <1>5, <1>6 DEF Holds
<1> HIDE DEF one, zeros, bits, ended, filled, all
<1>8. Holds(filled, (m \o one) \o zeros) /\ (m \o one) \o zeros \in Seq(S)
  <2>1. Holds(filled, (m \o one) \o zeros) BY <1>3, <1>5, <1>6, UpdateHolds DEF filled
  <2>2. (m \o one) \o zeros \in Seq(S)
    <3>1. PICK x : x = m \o one OBVIOUS
    <3> QED BY <1>3, <1>6, <3>1
  <2> QED BY <2>1, <2>2
<1>9. Holds(all, ((m \o one) \o zeros) \o bits)
  BY <1>4, <1>8, UpdateHolds DEF all
<1>10. Padded(m) = ((m \o one) \o zeros) \o bits
  BY <1>3, <1>4, Appended DEF Padded, one, zeros, bits, need, n
<1>11. SHA1Final(ctx) = all
  BY <1>1, <1>2a, <1>7 DEF SHA1Final, all, filled, ended, one, zeros, bits
<1> QED BY <1>9, <1>10, <1>11 DEF Holds

Hashable == {n \in Nat : n <= 268435455}

\* ws_handshake.c 37-66: whatever the length of a message, and wherever it is
\* cut when it is handed over in two parts, SHA1Transform is given the padded
\* blocks of the message, in order.  (Byte stands for the bytes of a number
\* below 2^31, which the length in bits has to be.)
THEOREM MessageInPaddedBlocks ==
  ASSUME NEW m \in Seq(Nat), NEW k \in 0..Len(m), Len(m) \in Hashable
  PROVE  SHA1Final(SHA1Update(SHA1Update(Fresh64, SubSeq(m, 1, k)),
                              SubSeq(m, k + 1, Len(m)))).blocks = Blocks(Padded(m))
<1> DEFINE S == Nat \union {Byte(8 * Len(m), j) : j \in 0..7}
           a == SubSeq(m, 1, k)
           b == SubSeq(m, k + 1, Len(m))
<1>1. 0 \in S /\ 128 \in S /\ \A j \in 0..7 : Byte(8 * Len(m), j) \in S
  OBVIOUS
<1>2. m \in Seq(S) /\ <<>> \in Seq(S)
  <2>1. Nat \subseteq S OBVIOUS
  <2> HIDE DEF S
  <2> QED BY <2>1
<1> HIDE DEF S
<1>3. a \in Seq(S) /\ b \in Seq(S) /\ a \o b = m
  BY <1>2, TwoParts
<1> HIDE DEF a, b
<1>4. Holds(SHA1Update(Fresh64, a), <<>> \o a)
  BY <1>2, <1>3, FreshHolds, UpdateHolds
<1>5. <<>> \o a = a
  BY <1>3
<1>6. Holds(SHA1Update(SHA1Update(Fresh64, a), b), m)
  BY <1>3, <1>4, <1>5, UpdateHolds
<1>7. SHA1Final(SHA1Update(SHA1Update(Fresh64, a), b)).blocks = Blocks(Padded(m))
  BY <1>1, <1>2, <1>6, FinalBlocks
<1> QED BY <1>7 DEF a, b

LEMMA PaddedBlocks == BlocksArePadded
<1> SUFFICES ASSUME NEW n \in MessageLengths, NEW k \in MessageLengths \union {0}, k <= n
             PROVE  SHA1Final(SHA1Update(SHA1Update(Fresh64, SubSeq(Message(n), 1, k)),
                              SubSeq(Message(n), k + 1, n))).blocks
                      = Blocks(Padded(Message(n)))
  BY DEF BlocksArePadded
<1>1. n \in Hashable /\ n \in Nat /\ k \in 0..n
  BY FormatAssumption, SMT DEF Hashable
<1>2. Message(n) \in Seq(Nat) /\ Len(Message(n)) = n
  <2>1. \A i \in 1..n : 1000 + i \in Nat OBVIOUS
  <2> QED BY <1>1, <2>1 DEF Message
<1> QED BY <1>1, <1>2, MessageInPaddedBlocks

\* ws_handshake.c 37-66: in the initial state, and so for the lengths of any
\* instance, SHA-1 is given the padded blocks of its message.
THEOREM MessagesArePadded == Spec => []BlocksAtStart
<1>1. BlocksAtStart
  BY PaddedBlocks DEF BlocksAtStart, AtStart
<1> QED BY <1>1, PTL

--------------------------------------------------------------------------------
(* base64 *)

LEMMA ByteAtRange ==
  ASSUME NEW in \in Seq(Octet), NEW i \in Nat
  PROVE  ByteAt(in, i) \in Octet /\ (i >= Len(in) => ByteAt(in, i) = 0)
<1>1. 0 \in Octet BY OctetFacts
<1>2. CASE i < Len(in)
  <2>1. i + 1 \in 1..Len(in) BY <1>2
  <2> QED BY <1>2, <2>1 DEF ByteAt
<1>3. CASE ~ (i < Len(in)) BY <1>1, <1>3 DEF ByteAt
<1> QED BY <1>2, <1>3

\* A byte and its bits, the first one first.
BitIn(x, k) == (x \div Power[k]) % 2

LEMMA BitsTogether ==
  ASSUME NEW x \in Octet
  PROVE  /\ \A k \in 1..8 : BitIn(x, k) \in {0, 1}
         /\ x = 128 * BitIn(x, 1) + 64 * BitIn(x, 2) + 32 * BitIn(x, 3) + 16 * BitIn(x, 4)
                  + 8 * BitIn(x, 5) + 4 * BitIn(x, 6) + 2 * BitIn(x, 7) + BitIn(x, 8)
<1>0. x \in Nat /\ x <= 255 BY OctetFacts
<1>1. PICK x7 \in Nat, b8 \in {0, 1} : x = 2 * x7 + b8 /\ x % 2 = b8 /\ x \div 2 = x7
  BY <1>0, SMT
<1>2. PICK x6 \in Nat, b7 \in {0, 1} : x7 = 2 * x6 + b7 /\ x7 % 2 = b7
  BY <1>1, SMT
<1>3. PICK x5 \in Nat, b6 \in {0, 1} : x6 = 2 * x5 + b6 /\ x6 % 2 = b6
  BY <1>2, SMT
<1>4. PICK x4 \in Nat, b5 \in {0, 1} : x5 = 2 * x4 + b5 /\ x5 % 2 = b5
  BY <1>3, SMT
<1>5. PICK x3 \in Nat, b4 \in {0, 1} : x4 = 2 * x3 + b4 /\ x4 % 2 = b4
  BY <1>4, SMT
<1>6. PICK x2 \in Nat, b3 \in {0, 1} : x3 = 2 * x2 + b3 /\ x3 % 2 = b3
  BY <1>5, SMT
<1>7. PICK b1 \in Nat, b2 \in {0, 1} : x2 = 2 * b1 + b2 /\ x2 % 2 = b2
  BY <1>6, SMT
<1>8. b1 \in {0, 1} /\ b1 % 2 = b1
  BY <1>0, <1>1, <1>2, <1>3, <1>4, <1>5, <1>6, <1>7, SMT
<1>9. /\ x \div 1 = x /\ x \div 2 = x7 /\ x \div 4 = x6 /\ x \div 8 = x5
      /\ x \div 16 = x4 /\ x \div 32 = x3 /\ x \div 64 = x2 /\ x \div 128 = b1
  BY <1>0, <1>1, <1>2, <1>3, <1>4, <1>5, <1>6, <1>7, <1>8, SMT
<1>10. /\ Power[1] = 128 /\ Power[2] = 64 /\ Power[3] = 32 /\ Power[4] = 16
       /\ Power[5] = 8 /\ Power[6] = 4 /\ Power[7] = 2 /\ Power[8] = 1
  BY DEF Power
<1>11. x = 128 * b1 + 64 * b2 + 32 * b3 + 16 * b4 + 8 * b5 + 4 * b6 + 2 * b7 + b8
  BY <1>1, <1>2, <1>3, <1>4, <1>5, <1>6, <1>7, SMT
<1>12. /\ BitIn(x, 1) = b1 /\ BitIn(x, 2) = b2 /\ BitIn(x, 3) = b3 /\ BitIn(x, 4) = b4
       /\ BitIn(x, 5) = b5 /\ BitIn(x, 6) = b6 /\ BitIn(x, 7) = b7 /\ BitIn(x, 8) = b8
  BY <1>1, <1>2, <1>3, <1>4, <1>5, <1>6, <1>7, <1>8, <1>9, <1>10 DEF BitIn
<1>13. \A k \in 1..8 : k \in {1, 2, 3, 4, 5, 6, 7, 8}
  OBVIOUS
<1>14. \A k \in {1, 2, 3, 4, 5, 6, 7, 8} : BitIn(x, k) \in {0, 1}
  BY <1>8, <1>12
<1>15. \A k \in 1..8 : BitIn(x, k) \in {0, 1}
  BY <1>13, <1>14
<1> QED BY <1>11, <1>12, <1>15

\* Bit w of byte h.
LEMMA BitInByte ==
  ASSUME NEW in \in Seq(Octet), NEW h \in Nat, NEW w \in 0..7, NEW i, i = 8 * h + w
  PROVE  Bit(in, i) = BitIn(ByteAt(in, h), w + 1)
<1>1. i \div 8 = h /\ i % 8 = w
  BY SMT
<1>2. CASE h < Len(in)
  BY <1>1, <1>2 DEF Bit, BitIn, ByteAt
<1>3. CASE ~ (h < Len(in))
  <2>1. Bit(in, i) = 0 BY <1>1, <1>3 DEF Bit
  <2>2. ByteAt(in, h) = 0 BY <1>3 DEF ByteAt
  <2>3. Power[w + 1] \in {1, 2, 4, 8, 16, 32, 64, 128}
    <3>1. w + 1 \in {1, 2, 3, 4, 5, 6, 7, 8} OBVIOUS
    <3> QED BY <3>1 DEF Power
  <2>4. \A k \in {1, 2, 4, 8, 16, 32, 64, 128} : (0 \div k) % 2 = 0
    BY SMT
  <2> QED BY <2>1, <2>2, <2>3, <2>4 DEF BitIn
<1> QED BY <1>2, <1>3

LEMMA BitsOfByte ==
  ASSUME NEW in \in Seq(Octet), NEW h \in Nat, NEW i \in Nat, i = 8 * h
  PROVE  /\ \A w \in 0..7 : Bit(in, i + w) \in {0, 1}
         /\ ByteAt(in, h) = 128 * Bit(in, i) + 64 * Bit(in, i + 1) + 32 * Bit(in, i + 2)
                              + 16 * Bit(in, i + 3) + 8 * Bit(in, i + 4) + 4 * Bit(in, i + 5)
                              + 2 * Bit(in, i + 6) + Bit(in, i + 7)
<1>1. PICK x \in Octet : x = ByteAt(in, h)
  BY ByteAtRange
<1>2. ASSUME NEW w \in 0..7 PROVE Bit(in, i + w) = BitIn(x, w + 1)
  <2>1. PICK k : k = i + w OBVIOUS
  <2>2. k = 8 * h + w BY <2>1
  <2> QED BY <1>1, <2>1, <2>2, BitInByte
<1>3. /\ 0 + 1 = 1 /\ 1 + 1 = 2 /\ 2 + 1 = 3 /\ 3 + 1 = 4 /\ 4 + 1 = 5 /\ 5 + 1 = 6
      /\ 6 + 1 = 7 /\ 7 + 1 = 8 /\ i + 0 = i
      /\ 0 \in 0..7 /\ 1 \in 0..7 /\ 2 \in 0..7 /\ 3 \in 0..7
      /\ 4 \in 0..7 /\ 5 \in 0..7 /\ 6 \in 0..7 /\ 7 \in 0..7
  OBVIOUS
<1>4. Bit(in, i) = BitIn(x, 1) /\ Bit(in, i + 1) = BitIn(x, 2)
  BY <1>2, <1>3
<1>5. Bit(in, i + 2) = BitIn(x, 3) /\ Bit(in, i + 3) = BitIn(x, 4)
  BY <1>2, <1>3
<1>6. Bit(in, i + 4) = BitIn(x, 5) /\ Bit(in, i + 5) = BitIn(x, 6)
  BY <1>2, <1>3
<1>7. Bit(in, i + 6) = BitIn(x, 7) /\ Bit(in, i + 7) = BitIn(x, 8)
  BY <1>2, <1>3
<1>8. \A w \in 0..7 : Bit(in, i + w) \in {0, 1}
  <2>1. \A w \in 0..7 : w + 1 \in 1..8 OBVIOUS
  <2> QED BY <1>2, <2>1, BitsTogether
<1>9. x = 128 * Bit(in, i) + 64 * Bit(in, i + 1) + 32 * Bit(in, i + 2)
            + 16 * Bit(in, i + 3) + 8 * Bit(in, i + 4) + 4 * Bit(in, i + 5)
            + 2 * Bit(in, i + 6) + Bit(in, i + 7)
  <2>1. x = 128 * BitIn(x, 1) + 64 * BitIn(x, 2) + 32 * BitIn(x, 3) + 16 * BitIn(x, 4)
              + 8 * BitIn(x, 5) + 4 * BitIn(x, 6) + 2 * BitIn(x, 7) + BitIn(x, 8)
    BY BitsTogether
  <2> QED BY <1>4, <1>5, <1>6, <1>7, <2>1, Zenon
<1> QED BY <1>1, <1>8, <1>9

LEMMA SextetBits ==
  ASSUME NEW in, NEW j, NEW i, i = 6 * j
  PROVE  Sextet(in, j) = 32 * Bit(in, i) + 16 * Bit(in, i + 1) + 8 * Bit(in, i + 2)
                           + 4 * Bit(in, i + 3) + 2 * Bit(in, i + 4) + Bit(in, i + 5)
BY Zenon DEF Sextet

\* The four digits of a group, out of its three bytes: as base64_encode writes
\* them, and as the 24 bits that encode_base64 puts together.
Regrouped(a, b, c, s0, s1, s2, s3) ==
  /\ s0 = a \div 4
  /\ s1 = (a % 4) * 16 + (b \div 16)
  /\ s2 = (b % 16) * 4 + (c \div 64)
  /\ s3 = c % 64
  /\ a * 65536 + b * 256 + c \in Nat
  /\ a * 65536 + b * 256 + c = 262144 * s0 + 4096 * s1 + 64 * s2 + s3
  /\ s0 \in 0..63 /\ s1 \in 0..63 /\ s2 \in 0..63 /\ s3 \in 0..63

LEMMA GroupArithmetic ==
  ASSUME NEW s \in 0..63, NEW e \in 0..3, NEW f \in 0..15, NEW h \in 0..15,
         NEW k \in 0..3, NEW l \in 0..63
  PROVE  Regrouped(4 * s + e, 16 * f + h, 64 * k + l, s, 16 * e + f, 4 * h + k, l)
<1>1. (4 * s + e) \div 4 = s /\ (4 * s + e) % 4 = e
  BY SMT
<1>2. (16 * f + h) \div 16 = f /\ (16 * f + h) % 16 = h
  BY SMT
<1>3. (64 * k + l) \div 64 = k /\ (64 * k + l) % 64 = l
  BY SMT
<1>4. 16 * e + f \in 0..63 /\ 4 * h + k \in 0..63 /\ e * 16 = 16 * e /\ h * 4 = 4 * h
  BY SMT
<1>5. (4 * s + e) * 65536 + (16 * f + h) * 256 + (64 * k + l)
        = 262144 * s + 4096 * (16 * e + f) + 64 * (4 * h + k) + l
  BY SMT
<1>6. (4 * s + e) * 65536 + (16 * f + h) * 256 + (64 * k + l) \in Nat
  BY SMT
<1> QED BY <1>1, <1>2, <1>3, <1>4, <1>5, <1>6, SMT DEF Regrouped

LEMMA Group ==
  ASSUME NEW in \in Seq(Octet), NEW g \in Nat
  PROVE  Regrouped(ByteAt(in, 3 * g), ByteAt(in, 3 * g + 1), ByteAt(in, 3 * g + 2),
                   Sextet(in, 4 * g), Sextet(in, 4 * g + 1),
                   Sextet(in, 4 * g + 2), Sextet(in, 4 * g + 3))
<1>1. PICK i \in Nat : i = 24 * g OBVIOUS
<1> DEFINE x1 == Bit(in, i)  x2 == Bit(in, i + 1)  x3 == Bit(in, i + 2)
           x4 == Bit(in, i + 3)  x5 == Bit(in, i + 4)  x6 == Bit(in, i + 5)
           x7 == Bit(in, i + 6)  x8 == Bit(in, i + 7)  y1 == Bit(in, i + 8)
           y2 == Bit(in, i + 9)  y3 == Bit(in, i + 10)  y4 == Bit(in, i + 11)
           y5 == Bit(in, i + 12)  y6 == Bit(in, i + 13)  y7 == Bit(in, i + 14)
           y8 == Bit(in, i + 15)  z1 == Bit(in, i + 16)  z2 == Bit(in, i + 17)
           z3 == Bit(in, i + 18)  z4 == Bit(in, i + 19)  z5 == Bit(in, i + 20)
           z6 == Bit(in, i + 21)  z7 == Bit(in, i + 22)  z8 == Bit(in, i + 23)
<1>2. /\ x1 \in {0, 1} /\ x2 \in {0, 1} /\ x3 \in {0, 1} /\ x4 \in {0, 1}
      /\ x5 \in {0, 1} /\ x6 \in {0, 1} /\ x7 \in {0, 1} /\ x8 \in {0, 1}
      /\ ByteAt(in, 3 * g) = 128 * x1 + 64 * x2 + 32 * x3 + 16 * x4 + 8 * x5 + 4 * x6 + 2 * x7 + x8
  <2>1. PICK h \in Nat, k \in Nat : h = 3 * g /\ k = i /\ k = 8 * h BY <1>1
  <2>2. /\ \A w \in 0..7 : Bit(in, k + w) \in {0, 1}
        /\ ByteAt(in, h) = 128 * Bit(in, k) + 64 * Bit(in, k + 1) + 32 * Bit(in, k + 2) + 16 * Bit(in, k + 3)
             + 8 * Bit(in, k + 4) + 4 * Bit(in, k + 5) + 2 * Bit(in, k + 6) + Bit(in, k + 7)
    BY <2>1, BitsOfByte
  <2>3. /\ k + 0 = k /\ k + 1 = i + 1 /\ k + 2 = i + 2 /\ k + 3 = i + 3
        /\ k + 4 = i + 4 /\ k + 5 = i + 5 /\ k + 6 = i + 6 /\ k + 7 = i + 7
    BY <1>1, <2>1
  <2>4. /\ 0 \in 0..7 /\ 1 \in 0..7 /\ 2 \in 0..7 /\ 3 \in 0..7
        /\ 4 \in 0..7 /\ 5 \in 0..7 /\ 6 \in 0..7 /\ 7 \in 0..7
    OBVIOUS
  <2> QED BY <2>1, <2>2, <2>3, <2>4, Zenon
<1>3. /\ y1 \in {0, 1} /\ y2 \in {0, 1} /\ y3 \in {0, 1} /\ y4 \in {0, 1}
      /\ y5 \in {0, 1} /\ y6 \in {0, 1} /\ y7 \in {0, 1} /\ y8 \in {0, 1}
      /\ ByteAt(in, 3 * g + 1) = 128 * y1 + 64 * y2 + 32 * y3 + 16 * y4 + 8 * y5 + 4 * y6 + 2 * y7 + y8
  <2>1. PICK h \in Nat, k \in Nat : h = 3 * g + 1 /\ k = i + 8 /\ k = 8 * h BY <1>1
  <2>2. /\ \A w \in 0..7 : Bit(in, k + w) \in {0, 1}
        /\ ByteAt(in, h) = 128 * Bit(in, k) + 64 * Bit(in, k + 1) + 32 * Bit(in, k + 2) + 16 * Bit(in, k + 3)
             + 8 * Bit(in, k + 4) + 4 * Bit(in, k + 5) + 2 * Bit(in, k + 6) + Bit(in, k + 7)
    BY <2>1, BitsOfByte
  <2>3. /\ k + 0 = k /\ k + 1 = i + 9 /\ k + 2 = i + 10 /\ k + 3 = i + 11
        /\ k + 4 = i + 12 /\ k + 5 = i + 13 /\ k + 6 = i + 14 /\ k + 7 = i + 15
    BY <1>1, <2>1
  <2>4. /\ 0 \in 0..7 /\ 1 \in 0..7 /\ 2 \in 0..7 /\ 3 \in 0..7
        /\ 4 \in 0..7 /\ 5 \in 0..7 /\ 6 \in 0..7 /\ 7 \in 0..7
    OBVIOUS
  <2> QED BY <2>1, <2>2, <2>3, <2>4, Zenon
<1>4. /\ z1 \in {0, 1} /\ z2 \in {0, 1} /\ z3 \in {0, 1} /\ z4 \in {0, 1}
      /\ z5 \in {0, 1} /\ z6 \in {0, 1} /\ z7 \in {0, 1} /\ z8 \in {0, 1}
      /\ ByteAt(in, 3 * g + 2) = 128 * z1 + 64 * z2 + 32 * z3 + 16 * z4 + 8 * z5 + 4 * z6 + 2 * z7 + z8
  <2>1. PICK h \in Nat, k \in Nat : h = 3 * g + 2 /\ k = i + 16 /\ k = 8 * h BY <1>1
  <2>2. /\ \A w \in 0..7 : Bit(in, k + w) \in {0, 1}
        /\ ByteAt(in, h) = 128 * Bit(in, k) + 64 * Bit(in, k + 1) + 32 * Bit(in, k + 2) + 16 * Bit(in, k + 3)
             + 8 * Bit(in, k + 4) + 4 * Bit(in, k + 5) + 2 * Bit(in, k + 6) + Bit(in, k + 7)
    BY <2>1, BitsOfByte
  <2>3. /\ k + 0 = k /\ k + 1 = i + 17 /\ k + 2 = i + 18 /\ k + 3 = i + 19
        /\ k + 4 = i + 20 /\ k + 5 = i + 21 /\ k + 6 = i + 22 /\ k + 7 = i + 23
    BY <1>1, <2>1
  <2>4. /\ 0 \in 0..7 /\ 1 \in 0..7 /\ 2 \in 0..7 /\ 3 \in 0..7
        /\ 4 \in 0..7 /\ 5 \in 0..7 /\ 6 \in 0..7 /\ 7 \in 0..7
    OBVIOUS
  <2> QED BY <2>1, <2>2, <2>3, <2>4, Zenon
<1>5. Sextet(in, 4 * g) = 32 * x1 + 16 * x2 + 8 * x3 + 4 * x4 + 2 * x5 + x6
  <2>1. PICK j \in Nat, k \in Nat : j = 4 * g /\ k = i /\ k = 6 * j BY <1>1
  <2>2. k + 1 = i + 1 /\ k + 2 = i + 2 /\ k + 3 = i + 3 /\ k + 4 = i + 4 /\ k + 5 = i + 5
    BY <1>1, <2>1
  <2>3. Sextet(in, j) = 32 * Bit(in, k) + 16 * Bit(in, k + 1) + 8 * Bit(in, k + 2)
                            + 4 * Bit(in, k + 3) + 2 * Bit(in, k + 4) + Bit(in, k + 5)
    BY <2>1, SextetBits
  <2> QED BY <2>1, <2>2, <2>3, Zenon
<1>6. Sextet(in, 4 * g + 1) = 32 * x7 + 16 * x8 + 8 * y1 + 4 * y2 + 2 * y3 + y4
  <2>1. PICK j \in Nat, k \in Nat : j = 4 * g + 1 /\ k = i + 6 /\ k = 6 * j BY <1>1
  <2>2. k + 1 = i + 7 /\ k + 2 = i + 8 /\ k + 3 = i + 9 /\ k + 4 = i + 10 /\ k + 5 = i + 11
    BY <1>1, <2>1
  <2>3. Sextet(in, j) = 32 * Bit(in, k) + 16 * Bit(in, k + 1) + 8 * Bit(in, k + 2)
                            + 4 * Bit(in, k + 3) + 2 * Bit(in, k + 4) + Bit(in, k + 5)
    BY <2>1, SextetBits
  <2> QED BY <2>1, <2>2, <2>3, Zenon
<1>7. Sextet(in, 4 * g + 2) = 32 * y5 + 16 * y6 + 8 * y7 + 4 * y8 + 2 * z1 + z2
  <2>1. PICK j \in Nat, k \in Nat : j = 4 * g + 2 /\ k = i + 12 /\ k = 6 * j BY <1>1
  <2>2. k + 1 = i + 13 /\ k + 2 = i + 14 /\ k + 3 = i + 15 /\ k + 4 = i + 16 /\ k + 5 = i + 17
    BY <1>1, <2>1
  <2>3. Sextet(in, j) = 32 * Bit(in, k) + 16 * Bit(in, k + 1) + 8 * Bit(in, k + 2)
                            + 4 * Bit(in, k + 3) + 2 * Bit(in, k + 4) + Bit(in, k + 5)
    BY <2>1, SextetBits
  <2> QED BY <2>1, <2>2, <2>3, Zenon
<1>8. Sextet(in, 4 * g + 3) = 32 * z3 + 16 * z4 + 8 * z5 + 4 * z6 + 2 * z7 + z8
  <2>1. PICK j \in Nat, k \in Nat : j = 4 * g + 3 /\ k = i + 18 /\ k = 6 * j BY <1>1
  <2>2. k + 1 = i + 19 /\ k + 2 = i + 20 /\ k + 3 = i + 21 /\ k + 4 = i + 22 /\ k + 5 = i + 23
    BY <1>1, <2>1
  <2>3. Sextet(in, j) = 32 * Bit(in, k) + 16 * Bit(in, k + 1) + 8 * Bit(in, k + 2)
                            + 4 * Bit(in, k + 3) + 2 * Bit(in, k + 4) + Bit(in, k + 5)
    BY <2>1, SextetBits
  <2> QED BY <2>1, <2>2, <2>3, Zenon
<1> HIDE DEF x1, x2, x3, x4, x5, x6, x7, x8, 
             y1, y2, y3, y4, y5, y6, y7, y8, 
             z1, z2, z3, z4, z5, z6, z7, z8
<1>9. PICK s \in 0..63, e \in 0..3 :
         s = 32 * x1 + 16 * x2 + 8 * x3 + 4 * x4 + 2 * x5 + x6 /\ e = 2 * x7 + x8
  BY <1>2, SMT
<1>10. PICK f \in 0..15, h \in 0..15 :
         f = 8 * y1 + 4 * y2 + 2 * y3 + y4 /\ h = 8 * y5 + 4 * y6 + 2 * y7 + y8
  BY <1>3, SMT
<1>11. PICK k \in 0..3, l \in 0..63 :
         k = 2 * z1 + z2 /\ l = 32 * z3 + 16 * z4 + 8 * z5 + 4 * z6 + 2 * z7 + z8
  BY <1>4, SMT
<1>12. Sextet(in, 4 * g) = s /\ Sextet(in, 4 * g + 3) = l
  BY <1>5, <1>8, <1>9, <1>11
<1>13. Sextet(in, 4 * g + 1) = 16 * e + f
  <2>1. 32 * x7 + 16 * x8 + 8 * y1 + 4 * y2 + 2 * y3 + y4 = 16 * e + f BY <1>2, <1>3, <1>9, <1>10, SMT
  <2> QED BY <1>6, <2>1
<1>14. Sextet(in, 4 * g + 2) = 4 * h + k
  <2>1. 32 * y5 + 16 * y6 + 8 * y7 + 4 * y8 + 2 * z1 + z2 = 4 * h + k BY <1>3, <1>4, <1>10, <1>11, SMT
  <2> QED BY <1>7, <2>1
<1>15. ByteAt(in, 3 * g) = 4 * s + e
  <2>1. 128 * x1 + 64 * x2 + 32 * x3 + 16 * x4 + 8 * x5 + 4 * x6 + 2 * x7 + x8 = 4 * s + e
    BY <1>2, <1>9, SMT
  <2> QED BY <1>2, <2>1
<1>16. ByteAt(in, 3 * g + 1) = 16 * f + h
  <2>1. 128 * y1 + 64 * y2 + 32 * y3 + 16 * y4 + 8 * y5 + 4 * y6 + 2 * y7 + y8 = 16 * f + h
    BY <1>3, <1>10, SMT
  <2> QED BY <1>3, <2>1
<1>17. ByteAt(in, 3 * g + 2) = 64 * k + l
  <2>1. 128 * z1 + 64 * z2 + 32 * z3 + 16 * z4 + 8 * z5 + 4 * z6 + 2 * z7 + z8 = 64 * k + l
    BY <1>4, <1>11, SMT
  <2> QED BY <1>4, <2>1
<1>18. Regrouped(4 * s + e, 16 * f + h, 64 * k + l, s, 16 * e + f, 4 * h + k, l)
  BY GroupArithmetic
<1> QED BY <1>12, <1>13, <1>14, <1>15, <1>16, <1>17, <1>18, Zenon

\* Behind the last byte there are no bits.
LEMMA NoBits ==
  ASSUME NEW in \in Seq(Octet), NEW j \in Nat, 6 * j >= 8 * Len(in)
  PROVE  Sextet(in, j) = 0
<1>1. ASSUME NEW i \in Nat, i >= 6 * j PROVE Bit(in, i) = 0
  <2>1. Len(in) \in Nat /\ i >= 8 * Len(in) BY <1>1
  <2>2. ~ (i \div 8 < Len(in)) BY <2>1, SMT
  <2> QED BY <2>2 DEF Bit
<1>2. \A t \in 0..5 : 6 * j + t \in Nat /\ 6 * j + t >= 6 * j OBVIOUS
<1>3. 6 * j + 0 = 6 * j /\ {0, 1, 2, 3, 4, 5} \subseteq 0..5 OBVIOUS
<1>4. /\ Bit(in, 6 * j) = 0 /\ Bit(in, 6 * j + 1) = 0 /\ Bit(in, 6 * j + 2) = 0
      /\ Bit(in, 6 * j + 3) = 0 /\ Bit(in, 6 * j + 4) = 0 /\ Bit(in, 6 * j + 5) = 0
  BY <1>1, <1>2, <1>3
<1> QED BY <1>4 DEF Sextet

LEMMA DigitsOfGroup ==
  ASSUME NEW a, NEW b, NEW c, NEW s0, NEW s1, NEW s2, NEW s3,
         Regrouped(a, b, c, s0, s1, s2, s3)
  PROVE  /\ Digit(0, a, b, c) = s0 /\ Digit(1, a, b, c) = s1
         /\ Digit(2, a, b, c) = s2 /\ Digit(3, a, b, c) = s3
         /\ SaltDigit(0, a, b, c) = s0 /\ SaltDigit(1, a, b, c) = s1
         /\ SaltDigit(2, a, b, c) = s2 /\ SaltDigit(3, a, b, c) = s3
<1>1. Digit(0, a, b, c) = s0 /\ Digit(1, a, b, c) = s1
  BY SMT DEF Digit, Regrouped
<1>2. Digit(2, a, b, c) = s2 /\ Digit(3, a, b, c) = s3
  BY SMT DEF Digit, Regrouped
<1>3. PICK u \in Nat : u = a * 65536 + b * 256 + c /\ u = 262144 * s0 + 4096 * s1 + 64 * s2 + s3
  BY DEF Regrouped
<1>4. s0 \in 0..63 /\ s1 \in 0..63 /\ s2 \in 0..63 /\ s3 \in 0..63
  BY DEF Regrouped
<1>5. /\ u \div 262144 = s0 /\ u \div 4096 = 64 * s0 + s1
      /\ u \div 64 = 64 * (64 * s0 + s1) + s2 /\ u \div 1 = u
  <2>1. u \div 262144 = s0 BY <1>3, <1>4, SMT
  <2>2. u \div 4096 = 64 * s0 + s1 BY <1>3, <1>4, SMT
  <2>3. u \div 64 = 64 * (64 * s0 + s1) + s2 BY <1>3, <1>4, SMT
  <2>4. u \div 1 = u BY SMT
  <2> QED BY <2>1, <2>2, <2>3, <2>4
<1>6. s0 % 64 = s0 /\ (64 * s0 + s1) % 64 = s1
  BY <1>4, SMT
<1>7. (64 * (64 * s0 + s1) + s2) % 64 = s2
  <2>1. PICK q \in Nat : q = 64 * s0 + s1 BY <1>4
  <2>2. (64 * q + s2) % 64 = s2 BY <1>4, SMT
  <2> QED BY <2>1, <2>2
<1>8. u % 64 = s3
  <2>1. PICK q \in Nat : q = 4096 * s0 + 64 * s1 + s2 BY <1>4
  <2>2. u = 64 * q + s3 BY <1>3, <1>4, <2>1, SMT
  <2> QED BY <1>4, <2>2, SMT
<1>9. /\ Scale[0 + 1] = 262144 /\ Scale[1 + 1] = 4096
      /\ Scale[2 + 1] = 64 /\ Scale[3 + 1] = 1
  BY SMT DEF Scale
<1>10. \A r : SaltDigit(r, a, b, c) = (u \div Scale[r + 1]) % 64
  BY <1>3 DEF SaltDigit
<1>11. SaltDigit(0, a, b, c) = s0
  BY <1>5, <1>6, <1>9, <1>10
<1>12. SaltDigit(1, a, b, c) = s1
  BY <1>5, <1>6, <1>9, <1>10
<1>13. SaltDigit(2, a, b, c) = s2
  BY <1>5, <1>7, <1>9, <1>10
<1>14. SaltDigit(3, a, b, c) = s3
  BY <1>5, <1>8, <1>9, <1>10
<1> QED BY <1>1, <1>2, <1>11, <1>12, <1>13, <1>14

\* Digit j of either encoder is the six bits that RFC 4648 asks for.
LEMMA SameDigits ==
  ASSUME NEW in \in Seq(Octet), NEW j \in Nat
  PROVE  LET g == 3 * (j \div 4)
             a == ByteAt(in, g)  b == ByteAt(in, g + 1)  c == ByteAt(in, g + 2)
         IN  /\ Digit(j % 4, a, b, c) = Sextet(in, j)
             /\ SaltDigit(j % 4, a, b, c) = Sextet(in, j)
             /\ Sextet(in, j) \in 0..63
<1>1. PICK q \in Nat, r \in {0, 1, 2, 3} : j = 4 * q + r /\ j \div 4 = q /\ j % 4 = r
  BY SMT
<1>2. PICK a, b, c : a = ByteAt(in, 3 * q) /\ b = ByteAt(in, 3 * q + 1) /\ c = ByteAt(in, 3 * q + 2)
  OBVIOUS
<1>3. PICK s0, s1, s2, s3 : /\ s0 = Sextet(in, 4 * q) /\ s1 = Sextet(in, 4 * q + 1)
                            /\ s2 = Sextet(in, 4 * q + 2) /\ s3 = Sextet(in, 4 * q + 3)
  OBVIOUS
<1>4. Regrouped(a, b, c, s0, s1, s2, s3)
  BY <1>2, <1>3, Group
<1>5. s0 \in 0..63 /\ s1 \in 0..63 /\ s2 \in 0..63 /\ s3 \in 0..63
  BY <1>4 DEF Regrouped
<1>6. /\ Digit(0, a, b, c) = s0 /\ Digit(1, a, b, c) = s1
      /\ Digit(2, a, b, c) = s2 /\ Digit(3, a, b, c) = s3
      /\ SaltDigit(0, a, b, c) = s0 /\ SaltDigit(1, a, b, c) = s1
      /\ SaltDigit(2, a, b, c) = s2 /\ SaltDigit(3, a, b, c) = s3
  BY <1>4, DigitsOfGroup
<1>7. /\ Digit(r, a, b, c) = Sextet(in, j) /\ SaltDigit(r, a, b, c) = Sextet(in, j)
      /\ Sextet(in, j) \in 0..63
  <2>1. CASE r = 0
    <3>1. j = 4 * q BY <1>1, <2>1
    <3> QED BY <1>3, <1>5, <1>6, <2>1, <3>1, Zenon
  <2>2. CASE r = 1
    BY <1>1, <1>3, <1>5, <1>6, <2>2, Zenon
  <2>3. CASE r = 2
    BY <1>1, <1>3, <1>5, <1>6, <2>3, Zenon
  <2>4. CASE r = 3
    BY <1>1, <1>3, <1>5, <1>6, <2>4, Zenon
  <2> QED BY <2>1, <2>2, <2>3, <2>4
<1> QED BY <1>1, <1>2, <1>7, Zenon

\* ws_handshake.c 146-161 and bcrypt_wrapper.c 11-26, for every input.
THEOREM EveryInputEncoded ==
  ASSUME NEW in \in Seq(Octet)
  PROVE  EncodesUpToPadding(in)
<1>1. PICK n \in Nat : n = Len(in) OBVIOUS
<1>2. PICK all \in Nat, some \in Nat :
        /\ all = 4 * ((n + 2) \div 3) /\ some = (8 * n + 5) \div 6 /\ some <= all
        /\ \A j \in 1..all : j <= some <=> 6 * (j - 1) < 8 * n
  BY SMT
<1>3. PICK ref : ref = ReferenceBase64(in) OBVIOUS
<1>4. PICK key : key = Base64(in) OBVIOUS
<1>5. PICK salt : salt = EncodeBase64(in) OBVIOUS
<1>6. ref = [j \in 1..all |-> IF 6 * (j - 1) < 8 * n THEN Sextet(in, j - 1) ELSE Padding]
  BY <1>1, <1>2, <1>3 DEF ReferenceBase64
<1>7. key = [j \in 1..all |-> Sextet(in, j - 1)]
  <2>1. key = [j \in 1..all |->
                 LET g == 3 * ((j - 1) \div 4)
                 IN  Digit((j - 1) % 4, ByteAt(in, g), ByteAt(in, g + 1), ByteAt(in, g + 2))]
    BY <1>1, <1>2, <1>4 DEF Base64
  <2>2. \A j \in 1..all : j - 1 \in Nat BY <1>2
  <2> QED BY <2>1, <2>2, SameDigits, Zenon
<1>8. salt = [j \in 1..some |-> Sextet(in, j - 1)]
  <2>1. salt = [j \in 1..some |->
                  LET g == 3 * ((j - 1) \div 4)
                  IN  SaltDigit((j - 1) % 4, ByteAt(in, g), ByteAt(in, g + 1), ByteAt(in, g + 2))]
    BY <1>1, <1>2, <1>5 DEF EncodeBase64
  <2>2. \A j \in 1..some : j - 1 \in Nat BY <1>2
  <2> QED BY <2>1, <2>2, SameDigits, Zenon
<1>9. ASSUME NEW j \in 1..all
      PROVE  /\ key[j] = IF ref[j] = Padding THEN 0 ELSE ref[j]
             /\ ref[j] # Padding <=> j <= some
             /\ j <= some => ref[j] = Sextet(in, j - 1)
  <2>1. PICK i \in Nat : i = j - 1 BY <1>2
  <2>2. PICK v \in 0..63 : v = Sextet(in, i) BY SameDigits
  <2>3. v # Padding
    <3>1. v # 64 OBVIOUS
    <3> QED BY <3>1 DEF Padding
  <2>4. key[j] = v BY <1>7, <2>1, <2>2
  <2>5. ref[j] = IF 6 * i < 8 * n THEN v ELSE Padding BY <1>6, <2>1, <2>2
  <2>6. j <= some <=> 6 * i < 8 * n BY <1>2, <2>1
  <2>7. ~ (6 * i < 8 * n) => v = 0
    <3>1. ASSUME ~ (6 * i < 8 * n) PROVE 6 * i >= 8 * n BY <3>1
    <3> QED BY <1>1, <2>2, <3>1, NoBits
  <2>8. CASE 6 * i < 8 * n BY <2>1, <2>2, <2>3, <2>4, <2>5, <2>6, <2>8, Zenon
  <2>9. CASE ~ (6 * i < 8 * n) BY <2>1, <2>2, <2>3, <2>4, <2>5, <2>6, <2>7, <2>9, Zenon
  <2> QED BY <2>8, <2>9
<1>10. DOMAIN ref = 1..all
  BY <1>6
<1>11. key = [j \in DOMAIN ref |-> IF ref[j] = Padding THEN 0 ELSE ref[j]]
  <2>1. key = [j \in 1..all |-> key[j]] BY <1>7
  <2> QED BY <1>9, <1>10, <2>1, Zenon
<1>12. {d \in DOMAIN ref : ref[d] # Padding} = 1..some
  <2>1. 1..some = {d \in 1..all : d <= some} BY <1>2
  <2> QED BY <1>9, <1>10, <2>1, Zenon
<1>13. salt = [j \in {d \in DOMAIN ref : ref[d] # Padding} |-> ref[j]]
  <2>1. \A j \in 1..some : j \in 1..all /\ j <= some BY <1>2
  <2>2. \A j \in 1..some : ref[j] = Sextet(in, j - 1) BY <1>9, <2>1
  <2> QED BY <1>8, <1>12, <2>2, Zenon
<1> QED BY <1>3, <1>4, <1>5, <1>11, <1>13 DEF EncodesUpToPadding

\* ws_handshake.c 146-161, bcrypt_wrapper.c 11-49: and so for the octets of any
\* instance; the salt fits its buffer.
THEOREM KeysAreEncoded == Spec => []Base64AtStart
<1>1. SaltLength <= SaltBuffer
  <2>1. Len([i \in 1..16 |-> 0]) = 16 OBVIOUS
  <2>2. PICK in : in = [i \in 1..16 |-> 0] OBVIOUS
  <2>3. (8 * Len(in) + 5) \div 6 = 22 BY <2>1, <2>2, SMT
  <2>4. Len(EncodeBase64(in)) = 22 BY <2>3 DEF EncodeBase64
  <2>5. SaltLength = 7 + 22 + 1 BY <2>2, <2>4 DEF SaltLength
  <2> QED BY <2>5 DEF SaltBuffer
<1>2. ASSUME NEW n \in 0..4, NEW in \in [1..n -> Octets] PROVE EncodesUpToPadding(in)
  <2>1. Octets \subseteq Octet BY FormatAssumption DEF Octet
  <2>2. in \in Seq(Octet)
    <3>1. n \in Nat /\ \A i \in 1..n : in[i] \in Octet BY <2>1
    <3>2. in = [i \in 1..n |-> in[i]] OBVIOUS
    <3> QED BY <3>1, <3>2
  <2> QED BY <2>2, EveryInputEncoded
<1>3. Base64AtStart
  BY <1>1, <1>2 DEF Base64AtStart, AtStart, Base64UpToPadding
<1> QED BY <1>3, PTL

--------------------------------------------------------------------------------
(* The bits of a half *)

Bits == [1..16 -> 0..1]
Halves == {n \in Nat : n <= 65535}

LEMMA HalfFacts == \A x : x \in Halves <=> x \in Nat /\ x <= 65535
BY DEF Halves

LEMMA PowersOfTwo ==
  /\ Two[1] = 1 /\ Two[2] = 2 /\ Two[3] = 4 /\ Two[4] = 8 /\ Two[5] = 16 /\ Two[6] = 32
  /\ Two[7] = 64 /\ Two[8] = 128 /\ Two[9] = 256 /\ Two[10] = 512 /\ Two[11] = 1024
  /\ Two[12] = 2048 /\ Two[13] = 4096 /\ Two[14] = 8192 /\ Two[15] = 16384
  /\ Two[16] = 32768
BY DEF Two

LEMMA Sixteen == \A k \in 1..16 : \/ k = 1 \/ k = 2 \/ k = 3 \/ k = 4 \/ k = 5 \/ k = 6
                                  \/ k = 7 \/ k = 8 \/ k = 9 \/ k = 10 \/ k = 11
                                  \/ k = 12 \/ k = 13 \/ k = 14 \/ k = 15 \/ k = 16
OBVIOUS

\* The bits of a half that was put together are those it was made of.
LEMMA BitsBack ==
  ASSUME NEW b \in Bits
  PROVE  Half(b) \in Halves /\ \A k \in 1..16 : BitOf(Half(b), k) = b[k]
<1>0. \A k \in 1..16 : b[k] \in 0..1
  BY DEF Bits
<1>p. PICK b1 \in 0..1, b2 \in 0..1, b3 \in 0..1, b4 \in 0..1, b5 \in 0..1, b6 \in 0..1,
           b7 \in 0..1, b8 \in 0..1, b9 \in 0..1, b10 \in 0..1, b11 \in 0..1,
           b12 \in 0..1, b13 \in 0..1, b14 \in 0..1, b15 \in 0..1, b16 \in 0..1 :
        /\ b1 = b[1] /\ b2 = b[2] /\ b3 = b[3] /\ b4 = b[4] /\ b5 = b[5] /\ b6 = b[6]
        /\ b7 = b[7] /\ b8 = b[8] /\ b9 = b[9] /\ b10 = b[10] /\ b11 = b[11]
        /\ b12 = b[12] /\ b13 = b[13] /\ b14 = b[14] /\ b15 = b[15] /\ b16 = b[16]
  <2>1. /\ b[1] \in 0..1 /\ b[2] \in 0..1 /\ b[3] \in 0..1 /\ b[4] \in 0..1
        /\ b[5] \in 0..1 /\ b[6] \in 0..1 /\ b[7] \in 0..1 /\ b[8] \in 0..1
        /\ b[9] \in 0..1 /\ b[10] \in 0..1 /\ b[11] \in 0..1 /\ b[12] \in 0..1
        /\ b[13] \in 0..1 /\ b[14] \in 0..1 /\ b[15] \in 0..1 /\ b[16] \in 0..1
    BY <1>0
  <2> QED BY <2>1, Zenon
<1> DEFINE h == b1 + 2 * b2 + 4 * b3 + 8 * b4 + 16 * b5 + 32 * b6 + 64 * b7 + 128 * b8
                + 256 * b9 + 512 * b10 + 1024 * b11 + 2048 * b12 + 4096 * b13 + 8192 * b14
                + 16384 * b15 + 32768 * b16
<1>h. Half(b) = h
  BY <1>p DEF Half
<1>1. (h \div 1) % 2 = b1
  BY SMTT(60)
<1>2. (h \div 2) % 2 = b2
  BY SMTT(60)
<1>3. (h \div 4) % 2 = b3
  BY SMTT(60)
<1>4. (h \div 8) % 2 = b4
  BY SMTT(60)
<1>5. (h \div 16) % 2 = b5
  BY SMTT(60)
<1>6. (h \div 32) % 2 = b6
  BY SMTT(60)
<1>7. (h \div 64) % 2 = b7
  BY SMTT(60)
<1>8. (h \div 128) % 2 = b8
  BY SMTT(60)
<1>9. (h \div 256) % 2 = b9
  BY SMTT(60)
<1>10. (h \div 512) % 2 = b10
  BY SMTT(60)
<1>11. (h \div 1024) % 2 = b11
  BY SMTT(60)
<1>12. (h \div 2048) % 2 = b12
  BY SMTT(60)
<1>13. (h \div 4096) % 2 = b13
  BY SMTT(60)
<1>14. (h \div 8192) % 2 = b14
  BY SMTT(60)
<1>15. (h \div 16384) % 2 = b15
  BY SMTT(60)
<1>16. (h \div 32768) % 2 = b16
  BY SMTT(60)
<1>17. h \in Nat /\ h <= 65535
  OBVIOUS
<1> HIDE DEF h
<1>18. BitOf(h, 1) = b[1]
  BY <1>1, <1>p, PowersOfTwo DEF BitOf
<1>19. BitOf(h, 2) = b[2]
  BY <1>2, <1>p, PowersOfTwo DEF BitOf
<1>20. BitOf(h, 3) = b[3]
  BY <1>3, <1>p, PowersOfTwo DEF BitOf
<1>21. BitOf(h, 4) = b[4]
  BY <1>4, <1>p, PowersOfTwo DEF BitOf
<1>22. BitOf(h, 5) = b[5]
  BY <1>5, <1>p, PowersOfTwo DEF BitOf
<1>23. BitOf(h, 6) = b[6]
  BY <1>6, <1>p, PowersOfTwo DEF BitOf
<1>24. BitOf(h, 7) = b[7]
  BY <1>7, <1>p, PowersOfTwo DEF BitOf
<1>25. BitOf(h, 8) = b[8]
  BY <1>8, <1>p, PowersOfTwo DEF BitOf
<1>26. BitOf(h, 9) = b[9]
  BY <1>9, <1>p, PowersOfTwo DEF BitOf
<1>27. BitOf(h, 10) = b[10]
  BY <1>10, <1>p, PowersOfTwo DEF BitOf
<1>28. BitOf(h, 11) = b[11]
  BY <1>11, <1>p, PowersOfTwo DEF BitOf
<1>29. BitOf(h, 12) = b[12]
  BY <1>12, <1>p, PowersOfTwo DEF BitOf
<1>30. BitOf(h, 13) = b[13]
  BY <1>13, <1>p, PowersOfTwo DEF BitOf
<1>31. BitOf(h, 14) = b[14]
  BY <1>14, <1>p, PowersOfTwo DEF BitOf
<1>32. BitOf(h, 15) = b[15]
  BY <1>15, <1>p, PowersOfTwo DEF BitOf
<1>33. BitOf(h, 16) = b[16]
  BY <1>16, <1>p, PowersOfTwo DEF BitOf
<1>34. \A k \in 1..16 : BitOf(h, k) = b[k]
  BY <1>18, <1>19, <1>20, <1>21, <1>22, <1>23, <1>24, <1>25, <1>26, <1>27, <1>28, <1>29,
     <1>30, <1>31, <1>32, <1>33, Sixteen, Zenon
<1> QED BY <1>17, <1>34, <1>h, HalfFacts

LEMMA TwoRange == \A k \in 1..16 : Two[k] \in Nat \ {0}
<1>1. /\ Two[1] \in Nat \ {0} /\ Two[2] \in Nat \ {0} /\ Two[3] \in Nat \ {0}
      /\ Two[4] \in Nat \ {0} /\ Two[5] \in Nat \ {0} /\ Two[6] \in Nat \ {0}
      /\ Two[7] \in Nat \ {0} /\ Two[8] \in Nat \ {0} /\ Two[9] \in Nat \ {0}
      /\ Two[10] \in Nat \ {0} /\ Two[11] \in Nat \ {0} /\ Two[12] \in Nat \ {0}
      /\ Two[13] \in Nat \ {0} /\ Two[14] \in Nat \ {0} /\ Two[15] \in Nat \ {0}
      /\ Two[16] \in Nat \ {0}
  BY PowersOfTwo
<1> QED BY <1>1, Sixteen, Zenon

LEMMA BitRange == \A x \in Halves : \A k \in 1..16 : BitOf(x, k) \in 0..1
<1> SUFFICES ASSUME NEW x \in Halves, NEW k \in 1..16 PROVE BitOf(x, k) \in 0..1
  OBVIOUS
<1> DEFINE w == Two[k]
<1>1. w \in Nat \ {0} /\ x \in Nat
  BY TwoRange, HalfFacts
<1> HIDE DEF w
<1>2. x \div w \in Int
  BY <1>1
<1> DEFINE q == x \div w
<1>3. q \in Int
  BY <1>2
<1> HIDE DEF q
<1>4. q % 2 \in 0..1
  BY <1>3
<1> QED BY <1>4 DEF BitOf, q, w

\* The bits of a half with every bit turned.
LEMMA NotBits ==
  ASSUME NEW x \in Halves
  PROVE  65535 - x \in Halves /\ \A k \in 1..16 : BitOf(65535 - x, k) = 1 - BitOf(x, k)
<1>0. x \in Nat /\ x <= 65535
  BY HalfFacts
<1>1. ((65535 - x) \div 1) % 2 = 1 - ((x \div 1) % 2)
  BY <1>0, SMT
<1>2. ((65535 - x) \div 2) % 2 = 1 - ((x \div 2) % 2)
  BY <1>0, SMT
<1>3. ((65535 - x) \div 4) % 2 = 1 - ((x \div 4) % 2)
  BY <1>0, SMT
<1>4. ((65535 - x) \div 8) % 2 = 1 - ((x \div 8) % 2)
  BY <1>0, SMT
<1>5. ((65535 - x) \div 16) % 2 = 1 - ((x \div 16) % 2)
  BY <1>0, SMT
<1>6. ((65535 - x) \div 32) % 2 = 1 - ((x \div 32) % 2)
  BY <1>0, SMT
<1>7. ((65535 - x) \div 64) % 2 = 1 - ((x \div 64) % 2)
  BY <1>0, SMT
<1>8. ((65535 - x) \div 128) % 2 = 1 - ((x \div 128) % 2)
  BY <1>0, SMT
<1>9. ((65535 - x) \div 256) % 2 = 1 - ((x \div 256) % 2)
  BY <1>0, SMT
<1>10. ((65535 - x) \div 512) % 2 = 1 - ((x \div 512) % 2)
  BY <1>0, SMT
<1>11. ((65535 - x) \div 1024) % 2 = 1 - ((x \div 1024) % 2)
  BY <1>0, SMT
<1>12. ((65535 - x) \div 2048) % 2 = 1 - ((x \div 2048) % 2)
  BY <1>0, SMT
<1>13. ((65535 - x) \div 4096) % 2 = 1 - ((x \div 4096) % 2)
  BY <1>0, SMT
<1>14. ((65535 - x) \div 8192) % 2 = 1 - ((x \div 8192) % 2)
  BY <1>0, SMT
<1>15. ((65535 - x) \div 16384) % 2 = 1 - ((x \div 16384) % 2)
  BY <1>0, SMT
<1>16. ((65535 - x) \div 32768) % 2 = 1 - ((x \div 32768) % 2)
  BY <1>0, SMT
<1>17. 65535 - x \in Halves
  BY <1>0, HalfFacts
<1> DEFINE y == 65535 - x
<1> HIDE DEF y
<1>18. BitOf(y, 1) = 1 - BitOf(x, 1)
  BY <1>1, PowersOfTwo DEF BitOf, y
<1>19. BitOf(y, 2) = 1 - BitOf(x, 2)
  BY <1>2, PowersOfTwo DEF BitOf, y
<1>20. BitOf(y, 3) = 1 - BitOf(x, 3)
  BY <1>3, PowersOfTwo DEF BitOf, y
<1>21. BitOf(y, 4) = 1 - BitOf(x, 4)
  BY <1>4, PowersOfTwo DEF BitOf, y
<1>22. BitOf(y, 5) = 1 - BitOf(x, 5)
  BY <1>5, PowersOfTwo DEF BitOf, y
<1>23. BitOf(y, 6) = 1 - BitOf(x, 6)
  BY <1>6, PowersOfTwo DEF BitOf, y
<1>24. BitOf(y, 7) = 1 - BitOf(x, 7)
  BY <1>7, PowersOfTwo DEF BitOf, y
<1>25. BitOf(y, 8) = 1 - BitOf(x, 8)
  BY <1>8, PowersOfTwo DEF BitOf, y
<1>26. BitOf(y, 9) = 1 - BitOf(x, 9)
  BY <1>9, PowersOfTwo DEF BitOf, y
<1>27. BitOf(y, 10) = 1 - BitOf(x, 10)
  BY <1>10, PowersOfTwo DEF BitOf, y
<1>28. BitOf(y, 11) = 1 - BitOf(x, 11)
  BY <1>11, PowersOfTwo DEF BitOf, y
<1>29. BitOf(y, 12) = 1 - BitOf(x, 12)
  BY <1>12, PowersOfTwo DEF BitOf, y
<1>30. BitOf(y, 13) = 1 - BitOf(x, 13)
  BY <1>13, PowersOfTwo DEF BitOf, y
<1>31. BitOf(y, 14) = 1 - BitOf(x, 14)
  BY <1>14, PowersOfTwo DEF BitOf, y
<1>32. BitOf(y, 15) = 1 - BitOf(x, 15)
  BY <1>15, PowersOfTwo DEF BitOf, y
<1>33. BitOf(y, 16) = 1 - BitOf(x, 16)
  BY <1>16, PowersOfTwo DEF BitOf, y
<1>34. \A k \in 1..16 : BitOf(y, k) = 1 - BitOf(x, k)
  BY <1>18, <1>19, <1>20, <1>21, <1>22, <1>23, <1>24, <1>25, <1>26, <1>27, <1>28, <1>29,
     <1>30, <1>31, <1>32, <1>33, Sixteen, Zenon
<1> QED BY <1>17, <1>34 DEF y

\* The bits of the operators.
LEMMA XorBits ==
  ASSUME NEW x, NEW y
  PROVE  /\ XorH(x, y) \in Halves
         /\ \A k \in 1..16 : BitOf(XorH(x, y), k) = IF BitOf(x, k) = BitOf(y, k) THEN 0 ELSE 1
<1>1. [k \in 1..16 |-> IF BitOf(x, k) = BitOf(y, k) THEN 0 ELSE 1] \in Bits
  BY DEF Bits
<1> QED BY <1>1, BitsBack DEF XorH

LEMMA AndBits ==
  ASSUME NEW x, NEW y
  PROVE  /\ AndH(x, y) \in Halves
         /\ \A k \in 1..16 : BitOf(AndH(x, y), k) = IF BitOf(x, k) = 1 /\ BitOf(y, k) = 1 THEN 1 ELSE 0
<1>1. [k \in 1..16 |-> IF BitOf(x, k) = 1 /\ BitOf(y, k) = 1 THEN 1 ELSE 0] \in Bits
  BY DEF Bits
<1> QED BY <1>1, BitsBack DEF AndH

LEMMA OrBits ==
  ASSUME NEW x, NEW y
  PROVE  /\ OrH(x, y) \in Halves
         /\ \A k \in 1..16 : BitOf(OrH(x, y), k) = IF BitOf(x, k) = 1 \/ BitOf(y, k) = 1 THEN 1 ELSE 0
<1>1. [k \in 1..16 |-> IF BitOf(x, k) = 1 \/ BitOf(y, k) = 1 THEN 1 ELSE 0] \in Bits
  BY DEF Bits
<1> QED BY <1>1, BitsBack DEF OrH

\* R0 and R1 choose between x and y by the bits of w.
LEMMA ChoiceOfHalves ==
  ASSUME NEW w \in Halves, NEW x \in Halves, NEW y \in Halves
  PROVE  XorH(AndH(w, XorH(x, y)), y) = XorH(AndH(w, x), AndH(65535 - w, y))
<1>1. ASSUME NEW k \in 1..16
      PROVE  (BitOf(AndH(w, XorH(x, y)), k) = BitOf(y, k))
               <=> (BitOf(AndH(w, x), k) = BitOf(AndH(65535 - w, y), k))
  <2>1. BitOf(w, k) \in 0..1 /\ BitOf(x, k) \in 0..1 /\ BitOf(y, k) \in 0..1
    BY BitRange
  <2>2. BitOf(65535 - w, k) = 1 - BitOf(w, k)
    BY NotBits
  <2> QED BY <2>1, <2>2, XorBits, AndBits
<1>2. [k \in 1..16 |-> IF BitOf(AndH(w, XorH(x, y)), k) = BitOf(y, k) THEN 0 ELSE 1]
        = [k \in 1..16 |-> IF BitOf(AndH(w, x), k) = BitOf(AndH(65535 - w, y), k) THEN 0 ELSE 1]
  BY <1>1
<1> QED BY <1>2 DEF XorH

\* R3 takes what two of three bits say.
LEMMA MajorityOfHalves ==
  ASSUME NEW w \in Halves, NEW x \in Halves, NEW y \in Halves
  PROVE  OrH(AndH(OrH(w, x), y), AndH(w, x)) = XorH(XorH(AndH(w, x), AndH(w, y)), AndH(x, y))
<1>1. ASSUME NEW k \in 1..16
      PROVE  (BitOf(AndH(OrH(w, x), y), k) = 1 \/ BitOf(AndH(w, x), k) = 1)
               <=> ~ (BitOf(XorH(AndH(w, x), AndH(w, y)), k) = BitOf(AndH(x, y), k))
  <2>1. BitOf(w, k) \in 0..1 /\ BitOf(x, k) \in 0..1 /\ BitOf(y, k) \in 0..1
    BY BitRange
  <2> QED BY <2>1, XorBits, AndBits, OrBits
<1>2. [k \in 1..16 |->
         IF BitOf(AndH(OrH(w, x), y), k) = 1 \/ BitOf(AndH(w, x), k) = 1 THEN 1 ELSE 0]
        = [k \in 1..16 |->
             IF BitOf(XorH(AndH(w, x), AndH(w, y)), k) = BitOf(AndH(x, y), k) THEN 0 ELSE 1]
  BY <1>1
<1> QED BY <1>2 DEF XorH, OrH

LEMMA XorOfHalves ==
  ASSUME NEW x \in Halves, NEW y \in Halves, NEW z \in Halves
  PROVE  XorH(XorH(x, y), z) = XorH(x, XorH(y, z))
<1>1. ASSUME NEW k \in 1..16
      PROVE  (BitOf(XorH(x, y), k) = BitOf(z, k)) <=> (BitOf(x, k) = BitOf(XorH(y, z), k))
  <2>1. BitOf(x, k) \in 0..1 /\ BitOf(y, k) \in 0..1 /\ BitOf(z, k) \in 0..1
    BY BitRange
  <2> QED BY <2>1, XorBits
<1>2. [k \in 1..16 |-> IF BitOf(XorH(x, y), k) = BitOf(z, k) THEN 0 ELSE 1]
        = [k \in 1..16 |-> IF BitOf(x, k) = BitOf(XorH(y, z), k) THEN 0 ELSE 1]
  BY <1>1
<1> QED BY <1>2 DEF XorH

--------------------------------------------------------------------------------
(* Words *)

Word == Halves \X Halves

LEMMA WordFacts ==
  ASSUME NEW x \in Word
  PROVE  x[1] \in Halves /\ x[2] \in Halves /\ x = <<x[1], x[2]>>
BY DEF Word

LEMMA WordOfHalves == \A a, b \in Halves : <<a, b>> \in Word /\ <<a, b>>[1] = a /\ <<a, b>>[2] = b
BY DEF Word

LEMMA BitsOfWords ==
  ASSUME NEW x, NEW y
  PROVE  XorW(x, y) \in Word /\ AndW(x, y) \in Word /\ OrW(x, y) \in Word
BY XorBits, AndBits, OrBits, WordOfHalves DEF XorW, AndW, OrW

LEMMA NotWord == \A x \in Word : NotW(x) \in Word
BY WordFacts, NotBits, WordOfHalves DEF NotW

LEMMA XorAssociative ==
  ASSUME NEW x \in Word, NEW y \in Word, NEW z \in Word
  PROVE  XorW(XorW(x, y), z) = XorW(x, XorW(y, z))
<1>1. x[1] \in Halves /\ x[2] \in Halves /\ y[1] \in Halves /\ y[2] \in Halves
      /\ z[1] \in Halves /\ z[2] \in Halves
  BY WordFacts
<1> QED BY <1>1, XorOfHalves DEF XorW

LEMMA ChoiceOfWords ==
  ASSUME NEW w \in Word, NEW x \in Word, NEW y \in Word
  PROVE  XorW(AndW(w, XorW(x, y)), y) = XorW(AndW(w, x), AndW(NotW(w), y))
<1>1. w[1] \in Halves /\ w[2] \in Halves /\ x[1] \in Halves /\ x[2] \in Halves
      /\ y[1] \in Halves /\ y[2] \in Halves
  BY WordFacts
<1> QED BY <1>1, ChoiceOfHalves DEF XorW, AndW, NotW

LEMMA MajorityOfWords ==
  ASSUME NEW w \in Word, NEW x \in Word, NEW y \in Word
  PROVE  OrW(AndW(OrW(w, x), y), AndW(w, x)) = XorW(XorW(AndW(w, x), AndW(w, y)), AndW(x, y))
<1>1. w[1] \in Halves /\ w[2] \in Halves /\ x[1] \in Halves /\ x[2] \in Halves
      /\ y[1] \in Halves /\ y[2] \in Halves
  BY WordFacts
<1> QED BY <1>1, MajorityOfHalves DEF XorW, AndW, OrW

\* The macros of the rounds compute the functions of the standard.
LEMMA MixedIsReference ==
  ASSUME NEW i \in Nat, NEW w \in Word, NEW x \in Word, NEW y \in Word
  PROVE  Mixed(i, w, x, y) = RefFunction(i, w, x, y) /\ Mixed(i, w, x, y) \in Word
<1>1. /\ XorW(AndW(w, XorW(x, y)), y) = XorW(AndW(w, x), AndW(NotW(w), y))
      /\ OrW(AndW(OrW(w, x), y), AndW(w, x)) = XorW(XorW(AndW(w, x), AndW(w, y)), AndW(x, y))
      /\ XorW(XorW(w, x), y) = XorW(w, XorW(x, y))
  BY ChoiceOfWords, MajorityOfWords, XorAssociative
<1>2. /\ XorW(AndW(w, XorW(x, y)), y) \in Word
      /\ OrW(AndW(OrW(w, x), y), AndW(w, x)) \in Word
      /\ XorW(XorW(w, x), y) \in Word
  BY BitsOfWords
<1>3. CASE i < 20
  BY <1>1, <1>2, <1>3 DEF Mixed, RefFunction
<1>4. CASE ~ (i < 20) /\ i \in 40..59
  BY <1>1, <1>2, <1>4 DEF Mixed, RefFunction
<1>5. CASE ~ (i < 20) /\ i \notin 40..59
  BY <1>1, <1>2, <1>5 DEF Mixed, RefFunction
<1> QED BY <1>3, <1>4, <1>5

\* Sums modulo 2^32, carried from half to half.
LEMMA Carry ==
  \A n \in Nat : /\ n % 65536 \in Nat /\ n % 65536 <= 65535 /\ n \div 65536 \in Nat
                 /\ n = 65536 * (n \div 65536) + (n % 65536)
BY SMT

LEMMA CarriedOver == \A u, v \in Nat : ((u % 65536) + v) % 65536 = (u + v) % 65536
BY SMT

LEMMA SumFacts ==
  ASSUME NEW x \in Word, NEW y \in Word
  PROVE  /\ Plus(x, y) \in Word
         /\ Plus(x, y)[1] = (x[1] + y[1] + ((x[2] + y[2]) \div 65536)) % 65536
         /\ Plus(x, y)[2] = (x[2] + y[2]) % 65536
<1>1. x[1] \in Nat /\ x[2] \in Nat /\ y[1] \in Nat /\ y[2] \in Nat
  BY WordFacts, HalfFacts
<1> DEFINE low == x[2] + y[2]
           high == x[1] + y[1] + (low \div 65536)
<1>2. low \in Nat
  BY <1>1
<1>3. low % 65536 \in Halves /\ low \div 65536 \in Nat
  <2> HIDE DEF low
  <2> QED BY <1>2, Carry, HalfFacts
<1>4. high \in Nat
  <2> HIDE DEF low
  <2> QED BY <1>1, <1>3
<1>5. high % 65536 \in Halves
  <2> HIDE DEF high
  <2> QED BY <1>4, Carry, HalfFacts
<1>6. Plus(x, y) = <<high % 65536, low % 65536>>
  BY DEF Plus
<1> HIDE DEF high, low
<1>7. Plus(x, y) \in Word /\ Plus(x, y)[1] = high % 65536 /\ Plus(x, y)[2] = low % 65536
  BY <1>3, <1>5, <1>6, WordOfHalves
<1> QED BY <1>7 DEF high, low

LEMMA SumCommutes == \A x, y \in Word : Plus(x, y) = Plus(y, x)
<1> SUFFICES ASSUME NEW x \in Word, NEW y \in Word PROVE Plus(x, y) = Plus(y, x)
  OBVIOUS
<1>1. x[1] \in Nat /\ x[2] \in Nat /\ y[1] \in Nat /\ y[2] \in Nat
  BY WordFacts, HalfFacts
<1>2. x[1] + y[1] = y[1] + x[1] /\ x[2] + y[2] = y[2] + x[2]
  BY <1>1
<1>3. Plus(x, y)[1] = Plus(y, x)[1] /\ Plus(x, y)[2] = Plus(y, x)[2]
  BY <1>2, SumFacts
<1> QED BY <1>3, SumFacts, WordFacts

LEMMA CarriesAgree ==
  ASSUME NEW a1 \in Nat, NEW a2 \in Nat, NEW b1 \in Nat, NEW b2 \in Nat, NEW c1 \in Nat, NEW c2 \in Nat
  PROVE  LET ab == a2 + b2
             bc == b2 + c2
             left == (ab % 65536) + c2
             right == a2 + (bc % 65536)
         IN  /\ left % 65536 = right % 65536
             /\ (((a1 + b1 + (ab \div 65536)) % 65536) + c1 + (left \div 65536)) % 65536
                  = (a1 + ((b1 + c1 + (bc \div 65536)) % 65536) + (right \div 65536)) % 65536
<1> DEFINE ab == a2 + b2
           bc == b2 + c2
           left == (ab % 65536) + c2
           right == a2 + (bc % 65536)
<1>1. PICK q1 \in Nat, r1 \in Nat :
        ab = 65536 * q1 + r1 /\ r1 <= 65535 /\ ab \div 65536 = q1 /\ ab % 65536 = r1
  <2>1. ab \in Nat OBVIOUS
  <2> HIDE DEF ab
  <2> QED BY <2>1, Carry
<1>2. PICK q2 \in Nat, r2 \in Nat :
        bc = 65536 * q2 + r2 /\ r2 <= 65535 /\ bc \div 65536 = q2 /\ bc % 65536 = r2
  <2>1. bc \in Nat OBVIOUS
  <2> HIDE DEF bc
  <2> QED BY <2>1, Carry
<1>3. left = r1 + c2 /\ right = a2 + r2
  BY <1>1, <1>2
<1> HIDE DEF left, right
<1>4. PICK q3 \in Nat, r3 \in Nat :
        left = 65536 * q3 + r3 /\ r3 <= 65535 /\ left \div 65536 = q3 /\ left % 65536 = r3
  <2>1. left \in Nat BY <1>3
  <2> QED BY <2>1, Carry
<1>5. PICK q4 \in Nat, r4 \in Nat :
        right = 65536 * q4 + r4 /\ r4 <= 65535 /\ right \div 65536 = q4 /\ right % 65536 = r4
  <2>1. right \in Nat BY <1>3
  <2> QED BY <2>1, Carry
<1>6. 65536 * (q1 + q3) + r3 = 65536 * (q2 + q4) + r4
  <2>1. 65536 * q1 + r1 = a2 + b2 /\ 65536 * q2 + r2 = b2 + c2
    BY <1>1, <1>2
  <2> QED BY <2>1, <1>3, <1>4, <1>5
<1>7. q1 + q3 = q2 + q4 /\ r3 = r4
  BY <1>4, <1>5, <1>6
<1> DEFINE u == a1 + b1 + q1
           v == b1 + c1 + q2
<1>8. u \in Nat /\ v \in Nat /\ c1 + q3 \in Nat /\ a1 + q4 \in Nat
  OBVIOUS
<1>9. u + (c1 + q3) = v + (a1 + q4)
  BY <1>7
<1> HIDE DEF u, v
<1>10. ((u % 65536) + (c1 + q3)) % 65536 = ((v % 65536) + (a1 + q4)) % 65536
  BY <1>8, <1>9, CarriedOver
<1>11. u % 65536 \in Nat /\ v % 65536 \in Nat
  BY <1>8, Carry
<1>12. (u % 65536) + c1 + q3 = (u % 65536) + (c1 + q3) /\ a1 + (v % 65536) + q4 = (v % 65536) + (a1 + q4)
  BY <1>11
<1>13. ((u % 65536) + c1 + q3) % 65536 = (a1 + (v % 65536) + q4) % 65536
  BY <1>10, <1>12
<1> HIDE DEF ab, bc
<1> QED BY <1>1, <1>2, <1>4, <1>5, <1>7, <1>13 DEF u, v, left, right, ab, bc

LEMMA SumAssociates ==
  ASSUME NEW x \in Word, NEW y \in Word, NEW z \in Word
  PROVE  Plus(Plus(x, y), z) = Plus(x, Plus(y, z))
<1>1. x[1] \in Nat /\ x[2] \in Nat /\ y[1] \in Nat /\ y[2] \in Nat /\ z[1] \in Nat /\ z[2] \in Nat
  BY WordFacts, HalfFacts
<1>2. Plus(x, y) \in Word /\ Plus(y, z) \in Word
  BY SumFacts
<1>3. /\ Plus(x, y)[1] = (x[1] + y[1] + ((x[2] + y[2]) \div 65536)) % 65536
      /\ Plus(x, y)[2] = (x[2] + y[2]) % 65536
      /\ Plus(y, z)[1] = (y[1] + z[1] + ((y[2] + z[2]) \div 65536)) % 65536
      /\ Plus(y, z)[2] = (y[2] + z[2]) % 65536
  BY SumFacts
<1> DEFINE p == Plus(x, y)
           q == Plus(y, z)
<1> HIDE DEF p, q
<1>4. /\ Plus(p, z) \in Word /\ Plus(x, q) \in Word
      /\ Plus(p, z)[1] = (p[1] + z[1] + ((p[2] + z[2]) \div 65536)) % 65536
      /\ Plus(p, z)[2] = (p[2] + z[2]) % 65536
      /\ Plus(x, q)[1] = (x[1] + q[1] + ((x[2] + q[2]) \div 65536)) % 65536
      /\ Plus(x, q)[2] = (x[2] + q[2]) % 65536
  BY <1>2, SumFacts DEF p, q
<1>5. Plus(p, z)[1] = Plus(x, q)[1] /\ Plus(p, z)[2] = Plus(x, q)[2]
  <2>1. PICK a1 \in Nat, a2 \in Nat, b1 \in Nat, b2 \in Nat, c1 \in Nat, c2 \in Nat :
          a1 = x[1] /\ a2 = x[2] /\ b1 = y[1] /\ b2 = y[2] /\ c1 = z[1] /\ c2 = z[2]
    BY <1>1, Zenon
  <2> DEFINE ab == a2 + b2
             bc == b2 + c2
             left == (ab % 65536) + c2
             right == a2 + (bc % 65536)
  <2>2. /\ left % 65536 = right % 65536
        /\ (((a1 + b1 + (ab \div 65536)) % 65536) + c1 + (left \div 65536)) % 65536
             = (a1 + ((b1 + c1 + (bc \div 65536)) % 65536) + (right \div 65536)) % 65536
    BY CarriesAgree
  <2>3. /\ p[1] = (a1 + b1 + (ab \div 65536)) % 65536 /\ p[2] = ab % 65536
        /\ q[1] = (b1 + c1 + (bc \div 65536)) % 65536 /\ q[2] = bc % 65536
    BY <1>3, <2>1 DEF p, q
  <2>4. p[2] + z[2] = left /\ x[2] + q[2] = right
    BY <2>1, <2>3
  <2> HIDE DEF ab, bc, left, right
  <2> QED BY <1>4, <2>1, <2>2, <2>3, <2>4
<1>6. Plus(p, z) = Plus(x, q)
  BY <1>4, <1>5, WordFacts
<1> QED BY <1>6 DEF p, q

\* A round adds five words one way, the standard another.
LEMMA SumOfFive ==
  ASSUME NEW z \in Word, NEW f \in Word, NEW w \in Word, NEW c \in Word, NEW r \in Word
  PROVE  /\ Plus(z, Plus(Plus(Plus(f, w), c), r)) = Plus(r, Plus(f, Plus(z, Plus(c, w))))
         /\ Plus(z, Plus(Plus(Plus(f, w), c), r)) \in Word
<1>1. \A x, y \in Word : Plus(x, y) \in Word
  BY SumFacts
<1>2. \A x, y, v \in Word : Plus(Plus(x, y), v) = Plus(x, Plus(y, v))
  BY SumAssociates
<1>3. \A x, y, v \in Word : Plus(x, Plus(y, v)) = Plus(y, Plus(x, v))
  <2> TAKE x \in Word, y \in Word, v \in Word
  <2>1. Plus(Plus(x, y), v) = Plus(Plus(y, x), v)
    BY SumCommutes
  <2> QED BY <2>1, <1>2
<1>4. Plus(Plus(f, w), c) = Plus(f, Plus(c, w))
  BY <1>1, <1>2, SumCommutes
<1> DEFINE s == Plus(c, w)
<1>5. s \in Word
  BY <1>1
<1> HIDE DEF s
<1>6. Plus(f, s) \in Word /\ Plus(z, s) \in Word
  BY <1>1, <1>5
<1>7. Plus(Plus(f, s), r) = Plus(r, Plus(f, s))
  BY <1>6, SumCommutes
<1>8. Plus(z, Plus(r, Plus(f, s))) = Plus(r, Plus(z, Plus(f, s)))
  BY <1>3, <1>6
<1>9. Plus(z, Plus(f, s)) = Plus(f, Plus(z, s))
  BY <1>3, <1>5
<1>10. Plus(r, Plus(f, Plus(z, s))) \in Word
  BY <1>1, <1>6
<1> QED BY <1>4, <1>7, <1>8, <1>9, <1>10 DEF s

\* A word turned to the left is a word.
LEMMA TurnRange ==
  ASSUME NEW x \in Word
  PROVE  Rol(x, 1) \in Word /\ Rol(x, 5) \in Word /\ Rol30(x) \in Word
<1>1. ASSUME NEW y \in Word, NEW m \in Nat, NEW d \in Nat \ {0}
      PROVE  <<(y[1] * m + (y[2] \div d)) % 65536, (y[2] * m + (y[1] \div d)) % 65536>> \in Word
  <2>1. ASSUME NEW g \in Halves, NEW h \in Halves PROVE (g * m + (h \div d)) % 65536 \in Halves
    <3>1. g \in Nat /\ h \in Nat
      BY HalfFacts
    <3>2. g * m \in Nat /\ h \div d \in Nat
      BY <3>1, SMT
    <3>3. g * m + (h \div d) \in Nat
      BY <3>2
    <3> QED BY <3>3, Carry, HalfFacts
  <2> QED BY <2>1, WordFacts, WordOfHalves
<1>2. Two[2] \in Nat /\ Two[16] \in Nat \ {0} /\ Two[6] \in Nat /\ Two[12] \in Nat \ {0}
      /\ Two[15] \in Nat /\ Two[3] \in Nat \ {0}
  BY PowersOfTwo
<1>3. Rol(x, 1) \in Word /\ Rol(x, 5) \in Word
  <2>1. 1 + 1 = 2 /\ 17 - 1 = 16 /\ 5 + 1 = 6 /\ 17 - 5 = 12
    OBVIOUS
  <2> QED BY <1>1, <1>2, <2>1 DEF Rol
<1>4. Rol30(x) \in Word
  <2>1. <<x[2], x[1]>> \in Word
    BY WordFacts, WordOfHalves
  <2> DEFINE y == <<x[2], x[1]>>
  <2> HIDE DEF y
  <2>2. 14 + 1 = 15 /\ 17 - 14 = 3
    OBVIOUS
  <2>3. Rol(y, 14) \in Word
    BY <1>1, <1>2, <2>1, <2>2 DEF Rol, y
  <2> QED BY <2>3 DEF Rol30, y
<1> QED BY <1>3, <1>4

LEMMA ConstantRange == \A i \in Nat : Constant(i) \in Word
<1>1. /\ <<23170, 31129>> \in Word /\ <<28377, 60321>> \in Word
      /\ <<36635, 48348>> \in Word /\ <<51810, 49622>> \in Word
  <2>1. \A n \in {23170, 31129, 28377, 60321, 36635, 48348, 51810, 49622} : n \in Nat /\ n <= 65535
    OBVIOUS
  <2>2. \A n \in {23170, 31129, 28377, 60321, 36635, 48348, 51810, 49622} : n \in Halves
    BY <2>1, HalfFacts
  <2> QED BY <2>2 DEF Word
<1> SUFFICES ASSUME NEW i \in Nat PROVE Constant(i) \in Word
  OBVIOUS
<1>2. CASE i < 20
  BY <1>1, <1>2 DEF Constant
<1>3. CASE ~ (i < 20) /\ i \in 20..39
  BY <1>1, <1>3 DEF Constant
<1>4. CASE ~ (i < 20) /\ i \notin 20..39 /\ i \in 40..59
  BY <1>1, <1>4 DEF Constant
<1>5. CASE ~ (i < 20) /\ i \notin 20..39 /\ i \notin 40..59
  BY <1>1, <1>5 DEF Constant
<1> QED BY <1>2, <1>3, <1>4, <1>5

--------------------------------------------------------------------------------
(* Induction and recursion up to a number *)

\* The order of the naturals is well founded.
LEMMA NatLess == IsWellFoundedOn({ss \in Nat \X Nat : ss[1] < ss[2]}, Nat)
BY ONLY NatLessThanWellFounded, Zenon DEF OpToRel

LEMMA Smallest ==
  ASSUME NEW T \in SUBSET Nat, T # {}
  PROVE  \E x \in T : \A y \in T : x <= y
<1>1. \E x \in T : \A y \in T : ~ (<<y, x>> \in {ss \in Nat \X Nat : ss[1] < ss[2]})
  BY NatLess, WFMin, Zenon
<1>2. \A x, y \in Nat : ~ (<<y, x>> \in {ss \in Nat \X Nat : ss[1] < ss[2]}) => x <= y
  OBVIOUS
<1> QED BY <1>1, <1>2, Zenon

LEMMA Climb ==
  ASSUME NEW N \in Nat, NEW T, 0 \in T, \A i \in 1..N : i - 1 \in T => i \in T
  PROVE  \A i \in 0..N : i \in T
<1> DEFINE B == {i \in 0..N : i \notin T}
<1>1. SUFFICES ASSUME B # {} PROVE FALSE
  OBVIOUS
<1>2. PICK k \in B : \A j \in B : k <= j
  <2>1. B \in SUBSET Nat
    OBVIOUS
  <2> HIDE DEF B
  <2> QED BY <1>1, <2>1, Smallest
<1>3. k \in 1..N /\ k - 1 \in 0..N
  BY <1>2
<1>4. k - 1 \in T
  BY <1>2, <1>3
<1> QED BY <1>2, <1>3, <1>4

\* Each value from the one before it.
Runs(N, base, F, g) == g = [i \in 0..N |-> IF i = 0 THEN base ELSE F[<<i, g[i - 1]>>]]

LEMMA RunFacts ==
  ASSUME NEW N \in Nat, NEW base, NEW F, NEW g, Runs(N, base, F, g)
  PROVE  g[0] = base /\ \A i \in 1..N : g[i] = F[<<i, g[i - 1]>>]
<1>1. \A i \in 0..N : g[i] = IF i = 0 THEN base ELSE F[<<i, g[i - 1]>>]
  BY DEF Runs
<1>2. 0 \in 0..N /\ \A i \in 1..N : i \in 0..N /\ i # 0
  OBVIOUS
<1> QED BY <1>1, <1>2

LEMMA Recursion ==
  ASSUME NEW N \in Nat, NEW base, NEW F
  PROVE  \E g : Runs(N, base, F, g)
<1> DEFINE T == {n \in Nat : \E g : Runs(n, base, F, g)}
<1>1. 0 \in T
  <2>1. Runs(0, base, F, [i \in 0..0 |-> base])
    BY DEF Runs
  <2> QED BY <2>1
<1>2. ASSUME NEW n \in 1..N, n - 1 \in T
      PROVE  n \in T
  <2>1. PICK g : Runs(n - 1, base, F, g)
    BY <1>2
  <2> DEFINE h == [i \in 0..n |-> IF i = n THEN F[<<n, g[n - 1]>>] ELSE g[i]]
  <2>2. \A i \in 0..(n - 1) : g[i] = IF i = 0 THEN base ELSE F[<<i, g[i - 1]>>]
    BY <2>1 DEF Runs
  <2>3. \A i \in 0..(n - 1) : h[i] = g[i]
    OBVIOUS
  <2>4. h[n] = F[<<n, g[n - 1]>>]
    OBVIOUS
  <2>5. h = [i \in 0..n |-> h[i]]
    OBVIOUS
  <2> HIDE DEF h
  <2>6. ASSUME NEW i \in 0..n
        PROVE  h[i] = IF i = 0 THEN base ELSE F[<<i, h[i - 1]>>]
    <3>1. CASE i = n
      <4>1. n # 0 /\ n - 1 \in 0..(n - 1)
        OBVIOUS
      <4> QED BY <3>1, <4>1, <2>3, <2>4
    <3>2. CASE i # n
      <4>1. i \in 0..(n - 1) /\ (i # 0 => i - 1 \in 0..(n - 1))
        BY <3>2
      <4> QED BY <4>1, <2>2, <2>3
    <3> QED BY <3>1, <3>2
  <2>7. Runs(n, base, F, h)
    BY <2>5, <2>6 DEF Runs
  <2> QED BY <2>7
<1> HIDE DEF T
<1>3. N \in T
  BY <1>1, <1>2, Climb
<1> QED BY <1>3 DEF T

--------------------------------------------------------------------------------
(* The words of a block *)

Block == [0..63 -> Octet]

LEMMA WordOfBlock == \A b \in Block : \A i \in 0..15 : WordOf(b, i) \in Word
<1> SUFFICES ASSUME NEW b \in Block, NEW i \in 0..15 PROVE WordOf(b, i) \in Word
  OBVIOUS
<1>1. 4 * i \in 0..63 /\ 4 * i + 1 \in 0..63 /\ 4 * i + 2 \in 0..63 /\ 4 * i + 3 \in 0..63
  OBVIOUS
<1>2. \A j \in 0..63 : b[j] \in Octet
  BY DEF Block
<1>3. \A x, y \in Octet : x * 256 + y \in Halves
  BY OctetFacts, HalfFacts
<1> QED BY <1>1, <1>2, <1>3, WordOfHalves DEF WordOf

Scheduled(w, t) == Rol(XorW(w[t - 3], XorW(w[t - 8], XorW(w[t - 14], w[t - 16]))), 1)

LEMMA ScheduledRange == \A w, t : Scheduled(w, t) \in Word
BY BitsOfWords, TurnRange DEF Scheduled

\* w has the first n + 16 words of the block b.
HasWords(b, n, w) ==
  /\ w \in Seq(Word) /\ Len(w) = n + 16
  /\ \A t \in 1..16 : w[t] = WordOf(b, t - 1)
  /\ \A t \in 17..(n + 16) : w[t] = Scheduled(w, t)

LEMMA OneMoreWord ==
  ASSUME NEW b, NEW n \in Nat, NEW w, HasWords(b, n, w)
  PROVE  HasWords(b, n + 1, Append(w, Scheduled(w, n + 17)))
<1> DEFINE x == Scheduled(w, n + 17)
           v == Append(w, x)
<1>1. w \in Seq(Word) /\ Len(w) = n + 16 /\ x \in Word
  BY ScheduledRange DEF HasWords
<1> HIDE DEF x
<1>2. v \in Seq(Word) /\ Len(v) = (n + 1) + 16 /\ v[n + 17] = x /\ \A t \in 1..(n + 16) : v[t] = w[t]
  BY <1>1
<1> HIDE DEF v
<1>3. \A t \in 1..16 : v[t] = WordOf(b, t - 1)
  <2>1. \A t \in 1..16 : t \in 1..(n + 16)
    OBVIOUS
  <2> QED BY <1>2, <2>1 DEF HasWords
<1>4. ASSUME NEW t \in 17..(n + 17) PROVE v[t] = Scheduled(v, t)
  <2>1. /\ t - 3 \in 1..(n + 16) /\ t - 8 \in 1..(n + 16) /\ t - 14 \in 1..(n + 16)
        /\ t - 16 \in 1..(n + 16)
    OBVIOUS
  <2>2. Scheduled(v, t) = Scheduled(w, t)
    BY <1>2, <2>1 DEF Scheduled
  <2>3. CASE t = n + 17
    BY <1>2, <2>2, <2>3 DEF x
  <2>4. CASE t \in 17..(n + 16)
    BY <1>2, <2>2, <2>4 DEF HasWords
  <2> QED BY <2>3, <2>4
<1>5. (n + 1) + 16 = n + 17
  OBVIOUS
<1> QED BY <1>2, <1>3, <1>4, <1>5 DEF HasWords, v, x

LEMMA EightyWords ==
  ASSUME NEW b \in Block
  PROVE  HasWords(b, 64, RefWords(b))
<1> DEFINE base == [i \in 1..16 |-> WordOf(b, i - 1)]
           Next1(n, w) == Append(w, Rol(XorW(w[(n + 16) - 3], XorW(w[(n + 16) - 8],
                              XorW(w[(n + 16) - 14], w[(n + 16) - 16]))), 1))
           words == CHOOSE f : f = [n \in 0..64 |-> IF n = 0 THEN base ELSE Next1(n, f[n - 1])]
           F == [p \in (1..64) \X Seq(Word) |-> Next1(p[1], p[2])]
<1>1. RefWords(b) = words[64]
  BY DEF RefWords
<1>2. HasWords(b, 0, base)
  <2>1. \A i \in 1..16 : WordOf(b, i - 1) \in Word
    BY WordOfBlock
  <2>2. base \in Seq(Word) /\ Len(base) = 16
    BY <2>1
  <2> QED BY <2>2 DEF HasWords
<1>3. ASSUME NEW n \in 1..64, NEW w, HasWords(b, n - 1, w)
      PROVE  HasWords(b, n, Next1(n, w)) /\ F[<<n, w>>] = Next1(n, w)
  <2>1. Next1(n, w) = Append(w, Scheduled(w, (n - 1) + 17))
    <3>1. (n - 1) + 17 = n + 16
      OBVIOUS
    <3> QED BY <3>1 DEF Scheduled
  <2>2. n - 1 \in Nat /\ (n - 1) + 1 = n
    OBVIOUS
  <2>3. w \in Seq(Word)
    BY <1>3 DEF HasWords
  <2>4. F[<<n, w>>] = Next1(n, w)
    <3> HIDE DEF Next1
    <3> QED BY <2>3
  <2> QED BY <1>3, <2>1, <2>2, <2>4, OneMoreWord
<1>4. PICK g : Runs(64, base, F, g)
  <2>1. 64 \in Nat
    OBVIOUS
  <2> HIDE DEF base, F
  <2> QED BY <2>1, Recursion
<1> HIDE DEF base, Next1, F
<1>5. \A i \in 0..64 : HasWords(b, i, g[i])
  <2> DEFINE T == {i \in 0..64 : HasWords(b, i, g[i])}
  <2>0. g[0] = base /\ \A i \in 1..64 : g[i] = F[<<i, g[i - 1]>>] /\ i - 1 \in 0..64 /\ i \in 0..64
    BY <1>4, RunFacts
  <2>1. 0 \in T
    BY <1>2, <2>0
  <2>2. \A i \in 1..64 : i - 1 \in T => i \in T
    BY <1>3, <2>0
  <2> HIDE DEF T
  <2>3. \A i \in 0..64 : i \in T
    BY <2>1, <2>2, Climb
  <2> QED BY <2>3 DEF T
<1>6. g = [n \in 0..64 |-> IF n = 0 THEN base ELSE Next1(n, g[n - 1])]
  <2>1. \A n \in 1..64 : HasWords(b, n - 1, g[n - 1])
    <3>1. \A n \in 1..64 : n - 1 \in 0..64
      OBVIOUS
    <3> QED BY <1>5, <3>1
  <2>2. \A n \in 1..64 : F[<<n, g[n - 1]>>] = Next1(n, g[n - 1])
    BY <1>3, <2>1
  <2>3. \A n \in 0..64 : (IF n = 0 THEN base ELSE F[<<n, g[n - 1]>>])
                           = (IF n = 0 THEN base ELSE Next1(n, g[n - 1]))
    <3>1. \A n \in 0..64 : n = 0 \/ n \in 1..64
      OBVIOUS
    <3> QED BY <2>2, <3>1, Zenon
  <2> QED BY <1>4, <2>3 DEF Runs
<1>7. words = [n \in 0..64 |-> IF n = 0 THEN base ELSE Next1(n, words[n - 1])]
  BY <1>6, Zenon
<1> HIDE DEF words
<1>8. \A i \in 0..64 : HasWords(b, i, words[i])
  <2> DEFINE T == {i \in 0..64 : HasWords(b, i, words[i])}
  <2>0. \A i \in 1..64 : words[i] = Next1(i, words[i - 1]) /\ i - 1 \in 0..64 /\ i \in 0..64
    BY <1>7
  <2>1. 0 \in T
    BY <1>2, <1>7
  <2>2. \A i \in 1..64 : i - 1 \in T => i \in T
    BY <1>3, <2>0
  <2> HIDE DEF T
  <2>3. \A i \in 0..64 : i \in T
    BY <2>1, <2>2, Climb
  <2> QED BY <2>3 DEF T
<1> QED BY <1>1, <1>8

--------------------------------------------------------------------------------
(* Sequences of states, each from the one before it *)

Path(X, first, G, n, s) ==
  /\ s \in Seq(X) /\ Len(s) = n + 1 /\ s[1] = first
  /\ \A i \in 1..n : s[i + 1] = G[<<i, s[i]>>]

LEMMA PathGrows ==
  ASSUME NEW X, NEW first, NEW G, NEW n \in Nat, NEW s, Path(X, first, G, n, s),
         G[<<n + 1, s[n + 1]>>] \in X
  PROVE  Path(X, first, G, n + 1, Append(s, G[<<n + 1, s[n + 1]>>]))
<1> DEFINE x == G[<<n + 1, s[n + 1]>>]
           v == Append(s, x)
<1>1. s \in Seq(X) /\ Len(s) = n + 1 /\ x \in X /\ s[1] = first
  BY DEF Path
<1>2. \A i \in 1..n : s[i + 1] = G[<<i, s[i]>>]
  BY DEF Path
<1>3. x = G[<<n + 1, s[n + 1]>>]
  OBVIOUS
<1> HIDE DEF x
<1>4. v \in Seq(X) /\ Len(v) = (n + 1) + 1 /\ v[(n + 1) + 1] = x /\ \A t \in 1..(n + 1) : v[t] = s[t]
  BY <1>1
<1> HIDE DEF v
<1>5. ASSUME NEW i \in 1..(n + 1) PROVE v[i + 1] = G[<<i, v[i]>>]
  <2>1. v[i] = s[i]
    BY <1>4
  <2>2. CASE i = n + 1
    BY <1>3, <1>4, <2>1, <2>2
  <2>3. CASE i # n + 1
    <3>1. i \in 1..n /\ i + 1 \in 1..(n + 1)
      BY <2>3
    <3> QED BY <1>2, <1>4, <2>1, <3>1
  <2> QED BY <2>2, <2>3
<1>6. 1 \in 1..(n + 1)
  OBVIOUS
<1>7. v[1] = first
  BY <1>1, <1>4, <1>6
<1> QED BY <1>4, <1>5, <1>7 DEF Path, v, x

StaysIn(N, X, G) == \A i \in 1..N : \A x \in X : G[<<i, x>>] \in X

LEMMA PathAlong ==
  ASSUME NEW N \in Nat, NEW X, NEW first \in X, NEW G, StaysIn(N, X, G),
         NEW f, f[0] = <<first>>,
         \A i \in 1..N : f[i - 1] \in Seq(X) /\ Len(f[i - 1]) = i
                           => f[i] = Append(f[i - 1], G[<<i, f[i - 1][i]>>])
  PROVE  \A i \in 0..N : Path(X, first, G, i, f[i])
<1> DEFINE T == {i \in 0..N : Path(X, first, G, i, f[i])}
<1>1. 0 \in T
  <2>1. <<first>> \in Seq(X) /\ Len(<<first>>) = 1 /\ <<first>>[1] = first /\ 0 \in 0..N
    OBVIOUS
  <2>2. Path(X, first, G, 0, <<first>>)
    BY <2>1 DEF Path
  <2> QED BY <2>1, <2>2
<1>2. ASSUME NEW i \in 1..N, i - 1 \in T PROVE i \in T
  <2> DEFINE s == f[i - 1]
  <2>1. Path(X, first, G, i - 1, s) /\ i - 1 \in Nat /\ (i - 1) + 1 = i /\ i \in 0..N
    BY <1>2
  <2>2. s \in Seq(X) /\ Len(s) = i
    BY <2>1 DEF Path
  <2>3. f[i] = Append(s, G[<<i, s[i]>>])
    BY <2>2
  <2>4. s[i] \in X
    <3> HIDE DEF s
    <3> QED BY <2>2
  <2>5. G[<<i, s[i]>>] \in X
    BY <2>4 DEF StaysIn
  <2> HIDE DEF s
  <2>6. Path(X, first, G, i, Append(s, G[<<i, s[i]>>]))
    <3> DEFINE m == i - 1
    <3>1. m \in Nat /\ m + 1 = i /\ Path(X, first, G, m, s)
      BY <2>1
    <3> HIDE DEF m
    <3> QED BY <2>5, <3>1, PathGrows
  <2> QED BY <2>1, <2>3, <2>6
<1> HIDE DEF T
<1>3. \A i \in 0..N : i \in T
  BY <1>1, <1>2, Climb
<1> QED BY <1>3 DEF T

Paths(N, X, first, G, g) ==
  /\ g = [i \in 0..N |-> g[i]] /\ g[0] = <<first>>
  /\ \A i \in 1..N : g[i] = Append(g[i - 1], G[<<i, g[i - 1][i]>>]) /\ g[i - 1][i] \in X

LEMMA PathExists ==
  ASSUME NEW N \in Nat, NEW X, NEW first \in X, NEW G, StaysIn(N, X, G)
  PROVE  \E g : Paths(N, X, first, G, g)
<1> DEFINE F == [p \in (1..N) \X Seq(X) |-> Append(p[2], G[<<p[1], p[2][p[1]]>>])]
           base == <<first>>
<1>1. \A i \in 1..N : \A s \in Seq(X) : F[<<i, s>>] = Append(s, G[<<i, s[i]>>])
  OBVIOUS
<1>2. PICK g : Runs(N, base, F, g)
  <2> HIDE DEF F, base
  <2> QED BY Recursion
<1>3. g[0] = base /\ \A i \in 1..N : g[i] = F[<<i, g[i - 1]>>]
  <2> HIDE DEF F, base
  <2> QED BY <1>2, RunFacts
<1> HIDE DEF F
<1>4. \A i \in 0..N : Path(X, first, G, i, g[i])
  <2>1. \A i \in 1..N : g[i - 1] \in Seq(X) /\ Len(g[i - 1]) = i
                          => g[i] = Append(g[i - 1], G[<<i, g[i - 1][i]>>])
    BY <1>1, <1>3
  <2> QED BY <1>3, <2>1, PathAlong
<1>5. ASSUME NEW i \in 1..N
      PROVE  g[i - 1] \in Seq(X) /\ g[i - 1][i] \in X
  <2>1. i - 1 \in 0..N /\ (i - 1) + 1 = i
    OBVIOUS
  <2>2. g[i - 1] \in Seq(X) /\ Len(g[i - 1]) = i
    BY <1>4, <2>1 DEF Path
  <2> DEFINE s == g[i - 1]
  <2> HIDE DEF s
  <2>3. s \in Seq(X) /\ Len(s) = i
    BY <2>2 DEF s
  <2>4. s[i] \in X
    BY <2>3
  <2> QED BY <2>2, <2>4 DEF s
<1>6. g = [i \in 0..N |-> g[i]]
  BY <1>2 DEF Runs
<1> QED BY <1>1, <1>3, <1>5, <1>6 DEF Paths

--------------------------------------------------------------------------------
(* The eighty steps of the standard *)

Regs == [1..5 -> Word]

LEMMA RefStepFacts ==
  ASSUME NEW h \in Regs, NEW t \in Nat, NEW word \in Word
  PROVE  LET r == RefStep(h, t, word)
         IN  /\ r \in Regs
             /\ r[1] = Plus(Rol(h[1], 5), Plus(RefFunction(t, h[2], h[3], h[4]),
                                               Plus(h[5], Plus(Constant(t), word))))
             /\ r[2] = h[1] /\ r[3] = Rol30(h[2]) /\ r[4] = h[3] /\ r[5] = h[4]
<1>1. h[1] \in Word /\ h[2] \in Word /\ h[3] \in Word /\ h[4] \in Word /\ h[5] \in Word
  BY DEF Regs
<1> DEFINE new == Plus(Rol(h[1], 5), Plus(RefFunction(t, h[2], h[3], h[4]),
                                          Plus(h[5], Plus(Constant(t), word))))
<1>2. RefFunction(t, h[2], h[3], h[4]) \in Word
  BY <1>1, MixedIsReference
<1>3. Plus(h[5], Plus(Constant(t), word)) \in Word
  BY <1>1, SumFacts, ConstantRange
<1>4. new \in Word /\ Rol30(h[2]) \in Word
  BY <1>1, <1>2, <1>3, SumFacts, TurnRange
<1>5. RefStep(h, t, word)
        = [h EXCEPT ![1] = new, ![2] = h[1], ![3] = Rol30(h[2]), ![4] = h[3], ![5] = h[4]]
  BY DEF RefStep
<1> HIDE DEF new
<1>6. DOMAIN h = 1..5 /\ h = [k \in 1..5 |-> h[k]]
  BY DEF Regs
<1> DEFINE r == [h EXCEPT ![1] = new, ![2] = h[1], ![3] = Rol30(h[2]), ![4] = h[3], ![5] = h[4]]
<1>7. r \in Regs /\ r[1] = new /\ r[2] = h[1] /\ r[3] = Rol30(h[2]) /\ r[4] = h[3] /\ r[5] = h[4]
  BY <1>1, <1>4, <1>6 DEF Regs
<1> HIDE DEF r
<1> QED BY <1>5, <1>7 DEF new, r

\* The registers of the standard after each step.
StepsOf(w) == [p \in (1..80) \X Regs |-> RefStep(p[2], p[1] - 1, w[p[1]])]

LEMMA EightySteps ==
  ASSUME NEW b \in Block, NEW h \in Regs
  PROVE  \E s : /\ Path(Regs, h, StepsOf(RefWords(b)), 80, s)
                /\ RefTransform(h, b) = <<Plus(h[1], s[81][1]), Plus(h[2], s[81][2]),
                                          Plus(h[3], s[81][3]), Plus(h[4], s[81][4]),
                                          Plus(h[5], s[81][5])>>
<1> DEFINE w == RefWords(b)
           G == StepsOf(w)
<1>1. w \in Seq(Word) /\ Len(w) = 80 /\ \A t \in 1..80 : w[t] \in Word
  <2>1. w \in Seq(Word) /\ Len(w) = 80
    BY EightyWords DEF HasWords
  <2> HIDE DEF w
  <2>2. \A t \in 1..80 : w[t] \in Word
    BY <2>1, ElementOfSeq
  <2> QED BY <2>1, <2>2
<1> HIDE DEF w
<1>2. \A i \in 1..80 : \A x \in Regs : G[<<i, x>>] = RefStep(x, i - 1, w[i]) /\ i - 1 \in Nat
  BY DEF StepsOf
<1>3. StaysIn(80, Regs, G)
  <2>1. \A i \in 1..80 : \A x \in Regs : RefStep(x, i - 1, w[i]) \in Regs
    BY <1>1, <1>2, RefStepFacts
  <2> QED BY <1>2, <2>1 DEF StaysIn
<1> HIDE DEF G
<1> DEFINE steps == CHOOSE f : f = [t \in 0..Len(w) |->
                      IF t = 0 THEN <<h>> ELSE Append(f[t - 1], RefStep(f[t - 1][t], t - 1, w[t]))]
<1>4. RefTransform(h, b)
        = <<Plus(h[1], steps[80][81][1]), Plus(h[2], steps[80][81][2]), Plus(h[3], steps[80][81][3]),
            Plus(h[4], steps[80][81][4]), Plus(h[5], steps[80][81][5])>>
  BY Zenon DEF RefTransform, w
<1>5. PICK g : Paths(80, Regs, h, G, g)
  <2>1. 80 \in Nat
    OBVIOUS
  <2> QED BY <1>3, <2>1, PathExists
<1>6. \A i \in 0..80 : g[i] = IF i = 0 THEN <<h>>
                              ELSE Append(g[i - 1], RefStep(g[i - 1][i], i - 1, w[i]))
  <2>1. \A i \in 1..80 : g[i] = Append(g[i - 1], RefStep(g[i - 1][i], i - 1, w[i]))
    BY <1>2, <1>5 DEF Paths
  <2>2. \A i \in 0..80 : i = 0 \/ i \in 1..80
    OBVIOUS
  <2> QED BY <1>5, <2>1, <2>2 DEF Paths
<1>7. g = [t \in 0..Len(w) |->
             IF t = 0 THEN <<h>> ELSE Append(g[t - 1], RefStep(g[t - 1][t], t - 1, w[t]))]
  BY <1>1, <1>5, <1>6 DEF Paths
<1>8. steps = [t \in 0..Len(w) |->
                 IF t = 0 THEN <<h>> ELSE Append(steps[t - 1], RefStep(steps[t - 1][t], t - 1, w[t]))]
  BY <1>7, Zenon
<1> HIDE DEF steps
<1>8a. steps = [t \in 0..80 |->
                  IF t = 0 THEN <<h>> ELSE Append(steps[t - 1], RefStep(steps[t - 1][t], t - 1, w[t]))]
  BY <1>1, <1>8, Zenon
<1>9. \A i \in 0..80 : steps[i] = IF i = 0 THEN <<h>>
                                  ELSE Append(steps[i - 1], RefStep(steps[i - 1][i], i - 1, w[i]))
  BY <1>8a
<1>10. steps[0] = <<h>> /\ \A i \in 1..80 :
                             steps[i] = Append(steps[i - 1], RefStep(steps[i - 1][i], i - 1, w[i]))
  <2>1. 0 \in 0..80 /\ \A i \in 1..80 : i \in 0..80 /\ i # 0
    OBVIOUS
  <2> QED BY <1>9, <2>1
<1>11. ASSUME NEW i \in 1..80, steps[i - 1] \in Seq(Regs), Len(steps[i - 1]) = i
       PROVE  steps[i] = Append(steps[i - 1], G[<<i, steps[i - 1][i]>>])
  <2>1. \A s : s \in Seq(Regs) /\ Len(s) = i => s[i] \in Regs
    BY ElementOfSeq
  <2>2. steps[i - 1][i] \in Regs
    BY <1>11, <2>1
  <2> QED BY <1>2, <1>10, <2>2
<1>12. Path(Regs, h, G, 80, steps[80])
  <2>1. 80 \in Nat /\ 80 \in 0..80
    OBVIOUS
  <2> QED BY <1>3, <1>10, <1>11, <2>1, PathAlong
<1> QED BY <1>4, <1>12 DEF w, G

--------------------------------------------------------------------------------
(* The eighty rounds of the code *)

Circle == [reg : [0..4 -> Word], block : [0..15 -> Word]]

LEMMA Five == \A k \in 0..4 : k = 0 \/ k = 1 \/ k = 2 \/ k = 3 \/ k = 4
OBVIOUS

\* In every round the five names stand for the five registers.
LEMMA VarFacts ==
  ASSUME NEW i \in Nat
  PROVE  /\ Var(0, i) \in 0..4 /\ Var(1, i) \in 0..4 /\ Var(2, i) \in 0..4
         /\ Var(3, i) \in 0..4 /\ Var(4, i) \in 0..4
         /\ Var(4, i) # Var(0, i) /\ Var(4, i) # Var(1, i) /\ Var(4, i) # Var(2, i)
         /\ Var(4, i) # Var(3, i) /\ Var(1, i) # Var(0, i) /\ Var(1, i) # Var(2, i)
         /\ Var(1, i) # Var(3, i)
         /\ Var(0, i + 1) = Var(4, i) /\ Var(1, i + 1) = Var(0, i) /\ Var(2, i + 1) = Var(1, i)
         /\ Var(3, i + 1) = Var(2, i) /\ Var(4, i + 1) = Var(3, i)
<1>1. PICK q \in Nat, r \in 0..4 : i = 5 * q + r
  <2>1. i \div 5 \in Nat /\ i % 5 \in 0..4 /\ i = 5 * (i \div 5) + (i % 5)
    BY SMT
  <2> QED BY <2>1
<1>2. \A m \in Nat, e \in 0..4 : (5 * m + e) % 5 = e
  BY SMT
<1>3. CASE r = 0
  BY <1>1, <1>3, SMT DEF Var
<1>4. CASE r = 1
  BY <1>1, <1>4, SMT DEF Var
<1>5. CASE r = 2
  BY <1>1, <1>5, SMT DEF Var
<1>6. CASE r = 3
  BY <1>1, <1>6, SMT DEF Var
<1>7. CASE r = 4
  BY <1>1, <1>7, SMT DEF Var
<1> QED BY <1>3, <1>4, <1>5, <1>6, <1>7

LEMMA BlkRange ==
  ASSUME NEW i \in Nat, NEW block \in [0..15 -> Word]
  PROVE  Blk(block, i) \in Word
<1>1. CASE i < 16
  <2>1. i \in 0..15
    BY <1>1
  <2> QED BY <1>1, <2>1 DEF Blk
<1>2. CASE ~ (i < 16)
  BY <1>2, BitsOfWords, TurnRange DEF Blk
<1> QED BY <1>1, <1>2

\* What a round does, with the sum as the standard has it.
LEMMA RoundFacts ==
  ASSUME NEW s \in Circle, NEW i \in Nat
  PROVE  LET r == Round(s, i)
             word == Blk(s.block, i)
             At(k) == s.reg[Var(k, i)]
         IN  /\ r \in Circle
             /\ r.reg[Var(4, i)] = Plus(Rol(At(0), 5), Plus(RefFunction(i, At(1), At(2), At(3)),
                                                            Plus(At(4), Plus(Constant(i), word))))
             /\ r.reg[Var(1, i)] = Rol30(At(1))
             /\ r.reg[Var(0, i)] = At(0) /\ r.reg[Var(2, i)] = At(2) /\ r.reg[Var(3, i)] = At(3)
             /\ r.block = [s.block EXCEPT ![i % 16] = word]
<1> DEFINE At(k) == s.reg[Var(k, i)]
           word == Blk(s.block, i)
           f == Mixed(i, At(1), At(2), At(3))
           sum == Plus(At(4), Plus(Plus(Plus(f, word), Constant(i)), Rol(At(0), 5)))
           turned == Rol30(At(1))
<1>1. s.reg \in [0..4 -> Word] /\ s.block \in [0..15 -> Word] /\ s = [reg |-> s.reg, block |-> s.block]
  BY DEF Circle
<1>2. At(0) \in Word /\ At(1) \in Word /\ At(2) \in Word /\ At(3) \in Word /\ At(4) \in Word
  BY <1>1, VarFacts
<1>3. word \in Word
  BY <1>1, BlkRange
<1>4. f = RefFunction(i, At(1), At(2), At(3)) /\ f \in Word
  BY <1>2, MixedIsReference
<1>5. Constant(i) \in Word /\ Rol(At(0), 5) \in Word /\ turned \in Word
  BY <1>2, ConstantRange, TurnRange
<1>6. /\ sum = Plus(Rol(At(0), 5), Plus(f, Plus(At(4), Plus(Constant(i), word))))
      /\ sum \in Word
  <2> DEFINE z == At(4)
             c == Constant(i)
             t == Rol(At(0), 5)
  <2>1. z \in Word /\ f \in Word /\ word \in Word /\ c \in Word /\ t \in Word
    BY <1>2, <1>3, <1>4, <1>5
  <2> HIDE DEF z, f, word, c, t
  <2>2. /\ Plus(z, Plus(Plus(Plus(f, word), c), t)) = Plus(t, Plus(f, Plus(z, Plus(c, word))))
        /\ Plus(z, Plus(Plus(Plus(f, word), c), t)) \in Word
    BY <2>1, SumOfFive
  <2> QED BY <2>2 DEF z, c, t
<1>7. Round(s, i) = [reg |-> [s.reg EXCEPT ![Var(4, i)] = sum, ![Var(1, i)] = turned],
                     block |-> [s.block EXCEPT ![i % 16] = word]]
  BY DEF Round
<1>8. i % 16 \in 0..15
  OBVIOUS
<1> DEFINE x == Var(4, i)
           y == Var(1, i)
           r == [reg |-> [s.reg EXCEPT ![x] = sum, ![y] = turned],
                 block |-> [s.block EXCEPT ![i % 16] = word]]
<1>9. x \in 0..4 /\ y \in 0..4 /\ x # y
  BY VarFacts
<1> HIDE DEF sum, turned, word, x, y
<1>10. r = [reg |-> r.reg, block |-> r.block]
  OBVIOUS
<1>11. /\ r.reg = [s.reg EXCEPT ![x] = sum, ![y] = turned]
       /\ r.block = [s.block EXCEPT ![i % 16] = word]
  OBVIOUS
<1> HIDE DEF r
<1>12. r.reg \in [0..4 -> Word] /\ r.block \in [0..15 -> Word]
  BY <1>1, <1>3, <1>5, <1>6, <1>8, <1>9, <1>11
<1>13. r \in Circle
  BY <1>10, <1>11, <1>12 DEF Circle
<1>14. r.reg[x] = sum /\ r.reg[y] = turned /\ \A k \in 0..4 : k # x /\ k # y => r.reg[k] = s.reg[k]
  BY <1>1, <1>9, <1>11
<1>15. r.reg[Var(0, i)] = At(0) /\ r.reg[Var(2, i)] = At(2) /\ r.reg[Var(3, i)] = At(3)
  BY <1>14, VarFacts DEF x, y
<1>16. Round(s, i) = r
  BY <1>7 DEF r, x, y
<1> QED BY <1>4, <1>6, <1>11, <1>13, <1>14, <1>15, <1>16 DEF sum, turned, word, x, y

\* The registers of the code and the standard's after i rounds, and the words
\* of w that the circular buffer has.
Agree(w, i, s, h) ==
  /\ s.reg[Var(0, i)] = h[1] /\ s.reg[Var(1, i)] = h[2] /\ s.reg[Var(2, i)] = h[3]
  /\ s.reg[Var(3, i)] = h[4] /\ s.reg[Var(4, i)] = h[5]
  /\ \A j \in 0..79 : (IF i < 16 THEN j < 16 ELSE i - 16 <= j /\ j < i)
                        => s.block[j % 16] = w[j + 1]

\* The word of a round is the standard's.
LEMMA BlkIsWord ==
  ASSUME NEW b, NEW w, HasWords(b, 64, w), NEW i \in 0..79, NEW s, NEW h, Agree(w, i, s, h)
  PROVE  Blk(s.block, i) = w[i + 1] /\ w[i + 1] \in Word
<1>1. w \in Seq(Word) /\ Len(w) = 80 /\ i + 1 \in 1..80
  BY DEF HasWords
<1>2. w[i + 1] \in Word
  BY <1>1, ElementOfSeq
<1>3. \A j \in 0..79 : (IF i < 16 THEN j < 16 ELSE i - 16 <= j /\ j < i)
                         => s.block[j % 16] = w[j + 1]
  BY DEF Agree
<1>4. CASE i < 16
  <2>1. i % 16 = i
    BY <1>4
  <2>2. s.block[i] = w[i + 1]
    BY <1>3, <1>4, <2>1
  <2> QED BY <1>2, <1>4, <2>2 DEF Blk
<1>5. CASE i >= 16
  <2>1. /\ i - 3 \in 0..79 /\ i - 8 \in 0..79 /\ i - 14 \in 0..79 /\ i - 16 \in 0..79
        /\ (i + 13) % 16 = (i - 3) % 16 /\ (i + 8) % 16 = (i - 8) % 16
        /\ (i + 2) % 16 = (i - 14) % 16 /\ i % 16 = (i - 16) % 16
    BY <1>5
  <2>2. /\ s.block[(i + 13) % 16] = w[(i - 3) + 1] /\ s.block[(i + 8) % 16] = w[(i - 8) + 1]
        /\ s.block[(i + 2) % 16] = w[(i - 14) + 1] /\ s.block[i % 16] = w[(i - 16) + 1]
    BY <1>3, <1>5, <2>1
  <2> DEFINE t == i + 1
  <2>3. /\ (i - 3) + 1 = t - 3 /\ (i - 8) + 1 = t - 8 /\ (i - 14) + 1 = t - 14
        /\ (i - 16) + 1 = t - 16 /\ t \in 17..(64 + 16)
        /\ t - 3 \in 1..80 /\ t - 8 \in 1..80 /\ t - 14 \in 1..80 /\ t - 16 \in 1..80
    BY <1>5
  <2> HIDE DEF t
  <2>4. w[t - 3] \in Word /\ w[t - 8] \in Word /\ w[t - 14] \in Word /\ w[t - 16] \in Word
    BY <1>1, <2>3, ElementOfSeq
  <2>5. w[t] = Scheduled(w, t)
    BY <2>3 DEF HasWords
  <2>6. Blk(s.block, i) = Rol(XorW(XorW(w[t - 3], w[t - 8]), XorW(w[t - 14], w[t - 16])), 1)
    BY <1>5, <2>2, <2>3 DEF Blk
  <2>7. XorW(XorW(w[t - 3], w[t - 8]), XorW(w[t - 14], w[t - 16]))
          = XorW(w[t - 3], XorW(w[t - 8], XorW(w[t - 14], w[t - 16])))
    <3>1. XorW(w[t - 14], w[t - 16]) \in Word
      BY BitsOfWords
    <3>2. \A x, y, z \in Word : XorW(XorW(x, y), z) = XorW(x, XorW(y, z))
      BY XorAssociative
    <3> QED BY <2>4, <3>1, <3>2
  <2> QED BY <1>2, <2>5, <2>6, <2>7 DEF Scheduled, t
<1> QED BY <1>4, <1>5

\* A round and a step of the standard lead from agreement to agreement.
LEMMA RoundIsStep ==
  ASSUME NEW b, NEW w, HasWords(b, 64, w), NEW i \in 0..79,
         NEW s \in Circle, NEW h \in Regs, Agree(w, i, s, h)
  PROVE  Agree(w, i + 1, Round(s, i), RefStep(h, i, w[i + 1]))
<1> DEFINE r == Round(s, i)
           g == RefStep(h, i, w[i + 1])
<1>1. Blk(s.block, i) = w[i + 1] /\ w[i + 1] \in Word
  BY BlkIsWord
<1>2. /\ s.reg[Var(0, i)] = h[1] /\ s.reg[Var(1, i)] = h[2] /\ s.reg[Var(2, i)] = h[3]
      /\ s.reg[Var(3, i)] = h[4] /\ s.reg[Var(4, i)] = h[5]
  BY DEF Agree
<1>3. /\ r.reg[Var(4, i)] = Plus(Rol(h[1], 5), Plus(RefFunction(i, h[2], h[3], h[4]),
                                                    Plus(h[5], Plus(Constant(i), w[i + 1]))))
      /\ r.reg[Var(1, i)] = Rol30(h[2])
      /\ r.reg[Var(0, i)] = h[1] /\ r.reg[Var(2, i)] = h[3] /\ r.reg[Var(3, i)] = h[4]
      /\ r.block = [s.block EXCEPT ![i % 16] = w[i + 1]]
  <2>1. i \in Nat
    OBVIOUS
  <2> QED BY <1>1, <1>2, <2>1, RoundFacts
<1>4. /\ g[1] = Plus(Rol(h[1], 5), Plus(RefFunction(i, h[2], h[3], h[4]),
                                        Plus(h[5], Plus(Constant(i), w[i + 1]))))
      /\ g[2] = h[1] /\ g[3] = Rol30(h[2]) /\ g[4] = h[3] /\ g[5] = h[4]
  <2>1. i \in Nat
    OBVIOUS
  <2> QED BY <1>1, <2>1, RefStepFacts
<1> HIDE DEF r, g
<1>5. /\ r.reg[Var(0, i + 1)] = g[1] /\ r.reg[Var(1, i + 1)] = g[2] /\ r.reg[Var(2, i + 1)] = g[3]
      /\ r.reg[Var(3, i + 1)] = g[4] /\ r.reg[Var(4, i + 1)] = g[5]
  <2>1. i \in Nat
    OBVIOUS
  <2> QED BY <1>3, <1>4, <2>1, VarFacts
<1>6. ASSUME NEW j \in 0..79, IF i + 1 < 16 THEN j < 16 ELSE (i + 1) - 16 <= j /\ j < i + 1
      PROVE  r.block[j % 16] = w[j + 1]
  <2>1. s.block \in [0..15 -> Word] /\ i % 16 \in 0..15 /\ j % 16 \in 0..15
    BY DEF Circle
  <2>2. CASE j = i
    BY <1>3, <2>1, <2>2
  <2>3. CASE j # i
    <3>1. IF i < 16 THEN j < 16 ELSE i - 16 <= j /\ j < i
      BY <1>6, <2>3
    <3>2. j % 16 # i % 16
      <4>1. (j < i /\ i - j < 16) \/ (i < j /\ j - i < 16)
        BY <1>6, <2>3, <3>1
      <4>2. \A m, n \in Nat : m < n /\ n - m < 16 => m % 16 # n % 16
        BY SMT
      <4> QED BY <4>1, <4>2
    <3>3. s.block[j % 16] = w[j + 1]
      BY <3>1 DEF Agree
    <3> QED BY <1>3, <2>1, <3>2, <3>3
  <2> QED BY <2>2, <2>3
<1> QED BY <1>5, <1>6 DEF Agree, r, g

\* What the code starts its rounds with, and the state after each of them.
Loaded(state, b) == [reg |-> [k \in 0..4 |-> state[k + 1]], block |-> [k \in 0..15 |-> WordOf(b, k)]]
Rounds == [p \in (1..80) \X Circle |-> Round(p[2], p[1] - 1)]

LEMMA LoadedFacts ==
  ASSUME NEW state \in Regs, NEW b \in Block
  PROVE  Loaded(state, b) \in Circle
<1>1. \A k \in 0..4 : state[k + 1] \in Word
  BY DEF Regs
<1>2. \A k \in 0..15 : WordOf(b, k) \in Word
  BY WordOfBlock
<1> QED BY <1>1, <1>2 DEF Loaded, Circle

LEMMA EightyRounds ==
  ASSUME NEW state \in Regs, NEW b \in Block
  PROVE  \E s : /\ Path(Circle, Loaded(state, b), Rounds, 80, s)
                /\ SHA1Transform(state, b)
                     = <<Plus(state[1], s[81].reg[0]), Plus(state[2], s[81].reg[1]),
                         Plus(state[3], s[81].reg[2]), Plus(state[4], s[81].reg[3]),
                         Plus(state[5], s[81].reg[4])>>
<1> DEFINE first == Loaded(state, b)
           G == Rounds
           after == CHOOSE f : f = [i \in 0..80 |->
                      IF i = 0 THEN <<[reg |-> [k \in 0..4 |-> state[k + 1]],
                                       block |-> [k \in 0..15 |-> WordOf(b, k)]]>>
                      ELSE Append(f[i - 1], Round(f[i - 1][i], i - 1))]
<1>1. first \in Circle
  BY LoadedFacts
<1>2. \A i \in 1..80 : \A x \in Circle : G[<<i, x>>] = Round(x, i - 1) /\ i - 1 \in Nat
  BY DEF Rounds
<1> HIDE DEF G
<1>3. StaysIn(80, Circle, G)
  <2>1. \A i \in 1..80 : \A x \in Circle : Round(x, i - 1) \in Circle
    BY <1>2, RoundFacts
  <2> QED BY <1>2, <2>1 DEF StaysIn
<1>4. SHA1Transform(state, b)
        = <<Plus(state[1], after[80][81].reg[0]), Plus(state[2], after[80][81].reg[1]),
            Plus(state[3], after[80][81].reg[2]), Plus(state[4], after[80][81].reg[3]),
            Plus(state[5], after[80][81].reg[4])>>
  BY Zenon DEF SHA1Transform
<1>4a. after = CHOOSE f : f = [i \in 0..80 |->
                 IF i = 0 THEN <<first>> ELSE Append(f[i - 1], Round(f[i - 1][i], i - 1))]
  BY Zenon DEF Loaded
<1> HIDE DEF first, after
<1>5. PICK g : Paths(80, Circle, first, G, g)
  <2>1. 80 \in Nat
    OBVIOUS
  <2> QED BY <1>1, <1>3, <2>1, PathExists
<1>6. \A i \in 0..80 : g[i] = IF i = 0 THEN <<first>>
                              ELSE Append(g[i - 1], Round(g[i - 1][i], i - 1))
  <2>1. \A i \in 1..80 : g[i] = Append(g[i - 1], Round(g[i - 1][i], i - 1))
    BY <1>2, <1>5 DEF Paths
  <2>2. \A i \in 0..80 : i = 0 \/ i \in 1..80
    OBVIOUS
  <2> QED BY <1>5, <2>1, <2>2 DEF Paths
<1>7. g = [i \in 0..80 |->
             IF i = 0 THEN <<first>> ELSE Append(g[i - 1], Round(g[i - 1][i], i - 1))]
  BY <1>5, <1>6 DEF Paths
<1>8. after = [i \in 0..80 |->
                 IF i = 0 THEN <<first>> ELSE Append(after[i - 1], Round(after[i - 1][i], i - 1))]
  BY <1>4a, <1>7, Zenon
<1>9. \A i \in 0..80 : after[i] = IF i = 0 THEN <<first>>
                                  ELSE Append(after[i - 1], Round(after[i - 1][i], i - 1))
  BY <1>8
<1>10. after[0] = <<first>>
       /\ \A i \in 1..80 : after[i] = Append(after[i - 1], Round(after[i - 1][i], i - 1))
  <2>1. 0 \in 0..80 /\ \A i \in 1..80 : i \in 0..80 /\ i # 0
    OBVIOUS
  <2> QED BY <1>9, <2>1
<1>11. ASSUME NEW i \in 1..80, after[i - 1] \in Seq(Circle), Len(after[i - 1]) = i
       PROVE  after[i] = Append(after[i - 1], G[<<i, after[i - 1][i]>>])
  <2>1. after[i - 1][i] \in Circle
    <3> DEFINE q == after[i - 1]
    <3>1. q \in Seq(Circle) /\ Len(q) = i /\ i \in 1..i
      BY <1>11
    <3> HIDE DEF q
    <3>2. q[i] \in Circle
      BY <3>1, ElementOfSeq
    <3> QED BY <3>2 DEF q
  <2> QED BY <1>2, <1>10, <2>1
<1>12. Path(Circle, first, G, 80, after[80])
  <2>1. 80 \in Nat /\ 80 \in 0..80
    OBVIOUS
  <2> QED BY <1>1, <1>3, <1>10, <1>11, <2>1, PathAlong
<1> QED BY <1>4, <1>12 DEF first, G

LEMMA StartsAgreed ==
  ASSUME NEW state \in Regs, NEW b, NEW w, HasWords(b, 64, w)
  PROVE  Agree(w, 0, Loaded(state, b), state)
<1> DEFINE s == Loaded(state, b)
<1>1. s.reg = [k \in 0..4 |-> state[k + 1]] /\ s.block = [k \in 0..15 |-> WordOf(b, k)]
  BY DEF Loaded
<1> HIDE DEF s
<1>2. Var(0, 0) = 0 /\ Var(1, 0) = 1 /\ Var(2, 0) = 2 /\ Var(3, 0) = 3 /\ Var(4, 0) = 4
  BY SMT DEF Var
<1>3. ASSUME NEW j \in 0..79, j < 16 PROVE s.block[j % 16] = w[j + 1]
  <2>1. j % 16 = j /\ j \in 0..15 /\ j + 1 \in 1..16 /\ (j + 1) - 1 = j
    BY <1>3
  <2>2. w[j + 1] = WordOf(b, (j + 1) - 1)
    BY <2>1 DEF HasWords
  <2> QED BY <1>1, <2>1, <2>2
<1>4. /\ s.reg[0] = state[1] /\ s.reg[1] = state[2] /\ s.reg[2] = state[3]
      /\ s.reg[3] = state[4] /\ s.reg[4] = state[5]
  BY <1>1
<1> QED BY <1>2, <1>3, <1>4 DEF Agree, s

\* ws_handshake.c 71-150: for every state and every block, the unrolled rounds
\* over a circular buffer, which rename the registers instead of moving them and
\* compute two of the three functions another way, are the eighty steps that
\* FIPS 180 has.
THEOREM TransformIsReference ==
  ASSUME NEW state \in Regs, NEW b \in Block
  PROVE  SHA1Transform(state, b) = RefTransform(state, b) /\ SHA1Transform(state, b) \in Regs
<1> DEFINE w == RefWords(b)
           first == Loaded(state, b)
           G == StepsOf(w)
<1>0. HasWords(b, 64, w)
  BY EightyWords
<1> HIDE DEF w
<1>1. PICK s : /\ Path(Circle, first, Rounds, 80, s)
               /\ SHA1Transform(state, b)
                    = <<Plus(state[1], s[81].reg[0]), Plus(state[2], s[81].reg[1]),
                        Plus(state[3], s[81].reg[2]), Plus(state[4], s[81].reg[3]),
                        Plus(state[5], s[81].reg[4])>>
  BY EightyRounds
<1>2. PICK h : /\ Path(Regs, state, G, 80, h)
               /\ RefTransform(state, b)
                    = <<Plus(state[1], h[81][1]), Plus(state[2], h[81][2]), Plus(state[3], h[81][3]),
                        Plus(state[4], h[81][4]), Plus(state[5], h[81][5])>>
  BY EightySteps DEF w
<1> HIDE DEF first
<1>3. /\ s \in Seq(Circle) /\ Len(s) = 81 /\ s[1] = first
      /\ h \in Seq(Regs) /\ Len(h) = 81 /\ h[1] = state
      /\ \A i \in 1..80 : s[i + 1] = Rounds[<<i, s[i]>>] /\ h[i + 1] = G[<<i, h[i]>>]
  BY <1>1, <1>2 DEF Path
<1>4. \A i \in 1..81 : s[i] \in Circle /\ h[i] \in Regs
  BY <1>3, ElementOfSeq
<1>5. \A i \in 1..80 : s[i + 1] = Round(s[i], i - 1) /\ h[i + 1] = RefStep(h[i], i - 1, w[i])
  <2>1. \A i \in 1..80 : s[i] \in Circle /\ h[i] \in Regs
    BY <1>4
  <2>2. \A i \in 1..80 : /\ \A x \in Circle : Rounds[<<i, x>>] = Round(x, i - 1)
                         /\ \A x \in Regs : G[<<i, x>>] = RefStep(x, i - 1, w[i])
    BY DEF Rounds, StepsOf
  <2> HIDE DEF G
  <2> TAKE i \in 1..80
  <2>3. s[i + 1] = Rounds[<<i, s[i]>>] /\ Rounds[<<i, s[i]>>] = Round(s[i], i - 1)
    BY <1>3, <2>1, <2>2
  <2>4. h[i + 1] = G[<<i, h[i]>>] /\ G[<<i, h[i]>>] = RefStep(h[i], i - 1, w[i])
    BY <1>3, <2>1, <2>2
  <2> QED BY <2>3, <2>4
<1>6. \A i \in 0..80 : Agree(w, i, s[i + 1], h[i + 1])
  <2> DEFINE T == {i \in 0..80 : Agree(w, i, s[i + 1], h[i + 1])}
  <2>1. 0 \in T
    <3>1. 0 \in 0..80 /\ 0 + 1 = 1
      OBVIOUS
    <3>2. Agree(w, 0, first, state)
      BY <1>0, StartsAgreed DEF first
    <3> QED BY <1>3, <3>1, <3>2
  <2>2. ASSUME NEW i \in 1..80, i - 1 \in T PROVE i \in T
    <3> DEFINE m == i - 1
    <3>1. m \in 0..79 /\ m + 1 = i /\ i \in 0..80
      OBVIOUS
    <3>2. Agree(w, m, s[m + 1], h[m + 1])
      BY <2>2
    <3>3. s[i + 1] = Round(s[i], m) /\ h[i + 1] = RefStep(h[i], m, w[i])
      BY <1>5
    <3>4. s[i] \in Circle /\ h[i] \in Regs
      BY <1>4
    <3> HIDE DEF m
    <3>5. Agree(w, m, s[i], h[i])
      BY <3>1, <3>2
    <3>6. Agree(w, m + 1, Round(s[i], m), RefStep(h[i], m, w[m + 1]))
      BY <1>0, <3>1, <3>4, <3>5, RoundIsStep
    <3> QED BY <3>1, <3>3, <3>6
  <2> HIDE DEF T
  <2>3. 80 \in Nat
    OBVIOUS
  <2>4. \A i \in 0..80 : i \in T
    BY <2>1, <2>2, <2>3, Climb
  <2> QED BY <2>4 DEF T
<1>7. /\ s[81].reg[0] = h[81][1] /\ s[81].reg[1] = h[81][2] /\ s[81].reg[2] = h[81][3]
      /\ s[81].reg[3] = h[81][4] /\ s[81].reg[4] = h[81][5]
  <2>1. Var(0, 80) = 0 /\ Var(1, 80) = 1 /\ Var(2, 80) = 2 /\ Var(3, 80) = 3 /\ Var(4, 80) = 4
    BY SMT DEF Var
  <2>2. Agree(w, 80, s[81], h[81])
    <3>1. 80 \in 0..80 /\ 80 + 1 = 81
      OBVIOUS
    <3> QED BY <1>6, <3>1
  <2> QED BY <2>1, <2>2 DEF Agree
<1>8. h[81] \in Regs
  BY <1>4
<1>9. RefTransform(state, b) \in Regs
  <2>1. \A k \in 1..5 : Plus(state[k], h[81][k]) \in Word
    BY <1>8, SumFacts DEF Regs
  <2> DEFINE p == Plus(state[1], h[81][1])
             q == Plus(state[2], h[81][2])
             r == Plus(state[3], h[81][3])
             t == Plus(state[4], h[81][4])
             v == Plus(state[5], h[81][5])
  <2>2. p \in Word /\ q \in Word /\ r \in Word /\ t \in Word /\ v \in Word
    BY <2>1
  <2> HIDE DEF p, q, r, t, v
  <2>3. <<p, q, r, t, v>> \in Regs
    BY <2>2 DEF Regs
  <2> QED BY <1>2, <2>3 DEF p, q, r, t, v
<1> QED BY <1>1, <1>2, <1>7, <1>9

--------------------------------------------------------------------------------
(* The digest of a message *)

LEMMA InitialStateRange == InitialState \in Regs
<1>1. /\ <<26437, 8961>> \in Word /\ <<61389, 43913>> \in Word /\ <<39098, 56574>> \in Word
      /\ <<4146, 21622>> \in Word /\ <<50130, 57840>> \in Word
  <2> DEFINE N == {26437, 8961, 61389, 43913, 39098, 56574, 4146, 21622, 50130, 57840}
  <2>1. \A n \in N : n \in Nat /\ n <= 65535
    OBVIOUS
  <2>2. \A n \in N : n \in Halves
    BY <2>1, HalfFacts
  <2> QED BY <2>2 DEF Word
<1> DEFINE p == <<26437, 8961>>
           q == <<61389, 43913>>
           r == <<39098, 56574>>
           t == <<4146, 21622>>
           v == <<50130, 57840>>
<1>2. InitialState = <<p, q, r, t, v>>
  BY DEF InitialState
<1> HIDE DEF p, q, r, t, v
<1>3. p \in Word /\ q \in Word /\ r \in Word /\ t \in Word /\ v \in Word
  BY <1>1 DEF p, q, r, t, v
<1>4. <<p, q, r, t, v>> \in Regs
  BY <1>3 DEF Regs
<1> QED BY <1>2, <1>4

\* The states after each block, by the code and by the standard.
CodeChain(blocks, f) ==
  f = [k \in 0..Len(blocks) |-> IF k = 0 THEN InitialState ELSE SHA1Transform(f[k - 1], blocks[k])]
RefChain(blocks, f) ==
  f = [k \in 0..Len(blocks) |-> IF k = 0 THEN InitialState ELSE RefTransform(f[k - 1], blocks[k])]

LEMMA ChainFacts ==
  ASSUME NEW blocks \in Seq(Block), NEW f, CodeChain(blocks, f) \/ RefChain(blocks, f)
  PROVE  \A k \in 0..Len(blocks) : f[k] \in Regs
<1> DEFINE N == Len(blocks)
           T == {k \in 0..N : f[k] \in Regs}
<1>1. N \in Nat /\ \A k \in 1..N : blocks[k] \in Block /\ k \in 0..N /\ k - 1 \in 0..N /\ k # 0
  <2>1. \A k \in 1..N : blocks[k] \in Block
    BY ElementOfSeq
  <2> QED BY <2>1
<1>2. f[0] = InitialState /\ 0 \in 0..N
  BY <1>1 DEF CodeChain, RefChain
<1>3. 0 \in T
  BY <1>2, InitialStateRange
<1>4. ASSUME NEW k \in 1..N, k - 1 \in T PROVE k \in T
  <2>1. f[k - 1] \in Regs /\ blocks[k] \in Block /\ k \in 0..N /\ k # 0
    BY <1>1, <1>4
  <2>2. f[k] = SHA1Transform(f[k - 1], blocks[k]) \/ f[k] = RefTransform(f[k - 1], blocks[k])
    BY <2>1 DEF CodeChain, RefChain
  <2>3. SHA1Transform(f[k - 1], blocks[k]) \in Regs /\ RefTransform(f[k - 1], blocks[k]) \in Regs
    BY <2>1, TransformIsReference
  <2> QED BY <2>1, <2>2, <2>3
<1> HIDE DEF T
<1>5. \A k \in 0..N : k \in T
  BY <1>1, <1>3, <1>4, Climb
<1> QED BY <1>5 DEF T

LEMMA ChainsAgree ==
  ASSUME NEW blocks \in Seq(Block), NEW f
  PROVE  CodeChain(blocks, f) <=> RefChain(blocks, f)
<1>1. ASSUME \A k \in 0..Len(blocks) : f[k] \in Regs, NEW k \in 0..Len(blocks)
      PROVE  (IF k = 0 THEN InitialState ELSE SHA1Transform(f[k - 1], blocks[k]))
               = (IF k = 0 THEN InitialState ELSE RefTransform(f[k - 1], blocks[k]))
  <2>1. CASE k = 0
    BY <2>1
  <2>2. CASE k # 0
    <3>1. k \in 1..Len(blocks) /\ k - 1 \in 0..Len(blocks)
      BY <2>2
    <3>2. f[k - 1] \in Regs /\ blocks[k] \in Block
      BY <1>1, <3>1, ElementOfSeq
    <3> QED BY <2>2, <3>2, TransformIsReference
  <2> QED BY <2>1, <2>2
<1>2. ASSUME CodeChain(blocks, f) \/ RefChain(blocks, f)
      PROVE  \A k \in 0..Len(blocks) :
               (IF k = 0 THEN InitialState ELSE SHA1Transform(f[k - 1], blocks[k]))
                 = (IF k = 0 THEN InitialState ELSE RefTransform(f[k - 1], blocks[k]))
  BY <1>1, <1>2, ChainFacts
<1> QED BY <1>2 DEF CodeChain, RefChain

LEMMA PaddedRange ==
  ASSUME NEW S, NEW m \in Seq(S), 0 \in S, 128 \in S, \A k \in 0..7 : Byte(8 * Len(m), k) \in S
  PROVE  Padded(m) \in Seq(S)
<1> DEFINE need == CHOOSE z \in 0..63 : (Len(m) + 9 + z) % 64 = 0
           one == <<128>>
           zeros == [k \in 1..need |-> 0]
           bits == [k \in 1..8 |-> Byte(8 * Len(m), 8 - k)]
<1>1. Padded(m) = m \o one \o zeros \o bits
  BY DEF Padded
<1>2. need \in Nat
  <2> DEFINE n == Len(m)
             z0 == CHOOSE z \in 0..63 : (n + 9 + z) % 64 = 0
  <2>1. n \in Nat
    OBVIOUS
  <2>2. z0 \in 0..63
    <3> HIDE DEF n
    <3> QED BY <2>1, Zeros
  <2>3. need = z0
    OBVIOUS
  <2> HIDE DEF z0, need
  <2> QED BY <2>2, <2>3
<1> HIDE DEF need
<1>3. one \in Seq(S)
  OBVIOUS
<1>4. zeros \in Seq(S)
  <2>1. \A x \in 1..need : zeros[x] \in S
    OBVIOUS
  <2> QED BY <1>2, <2>1
<1>5. bits \in Seq(S)
  <2>1. \A k \in 1..8 : Byte(8 * Len(m), 8 - k) \in S
    OBVIOUS
  <2> QED BY <2>1
<1> HIDE DEF one, zeros, bits
<1> QED BY <1>1, <1>3, <1>4, <1>5

\* ws_handshake.c 25-150: whatever a message that is short enough to be counted,
\* the code's digest is the one that FIPS 180 gives it.
THEOREM EveryDigest ==
  ASSUME NEW m \in Seq(Octet), Len(m) \in Hashable
  PROVE  Digest(m) = RefDigest(m)
<1> DEFINE ctx == SHA1Update(Fresh64, m)
           blocks == Blocks(Padded(m))
<1>1. 0 \in Octet /\ 128 \in Octet /\ \A k \in 0..7 : Byte(8 * Len(m), k) \in Octet
  <2>1. 8 * Len(m) \in Lens
    BY SMT DEF Hashable, Lens
  <2>2. 0 \in Octet /\ 128 \in Octet
    BY OctetFacts
  <2> DEFINE n == 8 * Len(m)
  <2> HIDE DEF n
  <2>3. \A k \in 0..3 : Byte(n, k) \in Octet
    BY <2>1, BytesTogether DEF n
  <2>4. Byte(n, 4) = 0 /\ Byte(n, 5) = 0 /\ Byte(n, 6) = 0 /\ Byte(n, 7) = 0
    BY <2>1, BytesTogether DEF n
  <2>5. \A k \in 0..7 : k \in 0..3 \/ k = 4 \/ k = 5 \/ k = 6 \/ k = 7
    OBVIOUS
  <2>6. \A k \in 0..7 : Byte(n, k) \in Octet
    BY <2>2, <2>3, <2>4, <2>5
  <2> QED BY <2>2, <2>6 DEF n
<1>2. <<>> \in Seq(Octet) /\ <<>> \o m = m
  OBVIOUS
<1>3. Holds(ctx, m)
  <2>1. Holds(ctx, <<>> \o m)
    BY <1>2, FreshHolds, UpdateHolds
  <2> QED BY <1>2, <2>1
<1> HIDE DEF ctx
<1>4. SHA1Final(ctx).blocks = blocks
  BY <1>1, <1>3, FinalBlocks
<1>5. blocks \in Seq(Block)
  <2>1. Padded(m) \in Seq(Octet)
    BY <1>1, PaddedRange
  <2> QED BY <2>1, BlocksFacts DEF Block
<1> HIDE DEF blocks
<1> DEFINE code == CHOOSE f : f = [k \in 0..Len(blocks) |->
                     IF k = 0 THEN InitialState ELSE SHA1Transform(f[k - 1], blocks[k])]
           ref == CHOOSE f : f = [k \in 0..Len(blocks) |->
                    IF k = 0 THEN InitialState ELSE RefTransform(f[k - 1], blocks[k])]
<1>6. Digest(m) = BytesOf(code[Len(blocks)])
  <2>1. AfterBlocks(blocks) = code[Len(blocks)]
    BY Zenon DEF AfterBlocks
  <2> QED BY <1>4, <2>1 DEF Digest, ctx
<1>7. RefDigest(m) = BytesOf(ref[Len(blocks)])
  BY Zenon DEF RefDigest, blocks
<1>8. code = CHOOSE f : CodeChain(blocks, f)
  BY Zenon DEF CodeChain
<1>9. ref = CHOOSE f : RefChain(blocks, f)
  BY Zenon DEF RefChain
<1> HIDE DEF code, ref
<1>10. code = ref
  <2>1. \A f : CodeChain(blocks, f) <=> RefChain(blocks, f)
    BY <1>5, ChainsAgree
  <2>2. (CHOOSE f : CodeChain(blocks, f)) = (CHOOSE f : RefChain(blocks, f))
    BY <2>1
  <2> QED BY <1>8, <1>9, <2>2
<1> QED BY <1>6, <1>7, <1>10

LEMMA DigestsAgree == DigestIsSha1
<1> SUFFICES ASSUME NEW n \in {0, 55, 56, 60, 64, 119} PROVE Digest(Bytes(n)) = RefDigest(Bytes(n))
  BY DEF DigestIsSha1
<1>1. n \in Nat /\ n \in Hashable
  BY DEF Hashable
<1>2. Bytes(n) \in Seq(Octet) /\ Len(Bytes(n)) = n
  <2>1. \A i \in 1..n : (37 * i + n) % 256 \in Octet
    <3>1. \A i \in 1..n : 37 * i + n \in Nat
      BY <1>1
    <3>2. \A x \in Nat : x % 256 \in Nat /\ x % 256 <= 255
      BY SMT
    <3> QED BY <3>1, <3>2, OctetFacts
  <2> QED BY <1>1, <2>1 DEF Bytes
<1> QED BY <1>1, <1>2, EveryDigest

\* ws_handshake.c 25-150: in the initial state of any instance, what the accept
\* key is made of is SHA-1.
THEOREM DigestIsFips == Spec => []DigestAtStart
<1>1. DigestAtStart
  BY DigestsAgree DEF DigestAtStart, AtStart
<1> QED BY <1>1, PTL
===============================================================================

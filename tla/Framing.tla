-------------------------------- MODULE Framing --------------------------------
(***************************************************************************)
(* The pure functions of src/protocol/ws_handshake.c and their twins in    *)
(* server.c, net_client.c and bcrypt_wrapper.c: three ways to write the    *)
(* header of a frame, two ways to read it, two base64 encoders, and how    *)
(* SHA1Update and SHA1Final cut a message into blocks (Sha1 has what       *)
(* SHA1Transform does with one).                                           *)
(***************************************************************************)
EXTENDS Integers, Sequences

CONSTANTS
  PayloadLengths,  \* lengths of payloads, below 2^31
  Octets,          \* bytes that payloads, masks and junk are made of
  MessageLengths   \* lengths of messages to be hashed, below 2^28: 2^31 bits

ASSUME FormatAssumption == /\ \A n \in PayloadLengths : n \in Nat /\ n <= 2147483647
                           /\ Octets \subseteq 0..255
                           /\ \A n \in MessageLengths : n \in Nat /\ n <= 268435455

--------------------------------------------------------------------------------
(* Headers: sequences of bytes.  Lengths stay below 2^31: a sender has the *)
(* payload in memory and net_client_send refuses more than a megabyte.     *)

\* Byte k of a length, counted from the last.
Weight == <<1, 256, 65536, 16777216>>
Byte(n, k) == IF k > 3 THEN 0 ELSE (n \div Weight[k + 1]) % 256

LengthField(n) ==
  IF n < 126 THEN <<n>>
  ELSE IF n < 65536 THEN <<126, Byte(n, 1), Byte(n, 0)>>
  ELSE <<127, Byte(n, 7), Byte(n, 6), Byte(n, 5), Byte(n, 4),
              Byte(n, 3), Byte(n, 2), Byte(n, 1), Byte(n, 0)>>

\* Mutant: 126 is written into the byte that means "two bytes follow".
BuildHeaderShort(n) ==
  <<129>> \o (IF n <= 126 THEN <<n>> ELSE LengthField(n))

\* ws_build_frame; send_ws_frame writes the same.
BuildHeader(n) == <<129>> \o LengthField(n)

\* net_client_send: the mask bit, and the mask behind the length.
SendHeader(n, mask) ==
  LET f == LengthField(n)
  IN  <<129, 128 + f[1]>> \o Tail(f) \o mask

\* Reading: the first byte of the length without the mask bit, the bytes behind
\* it put together, and where the payload starts.
Short(b) == b[2] % 128
Masked(b) == b[2] >= 128
Extra(b) == CASE Short(b) = 126 -> 2 [] Short(b) = 127 -> 8 [] OTHER -> 0
Shifted(x, y) == x * 256 + y
Payload(b) ==
  CASE Short(b) = 126 -> Shifted(b[3], b[4])
    [] Short(b) = 127 ->
         Shifted(Shifted(Shifted(Shifted(Shifted(Shifted(Shifted(b[3],
           b[4]), b[5]), b[6]), b[7]), b[8]), b[9]), b[10])
    [] OTHER -> Short(b)
Start(b) == 2 + Extra(b) + (IF Masked(b) THEN 4 ELSE 0)

\* ws_parse_frame on a buffer of len bytes that begins with b.
ParseFrame(b, len) ==
  IF len < 2 THEN -1
  ELSE IF len < 2 + Extra(b) \/ len < Start(b) \/ len < Start(b) + Payload(b) THEN -2
  ELSE Start(b) + Payload(b)

\* The frame loop of main: 0 to wait, -1 to close, or the length of the frame.
ServerParse(b, len, room) ==
  IF len < 2 \/ len < 2 + Extra(b) THEN 0
  ELSE IF Start(b) + Payload(b) > room THEN -1
  ELSE IF len < Start(b) + Payload(b) THEN 0
  ELSE Start(b) + Payload(b)

--------------------------------------------------------------------------------
(* base64_encode: digits as their index in b64_table, four out of three     *)
(* bytes                                                                    *)

ByteAt(in, i) == IF i < Len(in) THEN in[i + 1] ELSE 0

\* Mutant: the last byte of a group is taken from before the second.
DigitSwapped(r, a, b, c) ==
  CASE r = 0 -> a \div 4
    [] r = 1 -> (a % 4) * 16 + (b \div 16)
    [] r = 2 -> (c % 16) * 4 + (b \div 64)
    [] r = 3 -> c % 64

Digit(r, a, b, c) ==
  CASE r = 0 -> a \div 4
    [] r = 1 -> (a % 4) * 16 + (b \div 16)
    [] r = 2 -> (b % 16) * 4 + (c \div 64)
    [] r = 3 -> c % 64

\* The loop counter never passes in_len, so neither test for '=' succeeds.
Base64(in) ==
  [j \in 1..4 * ((Len(in) + 2) \div 3) |->
     LET g == 3 * ((j - 1) \div 4)
     IN  Digit((j - 1) % 4, ByteAt(in, g), ByteAt(in, g + 1), ByteAt(in, g + 2))]

\* encode_base64 of bcrypt_wrapper.c puts three bytes together and leaves out
\* the digits that have none.
Scale == <<262144, 4096, 64, 1>>
SaltDigit(r, a, b, c) == ((a * 65536 + b * 256 + c) \div Scale[r + 1]) % 64
EncodeBase64(in) ==
  [j \in 1..(8 * Len(in) + 5) \div 6 |->
     LET g == 3 * ((j - 1) \div 4)
     IN  SaltDigit((j - 1) % 4, ByteAt(in, g), ByteAt(in, g + 1), ByteAt(in, g + 2))]

\* bcrypt_gensalt: "$2a$06$", the digits of 16 bytes and the end of the string,
\* in a buffer of 32 bytes.
SaltBuffer == 32
SaltLength == 7 + Len(EncodeBase64([i \in 1..16 |-> 0])) + 1

--------------------------------------------------------------------------------
(* SHA1Update and SHA1Final.  A context: the bytes counted, the buffer, and *)
(* the blocks that SHA1Transform was given.                                 *)

Fresh64 == [count |-> 0, buffer |-> [i \in 0..63 |-> 0], blocks |-> <<>>]

Copied(buffer, j, data) ==
  [i \in 0..63 |-> IF i \in j..j + Len(data) - 1 THEN data[i - j + 1] ELSE buffer[i]]
BlockOf(data, i) == [x \in 0..63 |-> data[i + x + 1]]

SHA1Update(ctx, data) ==
  LET j == ctx.count % 64
      first == 64 - j
      more == (Len(data) - first) \div 64
      full == Copied(ctx.buffer, j, SubSeq(data, 1, first))
      used == first + 64 * more
  IN  IF j + Len(data) > 63
        THEN [count  |-> ctx.count + Len(data),
              blocks |-> ctx.blocks \o <<full>>
                           \o [k \in 1..more |-> BlockOf(data, first + 64 * (k - 1))],
              buffer |-> Copied(full, 0, SubSeq(data, used + 1, Len(data)))]
        ELSE [count  |-> ctx.count + Len(data),
              blocks |-> ctx.blocks,
              buffer |-> Copied(ctx.buffer, j, data)]

\* Mutant: the length may take the place of the last zeros.
SHA1FinalShort(ctx) ==
  LET ended == SHA1Update(ctx, <<128>>)
      need == CHOOSE z \in 0..63 : (ended.count + z) % 64 = 57
      zeros == [k \in 1..need |-> 0]
      bits == [k \in 1..8 |-> Byte(8 * ctx.count, 8 - k)]
  IN  SHA1Update(SHA1Update(ended, zeros), bits)

\* One byte 128, zeros until eight bytes are left in a block, the length in
\* bits.  Zeros added one by one are those added at once.
SHA1Final(ctx) ==
  LET ended == SHA1Update(ctx, <<128>>)
      need == CHOOSE z \in 0..63 : (ended.count + z) % 64 = 56
      zeros == [k \in 1..need |-> 0]
      bits == [k \in 1..8 |-> Byte(8 * ctx.count, 8 - k)]
  IN  SHA1Update(SHA1Update(ended, zeros), bits)

--------------------------------------------------------------------------------
(* Properties *)

\* What a reader has of a header when p bytes have come: behind them is junk.
Seen(b, p, junk) == [i \in 1..14 |-> IF i <= p /\ i <= Len(b) THEN b[i] ELSE junk]
Headers(n) == {BuildHeader(n)} \union {SendHeader(n, <<k, k, k, k>>) : k \in Octets}

\* What both readers make of the p bytes of a frame that have come: they wait
\* until the last one is there and take exactly the frame then, and the server
\* refuses one that has no room as soon as its length is there, and no other.
ReadsFrame(b, n, p, seen, room) ==
  LET total == Len(b) + n
  IN  /\ ParseFrame(seen, p) = IF p < 2 THEN -1 ELSE IF p < total THEN -2 ELSE total
      /\ ServerParse(seen, p, room) =
           IF p < 2 + Extra(b) THEN 0 ELSE IF total > room THEN -1
           ELSE IF p < total THEN 0 ELSE total

\* Whoever wrote a frame and however much of it has come, neither reader is
\* misled by what lies behind the bytes received.
FramesParse ==
  \A n \in PayloadLengths, junk \in Octets : \A b \in Headers(n) :
    LET total == Len(b) + n
    IN  \A p \in 0..14 \union {total - 1, total, total + 1} :
          p >= 0 => \A room \in {total - 1, total, total + 1} :
                      ReadsFrame(b, n, p, Seen(b, p, junk), room)

\* RFC 4648: digit j is six bits of the input, "=" where there is no byte.
Power == <<128, 64, 32, 16, 8, 4, 2, 1>>
Bit(in, i) == IF i \div 8 < Len(in) THEN (in[(i \div 8) + 1] \div Power[(i % 8) + 1]) % 2 ELSE 0
Sextet(in, j) ==
  32 * Bit(in, 6 * j) + 16 * Bit(in, 6 * j + 1) + 8 * Bit(in, 6 * j + 2)
    + 4 * Bit(in, 6 * j + 3) + 2 * Bit(in, 6 * j + 4) + Bit(in, 6 * j + 5)
Padding == 64
ReferenceBase64(in) ==
  [j \in 1..4 * ((Len(in) + 2) \div 3) |->
     IF 6 * (j - 1) < 8 * Len(in) THEN Sextet(in, j - 1) ELSE Padding]

\* Every digit of the accept key is base64's; where it would be "=", and
\* nowhere else, the code has the digit 0, which is "A".  The salt's digits are
\* the same without those.
EncodesUpToPadding(in) ==
  LET ref == ReferenceBase64(in)
  IN  /\ Base64(in) = [j \in DOMAIN ref |-> IF ref[j] = Padding THEN 0 ELSE ref[j]]
      /\ EncodeBase64(in) = [j \in {d \in DOMAIN ref : ref[d] # Padding} |-> ref[j]]

\* So they are for the inputs tried, and the salt fits its buffer.
Base64UpToPadding ==
  /\ SaltLength <= SaltBuffer
  /\ \A n \in 0..4 : \A in \in [1..n -> Octets] : EncodesUpToPadding(in)

\* RFC 3174: the message, a byte 128, zeros, the length in bits.
Padded(m) ==
  LET zeros == CHOOSE z \in 0..63 : (Len(m) + 9 + z) % 64 = 0
  IN  m \o <<128>> \o [k \in 1..zeros |-> 0] \o [k \in 1..8 |-> Byte(8 * Len(m), 8 - k)]
Blocks(m) == [k \in 1..Len(m) \div 64 |-> BlockOf(m, 64 * (k - 1))]
Message(n) == [i \in 1..n |-> 1000 + i]

\* Whatever its length, the message is hashed as its padded blocks, also when
\* it is handed over in two parts; the handshake's has 60 bytes.
BlocksArePadded ==
  \A n \in MessageLengths : \A k \in MessageLengths \union {0} :
    k <= n =>
      LET m == Message(n)
          ctx == SHA1Update(SHA1Update(Fresh64, SubSeq(m, 1, k)), SubSeq(m, k + 1, n))
      IN  SHA1Final(ctx).blocks = Blocks(Padded(m))
===============================================================================

--------------------------------- MODULE Sha1 ---------------------------------
(***************************************************************************)
(* SHA1Transform of src/protocol/ws_handshake.c, and with SHA1Update and   *)
(* SHA1Final of Framing the digest behind the accept key of the handshake. *)
(* A 32-bit word is a pair of halves.                                      *)
(***************************************************************************)
EXTENDS Framing

\* The 32-bit operators of C: the sixteen bits of each half, the lowest first.
Two == <<1, 2, 4, 8, 16, 32, 64, 128, 256, 512, 1024, 2048, 4096, 8192, 16384, 32768>>
BitOf(h, k) == (h \div Two[k]) % 2
Half(b) ==
  b[1] + 2 * b[2] + 4 * b[3] + 8 * b[4] + 16 * b[5] + 32 * b[6] + 64 * b[7] + 128 * b[8]
    + 256 * b[9] + 512 * b[10] + 1024 * b[11] + 2048 * b[12] + 4096 * b[13] + 8192 * b[14]
    + 16384 * b[15] + 32768 * b[16]
XorH(x, y) == Half([k \in 1..16 |-> IF BitOf(x, k) = BitOf(y, k) THEN 0 ELSE 1])
AndH(x, y) == Half([k \in 1..16 |-> IF BitOf(x, k) = 1 /\ BitOf(y, k) = 1 THEN 1 ELSE 0])
OrH(x, y) == Half([k \in 1..16 |-> IF BitOf(x, k) = 1 \/ BitOf(y, k) = 1 THEN 1 ELSE 0])

XorW(x, y) == <<XorH(x[1], y[1]), XorH(x[2], y[2])>>
AndW(x, y) == <<AndH(x[1], y[1]), AndH(x[2], y[2])>>
OrW(x, y) == <<OrH(x[1], y[1]), OrH(x[2], y[2])>>
Plus(x, y) ==
  LET low == x[2] + y[2]
  IN  <<(x[1] + y[1] + (low \div 65536)) % 65536, low % 65536>>

\* n is at most 15; rol 30 is rol 14 of the halves swapped.
Rol(x, n) ==
  <<(x[1] * Two[n + 1] + (x[2] \div Two[17 - n])) % 65536,
    (x[2] * Two[n + 1] + (x[1] \div Two[17 - n])) % 65536>>
Rol30(x) == Rol(<<x[2], x[1]>>, 14)

--------------------------------------------------------------------------------
(* SHA1Transform *)

InitialState ==
  <<<<26437, 8961>>, <<61389, 43913>>, <<39098, 56574>>, <<4146, 21622>>, <<50130, 57840>>>>

\* Mutant: R4 was copied from R2 and kept its constant.
ConstantMistyped(i) ==
  CASE i < 20 -> <<23170, 31129>>
    [] i \in 40..59 -> <<36635, 48348>>
    [] OTHER -> <<28377, 60321>>

Constant(i) ==
  CASE i < 20 -> <<23170, 31129>>
    [] i \in 20..39 -> <<28377, 60321>>
    [] i \in 40..59 -> <<36635, 48348>>
    [] OTHER -> <<51810, 49622>>

WordOf(b, i) == <<b[4 * i] * 256 + b[4 * i + 1], b[4 * i + 2] * 256 + b[4 * i + 3]>>

\* Which of a..e is argument k of the macro in round i.
Var(k, i) == (k + 4 * i) % 5

\* The macros R0..R4.
Mixed(i, w, x, y) ==
  CASE i < 20 -> XorW(AndW(w, XorW(x, y)), y)
    [] i \in 40..59 -> OrW(AndW(OrW(w, x), y), AndW(w, x))
    [] OTHER -> XorW(XorW(w, x), y)

\* Mutant: without rol(.., 1), which is the older SHA-0.
BlkUnrotated(block, i) ==
  IF i < 16 THEN block[i]
  ELSE XorW(XorW(block[(i + 13) % 16], block[(i + 8) % 16]),
            XorW(block[(i + 2) % 16], block[i % 16]))

\* The macros blk0 and blk: the sixteen words are overwritten in a circle.
Blk(block, i) ==
  IF i < 16 THEN block[i]
  ELSE Rol(XorW(XorW(block[(i + 13) % 16], block[(i + 8) % 16]),
                XorW(block[(i + 2) % 16], block[i % 16])), 1)

Round(s, i) ==
  LET At(k) == s.reg[Var(k, i)]
      word == Blk(s.block, i)
      more == Plus(Plus(Mixed(i, At(1), At(2), At(3)), word), Constant(i))
      sum == Plus(At(4), Plus(more, Rol(At(0), 5)))
  IN  [reg |-> [s.reg EXCEPT ![Var(4, i)] = sum, ![Var(1, i)] = Rol30(At(1))],
       block |-> [s.block EXCEPT ![i % 16] = word]]

SHA1Transform(state, buffer) ==
  LET after[i \in 0..80] ==
        IF i = 0 THEN <<[reg |-> [k \in 0..4 |-> state[k + 1]],
                         block |-> [k \in 0..15 |-> WordOf(buffer, k)]]>>
        ELSE LET s == after[i - 1] IN Append(s, Round(s[i], i - 1))
      reg == after[80][81].reg
  IN  <<Plus(state[1], reg[0]), Plus(state[2], reg[1]), Plus(state[3], reg[2]),
        Plus(state[4], reg[3]), Plus(state[5], reg[4])>>

--------------------------------------------------------------------------------
(* ws_generate_handshake_response: the digest, which base64_encode writes *)

AfterBlocks(blocks) ==
  LET state[k \in 0..Len(blocks)] ==
        IF k = 0 THEN InitialState ELSE SHA1Transform(state[k - 1], blocks[k])
  IN  state[Len(blocks)]
BytesOf(words) ==
  [i \in 1..20 |->
     LET w == words[((i - 1) \div 4) + 1]
         half == w[(((i - 1) % 4) \div 2) + 1]
     IN  IF i % 2 = 1 THEN half \div 256 ELSE half % 256]
Digest(m) == BytesOf(AfterBlocks(SHA1Final(SHA1Update(Fresh64, m)).blocks))

--------------------------------------------------------------------------------
(* Property: TLC evaluates it over these messages *)

\* FIPS 180: eighty words and one shift of the five registers a round.
RefWords(b) ==
  LET words[n \in 0..64] ==
        IF n = 0 THEN [i \in 1..16 |-> WordOf(b, i - 1)]
        ELSE LET w == words[n - 1]
                 t == n + 16
             IN  Append(w, Rol(XorW(w[t - 3], XorW(w[t - 8], XorW(w[t - 14], w[t - 16]))), 1))
  IN  words[64]
NotW(x) == <<65535 - x[1], 65535 - x[2]>>
RefFunction(t, b, c, d) ==
  CASE t < 20 -> XorW(AndW(b, c), AndW(NotW(b), d))
    [] t \in 40..59 -> XorW(XorW(AndW(b, c), AndW(b, d)), AndW(c, d))
    [] OTHER -> XorW(b, XorW(c, d))
RefStep(h, t, word) ==
  [h EXCEPT ![1] = Plus(Rol(h[1], 5), Plus(RefFunction(t, h[2], h[3], h[4]),
                                           Plus(h[5], Plus(Constant(t), word)))),
            ![2] = h[1], ![3] = Rol30(h[2]), ![4] = h[3], ![5] = h[4]]
RefTransform(h, b) ==
  LET words == RefWords(b)
      steps[t \in 0..Len(words)] ==
        IF t = 0 THEN <<h>>
        ELSE LET s == steps[t - 1] IN Append(s, RefStep(s[t], t - 1, words[t]))
      last == steps[80][81]
  IN  <<Plus(h[1], last[1]), Plus(h[2], last[2]), Plus(h[3], last[3]), Plus(h[4], last[4]),
        Plus(h[5], last[5])>>
RefDigest(m) ==
  LET blocks == Blocks(Padded(m))
      h[k \in 0..Len(blocks)] == IF k = 0 THEN InitialState ELSE RefTransform(h[k - 1], blocks[k])
  IN  BytesOf(h[Len(blocks)])

Abc == <<97, 98, 99>>
AbcDigest == <<169, 153, 62, 54, 71, 6, 129, 106, 186, 62, 37, 113, 120, 80, 194, 108,
               156, 208, 216, 157>>
\* The lengths around the end of a block; 60 is that of key and GUID.
Bytes(n) == [i \in 1..n |-> (37 * i + n) % 256]

\* The unrolled rounds over a circular buffer, with the registers renamed
\* instead of moved, compute SHA-1 of every message.
DigestIsSha1 ==
  \A n \in {0, 55, 56, 60, 64, 119} : Digest(Bytes(n)) = RefDigest(Bytes(n))

\* The example of the standard, which also settles the constants.
ExampleOfSha1 == Digest(Abc) = AbcDigest
===============================================================================

------------------------------ MODULE CollabProofs ------------------------------
(***************************************************************************)
(* The drawings of a room stay one drawing (InStep), and every screen      *)
(* shows its history (ScreenShowsHistory), in every reachable state of     *)
(* Collab: for any clients, rooms and step limit, any number of strokes,   *)
(* and connections that hold any number of messages.                       *)
(***************************************************************************)
EXTENDS Collab, TLAPS, SequenceTheorems, WellFoundedInduction

--------------------------------------------------------------------------------
(* Naturals and sequences *)

\* The order of the naturals is well founded.
LEMMA NatLess == IsWellFoundedOn({ss \in Nat \X Nat : ss[1] < ss[2]}, Nat)
BY ONLY NatLessThanWellFounded, Zenon DEF OpToRel

\* A set of naturals that is not empty has a least member.
LEMMA Least ==
  ASSUME NEW T \in SUBSET Nat, T # {}
  PROVE  \E x \in T : \A y \in T : x <= y
<1>1. \E x \in T : \A y \in T : ~ (<<y, x>> \in {ss \in Nat \X Nat : ss[1] < ss[2]})
  BY NatLess, WFMin, Zenon
<1>2. \A x, y \in Nat : ~ (<<y, x>> \in {ss \in Nat \X Nat : ss[1] < ss[2]}) => x <= y
  OBVIOUS
<1> QED BY <1>1, <1>2, Zenon

\* The elements of a queue whose first message was taken.
LEMMA TailFacts ==
  ASSUME NEW S, NEW q \in Seq(S), q # <<>>
  PROVE  /\ Tail(q) \in Seq(S) /\ Len(Tail(q)) = Len(q) - 1 /\ Len(q) \in Nat \ {0}
         /\ Head(q) \in S /\ Head(q) = q[1]
         /\ \A i \in 1..(Len(q) - 1) : Tail(q)[i] = q[i + 1]
BY HeadTailProperties, LenProperties, EmptySeq

\* What a queue has that another has when a message was taken, or one appended.
LEMMA HasTail ==
  ASSUME NEW S, NEW q \in Seq(S), q # <<>>, NEW T
  PROVE  Has(q, T) <=> Head(q).type \in T \/ Has(Tail(q), T)
<1>1. /\ DOMAIN q = 1..Len(q) /\ DOMAIN Tail(q) = 1..(Len(q) - 1) /\ Len(q) \in Nat \ {0}
      /\ Head(q) = q[1] /\ \A i \in 1..(Len(q) - 1) : Tail(q)[i] = q[i + 1]
  BY TailFacts, LenProperties
<1>2. ASSUME NEW i \in 1..Len(q), q[i].type \in T
      PROVE  Head(q).type \in T \/ \E j \in 1..(Len(q) - 1) : Tail(q)[j].type \in T
  <2>1. CASE i = 1 BY <1>1, <1>2, <2>1
  <2>2. CASE i # 1
    <3>1. i - 1 \in 1..(Len(q) - 1) /\ Tail(q)[i - 1] = q[i]
      BY <1>1, <2>2
    <3> QED BY <1>2, <3>1
  <2> QED BY <2>1, <2>2
<1>3. ASSUME NEW j \in 1..(Len(q) - 1), Tail(q)[j].type \in T
      PROVE  \E i \in 1..Len(q) : q[i].type \in T
  BY <1>1, <1>3
<1>4. Head(q).type \in T => \E i \in 1..Len(q) : q[i].type \in T
  BY <1>1
<1> QED BY <1>1, <1>2, <1>3, <1>4 DEF Has

LEMMA HasAppend ==
  ASSUME NEW S, NEW q \in Seq(S), NEW m \in S, NEW T
  PROVE  Has(Append(q, m), T) <=> m.type \in T \/ Has(q, T)
<1>1. /\ DOMAIN q = 1..Len(q) /\ DOMAIN Append(q, m) = 1..(Len(q) + 1) /\ Len(q) \in Nat
      /\ Append(q, m)[Len(q) + 1] = m /\ \A i \in 1..Len(q) : Append(q, m)[i] = q[i]
  BY AppendProperties, LenProperties
<1>2. \A i \in 1..(Len(q) + 1) : i = Len(q) + 1 \/ i \in 1..Len(q)
  BY <1>1
<1>3. 1..Len(q) \subseteq 1..(Len(q) + 1) /\ Len(q) + 1 \in 1..(Len(q) + 1)
  BY <1>1
<1> QED BY <1>1, <1>2, <1>3 DEF Has

\* Queues of one and of two messages.
LEMMA OneFacts == ASSUME NEW S, NEW a \in S PROVE <<a>> \in Seq(S) /\ Len(<<a>>) = 1 /\ <<a>>[1] = a
OBVIOUS

LEMMA TwoFacts ==
  ASSUME NEW S, NEW a \in S, NEW b \in S
  PROVE  <<a, b>> \in Seq(S) /\ Len(<<a, b>>) = 2 /\ <<a, b>>[1] = a /\ <<a, b>>[2] = b
OBVIOUS

LEMMA PairFacts ==
  ASSUME NEW S, NEW a \in S, NEW b \in S
  PROVE  <<a>> \o <<>> = <<a>> /\ <<a>> \o <<b>> = <<a, b>>
<1> DEFINE p == Append(<<a>>, b)
           q == <<a, b>>
<1>1. p \in Seq(S) /\ Len(p) = 2 /\ p[2] = b /\ p[1] = a
  BY OneFacts, AppendProperties
<1>2. q \in Seq(S) /\ Len(q) = 2 /\ q[1] = a /\ q[2] = b
  BY TwoFacts
<1>3. p = q
  <2> HIDE DEF p, q
  <2>1. \A i \in 1..Len(p) : p[i] = q[i]
    BY <1>1, <1>2
  <2> QED BY <1>1, <1>2, <2>1, SeqEqual
<1>4. <<a>> \o <<>> = <<a>>
  BY OneFacts, ConcatEmptySeq
<1>5. <<a>> \o <<b>> = Append(<<a>>, b)
  BY OneFacts, AppendIsConcat
<1> QED BY <1>3, <1>4, <1>5

LEMMA ConcatPair ==
  ASSUME NEW S, NEW q \in Seq(S), NEW a \in S, NEW b \in S
  PROVE  /\ q \o <<a>> = Append(q, a) /\ Append(q, a) \in Seq(S)
         /\ q \o <<a, b>> = Append(Append(q, a), b)
<1>1. q \o <<a>> = Append(q, a) /\ Append(q, a) \in Seq(S)
  BY AppendIsConcat, AppendProperties
<1>2. Append(Append(q, a), b) = Append(q, a) \o <<b>>
  BY <1>1, AppendIsConcat
<1>3. (q \o <<a>>) \o <<b>> = q \o (<<a>> \o <<b>>)
  BY OneFacts, ConcatAssociative
<1> QED BY <1>1, <1>2, <1>3, PairFacts

LEMMA HasEmpty == \A T : ~ Has(<<>>, T)
BY EmptySeq DEF Has

--------------------------------------------------------------------------------
(* After: what a client is once it has handled a queue of messages *)

\* g[i] is the client after the first i messages.
Trace(x, q, n, g) == g = [i \in 0..n |-> IF i = 0 THEN x ELSE Then(g[i - 1], q[i])]

LEMMA TraceExists ==
  ASSUME NEW x, NEW q, NEW n \in Nat
  PROVE  \E g : Trace(x, q, n, g)
<1> DEFINE T == {k \in Nat : ~ \E g : Trace(x, q, k, g)}
<1>1. Trace(x, q, 0, [i \in 0..0 |-> x])
  BY DEF Trace
<1>2. ASSUME NEW k \in Nat, NEW g, Trace(x, q, k, g)
      PROVE  \E h : Trace(x, q, k + 1, h)
  <2> DEFINE h == [i \in 0..(k + 1) |-> IF i = k + 1 THEN Then(g[k], q[k + 1]) ELSE g[i]]
  <2>1. \A i \in 0..k : g[i] = IF i = 0 THEN x ELSE Then(g[i - 1], q[i])
    BY <1>2 DEF Trace
  <2>2. \A i \in 0..k : h[i] = g[i]
    OBVIOUS
  <2>3. h[k + 1] = Then(g[k], q[k + 1])
    OBVIOUS
  <2>4. ASSUME NEW i \in 0..(k + 1)
        PROVE  h[i] = IF i = 0 THEN x ELSE Then(h[i - 1], q[i])
    <3>1. CASE i = k + 1
      <4>1. i # 0 /\ i - 1 = k /\ h[k] = g[k]
        BY <3>1, <2>2
      <4> HIDE DEF h
      <4> QED BY <3>1, <4>1, <2>3
    <3>2. CASE i \in 1..k
      <4>1. i # 0 /\ i - 1 \in 0..k /\ i \in 0..k
        BY <3>2
      <4> HIDE DEF h
      <4> QED BY <4>1, <2>1, <2>2
    <3>3. CASE i = 0
      <4> HIDE DEF h
      <4> QED BY <3>3, <2>1, <2>2
    <3> QED BY <3>1, <3>2, <3>3
  <2>5. h = [i \in 0..(k + 1) |-> h[i]]
    OBVIOUS
  <2> HIDE DEF h
  <2>6. Trace(x, q, k + 1, h)
    BY <2>4, <2>5 DEF Trace
  <2> QED BY <2>6
<1>3. SUFFICES ASSUME T # {} PROVE FALSE
  OBVIOUS
<1>4. PICK k \in T : \A j \in T : k <= j
  BY <1>3, Least
<1>5. k # 0
  BY <1>1, <1>4
<1>6. k - 1 \in Nat /\ k - 1 \notin T
  BY <1>4, <1>5
<1> QED BY <1>2, <1>4, <1>6

\* The trace ends in After.
LEMMA AfterTrace ==
  ASSUME NEW x, NEW q, Len(q) \in Nat, NEW g, Trace(x, q, Len(q), g)
  PROVE  After(x, q) = g[Len(q)]
<1> DEFINE at == CHOOSE f : f = [i \in 0..Len(q) |-> IF i = 0 THEN x ELSE Then(f[i - 1], q[i])]
<1>1. After(x, q) = at[Len(q)]
  BY DEF After
<1>2. at = [i \in 0..Len(q) |-> IF i = 0 THEN x ELSE Then(at[i - 1], q[i])]
  BY Zenon DEF Trace
<1> HIDE DEF at
<1> DEFINE T == {i \in 0..Len(q) : at[i] # g[i]}
<1>3. SUFFICES ASSUME T # {} PROVE FALSE
  BY <1>1
<1>4. PICK k \in T : \A j \in T : k <= j
  <2>1. T \in SUBSET Nat
    OBVIOUS
  <2> HIDE DEF T
  <2> QED BY <1>3, <2>1, Least
<1>5. \A i \in 0..Len(q) : /\ at[i] = IF i = 0 THEN x ELSE Then(at[i - 1], q[i])
                           /\ g[i] = IF i = 0 THEN x ELSE Then(g[i - 1], q[i])
  BY <1>2 DEF Trace
<1>6. k # 0
  BY <1>4, <1>5
<1>7. k - 1 \in 0..Len(q) /\ k - 1 \notin T
  BY <1>4, <1>6
<1> QED BY <1>4, <1>5, <1>6, <1>7

\* Every queue has a trace that ends in After.
LEMMA AfterHasTrace ==
  ASSUME NEW x, NEW q, Len(q) \in Nat
  PROVE  \E g : Trace(x, q, Len(q), g) /\ After(x, q) = g[Len(q)]
BY TraceExists, AfterTrace

LEMMA AfterEmpty == \A x : After(x, <<>>) = x
<1> TAKE x
<1>1. Len(<<>>) = 0
  OBVIOUS
<1>2. PICK g : Trace(x, <<>>, Len(<<>>), g) /\ After(x, <<>>) = g[Len(<<>>)]
  BY <1>1, AfterHasTrace
<1> QED BY <1>1, <1>2 DEF Trace

\* One more message at the end is handled last.
LEMMA AfterAppend ==
  ASSUME NEW S, NEW q \in Seq(S), NEW m \in S, NEW x
  PROVE  After(x, Append(q, m)) = Then(After(x, q), m)
<1> DEFINE p == Append(q, m)
<1>1. /\ Len(p) = Len(q) + 1 /\ Len(q) \in Nat
      /\ p[Len(q) + 1] = m /\ \A i \in 1..Len(q) : p[i] = q[i]
  BY AppendProperties, LenProperties
<1> HIDE DEF p
<1>2. PICK g : Trace(x, q, Len(q), g) /\ After(x, q) = g[Len(q)]
  BY <1>1, AfterHasTrace
<1>3. PICK h : Trace(x, p, Len(p), h) /\ After(x, p) = h[Len(p)]
  BY <1>1, AfterHasTrace
<1>4. h[Len(p)] = Then(h[Len(q)], m)
  BY <1>1, <1>3 DEF Trace
<1> DEFINE k == [i \in 0..Len(q) |-> h[i]]
<1>5. \A i \in 0..Len(q) : h[i] = IF i = 0 THEN x ELSE Then(h[i - 1], q[i])
  BY <1>1, <1>3 DEF Trace
<1>6. \A i \in 0..Len(q) : i # 0 => k[i - 1] = h[i - 1]
  BY <1>1
<1>7. k = [i \in 0..Len(q) |-> IF i = 0 THEN x ELSE Then(k[i - 1], q[i])]
  BY <1>5, <1>6
<1>8. k[Len(q)] = h[Len(q)]
  BY <1>1
<1> HIDE DEF k
<1>9. After(x, q) = k[Len(q)]
  BY <1>1, <1>7, AfterTrace DEF Trace
<1> QED BY <1>3, <1>4, <1>8, <1>9 DEF p

\* The first message is handled first.
LEMMA AfterHead ==
  ASSUME NEW S, NEW q \in Seq(S), q # <<>>, NEW x
  PROVE  After(x, q) = After(Then(x, Head(q)), Tail(q))
<1> DEFINE y == Then(x, Head(q))
           t == Tail(q)
<1>1. /\ Len(q) \in Nat \ {0} /\ Len(t) = Len(q) - 1 /\ y = Then(x, q[1])
      /\ \A i \in 1..(Len(q) - 1) : t[i] = q[i + 1]
  BY TailFacts
<1> HIDE DEF y, t
<1>2. Len(t) \in Nat
  BY <1>1
<1>3. PICK h : Trace(x, q, Len(q), h) /\ After(x, q) = h[Len(q)]
  BY <1>1, AfterHasTrace
<1>4. \A i \in 0..Len(q) : h[i] = IF i = 0 THEN x ELSE Then(h[i - 1], q[i])
  BY <1>3 DEF Trace
<1>5. h[1] = y
  BY <1>1, <1>4
<1>6. ASSUME NEW i \in 0..Len(t)
      PROVE  h[i + 1] = IF i = 0 THEN y ELSE Then(h[i], t[i])
  <2>1. CASE i = 0 BY <1>5, <2>1
  <2>2. CASE i # 0
    <3>1. i + 1 \in 0..Len(q) /\ i + 1 # 0 /\ (i + 1) - 1 = i /\ t[i] = q[i + 1]
      BY <1>1, <2>2
    <3> QED BY <1>4, <2>2, <3>1
  <2> QED BY <2>1, <2>2
<1> DEFINE k == [i \in 0..Len(t) |-> h[i + 1]]
<1>7. \A i \in 0..Len(t) : i # 0 => k[i - 1] = h[i]
  BY <1>2
<1>8. k = [i \in 0..Len(t) |-> IF i = 0 THEN y ELSE Then(k[i - 1], t[i])]
  BY <1>6, <1>7
<1>9. k[Len(t)] = h[Len(q)]
  BY <1>1
<1> HIDE DEF k
<1>10. After(y, t) = k[Len(t)]
  BY <1>2, <1>8, AfterTrace DEF Trace
<1> QED BY <1>3, <1>9, <1>10 DEF y, t

--------------------------------------------------------------------------------
(* Histories, and what an edit or a load makes of them *)

\* The histories there are: what is shown is there, and no more than Limit.
Kept == {h \in History : h.cur <= Len(h.log) /\ Len(h.log) <= Limit}
State == [phase : {"lobby", "canvas", "gone"}, hist : Kept]

LEMMA KeptFacts ==
  ASSUME NEW h \in Kept
  PROVE  /\ h = [log |-> h.log, cur |-> h.cur, max |-> h.max]
         /\ h.log \in Canvas /\ h.cur \in Nat /\ Len(h.log) \in Nat
         /\ h.cur <= Len(h.log) /\ Len(h.log) <= Limit /\ h.max \in {0, Limit}
<1>1. h \in History /\ h.cur <= Len(h.log) /\ Len(h.log) <= Limit
  BY DEF Kept
<1>2. h.log \in Canvas
  BY <1>1 DEF History
<1>3. Len(h.log) \in Nat
  BY <1>2, LenProperties DEF Canvas
<1> QED BY <1>1, <1>2, <1>3 DEF History

LEMMA MakeKept ==
  ASSUME NEW s \in Canvas, NEW n \in Nat, NEW m \in {0, Limit}, n <= Len(s), Len(s) <= Limit
  PROVE  [log |-> s, cur |-> n, max |-> m] \in Kept
BY DEF Kept, History

LEMMA FreshKept == \A m \in {0, Limit} : Fresh(m) \in Kept /\ Visible(Fresh(m)) = <<>>
<1> TAKE m \in {0, Limit}
<1>1. <<>> \in Canvas /\ Len(<<>>) = 0
  BY EmptySeq DEF Canvas
<1>2. Fresh(m) \in Kept
  <2>1. 0 \in Nat /\ 0 <= Len(<<>>) /\ Len(<<>>) <= Limit
    BY <1>1, LimitAssumption
  <2>2. [log |-> <<>>, cur |-> 0, max |-> m] \in Kept
    BY <1>1, <2>1, MakeKept
  <2> QED BY <2>2 DEF Fresh
<1>3. SubSeq(<<>>, 1, 0) = <<>>
  BY <1>1, SubSeqEmpty
<1> QED BY <1>2, <1>3 DEF Fresh, Visible

\* The strokes shown, in order.
LEMMA VisibleFacts ==
  ASSUME NEW h \in Kept
  PROVE  /\ Visible(h) \in Canvas /\ Len(Visible(h)) = h.cur
         /\ \A i \in 1..h.cur : Visible(h)[i] = h.log[i]
<1>1. h.log \in Seq(Strokes) /\ h.cur \in Nat /\ h.cur <= Len(h.log)
  BY KeptFacts DEF Canvas
<1>2. \A i \in 1..h.cur : h.log[i] \in Strokes
  BY <1>1, ElementOfSeq, LenProperties
<1>3. /\ SubSeq(h.log, 1, h.cur) \in Seq(Strokes)
      /\ Len(SubSeq(h.log, 1, h.cur)) = h.cur
      /\ \A i \in 1..h.cur : SubSeq(h.log, 1, h.cur)[i] = h.log[i]
  BY <1>1, <1>2, SubSeqProperties
<1> QED BY <1>3 DEF Visible, Canvas

\* The newest n strokes of a drawing.
LEMMA NewestFacts ==
  ASSUME NEW s \in Canvas, NEW n \in Nat
  PROVE  /\ Newest(s, n) \in Canvas /\ Len(s) \in Nat
         /\ Len(s) <= n => Newest(s, n) = s
         /\ Len(s) > n => /\ Len(Newest(s, n)) = n
                          /\ \A i \in 1..n : Newest(s, n)[i] = s[Len(s) - n + i]
<1>1. s \in Seq(Strokes) /\ Len(s) \in Nat
  BY LenProperties DEF Canvas
<1>2. CASE Len(s) <= n
  BY <1>1, <1>2 DEF Newest, Canvas
<1>3. CASE Len(s) > n
  <2> DEFINE t == SubSeq(s, Len(s) - n + 1, Len(s))
  <2>1. Newest(s, n) = t
    BY <1>3 DEF Newest
  <2>2. \A i \in (Len(s) - n + 1)..Len(s) : s[i] \in Strokes
    BY <1>1, <1>3, ElementOfSeq
  <2>3. t \in Seq(Strokes) /\ Len(t) = n
    BY <1>1, <1>3, <2>2, SubSeqProperties
  <2>4. \A i \in 1..n : t[i] = s[Len(s) - n + i]
    BY <1>1, <1>3, <2>2, SubSeqProperties
  <2> HIDE DEF t
  <2> QED BY <1>1, <1>3, <2>1, <2>3, <2>4 DEF Canvas
<1> QED BY <1>1, <1>2, <1>3

\* A push: the strokes shown and the new one, without the oldest when they are
\* more than the limit.
LEMMA PushFacts ==
  ASSUME NEW h \in Kept, NEW e \in Strokes
  PROVE  /\ Push(h, e) \in Kept /\ Push(h, e).log \in Canvas
         /\ Visible(Push(h, e)) = Push(h, e).log /\ Push(h, e).cur = Len(Push(h, e).log)
         /\ Push(h, e).log \in {Append(Visible(h), e), Tail(Append(Visible(h), e))}
<1> DEFINE v == Visible(h)
           a == Append(v, e)
           s == Limited(a, h.max)
<1>1. v \in Seq(Strokes) /\ Len(v) = h.cur /\ h.cur \in Nat /\ h.cur <= Limit
  BY VisibleFacts, KeptFacts, LimitAssumption DEF Canvas
<1>2. a \in Seq(Strokes) /\ Len(a) = h.cur + 1
  BY <1>1, AppendProperties
<1>3. a # <<>>
  <2>1. Len(<<>>) = 0
    OBVIOUS
  <2> HIDE DEF a
  <2> QED BY <1>1, <1>2, <2>1
<1>4. Tail(a) \in Seq(Strokes) /\ Len(Tail(a)) = h.cur
  BY <1>1, <1>2, <1>3, TailFacts
<1>5. h.max \in {0, Limit}
  BY KeptFacts
<1> HIDE DEF v, a
<1>6. s \in {a, Tail(a)} /\ s \in Seq(Strokes) /\ Len(s) \in Nat /\ Len(s) <= Limit
  BY <1>1, <1>2, <1>4, <1>5, LimitAssumption DEF Limited
<1> HIDE DEF s
<1>7. Push(h, e) = [log |-> s, cur |-> Len(s), max |-> h.max]
  BY DEF Push, s, a, v
<1>8. Push(h, e) \in Kept
  <2>1. s \in Canvas /\ Len(s) <= Len(s)
    BY <1>6 DEF Canvas
  <2>2. [log |-> s, cur |-> Len(s), max |-> h.max] \in Kept
    BY <1>5, <1>6, <2>1, MakeKept
  <2> QED BY <1>7, <2>2
<1>9. SubSeq(s, 1, Len(s)) = s
  BY <1>6, SubSeqFull
<1>10. Push(h, e).log = s /\ Push(h, e).cur = Len(s)
  BY <1>7
<1>11. Visible(Push(h, e)) = s
  BY <1>9, <1>10 DEF Visible
<1> QED BY <1>6, <1>8, <1>10, <1>11 DEF a, v, Canvas

LEMMA UndoKept ==
  ASSUME NEW h \in Kept
  PROVE  Undo(h) \in Kept
<1>1. h.cur > 0 => Undo(h) = [log |-> h.log, cur |-> h.cur - 1, max |-> h.max]
  BY KeptFacts DEF Undo
<1>2. h.cur > 0 => h.cur - 1 \in Nat /\ h.cur - 1 <= Len(h.log)
  BY KeptFacts
<1>3. h.cur > 0 => Undo(h) \in Kept
  BY <1>1, <1>2, KeptFacts, MakeKept
<1>4. ~ (h.cur > 0) => Undo(h) = h
  BY DEF Undo
<1> QED BY <1>3, <1>4

LEMMA RedoKept ==
  ASSUME NEW h \in Kept
  PROVE  Redo(h) \in Kept
<1>1. h.cur < Len(h.log) => Redo(h) = [log |-> h.log, cur |-> h.cur + 1, max |-> h.max]
  BY KeptFacts DEF Redo
<1>2. h.cur < Len(h.log) => h.cur + 1 \in Nat /\ h.cur + 1 <= Len(h.log)
  BY KeptFacts
<1>3. h.cur < Len(h.log) => Redo(h) \in Kept
  BY <1>1, <1>2, KeptFacts, MakeKept
<1>4. ~ (h.cur < Len(h.log)) => Redo(h) = h
  BY DEF Redo
<1> QED BY <1>3, <1>4

\* Whatever limit was in force, a load leaves the newest Limit strokes.
LEMMA LoadedFacts ==
  ASSUME NEW h \in Kept, NEW s \in Canvas
  PROVE  /\ Load(h, s, Limit) \in Kept /\ Loaded(h, s) \in Kept
         /\ Load(h, s, Limit) = Load(Fresh(Limit), s, Limit)
         /\ Loaded(h, s) = Loaded(Fresh(Limit), s)
<1>1. LoadLimit(h.max, Limit) = Limit /\ LoadLimit(Fresh(Limit).max, Limit) = Limit
  BY KeptFacts, LimitAssumption DEF LoadLimit, Fresh
<1>2. Load(h, s, Limit) = [log |-> Newest(s, Limit), cur |-> Len(Newest(s, Limit)), max |-> Limit]
  BY <1>1 DEF Load
<1>3. Load(Fresh(Limit), s, Limit)
        = [log |-> Newest(s, Limit), cur |-> Len(Newest(s, Limit)), max |-> Limit]
  BY <1>1 DEF Load
<1> DEFINE t == Newest(s, Limit)
<1>4. t \in Canvas /\ Len(t) \in Nat /\ Len(t) <= Limit
  <2>1. t \in Canvas /\ Len(s) \in Nat
    BY NewestFacts, LimitAssumption
  <2>2. Len(s) <= Limit => t = s
    BY NewestFacts, LimitAssumption
  <2>3. Len(s) > Limit => Len(t) = Limit
    BY NewestFacts, LimitAssumption
  <2> HIDE DEF t
  <2> QED BY <2>1, <2>2, <2>3, LimitAssumption
<1>5. Load(h, s, Limit) \in Kept
  <2> HIDE DEF t
  <2>1. Len(t) <= Len(t) /\ Limit \in {0, Limit}
    BY <1>4
  <2>2. [log |-> t, cur |-> Len(t), max |-> Limit] \in Kept
    BY <1>4, <2>1, MakeKept
  <2> QED BY <1>2, <2>2 DEF t
<1> QED BY <1>2, <1>3, <1>5, FreshKept DEF Loaded

Edit == [type : {"draw"}, stroke : Strokes] \union [type : {"undo", "redo", "clear"}]

LEMMA EditedFacts ==
  ASSUME NEW h \in Kept, NEW m \in Edit
  PROVE  /\ Edited(h, m) \in Kept
         /\ m.type = "draw"  => Edited(h, m) = Push(h, m.stroke) /\ m.stroke \in Strokes
         /\ m.type = "undo"  => Edited(h, m) = Undo(h)
         /\ m.type = "redo"  => Edited(h, m) = Redo(h)
         /\ m.type = "clear" => Edited(h, m) = Fresh(Limit)
<1>1. m.type \in {"draw", "undo", "redo", "clear"} /\ (m.type = "draw" => m.stroke \in Strokes)
  BY DEF Edit
<1>2. /\ m.type = "draw"  => Edited(h, m) = Push(h, m.stroke)
      /\ m.type = "undo"  => Edited(h, m) = Undo(h)
      /\ m.type = "redo"  => Edited(h, m) = Redo(h)
      /\ m.type = "clear" => Edited(h, m) = Fresh(Limit)
  BY DEF Edited
<1> QED BY <1>1, <1>2, PushFacts, UndoKept, RedoKept, FreshKept

--------------------------------------------------------------------------------
(* Messages, and what a client makes of one *)

Messages == Requests \union Answers

LEMMA MessageShape ==
  ASSUME NEW m \in Messages
  PROVE  /\ m.type \in Edits => m \in Edit
         /\ m.type = "load" => m \in Answers /\ m.canvas \in Canvas
         /\ m.type = "save" => m \in Requests /\ m.canvas \in Canvas
         /\ m.type = "join" => m \in Requests /\ m.room \in Rooms
         /\ m.type \in {"joined", "load", "join", "save", "bye"} \union Edits
         /\ m \in Requests => m.type \in {"join", "save", "bye"} \union Edits
         /\ m \in Answers => m.type \in {"joined", "load"} \union Edits
<1>1. m \in Requests =>
        \/ m \in [type : {"join"}, room : Rooms] \/ m \in [type : {"draw"}, stroke : Strokes]
        \/ m \in [type : {"undo", "redo", "clear", "bye"}]
        \/ m \in [type : {"save"}, canvas : Canvas]
  BY DEF Requests
<1>2. m \in Answers =>
        \/ m \in [type : {"draw"}, stroke : Strokes]
        \/ m \in [type : {"joined", "undo", "redo", "clear"}]
        \/ m \in [type : {"load"}, canvas : Canvas]
  BY DEF Answers
<1>3. m \in [type : {"join"}, room : Rooms] => m.type = "join" /\ m.room \in Rooms
  OBVIOUS
<1>4. m \in [type : {"save"}, canvas : Canvas] => m.type = "save" /\ m.canvas \in Canvas
  OBVIOUS
<1>5. m \in [type : {"load"}, canvas : Canvas] => m.type = "load" /\ m.canvas \in Canvas
  OBVIOUS
<1>6. m \in [type : {"draw"}, stroke : Strokes] => m.type = "draw" /\ m \in Edit
  BY DEF Edit
<1>7. m \in [type : {"undo", "redo", "clear", "bye"}] =>
        m.type = "bye" \/ (m.type \in {"undo", "redo", "clear"} /\ m \in Edit)
  BY DEF Edit
<1>8. m \in [type : {"joined", "undo", "redo", "clear"}] =>
        m.type = "joined" \/ (m.type \in {"undo", "redo", "clear"} /\ m \in Edit)
  BY DEF Edit
<1> QED BY <1>1, <1>2, <1>3, <1>4, <1>5, <1>6, <1>7, <1>8 DEF Messages, Edits

LEMMA EditIsMessage == Edit \subseteq Requests /\ Edit \subseteq Answers
BY DEF Edit, Requests, Answers

LEMMA ThenFacts ==
  ASSUME NEW x \in State, NEW m \in Messages
  PROVE  /\ Then(x, m) \in State
         /\ m.type \in Edits => Then(x, m) = [phase |-> x.phase, hist |-> Edited(x.hist, m)]
         /\ m.type = "load" => Then(x, m) = [phase |-> x.phase, hist |-> Loaded(x.hist, m.canvas)]
         /\ m.type = "joined" =>
              Then(x, m) = [phase |-> "canvas",
                            hist |-> IF x.phase = "lobby" THEN Fresh(Limit) ELSE x.hist]
         /\ m.type \in {"join", "save", "bye"} => Then(x, m) = x
<1>1. x = [phase |-> x.phase, hist |-> x.hist] /\ x.hist \in Kept
      /\ x.phase \in {"lobby", "canvas", "gone"}
  BY DEF State
<1>2. m.type \in Edits => Then(x, m) = [phase |-> x.phase, hist |-> Edited(x.hist, m)]
  BY <1>1 DEF Then, Edits
<1>3. m.type = "load" => Then(x, m) = [phase |-> x.phase, hist |-> Loaded(x.hist, m.canvas)]
  BY <1>1 DEF Then, Edits
<1>4. m.type = "joined" =>
        Then(x, m) = [phase |-> "canvas", hist |-> IF x.phase = "lobby" THEN Fresh(Limit) ELSE x.hist]
  BY DEF Then, Edits
<1>5. m.type \in {"join", "save", "bye"} => Then(x, m) = x
  BY DEF Then, Edits
<1>6. m.type \in Edits => Edited(x.hist, m) \in Kept
  BY <1>1, MessageShape, EditedFacts
<1>7. m.type = "load" => Loaded(x.hist, m.canvas) \in Kept
  BY <1>1, MessageShape, LoadedFacts
<1>8. Fresh(Limit) \in Kept
  BY FreshKept
<1>9. m.type \in {"joined", "load", "join", "save", "bye"} \union Edits
  BY MessageShape
<1>10. Then(x, m) \in State
  BY <1>1, <1>2, <1>3, <1>4, <1>5, <1>6, <1>7, <1>8, <1>9 DEF State
<1> QED BY <1>2, <1>3, <1>4, <1>5, <1>10

\* Whatever is under way, its handling ends in a state.
LEMMA AfterType ==
  ASSUME NEW x \in State, NEW q \in Seq(Messages)
  PROVE  After(x, q) \in State
<1>1. Len(q) \in Nat /\ \A i \in 1..Len(q) : q[i] \in Messages
  BY LenProperties, ElementOfSeq
<1>2. PICK g : Trace(x, q, Len(q), g) /\ After(x, q) = g[Len(q)]
  BY <1>1, AfterHasTrace
<1>3. \A i \in 0..Len(q) : g[i] = IF i = 0 THEN x ELSE Then(g[i - 1], q[i])
  BY <1>2 DEF Trace
<1> DEFINE T == {i \in 0..Len(q) : g[i] \notin State}
<1>4. SUFFICES ASSUME T # {} PROVE FALSE
  BY <1>1, <1>2
<1>5. PICK k \in T : \A j \in T : k <= j
  <2>1. T \in SUBSET Nat
    OBVIOUS
  <2> HIDE DEF T
  <2> QED BY <1>4, <2>1, Least
<1>6. k # 0
  BY <1>3, <1>5
<1>7. k \in 1..Len(q) /\ k - 1 \in 0..Len(q) /\ k - 1 \notin T
  BY <1>5, <1>6
<1>8. g[k - 1] \in State /\ g[k] = Then(g[k - 1], q[k]) /\ q[k] \in Messages
  BY <1>1, <1>3, <1>6, <1>7
<1>9. g[k] \in State
  BY <1>8, ThenFacts
<1> QED BY <1>5, <1>9

\* Requests that are no edits change nothing.
LEMMA AfterNoEdits ==
  ASSUME NEW x \in State, NEW q \in Seq(Requests), ~ Has(q, Edits)
  PROVE  After(x, q) = x
<1>1. Len(q) \in Nat /\ DOMAIN q = 1..Len(q) /\ \A i \in 1..Len(q) : q[i] \in Requests
  BY LenProperties, ElementOfSeq
<1>2. \A i \in 1..Len(q) : Then(x, q[i]) = x
  BY <1>1, ThenFacts, MessageShape DEF Has, Messages
<1> DEFINE g == [i \in 0..Len(q) |-> x]
<1>3. \A i \in 0..Len(q) : i # 0 => i \in 1..Len(q) /\ g[i - 1] = x
  OBVIOUS
<1>4. g = [i \in 0..Len(q) |-> IF i = 0 THEN x ELSE Then(g[i - 1], q[i])]
  BY <1>2, <1>3
<1>5. g[Len(q)] = x
  BY <1>1
<1> HIDE DEF g
<1> QED BY <1>1, <1>4, <1>5, AfterTrace DEF Trace

--------------------------------------------------------------------------------
(* RoomInv: the parts of it, and the frames of the actions *)

TypeK ==
  /\ hist \in [Clients -> Kept] /\ canon \in [Rooms -> Kept]
  /\ phase \in [Clients -> {"lobby", "canvas", "gone"}]
  /\ built \in [Clients -> BOOLEAN] /\ surface \in [Clients -> BOOLEAN]
  /\ painted \in [Clients -> Canvas] /\ file \in Canvas /\ drawn \in 0..MaxDraws
  /\ out \in [Clients -> Seq(Requests)] /\ in \in [Clients -> Seq(Answers)]
  /\ room \in [Clients -> Rooms \union {NoRoom}] /\ saved \in [Rooms -> Canvas]
  /\ stray \subseteq Clients

PhaseAt(c) ==
  /\ surface[c] => built[c]
  /\ built[c] => phase[c] = "canvas"
  /\ phase[c] = "canvas" \/ in[c] # <<>> \/ Has(out[c], Edits) => room[c] # NoRoom
  /\ phase[c] = "gone" => in[c] = <<>>
  /\ Has(out[c], {"bye"}) => phase[c] = "gone"

LEMMA TypeParts == TypeOK <=> TypeK
<1>1. TypeOK => /\ \A c \in Clients : hist[c] \in Kept
                /\ \A r \in Rooms : canon[r] \in Kept
  BY DEF TypeOK, Kept
<1>2. TypeOK => hist = [c \in Clients |-> hist[c]] /\ canon = [r \in Rooms |-> canon[r]]
  BY DEF TypeOK
<1>3. TypeOK => hist \in [Clients -> Kept] /\ canon \in [Rooms -> Kept]
  BY <1>1, <1>2
<1>4. TypeOK => TypeK
  BY <1>3 DEF TypeOK, TypeK
<1>5. TypeK => \A h \in {canon[r] : r \in Rooms} \union {hist[c] : c \in Clients} : h \in Kept
  BY DEF TypeK
<1>6. Kept \subseteq History /\ \A h \in Kept : h.cur <= Len(h.log) /\ Len(h.log) <= Limit
  BY DEF Kept
<1>7. TypeK => hist \in [Clients -> History] /\ canon \in [Rooms -> History]
  BY <1>6 DEF TypeK
<1>8. TypeK => TypeOK
  BY <1>5, <1>6, <1>7 DEF TypeOK, TypeK
<1> QED BY <1>4, <1>8

LEMMA TypePartsNext == TypeK' => TypeOK'
<1>5. TypeK' => \A h \in {canon'[r] : r \in Rooms} \union {hist'[c] : c \in Clients} : h \in Kept
  BY DEF TypeK
<1>6. Kept \subseteq History /\ \A h \in Kept : h.cur <= Len(h.log) /\ Len(h.log) <= Limit
  BY DEF Kept
<1>7. TypeK' => hist' \in [Clients -> History] /\ canon' \in [Rooms -> History]
  BY <1>6 DEF TypeK
<1> QED BY <1>5, <1>6, <1>7 DEF TypeOK, TypeK

LEMMA RoomParts == RoomInv => TypeK /\ \A c \in Clients : PhaseAt(c)
BY TypeParts DEF RoomInv, PhasesInSync, PhaseAt

LEMMA RoomPartsNext == TypeK' /\ (\A c \in Clients : PhaseAt(c)') => RoomInv'
BY TypePartsNext DEF RoomInv, PhasesInSync, PhaseAt

LEMMA InitRoom == Init => RoomInv
<1> SUFFICES ASSUME Init PROVE RoomInv
  OBVIOUS
<1>1. Fresh(0) \in Kept /\ Fresh(Limit) \in Kept /\ <<>> \in Canvas
  BY FreshKept, EmptySeq DEF Canvas
<1>2. <<>> \in Seq(Requests) /\ <<>> \in Seq(Answers) /\ 0 \in 0..MaxDraws
  BY EmptySeq, BoundsAssumption
<1>3. TypeK
  BY <1>1, <1>2 DEF Init, TypeK
<1>4. \A c \in Clients : PhaseAt(c)
  BY HasEmpty DEF Init, PhaseAt
<1> QED BY <1>3, <1>4, TypeParts DEF RoomInv, PhasesInSync, PhaseAt

\* A client whose phase, window and room stay, and that hears and sends what a
\* client in a room may.
LEMMA PhaseStays ==
  ASSUME NEW d \in Clients, PhaseAt(d),
         phase'[d] = phase[d], built'[d] = built[d], room'[d] = room[d],
         surface'[d] => surface[d] \/ built[d],
         in'[d] # <<>> => in[d] # <<>> \/ (room[d] # NoRoom /\ phase[d] # "gone"),
         Has(out'[d], Edits) => Has(out[d], Edits) \/ room[d] # NoRoom,
         Has(out'[d], {"bye"}) => Has(out[d], {"bye"})
  PROVE  PhaseAt(d)'
BY DEF PhaseAt

LEMMA SendFacts ==
  ASSUME TypeK, NEW c \in Clients, NEW m \in Requests, Send(c, m)
  PROVE  /\ out' \in [Clients -> Seq(Requests)] /\ out'[c] = Append(out[c], m)
         /\ \A d \in Clients : d # c => out'[d] = out[d]
         /\ \A T : Has(out'[c], T) <=> m.type \in T \/ Has(out[c], T)
<1>1. out \in [Clients -> Seq(Requests)] /\ out[c] \in Seq(Requests)
  BY DEF TypeK
<1>2. out' = [out EXCEPT ![c] = Append(@, m)]
  BY DEF Send
<1>3. Append(out[c], m) \in Seq(Requests)
  BY <1>1, AppendProperties
<1>4. out'[c] = Append(out[c], m) /\ \A d \in Clients : d # c => out'[d] = out[d]
  BY <1>1, <1>2
<1>5. out' \in [Clients -> Seq(Requests)]
  BY <1>1, <1>2, <1>3
<1> QED BY <1>1, <1>4, <1>5, HasAppend

LEMMA ConsumedFacts ==
  ASSUME TypeK, NEW c \in Clients, in[c] # <<>>, Consumed(c)
  PROVE  /\ in' \in [Clients -> Seq(Answers)] /\ in'[c] = Tail(in[c])
         /\ \A d \in Clients : d # c => in'[d] = in[d]
         /\ Head(in[c]) \in Answers
<1>1. in \in [Clients -> Seq(Answers)] /\ in[c] \in Seq(Answers)
  BY DEF TypeK
<1>2. Tail(in[c]) \in Seq(Answers) /\ Head(in[c]) \in Answers
  BY <1>1, TailFacts
<1>3. in' = [in EXCEPT ![c] = Tail(in[c])]
  BY DEF Consumed
<1> QED BY <1>1, <1>2, <1>3

LEMMA TakenFacts ==
  ASSUME TypeK, NEW c \in Clients, out[c] # <<>>, out' = [out EXCEPT ![c] = Tail(@)]
  PROVE  /\ out' \in [Clients -> Seq(Requests)] /\ out'[c] = Tail(out[c])
         /\ \A d \in Clients : d # c => out'[d] = out[d]
         /\ Head(out[c]) \in Requests
         /\ \A T : Has(out[c], T) <=> Head(out[c]).type \in T \/ Has(out'[c], T)
<1>1. out \in [Clients -> Seq(Requests)] /\ out[c] \in Seq(Requests)
  BY DEF TypeK
<1>2. Tail(out[c]) \in Seq(Requests) /\ Head(out[c]) \in Requests
  BY <1>1, TailFacts
<1>3. out'[c] = Tail(out[c]) /\ \A d \in Clients : d # c => out'[d] = out[d]
  BY <1>1
<1>4. out' \in [Clients -> Seq(Requests)]
  BY <1>1, <1>2
<1> QED BY <1>1, <1>2, <1>3, <1>4, HasTail

LEMMA DeliverFacts ==
  ASSUME TypeK, NEW to \in SUBSET Clients, NEW msgs \in Seq(Answers), Deliver(to, msgs)
  PROVE  /\ in' \in [Clients -> Seq(Answers)]
         /\ \A d \in Clients :
              in'[d] = IF d \in to /\ phase[d] # "gone" THEN in[d] \o msgs ELSE in[d]
<1>1. in \in [Clients -> Seq(Answers)]
  BY DEF TypeK
<1>2. in' = [d \in Clients |-> IF d \in to /\ phase[d] # "gone" THEN in[d] \o msgs ELSE in[d]]
  BY DEF Deliver
<1>3. \A d \in Clients : in[d] \o msgs \in Seq(Answers)
  BY <1>1, ConcatProperties
<1> QED BY <1>1, <1>2, <1>3

LEMMA RepaintFacts ==
  ASSUME TypeK, NEW c \in Clients, NEW h \in Kept, SetAndRepaint(c, h)
  PROVE  /\ hist' \in [Clients -> Kept] /\ painted' \in [Clients -> Canvas]
         /\ hist'[c] = h /\ painted'[c] = IF surface[c] THEN Visible(h) ELSE painted[c]
         /\ \A d \in Clients : d # c => hist'[d] = hist[d] /\ painted'[d] = painted[d]
<1>1. hist \in [Clients -> Kept] /\ painted \in [Clients -> Canvas] /\ Visible(h) \in Canvas
  BY VisibleFacts DEF TypeK
<1>2. hist' = [hist EXCEPT ![c] = h]
  BY DEF SetAndRepaint
<1>3. painted' = [painted EXCEPT ![c] = IF surface[c] THEN Visible(h) ELSE painted[c]]
  BY DEF SetAndRepaint, Repainted
<1> QED BY <1>1, <1>2, <1>3

--------------------------------------------------------------------------------
(* RoomInv is kept: what a user does *)

LEMMA JoinMessage == \A r \in Rooms : [type |-> "join", room |-> r] \in Requests
BY DEF Requests

LEMMA SaveMessage == \A s \in Canvas : [type |-> "save", canvas |-> s] \in Requests
BY DEF Requests

LEMMA PlainEdit == \A t \in {"undo", "redo", "clear"} : Plain(t) \in Edit /\ Plain(t).type = t
BY DEF Plain, Edit

LEMMA DrawEdit == \A s \in Strokes : Draw(s) \in Edit /\ Draw(s).type = "draw" /\ Draw(s).stroke = s
BY DEF Draw, Edit

\* A message was sent; nothing else changed that PhaseAt speaks of.
LEMMA SendPhases ==
  ASSUME RoomInv, NEW c \in Clients, NEW m \in Requests, Send(c, m),
         m.type \in {"join", "save"} \/ (m.type \in Edits /\ room[c] # NoRoom),
         UNCHANGED <<phase, built, surface, in, room>>
  PROVE  \A d \in Clients : PhaseAt(d)'
<1> TAKE d \in Clients
<1>1. PhaseAt(d) /\ TypeK
  BY RoomParts
<1>2. /\ d # c => out'[d] = out[d]
      /\ \A T : Has(out'[c], T) <=> m.type \in T \/ Has(out[c], T)
  BY <1>1, SendFacts
<1>3. m.type # "bye"
  BY DEF Edits
<1>4. /\ Has(out'[d], Edits) => Has(out[d], Edits) \/ room[d] # NoRoom
      /\ Has(out'[d], {"bye"}) => Has(out[d], {"bye"})
  <2>1. CASE d = c
    <3>1. m.type \in Edits => room[c] # NoRoom
      BY DEF Edits
    <3> QED BY <1>2, <1>3, <2>1, <3>1
  <2>2. CASE d # c BY <1>2, <2>2
  <2> QED BY <2>1, <2>2
<1> QED BY <1>1, <1>4, PhaseStays

LEMMA InRoom ==
  ASSUME RoomInv, NEW c \in Clients
  PROVE  /\ built[c] \/ surface[c] => room[c] # NoRoom /\ phase[c] = "canvas"
         /\ in[c] # <<>> => room[c] # NoRoom
         /\ Has(out[c], Edits) => room[c] # NoRoom
BY RoomParts DEF PhaseAt

LEMMA ClickJoinRoom ==
  ASSUME RoomInv, NEW c \in Clients, NEW r \in Rooms, ClickJoin(c, r)
  PROVE  RoomInv'
<1>1. TypeK /\ [type |-> "join", room |-> r] \in Requests
  BY RoomParts, JoinMessage
<1>2. Send(c, [type |-> "join", room |-> r]) /\ UNCHANGED <<app, in, server, ghosts>>
  BY DEF ClickJoin
<1>3. TypeK'
  BY <1>1, <1>2, SendFacts DEF TypeK, app, server, ghosts
<1>4. \A d \in Clients : PhaseAt(d)'
  BY <1>1, <1>2, SendPhases DEF app, server
<1> QED BY <1>3, <1>4, RoomPartsNext

LEMMA BuildCanvasRoom ==
  ASSUME RoomInv, NEW c \in Clients, BuildCanvas(c)
  PROVE  RoomInv'
<1>1. TypeK /\ \A d \in Clients : PhaseAt(d)
  BY RoomParts
<1>2. TypeK'
  BY <1>1 DEF TypeK, BuildCanvas, server, ghosts
<1>3. ASSUME NEW d \in Clients PROVE PhaseAt(d)'
  BY <1>1 DEF TypeK, PhaseAt, BuildCanvas, server
<1> QED BY <1>2, <1>3, RoomPartsNext

LEMMA ConfigureRoom ==
  ASSUME RoomInv, NEW c \in Clients, Configure(c)
  PROVE  RoomInv'
<1>1. TypeK /\ (\A d \in Clients : PhaseAt(d)) /\ Visible(hist[c]) \in Canvas
  BY RoomParts, VisibleFacts DEF TypeK
<1>2. TypeK'
  BY <1>1 DEF TypeK, Configure, server, ghosts
<1>3. ASSUME NEW d \in Clients PROVE PhaseAt(d)'
  BY <1>1 DEF TypeK, PhaseAt, Configure, server
<1> QED BY <1>2, <1>3, RoomPartsNext

LEMMA DrawBrushRoom ==
  ASSUME RoomInv, NEW c \in Clients, DrawBrush(c)
  PROVE  RoomInv'
<1>1. TypeK /\ hist[c] \in Kept /\ painted[c] \in Seq(Strokes)
  BY RoomParts DEF TypeK, Canvas
<1>2. /\ drawn' \in 0..MaxDraws /\ drawn' \in Strokes
      /\ painted' = [painted EXCEPT ![c] = Append(@, drawn')]
      /\ hist' = [hist EXCEPT ![c] = Push(@, drawn')]
      /\ Send(c, Draw(drawn')) /\ stray' = stray \union StrayedByRace(c)
      /\ UNCHANGED <<phase, built, surface, file, in, room, saved, canon>> /\ surface[c]
  BY <1>1, BoundsAssumption DEF DrawBrush, TypeK, Strokes, server
<1>3. Push(hist[c], drawn') \in Kept /\ Append(painted[c], drawn') \in Canvas
  BY <1>1, <1>2, PushFacts, AppendProperties DEF Canvas
<1>4. Draw(drawn') \in Requests /\ Draw(drawn').type \in Edits
  BY <1>2, DrawEdit, EditIsMessage DEF Edits
<1>5. out' \in [Clients -> Seq(Requests)]
  BY <1>1, <1>2, <1>4, SendFacts
<1>6. stray' \subseteq Clients
  BY <1>1, <1>2 DEF TypeK, StrayedByRace
<1>7. hist' \in [Clients -> Kept] /\ painted' \in [Clients -> Canvas]
  BY <1>1, <1>2, <1>3 DEF TypeK
<1>8. TypeK'
  BY <1>1, <1>2, <1>5, <1>6, <1>7 DEF TypeK
<1>9. \A d \in Clients : PhaseAt(d)'
  BY <1>2, <1>4, InRoom, SendPhases
<1> QED BY <1>8, <1>9, RoomPartsNext

\* The Undo, Redo and Clear buttons.
LEMMA EditRoom ==
  ASSUME RoomInv, NEW c \in Clients, NEW t \in {"undo", "redo", "clear"}, NEW h \in Kept,
         built[c] \/ surface[c], SetAndRepaint(c, h), Send(c, Plain(t)),
         stray' = stray \union StrayedByRace(c),
         UNCHANGED <<phase, built, surface, file, drawn, in, server, canon>>
  PROVE  RoomInv'
<1>1. TypeK
  BY RoomParts
<1>2. Plain(t) \in Requests /\ Plain(t).type \in Edits
  BY PlainEdit, EditIsMessage DEF Edits
<1>3. out' \in [Clients -> Seq(Requests)] /\ hist' \in [Clients -> Kept]
      /\ painted' \in [Clients -> Canvas]
  BY <1>1, <1>2, SendFacts, RepaintFacts
<1>4. stray' \subseteq Clients
  BY <1>1 DEF TypeK, StrayedByRace
<1>5. TypeK'
  BY <1>1, <1>3, <1>4 DEF TypeK, server
<1>6. \A d \in Clients : PhaseAt(d)'
  BY <1>2, InRoom, SendPhases DEF server
<1> QED BY <1>5, <1>6, RoomPartsNext

LEMMA ClickEditRoom ==
  ASSUME RoomInv, NEW c \in Clients, ClickUndo(c) \/ ClickRedo(c) \/ ClickClear(c)
  PROVE  RoomInv'
<1>1. hist[c] \in Kept
  BY RoomParts DEF TypeK
<1>2. Undo(hist[c]) \in Kept /\ Redo(hist[c]) \in Kept /\ Fresh(Limit) \in Kept
  BY <1>1, UndoKept, RedoKept, FreshKept
<1>3. CASE ClickUndo(c) BY <1>2, <1>3, EditRoom DEF ClickUndo
<1>4. CASE ClickRedo(c) BY <1>2, <1>4, EditRoom DEF ClickRedo
<1>5. CASE ClickClear(c) BY <1>2, <1>5, EditRoom DEF ClickClear
<1> QED BY <1>3, <1>4, <1>5

LEMMA ClickSaveRoom ==
  ASSUME RoomInv, NEW c \in Clients, ClickSave(c)
  PROVE  RoomInv'
<1> DEFINE m == [type |-> "save", canvas |-> Visible(hist[c])]
<1>1. TypeK /\ hist[c] \in Kept
  BY RoomParts DEF TypeK
<1>2. m \in Requests /\ m.type = "save"
  BY <1>1, VisibleFacts, SaveMessage
<1>3. Send(c, m) /\ UNCHANGED <<app, in, server, ghosts>>
  BY DEF ClickSave
<1> HIDE DEF m
<1>4. TypeK'
  BY <1>1, <1>2, <1>3, SendFacts DEF TypeK, app, server, ghosts
<1>5. \A d \in Clients : PhaseAt(d)'
  BY <1>2, <1>3, SendPhases DEF app, server
<1> QED BY <1>4, <1>5, RoomPartsNext

LEMMA SaveLocalRoom ==
  ASSUME RoomInv, NEW c \in Clients, SaveLocal(c)
  PROVE  RoomInv'
<1>1. TypeK /\ (\A d \in Clients : PhaseAt(d)) /\ Visible(hist[c]) \in Canvas
  BY RoomParts, VisibleFacts DEF TypeK
<1>2. TypeK'
  BY <1>1 DEF TypeK, SaveLocal, server, ghosts
<1>3. ASSUME NEW d \in Clients PROVE PhaseAt(d)'
  BY <1>1 DEF PhaseAt, SaveLocal, server
<1> QED BY <1>2, <1>3, RoomPartsNext

LEMMA LoadLocalRoom ==
  ASSUME RoomInv, NEW c \in Clients, LoadLocal(c)
  PROVE  RoomInv'
<1>1. TypeK /\ (\A d \in Clients : PhaseAt(d)) /\ hist[c] \in Kept /\ file \in Canvas
  BY RoomParts DEF TypeK
<1>2. hist' \in [Clients -> Kept] /\ painted' \in [Clients -> Canvas]
  BY <1>1, LoadedFacts, RepaintFacts DEF LoadLocal
<1>3. TypeK'
  BY <1>1, <1>2 DEF TypeK, LoadLocal, server
<1>4. ASSUME NEW d \in Clients PROVE PhaseAt(d)'
  BY <1>1 DEF PhaseAt, LoadLocal, server
<1> QED BY <1>3, <1>4, RoomPartsNext

LEMMA QuitRoom ==
  ASSUME RoomInv, NEW c \in Clients, Quit(c)
  PROVE  RoomInv'
<1>1. TypeK /\ \A d \in Clients : PhaseAt(d)
  BY RoomParts
<1>2. Plain("bye") \in Requests /\ Plain("bye").type = "bye"
  BY DEF Plain, Requests
<1>3. /\ out' = [out EXCEPT ![c] = Append(@, Plain("bye"))] /\ in' = [in EXCEPT ![c] = <<>>]
      /\ phase' = [phase EXCEPT ![c] = "gone"]
      /\ built' = [built EXCEPT ![c] = FALSE] /\ surface' = [surface EXCEPT ![c] = FALSE]
      /\ hist' = [hist EXCEPT ![c] = Fresh(0)] /\ painted' = [painted EXCEPT ![c] = <<>>]
      /\ UNCHANGED <<file, drawn, room, saved, canon, stray>>
  BY DEF Quit, server, ghosts
<1>4. /\ out[c] \in Seq(Requests) /\ <<>> \in Seq(Answers) /\ <<>> \in Canvas /\ Fresh(0) \in Kept
      /\ Append(out[c], Plain("bye")) \in Seq(Requests)
  BY <1>1, <1>2, AppendProperties, EmptySeq, FreshKept DEF TypeK, Canvas
<1>5. TypeK'
  BY <1>1, <1>3, <1>4 DEF TypeK
<1>6. Has(out'[c], Edits) => Has(out[c], Edits)
  <2>1. out'[c] = Append(out[c], Plain("bye"))
    BY <1>1, <1>3 DEF TypeK
  <2>2. Plain("bye").type \notin Edits
    BY <1>2 DEF Edits
  <2> QED BY <1>2, <1>4, <2>1, <2>2, HasAppend
<1>7. PhaseAt(c)'
  BY <1>1, <1>3, <1>6 DEF PhaseAt, TypeK
<1>8. ASSUME NEW d \in Clients, d # c PROVE PhaseAt(d)'
  BY <1>1, <1>3, <1>8 DEF PhaseAt, TypeK
<1> QED BY <1>5, <1>7, <1>8, RoomPartsNext

--------------------------------------------------------------------------------
(* RoomInv is kept: what a client hears *)

\* A message was heard; nothing else changed that PhaseAt speaks of.
LEMMA HearPhases ==
  ASSUME RoomInv, NEW c \in Clients, in[c] # <<>>, Consumed(c),
         UNCHANGED <<phase, built, surface, out, room>>
  PROVE  \A d \in Clients : PhaseAt(d)'
<1> TAKE d \in Clients
<1>1. PhaseAt(d) /\ TypeK
  BY RoomParts
<1>2. d # c => in'[d] = in[d]
  BY <1>1, ConsumedFacts
<1>3. in'[d] # <<>> => in[d] # <<>>
  BY <1>2
<1> QED BY <1>1, <1>3, PhaseStays

LEMMA HearJoinedRoom ==
  ASSUME RoomInv, NEW c \in Clients, HearJoined(c)
  PROVE  RoomInv'
<1>1. TypeK /\ \A d \in Clients : PhaseAt(d)
  BY RoomParts
<1>2. in[c] # <<>> /\ phase[c] # "gone" /\ Consumed(c)
  BY DEF HearJoined, Arrives
<1>3. in' \in [Clients -> Seq(Answers)] /\ \A d \in Clients : d # c => in'[d] = in[d]
  BY <1>1, <1>2, ConsumedFacts
<1>4. TypeK'
  BY <1>1, <1>3, FreshKept DEF TypeK, HearJoined, server, ghosts
<1>5. phase'[c] = "canvas"
  BY <1>1 DEF HearJoined, TypeK
<1>6. PhaseAt(c)'
  BY <1>1, <1>2, <1>5 DEF PhaseAt, HearJoined, server
<1>7. ASSUME NEW d \in Clients, d # c PROVE PhaseAt(d)'
  BY <1>1, <1>3, <1>7 DEF PhaseAt, HearJoined, TypeK, server
<1> QED BY <1>4, <1>6, <1>7, RoomPartsNext

LEMMA HearLoadRoom ==
  ASSUME RoomInv, NEW c \in Clients, HearLoad(c)
  PROVE  RoomInv'
<1>1. TypeK /\ hist[c] \in Kept
  BY RoomParts DEF TypeK
<1>2. in[c] # <<>> /\ Consumed(c) /\ Head(in[c]).type = "load"
  BY DEF HearLoad, Arrives
<1>3. in' \in [Clients -> Seq(Answers)] /\ Head(in[c]) \in Messages
  BY <1>1, <1>2, ConsumedFacts DEF Messages
<1>4. Loaded(hist[c], Head(in[c]).canvas) \in Kept
  BY <1>1, <1>2, <1>3, MessageShape, LoadedFacts
<1>5. hist' \in [Clients -> Kept] /\ painted' \in [Clients -> Canvas]
  BY <1>1, <1>4, RepaintFacts DEF HearLoad
<1>6. TypeK'
  BY <1>1, <1>3, <1>5 DEF TypeK, HearLoad, server, ghosts
<1>7. \A d \in Clients : PhaseAt(d)'
  BY <1>2, HearPhases DEF HearLoad, server
<1> QED BY <1>6, <1>7, RoomPartsNext

LEMMA HearDrawRoom ==
  ASSUME RoomInv, NEW c \in Clients, HearDraw(c)
  PROVE  RoomInv'
<1>1. TypeK /\ hist[c] \in Kept /\ painted[c] \in Seq(Strokes)
  BY RoomParts DEF TypeK, Canvas
<1>2. in[c] # <<>> /\ Consumed(c) /\ Head(in[c]).type = "draw"
  BY DEF HearDraw, Arrives
<1>3. in' \in [Clients -> Seq(Answers)] /\ Head(in[c]) \in Messages
  BY <1>1, <1>2, ConsumedFacts DEF Messages
<1>4. Head(in[c]) \in Edit
  BY <1>2, <1>3, MessageShape DEF Edits
<1>5. Edited(hist[c], Head(in[c])) \in Kept /\ Head(in[c]).stroke \in Strokes
  BY <1>1, <1>2, <1>4, EditedFacts
<1>6. Append(painted[c], Head(in[c]).stroke) \in Canvas
  BY <1>1, <1>5, AppendProperties DEF Canvas
<1>7. hist' = [hist EXCEPT ![c] = Edited(hist[c], Head(in[c]))]
      /\ painted' = [painted EXCEPT ![c] = IF surface[c] THEN Append(painted[c], Head(in[c]).stroke)
                                                         ELSE painted[c]]
  BY DEF HearDraw
<1>8. hist' \in [Clients -> Kept] /\ painted' \in [Clients -> Canvas]
  BY <1>1, <1>5, <1>6, <1>7 DEF TypeK
<1>9. TypeK'
  BY <1>1, <1>3, <1>8 DEF TypeK, HearDraw, server, ghosts
<1>10. \A d \in Clients : PhaseAt(d)'
  BY <1>2, HearPhases DEF HearDraw, server
<1> QED BY <1>9, <1>10, RoomPartsNext

\* An undo, redo or clear of another user.
LEMMA HearEditRoom ==
  ASSUME RoomInv, NEW c \in Clients, NEW h \in Kept, in[c] # <<>>, Consumed(c),
         SetAndRepaint(c, h) \/ UNCHANGED <<hist, painted>>,
         stray' \subseteq stray \union {c},
         UNCHANGED <<phase, built, surface, file, drawn, out, server, canon>>
  PROVE  RoomInv'
<1>1. TypeK
  BY RoomParts
<1>2. in' \in [Clients -> Seq(Answers)]
  BY <1>1, ConsumedFacts
<1>3. hist' \in [Clients -> Kept] /\ painted' \in [Clients -> Canvas]
  <2>1. CASE SetAndRepaint(c, h) BY <1>1, <2>1, RepaintFacts
  <2>2. CASE UNCHANGED <<hist, painted>> BY <1>1, <2>2 DEF TypeK
  <2> QED BY <2>1, <2>2
<1>4. TypeK'
  BY <1>1, <1>2, <1>3 DEF TypeK, server
<1>5. \A d \in Clients : PhaseAt(d)'
  BY HearPhases DEF server
<1> QED BY <1>4, <1>5, RoomPartsNext

LEMMA HearOtherEditsRoom ==
  ASSUME RoomInv, NEW c \in Clients, HearUndo(c) \/ HearRedo(c) \/ HearClear(c)
  PROVE  RoomInv'
<1>1. hist[c] \in Kept
  BY RoomParts DEF TypeK
<1>2. Undo(hist[c]) \in Kept /\ Redo(hist[c]) \in Kept /\ Fresh(Limit) \in Kept
  BY <1>1, UndoKept, RedoKept, FreshKept
<1>3. CASE HearUndo(c)
  <2>1. SetAndRepaint(c, Undo(hist[c])) \/ UNCHANGED <<hist, painted>>
    BY <1>3, Zenon DEF HearUndo
  <2> QED BY <1>2, <1>3, <2>1, HearEditRoom DEF HearUndo, Arrives, ghosts
<1>4. CASE HearRedo(c)
  <2>1. SetAndRepaint(c, Redo(hist[c])) \/ UNCHANGED <<hist, painted>>
    BY <1>4, Zenon DEF HearRedo
  <2> QED BY <1>2, <1>4, <2>1, HearEditRoom DEF HearRedo, Arrives, ghosts
<1>5. CASE HearClear(c)
  <2>1. SetAndRepaint(c, Fresh(Limit)) \/ UNCHANGED <<hist, painted>>
    BY <1>5, Zenon DEF HearClear
  <2> QED BY <1>2, <1>5, <2>1, HearEditRoom DEF HearClear, Arrives
<1> QED BY <1>3, <1>4, <1>5

--------------------------------------------------------------------------------
(* RoomInv is kept: what the server does *)

\* The answers to a join: joined, and the drawing saved or, when the database
\* is away, an empty one.
LEMMA ReplyShape ==
  ASSUME TypeK, NEW r \in Rooms, NEW reply \in JoinReplies(r)
  PROVE  /\ reply \in Seq(Answers)
         /\ \/ reply = <<Plain("joined")>> /\ saved[r] = <<>>
            \/ reply = <<Plain("joined"), [type |-> "load", canvas |-> saved[r]]>>
            \/ reply = <<Plain("joined"), [type |-> "load", canvas |-> <<>>]>>
<1>1. saved[r] \in Canvas /\ <<>> \in Canvas
  BY EmptySeq DEF TypeK, Canvas
<1>2. /\ Plain("joined") \in Answers /\ [type |-> "load", canvas |-> saved[r]] \in Answers
      /\ [type |-> "load", canvas |-> <<>>] \in Answers
  BY <1>1 DEF Plain, Answers
<1>3. \A a, b \in Answers : <<a>> \o <<b>> = <<a, b>> /\ <<a>> \o <<>> = <<a>>
  BY PairFacts
<1>4. \/ reply = <<Plain("joined")>> /\ saved[r] = <<>>
      \/ reply = <<Plain("joined"), [type |-> "load", canvas |-> saved[r]]>>
      \/ reply = <<Plain("joined"), [type |-> "load", canvas |-> <<>>]>>
  BY <1>2, <1>3 DEF JoinReplies
<1>5. /\ <<Plain("joined")>> \in Seq(Answers)
      /\ <<Plain("joined"), [type |-> "load", canvas |-> saved[r]]>> \in Seq(Answers)
      /\ <<Plain("joined"), [type |-> "load", canvas |-> <<>>]>> \in Seq(Answers)
  BY <1>2, OneFacts, TwoFacts
<1> QED BY <1>4, <1>5

LEMMA ServeJoinRoom ==
  ASSUME RoomInv, NEW c \in Clients, ServeJoin(c)
  PROVE  RoomInv'
<1> DEFINE r == Head(out[c]).room
<1>1. TypeK /\ \A d \in Clients : PhaseAt(d)
  BY RoomParts
<1>2. out[c] # <<>> /\ Head(out[c]).type = "join" /\ out' = [out EXCEPT ![c] = Tail(@)]
      /\ UNCHANGED <<hist, phase, built, surface, painted, file, drawn, saved>>
      /\ room' = [room EXCEPT ![c] = r]
      /\ canon' = IF Others(c, r) = {} THEN [canon EXCEPT ![r] = Arrival(r)] ELSE canon
  BY DEF ServeJoin, Serves, app
<1>3. PICK reply \in JoinReplies(r) :
        /\ Deliver({c}, reply)
        /\ stray' = IF StrayedByJoin(c, r) \/ (saved[r] # <<>> /\ Last(reply).canvas = <<>>)
                      THEN stray \union {c} ELSE stray \ {c}
  BY DEF ServeJoin
<1>4. /\ out' \in [Clients -> Seq(Requests)] /\ Head(out[c]) \in Messages
      /\ \A d \in Clients : d # c => out'[d] = out[d]
      /\ \A T : Has(out'[c], T) => Has(out[c], T)
  BY <1>1, <1>2, TakenFacts DEF Messages
<1>5. r \in Rooms
  BY <1>2, <1>4, MessageShape
<1> HIDE DEF r
<1>6. reply \in Seq(Answers)
  BY <1>1, <1>5, ReplyShape
<1>7. /\ in' \in [Clients -> Seq(Answers)]
      /\ \A d \in Clients : in'[d] # in[d] => d = c /\ phase[d] # "gone"
  <2>1. {c} \in SUBSET Clients
    OBVIOUS
  <2>2. /\ in' \in [Clients -> Seq(Answers)]
        /\ \A d \in Clients :
             in'[d] = IF d \in {c} /\ phase[d] # "gone" THEN in[d] \o reply ELSE in[d]
    BY <1>1, <1>3, <1>6, <2>1, DeliverFacts
  <2> QED BY <2>2
<1>8. Arrival(r) \in Kept
  BY <1>1, <1>5, FreshKept, LoadedFacts DEF Arrival, TypeK
<1>9. TypeK'
  BY <1>1, <1>2, <1>3, <1>4, <1>5, <1>7, <1>8 DEF TypeK
<1>10. room'[c] = r /\ r # NoRoom /\ \A d \in Clients : d # c => room'[d] = room[d]
  BY <1>1, <1>2, <1>5, RoomsAssumption DEF TypeK
<1>11. PhaseAt(c)'
  BY <1>1, <1>2, <1>4, <1>7, <1>10 DEF PhaseAt
<1>12. ASSUME NEW d \in Clients, d # c PROVE PhaseAt(d)'
  BY <1>1, <1>2, <1>4, <1>7, <1>10, <1>12 DEF PhaseAt
<1> QED BY <1>9, <1>11, <1>12, RoomPartsNext

\* What ServeEdit does, in the room of c.
LEMMA ServeEditFacts ==
  ASSUME RoomInv, NEW c \in Clients, ServeEdit(c)
  PROVE  LET m == Head(out[c])
             r == room[c]
         IN  /\ r \in Rooms /\ m \in Edit /\ m \in Answers /\ out[c] # <<>>
             /\ canon' \in [Rooms -> Kept] /\ canon'[r] = Edited(canon[r], m)
             /\ \A s \in Rooms : s # r => canon'[s] = canon[s]
             /\ in' \in [Clients -> Seq(Answers)]
             /\ \A d \in Clients :
                  in'[d] = IF d # c /\ room[d] = r /\ phase[d] # "gone"
                             THEN Append(in[d], m) ELSE in[d]
             /\ stray' \subseteq Clients /\ stray \subseteq stray'
             /\ \A d \in Clients \ stray' : d # c /\ room[d] = r => ~ Has(out[d], Edits)
             /\ out' = [out EXCEPT ![c] = Tail(@)]
             /\ UNCHANGED <<hist, phase, built, surface, painted, file, drawn, room, saved>>
<1> DEFINE m == Head(out[c])
           r == room[c]
           to == Others(c, r)
<1>1. TypeK
  BY RoomParts
<1>2. out[c] # <<>> /\ m.type \in Edits /\ out' = [out EXCEPT ![c] = Tail(@)]
      /\ UNCHANGED <<hist, phase, built, surface, painted, file, drawn, room, saved>>
      /\ Deliver(to, <<m>>) /\ canon' = [canon EXCEPT ![r] = Edited(@, m)]
      /\ stray' = stray \union {d \in to : Has(out[d], Edits)}
  BY DEF ServeEdit, Serves, app
<1>3. m \in Messages /\ Has(out[c], Edits)
  BY <1>1, <1>2, TakenFacts DEF Messages
<1>4. m \in Edit /\ m \in Answers
  BY <1>2, <1>3, MessageShape, EditIsMessage
<1>5. r \in Rooms
  BY <1>1, <1>3, InRoom DEF TypeK
<1> HIDE DEF m, r
<1>6. Edited(canon[r], m) \in Kept
  BY <1>1, <1>4, <1>5, EditedFacts DEF TypeK
<1>7. canon' \in [Rooms -> Kept] /\ canon'[r] = Edited(canon[r], m)
      /\ \A s \in Rooms : s # r => canon'[s] = canon[s]
  BY <1>1, <1>2, <1>5, <1>6 DEF TypeK
<1>8. to \in SUBSET Clients /\ \A d \in Clients : d \in to <=> d # c /\ room[d] = r
  BY DEF Others
<1> HIDE DEF to
<1>9. <<m>> \in Seq(Answers)
  BY <1>4
<1>10. /\ in' \in [Clients -> Seq(Answers)]
       /\ \A d \in Clients : in'[d] = IF d \in to /\ phase[d] # "gone" THEN in[d] \o <<m>> ELSE in[d]
  BY <1>1, <1>2, <1>8, <1>9, DeliverFacts
<1>11. \A d \in Clients : in[d] \o <<m>> = Append(in[d], m)
  BY <1>1, <1>4, AppendIsConcat DEF TypeK
<1>12. \A d \in Clients : in'[d] = IF d # c /\ room[d] = r /\ phase[d] # "gone"
                                     THEN Append(in[d], m) ELSE in[d]
  BY <1>8, <1>10, <1>11
<1>13. stray' \subseteq Clients /\ stray \subseteq stray'
       /\ \A d \in Clients \ stray' : d # c /\ room[d] = r => ~ Has(out[d], Edits)
  BY <1>1, <1>2, <1>8 DEF TypeK
<1> QED BY <1>2, <1>4, <1>5, <1>7, <1>10, <1>12, <1>13 DEF m, r

LEMMA ServeEditRoom ==
  ASSUME RoomInv, NEW c \in Clients, ServeEdit(c)
  PROVE  RoomInv'
<1>1. TypeK /\ \A d \in Clients : PhaseAt(d)
  BY RoomParts
<1>2. /\ room[c] \in Rooms /\ out[c] # <<>> /\ canon' \in [Rooms -> Kept]
      /\ in' \in [Clients -> Seq(Answers)]
      /\ \A d \in Clients : in'[d] # in[d] => room[d] = room[c] /\ phase[d] # "gone"
      /\ stray' \subseteq Clients /\ out' = [out EXCEPT ![c] = Tail(@)]
      /\ UNCHANGED <<hist, phase, built, surface, painted, file, drawn, room, saved>>
  BY ServeEditFacts
<1>3. /\ out' \in [Clients -> Seq(Requests)]
      /\ \A d \in Clients : d # c => out'[d] = out[d]
      /\ \A T : Has(out'[c], T) => Has(out[c], T)
  BY <1>1, <1>2, TakenFacts
<1>4. TypeK'
  BY <1>1, <1>2, <1>3 DEF TypeK
<1>5. ASSUME NEW d \in Clients PROVE PhaseAt(d)'
  <2>1. \A T : Has(out'[d], T) => Has(out[d], T)
    BY <1>3
  <2>2. in'[d] # <<>> => in[d] # <<>> \/ (room[d] # NoRoom /\ phase[d] # "gone")
    BY <1>2, RoomsAssumption
  <2> QED BY <1>1, <1>2, <2>1, <2>2, PhaseStays
<1> QED BY <1>4, <1>5, RoomPartsNext

\* A save comes from a client that is or was in a room, or the lobby.
LEMMA ServeSaveRoom ==
  ASSUME RoomInv, NEW c \in Clients, ServeSave(c)
  PROVE  RoomInv'
<1>1. TypeK /\ \A d \in Clients : PhaseAt(d)
  BY RoomParts
<1>2. /\ out[c] # <<>> /\ Head(out[c]).type = "save" /\ out' = [out EXCEPT ![c] = Tail(@)]
      /\ saved' = [saved EXCEPT ![room[c]] = Head(out[c]).canvas]
      /\ UNCHANGED <<hist, phase, built, surface, painted, file, drawn, in, room, canon, stray>>
  BY DEF ServeSave, Serves, app, ghosts
<1>3. /\ out' \in [Clients -> Seq(Requests)] /\ Head(out[c]) \in Messages
      /\ \A d \in Clients : d # c => out'[d] = out[d]
      /\ \A T : Has(out'[c], T) => Has(out[c], T)
  BY <1>1, <1>2, TakenFacts DEF Messages
<1>4. Head(out[c]).canvas \in Canvas
  BY <1>2, <1>3, MessageShape
<1>5. saved' \in [Rooms -> Canvas]
  BY <1>1, <1>2, <1>4 DEF TypeK
<1>6. TypeK'
  BY <1>1, <1>2, <1>3, <1>5 DEF TypeK
<1>7. ASSUME NEW d \in Clients PROVE PhaseAt(d)'
  <2>1. \A T : Has(out'[d], T) => Has(out[d], T)
    BY <1>3
  <2> QED BY <1>1, <1>2, <2>1, PhaseStays
<1> QED BY <1>6, <1>7, RoomPartsNext

LEMMA ServeByeRoom ==
  ASSUME RoomInv, NEW c \in Clients, ServeBye(c)
  PROVE  RoomInv'
<1>1. TypeK /\ \A d \in Clients : PhaseAt(d)
  BY RoomParts
<1>2. /\ out[c] # <<>> /\ Head(out[c]).type = "bye"
      /\ room' = [room EXCEPT ![c] = NoRoom] /\ out' = [out EXCEPT ![c] = <<>>]
      /\ phase' = [phase EXCEPT ![c] = "lobby"] /\ stray' = stray \ {c}
      /\ UNCHANGED <<hist, built, surface, painted, file, drawn, in, saved, canon>>
  BY DEF ServeBye, Serves
<1>3. out[c] \in Seq(Requests) /\ <<>> \in Seq(Requests)
  BY <1>1, EmptySeq DEF TypeK
<1>4. Has(out[c], {"bye"})
  BY <1>2, <1>3, HasTail
<1>5. TypeK'
  BY <1>1, <1>2, <1>3 DEF TypeK
<1>6. phase[c] = "gone" /\ in[c] = <<>> /\ ~ built[c] /\ ~ surface[c]
  BY <1>1, <1>4 DEF PhaseAt
<1>7. PhaseAt(c)'
  BY <1>1, <1>2, <1>6, HasEmpty DEF PhaseAt, TypeK
<1>8. ASSUME NEW d \in Clients, d # c PROVE PhaseAt(d)'
  BY <1>1, <1>2, <1>8 DEF PhaseAt, TypeK
<1> QED BY <1>5, <1>7, <1>8, RoomPartsNext

LEMMA RoomFrame == RoomInv /\ UNCHANGED vars => RoomInv'
<1> SUFFICES ASSUME RoomInv, UNCHANGED vars PROVE RoomInv'
  OBVIOUS
<1>1. TypeK /\ \A d \in Clients : PhaseAt(d)
  BY RoomParts
<1>2. TypeK'
  BY <1>1 DEF TypeK, vars, app, server, ghosts
<1>3. \A d \in Clients : PhaseAt(d)'
  BY <1>1 DEF PhaseAt, vars, app, server
<1> QED BY <1>2, <1>3, RoomPartsNext

\* One step: RoomInv is inductive.
LEMMA NextRoom == RoomInv /\ [Next]_vars => RoomInv'
<1> SUFFICES ASSUME RoomInv, Next PROVE RoomInv'
  BY RoomFrame
<1>1. PICK c \in Clients : User(c) \/ Hear(c) \/ Serve(c)
  BY DEF Next
<1>2. CASE User(c)
  BY <1>2, ClickJoinRoom, BuildCanvasRoom, ConfigureRoom, DrawBrushRoom, ClickEditRoom,
     ClickSaveRoom, SaveLocalRoom, LoadLocalRoom, QuitRoom DEF User
<1>3. CASE Hear(c)
  BY <1>3, HearJoinedRoom, HearLoadRoom, HearDrawRoom, HearOtherEditsRoom DEF Hear
<1>4. CASE Serve(c)
  BY <1>4, ServeJoinRoom, ServeEditRoom, ServeSaveRoom, ServeByeRoom DEF Serve
<1> QED BY <1>1, <1>2, <1>3, <1>4

\* Types, limits, and the agreement of phases, rooms and messages: for any
\* clients, rooms and limit.
THEOREM RoomInvariant == Spec => []RoomInv
<1>1. Init => RoomInv BY InitRoom
<1>2. RoomInv /\ [Next]_vars => RoomInv' BY NextRoom
<1> QED BY <1>1, <1>2, PTL DEF Spec

--------------------------------------------------------------------------------
(* InStep: the drawings of a room stay one drawing *)

InStepAt(c) ==
  c \notin stray /\ room[c] # NoRoom /\ phase[c] # "gone" /\ ~ Has(out[c], {"join"}) =>
    After(Now(c), in[c]).hist = After(Common(room[c]), out[c]).hist

LEMMA InStepParts == (InStep <=> \A c \in Clients : InStepAt(c))
BY DEF InStep, InStepAt

LEMMA InStepPartsNext == (InStep' <=> \A c \in Clients : InStepAt(c)')
BY DEF InStep, InStepAt

\* A client, its queues and the drawing of its room, as values of After.
LEMMA StateFacts ==
  ASSUME TypeK, NEW c \in Clients
  PROVE  /\ Now(c) \in State /\ Now(c).phase = phase[c] /\ Now(c).hist = hist[c]
         /\ in[c] \in Seq(Messages) /\ in[c] \in Seq(Answers)
         /\ out[c] \in Seq(Messages) /\ out[c] \in Seq(Requests)
         /\ room[c] # NoRoom => /\ room[c] \in Rooms /\ Common(room[c]) \in State
                                /\ Common(room[c]).hist = canon[room[c]]
                                /\ Common(room[c]).phase = "canvas"
<1>1. in[c] \in Seq(Answers) /\ out[c] \in Seq(Requests)
  BY DEF TypeK
<1>2. in[c] \in Seq(Messages) /\ out[c] \in Seq(Messages)
  BY <1>1, SeqMonotonic DEF Messages
<1>3. Now(c) \in State /\ Now(c).phase = phase[c] /\ Now(c).hist = hist[c]
  BY DEF TypeK, Now, State
<1>4. room[c] # NoRoom => room[c] \in Rooms
  BY DEF TypeK
<1>5. \A r \in Rooms : /\ Common(r) \in State /\ Common(r).hist = canon[r]
                       /\ Common(r).phase = "canvas"
  BY DEF TypeK, Common, State
<1> QED BY <1>1, <1>2, <1>3, <1>4, <1>5

\* Nothing changed for a client.
LEMMA StaysInStep ==
  ASSUME NEW d \in Clients, InStepAt(d),
         hist'[d] = hist[d], phase'[d] = phase[d], in'[d] = in[d], out'[d] = out[d],
         room'[d] = room[d], room[d] # NoRoom => canon'[room[d]] = canon[room[d]],
         d \notin stray' => d \notin stray
  PROVE  InStepAt(d)'
<1>1. Now(d)' = Now(d)
  BY DEF Now
<1>2. room[d] # NoRoom => Common(room[d])' = Common(room[d])
  BY DEF Common
<1> QED BY <1>1, <1>2 DEF InStepAt

LEMMA InitInStep == Init => InStep
BY DEF Init, InStep

\* A user edits. One that had heard everything has its own edits before it,
\* and now this one as well.
LEMMA UserEditInStep ==
  ASSUME RoomInv, InStep, NEW c \in Clients, NEW m \in Edit,
         hist' = [hist EXCEPT ![c] = Edited(hist[c], m)], Send(c, m),
         stray' = stray \union StrayedByRace(c), UNCHANGED <<phase, in, room, canon>>
  PROVE  InStep'
<1>1. TypeK /\ \A d \in Clients : InStepAt(d)
  BY RoomParts, InStepParts
<1>2. m \in Requests /\ m \in Messages /\ m.type \in Edits
  BY EditIsMessage DEF Messages, Edit, Edits
<1>3. /\ out'[c] = Append(out[c], m) /\ \A d \in Clients : d # c => out'[d] = out[d]
      /\ \A T : Has(out'[c], T) <=> m.type \in T \/ Has(out[c], T)
  BY <1>1, <1>2, SendFacts
<1>4. hist'[c] = Edited(hist[c], m) /\ \A d \in Clients : d # c => hist'[d] = hist[d]
  BY <1>1 DEF TypeK
<1>5. ASSUME NEW d \in Clients, d # c PROVE InStepAt(d)'
  BY <1>1, <1>3, <1>4, <1>5, StaysInStep
<1>6. InStepAt(c)'
  <2>1. SUFFICES ASSUME c \notin stray', room[c] # NoRoom, phase[c] # "gone",
                        ~ Has(out'[c], {"join"})
                 PROVE  After(Now(c), in[c])'.hist = After(Common(room[c]), out[c])'.hist
    BY DEF InStepAt
  <2>2. in[c] = <<>> /\ c \notin stray
    BY <2>1 DEF StrayedByRace
  <2>3. ~ Has(out[c], {"join"})
    BY <1>3, <2>1
  <2> DEFINE x == Common(room[c])
             y == After(x, out[c])
  <2>4. /\ Now(c) \in State /\ Now(c).hist = hist[c] /\ out[c] \in Seq(Messages)
        /\ x \in State /\ y \in State
    BY <1>1, <2>1, StateFacts, AfterType
  <2>5. hist[c] = y.hist
    BY <1>1, <2>1, <2>2, <2>3, <2>4, AfterEmpty DEF InStepAt
  <2>6. x' = x /\ in'[c] = <<>>
    BY <2>2 DEF Common
  <2>7. After(Now(c), in[c])' = Now(c)' /\ Now(c)'.hist = hist'[c]
    BY <2>6, AfterEmpty DEF Now
  <2>8. After(Common(room[c]), out[c])' = After(x, Append(out[c], m))
    BY <1>3, <2>6
  <2> HIDE DEF x
  <2>9. After(x, Append(out[c], m)) = Then(y, m)
    BY <1>2, <2>4, AfterAppend
  <2> HIDE DEF y
  <2>10. Then(y, m).hist = Edited(y.hist, m)
    BY <1>2, <2>4, ThenFacts
  <2> QED BY <1>4, <2>5, <2>7, <2>8, <2>9, <2>10
<1> QED BY <1>5, <1>6, InStepPartsNext

LEMMA ClickEditInStep ==
  ASSUME RoomInv, InStep, NEW c \in Clients,
         DrawBrush(c) \/ ClickUndo(c) \/ ClickRedo(c) \/ ClickClear(c)
  PROVE  InStep'
<1>1. TypeK /\ hist[c] \in Kept
  BY RoomParts DEF TypeK
<1>2. CASE DrawBrush(c)
  <2>1. drawn' \in Strokes
    BY <1>1, <1>2, BoundsAssumption DEF DrawBrush, TypeK, Strokes
  <2>2. Draw(drawn') \in Edit /\ Edited(hist[c], Draw(drawn')) = Push(hist[c], drawn')
    BY <1>1, <2>1, DrawEdit, EditedFacts
  <2> QED BY <1>2, <2>2, UserEditInStep DEF DrawBrush, server
<1>3. CASE ClickUndo(c)
  <2>1. Plain("undo") \in Edit /\ Edited(hist[c], Plain("undo")) = Undo(hist[c])
    BY <1>1, PlainEdit, EditedFacts
  <2> QED BY <1>3, <2>1, UserEditInStep DEF ClickUndo, SetAndRepaint, server
<1>4. CASE ClickRedo(c)
  <2>1. Plain("redo") \in Edit /\ Edited(hist[c], Plain("redo")) = Redo(hist[c])
    BY <1>1, PlainEdit, EditedFacts
  <2> QED BY <1>4, <2>1, UserEditInStep DEF ClickRedo, SetAndRepaint, server
<1>5. CASE ClickClear(c)
  <2>1. Plain("clear") \in Edit /\ Edited(hist[c], Plain("clear")) = Fresh(Limit)
    BY <1>1, PlainEdit, EditedFacts
  <2> QED BY <1>5, <2>1, UserEditInStep DEF ClickClear, SetAndRepaint, server
<1> QED BY <1>2, <1>3, <1>4, <1>5

\* A save under way is no edit; a join under way is an end of the claim.
LEMMA ClickSaveInStep ==
  ASSUME RoomInv, InStep, NEW c \in Clients, ClickSave(c)
  PROVE  InStep'
<1> DEFINE m == [type |-> "save", canvas |-> Visible(hist[c])]
<1>1. TypeK /\ \A d \in Clients : InStepAt(d)
  BY RoomParts, InStepParts
<1>2. m \in Requests /\ m.type = "save"
  BY <1>1, VisibleFacts, SaveMessage DEF TypeK
<1>3. Send(c, m) /\ UNCHANGED <<hist, phase, in, room, canon, stray>>
  BY DEF ClickSave, app, server, ghosts
<1> HIDE DEF m
<1>4. /\ out'[c] = Append(out[c], m) /\ \A d \in Clients : d # c => out'[d] = out[d]
      /\ \A T : Has(out'[c], T) <=> m.type \in T \/ Has(out[c], T)
  BY <1>1, <1>2, <1>3, SendFacts
<1>5. ASSUME NEW d \in Clients, d # c PROVE InStepAt(d)'
  BY <1>1, <1>3, <1>4, <1>5, StaysInStep
<1>6. InStepAt(c)'
  <2>1. SUFFICES ASSUME c \notin stray, room[c] # NoRoom, phase[c] # "gone",
                        ~ Has(out'[c], {"join"})
                 PROVE  After(Now(c), in[c])'.hist = After(Common(room[c]), out[c])'.hist
    BY <1>3 DEF InStepAt
  <2>2. After(Now(c), in[c]).hist = After(Common(room[c]), out[c]).hist
    BY <1>1, <1>4, <2>1 DEF InStepAt
  <2>3. Now(c)' = Now(c) /\ Common(room[c])' = Common(room[c]) /\ in' = in
    BY <1>3 DEF Now, Common
  <2> DEFINE x == Common(room[c])
             y == After(x, out[c])
  <2>4. out[c] \in Seq(Messages) /\ y \in State /\ m \in Messages
    BY <1>1, <1>2, <2>1, StateFacts, AfterType DEF Messages
  <2>5. After(x, Append(out[c], m)) = Then(y, m)
    BY <2>4, AfterAppend
  <2>6. After(Common(room[c]), out[c])' = After(x, Append(out[c], m))
    BY <1>4, <2>3
  <2> HIDE DEF y
  <2>7. Then(y, m) = y
    BY <1>2, <2>4, ThenFacts
  <2> QED BY <2>2, <2>3, <2>5, <2>6, <2>7 DEF y
<1> QED BY <1>5, <1>6, InStepPartsNext

LEMMA ClickJoinInStep ==
  ASSUME RoomInv, InStep, NEW c \in Clients, NEW r \in Rooms, ClickJoin(c, r)
  PROVE  InStep'
<1> DEFINE m == [type |-> "join", room |-> r]
<1>1. TypeK /\ \A d \in Clients : InStepAt(d)
  BY RoomParts, InStepParts
<1>2. m \in Requests /\ m.type = "join"
  BY JoinMessage
<1>3. Send(c, m) /\ UNCHANGED <<hist, phase, in, room, canon, stray>>
  BY DEF ClickJoin, app, server, ghosts
<1> HIDE DEF m
<1>4. /\ \A d \in Clients : d # c => out'[d] = out[d]
      /\ \A T : Has(out'[c], T) <=> m.type \in T \/ Has(out[c], T)
  BY <1>1, <1>2, <1>3, SendFacts
<1>5. ASSUME NEW d \in Clients, d # c PROVE InStepAt(d)'
  BY <1>1, <1>3, <1>4, <1>5, StaysInStep
<1>6. InStepAt(c)'
  BY <1>2, <1>4 DEF InStepAt
<1> QED BY <1>5, <1>6, InStepPartsNext

\* The rest of what a user does: nothing that counts, a file, or the end.
LEMMA UserRestInStep ==
  ASSUME RoomInv, InStep, NEW c \in Clients,
         BuildCanvas(c) \/ Configure(c) \/ SaveLocal(c) \/ LoadLocal(c) \/ Quit(c)
  PROVE  InStep'
<1>1. TypeK /\ \A d \in Clients : InStepAt(d)
  BY RoomParts, InStepParts
<1>2. ASSUME BuildCanvas(c) \/ Configure(c) \/ SaveLocal(c)
      PROVE  UNCHANGED <<hist, phase, in, out, room, canon, stray>>
  BY <1>2 DEF BuildCanvas, Configure, SaveLocal, server, ghosts
<1>3. CASE BuildCanvas(c) \/ Configure(c) \/ SaveLocal(c)
  BY <1>1, <1>2, <1>3, StaysInStep, InStepPartsNext
<1>4. CASE LoadLocal(c)
  <2>1. hist' = [hist EXCEPT ![c] = Load(hist[c], file, Limit)]
        /\ stray' = stray \union {c} /\ UNCHANGED <<phase, in, out, room, canon>>
    BY <1>4 DEF LoadLocal, SetAndRepaint, server
  <2>2. \A d \in Clients : d # c => hist'[d] = hist[d]
    BY <1>1, <2>1 DEF TypeK
  <2>3. InStepAt(c)'
    BY <2>1 DEF InStepAt
  <2>4. ASSUME NEW d \in Clients, d # c PROVE InStepAt(d)'
    BY <1>1, <2>1, <2>2, <2>4, StaysInStep
  <2> QED BY <2>3, <2>4, InStepPartsNext
<1>5. CASE Quit(c)
  <2>1. /\ hist' = [hist EXCEPT ![c] = Fresh(0)] /\ phase' = [phase EXCEPT ![c] = "gone"]
        /\ out' = [out EXCEPT ![c] = Append(@, Plain("bye"))] /\ in' = [in EXCEPT ![c] = <<>>]
        /\ UNCHANGED <<room, canon, stray>>
    BY <1>5 DEF Quit, server, ghosts
  <2>2. \A d \in Clients : d # c => /\ hist'[d] = hist[d] /\ phase'[d] = phase[d]
                                    /\ out'[d] = out[d] /\ in'[d] = in[d]
    BY <1>1, <2>1 DEF TypeK
  <2>3. phase'[c] = "gone"
    BY <1>1, <2>1 DEF TypeK
  <2>4. InStepAt(c)'
    BY <2>3 DEF InStepAt
  <2>5. ASSUME NEW d \in Clients, d # c PROVE InStepAt(d)'
    BY <1>1, <2>1, <2>2, <2>5, StaysInStep
  <2> QED BY <2>4, <2>5, InStepPartsNext
<1> QED BY <1>3, <1>4, <1>5

\* A message is heard: what was to come of it has come.
LEMMA HearInStep ==
  ASSUME RoomInv, InStep, NEW c \in Clients, in[c] # <<>>, phase[c] # "gone", Consumed(c),
         c \notin stray' => Now(c)' = Then(Now(c), Head(in[c])),
         \A d \in Clients : d # c => hist'[d] = hist[d] /\ phase'[d] = phase[d],
         stray \subseteq stray', UNCHANGED <<out, room, canon>>
  PROVE  InStep'
<1>1. TypeK /\ \A d \in Clients : InStepAt(d)
  BY RoomParts, InStepParts
<1>2. in'[c] = Tail(in[c]) /\ \A d \in Clients : d # c => in'[d] = in[d]
  BY <1>1, ConsumedFacts
<1>3. ASSUME NEW d \in Clients, d # c PROVE InStepAt(d)'
  BY <1>1, <1>2, <1>3, StaysInStep
<1>4. InStepAt(c)'
  <2>1. SUFFICES ASSUME c \notin stray', room[c] # NoRoom, ~ Has(out[c], {"join"})
                 PROVE  After(Now(c), in[c])'.hist = After(Common(room[c]), out[c])'.hist
    BY DEF InStepAt
  <2>2. After(Now(c), in[c]).hist = After(Common(room[c]), out[c]).hist
    BY <1>1, <2>1 DEF InStepAt
  <2>3. After(Common(room[c]), out[c])' = After(Common(room[c]), out[c])
    BY DEF Common
  <2>4. After(Now(c), in[c]) = After(Then(Now(c), Head(in[c])), Tail(in[c]))
    BY <1>1, StateFacts, AfterHead
  <2>5. After(Now(c), in[c])' = After(Then(Now(c), Head(in[c])), Tail(in[c]))
    BY <1>2, <2>1
  <2> QED BY <2>2, <2>3, <2>4, <2>5
<1> QED BY <1>3, <1>4, InStepPartsNext

LEMMA HearJoinedInStep ==
  ASSUME RoomInv, InStep, NEW c \in Clients, HearJoined(c)
  PROVE  InStep'
<1>1. TypeK
  BY RoomParts
<1>2. /\ in[c] # <<>> /\ phase[c] # "gone" /\ Consumed(c) /\ Head(in[c]).type = "joined"
      /\ phase' = [phase EXCEPT ![c] = "canvas"]
      /\ hist' = [hist EXCEPT ![c] = IF phase[c] = "lobby" THEN Fresh(Limit) ELSE hist[c]]
      /\ UNCHANGED <<out, room, canon, stray>>
  BY DEF HearJoined, Arrives, server, ghosts
<1>3. Head(in[c]) \in Messages
  BY <1>1, <1>2, ConsumedFacts DEF Messages
<1>4. /\ phase'[c] = "canvas"
      /\ hist'[c] = IF phase[c] = "lobby" THEN Fresh(Limit) ELSE hist[c]
      /\ \A d \in Clients : d # c => hist'[d] = hist[d] /\ phase'[d] = phase[d]
  BY <1>1, <1>2 DEF TypeK
<1>5. Then(Now(c), Head(in[c]))
        = [phase |-> "canvas", hist |-> IF phase[c] = "lobby" THEN Fresh(Limit) ELSE hist[c]]
  BY <1>1, <1>2, <1>3, StateFacts, ThenFacts
<1>6. Now(c)' = Then(Now(c), Head(in[c]))
  BY <1>4, <1>5 DEF Now
<1> QED BY <1>2, <1>4, <1>6, HearInStep

\* A load or an edit: the phase stays.
LEMMA HearHistInStep ==
  ASSUME RoomInv, InStep, NEW c \in Clients, NEW h, in[c] # <<>>, phase[c] # "gone", Consumed(c),
         hist' = [hist EXCEPT ![c] = h],
         \/ Head(in[c]).type = "load" /\ h = Loaded(hist[c], Head(in[c]).canvas)
         \/ Head(in[c]).type \in Edits /\ (c \notin stray' => h = Edited(hist[c], Head(in[c]))),
         stray \subseteq stray', UNCHANGED <<phase, out, room, canon>>
  PROVE  InStep'
<1>1. TypeK
  BY RoomParts
<1>2. Head(in[c]) \in Messages
  BY <1>1, ConsumedFacts DEF Messages
<1>3. hist'[c] = h /\ \A d \in Clients : d # c => hist'[d] = hist[d]
  BY <1>1 DEF TypeK
<1>4. Now(c)' = [phase |-> phase[c], hist |-> h]
  BY <1>3 DEF Now
<1>5. c \notin stray' => Then(Now(c), Head(in[c])) = [phase |-> phase[c], hist |-> h]
  BY <1>1, <1>2, StateFacts, ThenFacts
<1> QED BY <1>3, <1>4, <1>5, HearInStep

LEMMA HearRestInStep ==
  ASSUME RoomInv, InStep, NEW c \in Clients,
         HearLoad(c) \/ HearDraw(c) \/ HearUndo(c) \/ HearRedo(c) \/ HearClear(c)
  PROVE  InStep'
<1>1. TypeK /\ hist[c] \in Kept /\ hist = [hist EXCEPT ![c] = hist[c]]
  BY RoomParts DEF TypeK
<1>2. ASSUME in[c] # <<>>, Consumed(c), Head(in[c]).type \in Edits
      PROVE  Head(in[c]) \in Edit
  BY <1>1, <1>2, ConsumedFacts, MessageShape DEF Messages
<1>3. CASE HearLoad(c)
  BY <1>3, HearHistInStep DEF HearLoad, Arrives, SetAndRepaint, server, ghosts
<1>4. CASE HearDraw(c)
  <2>1. Head(in[c]).type \in Edits
    BY <1>4 DEF HearDraw, Arrives, Edits
  <2> QED BY <1>4, <2>1, HearHistInStep DEF HearDraw, Arrives, server, ghosts
<1>5. CASE HearUndo(c)
  <2> DEFINE h == Undo(hist[c])
  <2>1. Head(in[c]).type = "undo" /\ Head(in[c]).type \in Edits
    BY <1>5 DEF HearUndo, Arrives, Edits
  <2>2. h = Edited(hist[c], Head(in[c]))
    BY <1>1, <1>2, <1>5, <2>1, EditedFacts DEF HearUndo, Arrives
  <2>3. hist' = [hist EXCEPT ![c] = h]
    <3>1. CASE hist[c].cur > 0 BY <1>5, <3>1 DEF HearUndo, SetAndRepaint
    <3>2. CASE ~ (hist[c].cur > 0)
      <4>1. hist' = hist BY <1>5, <3>2 DEF HearUndo
      <4>2. h = hist[c] BY <3>2 DEF Undo
      <4> QED BY <1>1, <4>1, <4>2
    <3> QED BY <3>1, <3>2
  <2> HIDE DEF h
  <2> QED BY <1>5, <2>1, <2>2, <2>3, HearHistInStep DEF HearUndo, Arrives, server, ghosts
<1>6. CASE HearRedo(c)
  <2> DEFINE h == Redo(hist[c])
  <2>1. Head(in[c]).type = "redo" /\ Head(in[c]).type \in Edits
    BY <1>6 DEF HearRedo, Arrives, Edits
  <2>2. h = Edited(hist[c], Head(in[c]))
    BY <1>1, <1>2, <1>6, <2>1, EditedFacts DEF HearRedo, Arrives
  <2>3. hist' = [hist EXCEPT ![c] = h]
    <3>1. CASE hist[c].cur < Len(hist[c].log) BY <1>6, <3>1 DEF HearRedo, SetAndRepaint
    <3>2. CASE ~ (hist[c].cur < Len(hist[c].log))
      <4>1. hist' = hist BY <1>6, <3>2 DEF HearRedo
      <4>2. h = hist[c] BY <3>2 DEF Redo
      <4> QED BY <1>1, <4>1, <4>2
    <3> QED BY <3>1, <3>2
  <2> HIDE DEF h
  <2> QED BY <1>6, <2>1, <2>2, <2>3, HearHistInStep DEF HearRedo, Arrives, server, ghosts
<1>7. CASE HearClear(c)
  <2> DEFINE h == IF surface[c] THEN Fresh(Limit) ELSE hist[c]
  <2>1. Head(in[c]).type = "clear" /\ Head(in[c]).type \in Edits
    BY <1>7 DEF HearClear, Arrives, Edits
  <2>2. Fresh(Limit) = Edited(hist[c], Head(in[c]))
    BY <1>1, <1>2, <1>7, <2>1, EditedFacts DEF HearClear, Arrives
  <2>3. c \notin stray' => surface[c]
    BY <1>7 DEF HearClear
  <2>4. c \notin stray' => h = Edited(hist[c], Head(in[c]))
    BY <2>2, <2>3
  <2>5. hist' = [hist EXCEPT ![c] = h]
    BY <1>1, <1>7 DEF HearClear, SetAndRepaint
  <2>6. stray \subseteq stray'
    BY <1>7 DEF HearClear
  <2> HIDE DEF h
  <2> QED BY <1>7, <2>1, <2>4, <2>5, <2>6, HearHistInStep DEF HearClear, Arrives, server
<1> QED BY <1>3, <1>4, <1>5, <1>6, <1>7

\* What a client that asked for room r is told: unless it strays, it ends with
\* what a client that comes to r now shows.
LEMMA JoinAnswered ==
  ASSUME TypeK, NEW c \in Clients, NEW r \in Rooms, NEW reply \in JoinReplies(r),
         phase[c] # "gone", ~ StrayedByJoin(c, r),
         ~ (saved[r] # <<>> /\ Last(reply).canvas = <<>>)
  PROVE  After(Now(c), in[c] \o reply).hist = Arrival(r)
<1> DEFINE x == Now(c)
           y == After(x, in[c])
           j == Plain("joined")
           z == Then(y, j)
<1>1. x \in State /\ x.phase = phase[c] /\ in[c] \in Seq(Messages)
  BY StateFacts
<1>2. y \in State
  BY <1>1, AfterType
<1>3. saved[r] \in Canvas /\ <<>> \in Canvas
  BY EmptySeq DEF TypeK, Canvas
<1>4. j \in Messages /\ j.type = "joined"
  BY DEF Plain, Answers, Messages
<1>5. ASSUME NEW s \in Canvas
      PROVE  /\ [type |-> "load", canvas |-> s] \in Messages
             /\ [type |-> "load", canvas |-> s].type = "load"
             /\ [type |-> "load", canvas |-> s].canvas = s
  BY DEF Answers, Messages
<1> HIDE DEF x, y, j
<1>6. /\ z \in State
      /\ z = [phase |-> "canvas", hist |-> IF y.phase = "lobby" THEN Fresh(Limit) ELSE y.hist]
  BY <1>2, <1>4, ThenFacts
<1>7. After(x, in[c] \o <<j>>) = z
  <2>1. in[c] \o <<j>> = Append(in[c], j)
    BY <1>1, <1>4, AppendIsConcat
  <2> QED BY <1>1, <1>4, <2>1, AfterAppend DEF y
<1>8. z.hist \in Kept
  BY <1>6 DEF State
<1> HIDE DEF z
<1>9. ASSUME NEW s \in Canvas
      PROVE  After(x, in[c] \o <<j, [type |-> "load", canvas |-> s]>>).hist = Loaded(Fresh(Limit), s)
  <2> DEFINE l == [type |-> "load", canvas |-> s]
  <2>1. l \in Messages /\ l.type = "load" /\ l.canvas = s
    BY <1>5
  <2> HIDE DEF l
  <2>2. /\ in[c] \o <<j, l>> = Append(Append(in[c], j), l)
        /\ Append(in[c], j) \in Seq(Messages) /\ in[c] \o <<j>> = Append(in[c], j)
    BY <1>1, <1>4, <2>1, ConcatPair
  <2>3. After(x, in[c] \o <<j, l>>) = Then(z, l)
    BY <1>7, <2>1, <2>2, AfterAppend
  <2>4. Then(z, l).hist = Loaded(z.hist, s)
    BY <1>6, <2>1, ThenFacts
  <2>5. Loaded(z.hist, s) = Loaded(Fresh(Limit), s)
    BY <1>8, LoadedFacts
  <2> QED BY <2>3, <2>4, <2>5 DEF l
<1>10. \/ reply = <<j>> /\ saved[r] = <<>>
       \/ reply = <<j, [type |-> "load", canvas |-> saved[r]]>>
       \/ reply = <<j, [type |-> "load", canvas |-> <<>>]>>
  BY ReplyShape DEF j
<1>11. CASE saved[r] = <<>>
  <2>1. phase[c] = "lobby" /\ in[c] = <<>>
    BY <1>11 DEF StrayedByJoin, TypeK
  <2>2. y = x
    BY <2>1, AfterEmpty DEF y
  <2>3. z.hist = Fresh(Limit)
    BY <1>1, <1>6, <2>1, <2>2
  <2>4. Arrival(r) = Fresh(Limit) /\ Loaded(Fresh(Limit), <<>>) = Fresh(Limit)
    BY <1>11 DEF Arrival, Loaded
  <2>5. CASE reply = <<j>> BY <1>7, <2>3, <2>4, <2>5 DEF x
  <2>6. CASE reply = <<j, [type |-> "load", canvas |-> <<>>]>>
    BY <1>3, <1>9, <2>4, <2>6 DEF x
  <2> QED BY <1>10, <1>11, <2>5, <2>6
<1>12. CASE saved[r] # <<>>
  <2>1. reply # <<j, [type |-> "load", canvas |-> <<>>]>>
    <3>1. SUFFICES ASSUME reply = <<j, [type |-> "load", canvas |-> <<>>]>>
                   PROVE  Last(reply).canvas = <<>>
      BY <1>12
    <3>2. Last(reply) = [type |-> "load", canvas |-> <<>>]
      BY <1>3, <1>4, <1>5, <3>1, TwoFacts DEF Last
    <3> QED BY <3>2
  <2>2. reply = <<j, [type |-> "load", canvas |-> saved[r]]>>
    BY <1>10, <1>12, <2>1
  <2> QED BY <1>3, <1>9, <2>2 DEF Arrival, x
<1> QED BY <1>11, <1>12

\* A join: the client comes to the common drawing, or strays.
LEMMA ServeJoinInStep ==
  ASSUME RoomInv, InStep, NEW c \in Clients, ServeJoin(c)
  PROVE  InStep'
<1> DEFINE r == Head(out[c]).room
           k == [phase |-> "canvas", hist |-> canon'[r]]
<1>1. TypeK /\ TypeK' /\ \A d \in Clients : InStepAt(d)
  <2>1. RoomInv'
    BY ServeJoinRoom
  <2>2. TypeK'
    BY <2>1, TypeParts, RoomParts, PTL DEF RoomInv
  <2> QED BY <2>2, RoomParts, InStepParts
<1>2. out[c] # <<>> /\ Head(out[c]).type = "join" /\ out' = [out EXCEPT ![c] = Tail(@)]
      /\ UNCHANGED <<hist, phase, saved>>
      /\ room' = [room EXCEPT ![c] = r]
      /\ canon' = IF Others(c, r) = {} THEN [canon EXCEPT ![r] = Arrival(r)] ELSE canon
  BY DEF ServeJoin, Serves, app
<1>3. PICK reply \in JoinReplies(r) :
        /\ Deliver({c}, reply)
        /\ stray' = IF StrayedByJoin(c, r) \/ (saved[r] # <<>> /\ Last(reply).canvas = <<>>)
                      THEN stray \union {c} ELSE stray \ {c}
  BY DEF ServeJoin
<1>4. /\ out'[c] = Tail(out[c]) /\ Head(out[c]) \in Messages
      /\ \A d \in Clients : d # c => out'[d] = out[d]
  BY <1>1, <1>2, TakenFacts DEF Messages
<1>5. r \in Rooms
  BY <1>2, <1>4, MessageShape
<1> HIDE DEF r
<1>6. reply \in Seq(Answers)
  BY <1>1, <1>5, ReplyShape
<1>7. \A d \in Clients : in'[d] = IF d = c /\ phase[d] # "gone" THEN in[d] \o reply ELSE in[d]
  <2>1. {c} \in SUBSET Clients
    OBVIOUS
  <2>2. \A d \in Clients :
          in'[d] = IF d \in {c} /\ phase[d] # "gone" THEN in[d] \o reply ELSE in[d]
    BY <1>1, <1>3, <1>6, <2>1, DeliverFacts
  <2> QED BY <2>2
<1>8. room'[c] = r /\ \A d \in Clients : d # c => room'[d] = room[d]
  BY <1>1, <1>2, <1>5 DEF TypeK
<1>9. /\ Others(c, r) = {} => canon'[r] = Arrival(r)
      /\ Others(c, r) # {} => canon'[r] = canon[r]
      /\ \A s \in Rooms : s # r => canon'[s] = canon[s]
  BY <1>1, <1>2, <1>5 DEF TypeK
<1>10. ASSUME NEW d \in Clients, d # c PROVE InStepAt(d)'
  <2>1. room[d] # NoRoom => canon'[room[d]] = canon[room[d]]
    <3>1. room[d] = r => Others(c, r) # {}
      BY <1>10 DEF Others
    <3>2. room[d] # NoRoom => room[d] \in Rooms
      BY <1>1 DEF TypeK
    <3> QED BY <1>9, <3>1, <3>2
  <2>2. d \notin stray' => d \notin stray
    BY <1>3, <1>10
  <2> QED BY <1>1, <1>2, <1>4, <1>7, <1>8, <1>10, <2>1, <2>2, StaysInStep
<1>11. InStepAt(c)'
  <2>1. SUFFICES ASSUME c \notin stray', phase[c] # "gone"
                 PROVE  After(Now(c)', in'[c]).hist = After(k, out'[c]).hist
    <3>1. (After(Now(c), in[c]).hist)' = After(Now(c)', in'[c]).hist
      OBVIOUS
    <3>2. (After(Common(room[c]), out[c]).hist)' = After(k, out'[c]).hist
      BY <1>8 DEF Common, k
    <3> QED BY <1>2, <3>1, <3>2 DEF InStepAt
  <2>2. ~ StrayedByJoin(c, r) /\ ~ (saved[r] # <<>> /\ Last(reply).canvas = <<>>)
    BY <1>3, <2>1
  <2>3. Now(c)' = Now(c) /\ in'[c] = in[c] \o reply
    BY <1>2, <1>7, <2>1 DEF Now
  <2>4. After(Now(c)', in'[c]).hist = Arrival(r)
    BY <1>1, <1>5, <2>1, <2>2, <2>3, JoinAnswered
  <2>5. ~ Has(out'[c], Edits) /\ out'[c] \in Seq(Requests)
    BY <1>1, <1>4, <2>2 DEF StrayedByJoin, TypeK
  <2>6. k \in State /\ k.hist = canon'[r]
    BY <1>1, <1>5 DEF State, TypeK
  <2>7. After(k, out'[c]) = k
    BY <2>5, <2>6, AfterNoEdits
  <2>8. canon'[r] = Arrival(r)
    BY <1>9, <2>2 DEF StrayedByJoin
  <2> QED BY <2>4, <2>6, <2>7, <2>8
<1> QED BY <1>10, <1>11, InStepPartsNext

\* An edit: the common drawing has it, who sent it has it no longer under way,
\* and who hears it had none under way.
LEMMA ServeEditInStep ==
  ASSUME RoomInv, InStep, NEW c \in Clients, ServeEdit(c)
  PROVE  InStep'
<1> DEFINE m == Head(out[c])
           r == room[c]
           k == [phase |-> "canvas", hist |-> canon'[r]]
<1>1. TypeK /\ \A d \in Clients : InStepAt(d)
  BY RoomParts, InStepParts
<1>2. /\ r \in Rooms /\ m \in Edit /\ m \in Answers /\ out[c] # <<>>
      /\ canon'[r] = Edited(canon[r], m)
      /\ \A s \in Rooms : s # r => canon'[s] = canon[s]
      /\ \A d \in Clients : in'[d] = IF d # c /\ room[d] = r /\ phase[d] # "gone"
                                       THEN Append(in[d], m) ELSE in[d]
      /\ stray \subseteq stray'
      /\ \A d \in Clients \ stray' : d # c /\ room[d] = r => ~ Has(out[d], Edits)
      /\ out' = [out EXCEPT ![c] = Tail(@)] /\ UNCHANGED <<hist, phase, room>>
  BY ServeEditFacts
<1>3. /\ out'[c] = Tail(out[c]) /\ m \in Messages
      /\ \A d \in Clients : d # c => out'[d] = out[d]
      /\ \A T : Has(out[c], T) <=> m.type \in T \/ Has(out'[c], T)
  BY <1>1, <1>2, TakenFacts DEF Messages
<1>4. m.type \in Edits /\ m.type # "join"
  BY <1>2 DEF Edit, Edits
<1>5. /\ Common(r) \in State /\ Common(r).hist = canon[r]
      /\ out[c] \in Seq(Messages)
  BY <1>1, <1>2, RoomsAssumption, StateFacts
<1> HIDE DEF m
<1>6. k = Then(Common(r), m)
  <2>1. Then(Common(r), m) = [phase |-> Common(r).phase, hist |-> Edited(Common(r).hist, m)]
    BY <1>3, <1>4, <1>5, ThenFacts
  <2> QED BY <1>2, <1>5, <2>1 DEF Common
<1>7. \A d \in Clients : room[d] = r => Common(room[d])' = k
  BY <1>2 DEF Common
<1> HIDE DEF r, k
<1>8. InStepAt(c)'
  <2>1. SUFFICES ASSUME c \notin stray', phase[c] # "gone", ~ Has(out'[c], {"join"})
                 PROVE  After(Now(c)', in'[c]).hist = After(k, out'[c]).hist
    <3>1. (After(Now(c), in[c]).hist)' = After(Now(c)', in'[c]).hist
      OBVIOUS
    <3>2. (After(Common(room[c]), out[c]).hist)' = After(k, out'[c]).hist
      BY <1>7 DEF r
    <3> QED BY <1>2, <3>1, <3>2 DEF InStepAt
  <2>2. ~ Has(out[c], {"join"}) /\ c \notin stray /\ room[c] # NoRoom
    BY <1>2, <1>3, <1>4, <2>1, RoomsAssumption DEF r
  <2>3. After(Now(c), in[c]).hist = After(Common(r), out[c]).hist
    BY <1>1, <2>1, <2>2 DEF InStepAt, r
  <2>4. Now(c)' = Now(c) /\ in'[c] = in[c]
    BY <1>2 DEF Now
  <2>5. After(Common(r), out[c]) = After(Then(Common(r), m), Tail(out[c]))
    BY <1>2, <1>5, AfterHead DEF m
  <2>6. After(Common(r), out[c]) = After(k, out'[c])
    BY <1>3, <1>6, <2>5
  <2> QED BY <2>3, <2>4, <2>6
<1>9. ASSUME NEW d \in Clients, d # c, room[d] = r, phase[d] # "gone" PROVE InStepAt(d)'
  <2>1. SUFFICES ASSUME d \notin stray', ~ Has(out[d], {"join"})
                 PROVE  After(Now(d)', in'[d]).hist = After(k, out[d]).hist
    <3>1. (After(Now(d), in[d]).hist)' = After(Now(d)', in'[d]).hist
      OBVIOUS
    <3>2. (After(Common(room[d]), out[d]).hist)' = After(k, out[d]).hist
      BY <1>2, <1>3, <1>9, <1>7
    <3> QED BY <1>2, <1>3, <1>9, <3>1, <3>2 DEF InStepAt
  <2>2. ~ Has(out[d], Edits) /\ d \notin stray /\ room[d] # NoRoom
    BY <1>2, <1>9, <2>1, RoomsAssumption
  <2> DEFINE y == After(Now(d), in[d])
  <2>3. /\ out[d] \in Seq(Requests) /\ in[d] \in Seq(Messages)
        /\ Now(d) \in State /\ y \in State
    BY <1>1, StateFacts, AfterType
  <2>4. y.hist = After(Common(r), out[d]).hist
    BY <1>1, <1>9, <2>1, <2>2 DEF InStepAt
  <2>5. After(Common(r), out[d]) = Common(r)
    BY <1>5, <2>2, <2>3, AfterNoEdits
  <2>6. k \in State /\ k.hist = Edited(canon[r], m)
    <3>1. Then(Common(r), m) \in State
      BY <1>3, <1>5, ThenFacts
    <3>2. Then(Common(r), m) = [phase |-> Common(r).phase, hist |-> Edited(Common(r).hist, m)]
      BY <1>3, <1>4, <1>5, ThenFacts
    <3> QED BY <1>5, <1>6, <3>1, <3>2
  <2>7. After(k, out[d]) = k
    BY <2>2, <2>3, <2>6, AfterNoEdits
  <2>8. Now(d)' = Now(d) /\ in'[d] = Append(in[d], m)
    BY <1>2, <1>9 DEF Now
  <2>9. After(Now(d)', in'[d]) = Then(y, m)
    BY <1>3, <2>3, <2>8, AfterAppend
  <2> HIDE DEF y
  <2>10. Then(y, m).hist = Edited(y.hist, m)
    BY <1>3, <1>4, <2>3, ThenFacts
  <2> QED BY <1>5, <2>4, <2>5, <2>6, <2>7, <2>9, <2>10
<1>10. ASSUME NEW d \in Clients, d # c, room[d] # r PROVE InStepAt(d)'
  <2>1. room[d] # NoRoom => canon'[room[d]] = canon[room[d]]
    BY <1>1, <1>2, <1>10 DEF TypeK
  <2> QED BY <1>1, <1>2, <1>3, <1>10, <2>1, StaysInStep
<1>11. ASSUME NEW d \in Clients, phase[d] = "gone" PROVE InStepAt(d)'
  BY <1>2, <1>11 DEF InStepAt
<1> QED BY <1>8, <1>9, <1>10, <1>11, InStepPartsNext

LEMMA ServeSaveInStep ==
  ASSUME RoomInv, InStep, NEW c \in Clients, ServeSave(c)
  PROVE  InStep'
<1>1. TypeK /\ \A d \in Clients : InStepAt(d)
  BY RoomParts, InStepParts
<1>2. /\ out[c] # <<>> /\ Head(out[c]).type = "save" /\ out' = [out EXCEPT ![c] = Tail(@)]
      /\ UNCHANGED <<hist, phase, in, room, canon, stray>>
  BY DEF ServeSave, Serves, app, ghosts
<1>3. /\ out'[c] = Tail(out[c]) /\ Head(out[c]) \in Messages
      /\ \A d \in Clients : d # c => out'[d] = out[d]
      /\ \A T : Has(out[c], T) <=> Head(out[c]).type \in T \/ Has(out'[c], T)
  BY <1>1, <1>2, TakenFacts DEF Messages
<1>4. ASSUME NEW d \in Clients, d # c PROVE InStepAt(d)'
  BY <1>1, <1>2, <1>3, <1>4, StaysInStep
<1>5. InStepAt(c)'
  <2>1. Now(c)' = Now(c) /\ Common(room[c])' = Common(room[c])
    BY <1>2 DEF Now, Common
  <2>2. room[c] # NoRoom => After(Common(room[c]), out[c]) = After(Common(room[c]), out'[c])
    <3>1. SUFFICES ASSUME room[c] # NoRoom
                   PROVE  After(Common(room[c]), out[c]) = After(Common(room[c]), out'[c])
      OBVIOUS
    <3>2. Common(room[c]) \in State /\ out[c] \in Seq(Messages)
      BY <1>1, <3>1, StateFacts
    <3>3. Then(Common(room[c]), Head(out[c])) = Common(room[c])
      BY <1>2, <1>3, <3>2, ThenFacts
    <3> QED BY <1>2, <1>3, <3>2, <3>3, AfterHead
  <2>3. Has(out[c], {"join"}) => Has(out'[c], {"join"})
    BY <1>2, <1>3
  <2> QED BY <1>1, <1>2, <2>1, <2>2, <2>3 DEF InStepAt
<1> QED BY <1>4, <1>5, InStepPartsNext

LEMMA ServeByeInStep ==
  ASSUME RoomInv, InStep, NEW c \in Clients, ServeBye(c)
  PROVE  InStep'
<1>1. TypeK /\ \A d \in Clients : InStepAt(d)
  BY RoomParts, InStepParts
<1>2. /\ room' = [room EXCEPT ![c] = NoRoom] /\ out' = [out EXCEPT ![c] = <<>>]
      /\ phase' = [phase EXCEPT ![c] = "lobby"] /\ stray' = stray \ {c}
      /\ UNCHANGED <<hist, in, canon>>
  BY DEF ServeBye
<1>3. InStepAt(c)'
  BY <1>1, <1>2 DEF InStepAt, TypeK
<1>4. ASSUME NEW d \in Clients, d # c PROVE InStepAt(d)'
  BY <1>1, <1>2, <1>4, StaysInStep DEF TypeK
<1> QED BY <1>3, <1>4, InStepPartsNext

LEMMA FrameInStep == InStep /\ UNCHANGED vars => InStep'
<1> SUFFICES ASSUME InStep, UNCHANGED vars PROVE InStep'
  OBVIOUS
<1>1. \A d \in Clients : InStepAt(d)'
  BY StaysInStep, InStepParts DEF vars, app, server, ghosts
<1> QED BY <1>1, InStepPartsNext

\* One step keeps the drawings of every room together.
LEMMA NextInStep == RoomInv /\ InStep /\ [Next]_vars => InStep'
<1> SUFFICES ASSUME RoomInv, InStep, Next PROVE InStep'
  BY FrameInStep
<1>1. PICK c \in Clients : User(c) \/ Hear(c) \/ Serve(c)
  BY DEF Next
<1>2. CASE User(c)
  BY <1>2, ClickJoinInStep, ClickEditInStep, ClickSaveInStep, UserRestInStep DEF User
<1>3. CASE Hear(c)
  BY <1>3, HearJoinedInStep, HearRestInStep DEF Hear
<1>4. CASE Serve(c)
  BY <1>4, ServeJoinInStep, ServeEditInStep, ServeSaveInStep, ServeByeInStep DEF Serve
<1> QED BY <1>1, <1>2, <1>3, <1>4

\* Every client that did not stray has, once it has heard what is under way to
\* it, the edits of its room in the order the server relayed them: for any
\* clients, rooms, limit and number of strokes.
THEOREM RoomStaysInStep == Spec => []InStep
<1>1. Init => RoomInv /\ InStep BY InitRoom, InitInStep
<1>2. (RoomInv /\ InStep) /\ [Next]_vars => (RoomInv /\ InStep)' BY NextRoom, NextInStep
<1> QED BY <1>1, <1>2, PTL DEF Spec

--------------------------------------------------------------------------------
(* ScreenShowsHistory: a repaint draws the history, a stroke extends both *)

ShowsAt(c) == surface[c] => Newest(painted[c], hist[c].cur) = Visible(hist[c])

\* After a repaint the surface has the visible strokes and no more.
LEMMA RepaintShows ==
  ASSUME NEW h \in Kept
  PROVE  Newest(Visible(h), h.cur) = Visible(h)
BY KeptFacts, VisibleFacts, NewestFacts

\* A stroke painted last and pushed last: the push drops at most the oldest
\* stroke, which is then no longer among the newest.
LEMMA StrokeShows ==
  ASSUME NEW h \in Kept, NEW p \in Canvas, NEW e \in Strokes, Newest(p, h.cur) = Visible(h)
  PROVE  Newest(Append(p, e), Push(h, e).cur) = Visible(Push(h, e))
<1> DEFINE n == h.cur
           v == Visible(h)
           a == Append(v, e)
           b == Append(p, e)
           s == Push(h, e).log
<1>1. n \in Nat /\ v \in Seq(Strokes) /\ Len(v) = n /\ p \in Seq(Strokes) /\ Len(p) \in Nat
  BY KeptFacts, VisibleFacts, NewestFacts DEF Canvas
<1>2. /\ Visible(Push(h, e)) = s /\ Push(h, e).cur = Len(s) /\ s \in {a, Tail(a)}
  BY PushFacts
<1>3. /\ a \in Seq(Strokes) /\ Len(a) = n + 1 /\ a[n + 1] = e /\ \A i \in 1..n : a[i] = v[i]
      /\ b \in Seq(Strokes) /\ Len(b) = Len(p) + 1 /\ b[Len(p) + 1] = e
      /\ \A i \in 1..Len(p) : b[i] = p[i]
  BY <1>1, AppendProperties
\* The newest n strokes painted are the strokes shown.
<1>4. Len(p) >= n /\ \A i \in 1..n : p[Len(p) - n + i] = v[i]
  <2>1. CASE Len(p) <= n
    <3>1. p = v
      BY <1>1, <2>1, NewestFacts
    <3> QED BY <1>1, <3>1
  <2>2. CASE Len(p) > n
    <3>1. \A i \in 1..n : Newest(p, n)[i] = p[Len(p) - n + i]
      BY <1>1, <2>2, NewestFacts
    <3>2. Newest(p, n) = v
      OBVIOUS
    <3> HIDE DEF n, v
    <3> QED BY <1>1, <2>2, <3>1, <3>2
  <2> HIDE DEF n, v
  <2> QED BY <1>1, <2>1, <2>2
<1> HIDE DEF n, v, a, b, s
\* So the newest n + 1, with the new one, are a.
<1>5. \A i \in 1..(n + 1) : b[Len(b) - (n + 1) + i] = a[i]
  <2> TAKE i \in 1..(n + 1)
  <2>1. CASE i = n + 1
    BY <1>1, <1>3, <2>1
  <2>2. CASE i \in 1..n
    <3>1. Len(b) - (n + 1) + i = Len(p) - n + i /\ Len(p) - n + i \in 1..Len(p)
      BY <1>1, <1>3, <1>4, <2>2
    <3> QED BY <1>3, <1>4, <2>2, <3>1
  <2> QED BY <1>1, <2>1, <2>2
<1>6. b \in Canvas /\ Len(b) >= n + 1 /\ Len(b) \in Nat
  BY <1>1, <1>3, <1>4 DEF Canvas
<1>7. CASE s = a
  <2>1. Newest(b, n + 1) \in Seq(Strokes) /\ Len(Newest(b, n + 1)) = n + 1
        /\ \A i \in 1..(n + 1) : Newest(b, n + 1)[i] = a[i]
    <3>1. n + 1 \in Nat
      BY <1>1
    <3>2. CASE Len(b) = n + 1
      <4>1. Newest(b, n + 1) = b
        BY <1>6, <3>1, <3>2, NewestFacts
      <4>2. \A i \in 1..(n + 1) : Len(b) - (n + 1) + i = i
        BY <1>1, <3>2
      <4> QED BY <1>3, <1>5, <3>2, <4>1, <4>2
    <3>3. CASE Len(b) > n + 1
      BY <1>5, <1>6, <3>1, <3>3, NewestFacts DEF Canvas
    <3> QED BY <1>1, <1>6, <3>2, <3>3
  <2>2. Newest(b, n + 1) = a
    BY <1>3, <2>1, SeqEqual
  <2> QED BY <1>2, <1>3, <1>7, <2>2 DEF b
<1>8. CASE s = Tail(a)
  <2>1. a # <<>>
    <3>1. Len(<<>>) = 0
      OBVIOUS
    <3> QED BY <1>1, <1>3, <3>1
  <2>2. Tail(a) \in Seq(Strokes) /\ Len(Tail(a)) = n /\ \A i \in 1..n : Tail(a)[i] = a[i + 1]
    BY <1>1, <1>3, <2>1, TailFacts
  <2>3. Newest(b, n) \in Seq(Strokes) /\ Len(Newest(b, n)) = n
        /\ \A i \in 1..n : Newest(b, n)[i] = b[Len(b) - n + i]
    <3>1. Len(b) > n
      BY <1>1, <1>6
    <3>2. Newest(b, n) \in Canvas /\ Len(Newest(b, n)) = n
      BY <1>1, <1>6, <3>1, NewestFacts
    <3>3. \A i \in 1..n : Newest(b, n)[i] = b[Len(b) - n + i]
      BY <1>1, <1>6, <3>1, NewestFacts
    <3> QED BY <3>2, <3>3 DEF Canvas
  <2>4. \A i \in 1..n : i + 1 \in 1..(n + 1) /\ Len(b) - n + i = Len(b) - (n + 1) + (i + 1)
    BY <1>1, <1>6
  <2>5. \A i \in 1..n : Newest(b, n)[i] = Tail(a)[i]
    BY <1>5, <2>2, <2>3, <2>4
  <2>6. Newest(b, n) = Tail(a)
    BY <2>2, <2>3, <2>5, SeqEqual
  <2> QED BY <1>2, <1>8, <2>2, <2>6 DEF b
<1> QED BY <1>2, <1>7, <1>8

LEMMA InitShows == Init => ScreenShowsHistory
BY DEF Init, ScreenShowsHistory

\* Whoever sets a history and repaints shows it.
LEMMA SetShows ==
  ASSUME RoomInv, ScreenShowsHistory, NEW c \in Clients, NEW h \in Kept, SetAndRepaint(c, h),
         surface' = surface
  PROVE  ScreenShowsHistory'
<1>1. TypeK
  BY RoomParts
<1>2. /\ hist'[c] = h /\ painted'[c] = IF surface[c] THEN Visible(h) ELSE painted[c]
      /\ \A d \in Clients : d # c => hist'[d] = hist[d] /\ painted'[d] = painted[d]
  BY <1>1, RepaintFacts
<1>3. ShowsAt(c)'
  BY <1>2, RepaintShows DEF ShowsAt
<1>4. ASSUME NEW d \in Clients, d # c PROVE ShowsAt(d)'
  BY <1>2, <1>4 DEF ShowsAt, ScreenShowsHistory
<1> QED BY <1>3, <1>4 DEF ShowsAt, ScreenShowsHistory

\* Whoever draws, here or elsewhere, paints and pushes.
LEMMA DrawShows ==
  ASSUME RoomInv, ScreenShowsHistory, NEW c \in Clients, NEW e \in Strokes,
         hist' = [hist EXCEPT ![c] = Push(hist[c], e)],
         surface[c] => painted' = [painted EXCEPT ![c] = Append(painted[c], e)],
         ~ surface[c] => painted' = painted,
         surface' = surface
  PROVE  ScreenShowsHistory'
<1>1. TypeK /\ hist[c] \in Kept /\ painted[c] \in Canvas
  BY RoomParts DEF TypeK
<1>2. /\ hist'[c] = Push(hist[c], e)
      /\ surface[c] => painted'[c] = Append(painted[c], e)
      /\ \A d \in Clients : d # c => hist'[d] = hist[d] /\ painted'[d] = painted[d]
  BY <1>1 DEF TypeK
<1>3. ShowsAt(c)'
  <2>1. SUFFICES ASSUME surface[c]
                 PROVE  Newest(painted'[c], hist'[c].cur) = Visible(hist'[c])
    BY DEF ShowsAt
  <2>2. Newest(painted[c], hist[c].cur) = Visible(hist[c])
    BY <2>1 DEF ScreenShowsHistory
  <2>3. Newest(Append(painted[c], e), Push(hist[c], e).cur) = Visible(Push(hist[c], e))
    BY <1>1, <2>2, StrokeShows
  <2> QED BY <1>2, <2>1, <2>3
<1>4. ASSUME NEW d \in Clients, d # c PROVE ShowsAt(d)'
  BY <1>2, <1>4 DEF ShowsAt, ScreenShowsHistory
<1> QED BY <1>3, <1>4 DEF ShowsAt, ScreenShowsHistory

LEMMA SameShows ==
  ASSUME ScreenShowsHistory, UNCHANGED <<hist, surface, painted>>
  PROVE  ScreenShowsHistory'
BY DEF ScreenShowsHistory

LEMMA UserShows ==
  ASSUME RoomInv, ScreenShowsHistory, NEW c \in Clients, User(c)
  PROVE  ScreenShowsHistory'
<1>1. TypeK /\ hist[c] \in Kept /\ file \in Canvas
  BY RoomParts DEF TypeK
<1>2. /\ Undo(hist[c]) \in Kept /\ Redo(hist[c]) \in Kept /\ Fresh(Limit) \in Kept
      /\ Load(hist[c], file, Limit) \in Kept
  BY <1>1, UndoKept, RedoKept, FreshKept, LoadedFacts
<1>3. CASE \/ \E r \in Rooms : ClickJoin(c, r)
           \/ BuildCanvas(c) \/ ClickSave(c) \/ SaveLocal(c)
  BY <1>3, SameShows DEF ClickJoin, BuildCanvas, ClickSave, SaveLocal, app
<1>4. CASE Configure(c)
  <2>1. /\ surface' = [surface EXCEPT ![c] = TRUE] /\ hist' = hist
        /\ painted' = [painted EXCEPT ![c] = Visible(hist[c])]
    BY <1>4 DEF Configure
  <2>2. ShowsAt(c)'
    BY <1>1, <2>1, RepaintShows DEF ShowsAt, TypeK
  <2>3. ASSUME NEW d \in Clients, d # c PROVE ShowsAt(d)'
    BY <1>1, <2>1, <2>3 DEF ShowsAt, TypeK, ScreenShowsHistory
  <2> QED BY <2>2, <2>3 DEF ShowsAt, ScreenShowsHistory
<1>5. CASE DrawBrush(c)
  <2>1. drawn' \in Strokes
    BY <1>1, <1>5, BoundsAssumption DEF DrawBrush, TypeK, Strokes
  <2> QED BY <1>5, <2>1, DrawShows DEF DrawBrush
<1>6. CASE ClickUndo(c) \/ ClickRedo(c) \/ ClickClear(c) \/ LoadLocal(c)
  BY <1>2, <1>6, SetShows DEF ClickUndo, ClickRedo, ClickClear, LoadLocal
<1>7. CASE Quit(c)
  <2>1. /\ surface' = [surface EXCEPT ![c] = FALSE] /\ hist' = [hist EXCEPT ![c] = Fresh(0)]
        /\ painted' = [painted EXCEPT ![c] = <<>>]
    BY <1>7 DEF Quit
  <2>2. ASSUME NEW d \in Clients PROVE ShowsAt(d)'
    BY <1>1, <2>1 DEF ShowsAt, TypeK, ScreenShowsHistory
  <2> QED BY <2>2 DEF ShowsAt, ScreenShowsHistory
<1> QED BY <1>3, <1>4, <1>5, <1>6, <1>7 DEF User

\* A client that hears it may draw has no surface yet, or keeps its history.
LEMMA HearShows ==
  ASSUME RoomInv, ScreenShowsHistory, NEW c \in Clients, Hear(c)
  PROVE  ScreenShowsHistory'
<1>1. TypeK /\ hist[c] \in Kept /\ PhaseAt(c)
  BY RoomParts DEF TypeK
<1>2. Undo(hist[c]) \in Kept /\ Redo(hist[c]) \in Kept /\ Fresh(Limit) \in Kept
  BY <1>1, UndoKept, RedoKept, FreshKept
<1>3. CASE HearJoined(c)
  <2>1. /\ hist' = [hist EXCEPT ![c] = IF phase[c] = "lobby" THEN Fresh(Limit) ELSE @]
        /\ UNCHANGED <<surface, painted>>
    BY <1>3 DEF HearJoined
  <2>2. phase[c] = "lobby" => ~ surface[c]
    BY <1>1 DEF PhaseAt
  <2>3. ASSUME NEW d \in Clients PROVE ShowsAt(d)'
    BY <1>1, <2>1, <2>2 DEF ShowsAt, TypeK, ScreenShowsHistory
  <2> QED BY <2>3 DEF ShowsAt, ScreenShowsHistory
<1>4. ASSUME in[c] # <<>>, Head(in[c]).type \in {"load", "draw"}
      PROVE  /\ Head(in[c]).type = "load" => Head(in[c]).canvas \in Canvas
             /\ Head(in[c]).type = "draw" => Head(in[c]) \in Edit
  <2>1. Head(in[c]) \in Messages
    BY <1>1, <1>4, TailFacts DEF TypeK, Messages
  <2> QED BY <2>1, MessageShape DEF Edits
<1>5. CASE HearLoad(c)
  <2>1. Loaded(hist[c], Head(in[c]).canvas) \in Kept
    BY <1>1, <1>4, <1>5, LoadedFacts DEF HearLoad, Arrives
  <2> QED BY <1>5, <2>1, SetShows DEF HearLoad
<1>6. CASE HearDraw(c)
  <2> DEFINE e == Head(in[c]).stroke
  <2>1. Head(in[c]).type = "draw" /\ Head(in[c]) \in Edit
    BY <1>4, <1>6 DEF HearDraw, Arrives
  <2>2. Edited(hist[c], Head(in[c])) = Push(hist[c], e) /\ e \in Strokes
    BY <1>1, <2>1, EditedFacts
  <2>3. /\ hist' = [hist EXCEPT ![c] = Push(hist[c], e)] /\ surface' = surface
        /\ painted' = [painted EXCEPT ![c] = IF surface[c] THEN Append(painted[c], e) ELSE painted[c]]
    BY <1>6, <2>2 DEF HearDraw
  <2>4. painted = [painted EXCEPT ![c] = painted[c]]
    BY <1>1 DEF TypeK
  <2> HIDE DEF e
  <2> QED BY <2>2, <2>3, <2>4, DrawShows
<1>7. CASE HearUndo(c) \/ HearRedo(c) \/ HearClear(c)
  <2>1. surface' = surface
    BY <1>7 DEF HearUndo, HearRedo, HearClear
  <2>2. \/ SetAndRepaint(c, Undo(hist[c])) \/ SetAndRepaint(c, Redo(hist[c]))
        \/ SetAndRepaint(c, Fresh(Limit)) \/ UNCHANGED <<hist, painted>>
    BY <1>7, Zenon DEF HearUndo, HearRedo, HearClear
  <2> QED BY <1>2, <2>1, <2>2, SetShows, SameShows
<1> QED BY <1>3, <1>5, <1>6, <1>7 DEF Hear

\* One step, whoever takes it.
LEMMA NextShows == RoomInv /\ ScreenShowsHistory /\ [Next]_vars => ScreenShowsHistory'
<1> SUFFICES ASSUME RoomInv, ScreenShowsHistory, [Next]_vars PROVE ScreenShowsHistory'
  OBVIOUS
<1>1. CASE UNCHANGED vars BY <1>1, SameShows DEF vars, app
<1>2. CASE Next
  <2>1. PICK c \in Clients : User(c) \/ Hear(c) \/ Serve(c)
    BY <1>2 DEF Next
  <2>2. Serve(c) => UNCHANGED <<hist, surface, painted>>
    BY DEF Serve, ServeJoin, ServeEdit, ServeSave, ServeBye, app
  <2> QED BY <2>1, <2>2, UserShows, HearShows, SameShows
<1> QED BY <1>1, <1>2

\* The newest strokes on every surface are the visible part of the history, for
\* any interleaving of strokes, repaints, loads and edits of others.
THEOREM ScreensShowHistories == Spec => []ScreenShowsHistory
<1>1. Init => RoomInv /\ ScreenShowsHistory BY InitRoom, InitShows
<1>2. RoomInv /\ ScreenShowsHistory /\ [Next]_vars => (RoomInv /\ ScreenShowsHistory)'
  BY NextRoom, NextShows
<1> QED BY <1>1, <1>2, PTL DEF Spec
===============================================================================

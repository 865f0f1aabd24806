---------------------------- MODULE UndoListProofs ----------------------------
(***************************************************************************)
(* ListInv is an invariant of UndoList for every set of cells, commands    *)
(* and limits: the list is sound memory, has the right shape and respects  *)
(* its limit at every step of every call.  One lemma per action; the parts *)
(* of ListInv an action disturbs are steps of its lemma.  Then: every step *)
(* of a call leaves less of it to do.                                      *)
(***************************************************************************)
EXTENDS UndoList, TLAPS

--------------------------------------------------------------------------------
(* Sequences and the set of cells in them *)

\* A sequence is empty exactly when its length is 0.
LEMMA EmptyFact == ASSUME NEW S, NEW s \in Seq(S) PROVE s = <<>> <=> Len(s) = 0
  OBVIOUS

\* Domain, length and first and last cell of a sequence.
LEMMA SeqFacts == ASSUME NEW S, NEW s \in Seq(S)
  PROVE /\ DOMAIN s = 1..Len(s) /\ Len(s) \in Nat
        /\ s = <<>> <=> Len(s) = 0
        /\ Cells(s) \subseteq S
        /\ s # <<>> => s[1] \in Cells(s) /\ s[Len(s)] \in Cells(s)
  BY DEF Cells

\* What Tail does to positions, to the set of cells and to distinctness.
LEMMA TailFacts ==
  ASSUME NEW S, NEW s \in Seq(S), s # <<>>
  PROVE  /\ Tail(s) \in Seq(S) /\ Len(Tail(s)) = Len(s) - 1
         /\ DOMAIN Tail(s) = 1..Len(s)-1
         /\ Tail(s) = <<>> <=> Len(s) = 1
         /\ Len(s) # 1 => Tail(s)[1] = s[2]
         /\ \A i \in 1..Len(s) - 1 : Tail(s)[i] = s[i + 1]
         /\ Cells(s) = {s[1]} \union Cells(Tail(s))
         /\ Distinct(s) => s[1] \notin Cells(Tail(s)) /\ Distinct(Tail(s))
<1> DEFINE t == Tail(s)
<1>1. /\ t \in Seq(S) /\ Len(t) = Len(s) - 1 /\ DOMAIN t = 1..Len(s)-1
      /\ \A i \in 1..Len(s) - 1 : t[i] = s[i + 1]
  OBVIOUS
<1>2. DOMAIN s = 1..Len(s) /\ Len(s) \in Nat \ {0}
  OBVIOUS
<1> HIDE DEF t
<1>6. /\ t = <<>> <=> Len(s) = 1
      /\ Len(s) # 1 => t[1] = s[2]
  <2>1. t = <<>> <=> Len(t) = 0 BY <1>1, EmptyFact
  <2>2. t = <<>> <=> Len(s) = 1 BY <2>1, <1>1, <1>2
  <2>3. ASSUME Len(s) # 1 PROVE t[1] = s[2] 
    <3>1. 1 \in 1..Len(s)-1 BY <1>2, <2>3
    <3> QED BY <3>1, <1>1
  <2> QED BY <2>2, <2>3
<1>3. ASSUME NEW x \in Cells(s) PROVE x \in {s[1]} \union Cells(t)
  <2>1. PICK i \in 1..Len(s) : x = s[i] BY <1>2, <1>3 DEF Cells
  <2>2. CASE i = 1 BY <2>1, <2>2
  <2>3. CASE i # 1
    <3>1. i - 1 \in 1..Len(s)-1 /\ t[i - 1] = s[i] BY <1>1, <1>2, <2>3
    <3> QED BY <3>1, <2>1, <1>1 DEF Cells
  <2> QED BY <2>2, <2>3
<1>4. ASSUME NEW x \in {s[1]} \union Cells(t) PROVE x \in Cells(s)
  <2>1. CASE x = s[1] BY <1>2, <2>1 DEF Cells
  <2>2. CASE x \in Cells(t)
    <3>1. PICK i \in 1..Len(s)-1 : x = t[i] BY <1>1, <2>2 DEF Cells
    <3>2. x = s[i + 1] /\ i + 1 \in DOMAIN s BY <3>1, <1>1, <1>2
    <3> QED BY <3>2 DEF Cells
  <2> QED BY <1>4, <2>1, <2>2
<1>5. Distinct(s) => s[1] \notin Cells(t) /\ Distinct(t)
  BY <1>1, <1>2 DEF Distinct, Cells
<1> QED BY <1>1, <1>3, <1>4, <1>5, <1>6 DEF t

\* What Append does to positions, to the set of cells and to distinctness.
LEMMA AppendFacts ==
  ASSUME NEW S, NEW s \in Seq(S), NEW e \in S
  PROVE  /\ Append(s, e) \in Seq(S) /\ Len(Append(s, e)) = Len(s) + 1
         /\ DOMAIN Append(s, e) = 1..Len(s)+1
         /\ Append(s, e) # <<>>
         /\ Append(s, e)[Len(s) + 1] = e
         /\ \A i \in 1..Len(s) : Append(s, e)[i] = s[i]
         /\ Cells(Append(s, e)) = Cells(s) \union {e}
         /\ Distinct(s) /\ e \notin Cells(s) => Distinct(Append(s, e))
<1> DEFINE t == Append(s, e)
<1>1. /\ t \in Seq(S) /\ Len(t) = Len(s) + 1 /\ DOMAIN t = 1..Len(s)+1 /\ t # <<>>
      /\ t[Len(s) + 1] = e /\ \A i \in 1..Len(s) : t[i] = s[i]
  OBVIOUS
<1>2. DOMAIN s = 1..Len(s) /\ Len(s) \in Nat
  OBVIOUS
<1> HIDE DEF t
<1>3. ASSUME NEW x \in Cells(t) PROVE x \in Cells(s) \union {e}
  <2>1. PICK i \in 1..Len(s)+1 : x = t[i] BY <1>1, <1>3 DEF Cells
  <2>2. i = Len(s) + 1 \/ i \in 1..Len(s) BY <1>2
  <2> QED BY <1>1, <1>2, <2>1, <2>2 DEF Cells
<1>4. Cells(s) \union {e} \subseteq Cells(t)
  BY <1>1, <1>2 DEF Cells
<1>5. Distinct(s) /\ e \notin Cells(s) => Distinct(t)
  BY <1>1, <1>2 DEF Distinct, Cells
<1> QED BY <1>1, <1>3, <1>4, <1>5 DEF t

\* A sequence cut after position k: both halves, their cells, distinctness.
LEMMA SplitFacts ==
  ASSUME NEW S, NEW s \in Seq(S), NEW k \in 0..Len(s)
  PROVE  LET l == SubSeq(s, 1, k)
             r == SubSeq(s, k + 1, Len(s))
         IN  /\ l \in Seq(S) /\ Len(l) = k /\ DOMAIN l = 1..k
             /\ \A i \in 1..k : l[i] = s[i]
             /\ r \in Seq(S) /\ Len(r) = Len(s) - k /\ DOMAIN r = 1..Len(s) - k
             /\ \A i \in 1..Len(s) - k : r[i] = s[k + i]
             /\ Cells(s) = Cells(l) \union Cells(r)
             /\ Distinct(s) => /\ Distinct(l) /\ Distinct(r)
                               /\ Cells(l) \intersect Cells(r) = {}
<1> DEFINE l == SubSeq(s, 1, k)
           r == SubSeq(s, k + 1, Len(s))
<1>1. /\ l \in Seq(S) /\ Len(l) = k /\ DOMAIN l = 1..k
      /\ \A i \in 1..k : l[i] = s[i]
  OBVIOUS
<1>2. /\ r \in Seq(S) /\ Len(r) = Len(s) - k /\ DOMAIN r = 1..Len(s) - k
      /\ \A i \in 1..Len(s) - k : r[i] = s[k + i]
  OBVIOUS
<1>3. DOMAIN s = 1..Len(s) /\ Len(s) \in Nat
  OBVIOUS
<1> HIDE DEF l, r
<1>4. ASSUME NEW x \in Cells(s) PROVE x \in Cells(l) \union Cells(r)
  <2>1. PICK i \in 1..Len(s) : x = s[i] BY <1>3, <1>4 DEF Cells
  <2>2. CASE i <= k BY <1>1, <1>3, <2>1, <2>2 DEF Cells
  <2>3. CASE i > k
    <3>1. i - k \in DOMAIN r /\ r[i - k] = s[i] BY <1>2, <1>3, <2>3
    <3> QED BY <3>1, <2>1 DEF Cells
  <2> QED BY <1>3, <2>2, <2>3
<1>5. \A i \in DOMAIN l : i \in DOMAIN s /\ l[i] = s[i]
  BY <1>1, <1>3
<1>6. \A i \in DOMAIN r : k + i \in DOMAIN s /\ r[i] = s[k + i]
  BY <1>2, <1>3
<1>7. Cells(l) \subseteq Cells(s) /\ Cells(r) \subseteq Cells(s)
  BY <1>5, <1>6 DEF Cells
<1>8. ASSUME Distinct(s) PROVE Distinct(l) /\ Distinct(r)
  BY <1>1, <1>2, <1>5, <1>6, <1>8 DEF Distinct
<1>9. ASSUME Distinct(s) PROVE Cells(l) \intersect Cells(r) = {}
  <2> SUFFICES ASSUME NEW x \in Cells(l), x \in Cells(r) PROVE FALSE OBVIOUS
  <2>1. PICK i \in DOMAIN l : x = l[i] BY DEF Cells
  <2>2. PICK j \in DOMAIN r : x = r[j] BY DEF Cells
  <2>3. i # k + j BY <1>1, <1>2, <1>3
  <2>4. s[i] # s[k + j] BY <1>5, <1>6, <1>9, <2>3 DEF Distinct
  <2> QED BY <1>5, <1>6, <2>1, <2>2, <2>4
<1> QED BY <1>1, <1>2, <1>4, <1>7, <1>8, <1>9 DEF l, r

--------------------------------------------------------------------------------
(* Where current is, and what the links are when no loop is freeing *)

\* Pos is the one position of current in the list, 0 when it is NULL.
LEMMA PosFacts ==
  ASSUME ListInv, pc # "reset"
  PROVE  /\ Pos \in 0..Len(order)
         /\ current = Null <=> Pos = 0
         /\ current # Null => Pos \in DOMAIN order /\ order[Pos] = current
         /\ \A i \in DOMAIN order : order[i] = current => Pos = i
<1>1. /\ order \in Seq(Nodes) /\ DOMAIN order = 1..Len(order) /\ Len(order) \in Nat
      /\ \A i \in DOMAIN order : order[i] \in Nodes
  BY DEF ListInv, TypeOK
<1>2. CASE current = Null
  BY <1>1, <1>2, NullAssumption DEF Pos
<1>3. CASE current # Null
  <2>1. \E i \in DOMAIN order : order[i] = current
    BY <1>3 DEF ListInv, LoopSound, Cells
  <2>2. Pos = CHOOSE i \in DOMAIN order : order[i] = current BY <1>3 DEF Pos
  <2>3. Pos \in DOMAIN order /\ order[Pos] = current BY <2>1, <2>2
  <2>4. \A i \in DOMAIN order : order[i] = current => Pos = i
    BY <2>3 DEF ListInv, HeapSound, Distinct
  <2> QED BY <1>1, <1>3, <2>3, <2>4
<1> QED BY <1>2, <1>3

\* Between the freeing loops next and prev are those of the list.
LEMMA LinkFacts ==
  ASSUME ListInv, pc \notin {"reset", "cut"}
  PROVE  /\ \A i \in DOMAIN order :
              /\ next[order[i]] = IF i = Len(order) THEN Null ELSE order[i + 1]
              /\ prev[order[i]] = IF i = 1 THEN Null ELSE order[i - 1]
         /\ live = Cells(order)
         /\ order = <<>> => head = Null /\ tail = Null /\ current = Null
         /\ order # <<>> => head = order[1] /\ tail = order[Len(order)]
         /\ doomed = <<>>
<1>1. /\ order \in Seq(Nodes) /\ DOMAIN order = 1..Len(order) /\ Len(order) \in Nat
  BY DEF ListInv, TypeOK
<1>2. doomed = <<>> BY DEF ListInv, LoopSound
<1>3. live = Cells(order) BY <1>2 DEF ListInv, HeapSound, Cells
<1>4. \A i \in DOMAIN order :
              /\ next[order[i]] = IF i = Len(order) THEN Null ELSE order[i + 1]
              /\ prev[order[i]] = IF i = 1 THEN Null ELSE order[i - 1]
  BY <1>1 DEF ListInv, ListShape
<1> QED BY <1>2, <1>3, <1>4 DEF ListInv, ListShape

\* current is tail exactly when nothing is undone.
LEMMA TailPos ==
  ASSUME ListInv, pc \notin {"reset", "cut"}
  PROVE  current = tail <=> Pos = Len(order)
<1>1. /\ order \in Seq(Nodes) /\ DOMAIN order = 1..Len(order) /\ Len(order) \in Nat
      /\ \A i \in DOMAIN order : order[i] \in Nodes
  BY DEF ListInv, TypeOK
<1>2. CASE order = <<>>
  BY <1>2, <1>1, PosFacts, LinkFacts
<1>3. CASE order # <<>>
  <2>1. Len(order) \in DOMAIN order BY <1>1, <1>3, EmptyFact
  <2>2. tail = order[Len(order)] BY <1>3, LinkFacts
  <2>3. current = tail => Pos = Len(order) BY <2>1, <2>2, PosFacts
  <2>4. Pos = Len(order) => current = tail
    <3> SUFFICES ASSUME Pos = Len(order) PROVE current = tail OBVIOUS
    <3>1. Pos # 0 BY <2>1, <1>1
    <3>2. current # Null BY <3>1, PosFacts
    <3> QED BY <3>2, <2>2, PosFacts
  <2> QED BY <2>3, <2>4
<1> QED BY <1>2, <1>3

--------------------------------------------------------------------------------
(* One lemma per action *)

\* g_history starts as a well-formed empty list.
LEMMA InitListInv == Init => ListInv
<1> SUFFICES ASSUME Init PROVE ListInv OBVIOUS
<1>1. {head, tail, current, node} \subseteq Pointers BY DEF Init, Pointers
<1>2. /\ count \in Int /\ maxSteps \in Nat /\ steps \in Nat /\ item \in Nat
      /\ live \subseteq Nodes /\ pc = "ready" /\ kind = "none"
      /\ arg \in Entries \union {NoArg} /\ lost \subseteq Nat
  BY DEF Init
<1>8. loading \in BOOLEAN BY DEF Init
<1>3. /\ next \in [Nodes -> Pointers \union {Junk}]
      /\ prev \in [Nodes -> Pointers \union {Junk}]
      /\ data \in [Nodes -> Entries \union {Junk}]
  BY DEF Init
<1>4. /\ json \in Seq(Cmds \union {Malformed}) /\ out \in Seq(Cmds)
      /\ order \in Seq(Nodes) /\ doomed \in Seq(Nodes)
  BY DEF Init
<1>5. TypeOK BY <1>1, <1>2, <1>3, <1>4, <1>8 DEF TypeOK
<1>6. HeapSound BY DEF Init, HeapSound, Cells, Distinct
<1>7. ListShape /\ CountSound /\ LoopSound
  BY DEF Init, ListShape, CountSound, LoopSound, Cells
<1> QED BY <1>5, <1>6, <1>7 DEF ListInv

\* Freeing one cell (undo_redo.c 30, 43) keeps the invariant.
LEMMA FreeNodeInv == ListInv /\ FreeNode => ListInv'
<1> SUFFICES ASSUME ListInv, FreeNode PROVE ListInv' OBVIOUS
<1> USE NullAssumption DEF ListInv, FreeNode, load, result
<1>1. /\ doomed \in Seq(Nodes) /\ doomed # <<>> /\ node = doomed[1]
      /\ doomed' = Tail(doomed) /\ order' = order /\ order \in Seq(Nodes)
  BY DEF TypeOK, LoopSound
<1>2. /\ Tail(doomed) \in Seq(Nodes) /\ Len(Tail(doomed)) = Len(doomed) - 1
      /\ Tail(doomed) = <<>> <=> Len(doomed) = 1
      /\ Len(doomed) # 1 => Tail(doomed)[1] = doomed[2]
      /\ DOMAIN Tail(doomed) = 1..Len(doomed)-1 /\ DOMAIN doomed = 1..Len(doomed)
      /\ Len(doomed) \in Nat \ {0}
      /\ \A i \in 1..Len(doomed) - 1 : Tail(doomed)[i] = doomed[i + 1]
      /\ Cells(doomed) = {node} \union Cells(Tail(doomed))
      /\ node \notin Cells(Tail(doomed)) /\ Distinct(Tail(doomed))
  BY <1>1, TailFacts, SeqFacts DEF HeapSound
<1>3. /\ Cells(order) \subseteq Nodes /\ node \in Nodes /\ node \notin Cells(order)
      /\ \A i \in DOMAIN order : order[i] \in Cells(order)
  BY <1>1, <1>2 DEF HeapSound, TypeOK, Pointers, Cells
<1>4. node' = IF Tail(doomed) = <<>> THEN Null ELSE Tail(doomed)[1]
  <2>1. next[node] = IF Len(doomed) = 1 THEN Null ELSE doomed[2]
    <3>1. 1 \in DOMAIN doomed BY <1>2
    <3>2. \A i \in DOMAIN doomed : next[doomed[i]] = IF i = Len(doomed) THEN Null ELSE doomed[i + 1]
      BY DEF LoopSound
    <3>3. next[doomed[1]] = IF 1 = Len(doomed) THEN Null ELSE doomed[1 + 1] BY <3>1, <3>2
    <3> QED BY <3>3, <1>1, <1>2
  <2> QED BY <1>1, <1>2, <2>1
<1>5. TypeOK' BY <1>1, <1>2, <1>3, <1>4 DEF TypeOK, Pointers
<1>6. HeapSound'
  <2>1. live' = Cells(order') \union Cells(doomed') BY <1>1, <1>2, <1>3 DEF HeapSound
  <2>2. Cells(order') \intersect Cells(doomed') = {} BY <1>1, <1>2 DEF HeapSound
  <2>3. Distinct(order') /\ Distinct(doomed') BY <1>1, <1>2 DEF HeapSound
  <2>4. Tail(doomed) # <<>> => Tail(doomed)[1] \in Cells(Tail(doomed)) BY <1>2, SeqFacts
  <2>5. node' \in live' \union {Null} BY <2>1, <2>4, <1>1, <1>4
  <2> QED BY <2>1, <2>2, <2>3, <2>5 DEF HeapSound
<1>7. ListShape'
  <2>1. \A i \in DOMAIN order : next'[order[i]] = next[order[i]] /\ prev'[order[i]] = prev[order[i]]
    BY <1>3 DEF TypeOK
  <2> QED BY <1>1, <2>1 DEF ListShape
<1>8. CountSound' BY <1>1, <1>2 DEF CountSound, TypeOK
<1>9. LoopSound'
  <2>1. \A i \in DOMAIN doomed' : next'[doomed'[i]] = IF i = Len(doomed') THEN Null ELSE doomed'[i + 1]
    <3>1. \A i \in DOMAIN doomed' : doomed'[i] \in Cells(doomed') /\ doomed'[i] \in Nodes
       BY <1>1, <1>2 DEF Cells
    <3>2. \A i \in DOMAIN doomed' : next'[doomed'[i]] = next[doomed'[i]]
       BY <3>1, <1>1, <1>2 DEF TypeOK
    <3>3. \A i \in DOMAIN doomed : next[doomed[i]] = IF i = Len(doomed) THEN Null ELSE doomed[i + 1]
       BY DEF LoopSound
    <3> QED BY <3>2, <3>3, <1>1, <1>2
  <2>2. \A n \in live' : data'[n] \in Entries BY DEF LoopSound, TypeOK, HeapSound
  <2> QED BY <1>1, <1>4, <2>1, <2>2 DEF LoopSound
<1> QED BY <1>5, <1>6, <1>7, <1>8, <1>9

\* The arguments undo_redo_deserialize keeps during its loop.
InputOK == /\ json \in Seq(Cmds \union {Malformed}) /\ item \in Nat
           /\ lost \subseteq Nat
           /\ loading \in BOOLEAN /\ (loading => item > 0)

\* Entering undo_redo_init hands the whole list to the freeing loop.
LEMMA EnterResetInv ==
  ASSUME ListInv, pc = "ready", NEW m \in Nat, EnterReset(m),
         UNCHANGED <<hvars, cells, arg>>,
         InputOK'
  PROVE  ListInv'
<1> USE DEF EnterReset, NoResult, hvars, cells
<1>1. /\ order \in Seq(Nodes) /\ DOMAIN order = 1..Len(order) /\ Len(order) \in Nat
      /\ order' = <<>> /\ doomed' = order /\ node' = head /\ pc' = "reset"
      /\ \A i \in DOMAIN order : order[i] \in Nodes
  BY DEF ListInv, TypeOK
<1>2. live = Cells(order) /\ head = IF order = <<>> THEN Null ELSE order[1]
  BY LinkFacts
<1>3. order # <<>> => order[1] \in Cells(order) BY <1>1, EmptyFact DEF Cells
<1>4. Cells(<<>>) = {} /\ Distinct(<<>>) BY DEF Cells, Distinct
<1>5. TypeOK'
  <2>1. order' \in Seq(Nodes) /\ out' \in Seq(Cmds) OBVIOUS
  <2> QED BY <2>1, <1>1 DEF ListInv, TypeOK, Pointers, InputOK
<1>6. HeapSound' BY <1>1, <1>2, <1>3, <1>4 DEF ListInv, HeapSound
<1>7. ListShape' BY <1>1 DEF ListShape
<1>8. CountSound' BY <1>1 DEF CountSound
<1>9. LoopSound'
  <2>1. \A i \in DOMAIN doomed' :
            next'[doomed'[i]] = IF i = Len(doomed') THEN Null ELSE doomed'[i + 1]
    BY <1>1, LinkFacts
  <2>2. \A n \in live' : data'[n] \in Entries BY DEF ListInv, LoopSound
  <2>3. loading' => item' > 0 BY DEF InputOK
  <2> QED BY <1>1, <1>2, <2>1, <2>2, <2>3 DEF LoopSound
<1> QED BY <1>5, <1>6, <1>7, <1>8, <1>9 DEF ListInv

\* undo_redo_init called by the GUI.
LEMMA ResetCallInv == ASSUME ListInv, NEW m \in Limits, ResetCall(m) PROVE ListInv'
<1>1. json' \in Seq(Cmds \union {Malformed}) BY DEF ResetCall, NoInput
<1>2. loading' = FALSE /\ item' \in Nat /\ lost' \subseteq Nat BY DEF ResetCall, NoInput
<1>3. m \in Nat BY LimitsAssumption
<1>4. InputOK' BY <1>1, <1>2 DEF InputOK
<1> QED BY <1>3, <1>4, EnterResetInv DEF ResetCall

\* undo_redo_deserialize, up to its call of undo_redo_init.
LEMMA LoadCallInv == ASSUME ListInv, NEW s \in Inputs, LoadCall(s) PROVE ListInv'
<1>1. s \in Seq(Cmds \union {Malformed})
  <2>1. PICK n \in 0..MaxItems : s \in [1..n -> Cmds \union {Malformed}] BY DEF Inputs
  <2> QED BY <2>1, MaxItemsAssumption
<1>2. LoadLimit(maxSteps, DefaultSteps) \in Nat
  BY LimitsAssumption DEF LoadLimit, ListInv, TypeOK
<1>3. InputOK' BY <1>1 DEF LoadCall, InputOK
<1> QED BY <1>2, <1>3, EnterResetInv DEF LoadCall

\* The memset of undo_redo_init, when everything is freed.
LEMMA ResetDoneInv == ListInv /\ ResetDone => ListInv'
<1> SUFFICES ASSUME ListInv, ResetDone PROVE ListInv' OBVIOUS
<1> USE NullAssumption DEF ResetDone, cells, load, result, ghost
<1>1. order = <<>> /\ order' = <<>> /\ doomed \in Seq(Nodes)
      /\ doomed' = doomed /\ pc' \in {"load", "ready"} /\ DOMAIN doomed = 1..Len(doomed)
      /\ node = Null /\ node' = node /\ pc = "reset"
  BY DEF ListInv, LoopSound, TypeOK
<1>2. doomed = <<>>
  <2> SUFFICES ASSUME doomed # <<>> PROVE FALSE OBVIOUS
  <2>1. doomed[1] = Null BY <1>1 DEF ListInv, LoopSound
  <2>2. doomed[1] \in Nodes BY <1>1, EmptyFact
  <2> QED BY <2>1, <2>2
<1>4. Cells(<<>>) = {} /\ Distinct(<<>>) BY DEF Cells, Distinct
<1>5. TypeOK'
  <2>1. order' \in Seq(Nodes) BY <1>1
  <2> QED BY <2>1, <1>1 DEF ListInv, TypeOK, Pointers
<1>3. live = {} BY <1>1, <1>2, <1>4 DEF ListInv, HeapSound
<1>6. HeapSound' BY <1>1, <1>2, <1>3, <1>4 DEF HeapSound
<1>7. ListShape' BY <1>1 DEF ListShape
<1>8. CountSound' 
  <2>1. steps \in Nat BY DEF ListInv, TypeOK
  <2>2. Len(order') = 0 /\ Len(doomed') = 0 BY <1>1, <1>2
  <2> QED BY <1>1, <2>1, <2>2 DEF CountSound
<1>9. LoopSound'
  <2>1. (loading => item > 0) /\ loading' = loading /\ item' = item
    BY DEF ListInv, LoopSound
  <2>2. current' \in Cells(order') \union {Null} BY DEF ResetDone
  <2>3. pc' = "load" => loading' BY <2>1 DEF ListInv, TypeOK
  <2> QED BY <1>1, <1>2, <1>3, <2>1, <2>2, <2>3 DEF LoopSound
<1> QED BY <1>5, <1>6, <1>7, <1>8, <1>9 DEF ListInv

\* Entering push changes neither list nor heap.
HeapKept == UNCHANGED <<hvars, cells, steps>>
Calling == pc \in {"ready", "load"}

\* Entering undo_redo_push hands the undone strokes to the freeing loop.
LEMMA EnterPushInv ==
  ASSUME ListInv, Calling, NEW e \in Entries, EnterPush(e), HeapKept, InputOK'
  PROVE  ListInv'
<1>0. /\ UNCHANGED <<head, tail, current, count, maxSteps, next, prev, data, live, steps>>
      /\ pc \notin {"reset", "cut"}
  BY DEF HeapKept, hvars, cells, Calling
<1>1. /\ order \in Seq(Nodes) /\ DOMAIN order = 1..Len(order) /\ Len(order) \in Nat
      /\ \A i \in DOMAIN order : order[i] \in Nodes
  BY DEF ListInv, TypeOK
<1>2. out' \in Seq(Cmds) /\ out' = <<>> /\ kind' = "none" BY DEF EnterPush, NoResult
<1>3. CASE current = tail
  <2>1. pc' = "append" /\ order' = order /\ doomed' = doomed /\ node' = node /\ arg' = e
    BY <1>3 DEF EnterPush, ghost
  <2>2. TypeOK' BY <1>0, <2>1, <1>2 DEF ListInv, TypeOK, InputOK
  <2>3. HeapSound' BY <1>0, <2>1 DEF ListInv, HeapSound
  <2>4. ListShape' BY <1>0, <2>1 DEF ListInv, ListShape
  <2>5. CountSound' BY <1>0, <2>1 DEF ListInv, CountSound, Calling
  <2>6. LoopSound' BY <1>0, <2>1, <1>3 DEF ListInv, LoopSound, InputOK, Calling
  <2> QED BY <2>2, <2>3, <2>4, <2>5, <2>6 DEF ListInv
<1>4. CASE current # tail
  <2>0. PICK k \in 0..Len(order) : k = Pos BY <1>0, PosFacts
  <2>a. PICK l, r : l = order' /\ r = doomed' OBVIOUS
  <2>1. /\ pc' = "cut" /\ arg' = e
        /\ order' = l /\ doomed' = r
        /\ node' = IF current # Null THEN next[current] ELSE head
    BY <1>4, <2>a DEF EnterPush, ghost
  <2>b. l = SubSeq(order, 1, k) /\ r = SubSeq(order, k + 1, Len(order))
    BY <1>4, <2>0, <2>a DEF EnterPush
  <2>c. order \in Seq(Nodes) /\ k \in 0..Len(order) BY <1>1, <2>0
  <2>d. Len(order) \in Nat /\ k \in Nat /\ k < Len(order)
    <3>1. k # Len(order) BY <1>0, <1>4, <2>0, TailPos
    <3>2. Len(order) \in Nat /\ k \in 0..Len(order) BY <1>1, <2>0
    <3> QED BY <3>1, <3>2
  <2>2. k = 0 => current = Null BY <1>0, <2>0, PosFacts
  <2>g. k # 0 => current = order[k] /\ current # Null BY <1>0, <2>0, PosFacts
  <2>h. \A i \in 1..Len(order) :
           next[order[i]] = IF i = Len(order) THEN Null ELSE order[i + 1]
    BY <1>0, <1>1, LinkFacts
  <2>i. \A i \in 1..Len(order) :
           prev[order[i]] = IF i = 1 THEN Null ELSE order[i - 1]
    BY <1>0, <1>1, LinkFacts
  <2>j. head = order[1]
    <3>1. order # <<>> BY <2>c, <2>d, EmptyFact
    <3> QED BY <3>1, <1>0, LinkFacts
  <2>3. /\ l \in Seq(Nodes) /\ Len(l) = k /\ DOMAIN l = 1..k
        /\ \A i \in 1..k : l[i] = order[i]
    BY <2>b, <2>c, SplitFacts
  <2>e. /\ r \in Seq(Nodes) /\ Len(r) = Len(order) - k /\ DOMAIN r = 1..Len(order) - k
        /\ \A i \in 1..Len(order) - k : r[i] = order[k + i]
    BY <2>b, <2>c, SplitFacts
  <2>f. Cells(order) = Cells(l) \union Cells(r) BY <2>b, <2>c, SplitFacts
  <2>4. /\ Distinct(l) /\ Distinct(r) /\ Cells(l) \intersect Cells(r) = {}
    <3>1. Distinct(order) BY DEF ListInv, HeapSound
    <3> QED BY <2>b, <2>c, <3>1, SplitFacts
  <2>5. r # <<>> /\ r[1] = order[k + 1] /\ r[1] \in Cells(r) /\ r[1] \in Nodes
    <3>2. Len(r) # 0 /\ 1 \in 1..Len(order) - k BY <2>d, <2>e
    <3>3. r # <<>> BY <2>e, <3>2, EmptyFact
    <3> QED BY <2>e, <3>2, <3>3 DEF Cells
  <2>6. node' = r[1]
    <3>1. CASE k = 0 BY <2>1, <2>2, <2>5, <2>j, <3>1
    <3>2. CASE k # 0
      <4>1. next[order[k]] = order[k + 1] BY <3>2, <2>d, <2>h
      <4> QED BY <4>1, <3>2, <2>1, <2>5, <2>g
    <3> QED BY <3>1, <3>2
  <2>7. live = Cells(order) BY <1>0, LinkFacts
  <2>8. TypeOK'
    <3>1. node' \in Pointers BY <2>5, <2>6 DEF Pointers
    <3>2. order' \in Seq(Nodes) /\ doomed' \in Seq(Nodes) BY <2>1, <2>3, <2>e
    <3>3. arg' \in Entries \union {NoArg} BY <2>1
    <3>4. TypeOK BY DEF ListInv
    <3> QED BY <3>1, <3>2, <3>3, <3>4, <1>0, <1>2, <2>1 DEF TypeOK, InputOK
  <2>9. HeapSound'
    <3>1. live' = Cells(l) \union Cells(r) BY <1>0, <2>7, <2>f
    <3>2. node' \in live' BY <3>1, <2>5, <2>6
    <3> QED BY <3>1, <3>2, <2>1, <2>4 DEF HeapSound
  <2>10. ListShape'
    <3>1. \A i \in 1..k : i < k => next[l[i]] = l[i + 1]
      BY <2>d, <2>3, <2>h
    <3>2. \A i \in 1..k : prev[l[i]] = IF i = 1 THEN Null ELSE l[i - 1]
      BY <2>d, <2>3, <2>i
    <3> QED BY <1>0, <3>1, <3>2, <2>1, <2>3 DEF ListShape
  <2>11. CountSound'
    <3>1. count = Len(order) /\ count <= maxSteps
      <4>1. doomed = <<>> BY <1>0, LinkFacts
      <4>2. Len(doomed) = 0 BY <4>1
      <4> QED BY <1>0, <2>d, <4>2 DEF Calling, ListInv, CountSound
    <3>2. Len(order') = k /\ Len(doomed') = Len(order) - k BY <2>1, <2>3, <2>e
    <3> QED BY <1>0, <2>1, <2>d, <3>1, <3>2 DEF CountSound
  <2>12. LoopSound'
    <3>1. \A i \in DOMAIN r : next[r[i]] = IF i = Len(r) THEN Null ELSE r[i + 1]
      <4> SUFFICES ASSUME NEW i \in DOMAIN r
                   PROVE  next[r[i]] = IF i = Len(r) THEN Null ELSE r[i + 1]
        OBVIOUS
      <4>1. i \in 1..Len(order) - k BY <2>e
      <4>2. k + i \in 1..Len(order) /\ (k + i) + 1 = k + (i + 1) BY <4>1, <2>d
      <4>3. r[i] = order[k + i] BY <4>1, <2>e
      <4>4. next[r[i]] = IF k + i = Len(order) THEN Null ELSE order[k + (i + 1)]
        BY <4>2, <4>3, <2>h
      <4>5. CASE i = Len(r) BY <4>4, <4>5, <4>1, <2>d, <2>e
      <4>6. CASE i # Len(r)
        <5>1. Len(r) = Len(order) - k BY <2>e
        <5>2. i + 1 \in 1..Len(order) - k /\ k + i # Len(order)
          BY <4>1, <4>6, <5>1, <2>d
        <5>3. r[i + 1] = order[k + (i + 1)] BY <5>2, <2>e
        <5> QED BY <4>4, <4>6, <5>2, <5>3
      <4> QED BY <4>5, <4>6
    <3>2. l = <<>> <=> k = 0 BY <2>3, EmptyFact
    <3>3. k # 0 => head = l[1] /\ current = l[k] BY <2>d, <2>g, <2>3, <2>j
    <3>4. k # 0 => current \in Cells(l) BY <3>3, <2>d, <2>3 DEF Cells
    <3>5. \A n \in live : data[n] \in Entries BY DEF ListInv, LoopSound
    <3> QED BY <2>1, <2>2, <2>3, <2>5, <2>6, <3>1, <3>2, <3>3, <3>4, <3>5, <1>0 DEF LoopSound, InputOK
  <2> QED BY <2>8, <2>9, <2>10, <2>11, <2>12 DEF ListInv
<1> QED BY <1>3, <1>4

\* undo_redo_push called by the GUI.
LEMMA PushCallInv == ASSUME ListInv, NEW e \in Entries, PushCall(e) PROVE ListInv'
<1>1. json' \in Seq(Cmds \union {Malformed}) BY DEF PushCall, NoInput
<1>2. loading' = FALSE /\ item' \in Nat /\ lost' \subseteq Nat BY DEF PushCall, NoInput
<1>3. InputOK' BY <1>1, <1>2 DEF InputOK
<1>4. EnterPush(e) /\ HeapKept /\ Calling BY DEF PushCall, HeapKept, Calling
<1> QED BY <1>3, <1>4, EnterPushInv

\* undo_redo_push called by the loop of undo_redo_deserialize.
LEMMA LoadItemInv ==
  ASSUME ListInv, NEW h \in Outcomes, LoadItem(h) PROVE ListInv'
<1>1. json[item] \in Cmds /\ h \in BOOLEAN
  <2>1. json \in Seq(Cmds \union {Malformed}) /\ item \in Nat BY DEF ListInv, TypeOK
  <2>2. item \in DOMAIN json BY <2>1 DEF LoadItem, ListInv, LoopSound
  <2>3. h \in BOOLEAN BY FailAssumption DEF Outcomes
  <2> QED BY <2>1, <2>2, <2>3 DEF LoadItem
<1>2. [cmd |-> json[item], held |-> h] \in Entries BY <1>1 DEF Entries
<1>3. InputOK'
  BY DEF LoadItem, load, ListInv, TypeOK, LoopSound, InputOK
<1>4. EnterPush([cmd |-> json[item], held |-> h]) /\ HeapKept /\ Calling
  BY DEF LoadItem, HeapKept, Calling
<1> QED BY <1>2, <1>3, <1>4, EnterPushInv

\* undo_redo.c 50-56: the list ends at current.
LEMMA CutDoneInv == ListInv /\ CutDone => ListInv'
<1> SUFFICES ASSUME ListInv, CutDone PROVE ListInv' OBVIOUS
<1>1. /\ pc = "cut" /\ node = Null /\ pc' = "append" /\ tail' = current
      /\ UNCHANGED <<current, count, maxSteps, prev, data, live, locals, load, result, ghost>>
  BY DEF CutDone
<1>2. order \in Seq(Nodes) /\ DOMAIN order = 1..Len(order) /\ Len(order) \in Nat
  BY DEF ListInv, TypeOK
<1>3. doomed = <<>>
  <2> SUFFICES ASSUME doomed # <<>> PROVE FALSE OBVIOUS
  <2>1. doomed[1] = Null BY <1>1 DEF ListInv, LoopSound
  <2>2. doomed \in Seq(Nodes) BY DEF ListInv, TypeOK
  <2>3. doomed[1] \in Nodes BY <2>2, EmptyFact
  <2> QED BY <2>1, <2>3, NullAssumption
<1>4. live = Cells(order)
  <2>1. Cells(<<>>) = {} BY DEF Cells
  <2> QED BY <1>3, <2>1 DEF ListInv, HeapSound
<1>5. CASE order = <<>>
  <2>1. current = Null /\ head' = Null /\ next' = next
    BY <1>1, <1>5 DEF ListInv, LoopSound, CutDone
  <2>2. live = {} BY <1>4, <1>5 DEF Cells
  <2>3. TypeOK' BY <1>1, <2>1 DEF ListInv, TypeOK, Pointers, locals, load, result, ghost
  <2>4. HeapSound'
    BY <1>1, <2>1, <2>2 DEF ListInv, HeapSound, locals, ghost
  <2>5. ListShape' BY <1>1, <1>5, <2>1 DEF ListShape, ghost
  <2>6. CountSound'
    BY <1>1 DEF ListInv, CountSound, ghost
  <2>7. LoopSound'
    BY <1>1, <1>3, <2>1, <2>2 DEF ListInv, LoopSound, locals, load, ghost
  <2> QED BY <2>3, <2>4, <2>5, <2>6, <2>7 DEF ListInv
<1>6. CASE order # <<>>
  <2>1. PICK n \in DOMAIN order : n = Len(order) BY <1>2, <1>6, EmptyFact
  <2>2. current = order[n] /\ current \in Nodes /\ current \in Cells(order) /\ head = order[1]
    BY <1>1, <1>2, <1>6, <2>1 DEF ListInv, LoopSound, Cells
  <2>3. head' = head /\ next' = [next EXCEPT ![current] = Null]
    BY <1>1, <2>2, NullAssumption DEF CutDone
  <2>4. next \in [Nodes -> Pointers \union {Junk}] BY DEF ListInv, TypeOK
  <2>5. \A i \in DOMAIN order : next'[order[i]] = IF i = n THEN Null ELSE order[i + 1]
    <3> SUFFICES ASSUME NEW i \in DOMAIN order
                 PROVE  next'[order[i]] = IF i = n THEN Null ELSE order[i + 1]
      OBVIOUS
    <3>1. order[i] \in Nodes BY <1>2
    <3>2. CASE i = n BY <3>1, <3>2, <2>2, <2>3, <2>4
    <3>3. CASE i # n
      <4>1. order[i] # current BY <3>3, <2>1, <2>2 DEF ListInv, HeapSound, Distinct
      <4>2. i < Len(order) BY <3>3, <2>1, <1>2
      <4>3. next[order[i]] = order[i + 1] BY <4>2 DEF ListInv, ListShape
      <4> QED BY <3>1, <3>3, <4>1, <4>3, <2>2, <2>3, <2>4
    <3> QED BY <3>2, <3>3
  <2>6. \A m \in live : {next'[m], prev'[m]} \subseteq live \union {Null}
    <3> SUFFICES ASSUME NEW i \in DOMAIN order
                 PROVE  {next'[order[i]], prev[order[i]]} \subseteq Cells(order) \union {Null}
      BY <1>1, <1>4 DEF Cells
    <3>1. i # n => i + 1 \in DOMAIN order BY <1>2, <2>1
    <3>2. i # 1 => i - 1 \in DOMAIN order BY <1>2
    <3>3. prev[order[i]] = IF i = 1 THEN Null ELSE order[i - 1] BY DEF ListInv, ListShape
    <3>4. \A j \in DOMAIN order : order[j] \in Cells(order) BY DEF Cells
    <3> QED BY <3>1, <3>2, <3>3, <3>4, <2>5
  <2>7. TypeOK'
    <3>1. next' \in [Nodes -> Pointers \union {Junk}] BY <2>3, <2>4 DEF Pointers
    <3> QED BY <1>1, <2>3, <3>1 DEF ListInv, TypeOK, locals, load, result, ghost
  <2>8. HeapSound'
    <3>1. head \in live BY <1>2, <1>4, <1>6, <2>2, EmptyFact DEF Cells
    <3> QED BY <1>1, <1>4, <2>2, <2>3, <2>6, <3>1 DEF ListInv, HeapSound, locals, ghost
  <2>9. ListShape'
    <3>1. \A i \in DOMAIN order : prev[order[i]] = IF i = 1 THEN Null ELSE order[i - 1]
      BY DEF ListInv, ListShape
    <3>2. /\ order' = order /\ prev' = prev /\ head' = order[1] /\ tail' = order[Len(order)]
          /\ pc' = "append"
      BY <1>1, <2>1, <2>2, <2>3 DEF ghost
    <3>3. \A i \in DOMAIN order : next'[order[i]] = IF i = Len(order) THEN Null ELSE order[i + 1]
      BY <2>1, <2>5
    <3>4. \A i \in DOMAIN order : i < Len(order) => i # Len(order) BY <1>2
    <3> QED BY <3>1, <3>2, <3>3, <3>4, <1>6 DEF ListShape
  <2>10. CountSound' BY <1>1 DEF ListInv, CountSound, ghost
  <2>11. LoopSound'
    BY <1>1, <1>3, <2>2 DEF ListInv, LoopSound, locals, load, ghost
  <2> QED BY <2>7, <2>8, <2>9, <2>10, <2>11 DEF ListInv
<1> QED BY <1>5, <1>6

\* undo_redo.c 59-81: the new cell becomes tail and current.
LEMMA LinkNodeInv == ASSUME ListInv, NEW n \in Nodes, LinkNode(n) PROVE ListInv'
<1>1. /\ pc = "append" /\ n \notin live /\ pc' = "trim"
      /\ live' = live \union {n}
      /\ data' = [data EXCEPT ![n] = arg] /\ arg' = NoArg
      /\ prev' = [prev EXCEPT ![n] = tail]
      /\ head' = (IF tail # Null THEN head ELSE n)
      /\ tail' = n /\ current' = n /\ count' = count + 1
      /\ order' = Append(order, n)
      /\ UNCHANGED <<maxSteps, node, steps, loading, load, result, doomed>>
  BY DEF LinkNode
<1>2. /\ order \in Seq(Nodes) /\ DOMAIN order = 1..Len(order) /\ Len(order) \in Nat
      /\ \A i \in DOMAIN order : order[i] \in Nodes /\ order[i] \in Cells(order)
  BY DEF ListInv, TypeOK, Cells
<1>3. /\ live = Cells(order) /\ doomed = <<>> /\ n # Null
      /\ \A i \in DOMAIN order : order[i] # n
  BY <1>1, <1>2, LinkFacts, NullAssumption
<1>4. PICK o : o = order' OBVIOUS
<1>5. /\ o \in Seq(Nodes) /\ Len(o) = Len(order) + 1 /\ DOMAIN o = 1..Len(order) + 1 /\ o # <<>>
      /\ o[Len(order) + 1] = n /\ \A i \in 1..Len(order) : o[i] = order[i]
  BY <1>1, <1>2, <1>4, AppendFacts
<1>6. Cells(o) = Cells(order) \union {n}
  BY <1>1, <1>2, <1>4, AppendFacts
<1>7. Distinct(o)
  <2>1. Distinct(order) /\ n \notin Cells(order) BY <1>1, <1>3 DEF ListInv, HeapSound
  <2> QED BY <2>1, <1>1, <1>2, <1>4, AppendFacts
<1>8. /\ next \in [Nodes -> Pointers \union {Junk}]
      /\ prev \in [Nodes -> Pointers \union {Junk}]
      /\ data \in [Nodes -> Entries \union {Junk}]
      /\ arg \in Entries /\ tail \in Pointers
  BY <1>1 DEF ListInv, TypeOK, LoopSound
<1>9. tail = (IF order = <<>> THEN Null ELSE order[Len(order)])
  BY <1>1, LinkFacts
<1>10. /\ order = <<>> => Len(order) = 0 /\ tail = Null
       /\ order # <<>> => Len(order) \in DOMAIN order /\ tail # Null /\ tail # n /\ tail \in Nodes
  BY <1>2, <1>3, <1>9, EmptyFact, NullAssumption
<1>11. head' = o[1]
  <2>1. CASE order = <<>> BY <2>1, <1>1, <1>5, <1>10
  <2>2. CASE order # <<>>
    <3>1. head = order[1] /\ 1 \in 1..Len(order) BY <2>2, <1>1, <1>2, <1>10, LinkFacts
    <3> QED BY <3>1, <2>2, <1>1, <1>5, <1>10
  <2> QED BY <2>1, <2>2
<1>12. /\ next' \in [Nodes -> Pointers \union {Junk}] /\ next'[n] = Null
       /\ order # <<>> => next'[order[Len(order)]] = n
       /\ \A m \in Nodes : m # n /\ m # tail => next'[m] = next[m]
  <2>1. CASE order = <<>>
    <3>1. next' = [next EXCEPT ![n] = Null] BY <2>1, <1>10 DEF LinkNode
    <3> QED BY <3>1, <2>1, <1>8 DEF Pointers
  <2>2. CASE order # <<>>
    <3>1. next' = [next EXCEPT ![n] = Null, ![tail] = n] BY <2>2, <1>10 DEF LinkNode
    <3> QED BY <3>1, <2>2, <1>8, <1>9, <1>10 DEF Pointers
  <2> QED BY <2>1, <2>2
<1>13. /\ prev' \in [Nodes -> Pointers \union {Junk}] /\ prev'[n] = tail
       /\ \A m \in Nodes : m # n => prev'[m] = prev[m]
       /\ data' \in [Nodes -> Entries \union {Junk}]
       /\ \A m \in live' : data'[m] \in Entries
  <2>1. live \subseteq Nodes /\ \A m \in live : data[m] \in Entries
    BY DEF ListInv, TypeOK, LoopSound
  <2> QED BY <1>1, <1>8, <2>1
<1>14. \A i \in DOMAIN o :
         /\ next'[o[i]] = IF i = Len(o) THEN Null ELSE o[i + 1]
         /\ prev'[o[i]] = IF i = 1 THEN Null ELSE o[i - 1]
  <2> SUFFICES ASSUME NEW i \in DOMAIN o
               PROVE  /\ next'[o[i]] = IF i = Len(o) THEN Null ELSE o[i + 1]
                      /\ prev'[o[i]] = IF i = 1 THEN Null ELSE o[i - 1]
    OBVIOUS
  <2>1. CASE i = Len(order) + 1
    <3>1. i = Len(o) /\ o[i] = n BY <1>5, <2>1
    <3>2. tail = IF i = 1 THEN Null ELSE o[i - 1]
      <4>1. CASE order = <<>> BY <4>1, <2>1, <1>10
      <4>2. CASE order # <<>>
        <5>1. Len(order) \in 1..Len(order) /\ i # 1 /\ i - 1 = Len(order)
          BY <4>2, <2>1, <1>2, <1>10
        <5> QED BY <5>1, <4>2, <1>5, <1>9
      <4> QED BY <4>1, <4>2
    <3> QED BY <3>1, <3>2, <1>12, <1>13
  <2>2. CASE i = Len(order) /\ i # Len(order) + 1
    <3>1. i \in DOMAIN order /\ order # <<>> /\ i # Len(o) /\ o[i] = order[i] /\ o[i + 1] = n
      BY <2>2, <1>2, <1>5, <1>10
    <3>2. next'[o[i]] = o[i + 1] BY <3>1, <2>2, <1>12
    <3>3. prev[order[i]] = IF i = 1 THEN Null ELSE order[i - 1] BY <3>1, <1>1, LinkFacts
    <3>4. i # 1 => o[i - 1] = order[i - 1] BY <3>1, <1>2, <1>5
    <3>5. prev'[o[i]] = prev[order[i]] BY <3>1, <1>2, <1>3, <1>13
    <3> QED BY <3>1, <3>2, <3>3, <3>4, <3>5
  <2>3. CASE i < Len(order)
    <3>1. i \in DOMAIN order /\ order # <<>> /\ i # Len(o) /\ o[i] = order[i]
          /\ o[i + 1] = order[i + 1] /\ i # Len(order)
      BY <2>3, <1>2, <1>5, <1>10
    <3>2. order[i] # tail
      BY <3>1, <1>9, <1>10 DEF ListInv, HeapSound, Distinct
    <3>3. next'[o[i]] = next[order[i]] BY <3>1, <3>2, <1>2, <1>3, <1>12
    <3>4. next[order[i]] = order[i + 1] BY <3>1, <1>1, LinkFacts
    <3>5. prev[order[i]] = IF i = 1 THEN Null ELSE order[i - 1] BY <3>1, <1>1, LinkFacts
    <3>6. i # 1 => o[i - 1] = order[i - 1] BY <3>1, <1>2, <1>5
    <3>7. prev'[o[i]] = prev[order[i]] BY <3>1, <1>2, <1>3, <1>13
    <3> QED BY <3>1, <3>3, <3>4, <3>5, <3>6, <3>7
  <2> QED BY <1>2, <1>5, <2>1, <2>2, <2>3
<1>15. TypeOK'
  <2>1. {head', tail', current'} \subseteq Pointers
    BY <1>1 DEF ListInv, TypeOK, Pointers
  <2>2. order' \in Seq(Nodes) BY <1>4, <1>5
  <2>3. TypeOK BY DEF ListInv
  <2> QED BY <1>1, <1>12, <1>13, <2>1, <2>2, <2>3 DEF TypeOK, load, result
<1>16. HeapSound'
  <2>1. live' = Cells(o) BY <1>1, <1>3, <1>6
  <2>2. \A i \in DOMAIN o : o[i] \in Cells(o) BY DEF Cells
  <2>3. \A m \in live' : {next'[m], prev'[m]} \subseteq live' \union {Null}
    <3> SUFFICES ASSUME NEW i \in DOMAIN o
                 PROVE  {next'[o[i]], prev'[o[i]]} \subseteq Cells(o) \union {Null}
      BY <2>1 DEF Cells
    <3>1. i # Len(o) => i + 1 \in DOMAIN o BY <1>2, <1>5
    <3>2. i # 1 => i - 1 \in DOMAIN o BY <1>2, <1>5
    <3> QED BY <3>1, <3>2, <2>2, <1>14
  <2>4. {head', tail', current'} \subseteq live' \union {Null}
    <3>1. 1 \in DOMAIN o BY <1>2, <1>5
    <3> QED BY <3>1, <1>1, <1>11, <2>1, <2>2
  <2>5. Cells(<<>>) = {} /\ Distinct(<<>>) BY DEF Cells, Distinct
  <2>6. doomed' = <<>> /\ order' = o BY <1>1, <1>3, <1>4
  <2>7. node' \in live' \union {Null} BY <1>1 DEF ListInv, HeapSound
  <2> QED BY <2>1, <2>3, <2>4, <2>5, <2>6, <2>7, <1>7 DEF HeapSound
<1>17. ListShape'
  <2>1. order' = o /\ pc' = "trim" /\ tail' = o[Len(o)] /\ head' = o[1] BY <1>1, <1>4, <1>5, <1>11
  <2>2. \A i \in DOMAIN o : i < Len(o) => i # Len(o) BY <1>2, <1>5
  <2> QED BY <1>5, <1>14, <2>1, <2>2 DEF ListShape
<1>18. CountSound'
  <2>1. count = Len(order) /\ count <= maxSteps /\ count \in Int /\ maxSteps \in Nat
    <3>1. Len(doomed) = 0 BY <1>3
    <3> QED BY <3>1, <1>1, <1>2 DEF ListInv, CountSound, TypeOK
  <2>2. Len(order') = Len(order) + 1 /\ Len(doomed') = 0 BY <1>1, <1>3, <1>4, <1>5
  <2> QED BY <2>1, <2>2, <1>1, <1>2 DEF CountSound
<1>19. LoopSound'
  <2>1. current' \in Cells(order') /\ order' # <<>> BY <1>1, <1>4, <1>5, <1>6
  <2>2. loading' => item' > 0 BY <1>1 DEF ListInv, LoopSound, load
  <2>3. node' = Null BY <1>1 DEF ListInv, LoopSound
  <2> QED BY <1>1, <1>3, <1>13, <2>1, <2>2, <2>3 DEF LoopSound
<1> QED BY <1>15, <1>16, <1>17, <1>18, <1>19 DEF ListInv

\* Steps that leave the list and the heap alone.
\* Steps that move only the cursors keep the invariant.
LEMMA FrameInv ==
  ASSUME ListInv, UNCHANGED <<head, tail, count, maxSteps, cells, ghost>>,
         pc \notin {"reset", "cut"}, TypeOK',
         current' \in Cells(order) \union {Null},
         node' \in live \union {Null},
         pc' # "walk" => node' = Null,
         pc' \in {"ready", "load", "walk"},
         pc \in {"append", "trim"} => count <= maxSteps,
         pc' = "load" => current' = tail /\ loading',
         loading' => item' > 0
  PROVE  ListInv'
<1> USE DEF ListInv, cells, ghost
<1>1. HeapSound'
  <2>1. order' = order /\ doomed' = doomed /\ live' = live /\ head' = head /\ tail' = tail
        /\ next' = next /\ prev' = prev OBVIOUS
  <2>2. current' \in live' \union {Null} BY <2>1, LinkFacts
  <2> QED BY <2>1, <2>2 DEF HeapSound
<1>2. ListShape'
  <2>1. order' = order /\ head' = head /\ tail' = tail /\ next' = next /\ prev' = prev OBVIOUS
  <2>2. order = <<>> => current' = Null BY DEF Cells
  <2> QED BY <2>1, <2>2 DEF ListShape
<1>3. CountSound' BY DEF CountSound
<1>4. LoopSound'
  <2>1. doomed = <<>> BY LinkFacts
  <2>2. \A n \in live : data[n] \in Entries BY DEF LoopSound
  <2> QED BY <2>1, <2>2 DEF LoopSound
<1> QED BY <1>1, <1>2, <1>3, <1>4

\* Following next, prev, head or tail from the list stays in it.
LEMMA CursorFacts ==
  ASSUME ListInv, pc \notin {"reset", "cut"}
  PROVE  /\ current # Null => prev[current] \in Cells(order) \union {Null}
         /\ current # tail => (IF current # Null THEN next[current] ELSE head)
                                  \in Cells(order)
         /\ \A n \in Cells(order) : next[n] \in Cells(order) \union {Null}
         /\ tail \in Cells(order) \union {Null}
         /\ head \in Cells(order) \union {Null}
<1>1. /\ order \in Seq(Nodes) /\ DOMAIN order = 1..Len(order) /\ Len(order) \in Nat
  BY DEF ListInv, TypeOK
<1>2. \A i \in DOMAIN order : order[i] \in Cells(order) BY DEF Cells
<1>3. \A n \in Cells(order) : next[n] \in Cells(order) \union {Null}
  <2> SUFFICES ASSUME NEW i \in DOMAIN order PROVE next[order[i]] \in Cells(order) \union {Null}
    BY DEF Cells
  <2>1. next[order[i]] = IF i = Len(order) THEN Null ELSE order[i + 1] BY LinkFacts
  <2>2. i # Len(order) => i + 1 \in DOMAIN order BY <1>1
  <2> QED BY <2>1, <2>2, <1>2
<1>4. current # Null => prev[current] \in Cells(order) \union {Null}
  <2> SUFFICES ASSUME current # Null PROVE prev[current] \in Cells(order) \union {Null}
    OBVIOUS
  <2>1. PICK i \in DOMAIN order : order[i] = current BY PosFacts
  <2>2. prev[order[i]] = IF i = 1 THEN Null ELSE order[i - 1] BY <2>1, LinkFacts
  <2>3. i # 1 => i - 1 \in DOMAIN order BY <2>1, <1>1
  <2> QED BY <2>1, <2>2, <2>3, <1>2
<1>5. order # <<>> => 1 \in DOMAIN order /\ Len(order) \in DOMAIN order
  BY <1>1, EmptyFact
<1>6. /\ tail \in Cells(order) \union {Null}
      /\ head \in Cells(order) \union {Null}
  BY <1>2, <1>5, LinkFacts
<1>7. current # tail => (IF current # Null THEN next[current] ELSE head) \in Cells(order)
  <2> SUFFICES ASSUME current # tail
               PROVE  (IF current # Null THEN next[current] ELSE head) \in Cells(order)
    OBVIOUS
  <2>1. Pos \in 0..Len(order) /\ Pos # Len(order) BY TailPos, PosFacts
  <2>2. CASE current = Null
    <3>1. order # <<>> BY <2>2, LinkFacts
    <3> QED BY <3>1, <2>2, <1>2, <1>5, LinkFacts
  <2>3. CASE current # Null
    <3>1. Pos \in DOMAIN order /\ order[Pos] = current BY <2>3, PosFacts
    <3>2. next[order[Pos]] = order[Pos + 1] BY <3>1, <2>1, LinkFacts
    <3>3. Pos + 1 \in DOMAIN order BY <2>1, <3>1, <1>1
    <3> QED BY <3>1, <3>2, <3>3, <2>3, <1>2
  <2> QED BY <2>2, <2>3
<1> QED BY <1>3, <1>4, <1>6, <1>7

\* undo_redo.c 84-98: the oldest cell is unlinked and freed.
LEMMA TrimHeadInv == ListInv /\ TrimHead => ListInv'
<1> SUFFICES ASSUME ListInv, TrimHead PROVE ListInv' OBVIOUS
<1>1. /\ pc = "trim" /\ count > maxSteps /\ head # Null
      /\ head' = next[head]
      /\ tail' = (IF tail = head THEN Null ELSE tail)
      /\ current' = (IF current = head THEN Null ELSE current)
      /\ next' = [next EXCEPT ![head] = Junk]
      /\ data' = [data EXCEPT ![head] = Junk]
      /\ live' = live \ {head}
      /\ count' = count - 1
      /\ order' = Tail(order)
      /\ UNCHANGED <<maxSteps, locals, json, lost, result, doomed>>
  BY DEF TrimHead
<1>2. prev' = IF next[head] # Null THEN [prev EXCEPT ![next[head]] = Null, ![head] = Junk]
                                   ELSE [prev EXCEPT ![head] = Junk]
  BY DEF TrimHead
<1>3. /\ order \in Seq(Nodes) /\ DOMAIN order = 1..Len(order) /\ Len(order) \in Nat
      /\ \A i \in DOMAIN order : order[i] \in Nodes /\ order[i] \in Cells(order)
      /\ order # <<>>
  BY <1>1, LinkFacts DEF ListInv, TypeOK, Cells
<1>4. PICK o : o = order' OBVIOUS
<1>5. /\ o \in Seq(Nodes) /\ Len(o) = Len(order) - 1 /\ DOMAIN o = 1..Len(order)-1
      /\ \A i \in 1..Len(order) - 1 : o[i] = order[i + 1]
  BY <1>1, <1>3, <1>4, TailFacts
<1>6. /\ o = <<>> <=> Len(order) = 1
      /\ Len(order) # 1 => o[1] = order[2]
  BY <1>1, <1>3, <1>4, TailFacts
<1>7. Cells(order) = {order[1]} \union Cells(o)
  BY <1>1, <1>3, <1>4, TailFacts
<1>8. order[1] \notin Cells(o) /\ Distinct(o)
  <2>1. Distinct(order) BY DEF ListInv, HeapSound
  <2> QED BY <2>1, <1>1, <1>3, <1>4, TailFacts
<1>9. 1 \in DOMAIN order /\ Len(order) \in DOMAIN order BY <1>3, EmptyFact
<1>10. /\ head = order[1] /\ tail = order[Len(order)] /\ current = tail
       /\ live = Cells(order) /\ doomed = <<>>
  BY <1>1, <1>3, LinkFacts DEF ListInv, LoopSound
<1>11. \A i \in DOMAIN order :
         /\ next[order[i]] = IF i = Len(order) THEN Null ELSE order[i + 1]
         /\ prev[order[i]] = IF i = 1 THEN Null ELSE order[i - 1]
  BY <1>1, LinkFacts
<1>12. next[head] = IF Len(order) = 1 THEN Null ELSE order[2]
  <2>1. next[order[1]] = IF 1 = Len(order) THEN Null ELSE order[1 + 1] BY <1>9, <1>11
  <2> QED BY <2>1, <1>10
<1>13. head' = IF o = <<>> THEN Null ELSE o[1]
  BY <1>1, <1>6, <1>12
<1>14. tail' = IF o = <<>> THEN Null ELSE o[Len(o)]
  <2>1. CASE Len(order) = 1 BY <2>1, <1>1, <1>6, <1>10
  <2>2. CASE Len(order) # 1
    <3>1. order[1] # order[Len(order)]
      BY <2>2, <1>9 DEF ListInv, HeapSound, Distinct
    <3>2. Len(o) \in 1..Len(order) - 1 /\ Len(o) + 1 = Len(order) BY <2>2, <1>3, <1>5, <1>9
    <3>3. o[Len(o)] = order[Len(order)] BY <3>2, <1>5
    <3> QED BY <3>1, <3>3, <2>2, <1>1, <1>6, <1>10
  <2> QED BY <2>1, <2>2
<1>15. current' = tail' BY <1>1, <1>10
<1>16. /\ next \in [Nodes -> Pointers \union {Junk}]
       /\ prev \in [Nodes -> Pointers \union {Junk}]
       /\ data \in [Nodes -> Entries \union {Junk}]
       /\ head \in Nodes /\ head \notin Cells(o)
  BY <1>3, <1>8, <1>9, <1>10 DEF ListInv, TypeOK
<1>17. /\ next' \in [Nodes -> Pointers \union {Junk}]
       /\ data' \in [Nodes -> Entries \union {Junk}]
       /\ \A m \in Nodes : m # head => next'[m] = next[m] /\ data'[m] = data[m]
  BY <1>1, <1>16
<1>18. /\ prev' \in [Nodes -> Pointers \union {Junk}]
       /\ \A m \in Nodes : m # head /\ m # next[head] => prev'[m] = prev[m]
       /\ o # <<>> => prev'[o[1]] = Null
  <2>1. CASE Len(order) = 1
    <3>1. prev' = [prev EXCEPT ![head] = Junk] BY <2>1, <1>2, <1>12
    <3> QED BY <3>1, <2>1, <1>6, <1>16
  <2>2. CASE Len(order) # 1
    <3>1. 2 \in DOMAIN order BY <2>2, <1>3, <1>9
    <3>2. order[2] \in Nodes /\ order[2] # head /\ o[1] = order[2] /\ next[head] = order[2]
      BY <3>1, <2>2, <1>3, <1>6, <1>9, <1>10, <1>12 DEF ListInv, HeapSound, Distinct
    <3>3. prev' = [prev EXCEPT ![order[2]] = Null, ![head] = Junk]
      BY <3>2, <1>2, NullAssumption
    <3> QED BY <3>2, <3>3, <1>16 DEF Pointers
  <2> QED BY <2>1, <2>2
<1>19. \A i \in DOMAIN o :
         /\ next'[o[i]] = IF i = Len(o) THEN Null ELSE o[i + 1]
         /\ prev'[o[i]] = IF i = 1 THEN Null ELSE o[i - 1]
  <2> SUFFICES ASSUME NEW i \in DOMAIN o
               PROVE  /\ next'[o[i]] = IF i = Len(o) THEN Null ELSE o[i + 1]
                      /\ prev'[o[i]] = IF i = 1 THEN Null ELSE o[i - 1]
    OBVIOUS
  <2>1. i \in 1..Len(order) - 1 /\ i + 1 \in DOMAIN order /\ o[i] = order[i + 1] /\ i + 1 # 1
    BY <1>3, <1>5
  <2>2. o[i] \in Nodes /\ o[i] # head
    BY <2>1, <1>3, <1>9, <1>10 DEF ListInv, HeapSound, Distinct
  <2>3. next[o[i]] = IF i + 1 = Len(order) THEN Null ELSE order[(i + 1) + 1]
    BY <2>1, <1>11
  <2>4. i # Len(o) => i + 1 \in 1..Len(order) - 1 BY <2>1, <1>3, <1>5
  <2>5. i = Len(o) <=> i + 1 = Len(order) BY <2>1, <1>3, <1>5
  <2>6. next'[o[i]] = IF i = Len(o) THEN Null ELSE o[i + 1]
    BY <2>2, <2>3, <2>4, <2>5, <1>5, <1>17
  <2>7. CASE i = 1
    <3>1. o # <<>> BY <2>1, <1>3, <1>6
    <3> QED BY <3>1, <2>6, <2>7, <1>18
  <2>8. CASE i # 1
    <3>1. prev[order[i + 1]] = order[i] 
      <4>1. prev[order[i + 1]] = order[(i + 1) - 1] BY <2>1, <1>11
      <4>2. (i + 1) - 1 = i BY <2>1, <1>3
      <4> QED BY <4>1, <4>2
    <3>2. i - 1 \in 1..Len(order) - 1 /\ (i - 1) + 1 = i BY <2>1, <2>8, <1>3
    <3>3. o[i - 1] = order[i] BY <3>2, <1>5
    <3>4. i + 1 # 2 /\ 2 \in DOMAIN order BY <2>1, <2>8, <1>3
    <3>5. order[i + 1] # next[head]
      BY <3>4, <2>1, <1>12 DEF ListInv, HeapSound, Distinct
    <3>6. prev'[o[i]] = prev[o[i]] BY <3>5, <2>1, <2>2, <1>18
    <3> QED BY <3>1, <3>3, <3>6, <2>1, <2>6, <2>8
  <2> QED BY <2>7, <2>8
<1>20. live' = Cells(o) BY <1>1, <1>7, <1>8, <1>10
<1>21. /\ o # <<>> => o[1] \in Cells(o) /\ o[Len(o)] \in Cells(o)
       /\ Cells(o) \subseteq Nodes
  BY <1>5, SeqFacts
<1>22. /\ pc' \in {"load", "ready"} /\ item' \in Nat
       /\ (pc' = "load" => loading') /\ (loading' => item' > 0)
  <2>1. loading \in BOOLEAN /\ item \in Nat /\ loading' = loading
    BY <1>1 DEF ListInv, TypeOK, locals
  <2>2. CASE loading BY <2>1, <2>2 DEF TrimHead, Return
  <2>3. CASE ~loading BY <2>1, <2>3 DEF TrimHead, Return
  <2> QED BY <2>2, <2>3
<1>23. TypeOK'
  <2>1. {head', tail', current'} \subseteq Pointers
    BY <1>13, <1>14, <1>15, <1>21 DEF Pointers
  <2>2. order' \in Seq(Nodes) BY <1>4, <1>5
  <2>3. TypeOK BY DEF ListInv
  <2> QED BY <1>1, <1>17, <1>18, <1>22, <2>1, <2>2, <2>3 DEF TypeOK, locals, result
<1>24. HeapSound'
  <2>1. \A i \in DOMAIN o : o[i] \in Cells(o) BY DEF Cells
  <2>2. \A m \in live' : {next'[m], prev'[m]} \subseteq live' \union {Null}
    <3> SUFFICES ASSUME NEW i \in DOMAIN o
                 PROVE  {next'[o[i]], prev'[o[i]]} \subseteq Cells(o) \union {Null}
      BY <1>20 DEF Cells
    <3>1. i # Len(o) => i + 1 \in DOMAIN o BY <1>3, <1>5
    <3>2. i # 1 => i - 1 \in DOMAIN o BY <1>3, <1>5
    <3> QED BY <3>1, <3>2, <2>1, <1>19
  <2>3. {head', tail', current'} \subseteq live' \union {Null}
    BY <1>13, <1>14, <1>15, <1>20, <1>21
  <2>4. Cells(<<>>) = {} /\ Distinct(<<>>) BY DEF Cells, Distinct
  <2>5. doomed' = <<>> /\ order' = o BY <1>1, <1>4, <1>10
  <2>6. node' \in live' \union {Null}
    <3>1. node = Null BY <1>1 DEF ListInv, LoopSound
    <3> QED BY <3>1, <1>1 DEF locals
  <2> QED BY <2>2, <2>3, <2>4, <2>5, <2>6, <1>8, <1>20 DEF HeapSound
<1>25. ListShape'
  <2>1. \A i \in DOMAIN o : i < Len(o) => i # Len(o) BY <1>3, <1>5
  <2> QED BY <2>1, <1>4, <1>13, <1>14, <1>15, <1>19, <1>22 DEF ListShape
<1>26. CountSound'
  <2>1. Len(doomed) = 0 BY <1>10
  <2>2. count = Len(order) /\ count <= maxSteps + 1 /\ count \in Int /\ maxSteps \in Nat
    BY <2>1, <1>1, <1>3 DEF ListInv, CountSound, TypeOK
  <2>3. Len(order') = Len(order) - 1 /\ Len(doomed') = 0 BY <1>1, <1>4, <1>5, <1>10
  <2> QED BY <2>2, <2>3, <1>1, <1>3, <1>22 DEF CountSound
<1>27. LoopSound'
  <2>1. current' \in Cells(order') \union {Null} BY <1>4, <1>14, <1>15, <1>21
  <2>2. \A m \in live' : data'[m] \in Entries
    BY <1>1, <1>10, <1>16, <1>17, <1>20, <1>21, <1>7 DEF ListInv, LoopSound
  <2>3. node' = Null BY <1>1 DEF ListInv, LoopSound, locals
  <2> QED BY <2>1, <2>2, <2>3, <1>1, <1>10, <1>15, <1>22 DEF LoopSound
<1> QED BY <1>23, <1>24, <1>25, <1>26, <1>27 DEF ListInv

\* undo_redo_undo.
LEMMA UndoCallInv == ListInv /\ UndoCall => ListInv'
<1> SUFFICES ASSUME ListInv, UndoCall PROVE ListInv' OBVIOUS
<1>1. pc = "ready" /\ pc' = pc /\ current # Null /\ current' = prev[current]
  BY DEF UndoCall
<1>2. current' \in Cells(order) \union {Null} BY <1>1, CursorFacts
<1>3. Cells(order) \subseteq Nodes BY SeqFacts DEF ListInv, TypeOK
<1>4. out' \in Seq(Cmds) /\ json' \in Seq(Cmds \union {Malformed})
  BY DEF UndoCall, NoResult, NoInput
<1>5. loading' = FALSE /\ item' \in Nat /\ lost' \subseteq Nat /\ kind' = "none"
  BY DEF UndoCall, NoResult, NoInput
<1>6. UNCHANGED <<head, tail, count, maxSteps, cells, node, arg, steps, ghost>>
  BY DEF UndoCall
<1>7. TypeOK'
  <2>1. TypeOK BY DEF ListInv
  <2> QED BY <1>1, <1>2, <1>3, <1>4, <1>5, <1>6, <2>1 DEF TypeOK, Pointers, cells, ghost
<1>8. node' = Null BY <1>1, <1>6 DEF ListInv, LoopSound
<1> QED BY <1>1, <1>2, <1>5, <1>6, <1>7, <1>8, FrameInv

\* undo_redo_redo.
LEMMA RedoCallInv == ListInv /\ RedoCall => ListInv'
<1> SUFFICES ASSUME ListInv, RedoCall PROVE ListInv' OBVIOUS
<1>1. /\ pc = "ready" /\ pc' = pc /\ current # tail
      /\ current' = IF current # Null THEN next[current] ELSE head
  BY DEF RedoCall
<1>2. current' \in Cells(order) \union {Null} BY <1>1, CursorFacts
<1>3. Cells(order) \subseteq Nodes BY SeqFacts DEF ListInv, TypeOK
<1>4. out' \in Seq(Cmds) /\ json' \in Seq(Cmds \union {Malformed})
  BY DEF RedoCall, NoResult, NoInput
<1>5. loading' = FALSE /\ item' \in Nat /\ lost' \subseteq Nat /\ kind' = "none"
  BY DEF RedoCall, NoResult, NoInput
<1>6. UNCHANGED <<head, tail, count, maxSteps, cells, node, arg, steps, ghost>>
  BY DEF RedoCall
<1>7. TypeOK'
  <2>1. TypeOK BY DEF ListInv
  <2> QED BY <1>1, <1>2, <1>3, <1>4, <1>5, <1>6, <2>1 DEF TypeOK, Pointers, cells, ghost
<1>8. node' = Null BY <1>1, <1>6 DEF ListInv, LoopSound
<1> QED BY <1>1, <1>2, <1>5, <1>6, <1>7, <1>8, FrameInv

\* A skipped item of undo_redo_deserialize.
LEMMA SkipItemInv == ListInv /\ SkipItem => ListInv'
<1> SUFFICES ASSUME ListInv, SkipItem PROVE ListInv' OBVIOUS
<1>1. /\ pc = "load" /\ pc' = pc /\ item' = item + 1
      /\ UNCHANGED <<hvars, cells, locals, json, result, ghost>>
      /\ lost' \in {lost, lost \union {item}}
  BY DEF SkipItem
<1>2. TypeOK' BY <1>1 DEF ListInv, TypeOK, hvars, cells, locals, result, ghost
<1>3. /\ current' \in Cells(order) \union {Null} /\ node' = Null
      /\ current' = tail /\ loading'
  BY <1>1 DEF ListInv, HeapSound, LoopSound, hvars, locals
<1>4. item' > 0 BY <1>1 DEF ListInv, TypeOK
<1>5. UNCHANGED <<head, tail, count, maxSteps, cells, ghost>> BY <1>1 DEF hvars
<1> QED BY <1>1, <1>2, <1>3, <1>4, <1>5, FrameInv

\* The end of undo_redo_deserialize.
LEMMA LoadDoneInv == ListInv /\ LoadDone => ListInv'
<1> SUFFICES ASSUME ListInv, LoadDone PROVE ListInv' OBVIOUS
<1>1. /\ pc = "load" /\ pc' = "ready" /\ current' = tail /\ kind' = "load"
      /\ UNCHANGED <<head, tail, count, maxSteps, cells, locals, load, ghost>>
  BY DEF LoadDone
<1>2. out' \in Seq(Cmds) BY DEF LoadDone
<1>3. TypeOK' BY <1>1, <1>2 DEF ListInv, TypeOK, Pointers, cells, locals, load, ghost
<1>4. /\ current' \in Cells(order) \union {Null} /\ node' = Null
      /\ loading' => item' > 0
  BY <1>1, CursorFacts DEF ListInv, HeapSound, LoopSound, locals, load
<1> QED BY <1>1, <1>3, <1>4, FrameInv

\* A push below the limit returns.
LEMMA TrimNothingInv == ListInv /\ TrimNothing => ListInv'
<1> SUFFICES ASSUME ListInv, TrimNothing PROVE ListInv' OBVIOUS
<1>1. /\ pc = "trim" /\ UNCHANGED <<hvars, cells, locals, json, lost, result, ghost>>
      /\ count <= maxSteps \/ head = Null
  BY DEF TrimNothing
<1>2. head # Null BY <1>1, CursorFacts, LinkFacts, NullAssumption, SeqFacts, EmptyFact DEF ListInv, LoopSound, TypeOK
<1>3. loading => pc' = "load" /\ item' = item + 1
  BY DEF TrimNothing, Return
<1>4. ~loading => pc' = "ready" /\ item' = item
  BY DEF TrimNothing, Return
<1>5. item \in Nat /\ item' \in Nat /\ pc' \in {"ready", "load"} /\ (loading' => item' > 0)
  BY <1>1, <1>3, <1>4 DEF ListInv, TypeOK, locals
<1>6. TypeOK' BY <1>1, <1>5 DEF ListInv, TypeOK, hvars, cells, locals, result, ghost
<1>7. /\ current' \in Cells(order) \union {Null} /\ node' = Null
      /\ current' = tail
  BY <1>1 DEF ListInv, HeapSound, LoopSound, hvars, locals
<1>8. pc' = "load" => loading' BY <1>1, <1>4 DEF locals
<1>9. UNCHANGED <<head, tail, count, maxSteps, cells, ghost>> BY <1>1 DEF hvars
<1> QED BY <1>1, <1>2, <1>5, <1>6, <1>7, <1>8, <1>9, FrameInv

\* The start of a walk.
LEMMA WalkCallInv ==
  ASSUME ListInv, NEW k \in {"iterate", "count", "serialize"}, WalkCall(k) PROVE ListInv'
<1>1. /\ pc = "ready" /\ pc' \in {"ready", "walk"} /\ kind' = k
      /\ UNCHANGED <<hvars, cells, arg, steps, ghost>>
  BY DEF WalkCall
<1>2. out' \in Seq(Cmds) /\ json' \in Seq(Cmds \union {Malformed})
  BY DEF WalkCall, NoInput
<1>3. loading' = FALSE /\ item' \in Nat /\ lost' \subseteq Nat BY DEF WalkCall, NoInput
<1>4. node' \in {node, head} /\ (pc' = "ready" => node' = node) BY <1>1 DEF WalkCall
<1>8. pc' # "walk" => node' = Null BY <1>1, <1>4 DEF ListInv, LoopSound
<1>5. node' \in live \union {Null} /\ current' \in Cells(order) \union {Null}
  BY <1>1, <1>4, CursorFacts, LinkFacts DEF ListInv, HeapSound, LoopSound, hvars
<1>6. TypeOK' BY <1>1, <1>2, <1>3, <1>4 DEF ListInv, TypeOK, Pointers, hvars, cells, ghost
<1>7. UNCHANGED <<head, tail, count, maxSteps, cells, ghost>> BY <1>1 DEF hvars
<1> QED BY <1>1, <1>3, <1>5, <1>6, <1>7, <1>8, FrameInv

\* serialize passes over a stroke without points.
LEMMA WalkSkipInv == ListInv /\ WalkSkip => ListInv'
<1> SUFFICES ASSUME ListInv, WalkSkip PROVE ListInv' OBVIOUS
<1>1. /\ pc = "walk" /\ pc' = pc /\ node # Null /\ node' = next[node]
      /\ UNCHANGED <<hvars, cells, arg, steps, loading, load, result, ghost>>
  BY DEF WalkSkip
<1>2. /\ node' \in live \union {Null} /\ current' \in Cells(order) \union {Null}
      /\ loading' => item' > 0
  BY <1>1, CursorFacts, LinkFacts DEF ListInv, HeapSound, LoopSound, hvars, load
<1>3. live \subseteq Nodes BY DEF ListInv, TypeOK
<1>4. TypeOK' BY <1>1, <1>2, <1>3 DEF ListInv, TypeOK, Pointers, hvars, cells, load, result, ghost
<1>5. UNCHANGED <<head, tail, count, maxSteps, cells, ghost>> BY <1>1 DEF hvars
<1> QED BY <1>1, <1>2, <1>4, <1>5, FrameInv

\* A walk visits a stroke.
LEMMA WalkVisitInv == ListInv /\ WalkVisit => ListInv'
<1> SUFFICES ASSUME ListInv, WalkVisit PROVE ListInv' OBVIOUS
<1>1. /\ pc = "walk" /\ pc' \in {"walk", "ready"} /\ node # Null
      /\ node' \in {next[node], Null} /\ (pc' = "ready" => node' = Null) /\ out' = Append(out, data[node].cmd)
      /\ UNCHANGED <<hvars, cells, arg, steps, loading, load, kind, ghost>>
  BY DEF WalkVisit
<1>2. /\ node' \in live \union {Null} /\ current' \in Cells(order) \union {Null}
      /\ loading' => item' > 0
  BY <1>1, CursorFacts, LinkFacts DEF ListInv, HeapSound, LoopSound, hvars, load
<1>3. live \subseteq Nodes BY DEF ListInv, TypeOK
<1>6. out' \in Seq(Cmds)
  <2>1. data[node] \in Entries BY <1>1 DEF ListInv, LoopSound, HeapSound
  <2>2. data[node].cmd \in Cmds BY <2>1 DEF Entries
  <2>3. out \in Seq(Cmds) BY DEF ListInv, TypeOK
  <2> QED BY <1>1, <2>2, <2>3
<1>4. TypeOK' BY <1>1, <1>2, <1>3, <1>6 DEF ListInv, TypeOK, Pointers, hvars, cells, load, ghost
<1>5. UNCHANGED <<head, tail, count, maxSteps, cells, ghost>> BY <1>1 DEF hvars
<1> QED BY <1>1, <1>2, <1>4, <1>5, FrameInv

\* A walk ends behind the tail.
LEMMA WalkOffInv == ListInv /\ WalkOff => ListInv'
<1> SUFFICES ASSUME ListInv, WalkOff PROVE ListInv' OBVIOUS
<1>1. /\ pc = "walk" /\ pc' = "ready" /\ node = Null
      /\ UNCHANGED <<hvars, cells, locals, load, result, ghost>>
  BY DEF WalkOff
<1>2. /\ node' = Null /\ current' \in Cells(order) \union {Null}
      /\ loading' => item' > 0
  BY <1>1 DEF ListInv, HeapSound, LoopSound, hvars, load, locals
<1>4. TypeOK' BY <1>1, <1>2 DEF ListInv, TypeOK, Pointers, hvars, cells, locals, load, result, ghost
<1>5. UNCHANGED <<head, tail, count, maxSteps, cells, ghost>> BY <1>1 DEF hvars
<1> QED BY <1>1, <1>2, <1>4, <1>5, FrameInv

--------------------------------------------------------------------------------
\* Every step of every call keeps the invariant.
LEMMA NextListInv == ListInv /\ [Next]_vars => ListInv'
<1> SUFFICES ASSUME ListInv, [Next]_vars PROVE ListInv' OBVIOUS
<1>1. CASE \E m \in Limits : ResetCall(m) BY <1>1, ResetCallInv
<1>2. CASE FreeNode BY <1>2, FreeNodeInv
<1>3. CASE ResetDone BY <1>3, ResetDoneInv
<1>4. CASE \E c \in Cmds, h \in Outcomes : PushCall([cmd |-> c, held |-> h])
  <2>1. PICK c \in Cmds, h \in Outcomes : PushCall([cmd |-> c, held |-> h]) BY <1>4
  <2>2. h \in BOOLEAN BY <2>1, FailAssumption DEF Outcomes
  <2>3. [cmd |-> c, held |-> h] \in Entries BY <2>1, <2>2 DEF Entries
  <2> QED BY <2>1, <2>3, PushCallInv
<1>5. CASE CutDone BY <1>5, CutDoneInv
<1>6. CASE \E n \in Nodes : LinkNode(n) BY <1>6, LinkNodeInv
<1>7. CASE TrimNothing BY <1>7, TrimNothingInv
<1>8. CASE TrimHead BY <1>8, TrimHeadInv
<1>9. CASE UndoCall BY <1>9, UndoCallInv
<1>10. CASE RedoCall BY <1>10, RedoCallInv
<1>11. CASE \E s \in Inputs : LoadCall(s) BY <1>11, LoadCallInv
<1>12. CASE SkipItem BY <1>12, SkipItemInv
<1>13. CASE \E h \in Outcomes : LoadItem(h) BY <1>13, LoadItemInv
<1>14. CASE LoadDone BY <1>14, LoadDoneInv
<1>15. CASE \E k \in {"iterate", "count", "serialize"} : WalkCall(k) BY <1>15, WalkCallInv
<1>16. CASE WalkSkip BY <1>16, WalkSkipInv
<1>17. CASE WalkVisit BY <1>17, WalkVisitInv
<1>18. CASE WalkOff BY <1>18, WalkOffInv
<1>19. CASE UNCHANGED vars
  BY <1>19 DEF ListInv, TypeOK, HeapSound, ListShape, CountSound, LoopSound, vars,
     hvars, cells, locals, load, result, ghost
<1> QED BY <1>1, <1>2, <1>3, <1>4, <1>5, <1>6, <1>7, <1>8, <1>9, <1>10, <1>11, <1>12,
           <1>13, <1>14, <1>15, <1>16, <1>17, <1>18, <1>19 DEF Next

\* The list of undo_redo.c is well formed at every step of every call:
\* typed, without leak, double free or dangling pointer, in push order,
\* counted and within its limit.
THEOREM ListInvariant == Spec => []ListInv
<1>1. Init => ListInv BY InitListInv
<1>2. ListInv /\ [Next]_vars => ListInv' BY NextListInv
<1> QED BY <1>1, <1>2, PTL DEF Spec

\* In particular the memory of undo_redo.c is sound, and its list has the
\* shape and the length its counters say.
COROLLARY ListSafety == Spec => [](HeapSound /\ ListShape /\ CountSound)
<1>1. ListInv => HeapSound /\ ListShape /\ CountSound BY DEF ListInv
<1> QED BY <1>1, ListInvariant, PTL

--------------------------------------------------------------------------------
(* Every call comes to an end *)

\* A load never leaves its array: there is an item while one is pushed, and
\* one less to read than items and the end.
ItemsSound ==
  /\ loading => item <= Len(json) + 1
  /\ loading /\ pc \in {"cut", "append", "trim"} => item <= Len(json)
  /\ pc = "load" => current = tail

WorkInv == ListInv /\ ItemsSound

LEMMA ItemsFacts ==
  ASSUME WorkInv
  PROVE  /\ item \in Nat /\ Len(json) \in Nat /\ loading \in BOOLEAN
         /\ ~ loading => Items = 0
         /\ loading => Items = 4 * (Len(json) - item) + 1 /\ Items \in Int /\ Items + 3 >= 0
         /\ pc \in {"cut", "append", "trim"} => Items \in Nat
         /\ pc = "load" => loading
<1>1. item \in Nat /\ json \in Seq(Cmds \union {Malformed}) /\ loading \in BOOLEAN
  BY DEF WorkInv, ListInv, TypeOK
<1>2. PICK n \in Nat : n = Len(json)
  BY <1>1
<1>3. /\ loading => item <= n + 1
      /\ loading /\ pc \in {"cut", "append", "trim"} => item <= n
      /\ pc = "load" => loading
  BY <1>2 DEF WorkInv, ListInv, LoopSound, ItemsSound
<1>4. Items = IF loading THEN 4 * (n - item) + 1 ELSE 0
  BY <1>2 DEF Items
<1>5. /\ loading => 4 * (n - item) + 1 \in Int /\ 4 * (n - item) + 1 + 3 >= 0
      /\ loading /\ item <= n => 4 * (n - item) + 1 \in Nat
  BY <1>1, <1>3
<1> QED BY <1>1, <1>2, <1>3, <1>4, <1>5

\* A walk is at a cell of the list, or behind it.
LEMMA BeyondFacts ==
  ASSUME ListInv, pc = "walk"
  PROVE  /\ Len(order) \in Nat /\ DOMAIN order = 1..Len(order)
         /\ node = Null => Beyond = 0
         /\ node # Null => \E k \in 1..Len(order) :
              /\ order[k] = node /\ Beyond = Len(order) + 1 - k
              /\ next[node] = IF k = Len(order) THEN Null ELSE order[k + 1]
<1>1. /\ order \in Seq(Nodes) /\ DOMAIN order = 1..Len(order) /\ Len(order) \in Nat
  BY DEF ListInv, TypeOK
<1>2. ASSUME node # Null
      PROVE  \E k \in 1..Len(order) :
               /\ order[k] = node /\ Beyond = Len(order) + 1 - k
               /\ next[node] = IF k = Len(order) THEN Null ELSE order[k + 1]
  <2>1. node \in Cells(order)
    BY <1>2, LinkFacts DEF ListInv, HeapSound
  <2>2. PICK k \in DOMAIN order : order[k] = node
    BY <2>1 DEF Cells
  <2>3. (CHOOSE i \in DOMAIN order : order[i] = node) = k
    BY <2>2 DEF ListInv, HeapSound, Distinct
  <2>4. Beyond = Len(order) + 1 - k
    BY <1>2, <2>3 DEF Beyond
  <2>5. next[node] = IF k = Len(order) THEN Null ELSE order[k + 1]
    BY <2>2, LinkFacts
  <2> QED BY <1>1, <2>2, <2>4, <2>5
<1>3. node = Null => Beyond = 0
  BY DEF Beyond
<1> QED BY <1>1, <1>2, <1>3

\* The value of Work at each place of the code.
LEMMA WorkCases ==
  /\ pc = "ready" => Work = 0
  /\ pc = "trim" => Work = Items + 1
  /\ pc = "append" => Work = Items + 2
  /\ pc = "cut" => Work = Items + 3 + Len(doomed)
  /\ pc = "load" => Work = Items + 4
  /\ pc = "reset" => Work = Items + 5 + Len(doomed)
  /\ pc = "walk" => Work = Beyond + 1
BY DEF Work

\* A call has returned when nothing is left to do.
LEMMA WorkRange == WorkInv => Work \in Nat /\ (Work = 0 <=> pc = "ready")
<1> SUFFICES ASSUME WorkInv PROVE Work \in Nat /\ (Work = 0 <=> pc = "ready")
  OBVIOUS
<1>1. pc \in {"ready", "reset", "cut", "append", "trim", "load", "walk"}
  BY DEF WorkInv, ListInv, TypeOK
<1>2. PICK d \in Nat : d = Len(doomed)
  BY DEF WorkInv, ListInv, TypeOK
<1>3. CASE pc = "ready"
  BY <1>3, WorkCases
<1>4. CASE pc \in {"cut", "append", "trim"}
  <2>1. Items \in Nat BY <1>4, ItemsFacts
  <2> QED BY <1>2, <1>4, <2>1, WorkCases
<1>5. CASE pc \in {"load", "reset"}
  <2>1. Items \in Int /\ Items + 3 >= 0 BY ItemsFacts
  <2> QED BY <1>2, <1>5, <2>1, WorkCases
<1>6. CASE pc = "walk"
  <2>1. Beyond \in Nat
    <3>1. CASE node = Null BY <1>6, <3>1, BeyondFacts DEF WorkInv
    <3>2. CASE node # Null
      <4>1. Len(order) \in Nat BY <1>6, BeyondFacts DEF WorkInv
      <4>2. PICK k \in 1..Len(order) : Beyond = Len(order) + 1 - k
        BY <1>6, <3>2, BeyondFacts DEF WorkInv
      <4> QED BY <4>1, <4>2
    <3> QED BY <3>1, <3>2
  <2> QED BY <1>6, <2>1, WorkCases
<1> QED BY <1>1, <1>3, <1>4, <1>5, <1>6

LEMMA WorkCasesNext == (/\ pc = "ready" => Work = 0
                        /\ pc = "trim" => Work = Items + 1
                        /\ pc = "append" => Work = Items + 2
                        /\ pc = "cut" => Work = Items + 3 + Len(doomed)
                        /\ pc = "load" => Work = Items + 4
                        /\ pc = "reset" => Work = Items + 5 + Len(doomed)
                        /\ pc = "walk" => Work = Beyond + 1)'
BY WorkCases, PTL

LEMMA WorkRangeNext == (WorkInv => Work \in Nat /\ (Work = 0 <=> pc = "ready"))'
BY WorkRange, PTL

\* The loops that free: one cell less.
LEMMA FreeNodeShrinks == WorkInv /\ FreeNode => ItemsSound' /\ Work' < Work
<1> SUFFICES ASSUME WorkInv, FreeNode PROVE ItemsSound' /\ Work' < Work
  OBVIOUS
<1>1. /\ pc \in {"reset", "cut"} /\ pc' = pc /\ loading' = loading /\ item' = item /\ json' = json
      /\ doomed' = Tail(doomed)
  BY DEF FreeNode, load
<1>2. doomed \in Seq(Nodes) /\ doomed # <<>>
  BY <1>1 DEF FreeNode, WorkInv, ListInv, TypeOK, LoopSound
<1>3. Len(doomed') = Len(doomed) - 1 /\ Len(doomed) \in Nat
  BY <1>1, <1>2
<1>4. Items' = Items /\ Items \in Int
  <2>1. Items' = Items BY <1>1 DEF Items
  <2> QED BY <2>1, ItemsFacts
<1>5. Work' < Work
  <2>1. PICK d \in Nat : d = Len(doomed) /\ Len(doomed') = d - 1 BY <1>3
  <2>2. CASE pc = "reset"
    <3>1. Work = Items + 5 + d /\ Work' = Items' + 5 + (d - 1)
      BY <1>1, <2>1, <2>2, WorkCases, WorkCasesNext
    <3> QED BY <1>4, <3>1
  <2>3. CASE pc = "cut"
    <3>1. Work = Items + 3 + d /\ Work' = Items' + 3 + (d - 1)
      BY <1>1, <2>1, <2>3, WorkCases, WorkCasesNext
    <3> QED BY <1>4, <3>1
  <2> QED BY <1>1, <2>2, <2>3
<1> QED BY <1>1, <1>5 DEF ItemsSound, WorkInv

LEMMA ResetDoneShrinks == WorkInv /\ ResetDone => ItemsSound' /\ Work' < Work
<1> SUFFICES ASSUME WorkInv, ResetDone PROVE ItemsSound' /\ Work' < Work
  OBVIOUS
<1>1. /\ pc = "reset" /\ pc' = (IF loading THEN "load" ELSE "ready") /\ loading' = loading
      /\ item' = item /\ json' = json /\ current' = tail'
  BY DEF ResetDone, load
<1>2. PICK d \in Nat : d = Len(doomed)
  BY DEF WorkInv, ListInv, TypeOK
<1>3. Items' = Items /\ Items \in Int /\ Items + 3 >= 0
  <2>1. Items' = Items BY <1>1 DEF Items
  <2> QED BY <2>1, ItemsFacts
<1>4. Work' < Work
  BY <1>1, <1>2, <1>3, WorkCases, WorkCasesNext
<1> QED BY <1>1, <1>4 DEF ItemsSound, WorkInv

\* Within push: from the cut to the new node to the limit.
LEMMA PushShrinks ==
  ASSUME WorkInv, CutDone \/ \E n \in Nodes : LinkNode(n)
  PROVE  ItemsSound' /\ Work' < Work
<1>1. /\ (pc = "cut" /\ pc' = "append") \/ (pc = "append" /\ pc' = "trim")
      /\ loading' = loading /\ item' = item /\ json' = json
  BY DEF CutDone, LinkNode, load, locals
<1>2. PICK d \in Nat : d = Len(doomed)
  BY DEF WorkInv, ListInv, TypeOK
<1>3. Items' = Items /\ Items \in Nat
  <2>1. Items' = Items BY <1>1 DEF Items
  <2> QED BY <1>1, <2>1, ItemsFacts
<1>4. Work' < Work
  BY <1>1, <1>2, <1>3, WorkCases, WorkCasesNext
<1> QED BY <1>1, <1>4 DEF ItemsSound, WorkInv

\* Back from push: one item less, or the call is over.
LEMMA TrimShrinks ==
  ASSUME WorkInv, TrimNothing \/ TrimHead
  PROVE  ItemsSound' /\ Work' < Work
<1>1. /\ pc = "trim" /\ loading' = loading /\ json' = json
      /\ IF loading THEN pc' = "load" /\ item' = item + 1 ELSE pc' = "ready" /\ item' = item
  BY DEF TrimNothing, TrimHead, Return, locals
<1>2. current' = tail'
  <2>1. current = tail BY <1>1 DEF WorkInv, ListInv, LoopSound
  <2> QED BY <2>1 DEF TrimNothing, TrimHead, hvars
<1>3. CASE loading
  <2>1. PICK n \in Nat : n = Len(json) BY ItemsFacts
  <2>2. Items = 4 * (n - item) + 1 /\ item \in Nat BY <1>3, <2>1, ItemsFacts
  <2>3. item <= n BY <1>1, <1>3, <2>1 DEF WorkInv, ItemsSound
  <2>4. Items' = 4 * (n - (item + 1)) + 1 BY <1>1, <1>3, <2>1 DEF Items
  <2>5. Work = Items + 1 /\ Work' = Items' + 4 BY <1>1, <1>3, WorkCases, WorkCasesNext
  <2>6. Work' < Work BY <2>2, <2>4, <2>5
  <2>7. ItemsSound' BY <1>1, <1>2, <1>3, <2>1, <2>2, <2>3 DEF ItemsSound
  <2> QED BY <2>6, <2>7
<1>4. CASE ~ loading
  <2>1. Items \in Nat BY <1>1, ItemsFacts
  <2>2. Work' < Work BY <1>1, <1>4, <2>1, WorkCases, WorkCasesNext
  <2>3. ItemsSound' BY <1>1, <1>4 DEF ItemsSound
  <2> QED BY <2>2, <2>3
<1> QED BY <1>3, <1>4

\* The loop over the items of a file.
LEMMA SkipItemShrinks == WorkInv /\ SkipItem => ItemsSound' /\ Work' < Work
<1> SUFFICES ASSUME WorkInv, SkipItem PROVE ItemsSound' /\ Work' < Work
  OBVIOUS
<1>1. /\ pc = "load" /\ pc' = "load" /\ loading' = loading /\ json' = json
      /\ item <= Len(json) /\ item' = item + 1 /\ current' = current /\ tail' = tail
  BY DEF SkipItem, locals, hvars
<1>2. loading
  BY <1>1, ItemsFacts
<1>3. PICK n \in Nat : n = Len(json)
  BY ItemsFacts
<1>4. Items = 4 * (n - item) + 1 /\ item \in Nat
  BY <1>2, <1>3, ItemsFacts
<1>5. Items' = 4 * (n - (item + 1)) + 1
  BY <1>1, <1>2, <1>3 DEF Items
<1>6. Work = Items + 4 /\ Work' = Items' + 4
  BY <1>1, WorkCases, WorkCasesNext
<1>7. Work' < Work
  BY <1>4, <1>5, <1>6
<1>8. ItemsSound'
  BY <1>1, <1>3, <1>4 DEF ItemsSound, WorkInv
<1> QED BY <1>7, <1>8

LEMMA LoadItemShrinks == ASSUME WorkInv, NEW h, LoadItem(h) PROVE ItemsSound' /\ Work' < Work
<1>1. pc = "load" /\ loading' = loading /\ json' = json /\ item' = item /\ item <= Len(json)
  BY DEF LoadItem, load
<1>2. pc' = "append"
  BY <1>1 DEF LoadItem, EnterPush, WorkInv, ItemsSound
<1>3. Items' = Items /\ Items \in Int
  <2>1. Items' = Items BY <1>1 DEF Items
  <2> QED BY <1>1, <2>1, ItemsFacts
<1>4. Work = Items + 4 /\ Work' = Items' + 2
  BY <1>1, <1>2, WorkCases, WorkCasesNext
<1>5. Work' < Work
  BY <1>3, <1>4
<1>6. ItemsSound'
  <2>1. item \in Nat /\ Len(json) \in Nat BY ItemsFacts
  <2> QED BY <1>1, <1>2, <2>1 DEF ItemsSound
<1> QED BY <1>5, <1>6

\* The loops that walk: one cell less.
LEMMA WalkShrinks ==
  ASSUME WorkInv, WorkInv', WalkSkip \/ WalkVisit \/ WalkOff
  PROVE  Work' < Work
<1>1. pc = "walk" /\ order' = order /\ pc' \in {"walk", "ready"}
  BY DEF WalkSkip, WalkVisit, WalkOff, ghost
<1>2. Work \in Nat /\ Work # 0
  BY <1>1, WorkRange
<1>3. CASE pc' = "ready"
  BY <1>2, <1>3, WorkCasesNext
<1>4. CASE pc' = "walk"
  <2>1. node # Null /\ node' = next[node]
    BY <1>1, <1>4 DEF WalkSkip, WalkVisit, WalkOff
  <2>2. PICK k \in 1..Len(order) :
          /\ order[k] = node /\ Beyond = Len(order) + 1 - k
          /\ next[node] = IF k = Len(order) THEN Null ELSE order[k + 1]
    BY <1>1, <2>1, BeyondFacts DEF WorkInv
  <2>3. PICK n \in Nat : n = Len(order) /\ DOMAIN order = 1..n
    BY <1>1, BeyondFacts DEF WorkInv
  <2>4. \/ node' = Null /\ Beyond' = 0
        \/ k # n /\ node' # Null /\ Beyond' = n + 1 - (k + 1)
    <3>1. order \in Seq(Nodes) /\ Distinct(order)
      BY DEF WorkInv, ListInv, TypeOK, HeapSound
    <3>2. CASE k = n
      BY <2>1, <2>2, <2>3, <3>2 DEF Beyond
    <3>3. CASE k # n
      <4>1. k + 1 \in DOMAIN order /\ order[k + 1] \in Nodes /\ node' = order[k + 1]
        BY <2>1, <2>2, <2>3, <3>1, <3>3
      <4>2. (CHOOSE i \in DOMAIN order : order[i] = order[k + 1]) = k + 1
        BY <3>1, <4>1 DEF Distinct
      <4>3. node' # Null
        BY <4>1, NullAssumption
      <4>4. Beyond' = n + 1 - (CHOOSE i \in DOMAIN order : order[i] = order[k + 1])
        BY <1>1, <2>3, <4>1, <4>3 DEF Beyond
      <4> QED BY <3>3, <4>2, <4>3, <4>4
    <3> QED BY <3>2, <3>3
  <2>5. Work = Beyond + 1 /\ Work' = Beyond' + 1
    BY <1>1, <1>4, WorkCases, WorkCasesNext
  <2> QED BY <2>2, <2>3, <2>4, <2>5
<1> QED BY <1>1, <1>3, <1>4

\* A call that starts, or one that returns at once, has no load of an older
\* call in it.
LEMMA CallsStart ==
  ASSUME ListInv, [Next]_vars, ItemsSound, pc = "ready"
  PROVE  ItemsSound'
<1>1. ASSUME loading' = FALSE, pc' # "load" PROVE ItemsSound'
  BY <1>1 DEF ItemsSound
<1>2. CASE \E m \in Limits : ResetCall(m)
  BY <1>1, <1>2 DEF ResetCall, EnterReset, NoInput
<1>3. CASE \E e \in Entries : PushCall(e)
  BY <1>1, <1>3 DEF PushCall, EnterPush, NoInput
<1>4. CASE UndoCall \/ RedoCall
  BY <1>1, <1>4 DEF UndoCall, RedoCall, NoInput
<1>5. CASE \E s \in Inputs : LoadCall(s)
  <2>1. PICK s \in Inputs : LoadCall(s)
    BY <1>5
  <2>2. Len(s) \in Nat
    BY <2>1, MaxItemsAssumption DEF Inputs
  <2> QED BY <2>1, <2>2 DEF LoadCall, EnterReset, ItemsSound
<1>6. CASE \E k \in {"iterate", "count", "serialize"} : WalkCall(k)
  BY <1>1, <1>6 DEF WalkCall, NoInput
<1>7. CASE UNCHANGED vars
  BY <1>7 DEF vars, hvars, locals, load, ItemsSound
<1>8. ASSUME NEW c \in Cmds, NEW h \in Outcomes, PushCall([cmd |-> c, held |-> h])
      PROVE  \E e \in Entries : PushCall(e)
  <2>1. [cmd |-> c, held |-> h] \in Entries
    BY FailAssumption DEF Entries, Outcomes
  <2> QED BY <1>8, <2>1
<1>9. ~ (\/ FreeNode \/ ResetDone \/ CutDone \/ \E n \in Nodes : LinkNode(n)
         \/ TrimNothing \/ TrimHead \/ SkipItem \/ (\E h \in Outcomes : LoadItem(h))
         \/ LoadDone \/ WalkSkip \/ WalkVisit \/ WalkOff)
  BY DEF FreeNode, ResetDone, CutDone, LinkNode, TrimNothing, TrimHead, SkipItem, LoadItem,
         LoadDone, WalkSkip, WalkVisit, WalkOff
<1> QED BY <1>2, <1>3, <1>4, <1>5, <1>6, <1>7, <1>8, <1>9 DEF Next

\* A call that is running.
LEMMA CallsGoOn ==
  ASSUME WorkInv, ListInv', Next, pc # "ready"
  PROVE  ItemsSound' /\ Work' < Work
<1>1. CASE FreeNode BY <1>1, FreeNodeShrinks
<1>2. CASE ResetDone BY <1>2, ResetDoneShrinks
<1>3. CASE CutDone \/ \E n \in Nodes : LinkNode(n) BY <1>3, PushShrinks
<1>4. CASE TrimNothing \/ TrimHead BY <1>4, TrimShrinks
<1>5. CASE SkipItem BY <1>5, SkipItemShrinks
<1>6. CASE \E h \in Outcomes : LoadItem(h) BY <1>6, LoadItemShrinks
<1>7. CASE LoadDone
  <2>1. pc' = "ready" /\ loading' = loading /\ item' = item /\ json' = json
    BY <1>7 DEF LoadDone, locals, load
  <2>2. Work \in Nat /\ Work # 0 BY WorkRange
  <2>3. Work' = 0 BY <2>1, WorkCasesNext
  <2> QED BY <2>1, <2>2, <2>3 DEF ItemsSound, WorkInv
<1>8. CASE WalkSkip \/ WalkVisit \/ WalkOff
  <2>1. /\ pc = "walk" /\ pc' \in {"walk", "ready"} /\ loading' = loading
        /\ item' = item /\ json' = json
    BY <1>8 DEF WalkSkip, WalkVisit, WalkOff, load, locals
  <2>2. ItemsSound' BY <2>1 DEF ItemsSound, WorkInv
  <2> QED BY <1>8, <2>2, WalkShrinks DEF WorkInv
<1>9. ~ (\/ \E m \in Limits : ResetCall(m)
         \/ \E c \in Cmds, h \in Outcomes : PushCall([cmd |-> c, held |-> h])
         \/ UndoCall \/ RedoCall \/ (\E s \in Inputs : LoadCall(s))
         \/ \E k \in {"iterate", "count", "serialize"} : WalkCall(k))
  BY DEF ResetCall, PushCall, UndoCall, RedoCall, LoadCall, WalkCall
<1> QED BY <1>1, <1>2, <1>3, <1>4, <1>5, <1>6, <1>7, <1>8, <1>9 DEF Next

\* undo_redo.c: every step of a call that has started leaves less of it to do,
\* and a call of which nothing is left has returned; so no list, file or failed
\* allocation keeps one of its loops going.
THEOREM CallsComeToAnEnd == Spec => CallsShrink
<1>1. Init => WorkInv
  BY InitListInv DEF Init, WorkInv, ItemsSound
<1>2. WorkInv /\ [Next]_vars => ItemsSound' /\ ListInv'
  <2> SUFFICES ASSUME WorkInv, [Next]_vars PROVE ItemsSound' /\ ListInv'
    OBVIOUS
  <2>1. ListInv' BY NextListInv DEF WorkInv
  <2>2. CASE pc = "ready" BY <2>1, <2>2, CallsStart DEF WorkInv
  <2>3. CASE pc # "ready" /\ Next BY <2>1, <2>3, CallsGoOn
  <2>4. CASE UNCHANGED vars
    BY <2>1, <2>4 DEF vars, hvars, locals, load, ItemsSound, WorkInv
  <2> QED BY <2>2, <2>3, <2>4
<1>3. WorkInv /\ [Next]_vars => WorkInv'
  BY <1>2 DEF WorkInv
<1>4. WorkInv /\ WorkInv' /\ [Next]_vars =>
        [/\ Work' \in Nat /\ (Work' = 0 <=> pc' = "ready")
         /\ pc # "ready" => Work' < Work]_vars
  <2> SUFFICES ASSUME WorkInv, WorkInv', Next
               PROVE  /\ Work' \in Nat /\ (Work' = 0 <=> pc' = "ready")
                      /\ pc # "ready" => Work' < Work
    OBVIOUS
  <2>1. Work' \in Nat /\ (Work' = 0 <=> pc' = "ready") BY WorkRangeNext
  <2>2. pc # "ready" => Work' < Work BY CallsGoOn DEF WorkInv
  <2> QED BY <2>1, <2>2
<1> QED BY <1>1, <1>3, <1>4, PTL DEF Spec, CallsShrink
===============================================================================

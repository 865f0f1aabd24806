--------------------------- MODULE UndoListRefines ---------------------------
(***************************************************************************)
(* The pointer code of UndoList implements the log of UndoLog, for every   *)
(* set of cells, commands and limits.  A call of the code takes effect     *)
(* when it starts (Hist): the loops that follow are stutters of the log.   *)
(* One lemma per action says which step of the log it is.  Then: what the  *)
(* walks return is what is on screen, and what a load leaves is the newest *)
(* of the file.                                                            *)
(***************************************************************************)
EXTENDS UndoListProofs, FiniteSetTheorems

\* A limit comes from a call of init, or is the default of undo_redo.c 267.
THEOREM LimitInvariant == Spec => []LimitSound
<1>1. Init => LimitSound BY DEF Init, LimitSound
<1>2. LimitSound /\ [Next]_vars => LimitSound'
  <2> SUFFICES ASSUME LimitSound, [Next]_vars PROVE LimitSound' OBVIOUS
  <2> USE DEF LimitSound
  <2>1. ASSUME NEW m \in Limits, ResetCall(m) PROVE LimitSound'
    BY <2>1 DEF ResetCall, EnterReset, hvars
  <2>2. ASSUME NEW s \in Inputs, LoadCall(s) PROVE LimitSound'
    BY <2>2, LimitsAssumption DEF LoadCall, EnterReset, LoadLimit, hvars
  <2>3. CASE FreeNode BY <2>3 DEF FreeNode
  <2>4. CASE ResetDone BY <2>4 DEF ResetDone
  <2>5. ASSUME NEW e, PushCall(e) PROVE LimitSound' BY <2>5 DEF PushCall, EnterPush, hvars
  <2>6. ASSUME NEW h, LoadItem(h) PROVE LimitSound' BY <2>6 DEF LoadItem, EnterPush, hvars
  <2>7. CASE CutDone BY <2>7 DEF CutDone, locals
  <2>8. ASSUME NEW n \in Nodes, LinkNode(n) PROVE LimitSound' BY <2>8 DEF LinkNode
  <2>9. CASE TrimNothing \/ TrimHead
    BY <2>9 DEF TrimNothing, TrimHead, Return, hvars
  <2>10. CASE UndoCall \/ RedoCall BY <2>10 DEF UndoCall, RedoCall
  <2>11. CASE SkipItem \/ LoadDone BY <2>11 DEF SkipItem, LoadDone, hvars
  <2>12. ASSUME NEW k, WalkCall(k) PROVE LimitSound' BY <2>12 DEF WalkCall, hvars
  <2>13. CASE WalkSkip \/ WalkVisit \/ WalkOff BY <2>13 DEF WalkSkip, WalkVisit, WalkOff, hvars
  <2>14. CASE UNCHANGED vars BY <2>14 DEF vars, hvars, locals
  <2> QED BY <2>1, <2>2, <2>3, <2>4, <2>5, <2>6, <2>7, <2>8, <2>9, <2>10, <2>11, <2>12,
             <2>13, <2>14 DEF Next
<1> QED BY <1>1, <1>2, PTL DEF Spec

\* The content of the list is a sequence of strokes, one per cell.
LEMMA ContentFacts ==
  ASSUME ListInv
  PROVE  /\ Content \in Seq(Entries) /\ Len(Content) = Len(order)
         /\ DOMAIN Content = 1..Len(order)
         /\ \A i \in 1..Len(order) : Content[i] = data[order[i]]
<1>1. /\ order \in Seq(Nodes) /\ DOMAIN order = 1..Len(order) /\ Len(order) \in Nat
  BY DEF ListInv, TypeOK
<1>2. \A i \in 1..Len(order) : data[order[i]] \in Entries
  BY <1>1 DEF ListInv, HeapSound, LoopSound, Cells
<1>3. Content = [i \in 1..Len(order) |-> data[order[i]]] BY <1>1 DEF Content
<1> QED BY <1>1, <1>2, <1>3

\* Two sequences with the same elements are equal.
LEMMA SameSeq ==
  ASSUME NEW S, NEW s \in Seq(S), NEW t \in Seq(S), Len(s) = Len(t),
         \A i \in 1..Len(s) : s[i] = t[i]
  PROVE  s = t
  OBVIOUS

\* The same, one step later.
LEMMA ContentFactsNext == (ListInv => Len(Content) = Len(order))'
<1>1. ListInv => Len(Content) = Len(order) BY ContentFacts
<1> QED BY <1>1, PTL

\* undo_redo.c 59-81: a new cell puts its stroke at the end.
LEMMA LinkContent ==
  ASSUME ListInv, NEW n \in Nodes, LinkNode(n)
  PROVE  /\ Content' = Append(Content, arg) /\ Content' \in Seq(Entries) /\ arg \in Entries
         /\ order' = Append(order, n) /\ Len(order') = Len(order) + 1
<1>1. /\ n \notin live /\ arg \in Entries
      /\ order' = Append(order, n) /\ data' = [data EXCEPT ![n] = arg]
  BY DEF LinkNode, ListInv, LoopSound
<1>2. PICK c : c = Content OBVIOUS
<1>3. PICK d : d = Content' OBVIOUS
<1>4. /\ c \in Seq(Entries) /\ Len(c) = Len(order) /\ Len(order) \in Nat
      /\ \A i \in 1..Len(order) : c[i] = data[order[i]]
  BY <1>2, ContentFacts DEF ListInv, TypeOK
<1>5. /\ order \in Seq(Nodes) /\ DOMAIN order = 1..Len(order)
      /\ DOMAIN order' = 1..Len(order) + 1 /\ order'[Len(order) + 1] = n
      /\ \A i \in 1..Len(order) : order'[i] = order[i]
  <2>1. order \in Seq(Nodes) BY DEF ListInv, TypeOK
  <2> QED BY <2>1, <1>1, AppendFacts
<1>6. \A i \in 1..Len(order) : order[i] \in live /\ order[i] \in Nodes
  BY <1>5 DEF ListInv, HeapSound, Cells
<1>7. data \in [Nodes -> Entries \union {Junk}] BY DEF ListInv, TypeOK
<1>8. data'[n] = arg /\ \A i \in 1..Len(order) : data'[order[i]] = data[order[i]]
  BY <1>1, <1>6, <1>7
<1>9. d = [i \in 1..Len(order) + 1 |-> data'[order'[i]]] BY <1>3, <1>5 DEF Content
<1>10. /\ d[Len(order) + 1] = arg
       /\ \A i \in 1..Len(order) : d[i] = c[i]
  BY <1>4, <1>5, <1>8, <1>9
<1>11. d \in Seq(Entries) /\ Len(d) = Len(order) + 1
  <2>1. \A i \in 1..Len(order) + 1 : i \in 1..Len(order) \/ i = Len(order) + 1 BY <1>4
  <2>2. \A i \in 1..Len(order) : c[i] \in Entries BY <1>4
  <2>3. \A i \in 1..Len(order) + 1 : d[i] \in Entries BY <1>1, <1>10, <2>1, <2>2
  <2>4. d \in [1..Len(order) + 1 -> Entries] BY <1>9, <2>3
  <2> QED BY <1>4, <2>4
<1>12. d = Append(c, arg)
  <2>1. /\ Append(c, arg) \in Seq(Entries) /\ Len(Append(c, arg)) = Len(c) + 1
        /\ Append(c, arg)[Len(c) + 1] = arg
        /\ \A i \in 1..Len(c) : Append(c, arg)[i] = c[i]
    BY <1>1, <1>4, AppendFacts
  <2>2. \A i \in 1..Len(d) : i \in 1..Len(order) \/ i = Len(order) + 1 BY <1>4, <1>11
  <2>3. \A i \in 1..Len(d) : d[i] = Append(c, arg)[i] BY <2>1, <2>2, <1>4, <1>10
  <2> QED BY <2>1, <2>3, <1>4, <1>11, SameSeq
<1>13. Len(order') = Len(order) + 1
  BY <1>1, <1>5, AppendFacts
<1> QED BY <1>1, <1>2, <1>3, <1>11, <1>12, <1>13

\* undo_redo.c 84-98: the cell dropped is the oldest stroke.
LEMMA TrimContent ==
  ASSUME ListInv, ListInv', TrimHead
  PROVE  /\ Content' = Tail(Content) /\ Content # <<>>
         /\ order # <<>> /\ order' = Tail(order) /\ Len(order') = Len(order) - 1
         /\ Len(order) > maxSteps
<1>1. /\ pc = "trim" /\ count > maxSteps
      /\ order' = Tail(order) /\ data' = [data EXCEPT ![head] = Junk]
  BY DEF TrimHead
<1>2. order # <<>> /\ doomed = <<>>
  BY <1>1 DEF ListInv, LoopSound
<1>3. order \in Seq(Nodes) /\ DOMAIN order = 1..Len(order) /\ Len(order) \in Nat \ {0}
  <2>1. order \in Seq(Nodes) BY DEF ListInv, TypeOK
  <2> QED BY <2>1, <1>2, EmptyFact
<1>4. Len(order) > maxSteps
  <2>1. count = Len(order) + Len(doomed) /\ Len(doomed) = 0
    BY <1>1, <1>2 DEF ListInv, CountSound
  <2> QED BY <2>1, <1>1, <1>3
<1>5. PICK c : c = Content OBVIOUS
<1>6. PICK d : d = Content' OBVIOUS
<1>7. /\ c \in Seq(Entries) /\ Len(c) = Len(order)
      /\ \A i \in 1..Len(order) : c[i] = data[order[i]]
  BY <1>5, ContentFacts
<1>8. Len(order') = Len(order) - 1 /\ \A i \in 1..Len(order) - 1 : order'[i] = order[i + 1]
  BY <1>1, <1>2, <1>3, TailFacts
<1>9. /\ d \in Seq(Entries) /\ Len(d) = Len(order) - 1
      /\ \A i \in 1..Len(order) - 1 : d[i] = data'[order[i + 1]]
  <2>1. /\ d \in Seq(Entries) /\ Len(d) = Len(order')
        /\ \A i \in 1..Len(order') : d[i] = data'[order'[i]]
    <3>1. \A i \in DOMAIN order' : data'[order'[i]] \in Entries
      BY DEF ListInv, HeapSound, LoopSound, Cells
    <3>2. DOMAIN order' = 1..Len(order') /\ Len(order') \in Nat
      BY DEF ListInv, TypeOK
    <3>3. d = [i \in 1..Len(order') |-> data'[order'[i]]] BY <3>2, <1>6 DEF Content
    <3> QED BY <3>1, <3>2, <3>3
  <2> QED BY <2>1, <1>8
<1>10. \A i \in 1..Len(order) - 1 : data'[order[i + 1]] = data[order[i + 1]]
  <2>1. head = order[1] BY <1>1, <1>2, LinkFacts
  <2>2. \A i \in 1..Len(order) - 1 : order[i + 1] # head /\ order[i + 1] \in Nodes
    BY <2>1, <1>3 DEF ListInv, HeapSound, Distinct
  <2>3. data \in [Nodes -> Entries \union {Junk}] BY DEF ListInv, TypeOK
  <2> QED BY <2>2, <2>3, <1>1
<1>11. /\ Tail(c) \in Seq(Entries) /\ Len(Tail(c)) = Len(order) - 1
       /\ \A i \in 1..Len(order) - 1 : Tail(c)[i] = c[i + 1]
  BY <1>3, <1>7
<1>12. d = Tail(c)
  <2>1. \A i \in 1..Len(order) - 1 : i + 1 \in 1..Len(order) BY <1>3
  <2>2. \A i \in 1..Len(d) : d[i] = Tail(c)[i] BY <2>1, <1>7, <1>9, <1>10, <1>11
  <2> QED BY <2>2, <1>9, <1>11, SameSeq
<1>13. c # <<>> BY <1>3, <1>7
<1> QED BY <1>1, <1>2, <1>4, <1>5, <1>6, <1>8, <1>12, <1>13

\* The zeroed g_history is the empty log.
LEMMA InitRefines == Init => Log!Init
<1> SUFFICES ASSUME Init PROVE Log!Init OBVIOUS
<1>1. ListInv BY InitListInv
<1>2. Content = <<>>
  <2>1. Len(order) = 0 BY DEF Init
  <2>2. Content \in Seq(Entries) /\ Len(Content) = 0 BY <1>1, <2>1, ContentFacts
  <2> QED BY <2>2, EmptyFact
<1>3. Pos = 0 /\ maxSteps = 0 /\ pc = "ready" BY DEF Init, Pos
<1> QED BY <1>2, <1>3 DEF Log!Init, Hist, Store, Log!Fresh

\* The log at each stage of a call.
LEMMA HistCases ==
  /\ pc = "reset" => Hist = Fresh(steps)
  /\ pc \in {"cut", "append"} => Hist = Push(Store, arg)
  /\ pc = "trim" => Hist = [log |-> Limited(Content, maxSteps),
                            cur |-> Len(Limited(Content, maxSteps)), max |-> maxSteps]
  /\ pc \in {"ready", "load", "walk"} => Hist = Store
  BY DEF Hist

\* The same, one step later.
LEMMA HistCasesNext ==
  /\ pc' = "reset" => Hist' = Fresh(steps')
  /\ pc' \in {"cut", "append"} => Hist' = Push(Store', arg')
  /\ pc' = "trim" => Hist' = [log |-> Limited(Content', maxSteps'),
                            cur |-> Len(Limited(Content', maxSteps')), max |-> maxSteps']
  /\ pc' \in {"ready", "load", "walk"} => Hist' = Store'
  BY DEF Hist

\* Push as undo_redo_push does it: from the log and the position only.
LEMMA PushStore ==
  Push(Store, arg) =
    LET s == Limited(Append(SubSeq(Content, 1, Pos), arg), maxSteps)
    IN  [log |-> s, cur |-> Len(s), max |-> maxSteps]
<1>1. Visible(Store) = SubSeq(Content, 1, Pos) /\ Store.max = maxSteps
  BY DEF Visible, Store
<1> QED BY <1>1 DEF Push

\* What is stored does not change while the list and its strokes stay.
LEMMA SameStore ==
  ASSUME ListInv, ListInv', order' = order, current' = current, maxSteps' = maxSteps,
         \A n \in Cells(order) : data'[n] = data[n]
  PROVE  Content' = Content /\ Pos' = Pos /\ Store' = Store
<1>1. /\ Content \in Seq(Entries) /\ DOMAIN Content = 1..Len(order)
      /\ \A i \in 1..Len(order) : Content[i] = data[order[i]]
      /\ DOMAIN order = 1..Len(order)
  BY ContentFacts DEF ListInv, TypeOK
<1>2. Content' = [i \in 1..Len(order) |-> data'[order[i]]] BY <1>1 DEF Content
<1>3. \A i \in 1..Len(order) : data'[order[i]] = data[order[i]] BY <1>1 DEF Cells
<1>4. Content' = Content BY <1>1, <1>2, <1>3
<1>5. Pos' = Pos BY DEF Pos
<1> QED BY <1>4, <1>5 DEF Store

\* undo_redo.c 23-26, 253-271: a reset takes effect when it is called.
LEMMA ResetRefines ==
  ASSUME ListInv, LimitSound,
         (\E m \in Limits : ResetCall(m)) \/ (\E s \in Inputs : LoadCall(s))
  PROVE  \E m \in Limits : Log!ResetTo(m)
<1>1. CASE \E m \in Limits : ResetCall(m)
  <2>1. PICK m \in Limits : ResetCall(m) BY <1>1
  <2>2. pc' = "reset" /\ steps' = m BY <2>1 DEF ResetCall, EnterReset
  <2>3. Hist' = Fresh(m) BY <2>2, HistCasesNext
  <2> QED BY <2>1, <2>3 DEF Log!ResetTo, Log!Fresh, Fresh
<1>2. CASE \E s \in Inputs : LoadCall(s)
  <2>1. PICK s \in Inputs : LoadCall(s) BY <1>2
  <2> DEFINE m == LoadLimit(maxSteps, DefaultSteps)
  <2>2. pc' = "reset" /\ steps' = m BY <2>1 DEF LoadCall, EnterReset
  <2>3. m \in Limits BY LimitsAssumption DEF LimitSound, LoadLimit
  <2>4. Hist' = Fresh(m) BY <2>2, HistCasesNext
  <2> QED BY <2>3, <2>4 DEF Log!ResetTo, Log!Fresh, Fresh
<1> QED BY <1>1, <1>2

\* undo_redo.c 27-32, 43-49: a cell freed by a loop holds no kept stroke.
LEMMA FreeRefines == ListInv /\ ListInv' /\ FreeNode => UNCHANGED Hist
<1> SUFFICES ASSUME ListInv, ListInv', FreeNode PROVE Hist' = Hist OBVIOUS
<1>1. /\ pc \in {"reset", "cut"} /\ node # Null /\ pc' = pc /\ steps' = steps /\ arg' = arg
      /\ order' = order /\ current' = current /\ maxSteps' = maxSteps
      /\ data' = [data EXCEPT ![node] = Junk]
  BY DEF FreeNode
<1>2. CASE pc = "reset" BY <1>1, <1>2, HistCases, HistCasesNext
<1>3. CASE pc = "cut"
  <2>1. \A n \in Cells(order) : data'[n] = data[n]
    <3>1. node \in Cells(doomed)
      BY <1>1, SeqFacts DEF ListInv, TypeOK, LoopSound
    <3>2. node \notin Cells(order) /\ Cells(order) \subseteq Nodes
      BY <3>1, SeqFacts DEF ListInv, HeapSound, TypeOK
    <3> QED BY <3>2, <1>1 DEF ListInv, TypeOK
  <2>2. Store' = Store BY <1>1, <2>1, SameStore
  <2> QED BY <1>1, <1>3, <2>2, HistCases, HistCasesNext
<1> QED BY <1>1, <1>2, <1>3

\* undo_redo.c 34-35: the memset makes true what the call promised.
LEMMA ResetDoneRefines == ListInv /\ ListInv' /\ ResetDone => UNCHANGED Hist
<1> SUFFICES ASSUME ListInv, ListInv', ResetDone PROVE Hist' = Hist OBVIOUS
<1>1. /\ pc = "reset" /\ pc' \in {"ready", "load"} /\ current' = Null
      /\ maxSteps' = steps /\ order' = order /\ order = <<>>
  BY DEF ResetDone, ghost, ListInv, LoopSound
<1>2. Content' = <<>>
  <2>1. Content' = [i \in {} |-> data'[order'[i]]] BY <1>1 DEF Content
  <2> QED BY <2>1
<1>3. Pos' = 0 BY <1>1 DEF Pos
<1> QED BY <1>1, <1>2, <1>3, HistCases, HistCasesNext DEF Store, Fresh

\* The strokes before position k are the data of the cells before k.
LEMMA CutContent ==
  ASSUME ListInv, NEW c, c = Content, NEW k \in 0..Len(order)
  PROVE  /\ SubSeq(c, 1, k) \in Seq(Entries) /\ Len(SubSeq(c, 1, k)) = k
         /\ \A i \in 1..k : SubSeq(c, 1, k)[i] = data[order[i]]
<1>1. /\ c \in Seq(Entries) /\ Len(c) = Len(order) /\ Len(order) \in Nat
      /\ \A i \in 1..Len(order) : c[i] = data[order[i]]
  BY ContentFacts DEF ListInv, TypeOK
<1>2. /\ SubSeq(c, 1, k) \in Seq(Entries) /\ Len(SubSeq(c, 1, k)) = k
      /\ \A i \in 1..k : SubSeq(c, 1, k)[i] = c[i]
  BY <1>1, SplitFacts
<1> QED BY <1>1, <1>2

\* Entering a push: the undone strokes leave the log, the new one joins.
LEMMA EnterPushRefines ==
  ASSUME ListInv, ListInv', pc \in {"ready", "load"}, NEW e \in Entries, EnterPush(e),
         HeapKept
  PROVE  Log!PushOf(e)
<1>1. /\ UNCHANGED <<current, data, maxSteps>> /\ arg' = e /\ pc' \in {"cut", "append"}
      /\ Hist = Store
  BY HistCases DEF EnterPush, HeapKept, hvars, cells
<1>2. order' = SubSeq(order, 1, Pos) /\ Pos \in 0..Len(order)
  <2>1. Pos \in 0..Len(order) /\ (current = tail => Pos = Len(order)) BY PosFacts, TailPos
  <2>2. CASE current = tail
    <3>1. order' = order BY <2>2 DEF EnterPush, ghost
    <3>2. order \in Seq(Nodes) BY DEF ListInv, TypeOK
    <3>3. SubSeq(order, 1, Len(order)) = order BY <3>2
    <3> QED BY <3>1, <3>3, <2>1, <2>2
  <2>3. CASE current # tail BY <2>3, <2>1 DEF EnterPush
  <2> QED BY <2>2, <2>3
<1>3. PICK k \in 0..Len(order) : k = Pos BY <1>2
<1>4. /\ order \in Seq(Nodes) /\ order' \in Seq(Nodes) /\ Len(order') = k
      /\ \A i \in 1..k : order'[i] = order[i]
  <2>1. order \in Seq(Nodes) BY DEF ListInv, TypeOK
  <2> QED BY <1>2, <1>3, <2>1, SplitFacts
<1>5. Pos' = k
  <2>1. CASE current = Null BY <2>1, <1>1, <1>3 DEF Pos
  <2>2. CASE current # Null
    <3>1. order[k] = current /\ k \in 1..k BY <2>2, <1>3, <1>2, PosFacts DEF ListInv, TypeOK
    <3>2. order'[k] = current' /\ k \in DOMAIN order' BY <3>1, <1>1, <1>4
    <3>3. pc' # "reset" BY <1>1
    <3>4. \A i \in DOMAIN order' : order'[i] = current' => i = k
      BY <3>2, <3>3 DEF ListInv, HeapSound, Distinct
    <3>5. current' # Null BY <1>1, <2>2
    <3> QED BY <3>2, <3>4, <3>5 DEF Pos
  <2> QED BY <2>1, <2>2
<1>6. SubSeq(Content', 1, Pos') = SubSeq(Content, 1, Pos)
  <2>1. PICK c : c = Content OBVIOUS
  <2>2. PICK d : d = Content' OBVIOUS
  <2>3. /\ c \in Seq(Entries) /\ Len(c) = Len(order)
        /\ \A i \in 1..Len(order) : c[i] = data[order[i]]
    BY <2>1, ContentFacts
  <2>4. d = [i \in DOMAIN order' |-> data'[order'[i]]] BY <2>2 DEF Content
  <2>5. DOMAIN order' = 1..k BY <1>4
  <2>6. d = [i \in 1..k |-> data[order[i]]] BY <2>4, <2>5, <1>1, <1>4
  <2>7. Len(order) \in Nat /\ k \in Nat /\ k <= Len(order) BY <1>3, <1>4
  <2>8. \A i \in 1..k : data[order[i]] \in Entries
    <3>1. \A i \in 1..k : order[i] \in Cells(order) BY <1>4, <2>7 DEF Cells
    <3>2. \A n \in live : data[n] \in Entries BY DEF ListInv, LoopSound
    <3> QED BY <3>1, <3>2 DEF ListInv, HeapSound
  <2>9. d \in Seq(Entries) /\ Len(d) = k /\ \A i \in 1..k : d[i] = data[order[i]]
    BY <2>6, <2>7, <2>8
  <2>10. SubSeq(d, 1, k) = d BY <2>9, <2>7
  <2>11. /\ SubSeq(c, 1, k) \in Seq(Entries) /\ Len(SubSeq(c, 1, k)) = k
         /\ \A i \in 1..k : SubSeq(c, 1, k)[i] = data[order[i]]
    BY <1>3, <2>1, CutContent
  <2>12. SubSeq(c, 1, k) = d BY <2>9, <2>11, SameSeq
  <2> QED BY <2>1, <2>2, <2>10, <2>12, <1>3, <1>5
<1>7. Hist' = Push(Store', arg') BY <1>1, HistCasesNext
<1>8. Push(Store', arg') = Push(Store, e)
  <2>1. Visible(Store') = SubSeq(Content', 1, Pos') /\ Store'.max = maxSteps'
    BY DEF Visible, Store
  <2>2. Visible(Store) = SubSeq(Content, 1, Pos) /\ Store.max = maxSteps BY DEF Visible, Store
  <2> QED BY <2>1, <2>2, <1>1, <1>6 DEF Push
<1> QED
  BY <1>1, <1>7, <1>8 DEF Log!PushOf, Log!Push, Log!Limited, Log!Visible, Push, Limited, Visible

\* undo_redo.c 38-41: a push takes effect when it is called.
LEMMA PushCallRefines ==
  ASSUME ListInv, ListInv', NEW e \in Entries, PushCall(e) PROVE Log!PushOf(e)
<1>1. EnterPush(e) /\ HeapKept /\ pc \in {"ready", "load"}
  BY DEF PushCall, HeapKept, Calling
<1> QED BY <1>1, EnterPushRefines

\* undo_redo.c 275-316: every item a load keeps is a push.
LEMMA LoadItemRefines ==
  ASSUME ListInv, ListInv', NEW h \in Outcomes, LoadItem(h)
  PROVE  \E e \in Entries : Log!PushOf(e)
<1>1. json[item] \in Cmds /\ h \in BOOLEAN
  <2>1. json \in Seq(Cmds \union {Malformed}) /\ item \in Nat BY DEF ListInv, TypeOK
  <2>2. item \in DOMAIN json BY <2>1 DEF LoadItem, ListInv, LoopSound
  <2>3. h \in BOOLEAN BY FailAssumption DEF Outcomes
  <2> QED BY <2>1, <2>2, <2>3 DEF LoadItem
<1>2. [cmd |-> json[item], held |-> h] \in Entries BY <1>1 DEF Entries
<1>3. EnterPush([cmd |-> json[item], held |-> h]) /\ HeapKept /\ pc \in {"ready", "load"}
  BY DEF LoadItem, HeapKept, Calling
<1> QED BY <1>2, <1>3, EnterPushRefines

\* undo_redo.c 50-57: closing the list changes no stroke that is kept.
LEMMA CutDoneRefines == ListInv /\ ListInv' /\ CutDone => UNCHANGED Hist
<1> SUFFICES ASSUME ListInv, ListInv', CutDone PROVE Hist' = Hist OBVIOUS
<1>1. /\ pc = "cut" /\ pc' = "append" /\ arg' = arg /\ order' = order
      /\ current' = current /\ maxSteps' = maxSteps /\ data' = data
  BY DEF CutDone, locals, ghost
<1>2. Store' = Store BY <1>1, SameStore
<1> QED BY <1>1, <1>2, HistCases, HistCasesNext

\* The cell is the stroke the push promised.
LEMMA LinkNodeRefines ==
  ASSUME ListInv, ListInv', NEW n \in Nodes, LinkNode(n) PROVE UNCHANGED Hist
<1>1. /\ pc = "append" /\ pc' = "trim" /\ maxSteps' = maxSteps /\ current = tail
  BY DEF LinkNode, ListInv, LoopSound
<1>2. PICK c : c = Content OBVIOUS
<1>3. PICK d : d = Content' OBVIOUS
<1>4. d = Append(c, arg) /\ c \in Seq(Entries) /\ Len(c) = Len(order)
  BY <1>2, <1>3, ContentFacts, LinkContent
<1>5. Pos = Len(order) BY <1>1, TailPos
<1>6. SubSeq(c, 1, Pos) = c BY <1>4, <1>5
<1>7. Hist = [log |-> Limited(d, maxSteps), cur |-> Len(Limited(d, maxSteps)),
              max |-> maxSteps]
  BY <1>1, <1>2, <1>4, <1>6, HistCases, PushStore
<1> QED BY <1>1, <1>3, <1>7, HistCasesNext

\* TailPos one step later.
LEMMA TailPosNext ==
  (ListInv /\ pc \notin {"reset", "cut"} => (current = tail <=> Pos = Len(order)))'
<1>1. ListInv /\ pc \notin {"reset", "cut"} => (current = tail <=> Pos = Len(order))
  BY TailPos
<1> QED BY <1>1, PTL

\* undo_redo.c 83-84: a push ends without a cell dropped only within the limit.
LEMMA TrimmedEnough ==
  ASSUME ListInv, TrimNothing
  PROVE  Len(order) <= maxSteps
<1>1. /\ pc = "trim" /\ (count <= maxSteps \/ head = Null) /\ order # <<>> /\ doomed = <<>>
  BY DEF TrimNothing, ListInv, LoopSound
<1>2. head # Null
  <2>1. head = order[1] BY <1>1, LinkFacts
  <2>2. order \in Seq(Nodes) BY DEF ListInv, TypeOK
  <2>3. 1 \in DOMAIN order BY <2>2, <1>1, EmptyFact
  <2> QED BY <2>1, <2>2, <2>3, NullAssumption
<1>3. count = Len(order) + Len(doomed) /\ Len(doomed) = 0
  BY <1>1 DEF ListInv, CountSound
<1>4. Len(order) \in Nat BY DEF ListInv, TypeOK
<1> QED BY <1>1, <1>2, <1>3, <1>4

\* Nothing is dropped while the limit holds.
LEMMA TrimNothingRefines == ListInv /\ ListInv' /\ TrimNothing => UNCHANGED Hist
<1> SUFFICES ASSUME ListInv, ListInv', TrimNothing PROVE Hist' = Hist OBVIOUS
<1>1. /\ pc = "trim" /\ pc' \in {"ready", "load"} /\ current = tail
      /\ order' = order /\ current' = current /\ maxSteps' = maxSteps /\ data' = data
  BY DEF TrimNothing, Return, hvars, cells, ghost, ListInv, LoopSound
<1>2. Store' = Store BY <1>1, SameStore
<1>3. Pos = Len(order) BY <1>1, TailPos
<1>4. Len(Content) = Len(order) /\ Len(order) \in Nat /\ maxSteps \in Nat
  BY ContentFacts DEF ListInv, TypeOK
<1>5. Limited(Content, maxSteps) = Content BY <1>4, TrimmedEnough DEF Limited
<1> QED BY <1>1, <1>2, <1>3, <1>4, <1>5, HistCases, HistCasesNext DEF Store

\* A push over the limit promised the log without its oldest stroke.
LEMMA TrimHeadRefines == ListInv /\ ListInv' /\ TrimHead => UNCHANGED Hist
<1> SUFFICES ASSUME ListInv, ListInv', TrimHead PROVE Hist' = Hist OBVIOUS
<1>1. /\ pc = "trim" /\ pc' \in {"ready", "load"} /\ maxSteps' = maxSteps
      /\ tail' = (IF tail = head THEN Null ELSE tail)
      /\ current' = (IF current = head THEN Null ELSE current)
  BY DEF TrimHead, Return
<1>2. current = tail BY <1>1 DEF ListInv, LoopSound
<1>3. PICK c : c = Content OBVIOUS
<1>4. PICK d : d = Content' OBVIOUS
<1>5. /\ d = Tail(c) /\ Len(order) > maxSteps /\ Len(c) = Len(order)
      /\ Len(d) = Len(order')
  BY <1>3, <1>4, TrimContent, ContentFacts, ContentFactsNext
<1>6. Pos' = Len(order')
  <2>1. current' = tail' BY <1>1, <1>2
  <2>2. pc' \notin {"reset", "cut"} BY <1>1
  <2> QED BY <2>1, <2>2, TailPosNext
<1>7. Limited(c, maxSteps) = d BY <1>5 DEF Limited
<1>8. Hist = [log |-> d, cur |-> Len(d), max |-> maxSteps]
  BY <1>1, <1>3, <1>7, HistCases
<1>9. Store' = [log |-> d, cur |-> Len(d), max |-> maxSteps]
  BY <1>1, <1>4, <1>5, <1>6 DEF Store
<1> QED BY <1>1, <1>8, <1>9, HistCasesNext

\* undo_redo.c 101-116: one step back, or nothing.
LEMMA UndoRefines == ListInv /\ ListInv' /\ UndoCall => Log!UndoStep
<1> SUFFICES ASSUME ListInv, ListInv', UndoCall PROVE Log!UndoStep OBVIOUS
<1>1. /\ pc = "ready" /\ pc' = "ready" /\ current # Null /\ current' = prev[current]
      /\ order' = order /\ maxSteps' = maxSteps /\ data' = data
  BY DEF UndoCall, cells, ghost
<1>2. PICK p \in DOMAIN order : p = Pos BY <1>1, PosFacts
<1>3. order \in Seq(Nodes) /\ DOMAIN order = 1..Len(order) /\ Len(order) \in Nat
      /\ \A i \in DOMAIN order : order[i] \in Nodes
  BY DEF ListInv, TypeOK
<1>4. order[p] = current BY <1>1, <1>2, PosFacts
<1>5. current' = IF p = 1 THEN Null ELSE order[p - 1] BY <1>1, <1>2, <1>4, LinkFacts
<1>6. Pos' = p - 1
  <2>1. CASE p = 1 BY <2>1, <1>5 DEF Pos
  <2>2. CASE p # 1
    <3>1. p - 1 \in DOMAIN order /\ current' = order[p - 1] /\ current' # Null
      BY <2>2, <1>2, <1>3, <1>5, NullAssumption
    <3>2. \A i \in DOMAIN order : order[i] = current' => i = p - 1
      BY <3>1 DEF ListInv, HeapSound, Distinct
    <3>3. Pos' = CHOOSE i \in DOMAIN order : order[i] = current' BY <3>1, <1>1 DEF Pos
    <3> QED BY <3>1, <3>2, <3>3
  <2> QED BY <2>1, <2>2
<1>7. Content' = Content BY <1>1 DEF Content
<1>8. Hist = [log |-> Content, cur |-> p, max |-> maxSteps]
  BY <1>1, <1>2, HistCases DEF Store
<1>9. Hist' = [log |-> Content, cur |-> p - 1, max |-> maxSteps]
  BY <1>1, <1>6, <1>7, HistCasesNext DEF Store
<1>10. p > 0 BY <1>2, <1>3
<1> QED BY <1>8, <1>9, <1>10 DEF Log!UndoStep, Log!Undo

\* undo_redo.c 118-127: one step forward, or nothing.
LEMMA RedoRefines == ListInv /\ ListInv' /\ RedoCall => Log!RedoStep
<1> SUFFICES ASSUME ListInv, ListInv', RedoCall PROVE Log!RedoStep OBVIOUS
<1>1. /\ pc = "ready" /\ pc' = "ready" /\ current # tail
      /\ current' = (IF current # Null THEN next[current] ELSE head)
      /\ order' = order /\ maxSteps' = maxSteps /\ data' = data
  BY DEF RedoCall, cells, ghost
<1>2. PICK p \in 0..Len(order) : p = Pos BY <1>1, PosFacts
<1>3. order \in Seq(Nodes) /\ DOMAIN order = 1..Len(order) /\ Len(order) \in Nat
      /\ \A i \in DOMAIN order : order[i] \in Nodes
  BY DEF ListInv, TypeOK
<1>4. p < Len(order)
  <2>1. pc \notin {"reset", "cut"} BY <1>1
  <2>2. Pos # Len(order) BY <1>1, <2>1, TailPos
  <2>3. p # Len(order) BY <1>2, <2>2
  <2>4. Len(order) \in Nat BY <1>3
  <2> QED BY <1>2, <2>3, <2>4
<1>5. p + 1 \in DOMAIN order BY <1>2, <1>3, <1>4
<1>6. current' = order[p + 1]
  <2>1. CASE current = Null
    <3>1. p = 0 BY <2>1, <1>1, <1>2, PosFacts
    <3>2. head = order[1]
      <4>1. order # <<>> BY <1>3, <1>4, <1>2, EmptyFact
      <4> QED BY <4>1, <1>1, LinkFacts
    <3> QED BY <2>1, <3>1, <3>2, <1>1
  <2>2. CASE current # Null
    <3>1. p \in DOMAIN order /\ order[p] = current BY <2>2, <1>1, <1>2, PosFacts
    <3>2. next[order[p]] = order[p + 1] BY <3>1, <1>1, <1>4, LinkFacts
    <3> QED BY <2>2, <3>1, <3>2, <1>1
  <2> QED BY <2>1, <2>2
<1>7. Pos' = p + 1
  <2>1. current' # Null BY <1>3, <1>5, <1>6, NullAssumption
  <2>2. \A i \in DOMAIN order : order[i] = current' => i = p + 1
    BY <1>5, <1>6 DEF ListInv, HeapSound, Distinct
  <2>3. Pos' = CHOOSE i \in DOMAIN order : order[i] = current' BY <2>1, <1>1 DEF Pos
  <2> QED BY <1>5, <1>6, <2>2, <2>3
<1>8. Content' = Content BY <1>1 DEF Content
<1>9. Hist = [log |-> Content, cur |-> p, max |-> maxSteps]
  BY <1>1, <1>2, HistCases DEF Store
<1>10. Hist' = [log |-> Content, cur |-> p + 1, max |-> maxSteps]
  BY <1>1, <1>7, <1>8, HistCasesNext DEF Store
<1>11. Len(Content) = Len(order) BY ContentFacts
<1> QED BY <1>4, <1>9, <1>10, <1>11 DEF Log!RedoStep, Log!Redo

Walking == \/ \E k \in {"iterate", "count", "serialize"} : WalkCall(k)
           \/ WalkSkip \/ WalkVisit \/ WalkOff

Reading == SkipItem \/ LoadDone \/ Walking \/ UNCHANGED vars

\* undo_redo.c 129-251, 352-366: reading the list, skipping an item and the
\* end of a load change no stroke and not the cursor.
LEMMA ReadRefines == ListInv /\ ListInv' /\ Reading => UNCHANGED Hist
<1> SUFFICES ASSUME ListInv, ListInv', Reading PROVE Hist' = Hist OBVIOUS
<1>1. CASE UNCHANGED vars
  <2>1. /\ order' = order /\ current' = current /\ maxSteps' = maxSteps /\ data' = data
        /\ pc' = pc /\ arg' = arg /\ steps' = steps
    BY <1>1 DEF vars, hvars, cells, locals, ghost
  <2>2. Content' = Content /\ Pos' = Pos BY <2>1 DEF Content, Pos
  <2>3. Store' = Store BY <2>1, <2>2 DEF Store
  <2> QED BY <2>1, <2>2, <2>3 DEF Hist
<1>2. CASE LoadDone
  <2>1. /\ pc = "load" /\ pc' = "ready" /\ order' = order /\ maxSteps' = maxSteps
        /\ data' = data /\ current' = tail
    BY <1>2 DEF LoadDone, cells, ghost
  <2>2. current' = current BY <2>1 DEF ListInv, LoopSound
  <2>3. Store' = Store BY <2>1, <2>2, SameStore
  <2> QED BY <2>1, <2>3, HistCases, HistCasesNext
<1>3. CASE SkipItem \/ Walking
  <2>1. /\ pc \in {"ready", "load", "walk"} /\ pc' \in {"ready", "load", "walk"}
        /\ order' = order /\ current' = current /\ maxSteps' = maxSteps /\ data' = data
    BY <1>3 DEF Walking, SkipItem, WalkCall, WalkSkip, WalkVisit, WalkOff, hvars, cells, ghost
  <2>2. Store' = Store BY <2>1, SameStore
  <2> QED BY <2>1, <2>2, HistCases, HistCasesNext
<1> QED BY <1>1, <1>2, <1>3 DEF Reading

\* Every step of the pointer code is one call of the log, or none.
LEMMA StepRefines ==
  ListInv /\ ListInv' /\ LimitSound /\ [Next]_vars => [Log!Next]_Hist
<1> SUFFICES ASSUME ListInv, ListInv', LimitSound, [Next]_vars PROVE [Log!Next]_Hist
  OBVIOUS
<1>1. CASE (\E m \in Limits : ResetCall(m)) \/ (\E s \in Inputs : LoadCall(s))
  BY <1>1, ResetRefines DEF Log!Next
<1>2. CASE \E c \in Cmds, h \in Outcomes : PushCall([cmd |-> c, held |-> h])
  <2>1. PICK c \in Cmds, h \in Outcomes : PushCall([cmd |-> c, held |-> h]) BY <1>2
  <2>2. h \in BOOLEAN BY FailAssumption DEF Outcomes
  <2>3. [cmd |-> c, held |-> h] \in Entries BY <2>2 DEF Entries
  <2>4. Log!PushOf([cmd |-> c, held |-> h]) BY <2>1, <2>3, PushCallRefines
  <2> QED BY <2>3, <2>4 DEF Log!Next
<1>3. CASE \E h \in Outcomes : LoadItem(h)
  BY <1>3, LoadItemRefines DEF Log!Next
<1>4. CASE UndoCall BY <1>4, UndoRefines DEF Log!Next
<1>5. CASE RedoCall BY <1>5, RedoRefines DEF Log!Next
<1>6. CASE \E n \in Nodes : LinkNode(n) BY <1>6, LinkNodeRefines
<1>7. CASE FreeNode \/ ResetDone \/ CutDone \/ TrimNothing \/ TrimHead
  BY <1>7, FreeRefines, ResetDoneRefines, CutDoneRefines, TrimNothingRefines, TrimHeadRefines
<1>8. CASE Reading BY <1>8, ReadRefines
<1> QED BY <1>1, <1>2, <1>3, <1>4, <1>5, <1>6, <1>7, <1>8
    DEF Next, Reading, Walking

\* The linked list with its heap, its loops and its failures implements the
\* bounded log with a cursor: what the GUI calls undo_redo.c for.
THEOREM Refinement == Spec => ImplementsUndoLog
<1>1. Init => Log!Init BY InitRefines
<1>2. ListInv /\ ListInv' /\ LimitSound /\ [Next]_vars => [Log!Next]_Hist BY StepRefines
<1> QED BY <1>1, <1>2, ListInvariant, LimitInvariant, PTL DEF Spec, ImplementsUndoLog, Log!Spec

--------------------------------------------------------------------------------
(* Places in a set of indices *)

LEMMA PlaceFacts ==
  ASSUME NEW n \in Nat, NEW T \in SUBSET (1..n)
  PROVE  /\ IsFiniteSet(T) /\ Cardinality(T) \in Nat
         /\ \A i \in T : Place(T, i) \in 1..Cardinality(T)
<1>1. IsFiniteSet(T) /\ Cardinality(T) \in Nat
  <2>1. 1 \in Int /\ n \in Int OBVIOUS
  <2>2. IsFiniteSet(1..n) BY <2>1, FS_Interval
  <2> QED BY <2>2, FS_Subset, FS_CardinalityType
<1>2. ASSUME NEW i \in T PROVE Place(T, i) \in 1..Cardinality(T)
  <2> DEFINE B == {j \in T : j <= i}
  <2>1. B \subseteq T /\ i \in B
    OBVIOUS
  <2> HIDE DEF B
  <2>2. IsFiniteSet(B) /\ Cardinality(B) \in Nat /\ Cardinality(B) <= Cardinality(T)
    BY <1>1, <2>1, FS_Subset, FS_CardinalityType
  <2>3. Cardinality(B) # 0
    BY <2>1, <2>2, FS_EmptySet
  <2> QED BY <1>1, <2>2, <2>3 DEF Place, B
<1> QED BY <1>1, <1>2

\* One more index, behind the others, has the next place.
LEMMA PlaceMore ==
  ASSUME NEW n \in Nat, NEW T \in SUBSET (1..n)
  PROVE  /\ Cardinality(T \union {n + 1}) = Cardinality(T) + 1
         /\ Place(T \union {n + 1}, n + 1) = Cardinality(T) + 1
         /\ \A i \in T : Place(T \union {n + 1}, i) = Place(T, i)
<1> DEFINE U == T \union {n + 1}
<1>1. n + 1 \notin T /\ \A j \in T : j \in Nat /\ j <= n /\ j <= n + 1 /\ ~ (n + 1 <= j)
  OBVIOUS
<1>2. n + 1 <= n + 1
  OBVIOUS
<1>3. IsFiniteSet(T) /\ Cardinality(T) \in Nat
  BY PlaceFacts
<1>4. Cardinality(U) = Cardinality(T) + 1
  BY <1>1, <1>3, FS_AddElement
<1>5. {j \in U : j <= n + 1} = U
  BY <1>1, <1>2
<1>6. \A i \in T : {j \in U : j <= i} = {j \in T : j <= i}
  BY <1>1
<1> HIDE DEF U
<1>7. Place(U, n + 1) = Cardinality(U) /\ \A i \in T : Place(U, i) = Place(T, i)
  BY <1>5, <1>6 DEF Place
<1> QED BY <1>4, <1>7 DEF U

LEMMA LastOfAppend ==
  ASSUME NEW n \in Nat, NEW T \in SUBSET (1..n), NEW S, NEW s \in Seq(S), NEW f,
         NEW e \in S, e = f[n + 1], LastOf(s, f, T)
  PROVE  LastOf(Append(s, e), f, T \union {n + 1})
<1> DEFINE U == T \union {n + 1}
           t == Append(s, e)
           before == Cardinality(T) - Len(s)
<1>1. /\ Len(t) = Len(s) + 1 /\ Len(s) \in Nat
      /\ t[Len(s) + 1] = e /\ \A i \in 1..Len(s) : t[i] = s[i]
  OBVIOUS
<1>2. /\ Cardinality(T) \in Nat /\ Cardinality(U) = Cardinality(T) + 1
      /\ Place(U, n + 1) = Cardinality(T) + 1
      /\ \A i \in T : Place(U, i) = Place(T, i) /\ Place(T, i) \in 1..Cardinality(T)
  BY PlaceFacts, PlaceMore
<1>3. before \in Nat /\ \A i \in T : Place(T, i) > before => s[Place(T, i) - before] = f[i]
  BY <1>1, <1>2 DEF LastOf
<1> HIDE DEF t
<1>4. Cardinality(U) - Len(t) = before
  BY <1>1, <1>2
<1>5. ASSUME NEW i \in T, Place(T, i) > before PROVE t[Place(T, i) - before] = f[i]
  <2>1. Place(T, i) - before \in 1..Len(s)
    BY <1>1, <1>2, <1>3, <1>5
  <2> QED BY <1>1, <1>3, <1>5, <2>1
<1>6. t[Cardinality(T) + 1 - before] = f[n + 1]
  BY <1>1, <1>2
<1> HIDE DEF before
<1>7. \A i \in U : Place(U, i) > before => t[Place(U, i) - before] = f[i]
  <2>1. ASSUME NEW i \in U, Place(U, i) > before PROVE t[Place(U, i) - before] = f[i]
    <3>1. CASE i \in T BY <1>2, <1>5, <2>1, <3>1
    <3>2. CASE i = n + 1
      <4>1. Place(U, i) = Cardinality(T) + 1 BY <1>2, <3>2
      <4> QED BY <1>2, <1>3, <1>6, <3>2, <4>1
    <3> QED BY <2>1, <3>1, <3>2
  <2> QED BY <2>1
<1> HIDE DEF U
<1>8. LastOf(t, f, U)
  BY <1>3, <1>4, <1>7 DEF LastOf
<1> QED BY <1>8 DEF t, U

LEMMA LastOfTail ==
  ASSUME NEW n \in Nat, NEW T \in SUBSET (1..n), NEW S, NEW s \in Seq(S), NEW f,
         s # <<>>, LastOf(s, f, T)
  PROVE  LastOf(Tail(s), f, T)
<1> DEFINE t == Tail(s)
           before == Cardinality(T) - Len(s)
<1>1. /\ Len(t) = Len(s) - 1 /\ Len(s) \in Nat
      /\ \A i \in 1..(Len(s) - 1) : t[i] = s[i + 1]
  OBVIOUS
<1>2. /\ Cardinality(T) \in Nat
      /\ \A i \in T : Place(T, i) \in 1..Cardinality(T)
  BY PlaceFacts
<1>3. before \in Nat /\ \A i \in T : Place(T, i) > before => s[Place(T, i) - before] = f[i]
  BY <1>1, <1>2 DEF LastOf
<1> HIDE DEF t
<1>4. Cardinality(T) - Len(t) = before + 1
  BY <1>1, <1>2
<1>5. ASSUME NEW i \in T, Place(T, i) > before + 1
      PROVE  t[Place(T, i) - (before + 1)] = f[i]
  <2>1. /\ Place(T, i) - (before + 1) \in 1..(Len(s) - 1)
        /\ (Place(T, i) - (before + 1)) + 1 = Place(T, i) - before
    BY <1>1, <1>2, <1>3, <1>5
  <2>2. t[Place(T, i) - (before + 1)] = s[Place(T, i) - before]
    BY <1>1, <2>1
  <2> QED BY <1>2, <1>3, <1>5, <2>2
<1> HIDE DEF before
<1>6. before + 1 >= 0
  BY <1>3
<1>7. LastOf(t, f, T)
  BY <1>4, <1>5, <1>6 DEF LastOf
<1> QED BY <1>7 DEF t

\* The commands of strokes, of one more and of one less.
LEMMA CommandsFacts ==
  ASSUME NEW es \in Seq(Entries)
  PROVE  /\ Commands(es) \in Seq(Cmds) /\ Len(Commands(es)) = Len(es)
         /\ \A i \in 1..Len(es) : Commands(es)[i] = es[i].cmd /\ es[i].cmd \in Cmds
         /\ \A e \in Entries : Commands(Append(es, e)) = Append(Commands(es), e.cmd)
         /\ es # <<>> => Commands(Tail(es)) = Tail(Commands(es)) /\ Commands(es) # <<>>
<1>1. ASSUME NEW fs \in Seq(Entries)
      PROVE  /\ Commands(fs) \in Seq(Cmds) /\ Len(Commands(fs)) = Len(fs)
             /\ \A i \in 1..Len(fs) : Commands(fs)[i] = fs[i].cmd /\ fs[i].cmd \in Cmds
  <2>1. DOMAIN fs = 1..Len(fs) /\ Len(fs) \in Nat /\ \A i \in 1..Len(fs) : fs[i] \in Entries
    OBVIOUS
  <2>2. \A i \in 1..Len(fs) : fs[i].cmd \in Cmds
    BY <2>1 DEF Entries
  <2>3. Commands(fs) = [i \in 1..Len(fs) |-> fs[i].cmd]
    BY <2>1 DEF Commands
  <2> QED BY <2>1, <2>2, <2>3
<1>2. ASSUME NEW e \in Entries PROVE Commands(Append(es, e)) = Append(Commands(es), e.cmd)
  <2>1. PICK fs : fs = Append(es, e) OBVIOUS
  <2>2. PICK cs : cs = Commands(es) OBVIOUS
  <2>3. /\ fs \in Seq(Entries) /\ Len(fs) = Len(es) + 1 /\ Len(es) \in Nat
        /\ fs[Len(es) + 1] = e /\ \A i \in 1..Len(es) : fs[i] = es[i]
    BY <2>1
  <2>4. /\ cs \in Seq(Cmds) /\ Len(cs) = Len(es)
        /\ \A i \in 1..Len(es) : cs[i] = es[i].cmd
    BY <1>1, <2>2
  <2>5. e.cmd \in Cmds BY DEF Entries
  <2>6. /\ Append(cs, e.cmd) \in Seq(Cmds) /\ Len(Append(cs, e.cmd)) = Len(es) + 1
        /\ Append(cs, e.cmd)[Len(es) + 1] = e.cmd
        /\ \A i \in 1..Len(es) : Append(cs, e.cmd)[i] = cs[i]
    BY <2>4, <2>5
  <2>7. /\ Commands(fs) \in Seq(Cmds) /\ Len(Commands(fs)) = Len(es) + 1
        /\ \A i \in 1..(Len(es) + 1) : Commands(fs)[i] = fs[i].cmd
    BY <1>1, <2>3
  <2>8. \A i \in 1..(Len(es) + 1) : i \in 1..Len(es) \/ i = Len(es) + 1
    BY <2>3
  <2>9. \A i \in 1..(Len(es) + 1) : Commands(fs)[i] = Append(cs, e.cmd)[i]
    BY <2>3, <2>4, <2>6, <2>7, <2>8
  <2>10. Commands(fs) = Append(cs, e.cmd)
    BY <2>6, <2>7, <2>9, SameSeq
  <2> QED BY <2>1, <2>2, <2>10
<1>3. ASSUME es # <<>> PROVE Commands(Tail(es)) = Tail(Commands(es)) /\ Commands(es) # <<>>
  <2>1. PICK fs : fs = Tail(es) OBVIOUS
  <2>2. PICK cs : cs = Commands(es) OBVIOUS
  <2>3. /\ fs \in Seq(Entries) /\ Len(fs) = Len(es) - 1 /\ Len(es) \in Nat \ {0}
        /\ \A i \in 1..(Len(es) - 1) : fs[i] = es[i + 1]
    BY <1>3, <2>1
  <2>4. /\ cs \in Seq(Cmds) /\ Len(cs) = Len(es)
        /\ \A i \in 1..Len(es) : cs[i] = es[i].cmd
    BY <1>1, <2>2
  <2>5. cs # <<>> BY <2>3, <2>4
  <2>6. /\ Tail(cs) \in Seq(Cmds) /\ Len(Tail(cs)) = Len(es) - 1
        /\ \A i \in 1..(Len(es) - 1) : Tail(cs)[i] = cs[i + 1]
    BY <2>4, <2>5
  <2>7. /\ Commands(fs) \in Seq(Cmds) /\ Len(Commands(fs)) = Len(es) - 1
        /\ \A i \in 1..(Len(es) - 1) : Commands(fs)[i] = fs[i].cmd
    BY <1>1, <2>3
  <2>8. \A i \in 1..(Len(es) - 1) : i + 1 \in 1..Len(es)
    BY <2>3
  <2>9. \A i \in 1..(Len(es) - 1) : Commands(fs)[i] = Tail(cs)[i]
    BY <2>3, <2>4, <2>6, <2>7, <2>8
  <2>10. Commands(fs) = Tail(cs)
    BY <2>3, <2>6, <2>7, <2>9, SameSeq
  <2> QED BY <2>1, <2>2, <2>5, <2>10
<1> QED BY <1>1, <1>2, <1>3

--------------------------------------------------------------------------------
(* What walks return *)

WalkInv == WalkedIsVisible /\ WalkSound
Walks == {"iterate", "count", "serialize"}

\* Where a walk is: before cell k, or behind the tail.
Before(k) ==
  /\ node = (IF k > Len(order) THEN Null ELSE order[k])
  /\ \/ kind \in {"iterate", "count"} /\ Walked(k - 1) /\ k <= Pos
     \/ kind = "serialize" /\ Saved(k - 1) /\ 0 < Pos /\ (k <= Pos \/ ~Content[Pos].held)

\* The commands and the points of the first n strokes are those of the first
\* n - 1 and of stroke n.
LEMMA OneMore ==
  ASSUME ListInv, NEW k \in 1..Len(order)
  PROVE  /\ Content[k] = data[order[k]] /\ Content[k] \in Entries
         /\ WithPoints(k - 1) \in SUBSET (1..(k - 1))
         /\ Content[k].held => WithPoints(k) = WithPoints(k - 1) \union {k}
         /\ ~ Content[k].held => WithPoints(k) = WithPoints(k - 1)
<1>1. Content[k] = data[order[k]] /\ Content[k] \in Entries /\ Len(order) \in Nat
  BY ContentFacts DEF ListInv, TypeOK
<1>2. \A i \in 1..k : i = k \/ i \in 1..(k - 1)
  BY <1>1
<1>3. k \in 1..k /\ 1..(k - 1) \subseteq 1..k
  BY <1>1
<1> QED BY <1>1, <1>2, <1>3 DEF WithPoints

\* A stroke taken is the next of what is returned.
LEMMA Taken ==
  ASSUME ListInv, NEW k \in 1..Len(order), out' = Append(out, Content[k].cmd), Content' = Content
  PROVE  /\ Walked(k - 1) => Walked(k)'
         /\ Saved(k - 1) /\ Content[k].held => Saved(k)'
<1>1. PICK c : c = Content OBVIOUS
<1>2. PICK o : o = out OBVIOUS
<1>3. /\ c \in Seq(Entries) /\ Len(c) = Len(order) /\ Len(order) \in Nat
      /\ c[k].cmd \in Cmds /\ o \in Seq(Cmds)
  <2>1. Content[k] \in Entries /\ Content \in Seq(Entries) /\ Len(Content) = Len(order)
    BY OneMore, ContentFacts
  <2>2. c[k].cmd \in Cmds BY <1>1, <2>1 DEF Entries
  <2>3. out \in Seq(Cmds) /\ Len(order) \in Nat BY DEF ListInv, TypeOK
  <2> QED BY <1>1, <1>2, <2>1, <2>2, <2>3
<1>4. /\ Append(o, c[k].cmd) \in Seq(Cmds) /\ Len(Append(o, c[k].cmd)) = Len(o) + 1
      /\ Append(o, c[k].cmd)[Len(o) + 1] = c[k].cmd
      /\ \A i \in 1..Len(o) : Append(o, c[k].cmd)[i] = o[i]
  BY <1>3
<1>5. k \in Nat /\ k - 1 \in Nat /\ (k - 1) + 1 = k
  BY <1>3
<1>6. ASSUME Walked(k - 1) PROVE Walked(k)'
  <2>1. o = [i \in 1..(k - 1) |-> c[i].cmd]
    BY <1>1, <1>2, <1>6 DEF Walked
  <2>2. Len(o) = k - 1 /\ \A i \in 1..(k - 1) : o[i] = c[i].cmd
    BY <1>5, <2>1
  <2> DEFINE w == [i \in 1..k |-> c[i].cmd]
  <2>3. \A i \in 1..k : i \in 1..Len(order) /\ c[i] \in Entries
    BY <1>3
  <2>4. w \in Seq(Cmds) /\ Len(w) = k /\ \A i \in 1..k : w[i] = c[i].cmd
    BY <1>5, <2>3 DEF Entries
  <2> HIDE DEF w
  <2>5. \A i \in 1..k : i \in 1..(k - 1) \/ i = k
    BY <1>5
  <2>6. \A i \in 1..k : w[i] = Append(o, c[k].cmd)[i]
    BY <1>4, <1>5, <2>2, <2>4, <2>5
  <2>7. w = Append(o, c[k].cmd)
    BY <1>4, <1>5, <2>2, <2>4, <2>6, SameSeq
  <2>8. out' = [i \in 1..k |-> c[i].cmd]
    BY <1>1, <1>2, <2>7 DEF w
  <2> QED BY <1>1, <2>8 DEF Walked
<1>7. ASSUME Saved(k - 1), c[k].held PROVE Saved(k)'
  <2> DEFINE T == WithPoints(k - 1)
             f == Commands(c)
  <2>1. T \in SUBSET (1..(k - 1)) /\ WithPoints(k) = T \union {k}
    BY <1>1, <1>7, OneMore
  <2>2. Len(o) = Cardinality(T) /\ LastOf(o, f, T)
    BY <1>1, <1>2, <1>7 DEF Saved
  <2>3. f[(k - 1) + 1] = c[k].cmd
    BY <1>3, <1>5, CommandsFacts
  <2> HIDE DEF f
  <2>4. LastOf(Append(o, c[k].cmd), f, T \union {(k - 1) + 1})
        /\ Cardinality(T \union {(k - 1) + 1}) = Cardinality(T) + 1
    <3> HIDE DEF T
    <3> QED BY <1>3, <1>5, <2>1, <2>2, <2>3, LastOfAppend, PlaceMore
  <2>5. WithPoints(k)' = WithPoints(k)
    BY DEF WithPoints
  <2>6. out' = Append(o, c[k].cmd) /\ Commands(Content)' = f
    BY <1>1, <1>2 DEF f
  <2>7. WithPoints(k)' = T \union {(k - 1) + 1}
    BY <1>5, <2>1, <2>5
  <2> HIDE DEF T
  <2> QED BY <1>4, <2>2, <2>4, <2>6, <2>7 DEF Saved
<1> QED BY <1>1, <1>6, <1>7

\* Walks leave the strokes and current alone.
LEMMA WalkKeeps ==
  ASSUME UNCHANGED <<hvars, cells, ghost>>
  PROVE  Content' = Content /\ Pos' = Pos /\ order' = order /\ current' = current
BY DEF hvars, cells, ghost, Content, Pos

LEMMA WalkCallWalks ==
  ASSUME ListInv, NEW k \in Walks, WalkCall(k)
  PROVE  WalkInv'
<1>1. /\ pc = "ready" /\ kind' = k /\ out' = <<>>
      /\ Content' = Content /\ Pos' = Pos /\ order' = order /\ current' = current
  BY WalkKeeps DEF WalkCall
<1>2. /\ Pos \in Nat /\ Len(order) \in Nat /\ (current = Null <=> Pos = 0)
  BY <1>1, PosFacts DEF ListInv, TypeOK
<1>3. Walked(0)' /\ Saved(0)'
  <2>1. WithPoints(0)' = {} BY DEF WithPoints
  <2>2. Cardinality({}) = 0 BY FS_EmptySet
  <2>3. Len(<<>>) = 0 /\ LastOf(<<>>, Commands(Content)', {}) BY <2>2 DEF LastOf
  <2>4. Saved(0)' BY <1>1, <2>1, <2>2, <2>3 DEF Saved
  <2>5. [i \in 1..0 |-> Content'[i].cmd] = <<>> OBVIOUS
  <2>6. Walked(0)' BY <1>1, <2>5 DEF Walked
  <2> QED BY <2>4, <2>6
<1>4. CASE head = Null \/ current = Null
  <2>1. pc' = "ready"
    BY <1>1, <1>4 DEF WalkCall
  <2>2. current = Null
    <3>1. CASE order = <<>> BY <1>1, <3>1, LinkFacts
    <3>2. CASE order # <<>>
      <4>1. head = order[1] BY <1>1, <3>2, LinkFacts
      <4>2. order[1] \in Nodes BY <3>2 DEF ListInv, TypeOK
      <4> QED BY <1>4, <4>1, <4>2, NullAssumption
    <3> QED BY <3>1, <3>2
  <2>3. Pos' = 0 BY <1>1, <1>2, <2>2
  <2> QED BY <1>3, <2>1, <2>3 DEF WalkInv, WalkedIsVisible, WalkSound
<1>5. CASE ~ (head = Null \/ current = Null)
  <2>1. pc' = "walk" /\ node' = head
    BY <1>5 DEF WalkCall
  <2>2. order # <<>> /\ head = order[1] /\ Len(order) # 0
    <3>1. order # <<>> BY <1>1, <1>5, LinkFacts
    <3> QED BY <1>1, <3>1, LinkFacts, EmptyFact DEF ListInv, TypeOK
  <2>3. 1 \in 1..Len(order) + 1 /\ ~ (1 > Len(order)) /\ 1 - 1 = 0
    BY <1>2, <2>2
  <2>4. 1 <= Pos /\ 0 < Pos
    BY <1>2, <1>5
  <2>5. Before(1)'
    BY <1>1, <1>3, <2>1, <2>2, <2>3, <2>4 DEF Before, Walks
  <2> QED BY <1>1, <2>1, <2>3, <2>5 DEF WalkInv, WalkedIsVisible, WalkSound, Before
<1> QED BY <1>4, <1>5

\* The cell a walk is at, and the one behind it.
LEMMA WalkPlace ==
  ASSUME ListInv, WalkInv, pc = "walk", node # Null
  PROVE  \E k \in 1..Len(order) :
           /\ Before(k) /\ node = order[k] /\ (node = current <=> k = Pos)
           /\ next[node] = IF k + 1 > Len(order) THEN Null ELSE order[k + 1]
<1>1. PICK k \in 1..Len(order) + 1 : Before(k)
  BY DEF WalkInv, WalkSound, Before
<1>2. /\ Len(order) \in Nat /\ DOMAIN order = 1..Len(order)
      /\ \A i \in 1..Len(order) : order[i] \in Nodes
  BY DEF ListInv, TypeOK
<1>3. k \in 1..Len(order) /\ node = order[k]
  BY <1>1, <1>2 DEF Before
<1>4. next[node] = IF k = Len(order) THEN Null ELSE order[k + 1]
  BY <1>2, <1>3, LinkFacts
<1>5. node = current <=> k = Pos
  BY <1>2, <1>3, PosFacts
<1>6. k = Len(order) <=> k + 1 > Len(order)
  <2>1. Len(order) \in Nat /\ k \in Nat /\ k <= Len(order) BY <1>2, <1>3
  <2> QED BY <2>1
<1>7. next[node] = IF k + 1 > Len(order) THEN Null ELSE order[k + 1]
  BY <1>4, <1>6
<1> QED BY <1>1, <1>3, <1>5, <1>7

\* A stroke passed over has no points, so nothing is missing.
LEMMA WalkSkipWalks == ListInv /\ WalkInv /\ WalkSkip => WalkInv'
<1> SUFFICES ASSUME ListInv, WalkInv, WalkSkip PROVE WalkInv'
  OBVIOUS
<1>1. /\ pc = "walk" /\ pc' = "walk" /\ node # Null /\ kind = "serialize" /\ ~ data[node].held
      /\ node' = next[node] /\ out' = out /\ kind' = kind
      /\ Content' = Content /\ Pos' = Pos /\ order' = order /\ current' = current
  BY WalkKeeps DEF WalkSkip, result
<1>2. PICK k \in 1..Len(order) :
        /\ Before(k) /\ node = order[k] /\ (node = current <=> k = Pos)
        /\ next[node] = IF k + 1 > Len(order) THEN Null ELSE order[k + 1]
  BY <1>1, WalkPlace
<1>3. Len(order) \in Nat /\ Pos \in Nat /\ k \in Nat /\ (k + 1) - 1 = k
  BY <1>1, PosFacts DEF ListInv, TypeOK
<1>4. Content[k] = data[node] /\ WithPoints(k) = WithPoints(k - 1)
  BY <1>1, <1>2, OneMore
<1>5. Saved(k - 1) /\ 0 < Pos /\ (k <= Pos \/ ~ Content[Pos].held)
  BY <1>1, <1>2 DEF Before
<1>6. Saved(k)'
  <2>1. WithPoints(k)' = WithPoints(k) BY <1>1 DEF WithPoints
  <2> QED BY <1>1, <1>4, <1>5, <2>1 DEF Saved
<1>7. k + 1 <= Pos \/ ~ Content[Pos].held
  <2>1. k = Pos => ~ Content[Pos].held BY <1>1, <1>4
  <2> QED BY <1>3, <1>5, <2>1
<1>8. Before(k + 1)'
  BY <1>1, <1>2, <1>3, <1>5, <1>6, <1>7 DEF Before
<1>9. k + 1 \in 1..Len(order) + 1
  BY <1>3
<1> QED BY <1>1, <1>8, <1>9 DEF WalkInv, WalkedIsVisible, WalkSound, Before

LEMMA WalkVisitWalks == ListInv /\ WalkInv /\ WalkVisit => WalkInv'
<1> SUFFICES ASSUME ListInv, WalkInv, WalkVisit PROVE WalkInv'
  OBVIOUS
<1>1. /\ pc = "walk" /\ node # Null /\ (kind = "serialize" => data[node].held)
      /\ out' = Append(out, data[node].cmd) /\ kind' = kind
      /\ node = current => pc' = "ready"
      /\ node # current => pc' = "walk" /\ node' = next[node]
      /\ Content' = Content /\ Pos' = Pos /\ order' = order /\ current' = current
  BY WalkKeeps DEF WalkVisit
<1>2. PICK k \in 1..Len(order) :
        /\ Before(k) /\ node = order[k] /\ (node = current <=> k = Pos)
        /\ next[node] = IF k + 1 > Len(order) THEN Null ELSE order[k + 1]
  BY <1>1, WalkPlace
<1>3. Len(order) \in Nat /\ Pos \in Nat /\ k \in Nat /\ (k + 1) - 1 = k
  BY <1>1, PosFacts DEF ListInv, TypeOK
<1>4. Content[k] = data[node]
  BY <1>1, <1>2, OneMore
<1>5. (Walked(k - 1) => Walked(k)') /\ (Saved(k - 1) /\ Content[k].held => Saved(k)')
  BY <1>1, <1>4, Taken
<1>6. \/ kind \in {"iterate", "count"} /\ Walked(k)' /\ k <= Pos
      \/ kind = "serialize" /\ Saved(k)' /\ 0 < Pos /\ (k <= Pos \/ ~ Content[Pos].held)
  BY <1>1, <1>2, <1>4, <1>5 DEF Before
<1>7. CASE node = current
  <2>1. pc' = "ready" /\ k = Pos /\ (kind = "serialize" => Content[Pos].held)
    BY <1>1, <1>2, <1>4, <1>7
  <2>2. kind \in {"iterate", "count"} => Walked(Pos)'
    BY <1>1, <1>6, <2>1 DEF Walked
  <2>3. kind = "serialize" => Saved(Pos)'
    BY <1>1, <1>6, <2>1 DEF Saved, WithPoints
  <2>4. WalkedIsVisible'
    BY <1>1, <2>1, <2>2, <2>3 DEF WalkedIsVisible, Walked, Saved, WithPoints
  <2> QED BY <2>1, <2>4 DEF WalkInv, WalkSound
<1>8. CASE node # current
  <2>1. k + 1 <= Pos \/ ~ (k <= Pos)
    BY <1>2, <1>3, <1>8
  <2>2. Before(k + 1)'
    BY <1>1, <1>2, <1>3, <1>6, <1>8, <2>1 DEF Before
  <2>3. k + 1 \in 1..Len(order) + 1
    BY <1>3
  <2> QED BY <1>1, <1>8, <2>2, <2>3 DEF WalkInv, WalkedIsVisible, WalkSound, Before
<1> QED BY <1>7, <1>8

\* Only a walk that had to pass over the last stroke on screen gets here.
LEMMA WalkOffWalks == ListInv /\ WalkInv /\ WalkOff => WalkInv'
<1> SUFFICES ASSUME ListInv, WalkInv, WalkOff PROVE WalkInv'
  OBVIOUS
<1>1. /\ pc = "walk" /\ node = Null /\ pc' = "ready" /\ out' = out /\ kind' = kind
      /\ Content' = Content /\ Pos' = Pos /\ order' = order /\ current' = current
  BY WalkKeeps DEF WalkOff, result
<1>2. PICK k \in 1..Len(order) + 1 : Before(k)
  BY <1>1 DEF WalkInv, WalkSound, Before
<1>3. /\ Len(order) \in Nat /\ Pos \in 0..Len(order)
      /\ \A i \in 1..Len(order) : order[i] \in Nodes
  BY <1>1, PosFacts DEF ListInv, TypeOK
<1>4. k = Len(order) + 1 /\ k - 1 = Len(order) /\ ~ (k <= Pos)
  BY <1>1, <1>2, <1>3, NullAssumption DEF Before
<1>5. kind = "serialize" /\ Saved(Len(order)) /\ 0 < Pos /\ ~ Content[Pos].held
  BY <1>2, <1>4 DEF Before
<1>6. Saved(Len(order))'
  BY <1>1, <1>5 DEF Saved, WithPoints
<1> QED BY <1>1, <1>3, <1>5, <1>6 DEF WalkInv, WalkedIsVisible, WalkSound

\* Other steps begin a call that returns nothing, or are in the middle of one.
LEMMA NoWalk ==
  ASSUME WalkInv, pc' # "walk", kind' \notin Walks
  PROVE  WalkInv'
BY DEF WalkInv, WalkedIsVisible, WalkSound, Walks

LEMMA StillWalks == WalkInv /\ UNCHANGED vars => WalkInv'
<1> SUFFICES ASSUME WalkInv, UNCHANGED vars PROVE WalkInv'
  OBVIOUS
<1>1. /\ pc' = pc /\ kind' = kind /\ out' = out /\ node' = node
      /\ Content' = Content /\ Pos' = Pos /\ order' = order
  BY WalkKeeps DEF vars, locals, result
<1>2. WalkedIsVisible'
  BY <1>1 DEF WalkInv, WalkedIsVisible, Walked, Saved, WithPoints
<1>3. WalkSound'
  BY <1>1 DEF WalkInv, WalkSound, Walked, Saved, WithPoints
<1> QED BY <1>2, <1>3 DEF WalkInv

LEMMA NextWalks == ListInv /\ WalkInv /\ [Next]_vars => WalkInv'
<1> SUFFICES ASSUME ListInv, WalkInv, [Next]_vars PROVE WalkInv'
  OBVIOUS
<1> USE DEF Walks
<1>1. ASSUME NEW m \in Limits, ResetCall(m) PROVE WalkInv'
  BY <1>1, NoWalk DEF ResetCall, EnterReset, NoResult
<1>2. ASSUME NEW s \in Inputs, LoadCall(s) PROVE WalkInv'
  BY <1>2, NoWalk DEF LoadCall, EnterReset, NoResult
<1>3. ASSUME NEW e, PushCall(e) PROVE WalkInv'
  BY <1>3, NoWalk DEF PushCall, EnterPush, NoResult
<1>4. ASSUME NEW h, LoadItem(h) PROVE WalkInv'
  BY <1>4, NoWalk DEF LoadItem, EnterPush, NoResult
<1>5. CASE UndoCall \/ RedoCall
  BY <1>5, NoWalk DEF UndoCall, RedoCall, NoResult
<1>6. pc \in {"reset", "cut", "append", "trim", "load"} => kind \notin Walks
  BY DEF WalkInv, WalkSound
<1>7. CASE FreeNode BY <1>6, <1>7, NoWalk DEF FreeNode, result
<1>8. CASE ResetDone BY <1>6, <1>8, NoWalk DEF ResetDone, result
<1>9. CASE CutDone BY <1>6, <1>9, NoWalk DEF CutDone, result
<1>10. ASSUME NEW n \in Nodes, LinkNode(n) PROVE WalkInv'
  BY <1>6, <1>10, NoWalk DEF LinkNode, result
<1>11. CASE TrimNothing \/ TrimHead
  BY <1>6, <1>11, NoWalk DEF TrimNothing, TrimHead, Return, result
<1>12. CASE SkipItem BY <1>6, <1>12, NoWalk DEF SkipItem, result
<1>13. CASE LoadDone BY <1>13, NoWalk DEF LoadDone
<1>14. CASE \E k \in {"iterate", "count", "serialize"} : WalkCall(k)
  BY <1>14, WalkCallWalks
<1>15. CASE WalkSkip \/ WalkVisit \/ WalkOff
  BY <1>15, WalkSkipWalks, WalkVisitWalks, WalkOffWalks
<1>16. CASE UNCHANGED vars BY <1>16, StillWalks
<1> QED BY <1>1, <1>2, <1>3, <1>4, <1>5, <1>7, <1>8, <1>9, <1>10, <1>11, <1>12, <1>13, <1>14,
           <1>15, <1>16 DEF Next

\* undo_redo.c 129-251: whatever was pushed, undone, trimmed or loaded without
\* its points, a walk returns the commands up to current, and serialize those
\* of them that have points.
THEOREM WalksReturnVisible == Spec => []WalkedIsVisible
<1>1. Init => WalkInv
  BY DEF Init, WalkInv, WalkedIsVisible, WalkSound
<1>2. ListInv /\ WalkInv /\ [Next]_vars => WalkInv'
  BY NextWalks
<1>3. WalkInv => WalkedIsVisible
  BY DEF WalkInv
<1> QED BY <1>1, <1>2, <1>3, ListInvariant, PTL DEF Spec

--------------------------------------------------------------------------------
(* What a load leaves *)

\* The items read are positions of the file before the next one.
LEMMA ReadFacts ==
  ASSUME ListInv, loading
  PROVE  /\ DOMAIN json = 1..Len(json) /\ Len(json) \in Nat /\ item \in Nat \ {0}
         /\ maxSteps \in Nat /\ Len(order) \in Nat
         /\ Read \in SUBSET (1..item)
         /\ pc # "trim" => Read \in SUBSET (1..(item - 1))
<1>1. DOMAIN json = 1..Len(json) /\ Len(json) \in Nat /\ item \in Nat \ {0}
  BY DEF ListInv, TypeOK, LoopSound
<1>2. maxSteps \in Nat /\ Len(order) \in Nat
  BY DEF ListInv, TypeOK
<1>3. Read \in SUBSET (1..item)
  BY <1>1 DEF Read, WellFormed
<1>4. ASSUME pc # "trim" PROVE Read \in SUBSET (1..(item - 1))
  BY <1>1, <1>4 DEF Read, WellFormed
<1> QED BY <1>1, <1>2, <1>3, <1>4

\* A step that changes neither the list nor what is read of the file.
LEMMA NewestStays ==
  ASSUME NewestOf(Read), Content' = Content, order' = order, maxSteps' = maxSteps, json' = json,
         pc = "trim" <=> pc' = "trim", Read' = Read
  PROVE  NewestOf(Read)'
BY DEF NewestOf

\* undo_redo.c 318-320: the load is over when every item was read.
LEMMA LoadEnds == ListInv /\ LoadSound => LoadsNewest
<1> SUFFICES ASSUME ListInv, LoadSound, pc = "ready", kind = "load"
             PROVE  NewestOf(WellFormed(json) \ lost) /\ Pos = Len(order)
  BY DEF LoadsNewest
<1>1. loading /\ item > Len(json) /\ current = tail /\ NewestOf(Read)
  BY DEF LoadSound
<1>2. Read = WellFormed(json) \ lost
  BY <1>1, ReadFacts DEF Read, WellFormed
<1>3. Pos = Len(order)
  BY <1>1, TailPos
<1> QED BY <1>1, <1>2, <1>3

\* undo_redo.c 267-271: a load starts over an empty list.
LEMMA LoadCallLoads ==
  ASSUME NEW s, LoadCall(s)
  PROVE  LoadSound'
BY DEF LoadCall, EnterReset, NoResult, LoadSound

LEMMA ResetDoneLoads == ListInv /\ ListInv' /\ LoadSound /\ loading /\ ResetDone => LoadSound'
<1> SUFFICES ASSUME ListInv, ListInv', LoadSound, loading, ResetDone PROVE LoadSound'
  OBVIOUS
<1>1. /\ pc = "reset" /\ pc' = "load" /\ loading' = loading /\ kind' = kind
      /\ json' = json /\ item' = item /\ lost' = lost /\ order' = order
  BY DEF ResetDone, load, result, ghost
<1>2. item = 1 /\ kind # "load" /\ order = <<>>
  BY <1>1 DEF LoadSound, ListInv, LoopSound
<1>3. DOMAIN json = 1..Len(json) /\ Len(json) \in Nat
  BY ReadFacts
<1>4. Read' = {}
  BY <1>1, <1>2, <1>3 DEF Read, WellFormed
<1>5. Content' = <<>>
  <2>1. Content' = [i \in {} |-> data'[order'[i]]] BY <1>1, <1>2 DEF Content
  <2> QED BY <2>1
<1>6. Cardinality({}) = 0
  BY FS_EmptySet
<1>7. LastOf(Commands(Content'), json', {})
  <2>1. Commands(<<>>) = <<>> BY DEF Commands
  <2>2. Len(<<>>) = 0 OBVIOUS
  <2> QED BY <1>5, <1>6, <2>1, <2>2 DEF LastOf
<1>8. Len(order') = Lesser(Cardinality({}), maxSteps')
  <2>1. Len(order') = 0 BY <1>1, <1>2
  <2>2. maxSteps' \in Nat BY DEF ListInv, TypeOK
  <2> QED BY <1>6, <2>1, <2>2 DEF Lesser
<1>9. NewestOf(Read)'
  BY <1>1, <1>4, <1>7, <1>8 DEF NewestOf
<1> QED BY <1>1, <1>2, <1>9 DEF LoadSound

\* undo_redo.c 275-304: an item passed over was no command, or had no memory.
LEMMA SkipItemLoads == ListInv /\ LoadSound /\ SkipItem => LoadSound'
<1> SUFFICES ASSUME ListInv, LoadSound, SkipItem PROVE LoadSound'
  OBVIOUS
<1>1. /\ pc = "load" /\ pc' = pc /\ item' = item + 1 /\ json' = json /\ loading' = loading
      /\ kind' = kind /\ maxSteps' = maxSteps
      /\ \/ json[item] = Malformed /\ lost' = lost
         \/ lost' = lost \union {item}
      /\ Content' = Content /\ order' = order
  BY WalkKeeps DEF SkipItem, locals, result, hvars
<1>2. loading /\ kind # "load" /\ NewestOf(Read)
  BY <1>1 DEF ListInv, LoopSound, LoadSound
<1>3. item \in Nat /\ \A i \in WellFormed(json) : i \in Nat
  BY <1>2, ReadFacts DEF WellFormed
<1>4. \A i \in lost : i \in Nat /\ i < item
  BY DEF ListInv, TypeOK, LoadSound
<1>5. Read' = Read
  <2>1. /\ Read = {i \in WellFormed(json) \ lost : i < item}
        /\ Read' = {i \in WellFormed(json) \ lost' : i < item + 1}
    BY <1>1 DEF Read, WellFormed
  <2>2. json[item] = Malformed => item \notin WellFormed(json)
    BY DEF WellFormed
  <2> QED BY <1>1, <1>3, <2>1, <2>2
<1>6. NewestOf(Read)'
  BY <1>1, <1>2, <1>5, NewestStays
<1>7. \A i \in lost' : i < item'
  BY <1>1, <1>3, <1>4
<1> QED BY <1>1, <1>2, <1>6, <1>7 DEF LoadSound

\* undo_redo.c 275-316: a load pushes at the tail, so nothing is cut.
LEMMA LoadItemLoads ==
  ASSUME ListInv, LoadSound, NEW h, LoadItem(h)
  PROVE  LoadSound'
<1>1. /\ pc = "load" /\ item <= Len(json) /\ json[item] # Malformed
      /\ arg' = [cmd |-> json[item], held |-> h] /\ kind' = "none"
      /\ json' = json /\ item' = item /\ lost' = lost /\ loading' = loading /\ maxSteps' = maxSteps
      /\ current = tail => pc' = "append" /\ UNCHANGED ghost
      /\ UNCHANGED <<hvars, cells>>
  BY DEF LoadItem, EnterPush, NoResult, load, hvars
<1>2. loading /\ current = tail /\ NewestOf(Read)
  BY <1>1 DEF ListInv, LoopSound, LoadSound
<1>3. pc' = "append" /\ Content' = Content /\ order' = order
  BY <1>1, <1>2, WalkKeeps
<1>4. item \in WellFormed(json)
  BY <1>1, <1>2, ReadFacts DEF WellFormed
<1>5. Read' = Read
  BY <1>1, <1>3 DEF Read, WellFormed
<1>6. NewestOf(Read)'
  BY <1>1, <1>2, <1>3, <1>5, NewestStays
<1> QED BY <1>1, <1>3, <1>4, <1>6 DEF LoadSound

\* undo_redo.c 59-81: the item joins the list.
LEMMA LinkNodeLoads ==
  ASSUME ListInv, LoadSound, loading, NEW n \in Nodes, LinkNode(n)
  PROVE  LoadSound'
<1>1. /\ pc = "append" /\ pc' = "trim" /\ maxSteps' = maxSteps /\ loading' = loading
      /\ json' = json /\ item' = item /\ lost' = lost /\ kind' = kind
  BY DEF LinkNode, load, result
<1>2. /\ kind # "load" /\ NewestOf(Read) /\ arg.cmd = json[item]
      /\ item \in WellFormed(json) \ lost
  BY <1>1, ReadFacts DEF LoadSound
<1>3. PICK c : c = Content OBVIOUS
<1>4. PICK d : d = Content' OBVIOUS
<1>5. /\ d = Append(c, arg) /\ arg \in Entries /\ c \in Seq(Entries)
      /\ Len(order') = Len(order) + 1
  BY <1>3, <1>4, LinkContent, ContentFacts
<1>6. PICK T : /\ T = Read /\ LastOf(Commands(c), json, T)
               /\ Len(order) = Lesser(Cardinality(T), maxSteps)
  BY <1>1, <1>2, <1>3 DEF NewestOf
<1>7. /\ Read \in SUBSET (1..(item - 1)) /\ item - 1 \in Nat /\ (item - 1) + 1 = item
      /\ maxSteps \in Nat
  BY <1>1, ReadFacts
<1>8. T \in SUBSET (1..(item - 1))
  BY <1>6, <1>7
<1>9. Read' = Read \union {item}
  <2>1. Read = {i \in WellFormed(json) \ lost : i < item}
    BY <1>1 DEF Read
  <2>2. Read' = {i \in WellFormed(json) \ lost : i < item \/ i = item}
    BY <1>1 DEF Read, WellFormed
  <2> QED BY <1>2, <2>1, <2>2
<1> DEFINE U == T \union {item}
<1>10. Commands(d) = Append(Commands(c), json[item]) /\ Commands(c) \in Seq(Cmds) /\ json[item] \in Cmds
  <2>1. arg.cmd \in Cmds BY <1>5 DEF Entries
  <2> QED BY <1>2, <1>5, <2>1, CommandsFacts
<1>11. Cardinality(U) = Cardinality(T) + 1 /\ Cardinality(T) \in Nat
  BY <1>7, <1>8, PlaceFacts, PlaceMore
<1>12. LastOf(Commands(d), json, U)
  <2>1. PICK s : s = Commands(c) OBVIOUS
  <2>2. PICK m \in Nat : m = item - 1 BY <1>7
  <2>3. m + 1 = item /\ json[item] = json[m + 1] BY <1>7, <2>2
  <2>4. s \in Seq(Cmds) /\ json[item] \in Cmds /\ LastOf(s, json, T) /\ T \in SUBSET (1..m)
    BY <1>6, <1>8, <1>10, <2>1, <2>2
  <2>5. LastOf(Append(s, json[item]), json, T \union {m + 1})
    BY <2>2, <2>3, <2>4, LastOfAppend
  <2> QED BY <1>10, <2>1, <2>3, <2>5
<1>13. Len(order') = Lesser(Cardinality(U) - 1, maxSteps) + 1
  <2>1. Cardinality(U) - 1 = Cardinality(T) BY <1>11
  <2> QED BY <1>5, <1>6, <2>1
<1>14. U = Read'
  BY <1>6, <1>9
<1> HIDE DEF U
<1>15. NewestOf(Read)'
  BY <1>1, <1>4, <1>12, <1>13, <1>14 DEF NewestOf
<1>16. \A i \in lost' : i < item'
  BY <1>1 DEF LoadSound
<1> QED BY <1>1, <1>2, <1>15, <1>16 DEF LoadSound

\* undo_redo.c 83-98: the next item, once the list is within the limit.
LEMMA TrimLoads ==
  ASSUME ListInv, ListInv', LoadSound, loading, TrimNothing \/ TrimHead
  PROVE  LoadSound'
<1>1. /\ pc = "trim" /\ pc' = "load" /\ item' = item + 1 /\ loading' = loading /\ json' = json
      /\ lost' = lost
      /\ kind' = kind /\ maxSteps' = maxSteps
  BY DEF TrimNothing, TrimHead, Return, locals, result, hvars
<1>2. kind # "load" /\ NewestOf(Read)
  BY <1>1 DEF LoadSound
<1>3. Read' = Read
  <2>1. item \in Nat /\ \A i \in WellFormed(json) : i \in Nat
    BY ReadFacts DEF WellFormed
  <2>2. Read = {i \in WellFormed(json) \ lost : i < item \/ i = item}
    BY <1>1 DEF Read
  <2>3. Read' = {i \in WellFormed(json) \ lost : i < item + 1}
    BY <1>1 DEF Read, WellFormed
  <2> QED BY <2>1, <2>2, <2>3
<1>4. PICK T : /\ T = Read /\ LastOf(Commands(Content), json, T)
               /\ Len(order) = Lesser(Cardinality(T) - 1, maxSteps) + 1
  BY <1>1, <1>2 DEF NewestOf
<1>5. /\ T \in SUBSET (1..item) /\ item \in Nat /\ maxSteps \in Nat /\ Len(order) \in Nat
      /\ Cardinality(T) \in Nat
  BY <1>4, ReadFacts, PlaceFacts
<1>6. \A i \in lost' : i < item'
  BY <1>1, <1>5 DEF LoadSound, ListInv, TypeOK
<1>7. CASE TrimNothing
  <2>1. Len(order) <= maxSteps /\ Content' = Content /\ order' = order
    BY <1>7, TrimmedEnough, WalkKeeps DEF TrimNothing
  <2>2. Len(order) = Lesser(Cardinality(T), maxSteps)
    BY <1>4, <1>5, <2>1 DEF Lesser
  <2>3. LastOf(Commands(Content'), json', T)
    BY <1>1, <1>4, <2>1
  <2>4. NewestOf(Read)'
    BY <1>1, <1>3, <1>4, <2>1, <2>2, <2>3 DEF NewestOf
  <2> QED BY <1>1, <1>2, <1>6, <2>4 DEF LoadSound
<1>8. CASE TrimHead
  <2>1. PICK c : c = Content OBVIOUS
  <2>2. PICK d : d = Content' OBVIOUS
  <2>3. /\ d = Tail(c) /\ c # <<>> /\ c \in Seq(Entries)
        /\ Len(order') = Len(order) - 1 /\ Len(order) > maxSteps
    BY <1>8, <2>1, <2>2, TrimContent, ContentFacts
  <2>4. Len(order') = Lesser(Cardinality(T), maxSteps)
    BY <1>4, <1>5, <2>3 DEF Lesser
  <2>5. Commands(d) = Tail(Commands(c)) /\ Commands(c) # <<>> /\ Commands(c) \in Seq(Cmds)
    BY <2>3, CommandsFacts
  <2>6. LastOf(Commands(d), json, T)
    BY <1>4, <1>5, <2>1, <2>5, LastOfTail
  <2>7. NewestOf(Read)'
    BY <1>1, <1>3, <1>4, <2>2, <2>4, <2>6 DEF NewestOf
  <2> QED BY <1>1, <1>2, <1>6, <2>7 DEF LoadSound
<1> QED BY <1>7, <1>8

LEMMA LoadDoneLoads == ListInv /\ LoadSound /\ LoadDone => LoadSound'
<1> SUFFICES ASSUME ListInv, LoadSound, LoadDone PROVE LoadSound'
  OBVIOUS
<1>1. /\ pc = "load" /\ pc' = "ready" /\ item > Len(json) /\ current' = tail /\ tail' = tail
      /\ loading' = loading /\ json' = json /\ item' = item /\ lost' = lost /\ maxSteps' = maxSteps
      /\ Content' = Content /\ order' = order
  BY DEF LoadDone, locals, load, cells, ghost, Content
<1>2. loading /\ NewestOf(Read)
  BY <1>1 DEF ListInv, LoopSound, LoadSound
<1>3. Read' = Read
  BY <1>1 DEF Read, WellFormed
<1>4. NewestOf(Read)'
  BY <1>1, <1>2, <1>3, NewestStays
<1> QED BY <1>1, <1>2, <1>4 DEF LoadSound

\* Steps of other calls.
LEMMA NoLoad ==
  ASSUME loading' = FALSE, kind' # "load", \A i \in lost' : i < item'
  PROVE  LoadSound'
BY DEF LoadSound

LEMMA LoadStays == LoadSound /\ UNCHANGED vars => LoadSound'
<1> SUFFICES ASSUME LoadSound, UNCHANGED vars PROVE LoadSound'
  OBVIOUS
<1>1. /\ pc' = pc /\ kind' = kind /\ loading' = loading /\ json' = json /\ item' = item
      /\ lost' = lost /\ arg' = arg /\ current' = current /\ tail' = tail /\ maxSteps' = maxSteps
      /\ Content' = Content /\ order' = order
  BY WalkKeeps DEF vars, locals, load, result, hvars
<1>2. Read' = Read
  BY <1>1 DEF Read, WellFormed
<1>3. NewestOf(Read) => NewestOf(Read)'
  BY <1>1, <1>2, NewestStays
<1> QED BY <1>1, <1>2, <1>3 DEF LoadSound

LEMMA NextLoads == ListInv /\ ListInv' /\ LoadSound /\ [Next]_vars => LoadSound'
<1> SUFFICES ASSUME ListInv, ListInv', LoadSound, [Next]_vars PROVE LoadSound'
  OBVIOUS
<1>1. ASSUME NEW m \in Limits, ResetCall(m) PROVE LoadSound'
  BY <1>1, NoLoad DEF ResetCall, EnterReset, NoResult, NoInput
<1>2. ASSUME NEW s \in Inputs, LoadCall(s) PROVE LoadSound'
  BY <1>2, LoadCallLoads
<1>3. ASSUME NEW e, PushCall(e) PROVE LoadSound'
  BY <1>3, NoLoad DEF PushCall, EnterPush, NoResult, NoInput
<1>4. CASE UndoCall \/ RedoCall
  BY <1>4, NoLoad DEF UndoCall, RedoCall, NoResult, NoInput
<1>5. ASSUME NEW k \in {"iterate", "count", "serialize"}, WalkCall(k) PROVE LoadSound'
  BY <1>5, NoLoad DEF WalkCall, NoInput
<1>6. /\ loading \in BOOLEAN /\ (~ loading => loading = FALSE /\ kind # "load")
      /\ \A i \in lost : i < item
  BY DEF ListInv, TypeOK, LoadSound
<1>7. CASE FreeNode
  <2>1. /\ pc \in {"reset", "cut"} /\ pc' = pc /\ kind' = kind /\ loading' = loading
        /\ item' = item /\ lost' = lost
    BY <1>7 DEF FreeNode, load, result
  <2>2. CASE ~ loading BY <1>6, <2>1, <2>2, NoLoad
  <2>3. CASE loading
    <3>1. pc = "reset" /\ item = 1 /\ kind # "load" BY <2>1, <2>3 DEF LoadSound
    <3> QED BY <1>6, <2>1, <3>1 DEF LoadSound
  <2> QED BY <2>2, <2>3
<1>8. CASE ResetDone
  <2>1. CASE ~ loading BY <1>6, <1>8, <2>1, NoLoad DEF ResetDone, load, result
  <2> QED BY <1>8, <2>1, ResetDoneLoads
<1>9. CASE CutDone
  <2>1. ~ loading /\ loading' = loading /\ kind' = kind /\ item' = item /\ lost' = lost
    BY <1>9 DEF CutDone, locals, load, result, LoadSound
  <2> QED BY <1>6, <2>1, NoLoad
<1>10. ASSUME NEW n \in Nodes, LinkNode(n) PROVE LoadSound'
  <2>1. CASE ~ loading BY <1>6, <1>10, <2>1, NoLoad DEF LinkNode, load, result
  <2> QED BY <1>10, <2>1, LinkNodeLoads
<1>11. CASE TrimNothing \/ TrimHead
  <2>1. CASE ~ loading BY <1>6, <1>11, <2>1, NoLoad DEF TrimNothing, TrimHead, Return, locals, result
  <2> QED BY <1>11, <2>1, TrimLoads
<1>12. CASE SkipItem BY <1>12, SkipItemLoads
<1>13. ASSUME NEW h, LoadItem(h) PROVE LoadSound' BY <1>13, LoadItemLoads
<1>14. CASE LoadDone BY <1>14, LoadDoneLoads
<1>15. CASE WalkSkip \/ WalkVisit \/ WalkOff
  <2>1. ~ loading /\ loading' = loading /\ kind' = kind /\ item' = item /\ lost' = lost
    BY <1>15 DEF WalkSkip, WalkVisit, WalkOff, locals, load, result, LoadSound
  <2> QED BY <1>6, <2>1, NoLoad
<1>16. CASE UNCHANGED vars BY <1>16, LoadStays
<1> QED BY <1>1, <1>2, <1>3, <1>4, <1>5, <1>7, <1>8, <1>9, <1>10, <1>11, <1>12, <1>13, <1>14,
           <1>15, <1>16 DEF Next

\* undo_redo.c 253-322: a load leaves the newest commands of the file that the
\* limit has room for, in their order, all on screen; the only ones passed
\* over are those for whose points there was no memory.
THEOREM LoadsKeepNewest == Spec => []LoadsNewest
<1>1. Init => LoadSound
  BY DEF Init, LoadSound
<1>2. ListInv /\ ListInv' /\ LoadSound /\ [Next]_vars => LoadSound'
  BY NextLoads
<1>3. ListInv /\ LoadSound => LoadsNewest
  BY LoadEnds
<1> QED BY <1>1, <1>2, <1>3, ListInvariant, PTL DEF Spec
===============================================================================

------------------------------- MODULE UndoList -------------------------------
(***************************************************************************)
(* src/common/undo_redo.c at the level of its pointers: the doubly linked  *)
(* list in g_history, the heap it lives in, and every loop of every call   *)
(* one iteration at a time (free, push, load, walk).  One thread calls it, *)
(* so a call starts only when the previous one has returned (pc "ready").  *)
(***************************************************************************)
EXTENDS UndoOps, FiniteSets

CONSTANTS
  Nodes,          \* heap cells malloc can return
  Cmds,           \* draw commands, points and all
  Limits,         \* arguments of undo_redo_init
  DefaultSteps,   \* 50 in undo_redo_deserialize
  PointsMayFail,  \* TRUE: malloc of a points array may return NULL
  MaxItems,       \* bound: longest JSON array given to deserialize
  Null,           \* NULL
  Junk,           \* the contents of a cell that is free
  Malformed       \* a JSON item with neither points nor coordinates

ASSUME LimitsAssumption == /\ Limits \subseteq Nat
                           /\ DefaultSteps \in Limits
ASSUME MaxItemsAssumption == MaxItems \in Nat
ASSUME FailAssumption == PointsMayFail \in BOOLEAN
ASSUME NullAssumption == /\ Null \notin Nodes
                         /\ Junk \notin Nodes
                         /\ Junk # Null
ASSUME MalformedAssumption == Malformed \notin Cmds

\* A stored command: held is FALSE when point_count > 0 but points is NULL.
Entries == [cmd : Cmds, held : BOOLEAN]
Outcomes == IF PointsMayFail THEN BOOLEAN ELSE {TRUE}

Pointers == Nodes \union {Null}

VARIABLES
  head, tail, current, count, maxSteps,   \* g_history
  next, prev, data,                       \* fields of the cells
  live,                                   \* cells allocated and not freed
  pc, node, arg, steps, loading,          \* control, locals and arguments
  json, item,                             \* deserialize: input and position
  kind, out,                              \* the last result returned
  order,                                  \* ghost: the list, head to tail
  doomed,                                 \* ghost: cells a loop must free
  lost                                    \* ghost: commands of json for whose
                                          \* points there was no memory

hvars == <<head, tail, current, count, maxSteps>>
cells == <<next, prev, data, live>>
locals == <<node, arg, steps, loading>>
load == <<json, item, lost>>
result == <<kind, out>>
ghost == <<order, doomed>>
vars == <<hvars, cells, pc, locals, load, result, ghost>>

NoArg == [cmd |-> Null, held |-> FALSE]

Init ==
  /\ head = Null /\ tail = Null /\ current = Null
  /\ count = 0 /\ maxSteps = 0
  /\ next = [n \in Nodes |-> Junk]
  /\ prev = [n \in Nodes |-> Junk]
  /\ data = [n \in Nodes |-> Junk]
  /\ live = {}
  /\ pc = "ready" /\ node = Null /\ arg = NoArg /\ steps = 0 /\ loading = FALSE
  /\ json = <<>> /\ item = 0 /\ lost = {}
  /\ kind = "none" /\ out = <<>>
  /\ order = <<>> /\ doomed = <<>>

\* Where `current' is in the list; 0 before the first command.
Pos == IF current = Null THEN 0 ELSE CHOOSE i \in DOMAIN order : order[i] = current

NoResult == kind' = "none" /\ out' = <<>>
NoInput == loading' = FALSE /\ json' = <<>> /\ item' = 0 /\ lost' = {}

--------------------------------------------------------------------------------
(* undo_redo_init and the loop that frees the list *)

EnterReset(m) ==
  /\ pc' = "reset" /\ node' = head /\ steps' = m
  /\ order' = <<>> /\ doomed' = order
  /\ NoResult

ResetCall(m) ==
  /\ pc = "ready"
  /\ EnterReset(m)
  /\ NoInput
  /\ UNCHANGED <<hvars, cells, arg>>

\* One iteration of `while (node)' in init (30) or push (48 counts down).
FreeNode ==
  /\ pc \in {"reset", "cut"} /\ node # Null
  /\ node' = next[node]
  /\ live' = live \ {node}
  /\ next' = [next EXCEPT ![node] = Junk]
  /\ prev' = [prev EXCEPT ![node] = Junk]
  /\ data' = [data EXCEPT ![node] = Junk]
  /\ count' = IF pc = "cut" THEN count - 1 ELSE count
  /\ doomed' = Tail(doomed)
  /\ UNCHANGED <<head, tail, current, maxSteps, pc, arg, steps, loading, load, result, order>>

\* memset and the new limit; deserialize goes on to its items.
ResetDone ==
  /\ pc = "reset" /\ node = Null
  /\ head' = Null /\ tail' = Null /\ current' = Null /\ count' = 0
  /\ maxSteps' = steps /\ steps' = 0
  /\ pc' = IF loading THEN "load" ELSE "ready"
  /\ UNCHANGED <<cells, node, arg, loading, load, result, ghost>>

--------------------------------------------------------------------------------
(* undo_redo_push *)

EnterPush(e) ==
  /\ arg' = e
  /\ NoResult
  /\ \/ /\ current = tail
        /\ pc' = "append"
        /\ UNCHANGED <<node, ghost>>
     \/ /\ current # tail
        /\ pc' = "cut"
        /\ node' = IF current # Null THEN next[current] ELSE head
        /\ order' = SubSeq(order, 1, Pos)
        /\ doomed' = SubSeq(order, Pos + 1, Len(order))

PushCall(e) ==
  /\ pc = "ready"
  /\ EnterPush(e)
  /\ NoInput
  /\ UNCHANGED <<hvars, cells, steps>>

\* Mutant: head is left at the freed cells when everything was undone.
CutDoneKeepsHead ==
  /\ pc = "cut" /\ node = Null
  /\ pc' = "append"
  /\ tail' = current
  /\ next' = IF current # Null THEN [next EXCEPT ![current] = Null] ELSE next
  /\ UNCHANGED <<head, current, count, maxSteps, prev, data, live, locals, load, result, ghost>>

\* The redo branch is freed: the list now ends at current.
CutDone ==
  /\ pc = "cut" /\ node = Null
  /\ pc' = "append"
  /\ tail' = current
  /\ IF current # Null
       THEN /\ next' = [next EXCEPT ![current] = Null]
            /\ head' = head
       ELSE /\ next' = next
            /\ head' = Null
  /\ UNCHANGED <<current, count, maxSteps, prev, data, live, locals, load, result, ghost>>

\* malloc the node, copy the command into it, link it after tail.
LinkNode(n) ==
  /\ pc = "append" /\ n \notin live
  /\ pc' = "trim"
  /\ live' = live \union {n}
  /\ data' = [data EXCEPT ![n] = arg] /\ arg' = NoArg
  /\ prev' = [prev EXCEPT ![n] = tail]
  /\ next' = IF tail # Null THEN [next EXCEPT ![n] = Null, ![tail] = n]
                            ELSE [next EXCEPT ![n] = Null]
  /\ head' = IF tail # Null THEN head ELSE n
  /\ tail' = n /\ current' = n
  /\ count' = count + 1
  /\ order' = Append(order, n)
  /\ UNCHANGED <<maxSteps, node, steps, loading, load, result, doomed>>

\* Mutant: the loop of undo_redo_deserialize reads the same item again.
ReturnToItem ==
  /\ pc' = IF loading THEN "load" ELSE "ready"
  /\ item' = item

\* Back to the caller: the GUI, or the loop of undo_redo_deserialize.
Return ==
  IF loading THEN pc' = "load" /\ item' = item + 1
             ELSE pc' = "ready" /\ item' = item

TrimNothing ==
  /\ pc = "trim" /\ (count <= maxSteps \/ head = Null)
  /\ Return
  /\ UNCHANGED <<hvars, cells, locals, json, lost, result, ghost>>

\* Over the limit: the oldest command is unlinked and freed.
TrimHead ==
  /\ pc = "trim" /\ count > maxSteps /\ head # Null
  /\ LET second == next[head]
     IN  /\ head' = second
         /\ tail' = IF tail = head THEN Null ELSE tail
         /\ current' = IF current = head THEN Null ELSE current
         /\ next' = [next EXCEPT ![head] = Junk]
         /\ prev' = IF second # Null THEN [prev EXCEPT ![second] = Null, ![head] = Junk]
                                     ELSE [prev EXCEPT ![head] = Junk]
         /\ data' = [data EXCEPT ![head] = Junk]
         /\ live' = live \ {head}
  /\ count' = count - 1
  /\ order' = Tail(order)
  /\ Return
  /\ UNCHANGED <<maxSteps, locals, json, lost, result, doomed>>

--------------------------------------------------------------------------------
(* undo_redo_undo, undo_redo_redo *)

UndoCall ==
  /\ pc = "ready" /\ current # Null
  /\ current' = prev[current]
  /\ NoResult /\ NoInput
  /\ UNCHANGED <<head, tail, count, maxSteps, cells, pc, node, arg, steps, ghost>>

\* Mutant: the first redo after everything was undone redoes it all.
RedoCallToTail ==
  /\ pc = "ready" /\ current # tail
  /\ current' = IF current # Null THEN next[current] ELSE tail
  /\ NoResult /\ NoInput
  /\ UNCHANGED <<head, tail, count, maxSteps, cells, pc, node, arg, steps, ghost>>

RedoCall ==
  /\ pc = "ready" /\ current # tail
  /\ current' = IF current # Null THEN next[current] ELSE head
  /\ NoResult /\ NoInput
  /\ UNCHANGED <<head, tail, count, maxSteps, cells, pc, node, arg, steps, ghost>>

--------------------------------------------------------------------------------
(* undo_redo_deserialize: text that is no JSON array acts like an empty one *)

LoadCall(s) ==
  /\ pc = "ready"
  /\ EnterReset(LoadLimit(maxSteps, DefaultSteps))
  /\ loading' = TRUE
  /\ json' = s /\ item' = 1 /\ lost' = {}
  /\ UNCHANGED <<hvars, cells, arg>>

\* A malformed item, or (301) one whose points cannot be allocated.
SkipItem ==
  /\ pc = "load" /\ item <= Len(json)
  /\ \/ json[item] = Malformed /\ lost' = lost
     \/ json[item] # Malformed /\ PointsMayFail /\ lost' = lost \union {item}
  /\ item' = item + 1
  /\ UNCHANGED <<hvars, cells, pc, locals, json, result, ghost>>

LoadItem(held) ==
  /\ pc = "load" /\ item <= Len(json)
  /\ json[item] # Malformed
  /\ EnterPush([cmd |-> json[item], held |-> held])
  /\ UNCHANGED <<hvars, cells, steps, loading, load>>

\* Mutant: the load stops when the history is full, and keeps the oldest.
LoadDoneWhenFull ==
  /\ pc = "load" /\ (item > Len(json) \/ count = maxSteps)
  /\ current' = tail
  /\ pc' = "ready"
  /\ kind' = "load" /\ out' = <<>>
  /\ UNCHANGED <<head, tail, count, maxSteps, cells, locals, load, ghost>>

LoadDone ==
  /\ pc = "load" /\ item > Len(json)
  /\ current' = tail
  /\ pc' = "ready"
  /\ kind' = "load" /\ out' = <<>>
  /\ UNCHANGED <<head, tail, count, maxSteps, cells, locals, load, ghost>>

--------------------------------------------------------------------------------
(* The walks: undo_redo_iterate (the commands given to the callback),      *)
(* canvas_get_command_count (their number) and undo_redo_serialize.        *)

WalkCall(k) ==
  /\ pc = "ready"
  /\ kind' = k /\ out' = <<>>
  /\ NoInput
  /\ IF head = Null \/ current = Null
       THEN UNCHANGED <<pc, node>>
       ELSE pc' = "walk" /\ node' = head
  /\ UNCHANGED <<hvars, cells, arg, steps, ghost>>

\* Mutant: `continue' without `node = node->next'.
WalkSkipStays ==
  /\ pc = "walk" /\ node # Null
  /\ kind = "serialize" /\ ~data[node].held
  /\ UNCHANGED vars

\* Only serialize skips a command without points, and with it the test
\* that would have ended the loop at current.
WalkSkip ==
  /\ pc = "walk" /\ node # Null
  /\ kind = "serialize" /\ ~data[node].held
  /\ node' = next[node]
  /\ UNCHANGED <<hvars, cells, pc, arg, steps, loading, load, result, ghost>>

\* Mutant: the walk ends at tail, not at current.
WalkVisitToTail ==
  /\ pc = "walk" /\ node # Null
  /\ kind = "serialize" => data[node].held
  /\ out' = Append(out, data[node].cmd)
  /\ IF node = tail THEN pc' = "ready" /\ node' = Null
                    ELSE pc' = "walk" /\ node' = next[node]
  /\ UNCHANGED <<hvars, cells, arg, steps, loading, load, kind, ghost>>

WalkVisit ==
  /\ pc = "walk" /\ node # Null
  /\ kind = "serialize" => data[node].held
  /\ out' = Append(out, data[node].cmd)
  /\ IF node = current THEN pc' = "ready" /\ node' = Null
                       ELSE pc' = "walk" /\ node' = next[node]
  /\ UNCHANGED <<hvars, cells, arg, steps, loading, load, kind, ghost>>

WalkOff ==
  /\ pc = "walk" /\ node = Null
  /\ pc' = "ready"
  /\ UNCHANGED <<hvars, cells, locals, load, result, ghost>>

--------------------------------------------------------------------------------
Inputs == UNION {[1..n -> Cmds \union {Malformed}] : n \in 0..MaxItems}

\* The steps of a call that has started.
Running ==
  \/ FreeNode \/ ResetDone
  \/ CutDone
  \/ \E n \in Nodes : LinkNode(n)
  \/ TrimNothing \/ TrimHead
  \/ SkipItem
  \/ \E h \in Outcomes : LoadItem(h)
  \/ LoadDone
  \/ WalkSkip \/ WalkVisit \/ WalkOff

Next ==
  \/ \E m \in Limits : ResetCall(m)
  \/ FreeNode \/ ResetDone
  \/ \E c \in Cmds, h \in Outcomes : PushCall([cmd |-> c, held |-> h])
  \/ CutDone
  \/ \E n \in Nodes : LinkNode(n)
  \/ TrimNothing \/ TrimHead
  \/ UndoCall \/ RedoCall
  \/ \E s \in Inputs : LoadCall(s)
  \/ SkipItem
  \/ \E h \in Outcomes : LoadItem(h)
  \/ LoadDone
  \/ \E k \in {"iterate", "count", "serialize"} : WalkCall(k)
  \/ WalkSkip \/ WalkVisit \/ WalkOff

Spec == Init /\ [][Next]_vars

\* A call that has started keeps running; nobody is obliged to start one.
FairSpec == Spec /\ WF_vars(Running)

--------------------------------------------------------------------------------
(* Properties *)

Cells(s) == {s[i] : i \in DOMAIN s}
Lesser(m, n) == IF m < n THEN m ELSE n
Distinct(s) == \A i, j \in DOMAIN s : i # j => s[i] # s[j]

TypeOK ==
  /\ {head, tail, current} \subseteq Pointers
  /\ count \in Int /\ maxSteps \in Nat /\ steps \in Nat
  /\ next \in [Nodes -> Pointers \union {Junk}]
  /\ prev \in [Nodes -> Pointers \union {Junk}]
  /\ data \in [Nodes -> Entries \union {Junk}]
  /\ live \subseteq Nodes
  /\ pc \in {"ready", "reset", "cut", "append", "trim", "load", "walk"}
  /\ node \in Pointers
  /\ arg \in Entries \union {NoArg}
  /\ loading \in BOOLEAN
  /\ json \in Seq(Cmds \union {Malformed}) /\ item \in Nat /\ lost \subseteq Nat
  /\ kind \in {"none", "load", "iterate", "count", "serialize"}
  /\ out \in Seq(Cmds)
  /\ order \in Seq(Nodes) /\ doomed \in Seq(Nodes)

\* Memory: every cell allocated is in the list or about to be freed by the
\* running loop (no leak), once (no double free), and every pointer that the
\* code may still follow leads to an allocated cell (no use after free).
HeapSound ==
  /\ live = Cells(order) \union Cells(doomed)
  /\ Cells(order) \intersect Cells(doomed) = {}
  /\ Distinct(order) /\ Distinct(doomed)
  /\ node \in live \union {Null}
  /\ pc \notin {"reset", "cut"} =>
       /\ {head, tail, current} \subseteq live \union {Null}
       /\ \A n \in live : {next[n], prev[n]} \subseteq live \union {Null}

\* Shape: from head along next the list is exactly the strokes in the order
\* they were pushed, prev is its inverse, and it ends at tail.
ListShape ==
  /\ \A i \in DOMAIN order :
       /\ prev[order[i]] = (IF i = 1 THEN Null ELSE order[i - 1])
       /\ i < Len(order) => next[order[i]] = order[i + 1]
       /\ (i = Len(order) /\ pc # "cut") => next[order[i]] = Null
  /\ pc \notin {"reset", "cut"} =>
       IF order = <<>> THEN head = Null /\ tail = Null /\ current = Null
                       ELSE head = order[1] /\ tail = order[Len(order)]

\* count is the length of the list and never ends a call above max_steps.
CountSound ==
  /\ pc # "reset" => count = Len(order) + Len(doomed)
  /\ pc \notin {"reset", "trim"} => count <= maxSteps
  /\ pc = "trim" => count <= maxSteps + 1

\* What the running loop relies on: the cells it still has to free hang
\* together from node, and where current and head are meanwhile.
LoopSound ==
  /\ pc \in {"reset", "cut"} =>
       /\ node = IF doomed = <<>> THEN Null ELSE doomed[1]
       /\ \A i \in DOMAIN doomed :
            next[doomed[i]] = IF i = Len(doomed) THEN Null ELSE doomed[i + 1]
  /\ pc \notin {"reset", "cut"} => doomed = <<>>
  /\ pc \in {"ready", "append", "trim", "load"} => node = Null
  /\ pc = "reset" => order = <<>>
  /\ pc # "reset" => current \in Cells(order) \union {Null}
  /\ pc = "cut" => IF order = <<>>
                     THEN current = Null
                     ELSE head = order[1] /\ current = order[Len(order)]
  /\ pc \in {"append", "trim", "load"} => current = tail
  /\ pc = "trim" => order # <<>>
  /\ pc = "load" => loading
  /\ loading => item > 0
  /\ \A n \in live : data[n] \in Entries
  /\ pc \in {"cut", "append"} => arg \in Entries

\* The limit in force is one that undo_redo_init was given, or the default
\* a load falls back on when there was none.
LimitSound ==
  /\ maxSteps \in Limits \union {0}
  /\ pc = "reset" => steps \in Limits

\* The inductive invariant behind the theorems of UndoListProofs.
ListInv == TypeOK /\ HeapSound /\ ListShape /\ CountSound /\ LoopSound

Content == [i \in DOMAIN order |-> data[order[i]]]
Commands(es) == [i \in DOMAIN es |-> es[i].cmd]
WithPoints(n) == {i \in 1..n : Content[i].held}

\* Indices have places, counted from below; s is the last of what f has at
\* those in T, in their order.
Place(T, i) == Cardinality({j \in T : j <= i})
LastOf(s, f, T) ==
  LET before == Cardinality(T) - Len(s)
  IN  /\ before >= 0
      /\ \A i \in T : Place(T, i) > before => s[Place(T, i) - before] = f[i]

\* What a walk has returned of the first n strokes.
Walked(n) == out = [i \in 1..n |-> Content[i].cmd]
Saved(n) ==
  /\ Len(out) = Cardinality(WithPoints(n))
  /\ LastOf(out, Commands(Content), WithPoints(n))

\* Every walk returns the strokes up to current and none of the undone ones
\* (229: "if the current pointer is reached, stop the traversal"); serialize
\* leaves out the strokes that lost their points and no other, and runs on
\* into the undone ones only when the last stroke on screen is one of these.
WalkedIsVisible ==
  pc = "ready" =>
    /\ kind \in {"iterate", "count"} => Walked(Pos)
    /\ kind = "serialize" =>
         Saved(IF Pos = 0 \/ Content[Pos].held THEN Pos ELSE Len(order))

\* Why: a walk has returned what is before node, and is beyond current only if
\* it had to pass over it.
WalkSound ==
  /\ kind \in {"iterate", "count", "serialize"} => pc \in {"ready", "walk"}
  /\ pc = "walk" =>
       \E k \in 1..Len(order) + 1 :
         /\ node = (IF k > Len(order) THEN Null ELSE order[k])
         /\ \/ kind \in {"iterate", "count"} /\ Walked(k - 1) /\ k <= Pos
            \/ kind = "serialize" /\ Saved(k - 1) /\ 0 < Pos /\ (k <= Pos \/ ~Content[Pos].held)

\* Items of the file that are commands; those of them that the load has read.
WellFormed(s) == {i \in DOMAIN s : s[i] # Malformed}
Read == {i \in WellFormed(json) \ lost : i < item \/ (pc = "trim" /\ i = item)}

\* The list holds the newest max_steps of these commands, in their order, one
\* more before the limit is enforced, and nothing else.
NewestOf(T) ==
  /\ LastOf(Commands(Content), json, T)
  /\ IF pc = "trim" THEN Len(order) = Lesser(Cardinality(T) - 1, maxSteps) + 1
                    ELSE Len(order) = Lesser(Cardinality(T), maxSteps)

\* A load leaves the newest of all commands of the file, all of them on screen;
\* only one for whose points there was no memory is missing.
LoadsNewest ==
  (pc = "ready" /\ kind = "load") => NewestOf(WellFormed(json) \ lost) /\ Pos = Len(order)

\* Why: at every item the list is what is kept of those before.
LoadSound ==
  /\ kind = "load" => pc = "ready" /\ loading /\ item > Len(json) /\ current = tail
  /\ loading => pc \in {"reset", "load", "append", "trim", "ready"}
  /\ loading /\ pc = "ready" => item > Len(json)
  /\ loading /\ pc = "reset" => item = 1
  /\ loading /\ pc # "reset" => NewestOf(Read)
  /\ loading /\ pc \in {"append", "trim"} => item \in WellFormed(json)
  /\ \A i \in lost : i < item
  /\ loading /\ pc = "append" => arg.cmd = json[item]

Store == [log |-> Content, cur |-> Pos, max |-> maxSteps]

\* A bound on the steps that are left of the running call: a cell to free or to
\* walk is one, an item to read is four, with its push.
Items == IF loading THEN 4 * (Len(json) - item) + 1 ELSE 0
Beyond == IF node = Null THEN 0 ELSE Len(order) + 1 - (CHOOSE i \in DOMAIN order : order[i] = node)
Work ==
  CASE pc = "ready"  -> 0
    [] pc = "trim"   -> Items + 1
    [] pc = "append" -> Items + 2
    [] pc = "cut"    -> Items + 3 + Len(doomed)
    [] pc = "load"   -> Items + 4
    [] pc = "reset"  -> Items + 5 + Len(doomed)
    [] pc = "walk"   -> Beyond + 1

\* Every step of a call leaves less to do, so no list, file or allocation that
\* fails can keep a loop going, and when nothing is left it has returned.
CallsShrink ==
  [][/\ Work' \in Nat /\ (Work' = 0 <=> pc' = "ready")
     /\ pc # "ready" => Work' < Work]_vars

\* No call loops for ever, whatever the list looks like when it starts:
\* the freeing loops, the load and the walks all come to an end.
CallsReturn == pc # "ready" ~> pc = "ready"

\* The history the abstract log has: a call takes effect when it starts.
Hist ==
  CASE pc = "reset"             -> Fresh(steps)
    [] pc \in {"cut", "append"} -> Push(Store, arg)
    [] pc = "trim"              -> LET s == Limited(Content, maxSteps)
                                   IN  [log |-> s, cur |-> Len(s), max |-> maxSteps]
    [] OTHER                    -> Store

Log == INSTANCE UndoLog WITH hist <- Hist

\* The pointer code implements the bounded log with a cursor.
ImplementsUndoLog == Log!Spec
===============================================================================

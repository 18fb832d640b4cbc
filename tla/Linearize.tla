----------------------------- MODULE Linearize ------------------------------
(***************************************************************************)
(* The linearizability search (linearize.go): CheckWithin walks a list of  *)
(* calls and returns in time order, placing an operation by lifting its    *)
(* call and its return out of the list, and backs up at the return of an   *)
(* operation it could not place.  It remembers the configurations it has   *)
(* been in, leaves operations that never returned for last where it can,   *)
(* and keeps the operations of a group together.                           *)
(*                                                                         *)
(* The object is a register with writes, reads and compare-and-swaps.      *)
(* Entries of the list are numbered in time order, with the head as 0 and  *)
(* nil after the last.                                                     *)
(***************************************************************************)
EXTENDS Integers, Sequences, SequencesExt, FiniteSets

CONSTANTS Histories,  \* histories to check: sequences of operations
          InitState,
          Pending,    \* the Return of an operation that never returned
          UseSame     \* the model has Same

VARIABLES ops, evs,    \* the history, and its entries in time order
          next, prev,  \* the list
          e,           \* the entry the search is at
          stack,       \* frames: [call, state]
          state, linearized,
          seen,        \* the cache
          best,        \* [depth, longest, state, stuck]
          open, openLeft,
          verdict      \* "none", "ok", "illegal" or "unknown"

vars == <<ops, evs, next, prev, e, stack, state, linearized, seen, best, open, openLeft, verdict>>

-----------------------------------------------------------------------------
(* The model of the object, and the history as a list.                     *)

\* Step(s, op) = <<legal, state after>>.  An operation without an answer is
\* legal in every state, and takes effect as it would had it succeeded.
Step(s, op) ==
  CASE op.kind = "write" -> <<TRUE, op.arg>>
    [] op.kind = "read" -> <<op.ret = Pending \/ s = op.arg, s>>
    [] op.kind = "swap" -> <<op.ret = Pending \/ s = op.arg, IF s = op.arg THEN op.new ELSE s>>

Same(a, b) == a.kind = b.kind /\ a.arg = b.arg /\ a.new = b.new

\* The events in the order link sorts them: by time, calls first, then as the
\* operations are listed.
Entries(h) ==
  LET all == {[op |-> i, call |-> c] : i \in DOMAIN h, c \in BOOLEAN}
      Time(v) == IF v.call THEN h[v.op].call ELSE h[v.op].ret
      Before(v, w) == \/ Time(v) < Time(w)
                      \/ /\ Time(v) = Time(w)
                         /\ (v.call /\ ~w.call) \/ (v.call = w.call /\ v.op < w.op)
  IN  [k \in 1..(2 * Len(h)) |-> CHOOSE v \in all : Cardinality({w \in all : Before(w, v)}) = k - 1]

Nil == 2 * Len(ops) + 1
Entry(i) == evs[i]
Match(i) == CHOOSE j \in 1..(2 * Len(ops)) : Entry(j) = [op |-> Entry(i).op, call |-> FALSE]

\* after[i]: the operation, never returned and the same as i, called last
\* before i; 0 if there is none.
After(i) ==
  LET Earlier(j, k) == ops[j].call < ops[k].call \/ (ops[j].call = ops[k].call /\ j < k)
      same == {j \in DOMAIN ops : /\ UseSame /\ ops[i].ret = Pending /\ ops[j].ret = Pending
                                  /\ Earlier(j, i) /\ Same(ops[j], ops[i])}
  IN  IF same = {} THEN 0 ELSE CHOOSE j \in same : \A k \in same \ {j} : Earlier(k, j)

Group(i) == IF ops[i].ret = Pending THEN 0 ELSE ops[i].group
Size(g) == Cardinality({i \in DOMAIN ops : Group(i) = g})

\* lift and unlift: take a call and its return out of the list, and put them
\* back.  The writes happen in the order of the code, each reading the links
\* the one before it left.
Out(links, i) == [links EXCEPT !.next[links.prev[i]] = links.next[i],
                               !.prev[links.next[i]] = links.prev[i]]
In(links, i) == [links EXCEPT !.next[links.prev[i]] = i, !.prev[links.next[i]] = i]

Links == [next |-> next, prev |-> prev]
Relink(links) == next' = links.next /\ prev' = links.prev

Lift(i) == Relink(Out(Out(Links, i), Match(i)))
Unlift(i) == Relink(In(In(Links, Match(i)), i))

\* enter and leave: a group opens with its first operation and closes with
\* its last.
Enter(g) ==
  LET left == (IF open = 0 THEN Size(g) ELSE openLeft) - 1
  IN  IF g = 0 THEN UNCHANGED <<open, openLeft>>
      ELSE open' = (IF left = 0 THEN 0 ELSE g) /\ openLeft' = left

Leave(g) ==
  LET left == (IF open = 0 THEN 0 ELSE openLeft) + 1
  IN  IF g = 0 THEN UNCHANGED <<open, openLeft>>
      ELSE open' = (IF left = Size(g) THEN 0 ELSE g) /\ openLeft' = left

-----------------------------------------------------------------------------
(* The search.                                                             *)

Init ==
  /\ ops \in Histories /\ evs = Entries(ops)
  /\ next = [i \in 0..(2 * Len(ops)) |-> i + 1]
  /\ prev = [i \in 1..(2 * Len(ops) + 1) |-> i - 1]
  /\ e = 1 /\ stack = <<>> /\ state = InitState /\ linearized = {}
  /\ seen = {<<{}, InitState>>}
  /\ best = [depth |-> -1, longest |-> <<>>, state |-> InitState, stuck |-> 0]
  /\ open = 0 /\ openLeft = 0 /\ verdict = "none"

Searching == verdict = "none" /\ next[0] # Nil
AtCall == e # Nil /\ Entry(e).call

\* A faulty version: an operation that changes nothing is left out even though
\* it was answered.
LeftOutEager ==
  LET i == Entry(e).op
      s == Step(state, ops[i])
  IN  \/ open # 0 /\ Group(i) # open
      \/ After(i) # 0 /\ After(i) \notin linearized
      \/ ~s[1]
      \/ s[2] = state /\ ops[i].kind # "read"
      \/ <<linearized \cup {i}, s[2]>> \in seen

\* The reasons not to place the operation called at e: another group is open;
\* the same operation, called before, is not placed; it is not legal here; it
\* never returned and changes nothing; or it leads where the search has been.
LeftOut ==
  LET i == Entry(e).op
      s == Step(state, ops[i])
  IN  \/ open # 0 /\ Group(i) # open
      \/ After(i) # 0 /\ After(i) \notin linearized
      \/ ~s[1]
      \/ ops[i].ret = Pending /\ s[2] = state
      \/ <<linearized \cup {i}, s[2]>> \in seen

\* A faulty version: the search does not move past what it leaves out.
SkipStays ==
  /\ Searching /\ AtCall /\ LeftOut
  /\ e' = IF open # 0 THEN e ELSE next[e]
  /\ UNCHANGED <<ops, evs, next, prev, stack, state, linearized, seen, best, open, openLeft, verdict>>

Skip ==
  /\ Searching /\ AtCall /\ LeftOut
  /\ e' = next[e]
  /\ UNCHANGED <<ops, evs, next, prev, stack, state, linearized, seen, best, open, openLeft, verdict>>

Place ==
  LET i == Entry(e).op
      after == Step(state, ops[i])[2]
  IN
  /\ Searching /\ AtCall /\ ~LeftOut
  /\ linearized' = linearized \cup {i}
  /\ seen' = seen \cup {<<linearized', after>>}
  /\ stack' = Append(stack, [call |-> e, state |-> state])
  /\ Enter(Group(i)) /\ state' = after
  /\ Lift(e)
  /\ e' = next'[0]
  /\ UNCHANGED <<ops, evs, best, verdict>>

\* The return of an operation that never returned: all that did are placed.
OnlyPendingLeft ==
  /\ Searching /\ ~AtCall /\ ops[Entry(e).op].ret = Pending
  /\ verdict' = "ok"
  /\ UNCHANGED <<ops, evs, next, prev, e, stack, state, linearized, seen, best, open, openLeft>>

AllPlaced ==
  /\ verdict = "none" /\ next[0] = Nil
  /\ verdict' = "ok"
  /\ UNCHANGED <<ops, evs, next, prev, e, stack, state, linearized, seen, best, open, openLeft>>

Longest == [i \in DOMAIN stack |-> Entry(stack[i].call).op]

BestNow == [depth |-> Len(stack), longest |-> Longest, state |-> state, stuck |-> Entry(e).op]

\* The return of an operation not placed: note how far the branch got, and
\* back up, or give up when there is nowhere to.
BackUp ==
  LET f == Last(stack)
      i == Entry(f.call).op
  IN
  /\ Searching /\ ~AtCall /\ ops[Entry(e).op].ret # Pending
  /\ best' = IF Len(stack) > best.depth
             THEN BestNow
             ELSE best
  /\ IF stack = <<>>
     THEN /\ verdict' = "illegal"
          /\ UNCHANGED <<next, prev, e, stack, state, linearized, open, openLeft>>
     ELSE /\ stack' = Front(stack) /\ state' = f.state /\ linearized' = linearized \ {i}
          /\ Leave(Group(i)) /\ Unlift(f.call)
          /\ e' = next'[f.call]
          /\ UNCHANGED verdict
  /\ UNCHANGED <<ops, evs, seen>>

\* The context ends, or the cache reaches its limit.
GiveUp ==
  /\ Searching /\ verdict' = "unknown"
  /\ UNCHANGED <<ops, evs, next, prev, e, stack, state, linearized, seen, best, open, openLeft>>

Next == Skip \/ Place \/ OnlyPendingLeft \/ AllPlaced \/ BackUp \/ GiveUp

Spec == Init /\ [][Next]_vars

-----------------------------------------------------------------------------
(* What linearizable means, for reference.                                 *)

\* The outcome of running operations in order from the initial state:
\* <<legal so far, state>>.
RunOf(order) ==
  FoldLeft(LAMBDA r, i : LET s == Step(r[2], ops[i]) IN <<r[1] /\ s[1], s[2]>>,
           <<TRUE, InitState>>, order)

\* The order contradicts no return that came before a call.
RealTime(order) ==
  \A x, y \in DOMAIN order : x < y => ~(ops[order[y]].ret < ops[order[x]].call)

\* Nothing comes between two operations of a group.
Together(order) ==
  \A x, y, z \in DOMAIN order :
    (x < y /\ y < z /\ Group(order[x]) # 0 /\ Group(order[x]) = Group(order[z]))
    => Group(order[y]) = Group(order[x])

Linearizable ==
  LET pending == {i \in DOMAIN ops : ops[i].ret = Pending}
  IN  \E chosen \in SUBSET pending :
      \E order \in SetToSeqs((DOMAIN ops \ pending) \cup chosen) :
        RunOf(order)[1] /\ RealTime(order) /\ Together(order)

-----------------------------------------------------------------------------
Placed(i) == Entry(i).op \in linearized

\* The verdict is right: "ok" exactly for a history some order explains.  So
\* the cache, the order forced on equal unanswered operations and the ones
\* left for last lose no order, and a group is never torn.  And what an illegal
\* history is explained by is real: the longest sequence is legal, ends in the
\* state reported, respects real time, and the operation reported stuck is the
\* first to return of those it misses.
VerdictRight ==
  /\ verdict = "ok" => Linearizable
  /\ verdict = "illegal" =>
       /\ ~Linearizable
       /\ RunOf(best.longest) = <<TRUE, best.state>> /\ RealTime(best.longest)
       /\ best.stuck \notin ToSet(best.longest)
       /\ \A i \in DOMAIN ops \ ToSet(best.longest) : ops[best.stuck].ret <= ops[i].ret

\* The search ends.
SearchEnds == <>(verdict # "none")
=============================================================================

------------------------------ MODULE TxnGraph ------------------------------
(***************************************************************************)
(* The search for cycles in a graph of dependencies between transactions:  *)
(* cycles, sccs, path, cycleWithin, gSingle and nonadjacent of             *)
(* listappend/listappend.go.                                               *)
(*                                                                         *)
(* A graph is a set of edges <<from, to, kind>>.  The order in which an    *)
(* adjacency list is walked decides which of several equally short cycles  *)
(* is the witness and is left open: a search goes level by level, and      *)
(* where it keeps the first walk to arrive (nonadjacent), the first is any *)
(* of those that arrive at the same level.                                 *)
(***************************************************************************)
EXTENDS Naturals, FiniteSets, Sequences, SequencesExt

WW == "ww"
WR == "wr"
RW == "rw"
Realtime == "realtime"
Process == "process"

Kinds == {WW, WR, RW, Realtime, Process}
NoRW == Kinds \ {RW}

\* The transactions on an edge.
Ends(adj) == {e[1] : e \in adj} \cup {e[2] : e \in adj}

\* What a walk over edges of the kinds ok that stays inside in reaches from the
\* states of front, those already seen included.
RECURSIVE Spread(_, _, _, _, _)
Spread(adj, in, ok, front, seen) ==
  LET next == {e[2] : e \in {e \in adj : e[1] \in front /\ e[2] \in in /\ e[3] \in ok}}
  IN  IF next \subseteq seen THEN seen
      ELSE Spread(adj, in, ok, next \ seen, seen \cup next)

\* Whether path(src, dst) finds a path: dst is reached by at least one edge.
HasPath(adj, src, dst, in, ok) == dst \in Spread(adj, in, ok, {src}, {})

\* sccs: the strongly connected components of more than one transaction.
Sccs(adj) ==
  LET all == Ends(adj)
      to == [v \in all |-> Spread(adj, all, Kinds, {v}, {})]
  IN  {{w \in all : w \in to[v] /\ v \in to[w]} : v \in {v \in all : v \in to[v]}}

\* cycleWithin: a cycle of edges of the kinds ok in the component.
CycleWithin(adj, comp, ok) == \E v \in comp : HasPath(adj, v, v, comp, ok)

\* Faulty variant: the way back may take another rw edge.
GSingleAny(adj, comp) ==
  \E e \in adj : /\ e[3] = RW /\ e[1] \in comp /\ e[2] \in comp
                 /\ HasPath(adj, e[2], e[1], comp, Kinds)

\* gSingle: an rw edge whose ends other edges join the other way.
GSingle(adj, comp) ==
  \E e \in adj : /\ e[3] = RW /\ e[1] \in comp /\ e[2] \in comp
                 /\ HasPath(adj, e[2], e[1], comp, NoRW)

\* distinct
Distinct(vs) == IsInjective(vs)

\* nonadjacent: a breadth-first search among the states (transaction, arrived by
\* rw) from s0, level by level.  hop holds the walk by which each state was first
\* reached; the search succeeds with a walk back to s0 that has an rw edge and
\* visits no transaction twice, and goes on past one that does not.
RECURSIVE Search(_, _, _, _, _)
Search(adj, comp, s0, front, hop) ==
  LET steps == {p \in front \X adj : /\ p[2][1] = p[1][1] /\ p[2][2] \in comp
                                     /\ ~(p[2][3] = RW /\ p[1][2])}
      State(p) == <<p[2][2], p[2][3] = RW>>
      Walk(p) == [verts |-> Append(hop[p[1]].verts, p[1][1]), rw |-> hop[p[1]].rw \/ p[2][3] = RW]
      new == {State(p) : p \in steps} \ DOMAIN hop
      First(n) == CHOOSE p \in steps : State(p) = n
  IN  \/ \E p \in steps : State(p) = s0 /\ Walk(p).rw /\ Distinct(Walk(p).verts)
      \/ /\ new # {}
         /\ Search(adj, comp, s0, new,
                   [n \in DOMAIN hop \cup new |-> IF n \in new THEN Walk(First(n)) ELSE hop[n]])

Nonadjacent(adj, comp) ==
  \E v \in comp, rw \in BOOLEAN :
    Search(adj, comp, <<v, rw>>, {<<v, rw>>},
           [s \in {<<v, rw>>} |-> [verts |-> <<>>, rw |-> FALSE]])

\* pairWithin
PairWithin(pairs, comp) == \E p \in pairs : p \subseteq comp

\* cycles: the kinds reported for one component, and for all of them.  pairs
\* holds the lost updates among unread appends, each a set of two transactions.
KindsOf(adj, pairs, comp) ==
  LET g0 == CycleWithin(adj, comp, {WW})
      g1c == ~g0 /\ CycleWithin(adj, comp, NoRW)
      single == GSingle(adj, comp) \/ PairWithin(pairs, comp)
      nonadjacent == ~single /\ Nonadjacent(adj, comp)
      found == g0 \/ g1c \/ single \/ nonadjacent
  IN  (IF g0 THEN {"G0"} ELSE {}) \cup (IF g1c THEN {"G1c"} ELSE {})
      \cup (IF single THEN {"G-single"} ELSE {})
      \cup (IF nonadjacent THEN {"G-nonadjacent"} ELSE {})
      \cup (IF ~found /\ CycleWithin(adj, comp, Kinds) THEN {"G2"} ELSE {})

Cycles(adj, pairs) ==
  LET comps == Sccs(adj)
  IN  UNION {KindsOf(adj, pairs, comp) : comp \in comps}
      \cup (IF \E p \in pairs : \A comp \in comps : ~(p \subseteq comp)
            THEN {"G-single"} ELSE {})

-----------------------------------------------------------------------------
\* Reference: the simple cycles of a graph, each a sequence of edges.
SimpleCycles(adj) ==
  {c \in UNION {[1..n -> adj] : n \in 2..Cardinality(Ends(adj))} :
     /\ \A i \in DOMAIN c : c[i][2] = c[(i % Len(c)) + 1][1]
     /\ IsInjective([i \in DOMAIN c |-> c[i][1]])}

\* A cycle snapshot isolation forbids: no two rw edges in a row.
NoTwoInARow(c) == \A i \in DOMAIN c : ~(c[i][3] = RW /\ c[(i % Len(c)) + 1][3] = RW)

=============================================================================

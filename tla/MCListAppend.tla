---------------------------- MODULE MCListAppend ----------------------------
(***************************************************************************)
(* ListAppend on three transactions of two calls each, and TxnGraph on     *)
(* every graph of a few edges over four transactions.                      *)
(***************************************************************************)
EXTENDS ListAppend

CONSTANT MaxEdges     \* bound: the edges of a graph

\* A graph grown edge by edge while no database runs, and whether it is what
\* this behaviour is about.
VARIABLES graph, growing

\* Read and append to one key or two and blind appends, then the same, and then
\* these or a transaction that reads what the others left.
First == {<<R("x"), A("x")>>, <<R("x"), A("y")>>, <<A("x"), A("y")>>}
Second == {<<R("x"), A("x")>>, <<R("y"), A("x")>>, <<A("x"), A("x")>>}
Third == {<<R("x"), A("y")>>, <<R("x"), R("y")>>, <<A("x"), R("x")>>}
MCSetups ==
  {"strict-serializable", "snapshot-isolation"} \X
    {<<p, q, r>> : p \in First, q \in Second, r \in Third}
  \cup {"read-committed"} \X
    {<<p, q, r>> : p \in First \ {<<A("x"), A("y")>>}, q \in Second,
                   r \in {<<R("x"), R("y")>>, <<R("x"), R("x")>>}}
  \cup {"read-uncommitted"} \X
    {<<<<A("x"), A("y")>>, q, <<R("x"), R("y")>>>> : q \in Second}

\* Without an rw edge there is little to tell apart, so a graph has one; which
\* two transactions it joins does not matter.
FirstEdge == <<1, 2, RW>>
Idle == <<<<R("x"), A("x")>>, <<R("x"), A("x")>>, <<R("x"), R("y")>>>>

MCInit ==
  /\ Init /\ graph = {FirstEdge} /\ growing \in BOOLEAN
  /\ growing => level = "snapshot-isolation" /\ prog = Idle

\* The edges are numbered, so that each graph is grown in one order only.
AllEdges == {e \in (1..4) \X (1..4) \X {WW, RW} : e[1] # e[2]}
Number(e) == 100 * e[1] + 10 * e[2] + (IF e[3] = RW THEN 1 ELSE 0)
Grow ==
  /\ growing /\ Cardinality(graph) < MaxEdges
  /\ \E e \in AllEdges :
       /\ e # FirstEdge /\ \A f \in graph \ {FirstEdge} : Number(f) < Number(e)
       /\ graph' = graph \cup {e}
  /\ UNCHANGED <<vars, growing>>

MCNext == (~growing /\ Next /\ UNCHANGED <<graph, growing>>) \/ Grow

MCSpec == MCInit /\ [][MCNext]_<<vars, graph, growing>>

(* cycles reports an anomaly exactly when the graph has a cycle, and one    *)
(* that snapshot isolation forbids exactly when some cycle has no two rw    *)
(* edges in a row, whatever shorter walks the breadth-first search of       *)
(* nonadjacent met and threw away first.                                    *)
CyclesClassified ==
  LET kinds == Cycles(graph, {})
      cycles == SimpleCycles(graph)
  IN  /\ kinds # {} <=> cycles # {}
      /\ kinds \cap Forbidden("snapshot-isolation") # {} <=> \E c \in cycles : NoTwoInARow(c)

=============================================================================

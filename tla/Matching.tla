------------------------------ MODULE Matching ------------------------------
(***************************************************************************)
(* How the node pool chooses nodes for a request (pool.go, spec.go).       *)
(*                                                                         *)
(* matchSpecs walks the specs of a request, most constrained first, and    *)
(* gives each one a candidate node by an augmenting-path search.  It is a  *)
(* function of the candidates' capacities, in pool order, and the specs.   *)
(*                                                                         *)
(* Driver.tla uses matchSpecs only through its contract: it returns some   *)
(* assignment of distinct, satisfying nodes when there is one, and fails   *)
(* otherwise.  KeepsContract, below, says so of one call.                  *)
(*                                                                         *)
(* An Optional value is a set with at most one element.                    *)
(***************************************************************************)
EXTENDS Integers, Sequences, SequencesExt, FiniteSets

Meets(have, req) == \A q \in req : \E h \in have : h >= q

SatisfiedBy(s, capacity) ==
  /\ Meets(capacity.cpus, s.cpus)
  /\ Meets(capacity.memory, s.memory)
  /\ s.labels \subseteq capacity.labels

specScore(s) ==
  Cardinality(s.labels) + Cardinality(s.cpus) + Cardinality(s.memory)

\* slices.SortStableFunc by decreasing score: equal scores keep their order.
constraintOrder(ss) ==
  SetToSortSeq(DOMAIN ss,
    LAMBDA a, b : \/ specScore(ss[a]) > specScore(ss[b])
                  \/ specScore(ss[a]) = specScore(ss[b]) /\ a < b)

\* The tables of the search: the spec each candidate is held by and the
\* candidate each spec holds, 0 for none; the candidates seen by the search
\* for one spec, and whether it was matched.
Start(candidates, specs) ==
  [spec |-> [j \in DOMAIN candidates |-> 0], cand |-> [i \in DOMAIN specs |-> 0],
   seen |-> {}, ok |-> FALSE, matched |-> 0]

Take(st, si, j) ==
  [st EXCEPT !.spec[j] = si, !.cand[si] = j, !.ok = TRUE]

\* A faulty version: a candidate that is taken is not rerouted.
AugmentGreedy(candidates, specs, si, j, st) ==
  LET open == {x \in DOMAIN candidates :
                 st.spec[x] = 0 /\ SatisfiedBy(specs[si], candidates[x])}
  IN  IF open = {} THEN [st EXCEPT !.ok = FALSE]
      ELSE Take(st, si, CHOOSE x \in open : \A y \in open : x <= y)

\* augmentSpec from candidate j on.
RECURSIVE Augment(_, _, _, _, _)
Augment(candidates, specs, si, j, st) ==
  IF j > Len(candidates) THEN [st EXCEPT !.ok = FALSE]
  ELSE IF j \in st.seen \/ ~SatisfiedBy(specs[si], candidates[j])
  THEN Augment(candidates, specs, si, j + 1, st)
  ELSE LET now == [st EXCEPT !.seen = @ \cup {j}]
       IN  IF now.spec[j] = 0 THEN Take(now, si, j)
           ELSE LET moved == Augment(candidates, specs, now.spec[j], 1, now)
                IN  IF moved.ok THEN Take(moved, si, j)
                                ELSE Augment(candidates, specs, si, j + 1, moved)

\* One turn of the loop of matchSpecs, for spec si.
Visit(candidates, specs, st, si) ==
  LET found == Augment(candidates, specs, si, 1, [st EXCEPT !.seen = {}])
  IN  [found EXCEPT !.matched = IF found.ok THEN @ + 1 ELSE @]

\* <<TRUE, the candidate of each spec>>, or <<FALSE, <<>>>>.
matchSpecs(candidates, specs) ==
  LET end == FoldLeft(LAMBDA st, si : Visit(candidates, specs, st, si),
                      Start(candidates, specs), constraintOrder(specs))
  IN  IF end.matched = Len(specs) THEN <<TRUE, end.cand>> ELSE <<FALSE, <<>>>>

\* The assignments of distinct candidates to the specs, each satisfying it.
Feasible(candidates, specs) ==
  {f \in [DOMAIN specs -> DOMAIN candidates] :
     /\ \A i \in DOMAIN specs : SatisfiedBy(specs[i], candidates[f[i]])
     /\ \A i, k \in DOMAIN specs : i # k => f[i] # f[k]}

KeepsContract(candidates, specs) ==
  LET m == matchSpecs(candidates, specs)
  IN  IF m[1] THEN m[2] \in Feasible(candidates, specs) ELSE Feasible(candidates, specs) = {}
=============================================================================

------------------------------ MODULE MCDriver ------------------------------
(***************************************************************************)
(* Two nodes and three requests, given by what the nodes offer and the     *)
(* specs require, with the pool's matching (Matching.tla) beside the       *)
(* driver; and a history variable that counts the launches made after the  *)
(* context was cancelled.                                                  *)
(***************************************************************************)
EXTENDS Driver, TLC, SequencesExt

CONSTANTS n1, n2

Pool == INSTANCE Matching

VARIABLE late

Res(c, m, l) == [cpus |-> c, memory |-> m, labels |-> l]

Offers == (n1 :> Res({4}, {8}, {"ssd"})) @@ (n2 :> Res({2}, {8}, {}))

\* A job only n1 can serve; one whose first node may be any and whose second
\* must be n1, though the first spec is the more constrained; and one for
\* which any node will do.
Demand == << <<Res({4}, {}, {})>>,
             <<Res({2}, {8}, {}), Res({}, {}, {"ssd"})>>,
             <<Res({}, {}, {})>> >>

MCCapable ==
  [r \in 1..3 |-> [i \in DOMAIN Demand[r] |->
     {n \in {n1, n2} : Pool!SatisfiedBy(Demand[r][i], Offers[n])}]]

Launches == \E r \in Requests : run[r] = "none" /\ run'[r] # "none"

MCInit == Init /\ late = 0

MCNext == Next /\ late' = IF cancelled /\ Launches THEN late + 1 ELSE late

MCSpec == MCInit /\ [][MCNext]_<<vars, late>> /\ Fairness

\* Cancelling halts scheduling: a cancellation that lands after the inner
\* loop has looked at the context lets that one launch through and no other.
CancelHaltsScheduling == late <= 1

\* A deliberate stop takes hold although results are still coming in: neither
\* a failure under ExitFirst nor a cancellation is followed by launches, but
\* for the one the cancellation was too late for.
SchedulingStops == ExitFirstHalts /\ CancelHaltsScheduling

\* Requests of up to three specs and pools of up to three nodes that overlap
\* in every way: unset and unknown values, values just below and at what is
\* required, and labels.
Capacities == {Res({}, {}, {"ssd"}), Res({2}, {8}, {}), Res({4}, {8}, {"ssd"}), Res({4}, {}, {})}
Specs == {Res({}, {}, {}), Res({2}, {}, {}), Res({4}, {}, {}), Res({}, {8}, {}),
          Res({}, {}, {"ssd"}), Res({4}, {8}, {"ssd"})}

KeepsContractEverywhere ==
  \A c \in BoundedSeq(Capacities, 3), s \in BoundedSeq(Specs, 3) : Pool!KeepsContract(c, s)

\* matchSpecs keeps the contract the driver relies on: it succeeds exactly
\* when distinct satisfying nodes exist, and returns such nodes in spec order.
\* So it does for the small requests and pools above, and for each request of
\* the driver out of the nodes free at any time, in whatever order.
MatchingContract ==
  /\ KeepsContractEverywhere
  /\ \A r \in Requests : \A order \in SetToSeqs(free) :
       LET m == Pool!matchSpecs([j \in DOMAIN order |-> Offers[order[j]]], Demand[r])
       IN  IF m[1] THEN [i \in DOMAIN m[2] |-> order[m[2][i]]] \in Assignments(free, r)
           ELSE Assignments(free, r) = {}
=============================================================================

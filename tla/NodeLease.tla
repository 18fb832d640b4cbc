------------------------------ MODULE NodeLease ------------------------------
(***************************************************************************)
(* What the node pool and the driver promise together: a node is free,     *)
(* leased to one job, or quarantined.  A job gets all of its nodes at once *)
(* and gives all of them up at once, and a quarantined node never comes    *)
(* back.  Driver.tla is shown to implement this specification.             *)
(***************************************************************************)
CONSTANTS Node,         \* the nodes of the pool
          Requests,     \* the job requests of the run
          Free,         \* owner of a node nobody holds
          Quarantined   \* owner of a node that was left dirty

VARIABLE owner          \* who holds each node

Leased(r) == {n \in Node : owner[n] = r}

Init == owner = [n \in Node |-> Free]

\* Request r is given the nodes S, all of them free before.
Grant(r, S) ==
  /\ Leased(r) = {}
  /\ \A n \in S : owner[n] = Free
  /\ owner' = [n \in Node |-> IF n \in S THEN r ELSE owner[n]]

\* Request r gives up everything it holds, to the free set or for good.
GiveUp(r, to) ==
  owner' = [n \in Node |-> IF owner[n] = r THEN to ELSE owner[n]]

Next == \E r \in Requests :
          \/ \E S \in SUBSET Node : Grant(r, S)
          \/ GiveUp(r, Free)
          \/ GiveUp(r, Quarantined)

Spec == Init /\ [][Next]_owner
=============================================================================

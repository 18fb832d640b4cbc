----------------------------- MODULE MCLogCheck -----------------------------
(***************************************************************************)
(* Small instances of the two history checkers: LogCheck, and SetCheck of   *)
(* the rqlite example.  A behaviour is of one or of the other, which then   *)
(* has nothing to do.                                                       *)
(***************************************************************************)
EXTENDS LogCheck, TLC

CONSTANTS k1, k2

Append_(k, i, ak, al) == [key |-> k, idem |-> i, afterKey |-> ak, afterLog |-> al]

Plain(K) == {Append_(k, i, None, None) : k \in K, i \in BOOLEAN}
Resent(K) == {Append_(k, FALSE, None, None) : k \in K}
Conditional(K) == Plain(K) \cup {Append_(k, i, 0, None) : k \in K, i \in BOOLEAN}
                           \cup {Append_(k, i, None, 1) : k \in K, i \in BOOLEAN}

\* A correct log, with conditional appends on two keys and with reads; and
\* one that loses, repeats and reorders entries, or loses and reads stale.
\* The set is closed under exchanging the keys.
MCSetups ==
  {[kinds |-> Conditional({k1, k2}), faults |-> {}, tries |-> 2, reads |-> 0, calls |-> 3, time |-> 3]}
  \cup UNION {
  {[kinds |-> Plain({k}), faults |-> {}, tries |-> 2, reads |-> 2, calls |-> 3, time |-> 3],
   [kinds |-> Plain({k}), faults |-> {"lose", "dup"}, tries |-> 2, reads |-> 0, calls |-> 3, time |-> 3],
   [kinds |-> Plain({k}), faults |-> {"fill"}, tries |-> 2, reads |-> 0, calls |-> 3, time |-> 3],
   [kinds |-> Resent({k}), faults |-> {"lose", "stale"}, tries |-> 1, reads |-> 2, calls |-> 3, time |-> 4]}
    : k \in {k1, k2}}

Perms == Permutations(Values) \cup Permutations({k1, k2})

-----------------------------------------------------------------------------
VARIABLES flaw, prog, table, pend, client, ops, next, now, final, told, shown

\* Two adds, one of them queued, beside two reads: a read of the other level, or
\* of the newest values only, after one that may show what is committed.
Adding == <<[f |-> "add", queued |-> FALSE], [f |-> "add", queued |-> TRUE]>>
Reading(first, second) == <<[f |-> "read", mode |-> first, whole |-> TRUE],
                            [f |-> "read", mode |-> second, whole |-> FALSE]>>

Set == INSTANCE SetCheck WITH
  Clients <- {1, 2}, ReadWindow <- 1, ReadFreshness <- 2, MaxAdds <- 2,
  Setups <- {[flaw |-> f, prog |-> <<Adding, Reading("none", "strong")>>] : f \in {"none", "lose"}}
            \cup {[flaw |-> f, prog |-> <<Adding, <<Reading("none", "none")[1]>>>>] : f \in {"twice", "revive"}}
            \cup {[flaw |-> f, prog |-> <<Adding, Reading("strong", "fresh")>>] : f \in {"none", "stale"}}
            \cup {[flaw |-> "none", prog |-> <<Adding, Reading("weak", "weak")>>]}

setVars == <<flaw, prog, table, pend, client, ops, next, now, final, told, shown>>

\* No set history, and no log history.
NoSet ==
  /\ flaw = "none" /\ prog = <<<<>>, <<>>>> /\ table = <<>> /\ pend = {} /\ client = <<Set!Idle, Set!Idle>>
  /\ ops = {} /\ next = 0 /\ now = 1 /\ final = <<>> /\ told = <<0, 0>> /\ shown = {}
NoLog ==
  /\ \E k \in {k1, k2} :
       /\ setup = [kinds |-> Resent({k}), faults |-> {"none"}, tries |-> 0, reads |-> 0, calls |-> 0, time |-> 1]
       /\ app = [v \in Values |-> Append_(k, FALSE, None, None)]
  /\ tries = [v \in Values |-> <<>>] /\ fate = [v \in Values |-> <<>>]
  /\ log = <<>> /\ reads = <<>> /\ clock = 1

MCInit == (Init /\ NoSet) \/ (NoLog /\ Set!SetInit)
MCNext == (Next /\ UNCHANGED setVars) \/ (Set!SetNext /\ UNCHANGED vars)
MCSpec == MCInit /\ [][MCNext]_<<vars, setVars>>

-----------------------------------------------------------------------------
(* No checker accuses a correct system: Check and CheckReads report nothing *)
(* of a correct log, and checkSet no error of a correct database, whatever   *)
(* writes were in doubt, landed late or were sent again, and whichever reads *)
(* overlapped them.                                                          *)
NoFalseAlarms == NoFalseAlarm /\ Set!SetNoFalseAlarm

(* Every wrong the checkers describe is reported: of a log, an entry that    *)
(* was acknowledged or read and is gone, a copy too many, an order real time *)
(* rules out, and a read older than what was acknowledged before it; of a    *)
(* table, a value lost, committed twice or committed though refused, and a   *)
(* read that missed what a client had been told before it.                   *)
WrongsReported ==
  LossReported /\ DuplicateReported /\ OrderReported /\ StaleReported /\ Set!SetWrongsReported

=============================================================================

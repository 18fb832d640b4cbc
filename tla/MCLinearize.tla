---------------------------- MODULE MCLinearize -----------------------------
(***************************************************************************)
(* Every history of a few operations over a small clock, for the search;    *)
(* and every up-closed family of sets of a few operations, for Minimize.  A *)
(* behaviour is of one or of the other.                                     *)
(***************************************************************************)
EXTENDS Linearize

CONSTANTS MaxOps, MaxTime, Groups

Never == MaxTime + 1

Inputs ==
  {[kind |-> "write", arg |-> 1, new |-> 0], [kind |-> "read", arg |-> 0, new |-> 0],
   [kind |-> "swap", arg |-> 1, new |-> 2]}

\* An operation without an answer is in no group.
MCOps ==
  {[kind |-> x.kind, arg |-> x.arg, new |-> x.new, call |-> c, ret |-> r, group |-> g] :
     x \in Inputs, c \in 1..MaxTime, r \in 1..Never, g \in Groups}

\* Histories are listed in the order of their calls.
MCHistories ==
  UNION {{h \in [1..n -> {o \in MCOps : o.call <= o.ret /\ (o.ret = Never => o.group = 0)}] :
            \A i \in 1..(n - 1) : h[i].call <= h[i + 1].call} : n \in 1..MaxOps}

-----------------------------------------------------------------------------
CONSTANT N

VARIABLES illegal, droppable, replaceable, stage, chunk, start, removed, stopped, ranOut
minVars == <<illegal, droppable, replaceable, stage, chunk, start, removed, stopped, ranOut>>

Mini == INSTANCE Minimize WITH
  Families <- {F \in SUBSET SUBSET (1..N) : 1..N \in F /\ \A A \in F : \A x \in 1..N : A \cup {x} \in F}

NoCore ==
  /\ illegal = {{}} /\ droppable = <<>> /\ replaceable = <<>> /\ stage = "done"
  /\ chunk = 1 /\ start = 0 /\ removed = FALSE /\ stopped = TRUE /\ ranOut = FALSE
NoSearch ==
  /\ ops = <<>> /\ evs = <<>> /\ next = [i \in {0} |-> 1] /\ prev = [i \in {1} |-> 0]
  /\ e = 1 /\ stack = <<>> /\ state = InitState /\ linearized = {} /\ seen = {<<{}, InitState>>}
  /\ best = [depth |-> -1, longest |-> <<>>, state |-> InitState, stuck |-> 0]
  /\ open = 0 /\ openLeft = 0 /\ verdict = "ok"

MCSpec ==
  /\ (Init /\ NoCore) \/ (NoSearch /\ Mini!MinInit)
  /\ [][(Next /\ UNCHANGED minVars) \/ (Mini!MinNext /\ UNCHANGED vars)]_<<vars, minVars>>
  /\ WF_vars(Skip \/ Place \/ OnlyPendingLeft \/ AllPlaced \/ BackUp)

\* Minimize returns a core that is still illegal, and, when no check ran out, of
\* which nothing can be weakened.
CoreExplains == Mini!CoreExplains

=============================================================================

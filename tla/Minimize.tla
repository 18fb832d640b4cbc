------------------------------ MODULE Minimize ------------------------------
(***************************************************************************)
(* Shrinking an illegal history to a core (linearize.go, Minimize and      *)
(* ddmin): first the operations that can be left out, then the ones that   *)
(* can be weakened, in chunks that halve down to single operations.        *)
(*                                                                         *)
(* A history is abstracted to illegal, the sets of operations that, kept   *)
(* whole with every other one weakened, are an illegal history.  Weakening *)
(* only removes constraints, so a superset of such a set is one too.       *)
(***************************************************************************)
EXTENDS Naturals, Sequences, SequencesExt, FiniteSets

CONSTANTS N,         \* operations that can be weakened, 1..N
          Families   \* what illegal may be: sets of sets of operations that hold
                     \* 1..N, and with a set every larger one

VARIABLES illegal, droppable, replaceable,
          stage,               \* "drop", "replace" or "done"
          chunk, start, removed,
          stopped,             \* ctx has ended
          ranOut               \* some check ran out of its budget

minVars == <<illegal, droppable, replaceable, stage, chunk, start, removed, stopped, ranOut>>

Sorted(S) == SetToSortSeq(S, <)
\* Half of a chunk, of at least one.
Half(n) == IF n \div 2 > 1 THEN n \div 2 ELSE 1

\* The first check finds the whole history illegal; ddmin begins on what can
\* be left out.
MinInit ==
  /\ illegal \in Families
  /\ \E D \in SUBSET (1..N) : droppable = Sorted(D) /\ replaceable = Sorted(1..N \ D)
  /\ stage = "drop" /\ chunk = Half(Len(droppable)) /\ start = 0 /\ removed = FALSE
  /\ stopped = FALSE /\ ranOut = FALSE

set == IF stage = "drop" THEN droppable ELSE replaceable
other == IF stage = "drop" THEN replaceable ELSE droppable
Core == ToSet(droppable) \cup ToSet(replaceable)

\* set[:start] and set[end:].
Rest == SubSeq(set, 1, start) \o SubSeq(set, start + chunk + 1, Len(set))

SetTo(s) == IF stage = "drop" THEN droppable' = s /\ UNCHANGED replaceable
            ELSE replaceable' = s /\ UNCHANGED droppable

\* What the check of keep may say: a check that runs out counts as legal.
Answers(keep) == {keep \in illegal, FALSE}

\* One check: without the chunk that starts at start.
Try ==
  /\ stage # "done" /\ start < Len(set) /\ ~stopped
  /\ \E a \in Answers(ToSet(Rest) \cup ToSet(other)) :
       /\ ranOut' = (ranOut \/ a # ((ToSet(Rest) \cup ToSet(other)) \in illegal))
       /\ IF a THEN SetTo(Rest) /\ removed' = TRUE /\ UNCHANGED start
          ELSE /\ start' = start + chunk
               /\ UNCHANGED <<droppable, replaceable, removed>>
  /\ UNCHANGED <<illegal, stage, chunk, stopped>>

\* A faulty version: ddmin stops when a pass removed nothing, whatever its chunk.
FinishedEarly == stopped \/ ~removed

Finished == stopped \/ set = <<>> \/ (chunk = 1 /\ ~removed)

\* The end of a pass: smaller chunks, or another pass over single operations.
Pass ==
  /\ stage # "done" /\ (start >= Len(set) \/ stopped) /\ ~Finished
  /\ start' = 0 /\ removed' = FALSE
  /\ chunk' = IF chunk > 1 THEN chunk \div 2 ELSE 1
  /\ UNCHANGED <<illegal, droppable, replaceable, stage, stopped, ranOut>>

\* ddmin returns: on to what can be weakened, and then the core is merged.
Return ==
  /\ stage # "done" /\ (start >= Len(set) \/ stopped) /\ Finished
  /\ stage' = IF stage = "drop" THEN "replace" ELSE "done"
  /\ chunk' = Half(Len(replaceable)) /\ start' = 0 /\ removed' = FALSE
  /\ UNCHANGED <<illegal, droppable, replaceable, stopped, ranOut>>

Stop ==
  /\ ~stopped /\ stage # "done" /\ stopped' = TRUE
  /\ UNCHANGED <<illegal, droppable, replaceable, stage, chunk, start, removed, ranOut>>

MinNext == Try \/ Pass \/ Return \/ Stop

-----------------------------------------------------------------------------
\* The core explains the violation: whatever was left out or weakened, and
\* whenever the search was stopped, what is kept is an illegal history; and when
\* no check ran out, of the core returned "none can be weakened as well", though
\* what can be left out was settled before anything was weakened.
CoreExplains ==
  /\ Core \in illegal
  /\ (stage = "done" /\ ~ranOut /\ ~stopped) => \A x \in Core : Core \ {x} \notin illegal

=============================================================================

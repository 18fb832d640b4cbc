------------------------------ MODULE Nemesis -------------------------------
(***************************************************************************)
(* Nemeses injecting faults at once (nemesis.go): the loop of Run, the     *)
(* Holds their faults share, and the Windows a job derives from what they  *)
(* recorded.  A fault is a model value applied to one target; what an      *)
(* injection does to the system is left out, only when it holds.           *)
(***************************************************************************)
EXTENDS Naturals, Sequences, SequencesExt, FiniteSets

CONSTANTS Nemeses, Faults, Targets,
          MaxTime,   \* bound on the clock
          MaxEvents  \* bound on the events recorded

VARIABLES now, over,   \* the clock; the context has ended
          pc,          \* of each nemesis: "quiet", "before", "inject", "recording",
                       \* "hold", "heal", "healed" or "returned"
          cur,         \* the event each nemesis is at
          events,      \* the recorded events, in order
          count,       \* Holds.n
          holding,     \* nemeses whose release has not run
          truth        \* history: the spans faults really held, and whether the injection
                       \* is on record: [by, fault, target, from, to, on]

vars == <<now, over, pc, cur, events, count, holding, truth>>

NoEvent == [fault |-> "none", target |-> "none", heal |-> FALSE, start |-> 0, end |-> 0,
            held |-> FALSE, err |-> "none"]
Forever == MaxTime + 1

Init ==
  /\ now = 1 /\ over = FALSE
  /\ pc = [n \in Nemeses |-> "quiet"] /\ cur = [n \in Nemeses |-> NoEvent]
  /\ events = <<>> /\ count = [t \in Targets |-> 0] /\ holding = {} /\ truth = {}

Goto(n, l) == pc' = [pc EXCEPT ![n] = l]

Tick ==
  /\ now < MaxTime /\ now' = now + 1
  /\ UNCHANGED <<over, pc, cur, events, count, holding, truth>>

EndContext ==
  /\ ~over /\ over' = TRUE
  /\ UNCHANGED <<now, pc, cur, events, count, holding, truth>>

-----------------------------------------------------------------------------
(* Holds.                                                                  *)

Hold(t) == count' = [count EXCEPT ![t] = @ + 1]

\* The release of the fault n injected, once.
Release(n) ==
  /\ holding' = holding \ {n}
  /\ count' = IF n \in holding THEN [count EXCEPT ![cur[n].target] = @ - 1] ELSE count

-----------------------------------------------------------------------------
(* Run.                                                                    *)

\* The rest between faults passes, or the context ends it.
Quiet(n) ==
  /\ pc[n] = "quiet"
  /\ \/ Len(events) + 2 * Cardinality(Nemeses) <= MaxEvents /\ Goto(n, "before")
     \/ over /\ Goto(n, "returned")
  /\ UNCHANGED <<now, over, cur, events, count, holding, truth>>

\* Before, if set, has run; the context may have ended under it.  A fault is picked and
\* its injection begins.  It takes hold of its target as it begins, and from
\* then on may be in force.
Before(n) ==
  /\ pc[n] = "before"
  /\ \/ over /\ Goto(n, "returned") /\ UNCHANGED <<cur, count, holding, truth>>
     \/ /\ Goto(n, "inject")
        /\ \E f \in Faults, t \in Targets :
             /\ cur' = [cur EXCEPT ![n] = [NoEvent EXCEPT !.fault = f, !.target = t, !.start = now]]
             /\ truth' = truth \cup {[by |-> n, fault |-> f, target |-> t, from |-> now, to |-> Forever,
                                   on |-> FALSE]}
             /\ Hold(t)
        /\ holding' = holding \cup {n}
  /\ UNCHANGED <<now, over, events>>

Mine(n) == {x \in truth : x.by = n /\ x.to = Forever}
EndSpan(n) == truth' = (truth \ Mine(n)) \cup {[x EXCEPT !.to = now] : x \in Mine(n)}

\* The injection returns: a heal; nothing to heal, the fault being over; or no
\* target.  Without a heal the hold is released.
Inject(n) ==
  /\ pc[n] = "inject" /\ Goto(n, "recording")
  /\ \/ /\ \E e \in {"none", "failed"} :
             cur' = [cur EXCEPT ![n] = [@ EXCEPT !.end = now, !.err = e, !.held = TRUE]]
        /\ UNCHANGED <<count, holding, truth>>
     \/ /\ \E e \in {"none", "failed"} : cur' = [cur EXCEPT ![n] = [@ EXCEPT !.end = now, !.err = e]]
        /\ Release(n) /\ EndSpan(n)
     \/ /\ cur' = [cur EXCEPT ![n] = [@ EXCEPT !.end = now, !.err = "no target"]]
        /\ Release(n) /\ truth' = truth \ Mine(n)
  /\ UNCHANGED <<now, over, events>>

\* record, after the event's End was taken.
Record(n) ==
  /\ pc[n] = "recording" /\ events' = Append(events, cur[n])
  /\ Goto(n, IF cur[n].held THEN "hold" ELSE "quiet")
  /\ truth' = {[x EXCEPT !.on = @ \/ x.by = n] : x \in truth}
  /\ UNCHANGED <<now, over, cur, count, holding>>

\* The hold passes, or the context ends it; the heal begins.
HealBegins(n) ==
  /\ pc[n] = "hold" /\ Goto(n, "heal")
  /\ cur' = [cur EXCEPT ![n] = [NoEvent EXCEPT !.fault = cur[n].fault, !.heal = TRUE,
                                              !.target = cur[n].target, !.start = now]]
  /\ UNCHANGED <<now, over, events, count, holding, truth>>

\* Released: the heal runs, and the target is released whether or not it
\* succeeded; a fault whose heal failed holds still.
Heal(n) ==
  /\ pc[n] = "heal" /\ Goto(n, "healed")
  /\ Release(n)
  /\ \/ cur' = [cur EXCEPT ![n].end = now] /\ EndSpan(n)
     \/ /\ cur' = [cur EXCEPT ![n] = [@ EXCEPT !.end = now, !.err = "failed"]]
        /\ truth' = (truth \ Mine(n)) \cup {[x EXCEPT !.by = "nobody"] : x \in Mine(n)}
  /\ UNCHANGED <<now, over, events>>

\* The job releases a target again.
ReleaseAgain(n) ==
  /\ pc[n] \in {"healed", "quiet"} /\ cur[n].heal
  /\ Release(n)
  /\ UNCHANGED <<now, over, pc, cur, events, truth>>

RecordHeal(n) ==
  /\ pc[n] = "healed" /\ events' = Append(events, cur[n]) /\ Goto(n, "quiet")
  /\ UNCHANGED <<now, over, cur, count, holding, truth>>

Next ==
  \/ Tick \/ EndContext
  \/ \E n \in Nemeses : \/ Quiet(n) \/ Before(n) \/ Inject(n) \/ Record(n) \/ HealBegins(n)
                        \/ Heal(n) \/ ReleaseAgain(n) \/ RecordHeal(n)

Spec == Init /\ [][Next]_vars

-----------------------------------------------------------------------------
(* Windows: each injection is paired with the first heal after it of the   *)
(* same fault and target.  end = 0 is a window left open.                  *)

Window(e, end) ==
  [fault |-> e.fault, target |-> e.target, start |-> e.start, end |-> end, healErr |-> FALSE,
   waits |-> e.held]

\* The window a heal is paired with: the first that awaits one.
Awaiting(out, e) ==
  {i \in DOMAIN out : out[i].fault = e.fault /\ out[i].target = e.target /\ out[i].waits}
First(s) == CHOOSE i \in s : \A j \in s : i <= j

\* A faulty version: a heal ends its window whether or not it succeeded.
HealedAnyway(out, e) ==
  IF Awaiting(out, e) = {} THEN out
  ELSE [out EXCEPT ![First(Awaiting(out, e))] = [@ EXCEPT !.waits = FALSE, !.end = e.end]]

Healed(out, e) ==
  IF Awaiting(out, e) = {} THEN out
  ELSE [out EXCEPT ![First(Awaiting(out, e))] =
          IF e.err # "none" THEN [@ EXCEPT !.waits = FALSE, !.healErr = TRUE]
          ELSE [@ EXCEPT !.waits = FALSE, !.end = e.end]]

Windows(es) ==
  FoldLeft(LAMBDA out, e :
             IF e.heal THEN Healed(out, e)
             ELSE IF e.held THEN Append(out, Window(e, 0))
             ELSE IF e.err = "no target" THEN out
             ELSE Append(out, Window(e, e.end)),
           <<>>, es)

\* Overlaps, for an operation over the span from a to b.
Overlaps(w, a, b, after) == w.start <= b /\ (w.end = 0 \/ w.end + after >= a)

-----------------------------------------------------------------------------
\* Type invariant.
TypeOK ==
  /\ now \in 1..MaxTime /\ over \in BOOLEAN
  /\ pc \in [Nemeses -> {"quiet", "before", "inject", "recording", "hold", "heal", "healed", "returned"}]
  /\ count \in [Targets -> 0..Cardinality(Nemeses)]
  /\ holding \subseteq Nemeses /\ Len(events) <= MaxEvents

\* No fault in force goes unexcused: an operation that ran while a fault held,
\* once its injection is on record, overlaps a window of that fault, although
\* several nemeses apply one fault to one target at once and record their
\* events in any order.
WindowsCover ==
  \A x \in truth : x.on =>
    LET until == IF x.to = Forever THEN now ELSE x.to
        ws == Windows(events)
    IN  \A t \in x.from..until : \E i \in DOMAIN ws :
          ws[i].fault = x.fault /\ ws[i].target = x.target /\ Overlaps(ws[i], t, t, 0)

\* When every nemesis has returned and every heal worked, no window is left
\* open, and each began when a fault did.
WindowsClose ==
  (/\ \A n \in Nemeses : pc[n] = "returned"
   /\ \A i \in DOMAIN events : events[i].heal => events[i].err = "none") =>
    LET ws == Windows(events)
    IN  \A i \in DOMAIN ws : ws[i].end # 0 /\ \E x \in truth : x.from = ws[i].start

\* A target is held by exactly the faults whose release has not run, and a
\* target no fault holds reads as not held.
HoldsExact ==
  \A t \in Targets : count[t] = Cardinality({n \in holding : cur[n].target = t})

\* Run heals the fault in effect before it returns: a nemesis that returned
\* holds no target, and no fault it injected awaits a heal.
HealedBeforeReturn ==
  \A n \in Nemeses : pc[n] = "returned" => n \notin holding /\ Mine(n) = {}

=============================================================================

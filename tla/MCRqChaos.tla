------------------------------ MODULE MCRqChaos -----------------------------
(***************************************************************************)
(* Fault injection: the rqlite example's job on a cluster of two, with every *)
(* fault of its nemesis (RqChaos), and the library's nemesis loop and fault  *)
(* windows (Nemesis), as two nemeses that apply one fault to one target.  A  *)
(* behaviour is of one or of the other.                                      *)
(***************************************************************************)
EXTENDS RqChaos

CONSTANTS MaxTime, MaxEvents

MCFaults == {"crash", "crash-leader", "crash-majority", "stop", "stop-leader", "pause", "pause-leader",
             "replace-disk", "stepdown", "disk-full", "partition-leader", "partition-half",
             "partition-bridge", "deafen-leader", "mtu-blackhole", "slow"}

Loops == {"n1", "n2"}

VARIABLES now, over, loop, cur, events, count, holding, truth

Nem == INSTANCE Nemesis WITH Nemeses <- Loops, Faults <- {"f"}, Targets <- {"a"}, pc <- loop

loopVars == <<now, over, loop, cur, events, count, holding, truth>>

NoJob ==
  /\ RqInit /\ deaths = 0 /\ pc = "done" /\ at = 1 /\ fault = NoFault
  /\ drops = [n \in Nodes |-> NoRules] /\ shaped = {} /\ full = {}
  /\ doubt = FALSE /\ left = 0 /\ failed = FALSE /\ dirty = {}
NoLoop ==
  /\ now = MaxTime /\ over = TRUE /\ loop = [n \in Loops |-> "returned"]
  /\ cur = [n \in Loops |-> Nem!NoEvent] /\ events = <<>> /\ count = [t \in {"a"} |-> 0]
  /\ holding = {} /\ truth = {}

MCSpec ==
  /\ ((Init \/ InitCalls) /\ NoLoop) \/ (NoJob /\ Nem!Init)
  /\ [][(Next /\ UNCHANGED loopVars) \/ (Nem!Next /\ UNCHANGED vars)]_<<vars, loopVars>>

-----------------------------------------------------------------------------
\* The windows reported tell what the faults did, although several nemeses apply
\* one fault to one target at once and record their events in any order: no
\* fault in force goes unexcused once its injection is on record, a window whose
\* heal worked is closed, a target is held exactly as long as some fault holds
\* it, and a nemesis heals the fault in effect before it returns.
WindowsTrue ==
  Nem!WindowsCover /\ Nem!WindowsClose /\ Nem!HoldsExact /\ Nem!HealedBeforeReturn

=============================================================================

-------------------------- MODULE CgroupGateProofs --------------------------
(* The invariants of the cgroup gate, for any number of goroutines. *)
EXTENDS CgroupGate, TLAPS

\* Every step keeps the types of the gate's variables.
LEMMA TypeStep == TypeOK /\ [Next]_vars => TypeOK'
<1> SUFFICES ASSUME TypeOK, [Next]_vars PROVE TypeOK'
  OBVIOUS
<1>1. ASSUME NEW s \in Starter, Enter(s) \/ Reenter(s) \/ GiveUp(s) \/ Leave(s)
      PROVE  TypeOK'
  BY <1>1 DEF TypeOK, Enter, Reenter, GiveUp, Leave
<1>2. ASSUME NEW f \in Freezer, Freeze(f) PROVE TypeOK'
  BY <1>2 DEF TypeOK, Freeze
<1>3. ASSUME NEW f \in Freezer, FreezeWrite(f) PROVE TypeOK'
  BY <1>3 DEF TypeOK, FreezeWrite
<1>4. ASSUME NEW f \in Freezer, FreezeFails(f) PROVE TypeOK'
  BY <1>4 DEF TypeOK, FreezeFails, CloseThawed
<1>5. ASSUME NEW f \in Freezer, FreezeReturns(f) \/ FreezeGivesUp(f) \/ FreezeAgain(f)
      PROVE  TypeOK'
  BY <1>5 DEF TypeOK, FreezeReturns, FreezeGivesUp, FreezeAgain
<1>6. ASSUME NEW t \in Thawer, Thaw(t) PROVE TypeOK'
  BY <1>6 DEF TypeOK, Thaw, CloseThawed
<1>7. CASE KernelFollows
  BY <1>7 DEF TypeOK, KernelFollows
<1>8. CASE UNCHANGED vars
  BY <1>8 DEF TypeOK, vars
<1> QED
  BY <1>1, <1>2, <1>3, <1>4, <1>5, <1>6, <1>7, <1>8 DEF Next

\* Every step keeps the gate's invariant.
LEMMA GateStep == TypeOK /\ GateInv /\ [Next]_vars => GateInv'
<1> SUFFICES ASSUME TypeOK, GateInv, [Next]_vars PROVE GateInv'
  OBVIOUS
<1> USE DEF TypeOK, GateInv, NoStartWhileFrozen, GateFollowsFile, NoLostWakeup, Starting
<1>1. ASSUME NEW s \in Starter, Enter(s) PROVE GateInv'
  BY <1>1 DEF Enter
<1>2. ASSUME NEW s \in Starter, Reenter(s) PROVE GateInv'
  BY <1>2 DEF Reenter
<1>3. ASSUME NEW s \in Starter, GiveUp(s) \/ Leave(s) PROVE GateInv'
  BY <1>3 DEF GiveUp, Leave
<1>4. ASSUME NEW f \in Freezer, Freeze(f) PROVE GateInv'
  BY <1>4 DEF Freeze
<1>5. ASSUME NEW f \in Freezer, FreezeWrite(f) PROVE GateInv'
  <2>1. op = {f}
    BY <1>5 DEF FreezeWrite
  <2> QED
    BY <1>5, <2>1 DEF FreezeWrite
<1>6. ASSUME NEW f \in Freezer, FreezeFails(f) PROVE GateInv'
  <2>1. op = {f}
    BY <1>6 DEF FreezeFails
  <2>2. CASE f \in closed
    BY <1>6, <2>1, <2>2 DEF FreezeFails, CloseThawed
  <2>3. CASE f \notin closed
    BY <1>6, <2>1, <2>3 DEF FreezeFails
  <2> QED
    BY <2>2, <2>3
<1>7. ASSUME NEW f \in Freezer, FreezeReturns(f) \/ FreezeGivesUp(f) \/ FreezeAgain(f)
      PROVE  GateInv'
  BY <1>7 DEF FreezeReturns, FreezeGivesUp, FreezeAgain
<1>8. ASSUME NEW t \in Thawer, Thaw(t) PROVE GateInv'
  BY <1>8 DEF Thaw, CloseThawed
<1>9. CASE KernelFollows
  BY <1>9 DEF KernelFollows
<1>10. CASE UNCHANGED vars
  BY <1>10 DEF vars
<1> QED
  BY <1>1, <1>2, <1>3, <1>4, <1>5, <1>6, <1>7, <1>8, <1>9, <1>10 DEF Next

\* The types and the gate's invariant hold in every state.
THEOREM GateInvariance == Spec => [](TypeOK /\ GateInv)
<1>1. Init => TypeOK /\ GateInv
  <2>1. Init => TypeOK
    BY DEF Init, TypeOK
  <2>2. Init => NoStartWhileFrozen /\ GateFollowsFile
    BY DEF Init, NoStartWhileFrozen, GateFollowsFile, Starting
  <2>3. Init => NoLostWakeup /\ \A f \in Freezer : freezing[f] = "draining" => FALSE
    BY DEF Init, NoLostWakeup
  <2> QED
    BY <2>1, <2>2, <2>3 DEF GateInv
<1>2. TypeOK /\ GateInv /\ [Next]_vars => (TypeOK /\ GateInv)'
  BY TypeStep, GateStep
<1> QED
  BY <1>1, <1>2, PTL DEF Spec

\* For any number of goroutines that start commands, freeze and thaw, no
\* command is ever forked into a cgroup whose file says frozen.
THEOREM NoFrozenFork == Spec => []NoStartWhileFrozen
<1>1. TypeOK /\ GateInv => NoStartWhileFrozen
  BY DEF GateInv
<1> QED
  BY <1>1, GateInvariance, PTL

\* The gate is closed whenever the file says frozen, and the freeze between
\* closing the gate and writing the file is the one that holds op.
THEOREM GateIsClosed == Spec => []GateFollowsFile
<1>1. TypeOK /\ GateInv => GateFollowsFile
  BY DEF GateInv
<1> QED
  BY <1>1, GateInvariance, PTL

\* A start that waits on an open channel waits for a gate that is closed.
THEOREM WakeupsReachAll == Spec => []NoLostWakeup
<1>1. TypeOK /\ GateInv => NoLostWakeup
  BY DEF GateInv
<1> QED
  BY <1>1, GateInvariance, PTL

\* For any number of starts, freezes and thaws the gate does what place relies on.
THEOREM GateIsSound == Spec => []GateHolds
BY NoFrozenFork, GateIsClosed, WakeupsReachAll, PTL DEF GateHolds

\* freeze returns nil only when the kernel has reported the cgroup frozen or
\* a thaw has closed the channel the freeze took.
THEOREM FreezeReportsTruly == Spec => FreezeIsReal
<1> DEFINE Honest == \A f \in Freezer :
             freezing[f] = "polling" /\ freezing'[f] = "idle" => kernel \/ f \in undone
<1>1. TypeOK /\ GateInv /\ [Next]_vars => [Honest]_vars
  <2> SUFFICES ASSUME TypeOK, [Next]_vars,
                      NEW f \in Freezer, freezing[f] = "polling", freezing'[f] = "idle"
               PROVE  kernel \/ f \in undone
    OBVIOUS
  <2>1. CASE \E s \in Starter : Enter(s) \/ Reenter(s) \/ GiveUp(s) \/ Leave(s)
    BY <2>1 DEF Enter, Reenter, GiveUp, Leave
  <2>2. CASE \E g \in Freezer : Freeze(g) \/ FreezeWrite(g) \/ FreezeFails(g)
    BY <2>2 DEF TypeOK, Freeze, FreezeWrite, FreezeFails
  <2>3. CASE \E g \in Freezer : FreezeReturns(g) \/ FreezeGivesUp(g) \/ FreezeAgain(g)
    BY <2>3 DEF TypeOK, FreezeReturns, FreezeGivesUp, FreezeAgain
  <2>4. CASE (\E t \in Thawer : Thaw(t)) \/ KernelFollows \/ UNCHANGED vars
    BY <2>4 DEF Thaw, KernelFollows, vars
  <2> QED
    BY <2>1, <2>2, <2>3, <2>4 DEF Next
<1> QED
  BY <1>1, GateInvariance, PTL DEF Spec, FreezeIsReal

=============================================================================

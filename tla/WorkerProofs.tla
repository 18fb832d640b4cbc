--------------------------- MODULE WorkerProofs ----------------------------
(***************************************************************************)
(* For any services, sizes and number of finalizers: the worker starts and *)
(* stops services in order, and its result says what happened to the job   *)
(* and to the nodes.                                                       *)
(***************************************************************************)
EXTENDS Worker, WellFoundedInduction, TLAPS

Trying == {"start", "wait", "run"}
Tearing == {"stop", "collect", "clean", "finalize", "finalizing"}
Ended == {"finish", "send", "exit"}

\* Where the job is tells what it has done: nothing has gone wrong before it
\* is prepared, Setup is entered before anything is done to a node, and only
\* the wait for the services goes on after an error.
PhasesInOrder ==
  /\ phase = "decode" => ~jobDir /\ ~persistErr
  /\ phase \in {"decode", "open", "prepare"} => step = "stop" /\ ~prepErr
  /\ phase \in {"decode", "open", "prepare"} => ~runErr /\ ~tdErr /\ ~entered
  /\ phase \in Trying => ~tdErr /\ entered
  /\ phase \in {"start", "run"} => ~runErr
  /\ phase \in Tearing => entered
  /\ phase = "start" /\ step # "stop" => todo # {}
  /\ phase \in {"start", "wait", "stop", "collect", "clean"} => todo \subseteq Node

\* What went wrong is on record, in the error of its part of the lifecycle.
FaultsNoted ==
  /\ (faults \cap {"prepare", "setup", "run"} # {}) <=>
       (runErr \/ (phase = "start" /\ step = "clean" /\ prepErr))
  /\ "teardown" \in faults <=> tdErr
  /\ "persist" \in faults <=> persistErr

\* The node that Start is at: stopped, then clean.
Prepared ==
  phase = "start" => \A n \in Node : InOrder(n) =>
    /\ step = "clean" /\ ~prepErr => n \notin up
    /\ step = "start" => n \notin up \cup stale

\* A teardown without an error has stopped, and then cleaned, every node it
\* has been to.
Undone ==
  entered /\ ~tdErr =>
    /\ phase = "stop" => \A n \in Node \ todo : n \notin up
    /\ phase \in {"collect", "clean", "finalize", "finalizing"} \cup Ended => up = {}
    /\ phase = "clean" => \A n \in Node \ todo : n \notin stale
    /\ phase \in {"finalize", "finalizing"} \cup Ended => stale = {}

\* The finalizers are numbered as they are registered, and called backwards.
Unwound ==
  /\ phase \in Trying \cup {"stop", "collect", "clean", "finalize"} =>
       /\ ran = <<>> /\ Len(deferred) <= MaxDeferred
       /\ \A i \in 1..Len(deferred) : deferred[i] = i
  /\ phase \in {"decode", "open", "prepare"} => deferred = <<>> /\ ran = <<>>
  /\ phase = "finalizing" => todo = 1..(owed - Len(ran)) /\ Len(ran) <= owed
  /\ phase \in Ended /\ entered /\ ~tdErr => Len(ran) = owed
  /\ phase = "finalizing" \/ (phase \in Ended /\ entered /\ ~tdErr) =>
       \A k \in 1..Len(ran) : ran[k] = owed - k + 1

\* Without an error to report, what is wanted of a node is collected before the
\* node is cleaned.
Collected ==
  jobDir /\ entered /\ ~tdErr /\ ~persistErr =>
    /\ phase = "collect" => \A n \in Node \ todo : Wanted(n) => n \in collected
    /\ phase \in {"clean", "finalize", "finalizing"} \cup Ended =>
         \A n \in Node : Wanted(n) => n \in collected

\* The result is made of the errors on record.
Told ==
  /\ phase \notin {"send", "exit"} => result = <<>>
  /\ result # <<>> =>
       result = <<[pass |-> ~runErr /\ ~tdErr, dirty |-> tdErr, persist |-> persistErr]>>

Inv ==
  /\ TypeOK
  /\ PhasesInOrder
  /\ FaultsNoted
  /\ Prepared
  /\ Undone
  /\ Unwound
  /\ Collected
  /\ Told

-----------------------------------------------------------------------------
(* The nodes and their services.                                           *)

\* A set of numbers that is not empty has a least one.
LEMMA Least ==
  ASSUME NEW T \in SUBSET Nat, T # {}
  PROVE  \E m \in T : \A k \in T : m <= k
<1>1. PICK m \in T : \A k \in T : ~(<<k, m>> \in OpToRel(<, Nat))
  BY NatLessThanWellFounded, WFMin, Zenon
<1>2. \A k \in T : ~(k < m)
  BY <1>1, Zenon DEF OpToRel
<1>3. \A k \in T : m <= k
  BY <1>2
<1> QED
  BY <1>3, Zenon

\* Offset is what its recursive definition says: the sum of the sizes before.
LEMMA OffsetDef ==
  Offset = [i \in 0..Len(Sizes) |-> IF i = 0 THEN 0 ELSE Offset[i - 1] + Sizes[i]]
<1> DEFINE F(g, n) == g = [i \in 0..n |-> IF i = 0 THEN 0 ELSE g[i - 1] + Sizes[i]]
           Bad == {n \in Nat : ~\E g : F(g, n)}
<1>1. Bad = {}
  <2> SUFFICES ASSUME Bad # {} PROVE FALSE
    BY Zenon
  <2> HIDE DEF F
  <2>1. PICK m \in Bad : \A k \in Bad : m <= k
    BY Least, Zenon
  <2>2. m \in Nat /\ ~\E g : F(g, m)
    BY Zenon
  <2>3. m # 0
    <3>1. F([i \in 0..0 |-> 0], 0)
      BY DEF F
    <3> QED BY <3>1, <2>2, Zenon
  <2>4. PICK g : F(g, m - 1)
    BY <2>1, <2>2, <2>3
  <2> DEFINE h == [i \in 0..m |-> IF i = m THEN g[m - 1] + Sizes[m] ELSE g[i]]
  <2>5. F(h, m)
    <3>1. \A i \in 0..m : h[i] = IF i = 0 THEN 0 ELSE h[i - 1] + Sizes[i]
      BY <2>2, <2>3, <2>4 DEF F
    <3> QED BY <3>1, Zenon DEF F
  <2> QED BY <2>5, <2>2, Zenon
<1>2. PICK g : F(g, Len(Sizes))
  <2>1. Len(Sizes) \in Nat
    BY SizesAssumption
  <2> QED BY <1>1, <2>1, Zenon
<1> QED
  BY <1>2, Zenon DEF Offset

\* What a service's nodes begin at is what the sizes before it add up to.
LEMMA OffsetType ==
  /\ Len(Sizes) \in Nat
  /\ \A i \in 0..Len(Sizes) : Offset[i] \in Nat
  /\ Offset[0] = 0
<1>0. Len(Sizes) \in Nat /\ \A i \in 1..Len(Sizes) : Sizes[i] \in Nat
  BY SizesAssumption
<1>1. \A i \in 1..Len(Sizes) : Offset[i] = Offset[i - 1] + Sizes[i]
  BY OffsetDef, <1>0
<1>2. Offset[0] = 0
  BY OffsetDef, <1>0
<1>3. \A i \in 0..Len(Sizes) : Offset[i] \in Nat
  <2> DEFINE Bad == {i \in 0..Len(Sizes) : Offset[i] \notin Nat}
  <2> SUFFICES ASSUME Bad # {} PROVE FALSE
    BY Zenon
  <2>1. PICK m \in Bad : \A k \in Bad : m <= k
    <3>1. Bad \in SUBSET Nat
      BY <1>0
    <3> HIDE DEF Bad
    <3> QED BY <3>1, Least, Zenon
  <2>2. m # 0 /\ m \in 1..Len(Sizes)
    BY <1>2, <1>0
  <2>3. m - 1 \in 0..Len(Sizes) /\ m - 1 \notin Bad
    BY <2>1, <2>2, <1>0
  <2> QED BY <2>3, <2>2, <1>1, <1>0
<1> QED
  BY <1>0, <1>2, <1>3, Zenon

\* Nodes are numbered.
LEMMA NodeType == Node \subseteq Nat
<1>1. Offset[Len(Sizes)] \in Nat
  BY OffsetType
<1> QED
  BY <1>1 DEF Node

\* Every node belongs to a service (Bind).
LEMMA ServiceOfType == \A n \in Node : ServiceOf(n) \in Service
<1> DEFINE N == Len(Sizes)
<1>0. N \in Nat /\ Offset[0] = 0 /\ \A i \in 0..N : Offset[i] \in Nat
  BY OffsetType, Zenon
<1> SUFFICES ASSUME NEW n \in Node PROVE \E i \in Service : Offset[i - 1] < n /\ n <= Offset[i]
  BY Zenon DEF ServiceOf
<1> DEFINE Reach == {i \in 0..N : n <= Offset[i]}
<1>4. PICK m \in Reach : \A k \in Reach : m <= k
  <2>1. Reach \in SUBSET Nat /\ N \in Reach
    BY <1>0 DEF Node
  <2> HIDE DEF Reach
  <2> QED BY <2>1, Least, Zenon
<1>5. n \in Nat /\ n > 0
  BY <1>0 DEF Node
<1>6. m \in 1..N
  BY <1>5, <1>0
<1>7. m - 1 \in 0..N /\ m - 1 \notin Reach
  BY <1>6, <1>4, <1>0
<1>8. Offset[m - 1] < n
  BY <1>7, <1>5, <1>0
<1> QED
  BY <1>6, <1>8, <1>4, Zenon DEF Service

-----------------------------------------------------------------------------
(* The invariant.                                                          *)

\* Initially nothing has been done, but for what an earlier run left (Init).
LEMMA InitInv == Init => Inv
<1> SUFFICES ASSUME Init PROVE Inv
  BY Zenon
<1> USE DEF Init
<1>1. TypeOK
  <2>1. up \subseteq Node /\ stale \subseteq Node
    BY Zenon
  <2>2. deferred \in Seq(Finalizer) /\ ran \in Seq(Finalizer)
    OBVIOUS
  <2>3. result \in Seq([pass : BOOLEAN, dirty : BOOLEAN, persist : BOOLEAN])
    OBVIOUS
  <2> QED BY <2>1, <2>2, <2>3, Zenon DEF TypeOK, Phases
<1>2. PhasesInOrder
  BY Zenon DEF PhasesInOrder, Trying, Tearing, Ended
<1>3. FaultsNoted
  BY Zenon DEF FaultsNoted, Trying, Tearing, Ended
<1>4. Prepared
  BY Zenon DEF Prepared, Trying, Tearing, Ended
<1>5. Undone
  BY Zenon DEF Undone, Trying, Tearing, Ended
<1>6. Unwound
  BY Zenon DEF Unwound, Trying, Tearing, Ended
<1>7. Collected
  BY Zenon DEF Collected, Trying, Tearing, Ended
<1>8. Told
  BY Zenon DEF Told, Trying, Tearing, Ended
<1> QED
  BY <1>1, <1>2, <1>3, <1>4, <1>5, <1>6, <1>7, <1>8, Zenon DEF Inv

\* Every step of the worker and of the processes on its nodes keeps the
\* invariant.
LEMMA NextInv == Inv /\ [Next]_vars => Inv'
<1> SUFFICES ASSUME Inv, [Next]_vars PROVE Inv'
  BY Zenon
<1> USE DeferredAssumption, NodeType DEF Inv, TypeOK, Phases, Trying, Tearing,
  Ended, Finalizer, nodeState, books, stack
<1>1. ASSUME NEW o \in Outcome, Decode(o) PROVE Inv'
  <2> USE <1>1 DEF Decode
  <2>1. TypeOK'
    OBVIOUS
  <2> USE <2>1
  <2>2. PhasesInOrder'
    BY Zenon DEF PhasesInOrder
  <2>3. FaultsNoted'
    BY Zenon DEF FaultsNoted
  <2>4. Prepared'
    BY Zenon DEF Prepared
  <2>5. Undone'
    BY Zenon DEF Undone, PhasesInOrder
  <2>6. Unwound'
    BY Zenon DEF Unwound, PhasesInOrder
  <2>7. Collected'
    BY Zenon DEF Collected, PhasesInOrder
  <2>8. Told'
    BY Zenon DEF Told
  <2> QED
    BY <2>1, <2>2, <2>3, <2>4, <2>5, <2>6, <2>7, <2>8, Zenon
<1>2. ASSUME NEW o \in {"off", "ok", "no dir", "no trace"}, Open(o) PROVE Inv'
  <2> USE <1>2 DEF Open
  <2>1. TypeOK'
    BY Zenon
  <2> USE <2>1
  <2>2. PhasesInOrder'
    BY Zenon DEF PhasesInOrder
  <2>3. FaultsNoted'
    BY Zenon DEF FaultsNoted, PhasesInOrder
  <2>4. Prepared'
    BY Zenon DEF Prepared
  <2>5. Undone'
    BY Zenon DEF Undone
  <2>6. Unwound'
    BY Zenon DEF Unwound
  <2>7. Collected'
    BY Zenon DEF Collected
  <2>8. Told'
    BY Zenon DEF Told
  <2> QED
    BY <2>1, <2>2, <2>3, <2>4, <2>5, <2>6, <2>7, <2>8, Zenon
<1>3. ASSUME NEW o \in Outcome, Prepare(o) PROVE Inv'
  <2> USE <1>3 DEF Prepare, Note
  <2>1. TypeOK'
    BY Zenon
  <2> USE <2>1
  <2>2. PhasesInOrder'
    BY Zenon DEF PhasesInOrder
  <2>3. FaultsNoted'
    BY Zenon DEF FaultsNoted, PhasesInOrder
  <2>4. Prepared'
    BY Zenon DEF Prepared, PhasesInOrder
  <2>5. Undone'
    BY Zenon DEF Undone, PhasesInOrder
  <2>6. Unwound'
    BY DEF Unwound, PhasesInOrder
  <2>7. Collected'
    BY Zenon DEF Collected, PhasesInOrder
  <2>8. Told'
    BY Zenon DEF Told
  <2> QED
    BY <2>1, <2>2, <2>3, <2>4, <2>5, <2>6, <2>7, <2>8, Zenon
<1>4. ASSUME NEW n \in Node, NEW o \in Outcome, PreStop(n, o) PROVE Inv'
  <2> USE <1>4 DEF PreStop, StopEffect, Note, BeginTeardown
  <2>1. TypeOK'
    BY Zenon
  <2> USE <2>1
  <2>2. PhasesInOrder'
    <3>1. todo # {}
      BY Zenon DEF InOrder
    <3> QED BY <3>1, Zenon DEF PhasesInOrder, Outcome
  <2>3. FaultsNoted'
    <3>1. CASE o = "ok"
      BY <3>1, Zenon DEF FaultsNoted, PhasesInOrder
    <3>2. CASE o = "err"
      BY <3>2, Zenon DEF FaultsNoted, PhasesInOrder
    <3>3. CASE o = "panic"
      BY <3>3, Zenon DEF FaultsNoted, PhasesInOrder
    <3> QED BY <3>1, <3>2, <3>3, Zenon DEF Outcome
  <2>4. Prepared'
    <3>1. \A m \in Node : InOrder(m) => m = n
      BY DEF InOrder
    <3> QED BY <3>1, Zenon DEF Prepared, PhasesInOrder, InOrder, Outcome
  <2>5. Undone'
    BY Zenon DEF Undone
  <2>6. Unwound'
    BY Zenon DEF Unwound
  <2>7. Collected'
    BY Zenon DEF Collected
  <2>8. Told'
    BY Zenon DEF Told
  <2> QED
    BY <2>1, <2>2, <2>3, <2>4, <2>5, <2>6, <2>7, <2>8, Zenon
<1>5. ASSUME NEW n \in Node, NEW o \in Outcome, PreClean(n, o) PROVE Inv'
  <2> USE <1>5 DEF PreClean, CleanEffect, Note, BeginTeardown
  <2>1. TypeOK'
    BY Zenon
  <2> USE <2>1
  <2>2. PhasesInOrder'
    BY Zenon DEF PhasesInOrder
  <2>3. FaultsNoted'
    BY Zenon DEF FaultsNoted
  <2>4. Prepared'
    <3>1. \A m \in Node : InOrder(m) => m = n
      BY DEF InOrder
    <3> QED BY <3>1, Zenon DEF Prepared, PhasesInOrder, InOrder, Outcome
  <2>5. Undone'
    BY Zenon DEF Undone
  <2>6. Unwound'
    BY Zenon DEF Unwound
  <2>7. Collected'
    BY Zenon DEF Collected
  <2>8. Told'
    BY Zenon DEF Told
  <2> QED
    BY <2>1, <2>2, <2>3, <2>4, <2>5, <2>6, <2>7, <2>8, Zenon
<1>6. ASSUME NEW n \in Node, NEW o \in Outcome, StartNode(n, o) PROVE Inv'
  <2> USE <1>6 DEF StartNode, StartEffect, Note, BeginTeardown
  <2>1. TypeOK'
    BY Zenon
  <2> USE <2>1
  <2>2. PhasesInOrder'
    BY Zenon DEF PhasesInOrder
  <2>3. FaultsNoted'
    BY Zenon DEF FaultsNoted
  <2>4. Prepared'
    BY Zenon DEF Prepared
  <2>5. Undone'
    BY Zenon DEF Undone
  <2>6. Unwound'
    BY Zenon DEF Unwound
  <2>7. Collected'
    BY Zenon DEF Collected
  <2>8. Told'
    BY Zenon DEF Told
  <2> QED
    BY <2>1, <2>2, <2>3, <2>4, <2>5, <2>6, <2>7, <2>8, Zenon
<1>7. ASSUME BeginWait PROVE Inv'
  <2> USE <1>7 DEF BeginWait
  <2>1. TypeOK'
    BY Zenon
  <2> USE <2>1
  <2>2. PhasesInOrder'
    BY Zenon DEF PhasesInOrder
  <2>3. FaultsNoted'
    BY Zenon DEF FaultsNoted, PhasesInOrder
  <2>4. Prepared'
    BY Zenon DEF Prepared
  <2>5. Undone'
    BY Zenon DEF Undone
  <2>6. Unwound'
    BY Zenon DEF Unwound
  <2>7. Collected'
    BY Zenon DEF Collected
  <2>8. Told'
    BY Zenon DEF Told
  <2> QED
    BY <2>1, <2>2, <2>3, <2>4, <2>5, <2>6, <2>7, <2>8, Zenon
<1>8. ASSUME NEW n \in Node, NEW o \in Outcome, WaitNode(n, o) PROVE Inv'
  <2> USE <1>8 DEF WaitNode, Note, Outcome
  <2>1. TypeOK'
    OBVIOUS
  <2> USE <2>1
  <2>2. PhasesInOrder'
    BY Zenon DEF PhasesInOrder
  <2>3. FaultsNoted'
    BY Zenon DEF FaultsNoted
  <2>4. Prepared'
    BY Zenon DEF Prepared
  <2>5. Undone'
    BY Zenon DEF Undone
  <2>6. Unwound'
    BY Zenon DEF Unwound
  <2>7. Collected'
    BY Zenon DEF Collected
  <2>8. Told'
    BY Zenon DEF Told
  <2> QED
    BY <2>1, <2>2, <2>3, <2>4, <2>5, <2>6, <2>7, <2>8, Zenon
<1>9. ASSUME EndSetup PROVE Inv'
  <2> USE <1>9 DEF EndSetup, BeginTeardown
  <2>1. TypeOK'
    BY Zenon
  <2> USE <2>1
  <2>2. PhasesInOrder'
    BY Zenon DEF PhasesInOrder
  <2>3. FaultsNoted'
    BY Zenon DEF FaultsNoted
  <2>4. Prepared'
    BY Zenon DEF Prepared
  <2>5. Undone'
    BY Zenon DEF Undone
  <2>6. Unwound'
    BY Zenon DEF Unwound
  <2>7. Collected'
    BY Zenon DEF Collected
  <2>8. Told'
    BY Zenon DEF Told
  <2> QED
    BY <2>1, <2>2, <2>3, <2>4, <2>5, <2>6, <2>7, <2>8, Zenon
<1>10. ASSUME NEW n \in Node, Disturb(n) PROVE Inv'
  <2> USE <1>10 DEF Disturb, StopEffect, CleanEffect, StartEffect
  <2>1. TypeOK'
    BY ZenonT(30)
  <2> USE <2>1
  <2>2. PhasesInOrder'
    BY Zenon DEF PhasesInOrder
  <2>3. FaultsNoted'
    BY Zenon DEF FaultsNoted
  <2>4. Prepared'
    BY Zenon DEF Prepared
  <2>5. Undone'
    BY Zenon DEF Undone
  <2>6. Unwound'
    BY Zenon DEF Unwound
  <2>7. Collected'
    BY Zenon DEF Collected
  <2>8. Told'
    BY Zenon DEF Told
  <2> QED
    BY <2>1, <2>2, <2>3, <2>4, <2>5, <2>6, <2>7, <2>8, Zenon
<1>11. ASSUME Defer PROVE Inv'
  <2> USE <1>11 DEF Defer
  <2>1. TypeOK'
    OBVIOUS
  <2> USE <2>1
  <2>2. PhasesInOrder'
    BY Zenon DEF PhasesInOrder
  <2>3. FaultsNoted'
    BY Zenon DEF FaultsNoted
  <2>4. Prepared'
    BY Zenon DEF Prepared, InOrder
  <2>5. Undone'
    BY Zenon DEF Undone
  <2>6. Unwound'
    BY SMTT(30) DEF Unwound
  <2>7. Collected'
    BY Zenon DEF Collected
  <2>8. Told'
    BY Zenon DEF Told
  <2> QED
    BY <2>1, <2>2, <2>3, <2>4, <2>5, <2>6, <2>7, <2>8, Zenon
<1>12. ASSUME NEW n \in Node, Crash(n) PROVE Inv'
  <2> USE <1>12 DEF Crash
  <2>1. TypeOK'
    OBVIOUS
  <2> USE <2>1
  <2>2. PhasesInOrder'
    BY Zenon DEF PhasesInOrder
  <2>3. FaultsNoted'
    BY Zenon DEF FaultsNoted
  <2>4. Prepared'
    BY Zenon DEF Prepared, InOrder
  <2>5. Undone'
    BY Zenon DEF Undone
  <2>6. Unwound'
    BY Zenon DEF Unwound
  <2>7. Collected'
    BY Zenon DEF Collected, Wanted
  <2>8. Told'
    BY Zenon DEF Told
  <2> QED
    BY <2>1, <2>2, <2>3, <2>4, <2>5, <2>6, <2>7, <2>8, Zenon
<1>13. ASSUME NEW o \in Outcome, Run(o) PROVE Inv'
  <2> USE <1>13 DEF Run, Note, BeginTeardown
  <2>1. TypeOK'
    BY Zenon
  <2> USE <2>1
  <2>2. PhasesInOrder'
    BY Zenon DEF PhasesInOrder
  <2>3. FaultsNoted'
    BY Zenon DEF FaultsNoted, PhasesInOrder
  <2>4. Prepared'
    BY Zenon DEF Prepared
  <2>5. Undone'
    BY Zenon DEF Undone
  <2>6. Unwound'
    BY Zenon DEF Unwound
  <2>7. Collected'
    BY Zenon DEF Collected
  <2>8. Told'
    BY Zenon DEF Told
  <2> QED
    BY <2>1, <2>2, <2>3, <2>4, <2>5, <2>6, <2>7, <2>8, Zenon
<1>14. ASSUME NEW n \in Node, NEW o \in Outcome, StopNode(n, o) PROVE Inv'
  <2> USE <1>14 DEF StopNode, StopEffect, Note, Advance
  <2>1. TypeOK'
    BY Zenon
  <2> USE <2>1
  <2>2. PhasesInOrder'
    BY Zenon DEF PhasesInOrder
  <2>3. FaultsNoted'
    BY Zenon DEF FaultsNoted
  <2>4. Prepared'
    BY Zenon DEF Prepared
  <2>5. Undone'
    BY Zenon DEF Undone
  <2>6. Unwound'
    BY Zenon DEF Unwound
  <2>7. Collected'
    BY Zenon DEF Collected
  <2>8. Told'
    BY Zenon DEF Told
  <2> QED
    BY <2>1, <2>2, <2>3, <2>4, <2>5, <2>6, <2>7, <2>8, Zenon
<1>15. ASSUME NextPhase PROVE Inv'
  <2> USE <1>15 DEF NextPhase
  <2>1. TypeOK'
    OBVIOUS
  <2> USE <2>1
  <2>2. PhasesInOrder'
    BY Zenon DEF PhasesInOrder
  <2>3. FaultsNoted'
    BY Zenon DEF FaultsNoted
  <2>4. Prepared'
    BY Zenon DEF Prepared
  <2>5. Undone'
    BY Zenon DEF Undone
  <2>6. Unwound'
    BY Zenon DEF Unwound
  <2>7. Collected'
    BY Zenon DEF Collected, Wanted
  <2>8. Told'
    BY Zenon DEF Told
  <2> QED
    BY <2>1, <2>2, <2>3, <2>4, <2>5, <2>6, <2>7, <2>8, Zenon
<1>16. ASSUME NEW n \in Node, NEW o \in Outcome, CollectNode(n, o) PROVE Inv'
  <2> USE <1>16 DEF CollectNode, Note, Advance
  <2>1. TypeOK'
    BY Zenon
  <2> USE <2>1
  <2>2. PhasesInOrder'
    BY Zenon DEF PhasesInOrder
  <2>3. FaultsNoted'
    <3>1. CASE o = "ok"
      BY <3>1, Zenon DEF FaultsNoted, PhasesInOrder
    <3>2. CASE o = "err"
      BY <3>2, Zenon DEF FaultsNoted, PhasesInOrder
    <3>3. CASE o = "panic"
      BY <3>3, Zenon DEF FaultsNoted, PhasesInOrder
    <3> QED BY <3>1, <3>2, <3>3, Zenon DEF Outcome
  <2>4. Prepared'
    BY Zenon DEF Prepared
  <2>5. Undone'
    BY Zenon DEF Undone
  <2>6. Unwound'
    BY Zenon DEF Unwound
  <2>7. Collected'
    <3>1. CASE o = "ok"
      BY <3>1, Zenon DEF Collected, Undone, InOrder, Wanted
    <3>2. CASE o = "err"
      BY <3>2, Zenon DEF Collected
    <3>3. CASE o = "panic"
      BY <3>3, Zenon DEF Collected
    <3> QED BY <3>1, <3>2, <3>3, Zenon DEF Outcome
  <2>8. Told'
    BY Zenon DEF Told
  <2> QED
    BY <2>1, <2>2, <2>3, <2>4, <2>5, <2>6, <2>7, <2>8, Zenon
<1>17. ASSUME NEW n \in Node, NEW o \in Outcome, CleanNode(n, o) PROVE Inv'
  <2> USE <1>17 DEF CleanNode, CleanEffect, Note, Advance
  <2>1. TypeOK'
    BY Zenon
  <2> USE <2>1
  <2>2. PhasesInOrder'
    BY Zenon DEF PhasesInOrder
  <2>3. FaultsNoted'
    BY Zenon DEF FaultsNoted
  <2>4. Prepared'
    BY Zenon DEF Prepared
  <2>5. Undone'
    BY Zenon DEF Undone
  <2>6. Unwound'
    BY Zenon DEF Unwound
  <2>7. Collected'
    BY Zenon DEF Collected, Wanted
  <2>8. Told'
    BY Zenon DEF Told
  <2> QED
    BY <2>1, <2>2, <2>3, <2>4, <2>5, <2>6, <2>7, <2>8, Zenon
<1>18. ASSUME TakeFinalizers PROVE Inv'
  <2> USE <1>18 DEF TakeFinalizers
  <2>1. TypeOK'
    OBVIOUS
  <2> USE <2>1
  <2>2. PhasesInOrder'
    BY Zenon DEF PhasesInOrder
  <2>3. FaultsNoted'
    BY Zenon DEF FaultsNoted
  <2>4. Prepared'
    BY Zenon DEF Prepared
  <2>5. Undone'
    BY Zenon DEF Undone
  <2>6. Unwound'
    BY DEF Unwound
  <2>7. Collected'
    BY Zenon DEF Collected, Wanted
  <2>8. Told'
    BY Zenon DEF Told
  <2> QED
    BY <2>1, <2>2, <2>3, <2>4, <2>5, <2>6, <2>7, <2>8, Zenon
<1>19. ASSUME NEW f \in Finalizer, NEW o \in Outcome, NEW more \in BOOLEAN, Finalize(f, o, more) PROVE Inv'
  <2> USE <1>19 DEF Finalize, Note, Advance
  <2>1. TypeOK'
    <3>1. ran' \in Seq(Finalizer) /\ deferred' \in Seq(Finalizer)
      <4>1. MaxDeferred + 1 \in Finalizer
        OBVIOUS
      <4> HIDE DEF Finalizer
      <4> QED BY <4>1
    <3>2. todo' \in SUBSET (Node \cup Finalizer)
      BY Zenon
    <3>3. tdErr' \in BOOLEAN /\ phase' \in Phases
      BY Zenon
    <3> QED BY <3>1, <3>2, <3>3, Zenon
  <2> USE <2>1
  <2>2. PhasesInOrder'
    BY Zenon DEF PhasesInOrder
  <2>3. FaultsNoted'
    BY Zenon DEF FaultsNoted
  <2>4. Prepared'
    BY Zenon DEF Prepared
  <2>5. Undone'
    BY Zenon DEF Undone
  <2>6. Unwound'
    <3>1. Len(ran') = Len(ran) + 1 /\ Len(ran) \in Nat /\ ran' = Append(ran, f)
      OBVIOUS
    <3>2. todo = 1..(owed - Len(ran)) /\ Len(ran) <= owed
      BY Zenon DEF Unwound
    <3>3. f = owed - Len(ran) /\ f >= 1
      <4>1. f >= 1 /\ f <= owed - Len(ran)
        BY <3>1, <3>2
      <4>2. owed - Len(ran) \in todo
        BY <3>1, <3>2, <4>1
      <4>3. owed - Len(ran) <= f /\ f \in Nat
        BY <4>2
      <4> HIDE <1>19
      <4> QED BY <3>1, <4>1, <4>3, SMTT(30)
    <3>4. todo \ {f} = 1..(owed - Len(ran'))
      <4>1. \A x : x \in todo \ {f} <=> x \in 1..(owed - Len(ran'))
        BY <3>1, <3>2, <3>3, SMTT(60)
      <4> QED BY <4>1, Zenon
    <3>5. \A k \in 1..Len(ran') : ran'[k] = owed - k + 1
      BY <3>1, <3>3 DEF Unwound
    <3>6. CASE o = "panic"
      BY <3>6, Zenon DEF Unwound
    <3>7. CASE o # "panic"
      <4>1. phase' = "finalizing" /\ todo' = 1..(owed' - Len(ran')) /\ Len(ran') <= owed'
        <5>1. phase' = "finalizing" /\ todo' = todo \ {f} /\ owed' = owed
          BY <3>7, Zenon
        <5>2. Len(ran') <= owed
          BY <3>1, <3>3
        <5> QED BY ONLY <5>1, <5>2, <3>4, Zenon
      <4>2. \A k \in 1..Len(ran') : ran'[k] = owed' - k + 1
        BY <3>5, Zenon
      <4> QED BY ONLY <4>1, <4>2, Zenon DEF Unwound, Trying, Ended
    <3> QED BY <3>6, <3>7, Zenon
  <2>7. Collected'
    BY Zenon DEF Collected, Wanted
  <2>8. Told'
    BY Zenon DEF Told
  <2> QED
    BY <2>1, <2>2, <2>3, <2>4, <2>5, <2>6, <2>7, <2>8, Zenon
<1>20. ASSUME EndTeardown PROVE Inv'
  <2> USE <1>20 DEF EndTeardown
  <2>1. TypeOK'
    BY Zenon
  <2> USE <2>1
  <2>2. PhasesInOrder'
    BY Zenon DEF PhasesInOrder
  <2>3. FaultsNoted'
    BY Zenon DEF FaultsNoted
  <2>4. Prepared'
    BY Zenon DEF Prepared
  <2>5. Undone'
    BY Zenon DEF Undone
  <2>6. Unwound'
    <3>1. Len(ran) \in Nat /\ 1..(owed - Len(ran)) = {} /\ Len(ran) <= owed
      BY DEF Unwound
    <3>2. ~(Len(ran) < owed)
      <4> SUFFICES ASSUME Len(ran) < owed PROVE FALSE
        BY Zenon
      <4>1. 1 \in 1..(owed - Len(ran))
        BY <3>1
      <4> QED BY <4>1, <3>1, Zenon
    <3>3. Len(ran) = owed
      BY <3>1, <3>2
    <3> QED BY <3>3, Zenon DEF Unwound
  <2>7. Collected'
    BY Zenon DEF Collected, Wanted
  <2>8. Told'
    BY Zenon DEF Told
  <2> QED
    BY <2>1, <2>2, <2>3, <2>4, <2>5, <2>6, <2>7, <2>8, Zenon
<1>21. ASSUME NEW o \in Outcome, Finish(o) PROVE Inv'
  <2> USE <1>21 DEF Finish, Note
  <2>1. TypeOK'
    BY SMTT(30)
  <2> USE <2>1
  <2>2. PhasesInOrder'
    BY Zenon DEF PhasesInOrder
  <2>3. FaultsNoted'
    BY Zenon DEF FaultsNoted
  <2>4. Prepared'
    BY Zenon DEF Prepared
  <2>5. Undone'
    BY Zenon DEF Undone
  <2>6. Unwound'
    BY Zenon DEF Unwound
  <2>7. Collected'
    BY Zenon DEF Collected, Wanted
  <2>8. Told'
    BY Zenon DEF Told
  <2> QED
    BY <2>1, <2>2, <2>3, <2>4, <2>5, <2>6, <2>7, <2>8, Zenon
<1>22. ASSUME NEW o \in Outcome, Send(o) PROVE Inv'
  <2> USE <1>22 DEF Send
  <2>1. TypeOK'
    OBVIOUS
  <2> USE <2>1
  <2>2. PhasesInOrder'
    BY Zenon DEF PhasesInOrder
  <2>3. FaultsNoted'
    BY Zenon DEF FaultsNoted
  <2>4. Prepared'
    BY Zenon DEF Prepared
  <2>5. Undone'
    BY Zenon DEF Undone
  <2>6. Unwound'
    BY Zenon DEF Unwound
  <2>7. Collected'
    BY Zenon DEF Collected, Wanted
  <2>8. Told'
    BY Zenon DEF Told
  <2> QED
    BY <2>1, <2>2, <2>3, <2>4, <2>5, <2>6, <2>7, <2>8, Zenon
<1>23. CASE UNCHANGED vars
  <2> USE <1>23 DEF vars
  <2>1. TypeOK'
    OBVIOUS
  <2> USE <2>1
  <2>2. PhasesInOrder'
    BY Zenon DEF PhasesInOrder
  <2>3. FaultsNoted'
    BY Zenon DEF FaultsNoted
  <2>4. Prepared'
    BY Zenon DEF Prepared, InOrder
  <2>5. Undone'
    BY Zenon DEF Undone
  <2>6. Unwound'
    BY Zenon DEF Unwound
  <2>7. Collected'
    BY Zenon DEF Collected, Wanted
  <2>8. Told'
    BY Zenon DEF Told
  <2> QED
    BY <2>1, <2>2, <2>3, <2>4, <2>5, <2>6, <2>7, <2>8, Zenon
<1> QED
  BY <1>1, <1>2, <1>3, <1>4, <1>5, <1>6, <1>7, <1>8, <1>9, <1>10, <1>11,
     <1>12, <1>13, <1>14, <1>15, <1>16, <1>17, <1>18, <1>19, <1>20, <1>21,
     <1>22, <1>23, ZenonT(30) DEF Next, Terminated

-----------------------------------------------------------------------------
(* What the worker promises.                                               *)

\* The inductive invariant holds of every reachable state.
THEOREM Invariance == Spec => []Inv
  BY InitInv, NextInv, PTL DEF Spec

\* Start brings a service up only on a node that is stopped and clean, and
\* StopAll takes one down only after the services registered after it, for any
\* number of services of any sizes and whatever the hooks answer.
THEOREM OrderIsKept == Spec => []ServicesInOrder
<1>1. Inv => ServicesInOrder
  <2> SUFFICES ASSUME Inv PROVE ServicesInOrder
    BY Zenon
  <2>1. StartsOnlyPrepared
    BY Zenon DEF Inv, Prepared, PhasesInOrder, StartsOnlyPrepared
  <2>2. ASSUME phase = "stop", ~tdErr, NEW n \in todo, Reversed(n),
               NEW k \in Node, ServiceOf(k) > ServiceOf(n)
        PROVE  k \notin up
    <3>1. n \in Node
      BY <2>2, Zenon DEF Inv, PhasesInOrder
    <3>2. ServiceOf(n) \in Int /\ ServiceOf(k) \in Int
      BY <3>1, ServiceOfType, OffsetType DEF Service
    <3>3. k \notin todo
      BY <2>2, <3>2 DEF Reversed
    <3> QED
      BY <2>2, <3>3, Zenon DEF Inv, PhasesInOrder, Undone, Tearing
  <2> QED
    BY <2>1, <2>2, Zenon DEF ServicesInOrder, DependentsStopFirst
<1> QED
  BY <1>1, Invariance, PTL

\* A result passes, is dirty and carries a PersistErr for exactly the reasons
\* it should, and one that is not dirty leaves nothing behind on the nodes and
\* no finalizer uncalled (runJob, finish, Finalizers.Run).
THEOREM ResultCanBeTrusted == Spec => []ResultIsTrue
<1>1. Inv => ResultIsTrue
  <2> SUFFICES ASSUME Inv, NEW i \in DOMAIN result
               PROVE  /\ result[i].pass <=> faults \subseteq {"persist"}
                      /\ result[i].dirty <=> "teardown" \in faults
                      /\ result[i].persist <=> "persist" \in faults
                      /\ entered /\ ~result[i].dirty =>
                           /\ up = {} /\ stale = {}
                           /\ Len(ran) = owed
                           /\ \A k \in DOMAIN ran : ran[k] = Len(ran) - k + 1
    BY Zenon DEF ResultIsTrue, ResultIsHonest, CleanMeansReusable
  <2>1. result # <<>> /\ phase \in {"send", "exit"}
    BY DEF Inv, Told
  <2>2. result = <<[pass |-> ~runErr /\ ~tdErr, dirty |-> tdErr, persist |-> persistErr]>>
    BY <2>1, Zenon DEF Inv, Told
  <2>3. i = 1
    BY <2>2
  <2>4. result[i].pass <=> ~runErr /\ ~tdErr
    BY <2>2, <2>3, Zenon
  <2>5. result[i].dirty <=> tdErr
    BY <2>2, <2>3, Zenon
  <2>6. result[i].persist <=> persistErr
    BY <2>2, <2>3, Zenon
  <2>7. result[i].pass <=> faults \subseteq {"persist"}
    <3>1. (faults \cap {"prepare", "setup", "run"} # {}) <=> runErr
      BY <2>1, Zenon DEF Inv, FaultsNoted
    <3>2. "teardown" \in faults <=> tdErr
      BY Zenon DEF Inv, FaultsNoted
    <3>3. faults \subseteq {"prepare", "setup", "run", "teardown", "persist"}
      BY Zenon DEF Inv, TypeOK
    <3>4. faults \subseteq {"persist"} <=>
            faults \cap {"prepare", "setup", "run"} = {} /\ "teardown" \notin faults
      BY <3>3, Zenon
    <3> QED
      BY <3>1, <3>2, <3>4, <2>4, Zenon
  <2>8. result[i].dirty <=> "teardown" \in faults
    BY <2>5, Zenon DEF Inv, FaultsNoted
  <2>9. result[i].persist <=> "persist" \in faults
    BY <2>6, Zenon DEF Inv, FaultsNoted
  <2>10. ASSUME entered, ~result[i].dirty
         PROVE  /\ up = {} /\ stale = {}
                /\ Len(ran) = owed
                /\ \A k \in DOMAIN ran : ran[k] = Len(ran) - k + 1
    <3>1. ~tdErr /\ phase \in Ended
      BY <2>10, <2>5, <2>1, Zenon DEF Ended
    <3>2. up = {} /\ stale = {}
      BY <2>10, <3>1, Zenon DEF Inv, Undone
    <3>3. Len(ran) = owed /\ \A k \in 1..Len(ran) : ran[k] = owed - k + 1
      BY <2>10, <3>1, Zenon DEF Inv, Unwound
    <3>4. DOMAIN ran = 1..Len(ran)
      BY DEF Inv, TypeOK
    <3> QED
      BY <3>2, <3>3, <3>4, Zenon
  <2> QED
    BY <2>7, <2>8, <2>9, <2>10, Zenon
<1> QED
  BY <1>1, Invariance, PTL

\* A job with a results directory whose result reports no trouble has the
\* artifacts it is to keep, copied whole before the nodes were cleaned
\* (CollectArtifacts, ShouldCollect).
THEOREM ArtifactsAreKept == Spec => []ArtifactsKept
<1>1. Inv => ArtifactsKept
  <2> SUFFICES ASSUME Inv, NEW i \in DOMAIN result,
                      jobDir, entered, ~result[i].dirty, ~result[i].persist
               PROVE  \A n \in Node : Wanted(n) => n \in collected
    BY Zenon DEF ArtifactsKept
  <2>1. result # <<>> /\ phase \in {"send", "exit"}
    BY DEF Inv, Told
  <2>2. result = <<[pass |-> ~runErr /\ ~tdErr, dirty |-> tdErr, persist |-> persistErr]>>
    BY <2>1, Zenon DEF Inv, Told
  <2>3. i = 1
    BY <2>2
  <2>4. ~tdErr /\ ~persistErr
    BY <2>2, <2>3, Zenon
  <2> QED
    BY <2>1, <2>4, Zenon DEF Inv, Collected, Ended
<1> QED
  BY <1>1, Invariance, PTL
=============================================================================

---------------------------- MODULE DriverProofs ----------------------------
(***************************************************************************)
(* Proofs about Driver.tla, for every pool, every list of requests and     *)
(* every choice of options: its types, its ledger and its pool, the        *)
(* scheduling loop, what the recorded results say, what does not fit, and  *)
(* the refinement of NodeLease.                                            *)
(***************************************************************************)
EXTENDS Driver, FiniteSetTheorems, TLAPS

-----------------------------------------------------------------------------
(* The operators the model is built from.                                  *)

\* The number of specs of a request is a number.
LEMMA SizeType == \A r \in Requests : Size(r) \in Nat
BY CapableAssumption DEF Size

\* What matchSpecs returns is a list of nodes as long as the request.
LEMMA AssignmentType ==
  ASSUME NEW C \in SUBSET Node, NEW r \in Requests, NEW a \in Assignments(C, r)
  PROVE  /\ a \in Seq(Node)
         /\ Len(a) = Size(r)
         /\ DOMAIN a = 1..Size(r)
         /\ \A i \in 1..Size(r) : a[i] \in C
<1>1. Size(r) \in Nat
  BY SizeType, Zenon
<1>2. a \in [1..Size(r) -> C]
  BY Zenon DEF Assignments
<1>3. a \in [1..Size(r) -> Node]
  BY <1>2, Zenon
<1>4. a \in Seq(Node)
  BY <1>1, <1>3
<1> QED
  BY <1>1, <1>2, <1>4

\* More nodes to choose from never make a request unservable, which is why a
\* Free between CanAllocate and Allocate does no harm.
LEMMA AssignmentsMonotone ==
  ASSUME NEW C, NEW D, C \subseteq D, NEW r \in Requests
  PROVE  Assignments(C, r) \subseteq Assignments(D, r)
<1>1. ASSUME NEW a \in [1..Size(r) -> C]
      PROVE  a \in [1..Size(r) -> D]
  BY Zenon
<1> QED
  BY <1>1, Zenon DEF Assignments

\* Any set of nodes of the pool is finite and can be counted.
LEMMA NodesFinite ==
  ASSUME NEW S \in SUBSET Node
  PROVE  IsFiniteSet(S) /\ Cardinality(S) \in Nat
BY NodeAssumption, FS_Subset, FS_CardinalityType, Zenon

\* What the driver records for a request it does not run is a result.
LEMMA FailResultType ==
  ASSUME NEW why \in Reasons
  PROVE  FailResult(why) \in Result
BY Zenon DEF FailResult, Result, PASS, FAIL

\* What a launcher may return is a result.
LEMMA LaunchResultType == LaunchResults \subseteq Result
BY FailResultType, Zenon DEF LaunchResults, Reasons

-----------------------------------------------------------------------------
(* Type correctness.                                                       *)

\* Recording a result keeps the lists of results well typed.
LEMMA RecordType ==
  ASSUME TypeOK, NEW r \in Requests, NEW result \in Result, Record(r, result)
  PROVE  /\ recorded' \in [Requests -> Seq(Result)]
         /\ persistErr' \in BOOLEAN
         /\ runDir' \in BOOLEAN
         /\ suite' \in [over: BOOLEAN, cancelled: BOOLEAN, persistErr: BOOLEAN]
<1>1. recorded \in [Requests -> Seq(Result)]
  BY Zenon DEF TypeOK
<1>2. recorded' = [recorded EXCEPT ![r] = Append(recorded[r], result)]
  BY Zenon DEF Record
<1>3. Append(recorded[r], result) \in Seq(Result)
  BY <1>1
<1>4. recorded' \in [Requests -> Seq(Result)]
  BY <1>1, <1>2, <1>3, Zenon
<1>5. persistErr' \in BOOLEAN
  BY Zenon DEF Record, TypeOK
<1> QED
  BY <1>4, <1>5, Zenon DEF Record, TypeOK

\* Every variable keeps its type through sizing, scheduling, the goroutines'
\* steps and the end of the run.
THEOREM TypeCorrect == Spec => []TypeOK
<1>1. Init => TypeOK
  <2> SUFFICES ASSUME Init PROVE TypeOK
    BY Zenon
  <2>1. FailResult("ran") \in Result
    BY FailResultType, Zenon DEF Reasons
  <2>2. res \in [Requests -> Result] /\ recorded \in [Requests -> Seq(Result)]
    BY <2>1 DEF Init
  <2>3. sub \in [Requests -> Seq(Node)] /\ freed \in [Requests -> BOOLEAN]
        /\ run \in [Requests -> {"none", "launch", "release", "send", "sent"}]
    BY DEF Init
  <2>4. suite \in [over: BOOLEAN, cancelled: BOOLEAN, persistErr: BOOLEAN]
    BY Zenon DEF Init, NoSuite
  <2>5. unsized \in 1..(NumRequests + 1)
    BY RequestAssumption DEF Init
  <2> QED
    BY <2>2, <2>3, <2>4, <2>5, Zenon DEF Init, TypeOK
<1>2. TypeOK /\ [Next]_vars => TypeOK'
  <2> SUFFICES ASSUME TypeOK, [Next]_vars PROVE TypeOK'
    BY Zenon
  <2> USE DEF poolVars, planVars, suiteVars
  <2>1. CASE OpenRunDir
    BY <2>1, ZenonT(40) DEF OpenRunDir, TypeOK
  <2>2. CASE SizeRequest
    <3>1. unsized \in Requests
      BY <2>2, RequestAssumption DEF SizeRequest, TypeOK, Requests
    <3>2. FailResult("sizing") \in Result
      BY FailResultType, Zenon DEF Reasons
    <3>3. /\ recorded' \in [Requests -> Seq(Result)]
          /\ persistErr' \in BOOLEAN
          /\ runDir' \in BOOLEAN
          /\ suite' \in [over: BOOLEAN, cancelled: BOOLEAN, persistErr: BOOLEAN]
      <4>1. CASE Record(unsized, FailResult("sizing"))
        BY <4>1, <3>1, <3>2, RecordType, Zenon
      <4>2. CASE UNCHANGED <<recorded, persistErr, runDir, suite>>
        BY <4>2, Zenon DEF TypeOK
      <4> QED
        BY <2>2, <4>1, <4>2, Zenon DEF SizeRequest
    <3>4. unsized' \in 1..(NumRequests + 1) /\ pending' \subseteq Requests
      <4>1. unsized' = unsized + 1 /\ unsized <= NumRequests
            /\ (pending' = pending \/ pending' = pending \cup {unsized})
        BY <2>2, Zenon DEF SizeRequest
      <4>2. unsized' \in 1..(NumRequests + 1)
        BY <4>1, RequestAssumption DEF TypeOK
      <4> QED
        BY <3>1, <4>1, <4>2, Zenon DEF TypeOK
    <3>5. UNCHANGED <<pc, skipped, picked, active, stop, cancelled, exitFirst, poolVars, run, res>>
      BY <2>2, Zenon DEF SizeRequest
    <3> QED
      BY <3>3, <3>4, <3>5, Zenon DEF TypeOK
  <2>3. CASE StartLoop
    BY <2>3 DEF StartLoop, LoopTest, TypeOK
  <2>4. CASE InnerTest
    BY <2>4 DEF InnerTest, TypeOK
  <2>5. CASE ScanNext
    <3>1. 0 \notin Requests
      BY DEF Requests
    <3> QED
      BY <2>5, <3>1 DEF ScanNext, TypeOK
  <2>6. CASE ScanEnd
    BY <2>6 DEF ScanEnd, TypeOK
  <2>7. CASE LaunchPicked
    <3>1. picked \in Requests
      BY <2>7, Zenon DEF LaunchPicked, TypeOK
    <3>2. UNCHANGED <<unsized, pending, skipped, stop, cancelled, exitFirst, res>>
          /\ pc' = "inner" /\ picked' = 0
      BY <2>7, Zenon DEF LaunchPicked
    <3>3. ASSUME NEW a \in Assignments(free, picked), Allocate(picked, a),
                 active' = active + 1, run' = [run EXCEPT ![picked] = "launch"],
                 UNCHANGED suiteVars
          PROVE  TypeOK'
      <4>0. free \in SUBSET Node
        BY Zenon DEF TypeOK
      <4>1. a \in Seq(Node) /\ \A i \in 1..Size(picked) : a[i] \in free
        BY <3>1, <3>3, <4>0, AssignmentType, Zenon
      <4>2. free' \subseteq Node /\ inUse' \subseteq Node
        BY <3>3, <4>1 DEF Allocate, TypeOK
      <4>3. maxUsed' \in Nat
        BY <3>3, <4>2, NodesFinite, Zenon DEF Allocate, TypeOK
      <4>4. sub' \in [Requests -> Seq(Node)] /\ UNCHANGED freed
        BY <3>1, <3>3, <4>1, Zenon DEF Allocate, TypeOK
      <4>5. run' \in [Requests -> {"none", "launch", "release", "send", "sent"}]
        BY <3>1, <3>3, Zenon DEF TypeOK
      <4> QED
        BY <3>2, <3>3, <4>2, <4>3, <4>4, <4>5, SMTT(30) DEF TypeOK
    <3>4. ASSUME Record(picked, FailResult("allocation")), UNCHANGED <<active, run, poolVars>>
          PROVE  TypeOK'
      <4>1. FailResult("allocation") \in Result
        BY FailResultType, Zenon DEF Reasons
      <4> QED
        BY <3>1, <3>2, <3>4, <4>1, RecordType, Zenon DEF TypeOK
    <3> QED
      BY <2>7, <3>3, <3>4, Zenon DEF LaunchPicked
  <2>8. CASE BreakIdle
    BY <2>8 DEF BreakIdle, TypeOK
  <2>9. ASSUME NEW r \in Requests, Receive(r) PROVE TypeOK'
    <3>1. res[r] \in Result
      BY Zenon DEF TypeOK
    <3>2. /\ recorded' \in [Requests -> Seq(Result)]
          /\ persistErr' \in BOOLEAN
          /\ runDir' \in BOOLEAN
          /\ suite' \in [over: BOOLEAN, cancelled: BOOLEAN, persistErr: BOOLEAN]
      BY <2>9, <3>1, RecordType, Zenon DEF Receive
    <3>3. active' \in Nat
      BY <2>9 DEF Receive, TypeOK
    <3>4. stop' \in BOOLEAN
      BY <2>9, Zenon DEF Receive
    <3>5. run' \in [Requests -> {"none", "launch", "release", "send", "sent"}]
      BY <2>9, Zenon DEF Receive, TypeOK
    <3> QED
      BY <2>9, <3>2, <3>3, <3>4, <3>5, Zenon DEF Receive, LoopTest, TypeOK
  <2>10. CASE Strand
    <3>1. PICK p \in pending : pending' = pending \ {p} /\ Record(p, FailResult("stranded"))
      BY <2>10, Zenon DEF Strand
    <3>2. p \in Requests /\ FailResult("stranded") \in Result
      BY FailResultType, Zenon DEF TypeOK, Reasons
    <3>3. UNCHANGED <<pc, unsized, skipped, picked, active, stop, cancelled, exitFirst, poolVars, run, res>>
      BY <2>10, Zenon DEF Strand
    <3> QED
      BY <3>1, <3>2, <3>3, RecordType, Zenon DEF TypeOK
  <2>11. CASE Finish
    BY <2>11, Zenon DEF Finish, TypeOK
  <2>12. ASSUME NEW r \in Requests, LaunchReturns(r) PROVE TypeOK'
    BY <2>12, LaunchResultType DEF LaunchReturns, TypeOK
  <2>13. ASSUME NEW r \in Requests, Release(r) PROVE TypeOK'
    <3>1. SubNodes(r) \subseteq Node
      BY DEF SubNodes, TypeOK
    <3>2. UNCHANGED <<pc, planVars, active, stop, suiteVars, cancelled, exitFirst, res, maxUsed, sub>>
      BY <2>13, Zenon DEF Release, Evict, FreeSub
    <3>3. /\ free' \subseteq Node
          /\ inUse' \subseteq Node
          /\ freed' \in [Requests -> BOOLEAN]
      BY <2>13, <3>1, Zenon DEF Release, Evict, FreeSub, TypeOK
    <3>4. run' \in [Requests -> {"none", "launch", "release", "send", "sent"}]
      BY <2>13, Zenon DEF Release, TypeOK
    <3> QED
      BY <3>2, <3>3, <3>4 DEF TypeOK
  <2>14. CASE Cancel
    BY <2>14 DEF Cancel, TypeOK
  <2>15. CASE UNCHANGED vars
    BY <2>15 DEF vars, TypeOK
  <2> QED
    BY <2>1, <2>2, <2>3, <2>4, <2>5, <2>6, <2>7, <2>8, <2>9, <2>10, <2>11, <2>12,
       <2>13, <2>14, <2>15, SMTT(30) DEF Next, DriverStep, Terminated
<1> QED
  BY <1>1, <1>2, PTL DEF Spec

-----------------------------------------------------------------------------
(* The ledger: every request is in one place.                              *)

\* Recording the first result of a request leaves the others alone.
LEMMA RecordFirst ==
  ASSUME TypeOK, NEW r \in Requests, NEW result \in Result, Record(r, result),
         recorded[r] = <<>>
  PROVE  /\ recorded'[r] = <<result>>
         /\ Len(recorded'[r]) = 1
         /\ \A s \in Requests : s # r => recorded'[s] = recorded[s]
<1>1. recorded' = [recorded EXCEPT ![r] = Append(recorded[r], result)]
  BY Zenon DEF Record
<1>2. recorded \in [Requests -> Seq(Result)]
  BY Zenon DEF TypeOK
<1>3. recorded'[r] = Append(<<>>, result)
  BY <1>1, <1>2, Zenon
<1>4. Append(<<>>, result) = <<result>> /\ Len(<<result>>) = 1
  OBVIOUS
<1> QED
  BY <1>1, <1>2, <1>3, <1>4, Zenon

\* Before the sizing loop every request is waiting.
LEMMA LedgerInit == Init => LedgerInv
<1> SUFFICES ASSUME Init PROVE LedgerInv
  BY Zenon
<1>1. \A r \in Requests : r >= unsized /\ run[r] = "none" /\ recorded[r] = <<>>
  BY DEF Init, Requests
<1> QED
  BY <1>1 DEF Init, LedgerInv, Waiting, Live

\* Sizing, launching, receiving and stranding move a request from one place
\* to the next and leave it nowhere else.
LEMMA LedgerStep == TypeOK /\ LedgerInv /\ [Next]_vars => LedgerInv'
<1> SUFFICES ASSUME TypeOK, LedgerInv, [Next]_vars PROVE LedgerInv'
  BY Zenon
<1> USE DEF poolVars, planVars, suiteVars
<1>1. CASE OpenRunDir
  BY <1>1, Zenon DEF OpenRunDir, LedgerInv, Waiting, Live
<1>2. CASE SizeRequest
  <2>1. unsized \in Requests /\ unsized \in Nat /\ unsized' = unsized + 1
    BY <1>2, RequestAssumption DEF SizeRequest, TypeOK, Requests
  <2>2. recorded[unsized] = <<>> /\ run[unsized] = "none" /\ unsized \notin pending /\ unsized # picked
    BY <2>1 DEF LedgerInv, Waiting
  <2>3. UNCHANGED <<pc, picked, run>> /\ pc = "size"
    BY <1>2, Zenon DEF SizeRequest
  <2>4. Requests \subseteq Nat /\ picked \in Nat
    BY DEF Requests, TypeOK
  <2>5. CASE Record(unsized, FailResult("sizing")) /\ UNCHANGED pending
    <3>1. FailResult("sizing") \in Result
      BY FailResultType, Zenon DEF Reasons
    <3>2. /\ Len(recorded'[unsized]) = 1
          /\ \A s \in Requests : s # unsized => recorded'[s] = recorded[s]
      BY <2>1, <2>2, <2>5, <3>1, RecordFirst, Zenon
    <3>3. \A s \in Requests : Waiting(s)' <=> Waiting(s) /\ s # unsized
      BY <2>1, <2>2, <2>3, <2>4, <2>5 DEF Waiting
    <3>4. Live' = Live /\ unsized \notin Live
      BY <2>2, <2>3, Zenon DEF Live
    <3>5. ASSUME NEW s \in Requests, s \in pending' PROVE s < unsized' /\ s # picked'
      <4>1. s \in Nat /\ s < unsized /\ s # picked
        BY <2>4, <2>5, <3>5, Zenon DEF LedgerInv
      <4> QED
        BY <4>1, <2>1, <2>3
    <3>6. picked' < unsized' /\ pc' = "size"
      BY <2>1, <2>3, <2>4 DEF LedgerInv
    <3>7. \A s \in Requests : Waiting(s)' => run'[s] = "none" /\ recorded'[s] = <<>>
      BY <2>3, <3>2, <3>3, Zenon DEF LedgerInv
    <3>8. \A s \in Live' : recorded'[s] = <<>>
      BY <3>2, <3>4, Zenon DEF LedgerInv, Live
    <3>9. \A s \in Requests : ~Waiting(s)' /\ s \notin Live' => Len(recorded'[s]) = 1
      BY <3>2, <3>3, <3>4, Zenon DEF LedgerInv
    <3> QED
      BY <3>5, <3>6, <3>7, <3>8, <3>9, Zenon DEF LedgerInv
  <2>6. CASE pending' = pending \cup {unsized} /\ UNCHANGED suiteVars
    <3>1. \A s \in Requests : Waiting(s)' <=> Waiting(s)
      BY <2>1, <2>3, <2>4, <2>6 DEF Waiting
    <3>2. Live' = Live /\ recorded' = recorded /\ run' = run
      BY <2>3, <2>6, Zenon DEF Live
    <3>3. ASSUME NEW s \in Requests, s \in pending' PROVE s < unsized' /\ s # picked'
      <4>1. s \in Nat /\ (s = unsized \/ (s < unsized /\ s # picked))
        BY <2>4, <2>6, <3>3, Zenon DEF LedgerInv
      <4> QED
        BY <4>1, <2>1, <2>2, <2>3
    <3>4. picked' < unsized' /\ pc' = "size"
      BY <2>1, <2>3, <2>4 DEF LedgerInv
    <3> QED
      BY <3>1, <3>2, <3>3, <3>4, Zenon DEF LedgerInv
  <2> QED
    BY <1>2, <2>5, <2>6, Zenon DEF SizeRequest
<1>3. CASE StartLoop
  <2>1. unsized = NumRequests + 1
    BY <1>3, RequestAssumption DEF StartLoop, TypeOK
  <2> QED
    BY <1>3, <2>1, Zenon DEF StartLoop, LedgerInv, Waiting, Live
<1>4. CASE InnerTest
  BY <1>4, Zenon DEF InnerTest, LedgerInv, Waiting, Live
<1>5. CASE ScanNext
  <2>1. Requests \subseteq Nat /\ picked = 0 /\ 0 \notin Requests
    BY <1>5 DEF ScanNext, TypeOK, Requests
  <2>2. UNCHANGED <<unsized, recorded, run>>
    BY <1>5, Zenon DEF ScanNext
  <2>3. CASE UNCHANGED <<pc, picked, pending>>
    BY <2>2, <2>3, Zenon DEF LedgerInv, Waiting, Live
  <2>4. ASSUME NEW p \in pending, pc' = "allocate", picked' = p, pending' = pending \ {p}
        PROVE  LedgerInv'
    BY <1>5, <2>1, <2>2, <2>4 DEF ScanNext, LedgerInv, Waiting, Live, TypeOK
  <2> QED
    BY <1>5, <2>3, <2>4, Zenon DEF ScanNext
<1>6. CASE ScanEnd
  BY <1>6, Zenon DEF ScanEnd, LedgerInv, Waiting, Live
<1>7. CASE LaunchPicked
  <2>1. picked \in Requests /\ 0 \notin Requests
    BY <1>7 DEF LaunchPicked, TypeOK, Requests
  <2>2. UNCHANGED <<unsized, pending>> /\ pc' = "inner" /\ picked' = 0 /\ pc = "allocate"
    BY <1>7, Zenon DEF LaunchPicked
  <2>3. recorded[picked] = <<>> /\ run[picked] = "none" /\ picked \notin pending
        /\ ~(picked >= unsized) /\ unsized \in Nat /\ 0 < unsized
    BY <2>1 DEF LedgerInv, Waiting, TypeOK, Requests
  <2>4. CASE run' = [run EXCEPT ![picked] = "launch"] /\ UNCHANGED suiteVars
    BY <2>1, <2>2, <2>3, <2>4 DEF LedgerInv, Waiting, Live, TypeOK
  <2>5. CASE Record(picked, FailResult("allocation")) /\ UNCHANGED run
    <3>1. FailResult("allocation") \in Result
      BY FailResultType, Zenon DEF Reasons
    <3>2. /\ Len(recorded'[picked]) = 1
          /\ \A s \in Requests : s # picked => recorded'[s] = recorded[s]
      BY <2>1, <2>3, <2>5, <3>1, RecordFirst, Zenon
    <3> QED
      BY <2>1, <2>2, <2>3, <2>5, <3>2, Zenon DEF LedgerInv, Waiting, Live, TypeOK
  <2> QED
    BY <1>7, <2>4, <2>5, Zenon DEF LaunchPicked
<1>8. CASE BreakIdle
  BY <1>8, Zenon DEF BreakIdle, LedgerInv, Waiting, Live
<1>9. ASSUME NEW r \in Requests, Receive(r) PROVE LedgerInv'
  <2>1. res[r] \in Result /\ recorded[r] = <<>> /\ run[r] = "send" /\ ~Waiting(r)
    BY <1>9, Zenon DEF Receive, LedgerInv, TypeOK, Live
  <2>2. Len(recorded'[r]) = 1 /\ \A s \in Requests : s # r => recorded'[s] = recorded[s]
    BY <1>9, <2>1, RecordFirst, Zenon DEF Receive
  <2>3. UNCHANGED planVars /\ run' = [run EXCEPT ![r] = "sent"] /\ pc = "wait"
    BY <1>9, Zenon DEF Receive
  <2> QED
    BY <2>1, <2>2, <2>3 DEF LedgerInv, Waiting, Live, TypeOK
<1>10. CASE Strand
  <2>1. PICK p \in pending : pending' = pending \ {p} /\ Record(p, FailResult("stranded"))
    BY <1>10, Zenon DEF Strand
  <2>2. p \in Requests /\ FailResult("stranded") \in Result
    BY FailResultType, Zenon DEF TypeOK, Reasons
  <2>3. UNCHANGED <<pc, unsized, picked, run>>
    BY <1>10, Zenon DEF Strand
  <2>4. recorded[p] = <<>> /\ run[p] = "none" /\ p < unsized /\ p # picked
    BY <2>2, Zenon DEF LedgerInv, Waiting
  <2>5. Len(recorded'[p]) = 1 /\ \A s \in Requests : s # p => recorded'[s] = recorded[s]
    BY <2>1, <2>2, <2>4, RecordFirst, Zenon
  <2>6. ~(p >= unsized)
    BY <2>2, <2>4 DEF TypeOK, Requests
  <2> QED
    BY <2>1, <2>2, <2>3, <2>4, <2>5, <2>6, Zenon DEF LedgerInv, Waiting, Live
<1>11. CASE Finish
  BY <1>11, Zenon DEF Finish, LedgerInv, Waiting, Live
<1>12. ASSUME NEW r \in Requests, LaunchReturns(r) PROVE LedgerInv'
  BY <1>12 DEF LaunchReturns, LedgerInv, Waiting, Live, TypeOK
<1>13. ASSUME NEW r \in Requests, Release(r) PROVE LedgerInv'
  <2>1. UNCHANGED <<pc, planVars, suiteVars>> /\ run[r] = "release" /\ run' = [run EXCEPT ![r] = "send"]
    BY <1>13, Zenon DEF Release
  <2> QED
    BY <2>1 DEF LedgerInv, Waiting, Live, TypeOK
<1>14. CASE Cancel
  BY <1>14, Zenon DEF Cancel, LedgerInv, Waiting, Live
<1>15. CASE UNCHANGED vars
  BY <1>15, Zenon DEF vars, LedgerInv, Waiting, Live
<1> QED
  BY <1>1, <1>2, <1>3, <1>4, <1>5, <1>6, <1>7, <1>8, <1>9, <1>10, <1>11, <1>12,
     <1>13, <1>14, <1>15, SMTT(30) DEF Next, DriverStep, Terminated

-----------------------------------------------------------------------------
(* The pool: where every node is.                                          *)

\* A new pool has all of its nodes free.
LEMMA PoolInit == Init => PoolInv
<1> SUFFICES ASSUME Init PROVE PoolInv
  BY Zenon
<1>1. Holding = {} /\ Dirty = {}
  BY Zenon DEF Init, Holding, Dirty
<1>2. Cardinality({}) = 0
  BY FS_EmptySet, Zenon
<1> QED
  BY <1>1, <1>2 DEF Init, PoolInv, NodesExclusive

\* A step that moves no node and changes neither who holds nodes nor who left
\* them dirty.
LEMMA PoolSame ==
  ASSUME PoolInv, UNCHANGED poolVars, Holding' = Holding, Dirty' = Dirty,
         \A s \in Requests : run'[s] \in {"none", "launch", "release"}
                             => run[s] \in {"none", "launch", "release"}
  PROVE  PoolInv'
<1>1. \A s : SubNodes(s)' = SubNodes(s)
  BY Zenon DEF SubNodes, poolVars
<1>2. NodesExclusive'
  BY <1>1, Zenon DEF PoolInv, NodesExclusive, poolVars
<1> QED
  BY <1>1, <1>2, Zenon DEF PoolInv, poolVars

\* Allocate takes free nodes and nobody else's.
LEMMA PoolLaunch ==
  ASSUME TypeOK, PoolInv, NEW p \in Requests, run[p] = "none",
         NEW a \in Assignments(free, p), Allocate(p, a),
         run' = [run EXCEPT ![p] = "launch"], UNCHANGED res
  PROVE  PoolInv'
<1> DEFINE S == {a[i] : i \in 1..Size(p)}
<1>0. free \in SUBSET Node /\ inUse \in SUBSET Node /\ Node \in SUBSET Node
  BY Zenon DEF TypeOK
<1>1. /\ a \in Seq(Node) /\ Len(a) = Size(p) /\ DOMAIN a = 1..Size(p)
      /\ \A i \in 1..Size(p) : a[i] \in free
  BY <1>0, AssignmentType, Zenon
<1>2. S \subseteq free
  BY <1>1, Zenon
<1>3. /\ sub' = [sub EXCEPT ![p] = a] /\ UNCHANGED freed
      /\ inUse' = inUse \cup S /\ free' = free \ S
      /\ maxUsed' = IF Cardinality(inUse') > maxUsed THEN Cardinality(inUse') ELSE maxUsed
  BY Zenon DEF Allocate
<1>4. SubNodes(p)' = S /\ \A s \in Requests : s # p => SubNodes(s)' = SubNodes(s)
  <2>1. sub'[p] = a /\ \A s \in Requests : s # p => sub'[s] = sub[s]
    BY <1>3, Zenon DEF TypeOK
  <2>2. SubNodes(p)' = {a[i] : i \in DOMAIN a}
    BY <2>1, Zenon DEF SubNodes
  <2>3. \A s \in Requests : s # p => SubNodes(s)' = SubNodes(s)
    BY <2>1, Zenon DEF SubNodes
  <2> QED
    BY <2>2, <2>3, <1>1, Zenon
<1> HIDE DEF S
<1>5. Holding' = Holding \cup {p} /\ p \notin Holding
  BY DEF Holding, TypeOK
<1>6. Dirty' = Dirty /\ p \notin Dirty
  BY Zenon DEF Dirty, TypeOK
<1>7. \A s \in Requests : run'[s] \in {"none", "launch", "release"} => ~freed'[s]
  BY <1>3, Zenon DEF PoolInv, TypeOK
<1>8. \A n \in Node : n \in inUse' <=> \E s \in Holding' : n \in SubNodes(s)'
  <2> TAKE n \in Node
  <2>1. CASE n \in S
    BY <2>1, <1>3, <1>4, <1>5, Zenon
  <2>2. CASE n \notin S
    <3>1. n \in inUse' <=> n \in inUse
      BY <2>2, <1>3, Zenon
    <3>2. n \in inUse <=> \E s \in Holding : n \in SubNodes(s)
      BY Zenon DEF PoolInv
    <3> QED
      BY <2>2, <3>1, <3>2, <1>4, <1>5, Zenon DEF Holding
  <2> QED
    BY <2>1, <2>2, Zenon
<1>9. \A n \in Node : n \notin free' \cup inUse' <=> \E s \in Dirty' : n \in SubNodes(s)'
  <2>1. free' \cup inUse' = free \cup inUse
    BY <1>2, <1>3, Zenon
  <2>2. \A s \in Dirty : SubNodes(s)' = SubNodes(s)
    BY <1>4, <1>6, Zenon DEF Dirty
  <2> QED
    BY <2>1, <2>2, <1>6 DEF PoolInv
<1>10. free' \cap inUse' = {}
  BY <1>2, <1>3, Zenon DEF PoolInv
<1>11. Cardinality(inUse') <= maxUsed'
  <2>1. inUse' \in SUBSET Node
    BY <1>0, <1>2, <1>3, Zenon
  <2>2. Cardinality(inUse') \in Nat /\ maxUsed \in Nat
    BY <2>1, NodesFinite, Zenon DEF TypeOK
  <2> QED
    BY <1>3, <2>2
<1>12. NodesExclusive'
  <2>1. ASSUME NEW r \in Holding', NEW s \in Holding', r # s
        PROVE  SubNodes(r)' \cap SubNodes(s)' = {}
    <3>1. \A q \in Holding : SubNodes(q) \cap S = {}
      <4>1. ASSUME NEW q \in Holding, NEW n \in SubNodes(q), n \in S PROVE FALSE
        <5>1. n \in free /\ n \in Node
          BY <4>1, <1>2, <1>0, Zenon
        <5>2. n \in inUse
          BY <4>1, <5>1, Zenon DEF PoolInv
        <5> QED
          BY <5>1, <5>2, Zenon DEF PoolInv
      <4> QED
        BY <4>1, Zenon
    <3>2. \A q \in Holding : SubNodes(q)' = SubNodes(q)
      BY <1>4, <1>5, Zenon DEF Holding
    <3>3. CASE r = p
      BY <3>1, <3>2, <3>3, <2>1, <1>4, <1>5
    <3>4. CASE s = p
      BY <3>1, <3>2, <3>4, <2>1, <1>4, <1>5, Zenon
    <3>5. CASE r # p /\ s # p
      BY <3>2, <3>5, <2>1, <1>5, Zenon DEF PoolInv, NodesExclusive
    <3> QED
      BY <3>3, <3>4, <3>5, Zenon
  <2>2. ASSUME NEW r \in Holding'
        PROVE  /\ Len(sub'[r]) = Size(r)
               /\ \A i \in 1..Size(r) : sub'[r][i] \in Capable[r][i]
               /\ \A i, j \in 1..Size(r) : sub'[r][i] = sub'[r][j] => i = j
    <3>1. CASE r = p
      <4>1. sub'[r] = a
        BY <3>1, <1>3, Zenon DEF TypeOK
      <4>2. /\ \A i \in 1..Size(r) : a[i] \in Capable[r][i]
            /\ \A i, j \in 1..Size(r) : a[i] = a[j] => i = j
        BY <3>1, Zenon DEF Assignments
      <4> QED
        BY <3>1, <4>1, <4>2, <1>1
    <3>2. CASE r # p
      <4>1. r \in Holding /\ r \in Requests
        BY <3>2, <2>2, <1>5, Zenon DEF Holding
      <4>2. sub'[r] = sub[r]
        BY <3>2, <4>1, <1>3, Zenon DEF TypeOK
      <4> QED
        BY <4>1, <4>2, Zenon DEF PoolInv, NodesExclusive
    <3> QED
      BY <3>1, <3>2, Zenon
  <2> QED
    BY <2>1, <2>2, Zenon DEF NodesExclusive
<1> QED
  BY <1>7, <1>8, <1>9, <1>10, <1>11, <1>12, Zenon DEF PoolInv

\* Free and Evict give up exactly what the goroutine holds.
LEMMA PoolRelease ==
  ASSUME TypeOK, PoolInv, NEW r \in Requests, Release(r)
  PROVE  PoolInv'
<1>1. run[r] = "release" /\ run' = [run EXCEPT ![r] = "send"] /\ UNCHANGED res /\ ~freed[r]
  BY Zenon DEF Release, PoolInv
<1>2. /\ freed' = [freed EXCEPT ![r] = TRUE]
      /\ inUse' = inUse \ SubNodes(r)
      /\ free' = IF res[r].dirty THEN free ELSE free \cup SubNodes(r)
      /\ UNCHANGED <<maxUsed, sub>>
  BY <1>1, Zenon DEF Release, Evict, FreeSub
<1>3. \A s : SubNodes(s)' = SubNodes(s)
  BY <1>2, Zenon DEF SubNodes
<1>4. Holding' = Holding \ {r} /\ r \in Holding
  BY <1>1, Zenon DEF Holding, TypeOK
<1>5. Dirty' = (IF res[r].dirty THEN Dirty \cup {r} ELSE Dirty) /\ r \notin Dirty
  BY <1>1 DEF Dirty, TypeOK
<1>6. SubNodes(r) \subseteq Node /\ SubNodes(r) \subseteq inUse
  <2>1. SubNodes(r) \subseteq Node
    BY DEF SubNodes, TypeOK
  <2> QED
    BY <2>1, <1>4, Zenon DEF PoolInv
<1>7. \A s \in Requests : run'[s] \in {"none", "launch", "release"} => ~freed'[s]
  BY <1>1, <1>2, Zenon DEF PoolInv, TypeOK
<1>8. \A n \in Node : n \in inUse' <=> \E s \in Holding' : n \in SubNodes(s)'
  BY <1>2, <1>3, <1>4, Zenon DEF PoolInv, NodesExclusive
<1>9. \A n \in Node : n \notin free' \cup inUse' <=> \E s \in Dirty' : n \in SubNodes(s)'
  <2> TAKE n \in Node
  <2>1. n \notin free \cup inUse <=> \E s \in Dirty : n \in SubNodes(s)
    BY Zenon DEF PoolInv
  <2>2. free \cap inUse = {}
    BY Zenon DEF PoolInv
  <2>3. CASE res[r].dirty
    BY <2>1, <2>2, <2>3, <1>2, <1>3, <1>5, <1>6, Zenon
  <2>4. CASE ~res[r].dirty
    BY <2>1, <2>2, <2>4, <1>2, <1>3, <1>5, <1>6, Zenon
  <2> QED
    BY <2>3, <2>4, Zenon
<1>10. free' \cap inUse' = {}
  BY <1>2, Zenon DEF PoolInv
<1>11. Cardinality(inUse') <= maxUsed'
  <2>1. inUse' \subseteq inUse /\ inUse \in SUBSET Node /\ inUse' \in SUBSET Node
    BY <1>2, Zenon DEF TypeOK
  <2>2. Cardinality(inUse') <= Cardinality(inUse)
    BY <2>1, NodesFinite, FS_Subset, Zenon
  <2>3. Cardinality(inUse) \in Nat /\ Cardinality(inUse') \in Nat /\ maxUsed \in Nat
    BY <2>1, NodesFinite, Zenon DEF TypeOK
  <2> QED
    BY <1>2, <2>2, <2>3 DEF PoolInv
<1>12. NodesExclusive'
  BY <1>2, <1>3, <1>4, Zenon DEF PoolInv, NodesExclusive
<1> QED
  BY <1>7, <1>8, <1>9, <1>10, <1>11, <1>12, Zenon DEF PoolInv

\* Every step keeps each node free, in use or quarantined for cause.
LEMMA PoolStep == TypeOK /\ LedgerInv /\ PoolInv /\ [Next]_vars => PoolInv'
<1> SUFFICES ASSUME TypeOK, LedgerInv, PoolInv, [Next]_vars PROVE PoolInv'
  BY Zenon
<1>1. CASE UNCHANGED <<poolVars, run, res>>
  BY <1>1, PoolSame, Zenon DEF Holding, Dirty
<1>2. CASE LaunchPicked
  <2>1. picked \in Requests /\ run[picked] = "none"
    BY <1>2, Zenon DEF LaunchPicked, TypeOK, LedgerInv, Waiting
  <2>2. UNCHANGED res
    BY <1>2, Zenon DEF LaunchPicked
  <2>3. CASE UNCHANGED <<active, run, poolVars>>
    BY <2>2, <2>3, <1>1, Zenon
  <2>4. PICK p \in Requests : p = picked
    BY <2>1, Zenon
  <2>5. ASSUME NEW a \in Assignments(free, p), Allocate(p, a),
               run' = [run EXCEPT ![p] = "launch"]
        PROVE  PoolInv'
    BY <2>1, <2>2, <2>4, <2>5, PoolLaunch, Zenon
  <2> QED
    BY <1>2, <2>3, <2>4, <2>5, Zenon DEF LaunchPicked
<1>3. ASSUME NEW r \in Requests, Receive(r) PROVE PoolInv'
  <2>1. run[r] = "send" /\ run' = [run EXCEPT ![r] = "sent"] /\ UNCHANGED <<poolVars, res>>
    BY <1>3, Zenon DEF Receive
  <2>2. Holding' = Holding /\ Dirty' = Dirty
    BY <2>1, Zenon DEF Holding, Dirty, TypeOK
  <2> QED
    BY <2>1, <2>2, PoolSame, Zenon DEF TypeOK
<1>4. ASSUME NEW r \in Requests, LaunchReturns(r) PROVE PoolInv'
  <2>1. run[r] = "launch" /\ run' = [run EXCEPT ![r] = "release"] /\ UNCHANGED poolVars
        /\ \A s \in Requests : s # r => res'[s] = res[s]
    BY <1>4, Zenon DEF LaunchReturns, TypeOK
  <2>2. Holding' = Holding /\ Dirty' = Dirty
    BY <2>1, Zenon DEF Holding, Dirty, TypeOK
  <2> QED
    BY <2>1, <2>2, PoolSame, Zenon DEF TypeOK
<1>5. ASSUME NEW r \in Requests, Release(r) PROVE PoolInv'
  BY <1>5, PoolRelease, Zenon
<1>6. CASE OpenRunDir \/ SizeRequest \/ StartLoop \/ InnerTest \/ ScanNext \/ ScanEnd
           \/ BreakIdle \/ Strand \/ Finish \/ Cancel \/ UNCHANGED vars
  BY <1>1, <1>6, Zenon DEF OpenRunDir, SizeRequest, StartLoop, InnerTest, ScanNext, ScanEnd,
                    BreakIdle, Strand, Finish, Cancel, vars
<1> QED
  BY <1>2, <1>3, <1>4, <1>5, <1>6, Zenon DEF Next, DriverStep, Terminated

-----------------------------------------------------------------------------
(* The scheduling loop.                                                    *)

\* A limit below one is raised to one (driver.go).
LEMMA MaxParallelType == MaxParallel \in Nat /\ MaxParallel >= 1
BY OptionAssumption DEF MaxParallel

\* There are finitely many requests, so goroutines can be counted.
LEMMA RequestsFinite ==
  ASSUME NEW S \in SUBSET Requests
  PROVE  IsFiniteSet(S) /\ Cardinality(S) \in Nat
<1>1. IsFiniteSet(Requests)
  BY RequestAssumption, FS_Interval DEF Requests
<1> QED
  BY <1>1, FS_Subset, FS_CardinalityType, Zenon

\* A step that leaves the goroutines, the pool and the suite alone.
LEMMA LiveSame ==
  ASSUME UNCHANGED run
  PROVE  Live' = Live
BY Zenon DEF Live

\* The driver starts with nothing active.
LEMMA LoopInit == Init => LoopInv
<1> SUFFICES ASSUME Init PROVE LoopInv
  BY Zenon
<1>1. Live = {}
  BY Zenon DEF Init, Live
<1>2. Cardinality({}) = 0
  BY FS_EmptySet, Zenon
<1> QED
  BY <1>1, <1>2, MaxParallelType DEF Init, LoopInv, NoSuite

\* A launch adds one to active and a received result takes one away.
LEMMA LoopStep == TypeOK /\ LedgerInv /\ PoolInv /\ LoopInv /\ [Next]_vars => LoopInv'
<1> SUFFICES ASSUME TypeOK, LedgerInv, PoolInv, LoopInv, [Next]_vars PROVE LoopInv'
  BY Zenon
<1> USE DEF poolVars, planVars, suiteVars
<1>1. CASE OpenRunDir
  BY <1>1, LiveSame, Zenon DEF OpenRunDir, LoopInv
<1>2. CASE SizeRequest
  <2>1. UNCHANGED <<pc, active, stop, run, suite, cancelled>> /\ pc = "size"
    BY <1>2, Zenon DEF SizeRequest, Record
  <2> QED
    BY <2>1, LiveSame, Zenon DEF LoopInv
<1>3. CASE StartLoop
  BY <1>3, LiveSame, Zenon DEF StartLoop, LoopTest, LoopInv
<1>4. CASE InnerTest
  BY <1>4, LiveSame, Zenon DEF InnerTest, LoopInv
<1>5. CASE ScanNext
  <2>1. UNCHANGED <<active, stop, run, suiteVars, cancelled, free>> /\ pc = "scan"
    BY <1>5, Zenon DEF ScanNext
  <2>2. \/ pc' = "scan"
        \/ pc' = "allocate" /\ \E p \in Requests : picked' = p /\ Assignments(free, p) # {}
    BY <1>5, Zenon DEF ScanNext, CanAllocate, TypeOK
  <2>3. pc' = "allocate" => Assignments(free, picked)' # {}
    BY <2>1, <2>2, Zenon DEF Assignments
  <2> QED
    BY <2>1, <2>2, <2>3, LiveSame, Zenon DEF LoopInv
<1>6. CASE ScanEnd
  BY <1>6, LiveSame, Zenon DEF ScanEnd, LoopInv
<1>7. CASE LaunchPicked
  <2>1. picked \in Requests /\ run[picked] = "none"
    BY <1>7, Zenon DEF LaunchPicked, TypeOK, LedgerInv, Waiting
  <2>2. pc = "allocate" /\ pc' = "inner" /\ UNCHANGED <<stop, cancelled>>
    BY <1>7, Zenon DEF LaunchPicked
  <2>3. active' = active + 1 /\ run' = [run EXCEPT ![picked] = "launch"] /\ UNCHANGED suiteVars
    BY <1>7, <2>2, Zenon DEF LaunchPicked, LoopInv
  <2>4. Live' = Live \cup {picked} /\ picked \notin Live
    BY <2>1, <2>3 DEF Live, TypeOK
  <2>5. Cardinality(Live') = Cardinality(Live) + 1
    <3>1. Live \in SUBSET Requests
      BY Zenon DEF Live
    <3> QED
      BY <2>4, <3>1, RequestsFinite, FS_AddElement, Zenon
  <2>6. active < MaxParallel /\ active \in Nat
    BY <2>2, Zenon DEF LoopInv, TypeOK
  <2> QED
    BY <2>2, <2>3, <2>5, <2>6, MaxParallelType DEF LoopInv
<1>8. CASE BreakIdle
  BY <1>8, LiveSame, Zenon DEF BreakIdle, LoopInv
<1>9. ASSUME NEW r \in Requests, Receive(r) PROVE LoopInv'
  <2>1. /\ run[r] = "send" /\ run' = [run EXCEPT ![r] = "sent"] /\ active' = active - 1
        /\ pc = "wait" /\ pc' = LoopTest(pending, active') /\ UNCHANGED <<cancelled, suite>>
    BY <1>9, Zenon DEF Receive, Record
  <2>2. Live' = Live \ {r} /\ r \in Live
    BY <2>1, Zenon DEF Live, TypeOK
  <2>3. Cardinality(Live') = Cardinality(Live) - 1
    <3>1. Live \in SUBSET Requests
      BY Zenon DEF Live
    <3> QED
      BY <2>2, <3>1, RequestsFinite, FS_RemoveElement, Zenon
  <2>4. active \in Nat
    BY Zenon DEF TypeOK
  <2> QED
    BY <2>1, <2>3, <2>4, MaxParallelType DEF LoopInv, LoopTest
<1>10. CASE Strand
  <2>1. UNCHANGED <<pc, active, stop, run, suite, cancelled>> /\ pc = "drain"
    BY <1>10, Zenon DEF Strand, Record
  <2> QED
    BY <2>1, LiveSame, Zenon DEF LoopInv
<1>11. CASE Finish
  BY <1>11, LiveSame, Zenon DEF Finish, LoopInv
<1>12. ASSUME NEW r \in Requests, LaunchReturns(r) PROVE LoopInv'
  <2>1. Live' = Live
    BY <1>12, Zenon DEF LaunchReturns, Live, TypeOK
  <2> QED
    BY <1>12, <2>1 DEF LaunchReturns, LoopInv, Assignments
<1>13. ASSUME NEW r \in Requests, Release(r) PROVE LoopInv'
  <2>1. Live' = Live
    BY <1>13, Zenon DEF Release, Live, TypeOK
  <2>2. UNCHANGED <<pc, planVars, active, stop, suiteVars, cancelled>>
    BY <1>13, Zenon DEF Release
  <2>3. free \subseteq free'
    BY <1>13, Zenon DEF Release, Evict, FreeSub
  <2>4. pc = "allocate" => Assignments(free', picked) # {}
    <3>1. CASE pc = "allocate"
      <4>1. picked \in Requests /\ Assignments(free, picked) # {}
        BY <3>1, Zenon DEF TypeOK, LoopInv
      <4> QED
        BY <4>1, <2>3, AssignmentsMonotone, Zenon
    <3> QED
      BY <3>1, Zenon
  <2>5. Assignments(free, picked)' = Assignments(free', picked)
    BY <2>2, Zenon DEF Assignments
  <2> QED
    BY <2>1, <2>2, <2>4, <2>5, Zenon DEF LoopInv
<1>14. CASE Cancel
  <2>1. UNCHANGED <<pc, planVars, active, stop, suiteVars, poolVars, run>> /\ pc # "done"
    BY <1>14, Zenon DEF Cancel
  <2>2. Assignments(free, picked)' = Assignments(free, picked)
    BY <2>1, Zenon DEF Assignments
  <2> QED
    BY <2>1, <2>2, LiveSame, Zenon DEF LoopInv
<1>15. CASE UNCHANGED vars
  <2>1. Assignments(free, picked)' = Assignments(free, picked)
    BY <1>15, Zenon DEF Assignments, vars
  <2> QED
    BY <1>15, <2>1, LiveSame, Zenon DEF vars, LoopInv
<1> QED
  BY <1>1, <1>2, <1>3, <1>4, <1>5, <1>6, <1>7, <1>8, <1>9, <1>10, <1>11, <1>12,
     <1>13, <1>14, <1>15, ZenonT(40) DEF Next, DriverStep, Terminated

-----------------------------------------------------------------------------
(* What the recorded results say.                                          *)

\* Nothing is recorded at first.
LEMMA OutcomeInit == Init => OutcomeInv
<1> SUFFICES ASSUME Init PROVE OutcomeInv
  BY Zenon
<1>1. ~stop /\ \A r \in Requests : run[r] = "none" /\ recorded[r] = <<>> /\ res[r].why = "ran"
  BY Zenon DEF Init, FailResult
<1> QED
  BY <1>1, Zenon DEF OutcomeInv

\* A step that records nothing and ends no goroutine.
LEMMA OutcomeSame ==
  ASSUME TypeOK, OutcomeInv, UNCHANGED <<recorded, run, res, stop, exitFirst>>,
         cancelled => cancelled'
  PROVE  OutcomeInv'
BY Zenon DEF OutcomeInv, TypeOK

\* A step that fails a request without running it.
LEMMA OutcomeFail ==
  ASSUME TypeOK, OutcomeInv, UNCHANGED <<run, res, stop, cancelled, exitFirst>>,
         NEW p \in Requests, run[p] = "none", recorded[p] = <<>>,
         NEW why \in Reasons \ {"ran"}, Record(p, FailResult(why))
  PROVE  OutcomeInv'
<1>1. FailResult(why) \in Result
  BY FailResultType, Zenon
<1>2. /\ recorded'[p] = <<FailResult(why)>>
      /\ \A s \in Requests : s # p => recorded'[s] = recorded[s]
  BY <1>1, RecordFirst, Zenon
<1>3. recorded'[p][1].status = FAIL /\ recorded'[p][1].why # "ran"
  BY <1>2 DEF FailResult
<1> QED
  BY <1>2, <1>3 DEF OutcomeInv

\* A result is recorded as it was sent, and stop is set for cause.
LEMMA OutcomeStep ==
  TypeOK /\ LedgerInv /\ LoopInv /\ OutcomeInv /\ [Next]_vars => OutcomeInv'
<1> SUFFICES ASSUME TypeOK, LedgerInv, LoopInv, OutcomeInv, [Next]_vars PROVE OutcomeInv'
  BY Zenon
<1> USE DEF poolVars, planVars, suiteVars
<1>1. CASE OpenRunDir \/ StartLoop \/ InnerTest \/ ScanNext \/ ScanEnd \/ BreakIdle \/ Finish
           \/ Cancel \/ UNCHANGED vars
  BY <1>1, OutcomeSame DEF OpenRunDir, StartLoop, InnerTest, ScanNext, ScanEnd, BreakIdle,
                           Finish, Cancel, vars
<1>2. CASE SizeRequest
  <2>1. UNCHANGED <<run, res, stop, cancelled, exitFirst>>
    BY <1>2, Zenon DEF SizeRequest
  <2>2. PICK p \in Requests : p = unsized
    BY <1>2, RequestAssumption DEF SizeRequest, TypeOK, Requests
  <2>3. run[p] = "none" /\ recorded[p] = <<>>
    BY <2>2 DEF LedgerInv, Waiting, TypeOK, Requests
  <2>4. CASE UNCHANGED suiteVars
    BY <2>1, <2>4, OutcomeSame, Zenon
  <2>5. CASE Record(p, FailResult("sizing"))
    BY <2>1, <2>3, <2>5, OutcomeFail, Zenon DEF Reasons
  <2> QED
    BY <1>2, <2>2, <2>4, <2>5, Zenon DEF SizeRequest
<1>3. CASE LaunchPicked
  <2>1. picked \in Requests /\ run[picked] = "none"
    BY <1>3, Zenon DEF LaunchPicked, TypeOK, LedgerInv, Waiting
  <2>2. UNCHANGED <<recorded, res, stop, cancelled, exitFirst>> /\ run' = [run EXCEPT ![picked] = "launch"]
    BY <1>3, Zenon DEF LaunchPicked, LoopInv
  <2>3. \A s \in Requests : /\ run'[s] = "sent" <=> run[s] = "sent"
                            /\ run'[s] = "none" => run[s] = "none"
    BY <2>1, <2>2, Zenon DEF TypeOK
  <2> QED
    BY <2>2, <2>3, Zenon DEF OutcomeInv
<1>4. ASSUME NEW r \in Requests, Receive(r) PROVE OutcomeInv'
  <2>1. /\ run[r] = "send" /\ run' = [run EXCEPT ![r] = "sent"] /\ UNCHANGED <<res, cancelled, exitFirst>>
        /\ stop' = (stop \/ (exitFirst /\ res[r].status = FAIL) \/ cancelled)
    BY <1>4, Zenon DEF Receive
  <2>2. res[r] \in Result /\ recorded[r] = <<>>
    BY <2>1, Zenon DEF TypeOK, LedgerInv, Live
  <2>3. recorded'[r] = <<res[r]>> /\ \A s \in Requests : s # r => recorded'[s] = recorded[s]
    BY <1>4, <2>2, RecordFirst, Zenon DEF Receive
  <2>4. run'[r] = "sent" /\ \A s \in Requests : s # r => run'[s] = run[s]
    BY <2>1, Zenon DEF TypeOK
  <2>5. \A s \in Requests : run'[s] = "sent" => recorded'[s] = <<res'[s]>>
    BY <2>1, <2>3, <2>4 DEF OutcomeInv
  <2>6. \A s \in Requests : run'[s] = "none" /\ recorded'[s] # <<>> =>
          recorded'[s][1].status = FAIL /\ recorded'[s][1].why # "ran"
    BY <2>3, <2>4 DEF OutcomeInv
  <2>7. stop' => cancelled' \/ \E s \in Requests : run'[s] = "sent" /\ res'[s].status = FAIL
    BY <2>1, <2>4, Zenon DEF OutcomeInv
  <2>8. exitFirst' /\ ~stop' => \A s \in Requests : run'[s] = "sent" => res'[s].status # FAIL
    BY <2>1, <2>4, Zenon DEF OutcomeInv
  <2> QED
    BY <2>1, <2>5, <2>6, <2>7, <2>8, Zenon DEF OutcomeInv
<1>5. CASE Strand
  <2>1. PICK p \in pending : Record(p, FailResult("stranded"))
    BY <1>5, Zenon DEF Strand
  <2>2. p \in Requests /\ run[p] = "none" /\ recorded[p] = <<>>
    BY Zenon DEF TypeOK, LedgerInv, Waiting
  <2>3. UNCHANGED <<run, res, stop, cancelled, exitFirst>>
    BY <1>5, Zenon DEF Strand
  <2> QED
    BY <2>1, <2>2, <2>3, OutcomeFail, Zenon DEF Reasons
<1>6. ASSUME NEW r \in Requests, LaunchReturns(r) PROVE OutcomeInv'
  <2>1. PICK result \in LaunchResults : res' = [res EXCEPT ![r] = result]
    BY <1>6, Zenon DEF LaunchReturns
  <2>2. result.why = "ran"
    BY DEF LaunchResults, FailResult
  <2>3. res'[r].why = "ran" /\ \A s \in Requests : s # r => res'[s] = res[s]
    BY <2>1, <2>2, Zenon DEF TypeOK
  <2>4. UNCHANGED <<recorded, stop, cancelled, exitFirst>> /\ run[r] = "launch"
        /\ run'[r] = "release" /\ \A s \in Requests : s # r => run'[s] = run[s]
    BY <1>6, Zenon DEF LaunchReturns, TypeOK
  <2> QED
    BY <2>3, <2>4 DEF OutcomeInv
<1>7. ASSUME NEW r \in Requests, Release(r) PROVE OutcomeInv'
  <2>1. UNCHANGED <<recorded, res, stop, cancelled, exitFirst>> /\ run[r] = "release"
        /\ run'[r] = "send" /\ \A s \in Requests : s # r => run'[s] = run[s]
    BY <1>7, Zenon DEF Release, TypeOK
  <2> QED
    BY <2>1 DEF OutcomeInv
<1> QED
  BY <1>1, <1>2, <1>3, <1>4, <1>5, <1>6, <1>7, ZenonT(40) DEF Next, DriverStep, Terminated

-----------------------------------------------------------------------------
(* What does not fit while nothing runs.                                   *)

\* Nodes are only ever lost to a run, never gained.
LEMMA PoolShrinks ==
  ASSUME TypeOK, PoolInv, [Next]_vars
  PROVE  (free \cup inUse)' \subseteq free \cup inUse
<1> USE DEF poolVars
<1>1. CASE LaunchPicked
  <2>1. free \in SUBSET Node /\ picked \in Requests
    BY <1>1, Zenon DEF TypeOK, LaunchPicked
  <2>2. ASSUME NEW a \in Assignments(free, picked), Allocate(picked, a)
        PROVE  (free \cup inUse)' \subseteq free \cup inUse
    <3>1. \A i \in 1..Size(picked) : a[i] \in free
      BY <2>1, AssignmentType, Zenon
    <3> QED
      BY <2>2, <3>1, Zenon DEF Allocate
  <2>3. CASE UNCHANGED poolVars
    BY <2>3, Zenon
  <2> QED
    BY <1>1, <2>2, <2>3, Zenon DEF LaunchPicked
<1>2. ASSUME NEW r \in Requests, Release(r)
      PROVE  (free \cup inUse)' \subseteq free \cup inUse
  <2>1. SubNodes(r) \subseteq inUse
    <3>1. SubNodes(r) \subseteq Node /\ r \in Holding
      BY <1>2 DEF SubNodes, TypeOK, Release, Holding
    <3> QED
      BY <3>1, Zenon DEF PoolInv
  <2> QED
    BY <1>2, <2>1, Zenon DEF Release, Evict, FreeSub
<1>3. CASE UNCHANGED poolVars
  BY <1>3, Zenon
<1>4. CASE OpenRunDir \/ SizeRequest \/ StartLoop \/ InnerTest \/ ScanNext \/ ScanEnd
           \/ BreakIdle \/ Strand \/ Finish \/ Cancel \/ UNCHANGED vars
  BY <1>3, <1>4, Zenon DEF OpenRunDir, SizeRequest, StartLoop, InnerTest, ScanNext, ScanEnd,
                    BreakIdle, Strand, Finish, Cancel, vars
<1>5. ASSUME NEW r \in Requests, Receive(r) \/ LaunchReturns(r)
      PROVE  (free \cup inUse)' \subseteq free \cup inUse
  BY <1>5, <1>3, Zenon DEF Receive, LaunchReturns
<1> QED
  BY <1>1, <1>2, <1>4, <1>5, Zenon DEF Next, DriverStep, Terminated

\* With no goroutine left, no node is in use.
LEMMA IdlePool ==
  ASSUME TypeOK, PoolInv, LoopInv, active = 0
  PROVE  inUse = {} /\ Live = {}
<1>1. Live \in SUBSET Requests
  BY Zenon DEF Live
<1>2. Live = {}
  BY <1>1, RequestsFinite, FS_EmptySet, Zenon DEF LoopInv
<1>3. Holding \subseteq Live
  BY Zenon DEF Holding, Live
<1>4. Holding = {} /\ inUse \subseteq Node
  BY <1>2, <1>3, Zenon DEF TypeOK
<1> QED
  BY <1>2, <1>4, Zenon DEF PoolInv

\* What is stranded when nothing runs cannot be served by what is left.
LEMMA StrandedStep ==
  ASSUME TypeOK, LedgerInv, PoolInv, LoopInv, OutcomeInv, FitInv, [Next]_vars
  PROVE  StrandedCannotFit'
<1> SUFFICES ASSUME NEW r \in Requests, NEW k \in DOMAIN recorded'[r],
                    recorded'[r][k].why = "stranded", ~cancelled'
             PROVE  ~CanEverFit(r)'
  BY Zenon DEF StrandedCannotFit
<1>1. ~cancelled
  BY Zenon DEF Next, DriverStep, Terminated, vars, OpenRunDir, SizeRequest, StartLoop, InnerTest,
         ScanNext, ScanEnd, LaunchPicked, BreakIdle, Receive, Strand, Finish, LaunchReturns,
         Release, Cancel
<1>2. ~CanEverFit(r) => ~CanEverFit(r)'
  <2>1. Assignments((free \cup inUse)', r) \subseteq Assignments(free \cup inUse, r)
    BY PoolShrinks, AssignmentsMonotone, Zenon
  <2> QED
    BY <2>1, Zenon DEF CanEverFit, Assignments
<1>3. CASE recorded'[r] = recorded[r]
  BY <1>1, <1>2, <1>3, Zenon DEF FitInv, StrandedCannotFit
<1>4. ASSUME recorded[r] = <<>>, NEW result \in Result, Record(r, result), result.why # "stranded"
      PROVE  FALSE
  <2>1. recorded'[r] = <<result>>
    BY <1>4, RecordFirst, Zenon
  <2> QED
    BY <1>4, <2>1
<1>5. CASE Strand
  <2>1. PICK p \in pending : Record(p, FailResult("stranded"))
    BY <1>5, Zenon DEF Strand
  <2>2. p \in Requests /\ recorded[p] = <<>> /\ FailResult("stranded") \in Result
    BY FailResultType, Zenon DEF TypeOK, LedgerInv, Waiting, Reasons
  <2>3. r # p => recorded'[r] = recorded[r]
    BY <2>1, <2>2, RecordFirst, Zenon
  <2>4. CASE r = p
    <3>1. pc = "drain" /\ ~stop /\ active = 0
      BY <1>5, Zenon DEF Strand, LoopInv
    <3>2. ~CanAllocate(p)
      BY <1>1, <3>1, Zenon DEF FitInv
    <3>3. inUse = {}
      BY <3>1, IdlePool, Zenon
    <3>4. ~CanEverFit(p)
      BY <3>2, <3>3, Zenon DEF CanAllocate, CanEverFit
    <3> QED
      BY <2>4, <3>4, <1>2, Zenon
  <2> QED
    BY <2>3, <2>4, <1>3, Zenon
<1>6. CASE SizeRequest
  <2>1. PICK p \in Requests : p = unsized
    BY <1>6, RequestAssumption, SMTT(30) DEF SizeRequest, TypeOK, Requests
  <2>2. recorded[p] = <<>> /\ FailResult("sizing") \in Result
    BY <2>1, FailResultType DEF LedgerInv, Waiting, TypeOK, Requests, Reasons
  <2>3. CASE UNCHANGED suiteVars
    BY <2>3, <1>3, Zenon DEF suiteVars
  <2>4. CASE Record(p, FailResult("sizing"))
    <3>1. r # p => recorded'[r] = recorded[r]
      BY <2>2, <2>4, RecordFirst, Zenon
    <3>2. r # p
      BY <2>2, <2>4, <1>4, Zenon DEF FailResult
    <3> QED
      BY <3>1, <3>2, <1>3, Zenon
  <2> QED
    BY <1>6, <2>1, <2>3, <2>4, Zenon DEF SizeRequest
<1>7. ASSUME NEW s \in Requests, Receive(s) PROVE ~CanEverFit(r)'
  <2>1. Record(s, res[s]) /\ recorded[s] = <<>> /\ res[s] \in Result /\ res[s].why = "ran"
    BY <1>7, Zenon DEF Receive, LedgerInv, Live, TypeOK, OutcomeInv
  <2>2. r # s => recorded'[r] = recorded[r]
    BY <2>1, RecordFirst, Zenon
  <2>3. r # s
    BY <2>1, <1>4, Zenon
  <2> QED
    BY <2>2, <2>3, <1>3, Zenon
<1>8. CASE LaunchPicked
  <2>1. UNCHANGED suiteVars
    BY <1>8, Zenon DEF LaunchPicked, LoopInv
  <2> QED
    BY <2>1, <1>3, Zenon DEF suiteVars
<1>9. CASE OpenRunDir \/ StartLoop \/ InnerTest \/ ScanNext \/ ScanEnd \/ BreakIdle \/ Finish
           \/ Cancel \/ UNCHANGED vars \/ (\E s \in Requests : LaunchReturns(s) \/ Release(s))
  <2>1. UNCHANGED recorded
    BY <1>9, Zenon DEF OpenRunDir, StartLoop, InnerTest, ScanNext, ScanEnd, BreakIdle, Finish, Cancel,
                LaunchReturns, Release, vars, suiteVars
  <2> QED
    BY <2>1, <1>3, Zenon
<1> QED
  BY <1>5, <1>6, <1>7, <1>8, <1>9, Zenon DEF Next, DriverStep, Terminated

\* No scan has passed over anything at first.
LEMMA FitInit == Init => FitInv
BY DEF Init, FitInv, StrandedCannotFit

\* While nothing runs, what a scan passed over stays unservable.
LEMMA FitStep ==
  TypeOK /\ LedgerInv /\ PoolInv /\ LoopInv /\ OutcomeInv /\ FitInv /\ [Next]_vars => FitInv'
<1> SUFFICES ASSUME TypeOK, LedgerInv, PoolInv, LoopInv, OutcomeInv, FitInv, [Next]_vars
             PROVE  FitInv'
  BY Zenon
<1> USE DEF poolVars, planVars, suiteVars
<1> DEFINE Passed == /\ pc = "scan" /\ active = 0 => \A p \in skipped : ~CanAllocate(p)
                     /\ pc \in {"wait", "drain"} /\ active = 0 /\ ~stop /\ ~cancelled =>
                          \A p \in pending : ~CanAllocate(p)
<1>0. Passed
  BY Zenon DEF FitInv
<1>1. UNCHANGED free => \A p : CanAllocate(p)' = CanAllocate(p)
  BY Zenon DEF CanAllocate, Assignments
<1>2. CASE OpenRunDir \/ SizeRequest \/ StartLoop \/ LaunchPicked \/ Finish
  <2>1. pc' \in {"size", "inner", "done"} \/ (pc' = "drain" /\ pending' = {})
    BY <1>2, Zenon DEF OpenRunDir, SizeRequest, StartLoop, LaunchPicked, Finish, LoopTest
  <2> QED
    BY <2>1, StrandedStep, Zenon DEF FitInv
<1>3. CASE InnerTest
  <2>1. CASE pc' = "scan" /\ skipped' = {}
    BY <2>1, StrandedStep, Zenon DEF FitInv
  <2>2. CASE pc' = "wait" /\ (stop \/ cancelled \/ ~(active < MaxParallel))
    <3>1. active' = active /\ stop' = stop /\ cancelled' = cancelled
      BY <1>3, Zenon DEF InnerTest
    <3>2. active' = 0 => stop' \/ cancelled'
      BY <2>2, <3>1, MaxParallelType
    <3> QED
      BY <2>2, <3>2, StrandedStep, Zenon DEF FitInv
  <2> QED
    BY <1>3, <2>1, <2>2, Zenon DEF InnerTest
<1>4. CASE ScanNext
  <2>1. UNCHANGED <<free, active>> /\ pc = "scan"
    BY <1>4, Zenon DEF ScanNext
  <2>2. CASE pc' = "allocate"
    BY <2>2, StrandedStep, Zenon DEF FitInv
  <2>3. CASE pc' = "scan" /\ \E p \in pending : ~CanAllocate(p) /\ skipped' = skipped \cup {p}
    BY <2>1, <2>3, <1>0, <1>1, StrandedStep, Zenon DEF FitInv
  <2> QED
    BY <1>4, <2>2, <2>3, Zenon DEF ScanNext
<1>5. CASE ScanEnd
  <2>1. UNCHANGED <<free, active, pending>> /\ pc = "scan" /\ pc' = "wait" /\ pending \subseteq skipped
    BY <1>5, Zenon DEF ScanEnd
  <2> QED
    BY <2>1, <1>0, <1>1, StrandedStep, Zenon DEF FitInv
<1>6. CASE BreakIdle
  <2>1. UNCHANGED <<free, active, pending, stop, cancelled>> /\ pc = "wait" /\ pc' = "drain"
    BY <1>6, Zenon DEF BreakIdle
  <2> QED
    BY <2>1, <1>0, <1>1, StrandedStep, Zenon DEF FitInv
<1>7. ASSUME NEW r \in Requests, Receive(r) PROVE FitInv'
  <2>1. pc' = "inner" \/ (pc' = "drain" /\ pending' = {})
    BY <1>7, Zenon DEF Receive, LoopTest
  <2> QED
    BY <2>1, StrandedStep, Zenon DEF FitInv
<1>8. CASE Strand
  <2>1. UNCHANGED <<free, active, stop, cancelled>> /\ pc = "drain" /\ pc' = "drain" /\ pending' \subseteq pending
    BY <1>8, Zenon DEF Strand
  <2> QED
    BY <2>1, <1>0, <1>1, StrandedStep, Zenon DEF FitInv
<1>9. ASSUME NEW r \in Requests, LaunchReturns(r) \/ Release(r) PROVE FitInv'
  <2>1. r \in Live /\ UNCHANGED active
    BY <1>9, Zenon DEF LaunchReturns, Release, Live
  <2>2. active' # 0
    BY <2>1, IdlePool, Zenon
  <2>3. pc' # "drain" \/ active' = 0
    BY <1>9, Zenon DEF LaunchReturns, Release, LoopInv
  <2> QED
    BY <2>2, <2>3, StrandedStep, Zenon DEF FitInv
<1>10. CASE Cancel \/ UNCHANGED vars
  <2>1. UNCHANGED <<pc, active, pending, skipped, stop, free>> /\ (cancelled => cancelled')
    BY <1>10 DEF Cancel, vars
  <2> QED
    BY <2>1, <1>0, <1>1, StrandedStep, Zenon DEF FitInv
<1> QED
  BY <1>2, <1>3, <1>4, <1>5, <1>6, <1>7, <1>8, <1>9, <1>10, Zenon DEF Next, DriverStep, Terminated

-----------------------------------------------------------------------------
(* The theorems.                                                           *)

\* Everything the driver relies on holds of every reachable state.
THEOREM Invariance == Spec => [](LedgerInv /\ PoolInv /\ LoopInv /\ OutcomeInv /\ FitInv)
BY TypeCorrect, LedgerInit, LedgerStep, PoolInit, PoolStep, LoopInit, LoopStep,
   OutcomeInit, OutcomeStep, FitInit, FitStep, PTL DEF Spec

\* No node runs two jobs at once, and every job's i-th node can serve its i-th
\* NodeSpec: Allocate, Free and Evict under the pool's lock see to it.
THEOREM Exclusion == Spec => []NodesExclusive
<1>1. PoolInv => NodesExclusive
  BY Zenon DEF PoolInv
<1> QED
  BY <1>1, Invariance, PTL

\* The pool's books balance whatever order the goroutines release nodes in.
THEOREM Accounting == Spec => []PoolAccounting
<1>1. TypeOK /\ PoolInv => PoolAccounting
  <2> SUFFICES ASSUME TypeOK, PoolInv PROVE PoolAccounting
    BY Zenon
  <2>1. \A r \in Requests : SubNodes(r) \subseteq Node
    BY DEF SubNodes, TypeOK
  <2>2. Holding \subseteq Requests /\ Dirty \subseteq Requests
    BY Zenon DEF Holding, Dirty
  <2>3. inUse = UNION {SubNodes(r) : r \in Holding}
    BY <2>1, <2>2 DEF PoolInv, TypeOK
  <2>4. Node \ (free \cup inUse) = UNION {SubNodes(r) : r \in Dirty}
    BY <2>1, <2>2 DEF PoolInv, TypeOK
  <2> QED
    BY <2>3, <2>4, Zenon DEF PoolInv, PoolAccounting
<1> QED
  BY <1>1, TypeCorrect, Invariance, PTL

\* A node that a dirty result left behind is never free and never held again.
THEOREM Quarantine == Spec => []QuarantineHolds
<1>1. TypeOK /\ PoolInv => QuarantineHolds
  <2> SUFFICES ASSUME TypeOK, PoolInv, NEW r \in Dirty, NEW n \in SubNodes(r)
               PROVE  n \notin free /\ n \notin UNION {SubNodes(s) : s \in Holding}
    BY Zenon DEF QuarantineHolds
  <2>1. n \in Node
    BY DEF SubNodes, TypeOK, Dirty
  <2> QED
    BY <2>1, Zenon DEF PoolInv
<1> QED
  BY <1>1, TypeCorrect, Invariance, PTL

\* Allocate never fails for a plan that CanAllocate accepted.
THEOREM AllocateSucceeds == Spec => []AllocationStillFits
<1>1. LoopInv => AllocationStillFits
  BY Zenon DEF LoopInv, AllocationStillFits
<1> QED
  BY <1>1, Invariance, PTL

\* The count of active jobs is the number of goroutines that still owe a
\* result, and it stays within MaxParallel.
THEOREM ActiveIsExact == Spec => []ActiveCountsGoroutines
<1>1. LoopInv => ActiveCountsGoroutines
  BY Zenon DEF LoopInv, ActiveCountsGoroutines
<1> QED
  BY <1>1, Invariance, PTL

\* No request is recorded twice, and only a deliberate stop leaves one out.
THEOREM RecordedOnce == Spec => []EachRequestOnce
<1>1. TypeOK /\ LedgerInv /\ PoolInv /\ LoopInv => EachRequestOnce
  <2> SUFFICES ASSUME TypeOK, LedgerInv, PoolInv, LoopInv, NEW r \in Requests
               PROVE  /\ Len(recorded[r]) <= 1
                      /\ suite.over /\ recorded[r] = <<>> =>
                           stop /\ run[r] = "none" /\ r \in pending
    BY Zenon DEF EachRequestOnce
  <2>1. Len(recorded[r]) <= 1
    <3>1. recorded[r] = <<>> \/ Len(recorded[r]) = 1
      BY Zenon DEF LedgerInv
    <3>2. CASE recorded[r] = <<>>
      BY <3>2
    <3>3. CASE Len(recorded[r]) = 1
      BY <3>3
    <3> QED
      BY <3>1, <3>2, <3>3, Zenon
  <2>2. ASSUME suite.over, recorded[r] = <<>> PROVE stop /\ run[r] = "none" /\ r \in pending
    <3>1. pc = "done" /\ active = 0 /\ (stop \/ pending = {}) /\ unsized = NumRequests + 1
      BY <2>2, Zenon DEF LoopInv, LedgerInv
    <3>2. Live = {} /\ picked = 0
      BY <3>1, IdlePool, Zenon DEF TypeOK
    <3>3. ~(r >= unsized) /\ r # picked
      BY <3>1, <3>2, RequestAssumption DEF Requests
    <3>4. Len(recorded[r]) # 1
      <4>1. Len(<<>>) = 0
        BY Zenon
      <4> QED
        BY <2>2, <4>1
    <3>5. Waiting(r)
      BY <3>2, <3>4, Zenon DEF LedgerInv
    <3> QED
      BY <3>1, <3>3, <3>5, Zenon DEF Waiting, LedgerInv
  <2> QED
    BY <2>1, <2>2, Zenon
<1> QED
  BY <1>1, TypeCorrect, Invariance, PTL

\* A suite that is Ok ran every request, and every one of them passed.
THEOREM OkIsHonest == Spec => []OkMeansEverythingPassed
<1>1. TypeOK /\ LedgerInv /\ PoolInv /\ LoopInv /\ OutcomeInv => OkMeansEverythingPassed
  <2> SUFFICES ASSUME TypeOK, LedgerInv, PoolInv, LoopInv, OutcomeInv, suite.over, Ok
               PROVE  /\ ~cancelled /\ ~persistErr
                      /\ \A r \in Requests :
                           /\ run[r] = "sent"
                           /\ Len(recorded[r]) = 1
                           /\ recorded[r][1].why = "ran"
                           /\ recorded[r][1].status = PASS
                           /\ ~recorded[r][1].persistErr
    BY Zenon DEF OkMeansEverythingPassed
  <2>1. /\ pc = "done" /\ active = 0 /\ (stop \/ pending = {}) /\ unsized = NumRequests + 1
        /\ suite.cancelled = cancelled /\ suite.persistErr = persistErr
    BY Zenon DEF LoopInv, LedgerInv
  <2>2. ~cancelled /\ ~persistErr
    BY <2>1, Zenon DEF Ok
  <2>3. Live = {} /\ picked = 0
    BY <2>1, IdlePool, Zenon DEF TypeOK
  <2>4. \A r \in Requests : \A k \in DOMAIN recorded[r] :
          recorded[r][k].status # FAIL /\ ~recorded[r][k].persistErr
    BY Zenon DEF Ok
  <2>5. ~stop
    <3>1. ASSUME NEW r \in Requests, run[r] = "sent", res[r].status = FAIL PROVE FALSE
      <4>1. recorded[r] = <<res[r]>>
        BY <3>1, Zenon DEF OutcomeInv
      <4>2. 1 \in DOMAIN recorded[r] /\ recorded[r][1] = res[r]
        BY <4>1
      <4> QED
        BY <3>1, <4>2, <2>4, Zenon
    <3> QED
      BY <3>1, <2>2, Zenon DEF OutcomeInv
  <2>6. ASSUME NEW r \in Requests
        PROVE  /\ run[r] = "sent"
               /\ Len(recorded[r]) = 1
               /\ recorded[r][1].why = "ran"
               /\ recorded[r][1].status = PASS
               /\ ~recorded[r][1].persistErr
    <3>1. ~Waiting(r)
      <4>1. r \notin pending
        BY <2>1, <2>5, Zenon
      <4>2. ~(r >= unsized) /\ r # picked
        BY <2>1, <2>3, RequestAssumption DEF Requests
      <4> QED
        BY <4>1, <4>2, Zenon DEF Waiting
    <3>2. Len(recorded[r]) = 1 /\ recorded[r] \in Seq(Result)
      BY <3>1, <2>3, Zenon DEF LedgerInv, TypeOK
    <3>3. 1 \in DOMAIN recorded[r] /\ recorded[r] # <<>> /\ recorded[r][1] \in Result
      BY <3>2, SMTT(30)
    <3>4. recorded[r][1].status = PASS /\ ~recorded[r][1].persistErr
      BY <3>3, <2>4, Zenon DEF Result
    <3>5. run[r] # "none"
      BY <3>3, <3>4, <2>4, Zenon DEF OutcomeInv
    <3>6. run[r] = "sent"
      BY <3>5, <2>3, Zenon DEF Live, TypeOK
    <3>7. recorded[r] = <<res[r]>> /\ res[r].why = "ran"
      BY <3>6, Zenon DEF OutcomeInv
    <3>8. recorded[r][1].why = "ran"
      <4>1. recorded[r][1] = res[r]
        BY <3>7
      <4> QED
        BY <3>7, <4>1, Zenon
    <3> QED
      BY <3>2, <3>4, <3>6, <3>8, Zenon
  <2> QED
    BY <2>2, <2>6, Zenon
<1> QED
  BY <1>1, TypeCorrect, Invariance, PTL

\* Whatever the pool, the requests and the parallelism, none is lost between
\* the scan and the suite or counted twice (Run's loop, its books and Ok).
THEOREM RequestsAreAccounted == Spec => []RequestsAccounted
BY AllocateSucceeds, ActiveIsExact, RecordedOnce, OkIsHonest, PTL DEF RequestsAccounted

\* Under ExitFirst, nothing is scanned for or launched once a job that ran has
\* been recorded as failed.
THEOREM ExitFirstWorks == Spec => []ExitFirstHalts
<1>1. TypeOK /\ LedgerInv /\ LoopInv /\ OutcomeInv => ExitFirstHalts
  <2> SUFFICES ASSUME TypeOK, LedgerInv, LoopInv, OutcomeInv, exitFirst, pc \in {"scan", "allocate"},
                      NEW r \in Requests, NEW k \in DOMAIN recorded[r],
                      recorded[r][k].why = "ran", recorded[r][k].status = FAIL
               PROVE  FALSE
    BY Zenon DEF ExitFirstHalts
  <2>1. ~stop
    BY Zenon DEF LoopInv
  <2>2. recorded[r] \in Seq(Result) /\ recorded[r] # <<>>
    BY DEF TypeOK
  <2>3. Len(recorded[r]) = 1
    BY <2>2, Zenon DEF LedgerInv
  <2>4. k = 1
    BY <2>2, <2>3
  <2>5. run[r] \in {"none", "sent"}
    BY <2>2, Zenon DEF LedgerInv, Live, TypeOK
  <2>6. run[r] = "sent"
    BY <2>2, <2>4, <2>5, Zenon DEF OutcomeInv
  <2>7. recorded[r] = <<res[r]>>
    BY <2>6, Zenon DEF OutcomeInv
  <2>8. res[r].status = FAIL
    BY <2>4, <2>7
  <2> QED
    BY <2>1, <2>6, <2>8, Zenon DEF OutcomeInv
<1> QED
  BY <1>1, TypeCorrect, Invariance, PTL

\* In a run that is not cancelled, a request given up for want of clean nodes
\* is one that the nodes left cannot serve.
THEOREM StrandedForCause == Spec => []StrandedCannotFit
<1>1. FitInv => StrandedCannotFit
  BY Zenon DEF FitInv
<1> QED
  BY <1>1, Invariance, PTL

-----------------------------------------------------------------------------
(* The driver implements NodeLease.                                        *)

\* The owner of each node, read off the books.
OwnerTable ==
  \A n \in Node :
    /\ n \in free => Owner(n) = NoOwner
    /\ \A r \in Holding : n \in SubNodes(r) => Owner(n) = r
    /\ n \notin free \cup inUse => Owner(n) = Gone

\* The owner of a node, read off the pool's books.
LEMMA OwnerIs == TypeOK /\ PoolInv => OwnerTable
<1> SUFFICES ASSUME TypeOK, PoolInv, NEW n \in Node
             PROVE  /\ n \in free => Owner(n) = NoOwner
                    /\ \A r \in Holding : n \in SubNodes(r) => Owner(n) = r
                    /\ n \notin free \cup inUse => Owner(n) = Gone
  BY Zenon DEF OwnerTable
<1>1. ASSUME NEW r \in Holding, n \in SubNodes(r) PROVE Owner(n) = r
  <2>1. n \notin free
    BY <1>1, Zenon DEF PoolInv
  <2>2. \A s \in Holding : n \in SubNodes(s) => s = r
    BY <1>1, Zenon DEF PoolInv, NodesExclusive
  <2> QED
    BY <1>1, <2>1, <2>2, Zenon DEF Owner
<1>2. n \notin free \cup inUse => Owner(n) = Gone
  BY Zenon DEF Owner, PoolInv
<1> QED
  BY <1>1, <1>2, Zenon DEF Owner

\* Nobody's lease and quarantine are not requests.
LEMMA OwnersDiffer == \A r \in Requests : r # NoOwner /\ r # Gone
BY DEF Requests, NoOwner, Gone

\* A request that holds no node owns none.
LEMMA OwnedBy ==
  ASSUME TypeOK, PoolInv, NEW n \in Node, NEW r \in Requests
  PROVE  Owner(n) = r <=> r \in Holding /\ n \in SubNodes(r)
<1>1. ASSUME Owner(n) = r PROVE r \in Holding /\ n \in SubNodes(r)
  <2>1. n \notin free /\ n \in inUse
    BY <1>1, OwnerIs, OwnersDiffer, Zenon DEF OwnerTable
  <2>2. PICK s \in Holding : n \in SubNodes(s)
    BY <2>1, Zenon DEF PoolInv
  <2> QED
    BY <1>1, <2>2, OwnerIs, Zenon DEF OwnerTable
<1> QED
  BY <1>1, OwnerIs, Zenon DEF OwnerTable

\* A step that leaves the pool alone is a stutter of NodeLease.
LEMMA LeaseSame ==
  ASSUME UNCHANGED <<free, sub>>, Holding' = Holding
  PROVE  [n \in Node |-> Owner(n)]' = [n \in Node |-> Owner(n)]
<1>1. \A s : SubNodes(s)' = SubNodes(s)
  BY Zenon DEF SubNodes
<1> QED
  BY <1>1, Zenon DEF Owner

\* A launch is a Grant of NodeLease.
LEMMA LeaseGrant ==
  ASSUME TypeOK, PoolInv, PoolInv', TypeOK', NEW p \in Requests, run[p] = "none",
         NEW a \in Assignments(free, p), Allocate(p, a),
         run' = [run EXCEPT ![p] = "launch"]
  PROVE  \E S \in SUBSET Node : Lease!Grant(p, S)
<1> DEFINE S == {a[i] : i \in 1..Size(p)}
<1>0. free \in SUBSET Node
  BY Zenon DEF TypeOK
<1>1. S \subseteq free /\ DOMAIN a = 1..Size(p)
  <2>1. DOMAIN a = 1..Size(p) /\ \A i \in 1..Size(p) : a[i] \in free
    BY <1>0, AssignmentType, ZenonT(40)
  <2> QED
    BY <2>1, Zenon
<1>2. sub'[p] = a /\ (\A s \in Requests : s # p => sub'[s] = sub[s]) /\ free' = free \ S
  BY DEF Allocate, TypeOK
<1>3. SubNodes(p)' = S /\ \A s \in Requests : s # p => SubNodes(s)' = SubNodes(s)
  BY <1>1, <1>2, Zenon DEF SubNodes
<1>4. Holding' = Holding \cup {p} /\ p \notin Holding
  BY DEF Holding, TypeOK
<1> HIDE DEF S
<1>5. \A n \in Node : Owner(n) # p
  BY <1>4, OwnedBy, Zenon
<1>6. \A n \in S : Owner(n) = NoOwner
  BY <1>0, <1>1, OwnerIs, Zenon DEF OwnerTable
<1>7. ASSUME NEW n \in Node PROVE Owner(n)' = IF n \in S THEN p ELSE Owner(n)
  <2>1. /\ n \in free' => Owner(n)' = NoOwner
        /\ \A s \in Holding' : n \in SubNodes(s)' => Owner(n)' = s
        /\ n \notin free' \cup inUse' => Owner(n)' = Gone
    <3>1. OwnerTable'
      BY OwnerIs, PTL
    <3> QED
      BY <3>1, Zenon DEF OwnerTable
  <2>2. CASE n \in S
    BY <2>1, <2>2, <1>3, <1>4, Zenon
  <2>3. CASE n \notin S /\ n \in free
    BY <2>1, <2>3, <1>2, OwnerIs, Zenon DEF OwnerTable
  <2>4. CASE n \notin S /\ n \in inUse
    <3>1. PICK s \in Holding : n \in SubNodes(s)
      BY <2>4, Zenon DEF PoolInv
    <3>2. s \in Requests /\ s # p
      BY <1>4, Zenon DEF Holding
    <3> QED
      BY <2>1, <2>4, <3>1, <3>2, <1>3, <1>4, OwnerIs DEF OwnerTable
  <2>5. CASE n \notin free \cup inUse
    <3>1. n \notin free' \cup inUse'
      BY <2>5, <1>1, <1>2, Zenon DEF Allocate, S
    <3> QED
      BY <2>1, <2>5, <3>1, <1>1, OwnerIs, Zenon DEF OwnerTable
  <2> QED
    BY <2>2, <2>3, <2>4, <2>5, Zenon
<1>8. S \in SUBSET Node
  BY <1>0, <1>1, Zenon
<1> QED
  BY <1>5, <1>6, <1>7, <1>8, Zenon DEF Lease!Grant, Lease!Leased

\* A release is a GiveUp of NodeLease, to the free set or for good.
LEMMA LeaseGiveUp ==
  ASSUME TypeOK, PoolInv, PoolInv', TypeOK', NEW r \in Requests, Release(r)
  PROVE  Lease!GiveUp(r, NoOwner) \/ Lease!GiveUp(r, Gone)
<1>1. run[r] = "release" /\ run' = [run EXCEPT ![r] = "send"] /\ ~freed[r]
  BY Zenon DEF Release, PoolInv
<1>2. /\ inUse' = inUse \ SubNodes(r)
      /\ free' = IF res[r].dirty THEN free ELSE free \cup SubNodes(r)
      /\ UNCHANGED sub
  BY <1>1, Zenon DEF Release, Evict, FreeSub
<1>3. \A s : SubNodes(s)' = SubNodes(s)
  BY <1>2, Zenon DEF SubNodes
<1>4. Holding' = Holding \ {r} /\ r \in Holding
  BY <1>1 DEF Holding, TypeOK
<1> DEFINE to == IF res[r].dirty THEN Gone ELSE NoOwner
<1>5. ASSUME NEW n \in Node PROVE Owner(n)' = IF Owner(n) = r THEN to ELSE Owner(n)
  <2>1. /\ n \in free' => Owner(n)' = NoOwner
        /\ \A s \in Holding' : n \in SubNodes(s)' => Owner(n)' = s
        /\ n \notin free' \cup inUse' => Owner(n)' = Gone
    <3>1. OwnerTable'
      BY OwnerIs, PTL
    <3> QED
      BY <3>1, Zenon DEF OwnerTable
  <2>2. /\ n \in free => Owner(n) = NoOwner
        /\ \A s \in Holding : n \in SubNodes(s) => Owner(n) = s
        /\ n \notin free \cup inUse => Owner(n) = Gone
    BY OwnerIs, Zenon DEF OwnerTable
  <2>3. CASE n \in SubNodes(r)
    <3>1. Owner(n) = r /\ n \notin free
      BY <2>2, <2>3, <1>4, Zenon DEF PoolInv
    <3>2. Owner(n)' = to
      BY <2>1, <2>3, <3>1, <1>2, Zenon
    <3> QED
      BY <3>1, <3>2, Zenon
  <2>4. CASE n \notin SubNodes(r)
    <3>1. Owner(n) # r
      BY <2>4, OwnedBy, Zenon
    <3>2. n \in free' <=> n \in free
      BY <2>4, <1>2, Zenon
    <3>3. n \in inUse' <=> n \in inUse
      BY <2>4, <1>2, Zenon
    <3>4. CASE n \in inUse
      <4>1. PICK s \in Holding : n \in SubNodes(s)
        BY <3>4, Zenon DEF PoolInv
      <4>2. s \in Holding' /\ n \in SubNodes(s)'
        BY <4>1, <2>4, <1>3, <1>4, Zenon
      <4> QED
        BY <4>1, <4>2, <2>1, <2>2, <3>1, Zenon
    <3>5. CASE n \notin inUse
      BY <3>1, <3>2, <3>3, <3>5, <2>1, <2>2, Zenon
    <3> QED
      BY <3>4, <3>5, Zenon
  <2> QED
    BY <2>3, <2>4, Zenon
<1>6. Lease!GiveUp(r, to)
  BY <1>5, Zenon DEF Lease!GiveUp
<1> QED
  BY <1>6, Zenon

\* The driver and its pool implement the lease discipline of NodeLease.tla:
\* a job's nodes come from the free ones, all at once, go back or into
\* quarantine all at once, and never come back from quarantine.
THEOREM Refinement == Spec => ImplementsLease
<1>1. Init => Lease!Init
  <2> SUFFICES ASSUME Init PROVE Lease!Init
    BY Zenon
  <2>1. \A n \in Node : Owner(n) = NoOwner
    BY Zenon DEF Init, Owner
  <2> QED
    BY <2>1, Zenon DEF Lease!Init
<1>2. /\ TypeOK /\ TypeOK' /\ LedgerInv /\ PoolInv /\ PoolInv' /\ LoopInv
      /\ [Next]_vars
      => [Lease!Next]_([n \in Node |-> Owner(n)])
  <2> SUFFICES ASSUME TypeOK, TypeOK', LedgerInv, PoolInv, PoolInv', LoopInv, [Next]_vars
               PROVE  Lease!Next \/ [n \in Node |-> Owner(n)]' = [n \in Node |-> Owner(n)]
    BY Zenon
  <2>1. CASE LaunchPicked
    <3>1. PICK p \in Requests : p = picked
      BY <2>1, Zenon DEF LaunchPicked, TypeOK
    <3>2. run[p] = "none"
      BY <3>1, Zenon DEF LedgerInv, Waiting
    <3>3. PICK a \in Assignments(free, p) : Allocate(p, a)
      BY <2>1, <3>1, Zenon DEF LaunchPicked, LoopInv
    <3>4. run' = [run EXCEPT ![p] = "launch"]
      BY <2>1, <3>1, Zenon DEF LaunchPicked, LoopInv
    <3>5. \E S \in SUBSET Node : Lease!Grant(p, S)
      BY <3>2, <3>3, <3>4, LeaseGrant, Zenon
    <3> QED
      BY <3>5, Zenon DEF Lease!Next
  <2>2. ASSUME NEW r \in Requests, Release(r) PROVE Lease!Next
    <3>1. Lease!GiveUp(r, NoOwner) \/ Lease!GiveUp(r, Gone)
      BY <2>2, LeaseGiveUp, Zenon
    <3> QED
      BY <3>1, Zenon DEF Lease!Next
  <2>3. ASSUME NEW r \in Requests, Receive(r) \/ LaunchReturns(r)
        PROVE  [n \in Node |-> Owner(n)]' = [n \in Node |-> Owner(n)]
    <3>1. UNCHANGED <<free, sub>>
      BY <2>3, Zenon DEF Receive, LaunchReturns, poolVars
    <3>2. Holding' = Holding
      BY <2>3, Zenon DEF Receive, LaunchReturns, Holding, TypeOK
    <3> QED
      BY <3>1, <3>2, LeaseSame, Zenon
  <2>4. CASE OpenRunDir \/ SizeRequest \/ StartLoop \/ InnerTest \/ ScanNext \/ ScanEnd
             \/ BreakIdle \/ Strand \/ Finish \/ Cancel \/ UNCHANGED vars
    <3>1. UNCHANGED <<free, sub, run>>
      BY <2>4, Zenon DEF OpenRunDir, SizeRequest, StartLoop, InnerTest, ScanNext, ScanEnd,
                  BreakIdle, Strand, Finish, Cancel, vars, poolVars
    <3> QED
      BY <3>1, LeaseSame, Zenon DEF Holding
  <2> QED
    BY <2>1, <2>2, <2>3, <2>4, Zenon DEF Next, DriverStep, Terminated
<1> QED
  BY <1>1, <1>2, TypeCorrect, Invariance, PTL DEF Spec, ImplementsLease, Lease!Spec

=============================================================================

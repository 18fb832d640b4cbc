------------------------------- MODULE Driver -------------------------------
(***************************************************************************)
(* The driver's Run (driver.go) with the node pool it schedules onto       *)
(* (pool.go): sizing the requests, the scheduling loop, one runOne         *)
(* goroutine per launched job, the done channel, and the final suite.      *)
(*                                                                         *)
(* Requests are numbered as the caller listed them.  Capable[r][i] is the  *)
(* set of nodes whose resources satisfy the i-th NodeSpec of request r, so *)
(* Len(Capable[r]) is the request's demand.  The matching itself is in     *)
(* Matching.tla; here an allocation is any assignment that it may return.  *)
(***************************************************************************)
EXTENDS Integers, Sequences, FiniteSets

CONSTANTS Node,        \* the nodes NewPool was given
          NumRequests, \* how many requests the caller passed to Run
          Capable,     \* the demand of each request, see above
          Parallel     \* RunOptions.MaxParallel as the caller set it

Requests == 1..NumRequests

ASSUME NodeAssumption == IsFiniteSet(Node)
ASSUME RequestAssumption == NumRequests \in Nat
ASSUME CapableAssumption == Capable \in [Requests -> Seq(SUBSET Node)]
ASSUME OptionAssumption == Parallel \in Int

VARIABLES
  exitFirst,   \* RunOptions.ExitFirst, as the caller set it
  pc,          \* where the driver goroutine is
  unsized,     \* the next request the sizing loop takes
  pending,     \* the plans not yet launched; their order is Before, below
  skipped,     \* the pending plans the current scan found not to fit
  picked,      \* the plan the scan settled on, 0 for none
  active,      \* the driver's count of running jobs
  stop,        \* scheduling has been stopped on purpose
  recorded,    \* the results recorded for each request
  persistErr,  \* the run-level PersistErr is not empty
  runDir,      \* a run directory is in use
  cancelled,   \* ctx.Err() # nil
  suite,       \* the SuiteResult returned
  free,        \* Pool.free
  inUse,       \* Pool.inUse
  maxUsed,     \* Pool.maxUsed
  sub,         \* the SubPool of each request: its nodes, in spec order
  freed,       \* SubPool.freed
  run,         \* where each request's runOne goroutine is
  res          \* the result runOne has in hand

poolVars == <<free, inUse, maxUsed, sub, freed>>
planVars == <<unsized, pending, skipped, picked>>
suiteVars == <<recorded, persistErr, runDir, suite>>
vars == <<exitFirst, pc, planVars, active, stop, suiteVars, cancelled, poolVars, run, res>>

-----------------------------------------------------------------------------
(* The pool.                                                               *)

Size(r) == Len(Capable[r])

SubNodes(r) == {sub[r][i] : i \in DOMAIN sub[r]}

\* The assignments matchSpecs may return for request r out of the nodes C:
\* a distinct node for every spec, each one satisfying it.
Assignments(C, r) ==
  {a \in [1..Size(r) -> C] :
      /\ \A i \in 1..Size(r) : a[i] \in Capable[r][i]
      /\ \A i, j \in 1..Size(r) : a[i] = a[j] => i = j}

CanAllocate(r) == Assignments(free, r) # {}

CanEverFit(r) == Assignments(free \cup inUse, r) # {}

\* Pool.Allocate for request r with assignment a.
Allocate(r, a) ==
  LET S == {a[i] : i \in 1..Size(r)} IN
  /\ sub' = [sub EXCEPT ![r] = a]
  /\ inUse' = inUse \cup S
  /\ free' = free \ S
  /\ maxUsed' = IF Cardinality(inUse') > maxUsed THEN Cardinality(inUse') ELSE maxUsed
  /\ UNCHANGED freed

\* Faulty variant: whatever is not in use counts as free again.
FreeAllUnused(r) ==
  /\ freed' = [freed EXCEPT ![r] = TRUE]
  /\ inUse' = inUse \ SubNodes(r)
  /\ free' = Node \ inUse'
  /\ UNCHANGED <<maxUsed, sub>>

\* Pool.Free: the nodes go back to the free set, once.
FreeSub(r) ==
  IF freed[r]
  THEN UNCHANGED poolVars
  ELSE /\ freed' = [freed EXCEPT ![r] = TRUE]
       /\ inUse' = inUse \ SubNodes(r)
       /\ free' = free \cup SubNodes(r)
       /\ UNCHANGED <<maxUsed, sub>>

\* Pool.Evict: the nodes leave circulation.
Evict(r) ==
  IF freed[r]
  THEN UNCHANGED poolVars
  ELSE /\ freed' = [freed EXCEPT ![r] = TRUE]
       /\ inUse' = inUse \ SubNodes(r)
       /\ UNCHANGED <<free, maxUsed, sub>>

-----------------------------------------------------------------------------
(* Results.                                                                *)

PASS == "PASS"
FAIL == "FAIL"

\* Why a result says what it says: the job ran, or the driver failed it
\* when sizing it, when allocating for it, or when no clean node was left.
Reasons == {"ran", "sizing", "allocation", "stranded"}

Result == [status: {PASS, FAIL}, dirty: BOOLEAN, persistErr: BOOLEAN, why: Reasons]

FailResult(why) == [status |-> FAIL, dirty |-> FALSE, persistErr |-> FALSE, why |-> why]

\* What a launcher may return: a launch-level error, which runOne turns into
\* a clean failure, or the worker's result.  A worker's result is dirty only
\* if it failed (see Worker.tla and Launcher.tla).
LaunchResults ==
  {FailResult("ran")} \cup
  {r \in Result : r.why = "ran" /\ (r.dirty => r.status = FAIL)}

\* record: keep the result; a reporter may fail to deliver it.
Record(r, result) ==
  /\ recorded' = [recorded EXCEPT ![r] = Append(@, result)]
  /\ \E reporterFailed \in BOOLEAN : persistErr' = (persistErr \/ reporterFailed)
  /\ UNCHANGED <<runDir, suite>>

NoSuite == [over |-> FALSE, cancelled |-> FALSE, persistErr |-> FALSE]

\* Faulty variant: only looks at what was recorded.
OkIgnoresCancelled ==
  /\ ~suite.persistErr
  /\ \A r \in Requests : \A k \in DOMAIN recorded[r] :
       recorded[r][k].status # FAIL /\ ~recorded[r][k].persistErr

\* SuiteResult.Ok
Ok == /\ ~suite.cancelled
      /\ ~suite.persistErr
      /\ \A r \in Requests : \A k \in DOMAIN recorded[r] :
           /\ recorded[r][k].status # FAIL
           /\ ~recorded[r][k].persistErr

-----------------------------------------------------------------------------
(* The driver goroutine.                                                   *)

MaxParallel == IF Parallel < 1 THEN 1 ELSE Parallel

\* The order of the pending plans after the stable largest-first sort.
Before(p, q) == Size(p) > Size(q) \/ (Size(p) = Size(q) /\ p < q)

FirstOf(S, p) == p \in S /\ \A q \in S : q # p => Before(p, q)

\* The outer loop's condition: go round again, or on to the end of the run.
LoopTest(pend, act) == IF pend = {} /\ act = 0 THEN "drain" ELSE "inner"

Init ==
  /\ exitFirst \in BOOLEAN
  /\ pc = "open" /\ unsized = 1 /\ pending = {} /\ skipped = {} /\ picked = 0
  /\ active = 0 /\ stop = FALSE /\ cancelled \in BOOLEAN
  /\ recorded = [r \in Requests |-> <<>>]
  /\ persistErr = FALSE /\ runDir = FALSE /\ suite = NoSuite
  /\ free = Node /\ inUse = {} /\ maxUsed = 0
  /\ sub = [r \in Requests |-> <<>>]
  /\ freed = [r \in Requests |-> FALSE]
  /\ run = [r \in Requests |-> "none"]
  /\ res = [r \in Requests |-> FailResult("ran")]

\* The run directory: none asked for, one in use, or one that could not be had.
OpenRunDir ==
  /\ pc = "open"
  /\ pc' = "size"
  /\ \/ UNCHANGED <<runDir, persistErr>>
     \/ runDir' = TRUE /\ UNCHANGED persistErr
     \/ persistErr' = TRUE /\ UNCHANGED runDir
  /\ UNCHANGED <<planVars, active, stop, recorded, suite, cancelled, exitFirst, poolVars, run, res>>

\* One turn of the sizing loop, for the next request.  It is failed if its
\* discovery failed, if Declare panicked or the job is unknown, or if the
\* whole pool could not fit it; it becomes a pending plan only if it fits.
SizeRequest ==
  /\ pc = "size" /\ unsized <= NumRequests
  /\ unsized' = unsized + 1
  /\ \/ Record(unsized, FailResult("sizing")) /\ UNCHANGED pending
     \/ /\ CanEverFit(unsized)
        /\ pending' = pending \cup {unsized}
        /\ UNCHANGED suiteVars
  /\ UNCHANGED <<pc, skipped, picked, active, stop, cancelled, exitFirst, poolVars, run, res>>

StartLoop ==
  /\ pc = "size" /\ unsized > NumRequests
  /\ pc' = LoopTest(pending, active)
  /\ UNCHANGED <<planVars, active, stop, suiteVars, cancelled, exitFirst, poolVars, run, res>>

\* Faulty variant: the inner loop ignores the context.
InnerTestIgnoresContext ==
  /\ pc = "inner"
  /\ IF ~stop /\ active < MaxParallel
     THEN pc' = "scan" /\ skipped' = {}
     ELSE pc' = "wait" /\ UNCHANGED skipped
  /\ UNCHANGED <<unsized, pending, picked, active, stop, suiteVars, cancelled, exitFirst, poolVars, run, res>>

\* The condition of the inner loop; a scan starts at the front of pending.
InnerTest ==
  /\ pc = "inner"
  /\ IF ~stop /\ ~cancelled /\ active < MaxParallel
     THEN pc' = "scan" /\ skipped' = {}
     ELSE pc' = "wait" /\ UNCHANGED skipped
  /\ UNCHANGED <<unsized, pending, picked, active, stop, suiteVars, cancelled, exitFirst, poolVars, run, res>>

\* pool.CanAllocate for the next pending plan, under the pool's lock: other
\* plans' nodes may come back between two of these.
ScanNext ==
  /\ pc = "scan"
  /\ \E p \in pending \ skipped :
       /\ FirstOf(pending \ skipped, p)
       /\ IF CanAllocate(p)
          THEN /\ pc' = "allocate" /\ picked' = p
               /\ pending' = pending \ {p} /\ UNCHANGED skipped
          ELSE skipped' = skipped \cup {p} /\ UNCHANGED <<pc, picked, pending>>
  /\ UNCHANGED <<unsized, active, stop, suiteVars, cancelled, exitFirst, poolVars, run, res>>

\* Faulty variant: scans again until something fits.
ScanEndSpins ==
  /\ pc = "scan" /\ pending \subseteq skipped
  /\ pc' = "inner"
  /\ UNCHANGED <<planVars, active, stop, suiteVars, cancelled, exitFirst, poolVars, run, res>>

ScanEnd ==
  /\ pc = "scan" /\ pending \subseteq skipped
  /\ pc' = "wait"
  /\ UNCHANGED <<planVars, active, stop, suiteVars, cancelled, exitFirst, poolVars, run, res>>

\* pool.Allocate for the picked plan, and the launch of its goroutine.
LaunchPicked ==
  /\ pc = "allocate"
  /\ pc' = "inner" /\ picked' = 0
  /\ IF Assignments(free, picked) # {}
     THEN /\ \E a \in Assignments(free, picked) : Allocate(picked, a)
          /\ active' = active + 1
          /\ run' = [run EXCEPT ![picked] = "launch"]
          /\ UNCHANGED suiteVars
     ELSE /\ Record(picked, FailResult("allocation"))
          /\ UNCHANGED <<active, run, poolVars>>
  /\ UNCHANGED <<unsized, pending, skipped, stop, cancelled, exitFirst, res>>

\* Faulty variant: gives up although jobs are still running.
BreakAnyway ==
  /\ pc = "wait"
  /\ pc' = "drain"
  /\ UNCHANGED <<planVars, active, stop, suiteVars, cancelled, exitFirst, poolVars, run, res>>

\* Nothing runs, so nothing can make a pending plan fit: leave the loop.
BreakIdle ==
  /\ pc = "wait" /\ active = 0
  /\ pc' = "drain"
  /\ UNCHANGED <<planVars, active, stop, suiteVars, cancelled, exitFirst, poolVars, run, res>>

\* res := <-done meets a runOne that sends.
Receive(r) ==
  /\ pc = "wait" /\ active > 0 /\ run[r] = "send"
  /\ run' = [run EXCEPT ![r] = "sent"]
  /\ active' = active - 1
  /\ Record(r, res[r])
  /\ stop' = (stop \/ (exitFirst /\ res[r].status = FAIL) \/ cancelled)
  /\ pc' = LoopTest(pending, active')
  /\ UNCHANGED <<planVars, cancelled, exitFirst, poolVars, res>>

\* After the loop: the plans still pending, unless the stop was on purpose.
Strand ==
  /\ pc = "drain" /\ ~stop
  /\ \E p \in pending :
       /\ FirstOf(pending, p)
       /\ pending' = pending \ {p}
       /\ Record(p, FailResult("stranded"))
  /\ UNCHANGED <<pc, unsized, skipped, picked, active, stop, cancelled, exitFirst, poolVars, run, res>>

\* The suite, the reporters' Finish, and run.json.
Finish ==
  /\ pc = "drain" /\ (stop \/ pending = {})
  /\ pc' = "done"
  /\ \E finishFailed, jsonFailed \in BOOLEAN :
       /\ jsonFailed => runDir
       /\ persistErr' = (persistErr \/ finishFailed \/ jsonFailed)
  /\ suite' = [over |-> TRUE, cancelled |-> cancelled, persistErr |-> persistErr']
  /\ UNCHANGED <<planVars, active, stop, recorded, runDir, cancelled, exitFirst, poolVars, run, res>>

DriverStep ==
  \/ OpenRunDir \/ SizeRequest \/ StartLoop \/ InnerTest \/ ScanNext \/ ScanEnd
  \/ LaunchPicked \/ BreakIdle \/ Strand \/ Finish
  \/ \E r \in Requests : Receive(r)

-----------------------------------------------------------------------------
(* runOne, and the caller's context.                                       *)

\* launcher.Launch returns; a job's own timeout only shows in what it returns.
LaunchReturns(r) ==
  /\ run[r] = "launch"
  /\ run' = [run EXCEPT ![r] = "release"]
  /\ \E result \in LaunchResults : res' = [res EXCEPT ![r] = result]
  /\ UNCHANGED <<pc, planVars, active, stop, suiteVars, cancelled, exitFirst, poolVars>>

\* Quarantine the nodes of a dirty result, free those of a clean one.
Release(r) ==
  /\ run[r] = "release"
  /\ run' = [run EXCEPT ![r] = "send"]
  /\ IF res[r].dirty THEN Evict(r) ELSE FreeSub(r)
  /\ UNCHANGED <<pc, planVars, active, stop, suiteVars, cancelled, exitFirst, res>>

\* An operator's stop, or the deadline of the context Run was given.
Cancel ==
  /\ ~cancelled /\ pc # "done"
  /\ cancelled' = TRUE
  /\ UNCHANGED <<exitFirst, pc, planVars, active, stop, suiteVars, poolVars, run, res>>

Terminated == pc = "done" /\ UNCHANGED vars

Next ==
  \/ DriverStep
  \/ \E r \in Requests : LaunchReturns(r) \/ Release(r)
  \/ Cancel
  \/ Terminated

Spec == Init /\ [][Next]_vars

\* The driver goroutine and every runOne keep running, and a launch returns:
\* a job that ends by itself, by its timeout or by cancellation.
Fairness ==
  /\ WF_vars(DriverStep)
  /\ \A r \in Requests : WF_vars(LaunchReturns(r)) /\ WF_vars(Release(r))

FairSpec == Spec /\ Fairness

-----------------------------------------------------------------------------
(* Properties.                                                             *)

\* Types; a plan is picked exactly while the driver is about to allocate for it.
TypeOK ==
  /\ exitFirst \in BOOLEAN
  /\ pc \in {"open", "size", "inner", "scan", "allocate", "wait", "drain", "done"}
  /\ unsized \in 1..(NumRequests + 1)
  /\ pending \subseteq Requests
  /\ skipped \subseteq Requests
  /\ picked \in Requests \cup {0} /\ (picked # 0 <=> pc = "allocate")
  /\ active \in Nat
  /\ stop \in BOOLEAN
  /\ recorded \in [Requests -> Seq(Result)]
  /\ persistErr \in BOOLEAN
  /\ runDir \in BOOLEAN
  /\ cancelled \in BOOLEAN
  /\ suite \in [over: BOOLEAN, cancelled: BOOLEAN, persistErr: BOOLEAN]
  /\ free \subseteq Node
  /\ inUse \subseteq Node
  /\ maxUsed \in Nat
  /\ sub \in [Requests -> Seq(Node)]
  /\ freed \in [Requests -> BOOLEAN]
  /\ run \in [Requests -> {"none", "launch", "release", "send", "sent"}]
  /\ res \in [Requests -> Result]

\* The requests whose runOne has nodes it has not yet given up.
Holding == {r \in Requests : run[r] \in {"launch", "release"}}

\* The requests whose goroutine has started and not yet been received from.
Live == {r \in Requests : run[r] \in {"launch", "release", "send"}}

\* The requests whose nodes were left dirty and given up.
Dirty == {r \in Requests : run[r] \in {"send", "sent"} /\ res[r].dirty}

\* No node runs two jobs at once, and each job's i-th node is one that can
\* serve its i-th NodeSpec (SubPool.Nodes), across every interleaving of the
\* driver's Allocate with the goroutines' Free and Evict.
NodesExclusive ==
  /\ \A r, s \in Holding : r # s => SubNodes(r) \cap SubNodes(s) = {}
  /\ \A r \in Holding :
       /\ Len(sub[r]) = Size(r)
       /\ \A i \in 1..Size(r) : sub[r][i] \in Capable[r][i]
       /\ \A i, j \in 1..Size(r) : sub[r][i] = sub[r][j] => i = j

\* The pool's books balance: a node is free, or in use by exactly the jobs
\* that hold it, or quarantined; none is lost and none is in two places.
PoolAccounting ==
  /\ free \cap inUse = {}
  /\ inUse = UNION {SubNodes(r) : r \in Holding}
  /\ Node \ (free \cup inUse) = UNION {SubNodes(r) : r \in Dirty}
  /\ Cardinality(inUse) <= maxUsed

\* A node whose cleanup could not be confirmed is never handed out again:
\* runOne's Evict keeps it from the free set for the rest of the run.
QuarantineHolds ==
  \A r \in Dirty : SubNodes(r) \cap (free \cup UNION {SubNodes(s) : s \in Holding}) = {}

\* The plan that CanAllocate accepted can still be allocated when the driver
\* calls Allocate, although both take the lock on their own: the goroutines
\* that run in between only ever add free nodes.
AllocationStillFits ==
  pc = "allocate" => Assignments(free, picked) # {}

\* active counts the goroutines that still owe the driver a result, so the
\* receive from done never waits for nobody, and MaxParallel bounds them.
ActiveCountsGoroutines ==
  active = Cardinality(Live) /\ active <= MaxParallel

\* Each request is recorded at most once, whatever path it took, and when
\* the run is over a request without a result was never launched and is one
\* that a deliberate stop left pending.
EachRequestOnce ==
  \A r \in Requests :
    /\ Len(recorded[r]) <= 1
    /\ suite.over /\ recorded[r] = <<>> => stop /\ run[r] = "none" /\ r \in pending

\* Ok() is never true of a run that dropped a request: every one of them ran
\* and passed, and its results were kept.
OkMeansEverythingPassed ==
  suite.over /\ Ok =>
    /\ ~cancelled
    /\ ~persistErr
    /\ \A r \in Requests :
         /\ run[r] = "sent"
         /\ Len(recorded[r]) = 1
         /\ recorded[r][1].why = "ran"
         /\ recorded[r][1].status = PASS
         /\ ~recorded[r][1].persistErr

\* No request is lost between the scan and the suite, nor counted twice: a plan
\* found is allocated, each goroutine is waited for, each request is recorded
\* once, and so a suite that is Ok is one in which every request passed.
RequestsAccounted ==
  AllocationStillFits /\ ActiveCountsGoroutines /\ EachRequestOnce /\ OkMeansEverythingPassed

\* Under ExitFirst no plan is scanned for or launched once a job that ran has
\* been recorded as failed.
ExitFirstHalts ==
  exitFirst /\ pc \in {"scan", "allocate"} =>
    \A r \in Requests : \A k \in DOMAIN recorded[r] :
      ~(recorded[r][k].why = "ran" /\ recorded[r][k].status = FAIL)

\* Unless the run was cancelled, a request recorded as "no clean nodes remain"
\* is one that the nodes not quarantined cannot serve.
StrandedCannotFit ==
  \A r \in Requests : \A k \in DOMAIN recorded[r] :
    recorded[r][k].why = "stranded" => cancelled \/ ~CanEverFit(r)

\* The run ends: the driver neither waits for a result nobody sends nor goes
\* round its loop for ever over plans that no longer fit.
RunEnds == <>(pc = "done")

-----------------------------------------------------------------------------
(* The inductive invariants that the proofs in DriverProofs.tla rest on.   *)

\* The driver has not yet decided what becomes of request r.
Waiting(r) == r >= unsized \/ r \in pending \/ r = picked

\* Every request is in one place: waiting, with a goroutine, or recorded.
LedgerInv ==
  /\ \A r \in Requests : Waiting(r) => run[r] = "none" /\ recorded[r] = <<>>
  /\ \A r \in Live : recorded[r] = <<>>
  /\ \A r \in Requests : ~Waiting(r) /\ r \notin Live => Len(recorded[r]) = 1
  /\ \A r \in Requests : r \in pending => r < unsized /\ r # picked
  /\ picked < unsized
  /\ pc \notin {"open", "size"} => unsized = NumRequests + 1

\* Where every node is, node by node.
PoolInv ==
  /\ \A r \in Requests : run[r] \in {"none", "launch", "release"} => ~freed[r]
  /\ \A n \in Node : n \in inUse <=> \E r \in Holding : n \in SubNodes(r)
  /\ \A n \in Node : n \notin free \cup inUse <=> \E r \in Dirty : n \in SubNodes(r)
  /\ free \cap inUse = {}
  /\ Cardinality(inUse) <= maxUsed
  /\ NodesExclusive

\* What the driver goroutine may rely on at each point of its loop.
LoopInv ==
  /\ active = Cardinality(Live) /\ active <= MaxParallel
  /\ pc \in {"scan", "allocate"} => active < MaxParallel /\ ~stop
  /\ pc \in {"drain", "done"} => active = 0
  /\ pc = "allocate" => Assignments(free, picked) # {}
  /\ pc = "done" => stop \/ pending = {}
  /\ suite.over <=> pc = "done"
  /\ suite.over => suite.cancelled = cancelled /\ suite.persistErr = persistErr

\* What the recorded results say about how each request ended.
OutcomeInv ==
  /\ \A r \in Requests : res[r].why = "ran"
  /\ \A r \in Requests : run[r] = "sent" => recorded[r] = <<res[r]>>
  /\ \A r \in Requests : run[r] = "none" /\ recorded[r] # <<>> =>
       recorded[r][1].status = FAIL /\ recorded[r][1].why # "ran"
  /\ stop => cancelled \/ \E r \in Requests : run[r] = "sent" /\ res[r].status = FAIL
  /\ exitFirst /\ ~stop => \A r \in Requests : run[r] = "sent" => res[r].status # FAIL

\* While nothing runs, what a scan passed over cannot be allocated.
FitInv ==
  /\ pc = "scan" /\ active = 0 => \A p \in skipped : ~CanAllocate(p)
  /\ pc \in {"wait", "drain"} /\ active = 0 /\ ~stop /\ ~cancelled =>
       \A p \in pending : ~CanAllocate(p)
  /\ StrandedCannotFit

-----------------------------------------------------------------------------
(* What the pool and the driver promise together, NodeLease.tla.           *)

NoOwner == 0
Gone == -1

\* The request that holds node n, or what else became of n.
Owner(n) ==
  IF n \in free THEN NoOwner
  ELSE IF \E r \in Holding : n \in SubNodes(r)
       THEN CHOOSE r \in Holding : n \in SubNodes(r)
       ELSE Gone

Lease == INSTANCE NodeLease WITH
  Free <- NoOwner, Quarantined <- Gone, owner <- [n \in Node |-> Owner(n)]

\* The driver and its pool implement the lease discipline: a job gets all its
\* nodes at once and gives them up at once, and quarantine is for good.
ImplementsLease == Lease!Spec
=============================================================================

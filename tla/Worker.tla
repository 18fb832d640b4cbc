------------------------------- MODULE Worker -------------------------------
(***************************************************************************)
(* One worker process running one job (worker.go, job.go, service.go,      *)
(* collector.go): the worker decodes its assignment, builds and binds the  *)
(* nodes, and takes the job through Setup, Run and Teardown with the       *)
(* default lifecycle of JobBase and ServiceBase, calling the hooks of the  *)
(* services node by node.  A hook, the body of the job and a finalizer are *)
(* code of the job: they succeed, fail or panic, and what they do to the   *)
(* node is described by the effects below.  A hook that reports success    *)
(* has done what its name says; one that fails may have done it or not.    *)
(*                                                                         *)
(* The nodes of the assignment are numbered in the order of PoolSpec, and  *)
(* Bind gives each service the next slice of them, so a service is a run   *)
(* of consecutive nodes.  A phase that goes over the nodes keeps the set   *)
(* of those still to be visited in todo and visits them in its order.      *)
(***************************************************************************)
EXTENDS Integers, Sequences, FiniteSets

CONSTANTS Sizes,          \* Spec().Size() of each service, in registration order
          Kept,           \* nodes whose artifacts are collected on a pass too
          MaxDeferred     \* bound on the finalizers a job registers

ASSUME SizesAssumption == Sizes \in Seq(Nat)
ASSUME DeferredAssumption == MaxDeferred \in Nat

VARIABLES phase,     \* where execute, runJob, Setup or Teardown is
          step,      \* within Start of a node: pre-stop, pre-clean or start
          todo,      \* nodes the phase has still to visit
          jobDir,    \* whether the job has a results directory
          prepErr,   \* prepareNode has an error
          runErr, tdErr,   \* as in runJob
          persistErr,      \* persistErrs of execute and of the job context
          up,        \* nodes with a running instance of their service
          stale,     \* nodes that hold data of their service
          started,   \* nodes on which StartNode was called
          collected, \* nodes whose artifacts were copied whole
          deferred,  \* the stack of finalizers
          ran,       \* finalizers called, in order
          owed,      \* history: how many finalizers Teardown found on the stack
          entered,   \* history: Setup was called
          faults,    \* history: the parts of the lifecycle that went wrong
          result     \* the JobResult, as a sequence of length at most 1

vars == <<phase, step, todo, jobDir, prepErr, runErr, tdErr, persistErr, up,
          stale, started, collected, deferred, ran, owed, entered, faults, result>>
nodeState == <<up, stale, started>>
books == <<jobDir, collected, persistErr>>
stack == <<deferred, ran, owed>>

Offset[i \in 0..Len(Sizes)] == IF i = 0 THEN 0 ELSE Offset[i - 1] + Sizes[i]

Service == 1..Len(Sizes)

Node == 1..Offset[Len(Sizes)]

\* Bind: service i gets nodes[offset : offset + size].
ServiceOf(n) == CHOOSE i \in Service : Offset[i - 1] < n /\ n <= Offset[i]

\* A hook, the job's body or a finalizer returns nil, an error, or panics.
Outcome == {"ok", "err", "panic"}

Finalizer == 1..(MaxDeferred + 1)

\* Setup and Collect go through the services in registration order.
InOrder(n) == n \in todo /\ \A k \in todo : n <= k

\* A faulty version: StopAll and CleanAll forget to reverse the registry.
ReversedForward(n) == InOrder(n)

\* reversed(): the services backwards, the nodes of each forwards.
Reversed(n) ==
  /\ n \in todo
  /\ \A k \in todo : \/ ServiceOf(n) > ServiceOf(k)
                     \/ ServiceOf(n) = ServiceOf(k) /\ n <= k

-----------------------------------------------------------------------------
(* What the code of the job does to a node.                                *)

StopEffect(n, o) ==
  /\ up' \in IF o = "ok" THEN {up \ {n}} ELSE {up, up \ {n}}
  /\ UNCHANGED <<stale, started>>

CleanEffect(n, o) ==
  /\ stale' \in IF o = "ok" /\ n \notin up THEN {stale \ {n}} ELSE {stale, stale \ {n}}
  /\ UNCHANGED <<up, started>>

StartEffect(n, o) ==
  /\ up' \in {up, up \cup {n}}
  /\ stale' = stale \cup {n}
  /\ started' = started \cup {n}

\* recovered() turns a panic into an error; o is what the part came to.
Note(part, o) == faults' = IF o = "ok" THEN faults ELSE faults \cup {part}

-----------------------------------------------------------------------------

Init ==
  /\ phase = "decode" /\ step = "stop" /\ todo = {}
  /\ jobDir = FALSE /\ prepErr = FALSE
  /\ runErr = FALSE /\ tdErr = FALSE /\ persistErr = FALSE
  /\ stale \in SUBSET Node /\ up \in SUBSET stale
  /\ started = {} /\ collected = {}
  /\ deferred = <<>> /\ ran = <<>> /\ owed = 0
  /\ entered = FALSE /\ faults = {} /\ result = <<>>

\* RunWorker: an assignment that cannot be decoded ends the worker unheard.
Decode(o) ==
  /\ phase = "decode" /\ o \in {"ok", "err"}
  /\ phase' = IF o = "ok" THEN "open" ELSE "exit"
  /\ UNCHANGED <<step, todo, prepErr, runErr, tdErr, entered, faults, result>>
  /\ UNCHANGED nodeState /\ UNCHANGED books /\ UNCHANGED stack

\* jobResultsDir and newTraceSink: no results wanted, all well, no directory,
\* or a directory without its trace files.
Open(o) ==
  /\ phase = "open" /\ o \in {"off", "ok", "no dir", "no trace"}
  /\ phase' = "prepare"
  /\ jobDir' = (o = "ok" \/ o = "no trace")
  /\ persistErr' = (o = "no dir" \/ o = "no trace")
  /\ faults' = IF o \in {"no dir", "no trace"} THEN {"persist"} ELSE {}
  /\ UNCHANGED <<step, todo, prepErr, runErr, tdErr, entered, result, collected>>
  /\ UNCHANGED nodeState /\ UNCHANGED stack

\* The job is looked up and declared, the nodes built, counted and bound.
\* Any failure ends in fail(): a result that is not dirty, no node touched.
Prepare(o) ==
  /\ phase = "prepare" /\ o \in {"ok", "err"}
  /\ Note("prepare", o)
  /\ IF o = "ok" THEN /\ phase' = "start" /\ todo' = Node /\ entered' = TRUE
                      /\ UNCHANGED runErr
                 ELSE /\ phase' = "finish" /\ runErr' = TRUE
                      /\ UNCHANGED <<todo, entered>>
  /\ UNCHANGED <<step, prepErr, tdErr, result>>
  /\ UNCHANGED nodeState /\ UNCHANGED books /\ UNCHANGED stack

\* runJob after Setup and Run: passed is recorded, and Teardown called.
BeginTeardown(failed) ==
  /\ runErr' = failed
  /\ phase' = "stop" /\ todo' = Node

\* prepareNode's StopNode.  Its error is kept and CleanNode is still called.
PreStop(n, o) ==
  /\ phase = "start" /\ step = "stop" /\ InOrder(n)
  /\ StopEffect(n, o) /\ Note("setup", o)
  /\ IF o = "panic" THEN BeginTeardown(TRUE) /\ UNCHANGED <<step, prepErr>>
     ELSE /\ step' = "clean" /\ prepErr' = (o = "err")
          /\ UNCHANGED <<phase, todo, runErr>>
  /\ UNCHANGED <<tdErr, entered, result>> /\ UNCHANGED books /\ UNCHANGED stack

\* prepareNode's CleanNode, and Start's return if either of the two failed.
PreClean(n, o) ==
  /\ phase = "start" /\ step = "clean" /\ InOrder(n)
  /\ CleanEffect(n, o) /\ Note("setup", o)
  /\ IF o # "ok" \/ prepErr THEN BeginTeardown(TRUE) /\ UNCHANGED <<step, prepErr>>
     ELSE /\ step' = "start"
          /\ UNCHANGED <<phase, todo, runErr, prepErr>>
  /\ UNCHANGED <<tdErr, entered, result>> /\ UNCHANGED books /\ UNCHANGED stack

\* StartNode; Setup returns at the first failure.
StartNode(n, o) ==
  /\ phase = "start" /\ step = "start" /\ InOrder(n)
  /\ StartEffect(n, o) /\ Note("setup", o)
  /\ IF o # "ok" THEN BeginTeardown(TRUE) /\ UNCHANGED step
     ELSE /\ step' = "stop" /\ todo' = todo \ {n}
          /\ UNCHANGED <<phase, runErr>>
  /\ UNCHANGED <<prepErr, tdErr, entered, result>>
  /\ UNCHANGED books /\ UNCHANGED stack

BeginWait ==
  /\ phase = "start" /\ todo = {}
  /\ phase' = "wait" /\ todo' = Node
  /\ UNCHANGED <<step, prepErr, runErr, tdErr, entered, faults, result>>
  /\ UNCHANGED nodeState /\ UNCHANGED books /\ UNCHANGED stack

\* WaitNode: Wait continues past a failure to the other nodes of its service,
\* and Setup returns before the next service.
WaitNode(n, o) ==
  /\ phase = "wait" /\ InOrder(n)
  /\ Note("setup", o)
  /\ todo' = CASE o = "ok" -> todo \ {n}
               [] o = "err" -> {k \in todo \ {n} : ServiceOf(k) = ServiceOf(n)}
               [] o = "panic" -> {}
  /\ runErr' = (runErr \/ o # "ok")
  /\ UNCHANGED <<phase, step, prepErr, tdErr, entered, result>>
  /\ UNCHANGED nodeState /\ UNCHANGED books /\ UNCHANGED stack

EndSetup ==
  /\ phase = "wait" /\ todo = {}
  /\ IF runErr THEN BeginTeardown(TRUE)
               ELSE phase' = "run" /\ UNCHANGED <<todo, runErr>>
  /\ UNCHANGED <<step, prepErr, tdErr, entered, faults, result>>
  /\ UNCHANGED nodeState /\ UNCHANGED books /\ UNCHANGED stack

\* While Run is in progress the job may stop, clean and start nodes again.
Disturb(n) ==
  /\ phase = "run"
  /\ \/ StopEffect(n, "err") \/ CleanEffect(n, "err") \/ StartEffect(n, "ok")
  /\ UNCHANGED <<phase, step, todo, prepErr, runErr, tdErr, entered, faults, result>>
  /\ UNCHANGED books /\ UNCHANGED stack

\* Defer, called from Setup or Run.
Defer ==
  /\ phase \in {"start", "wait", "run"} /\ Len(deferred) < MaxDeferred
  /\ deferred' = Append(deferred, Len(deferred) + 1)
  /\ UNCHANGED <<phase, step, todo, prepErr, runErr, tdErr, entered, faults, result, ran, owed>>
  /\ UNCHANGED nodeState /\ UNCHANGED books

\* A process of a service dies by itself.
Crash(n) ==
  /\ n \in up /\ phase # "exit"
  /\ up' = up \ {n}
  /\ UNCHANGED <<phase, step, todo, prepErr, runErr, tdErr, entered, faults, result,
                 stale, started>>
  /\ UNCHANGED books /\ UNCHANGED stack

Run(o) ==
  /\ phase = "run"
  /\ Note("run", o) /\ BeginTeardown(o # "ok")
  /\ UNCHANGED <<step, prepErr, tdErr, entered, result>>
  /\ UNCHANGED nodeState /\ UNCHANGED books /\ UNCHANGED stack

\* A panic in Teardown leaves the rest of it undone.
Advance(n, o) ==
  IF o = "panic" THEN phase' = "finish" /\ todo' = {}
                 ELSE UNCHANGED phase /\ todo' = todo \ {n}

\* A faulty version: the error of a node hides that of the nodes before it.
StopNodeLast(n, o) ==
  /\ phase = "stop" /\ Reversed(n)
  /\ StopEffect(n, o) /\ Note("teardown", o) /\ Advance(n, o)
  /\ tdErr' = (o # "ok")
  /\ UNCHANGED <<step, prepErr, runErr, entered, result>>
  /\ UNCHANGED books /\ UNCHANGED stack

\* StopAll: every node is stopped whatever became of the others.
StopNode(n, o) ==
  /\ phase = "stop" /\ Reversed(n)
  /\ StopEffect(n, o) /\ Note("teardown", o) /\ Advance(n, o)
  /\ tdErr' = (tdErr \/ o # "ok")
  /\ UNCHANGED <<step, prepErr, runErr, entered, result>>
  /\ UNCHANGED books /\ UNCHANGED stack

\* The order of Teardown.  CollectArtifacts is a no-op without a results
\* directory.
NextPhase ==
  /\ phase \in {"stop", "collect", "clean"} /\ todo = {}
  /\ phase' = CASE phase = "stop" /\ jobDir -> "collect"
                [] phase = "clean" -> "finalize"
                [] OTHER -> "clean"
  /\ todo' = IF phase = "clean" THEN {} ELSE Node
  /\ UNCHANGED <<step, prepErr, runErr, tdErr, entered, faults, result>>
  /\ UNCHANGED nodeState /\ UNCHANGED books /\ UNCHANGED stack

\* ShouldCollect: after a failure everything, after a pass what asks for it.
Wanted(n) == n \in started /\ (runErr \/ n \in Kept)

\* A faulty version: a failed collection is dropped.
CollectNodeSilent(n, o) ==
  /\ phase = "collect" /\ InOrder(n)
  /\ (o = "ok" /\ Wanted(n) => n \in stale) /\ (o = "err" => Wanted(n))
  /\ collected' = IF o = "ok" /\ Wanted(n) /\ n \notin up THEN collected \cup {n} ELSE collected
  /\ Note("teardown", IF o = "err" THEN "ok" ELSE o) /\ Advance(n, o)
  /\ tdErr' = (tdErr \/ o = "panic")
  /\ UNCHANGED <<step, prepErr, runErr, entered, result, jobDir, persistErr>>
  /\ UNCHANGED nodeState /\ UNCHANGED stack

\* Collect of one node.  An artifact that is gone from the node is an error,
\* which is noted and does not fail Teardown; a panic of Artifacts does.
CollectNode(n, o) ==
  /\ phase = "collect" /\ InOrder(n)
  /\ (o = "ok" /\ Wanted(n) => n \in stale) /\ (o = "err" => Wanted(n))
  /\ collected' = IF o = "ok" /\ Wanted(n) /\ n \notin up THEN collected \cup {n} ELSE collected
  /\ Note(IF o = "panic" THEN "teardown" ELSE "persist", o) /\ Advance(n, o)
  /\ persistErr' = (persistErr \/ o = "err")
  /\ tdErr' = (tdErr \/ o = "panic")
  /\ UNCHANGED <<step, prepErr, runErr, entered, result, jobDir>>
  /\ UNCHANGED nodeState /\ UNCHANGED stack

CleanNode(n, o) ==
  /\ phase = "clean" /\ Reversed(n)
  /\ CleanEffect(n, o) /\ Note("teardown", o) /\ Advance(n, o)
  /\ tdErr' = (tdErr \/ o # "ok")
  /\ UNCHANGED <<step, prepErr, runErr, entered, result>>
  /\ UNCHANGED books /\ UNCHANGED stack

\* Finalizers.Run takes the whole stack and empties it, then goes backwards
\* over what it took.  The finalizers taken and not yet called are in todo.
TakeFinalizers ==
  /\ phase = "finalize"
  /\ phase' = "finalizing" /\ todo' = {deferred[i] : i \in DOMAIN deferred}
  /\ deferred' = <<>> /\ owed' = Len(deferred)
  /\ UNCHANGED <<step, prepErr, runErr, tdErr, entered, faults, result, ran>>
  /\ UNCHANGED nodeState /\ UNCHANGED books

\* One finalizer.  It may itself call Defer, once in this model.
Finalize(f, o, more) ==
  /\ phase = "finalizing" /\ f \in todo /\ \A g \in todo : g <= f
  /\ Note("teardown", o) /\ Advance(f, o)
  /\ tdErr' = (tdErr \/ o # "ok")
  /\ ran' = Append(ran, f)
  /\ deferred' = IF more THEN <<MaxDeferred + 1>> ELSE deferred
  /\ UNCHANGED <<step, prepErr, runErr, entered, result, owed>>
  /\ UNCHANGED nodeState /\ UNCHANGED books

EndTeardown ==
  /\ phase = "finalizing" /\ todo = {}
  /\ phase' = "finish"
  /\ UNCHANGED <<step, todo, prepErr, runErr, tdErr, entered, faults, result>>
  /\ UNCHANGED nodeState /\ UNCHANGED books /\ UNCHANGED stack

\* runJob's result and finish(): the trace is closed, the persistence
\* failures folded in and result.json written, each of which may fail.
Finish(o) ==
  /\ phase = "finish" /\ o \in {"ok", "err"} /\ (o = "err" => jobDir)
  /\ phase' = "send"
  /\ Note("persist", o)
  /\ persistErr' = (persistErr \/ o = "err")
  /\ result' = <<[pass |-> ~runErr /\ ~tdErr, dirty |-> tdErr, persist |-> persistErr \/ o = "err"]>>
  /\ UNCHANGED <<step, todo, prepErr, runErr, tdErr, entered, jobDir, collected>>
  /\ UNCHANGED nodeState /\ UNCHANGED stack

\* The result goes on the stream; if it cannot be written it is lost.
Send(o) ==
  /\ phase = "send" /\ o \in {"ok", "err"}
  /\ phase' = "exit"
  /\ result' = IF o = "ok" THEN result ELSE <<>>
  /\ UNCHANGED <<step, todo, prepErr, runErr, tdErr, entered, faults>>
  /\ UNCHANGED nodeState /\ UNCHANGED books /\ UNCHANGED stack

Terminated == phase = "exit" /\ UNCHANGED vars

Next ==
  \/ \E o \in Outcome : \/ Decode(o) \/ Prepare(o) \/ Run(o) \/ Finish(o) \/ Send(o)
  \/ \E o \in {"off", "ok", "no dir", "no trace"} : Open(o)
  \/ \E n \in Node, o \in Outcome :
       \/ PreStop(n, o) \/ PreClean(n, o) \/ StartNode(n, o) \/ WaitNode(n, o)
       \/ StopNode(n, o) \/ CollectNode(n, o) \/ CleanNode(n, o)
  \/ \E f \in Finalizer, o \in Outcome, more \in BOOLEAN : Finalize(f, o, more)
  \/ \E n \in Node : Disturb(n) \/ Crash(n)
  \/ BeginWait \/ EndSetup \/ Defer \/ NextPhase \/ TakeFinalizers \/ EndTeardown
  \/ Terminated

Spec == Init /\ [][Next]_vars

-----------------------------------------------------------------------------

Phases == {"decode", "open", "prepare", "start", "wait", "run", "stop", "collect",
           "clean", "finalize", "finalizing", "finish", "send", "exit"}

TypeOK ==
  /\ phase \in Phases /\ step \in {"stop", "clean", "start"}
  /\ todo \in SUBSET (Node \cup Finalizer)
  /\ jobDir \in BOOLEAN /\ prepErr \in BOOLEAN /\ runErr \in BOOLEAN
  /\ tdErr \in BOOLEAN /\ persistErr \in BOOLEAN /\ entered \in BOOLEAN
  /\ up \subseteq Node /\ stale \subseteq Node /\ started \subseteq Node /\ collected \subseteq Node
  /\ deferred \in Seq(Finalizer) /\ ran \in Seq(Finalizer) /\ owed \in Nat
  /\ faults \subseteq {"prepare", "setup", "run", "teardown", "persist"}
  /\ result \in Seq([pass : BOOLEAN, dirty : BOOLEAN, persist : BOOLEAN])

\* StartNode is called only on a node that runs no instance and holds no data:
\* whatever a previous run left there, and whatever the pre-stop and the
\* pre-clean answer, Start never brings up a second instance beside one that
\* could not be stopped, nor a run against data that could not be cleaned
\* (service.go Start).
StartsOnlyPrepared ==
  phase = "start" /\ step = "start" => \A n \in todo : InOrder(n) => n \notin up \cup stale

\* While StopAll goes on without an error, a service is stopped only when all
\* the services registered after it, which may depend on it, are down.
DependentsStopFirst ==
  phase = "stop" /\ ~tdErr =>
    \A n \in todo : Reversed(n) =>
      \A k \in Node : ServiceOf(k) > ServiceOf(n) => k \notin up

\* The promise the driver's quarantine rests on: when Setup was called and the
\* result is not dirty, no service runs on any of the nodes, none holds data,
\* and every finalizer the job had deferred by its teardown was called, last
\* registered first, whatever failed or panicked in Setup and Run.
CleanMeansReusable ==
  \A i \in DOMAIN result : entered /\ ~result[i].dirty =>
    /\ up = {} /\ stale = {}
    /\ Len(ran) = owed /\ \A k \in DOMAIN ran : ran[k] = Len(ran) - k + 1

\* The artifacts of a node are copied after its service has stopped and before
\* they are cleaned: in a job with a results directory, a result that is
\* neither dirty nor short of results (PersistErr) has them whole, for every
\* node that was started if the job failed and for those that ask for it if
\* it passed.
ArtifactsKept ==
  \A i \in DOMAIN result :
    jobDir /\ entered /\ ~result[i].dirty /\ ~result[i].persist =>
      \A n \in Node : Wanted(n) => n \in collected

\* Services come up and go down in order, whatever fails on some of the nodes:
\* none is started beside what an earlier run left, and none is stopped under a
\* service that may depend on it.
ServicesInOrder == StartsOnlyPrepared /\ DependentsStopFirst

\* The result says what happened: it passes exactly if nothing failed in the
\* preparation, in Setup, in Run and in Teardown; it is dirty exactly if
\* something failed in Teardown; it carries a PersistErr exactly if something
\* could not be stored, which alone neither fails the job nor costs a node.
ResultIsHonest ==
  \A i \in DOMAIN result :
    /\ result[i].pass <=> faults \subseteq {"persist"}
    /\ result[i].dirty <=> "teardown" \in faults
    /\ result[i].persist <=> "persist" \in faults

\* What the worker reports of the job is so, and of the nodes too.
ResultIsTrue == ResultIsHonest /\ CleanMeansReusable
=============================================================================

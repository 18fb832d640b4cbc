----------------------------- MODULE RqService ------------------------------
(***************************************************************************)
(* The rqlite example's service (examples/rqlite/qa/rqlite/service.go): one *)
(* rqlited per node, which a job crashes, stops, pauses, restarts and wipes *)
(* behind the same ports, a watcher per process that records the exits      *)
(* nobody asked for, and the teardown.                                      *)
(*                                                                         *)
(* A method that holds Service.mu throughout is one action; Shutdown and    *)
(* StopNode let go of it while the process stops, and are several.  Each    *)
(* method is an action with a parameter err: whether it returns an error.   *)
(***************************************************************************)
EXTENDS Naturals, FiniteSets, Sequences

CONSTANTS
  N,          \* the nodes are 1..N, in the order of Service.Nodes
  Limited,    \* Service.limit > 0: data directories are limited
  MaxFails,   \* bound: calls to a node that fail and processes that exit on
              \* their own, together
  MaxDeaths   \* bound: the latter

ASSUME NAssumption == N \in Nat \ {0}

VARIABLES
  members,    \* Service.members; a node without one has there = FALSE
  os,         \* the state of each process a node was ever given, in order
  watching,   \* the processes whose watch goroutine has not returned
  exits,      \* Service.exits, as the processes they name
  lost,       \* live processes a watcher was told the transport had lost
  leased,     \* the number of ports leased on each node
  mounts,     \* the limits mounted over each data directory, one on another
  wiped,      \* the nodes whose data directory was erased since their launch
  joined,     \* the nodes the rqlite cluster has as members
  calls,      \* the stop each caller has in progress
  fails, deaths

memberVars == <<members, exits>>
nodeVars == <<leased, mounts, wiped, joined>>
rqVars == <<memberVars, os, watching, lost, nodeVars, calls, fails, deaths>>

Nodes == 1..N
Callers == {"a", "b"}

Gone == [there |-> FALSE, proc |-> 0, paused |-> FALSE, stopping |-> FALSE, unstopped |-> FALSE]
NoCall == [node |-> 0, proc |-> 0, paused |-> FALSE, step |-> "idle", err |-> FALSE]

\* A call to a node that goes through, and one that does not.
Works == UNCHANGED fails
Fails == fails > 0 /\ fails' = fails - 1

Alive(n, g) == g \in DOMAIN os[n] /\ os[n][g] \in {"running", "frozen"}
Live(n) == {g \in DOMAIN os[n] : Alive(n, g)}

\* What becomes of a process that is killed; one already gone stays as it was.
Ended(s) == IF s \in {"running", "frozen"} THEN "killed" ELSE s
Kill(n, g) == os' = [os EXCEPT ![n][g] = Ended(@)]

RqInit ==
  /\ members = [n \in Nodes |-> Gone] /\ os = [n \in Nodes |-> <<>>]
  /\ watching = {} /\ exits = {} /\ lost = {}
  /\ leased = [n \in Nodes |-> 0] /\ mounts = [n \in Nodes |-> 0]
  /\ wiped = Nodes /\ joined = {}
  /\ calls = [c \in Callers |-> NoCall] /\ deaths \in 0..MaxDeaths /\ fails = MaxFails - deaths

-----------------------------------------------------------------------------
(* diskfault: Limit mounts one more file system over the directory; Unlimit *)
(* takes off the topmost, if it is a limit.                                 *)
Limit(n, err) ==
  IF err THEN Fails /\ UNCHANGED mounts
         ELSE Works /\ mounts' = [mounts EXCEPT ![n] = @ + 1]
Unlimited(n) == IF mounts[n] > 0 THEN mounts[n] - 1 ELSE 0
Unlimit(n, err) ==
  IF err THEN Fails /\ UNCHANGED mounts
         ELSE Works /\ mounts' = [mounts EXCEPT ![n] = Unlimited(n)]

\* torx.Stop: what it returns, from whether its signal and its close failed and
\* how its wait ended.  The caller's context is never done: a job stops under
\* context.WithoutCancel, and the teardown's context is its own.
StopResult(sigErr, wait, closeErr) ==
  CASE wait = "exit" -> IF closeErr THEN "error" ELSE "code"
    [] wait # "exit" /\ (closeErr \/ sigErr) -> "error"
    [] wait = "deadline" /\ ~closeErr /\ ~sigErr -> "timeout"
    [] OTHER -> "error"

\* SIGCONT to a paused process, whose failure is dropped, then torx.Stop.  The
\* process lives on only if the close failed.
Stop(n, g, paused, result) ==
  \E thawed \in BOOLEAN, sigErr \in BOOLEAN, wait \in {"exit", "deadline", "lost"}, closeErr \in BOOLEAN :
    /\ thawed \/ (paused /\ Alive(n, g))
    /\ wait = "exit" => thawed \/ ~Alive(n, g)
    /\ ~Alive(n, g) => wait = "exit" /\ ~closeErr
    /\ IF ~thawed \/ (sigErr /\ Alive(n, g)) \/ wait = "lost" \/ closeErr THEN Fails ELSE Works
    /\ result = StopResult(sigErr, wait, closeErr)
    /\ IF closeErr /\ wait # "exit" THEN UNCHANGED os ELSE Kill(n, g)

-----------------------------------------------------------------------------
\* waitReady: the node answers, or the wait runs out.
Ready(n) == \E g \in Live(n) : os[n][g] = "running"
WaitReady(n, err) == IF err THEN (~Ready(n) /\ Works) \/ Fails ELSE Ready(n) /\ Works

\* running: the nodes that can answer.
Running(n) == members[n].proc # 0
Paused(n) == members[n].paused
Responsive == {n \in Nodes : Running(n) /\ ~Paused(n)}

\* launchLocked
LaunchLocked(n, m, err) ==
  IF err
  THEN /\ IF m.proc # 0 THEN Works ELSE Fails
       /\ members' = [members EXCEPT ![n] = m]
       /\ UNCHANGED <<os, watching, wiped, joined>>
  ELSE /\ m.proc = 0 /\ Works
       /\ os' = [os EXCEPT ![n] = Append(@, "running")]
       /\ members' = [members EXCEPT ![n] = [m EXCEPT !.proc = Len(os[n]) + 1, !.paused = FALSE]]
       /\ watching' = watching \cup {<<n, Len(os[n]) + 1>>}
       /\ wiped' = wiped \ {n} /\ joined' = joined \cup {n}

\* StartNode, once the nodes before it are ready: a limit, two ports, a launch.
Predecessors(n) == {p \in 1..(n - 1) : members[p].there}
StartNode(n, err) ==
  \/ /\ err /\ Predecessors(n) # {}
     /\ \E p \in Predecessors(n) : WaitReady(p, TRUE)
     /\ UNCHANGED <<members, os, watching, nodeVars>>
  \/ /\ \A p \in Predecessors(n) : Ready(p)
     /\ ~members[n].there
     /\ \/ err /\ Limited /\ Limit(n, TRUE) /\ UNCHANGED <<members, os, watching, leased, wiped, joined>>
        \/ /\ err /\ Fails                                    \* no port
           /\ mounts' = [mounts EXCEPT ![n] = @ + (IF Limited THEN 1 ELSE 0)]
           /\ UNCHANGED <<members, os, watching, leased, wiped, joined>>
        \/ /\ mounts' = [mounts EXCEPT ![n] = @ + (IF Limited THEN 1 ELSE 0)]
           /\ leased' = [leased EXCEPT ![n] = 2]
           /\ LaunchLocked(n, [Gone EXCEPT !.there = TRUE], err)

\* CleanNode: a directory under a mount cannot be removed.
CleanNode(n, err) ==
  \/ err /\ Limited /\ Unlimit(n, TRUE) /\ UNCHANGED wiped
  \/ LET left == IF Limited THEN Unlimited(n) ELSE mounts[n]
     IN  /\ mounts' = [mounts EXCEPT ![n] = left]
         /\ IF err THEN (IF left > 0 THEN Works ELSE Fails) /\ UNCHANGED wiped
                   ELSE left = 0 /\ Works /\ wiped' = wiped \cup {n}

\* Wipe
Wipe(n, err) ==
  \/ err /\ (~members[n].there \/ Running(n)) /\ Works /\ UNCHANGED <<mounts, wiped>>
  \/ /\ members[n].there /\ ~Running(n)
     /\ \/ err /\ Fails /\ UNCHANGED <<mounts, wiped>>
        \/ /\ err /\ Limited /\ Fails                         \* no new limit
           /\ mounts' = [mounts EXCEPT ![n] = Unlimited(n)] /\ wiped' = wiped \cup {n}
        \/ ~err /\ Works /\ wiped' = wiped \cup {n} /\ UNCHANGED mounts

\* Remove, through the first running member that takes the request; one that
\* fails may have reached the leader.
Remove(n, err) ==
  \/ /\ err /\ Responsive \ {n} = {} /\ Works /\ UNCHANGED joined
  \/ /\ err /\ Responsive \ {n} # {} /\ Fails /\ joined' \in {joined, joined \ {n}}
  \/ /\ ~err /\ \E p \in Responsive \ {n} : Ready(p)
     /\ Works /\ joined' = joined \ {n}

\* Crash
Crash(n, err) ==
  IF ~Running(n)
  THEN err /\ Works /\ UNCHANGED <<members, os>>
  ELSE /\ members' = [members EXCEPT ![n].proc = 0, ![n].paused = FALSE, ![n].unstopped = @ \/ err]
       /\ IF err THEN Fails /\ (UNCHANGED os \/ Kill(n, members[n].proc))
                 ELSE Works /\ Kill(n, members[n].proc)

\* signalPause: a signal to a process that has exited may fail or be lost on it,
\* and one that fails may have been delivered.
SignalPause(n, paused, err) ==
  LET g == members[n].proc
      Deliver == os' = [os EXCEPT ![n][g] = IF Alive(n, g) THEN (IF paused THEN "frozen" ELSE "running") ELSE @]
  IN  \/ err /\ ~Running(n) /\ Works /\ UNCHANGED <<members, os>>
      \/ ~err /\ Running(n) /\ Paused(n) = paused /\ Works /\ UNCHANGED <<members, os>>
      \/ /\ Running(n) /\ Paused(n) # paused
         /\ IF err THEN /\ IF Alive(n, g) THEN Fails ELSE Works
                        /\ UNCHANGED members /\ (UNCHANGED os \/ Deliver)
                   ELSE Works /\ members' = [members EXCEPT ![n].paused = paused] /\ Deliver

\* Faulty variant: a restart beside a process that may still be running.
RestartRegardless(n, err) ==
  IF ~members[n].there
  THEN err /\ Works /\ UNCHANGED <<members, os, watching, wiped, joined>>
  ELSE LaunchLocked(n, members[n], err)

\* Restart
Restart(n, err) ==
  IF ~members[n].there \/ members[n].unstopped \/ members[n].stopping
  THEN err /\ Works /\ UNCHANGED <<members, os, watching, wiped, joined>>
  ELSE LaunchLocked(n, members[n], err)

-----------------------------------------------------------------------------
(* Shutdown: take the process off its member, stop it without the lock, and *)
(* put down what came of it.                                                *)
ShutdownTake(c, n) ==
  /\ calls[c] = NoCall /\ Running(n)
  /\ calls' = [calls EXCEPT ![c] = [node |-> n, proc |-> members[n].proc, paused |-> members[n].paused,
                                    step |-> "stop", err |-> FALSE]]
  /\ members' = [members EXCEPT ![n].proc = 0, ![n].paused = FALSE, ![n].stopping = TRUE]
  /\ UNCHANGED <<exits, os, watching, lost, nodeVars, fails, deaths>>

ShutdownStop(c) ==
  /\ calls[c].step = "stop"
  /\ \E result \in {"code", "timeout", "error"} :
       /\ Stop(calls[c].node, calls[c].proc, calls[c].paused, result)
       /\ calls' = [calls EXCEPT ![c].step = "finish", ![c].err = result = "error"]
  /\ UNCHANGED <<memberVars, watching, lost, nodeVars, deaths>>

ShutdownFinish(c) ==
  /\ calls[c].step = "finish"
  /\ members' = [members EXCEPT ![calls[c].node].stopping = FALSE,
                                ![calls[c].node].unstopped = @ \/ calls[c].err]
  /\ calls' = [calls EXCEPT ![c] = NoCall]
  /\ UNCHANGED <<exits, os, watching, lost, nodeVars, fails, deaths>>

\* StopNode: the same, for the teardown, and the ports given back.
StopNodeTake(n) ==
  /\ calls["a"] = NoCall /\ members[n].there
  /\ calls' = [calls EXCEPT !["a"] = [node |-> n, proc |-> members[n].proc, paused |-> members[n].paused,
                                      step |-> "teardown", err |-> members[n].unstopped]]
  /\ members' = [members EXCEPT ![n] = Gone]
  /\ UNCHANGED <<exits, os, watching, lost, nodeVars, fails, deaths>>

StopNodeStop(n, err) ==
  /\ calls["a"].step = "teardown" /\ calls["a"].node = n
  /\ IF calls["a"].proc = 0
     THEN err = calls["a"].err /\ Works /\ UNCHANGED os
     ELSE \E result \in {"code", "timeout", "error"} :
            /\ Stop(n, calls["a"].proc, calls["a"].paused, result)
            /\ err = (calls["a"].err \/ result = "error")
  /\ leased' = [leased EXCEPT ![n] = 0]
  /\ calls' = [calls EXCEPT !["a"] = NoCall]
  /\ UNCHANGED <<memberVars, watching, lost, mounts, wiped, joined, deaths>>

-----------------------------------------------------------------------------
\* A process exits that nobody told to.
OwnExit(n, g) ==
  /\ deaths > 0 /\ Alive(n, g)
  /\ deaths' = deaths - 1 /\ os' = [os EXCEPT ![n][g] = "exited"]
  /\ UNCHANGED <<memberVars, watching, lost, nodeVars, calls, fails>>

\* Faulty variant: an exit is recorded whoever caused it.
TakeOffAnyway(n, g) ==
  /\ members' = [members EXCEPT ![n].proc = IF @ = g THEN 0 ELSE @, ![n].paused = @ /\ members[n].proc # g]
  /\ exits' = exits \cup {<<n, g>>}

\* watch, once its Wait has returned
TakeOff(n, g) ==
  IF members[n].proc = g
  THEN /\ members' = [members EXCEPT ![n].proc = 0, ![n].paused = FALSE]
       /\ exits' = exits \cup {<<n, g>>}
  ELSE UNCHANGED memberVars

Watch(n, g) ==
  /\ <<n, g>> \in watching /\ watching' = watching \ {<<n, g>>}
  /\ TakeOff(n, g)
  /\ \/ ~Alive(n, g) /\ UNCHANGED <<os, lost, fails>>
     \/ /\ Alive(n, g) /\ members[n].proc = g                 \* Wait lost the process
        /\ Fails
        /\ \/ /\ os' = [os EXCEPT ![n][g] = "dropped"]         \* and Close ended it
              /\ UNCHANGED lost
           \/ lost' = lost \cup {<<n, g>>} /\ UNCHANGED os    \* or did not
  /\ UNCHANGED <<nodeVars, calls, deaths>>

Background == \E n \in Nodes : \E g \in DOMAIN os[n] : OwnExit(n, g) \/ Watch(n, g)

-----------------------------------------------------------------------------
(* A job is told of an exit only if the process exited by itself or was     *)
(* lost: no crash, stop or teardown of the service's own doing is reported, *)
(* however late its watcher comes to it.                                    *)
ExitsAreUnasked ==
  \A e \in exits : os[e[1]][e[2]] \in {"exited", "dropped"} \/ e \in lost

=============================================================================

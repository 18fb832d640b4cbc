------------------------------ MODULE RqChaos -------------------------------
(***************************************************************************)
(* The rqlite example's chaos job (examples/rqlite/qa/chaos.go) and its     *)
(* nemesis (nemesis.go) over RqService: start the cluster, inject one fault *)
(* at a time and heal it until the run's time is up, heal whatever is left, *)
(* read the final state, tear down.  The network and disk faults are those  *)
(* of netfault and diskfault.                                               *)
(*                                                                         *)
(* pc is where the job's goroutine is, and at the node its loop has come    *)
(* to.  What the cluster answers, and who leads it, is any answer it could  *)
(* give.                                                                    *)
(***************************************************************************)
EXTENDS RqService

CONSTANTS
  Faults,     \* the faults the job was asked for
  AllFaults,  \* they were asked for as "all"
  NetOK,      \* netfault.Check passed
  MaxFaults   \* bound: the faults of a run, or the calls of a free one

VARIABLES
  pc, at,
  fault,      \* the fault in effect: how to heal it, and the nodes it hit
  drops,      \* the packets each node's nft table drops
  shaped, full,   \* the nodes with a shape, and with a filled directory
  doubt,      \* a nemesis operation was recorded as Info
  left,       \* faults the run has time for
  failed,     \* the job's Run, or its setup, returned an error
  dirty       \* the nodes whose StopNode or CleanNode returned an error

faultVars == <<drops, shaped, full>>
jobVars == <<pc, at, fault, doubt, left, failed, dirty>>
vars == <<rqVars, faultVars, jobVars>>

\* netfault.rules; the zero value drops nothing.
NoRules == [from |-> {}, to |-> {}, large |-> FALSE]
NoFault == [heal |-> "none", nodes |-> <<>>]
Hit(heal, nodes) == [heal |-> heal, nodes |-> nodes]

NetFaults == {"partition-leader", "partition-half", "partition-bridge", "deafen-leader", "mtu-blackhole",
              "slow", "lossy"}
DiskFaults == {"disk-full"}

\* chaosJob.Run leaves out the faults the nodes cannot take, or refuses.
CanTake(f) == (f \in NetFaults => NetOK) /\ (f \in DiskFaults => Limited)
Usable == {f \in Faults : CanTake(f)}
Refused == (~AllFaults /\ Usable # Faults) \/ Usable = {}

Init ==
  /\ RqInit
  /\ pc = "prepare" /\ at = 1 /\ fault = NoFault
  /\ drops = [n \in Nodes |-> NoRules] /\ shaped = {} /\ full = {}
  /\ doubt = FALSE /\ left = MaxFaults /\ failed = FALSE /\ dirty = {}

-----------------------------------------------------------------------------
(* ServiceBase.Start and Wait.                                              *)
Fail == pc' = "stop" /\ at' = 1 /\ failed' = TRUE

Prepare ==
  /\ pc = "prepare"
  /\ \E err \in BOOLEAN :
       /\ CleanNode(at, err)
       /\ IF err THEN Fail ELSE pc' = "start" /\ UNCHANGED <<at, failed>>
  /\ UNCHANGED <<memberVars, os, watching, lost, leased, joined, calls, deaths, faultVars, fault, doubt, left, dirty>>

Start ==
  /\ pc = "start"
  /\ \E err \in BOOLEAN :
       /\ StartNode(at, err)
       /\ IF err THEN Fail
          ELSE /\ IF at < N THEN pc' = "prepare" /\ at' = at + 1 ELSE pc' = "wait" /\ at' = 1
               /\ UNCHANGED failed
  /\ UNCHANGED <<exits, lost, calls, deaths, faultVars, fault, doubt, left, dirty>>

\* A loop over the nodes that waits on each, and what comes after it.
Onward(here, then) == IF at < N THEN pc' = here /\ at' = at + 1 ELSE pc' = then /\ at' = 1
Wait(here, then) ==
  /\ pc = here
  /\ \E err \in BOOLEAN :
       /\ WaitReady(at, err)
       /\ IF err THEN Fail ELSE Onward(here, then) /\ UNCHANGED failed
  /\ UNCHANGED <<memberVars, os, watching, lost, nodeVars, calls, deaths, faultVars, fault, doubt, left, dirty>>

\* Run, up to its nemesis: a leader, a table, and the faults to inject.
Begin ==
  /\ pc = "begin"
  /\ IF Refused \/ ~\E n \in Responsive : Ready(n) THEN Fail ELSE pc' = "quiet" /\ UNCHANGED <<at, failed>>
  /\ UNCHANGED <<rqVars, faultVars, fault, doubt, left, dirty>>

-----------------------------------------------------------------------------
(* nemesis.inject                                                           *)

\* target: the leader some running node names, or a responsive node.
Target(leader) == IF leader /\ Responsive # {} THEN Nodes ELSE Responsive

\* run: what becomes of an injected fault -- held, then healed -- or of one that
\* leaves nothing to heal.
Injected(f, err) ==
  /\ fault' = f /\ doubt' = (doubt \/ err)
  /\ pc' = IF f.heal = "none" THEN "quiet" ELSE "hold"
  /\ at' = 1

Pick(kinds) == pc = "quiet" /\ left > 0 /\ kinds \cap Usable # {} /\ left' = left - 1

InjectCrash ==
  /\ \E leader \in BOOLEAN : /\ Pick({IF leader THEN "crash-leader" ELSE "crash"})
                             /\ \E n \in Target(leader), err \in BOOLEAN :
                                  /\ Crash(n, err)
                                  /\ Injected(IF err THEN NoFault ELSE Hit("restart", <<n>>), err)
  /\ UNCHANGED <<exits, watching, lost, nodeVars, calls, deaths, faultVars, failed, dirty>>

Quorum == N \div 2 + 1

\* errNoTarget
NoTarget(f) ==
  CASE f = "crash-majority" -> Cardinality(Responsive) < Quorum
    [] f = "replace-disk" -> Responsive = {} \/ \E leader \in Target(TRUE) : Responsive \ {leader} = {}
    [] f \in {"partition-half", "partition-bridge", "slow", "lossy"} -> FALSE
    [] OTHER -> Responsive = {}
InjectNothing ==
  /\ \E f \in Usable : Pick({f}) /\ NoTarget(f)
  /\ Injected(NoFault, TRUE)
  /\ UNCHANGED <<rqVars, faultVars, failed, dirty>>

\* A snapshot, a reap or a stepdown is over when the call is.
InjectCall ==
  /\ Pick({"snapshot", "reap", "stepdown"}) /\ Responsive # {}
  /\ \E err \in BOOLEAN : (IF err THEN Fails ELSE Works) /\ Injected(NoFault, err)
  /\ UNCHANGED <<memberVars, os, watching, lost, nodeVars, calls, deaths, faultVars, failed, dirty>>

\* The victims are crashed one by one; the first failure ends it with no heal.
InjectMajority ==
  /\ Pick({"crash-majority"}) /\ Cardinality(Responsive) >= Quorum
  /\ \E victims \in [1..Quorum -> Responsive] :
       /\ \A i, j \in 1..Quorum : i # j => victims[i] # victims[j]
       /\ fault' = Hit("restart", victims)
  /\ pc' = "majority" /\ at' = 1
  /\ UNCHANGED <<rqVars, faultVars, doubt, failed, dirty>>
CrashNext ==
  /\ pc = "majority"
  /\ \E err \in BOOLEAN :
       /\ Crash(fault.nodes[at], err)
       /\ IF err THEN Injected(NoFault, TRUE)
          ELSE IF at = Quorum THEN Injected(fault, FALSE)
          ELSE at' = at + 1 /\ UNCHANGED <<pc, fault, doubt>>
  /\ UNCHANGED <<exits, watching, lost, nodeVars, calls, deaths, faultVars, left, failed, dirty>>

\* A stop that fails is an anomaly, not the operation's error, and is healed too.
InjectStop ==
  /\ \E leader \in BOOLEAN :
       /\ Pick({IF leader THEN "stop-leader" ELSE "stop"})
       /\ \E n \in Target(leader) :
            IF Running(n)
            THEN ShutdownTake("a", n) /\ pc' = "stopping" /\ fault' = Hit("restart", <<n>>) /\ UNCHANGED <<at, doubt>>
            ELSE Injected(Hit("restart", <<n>>), FALSE) /\ UNCHANGED rqVars
  /\ UNCHANGED <<faultVars, failed, dirty>>
Stopping ==
  /\ pc = "stopping" /\ UNCHANGED <<faultVars, left, failed, dirty>>
  /\ \/ ShutdownStop("a") /\ UNCHANGED <<pc, at, fault, doubt>>
     \/ ShutdownFinish("a") /\ Injected(fault, FALSE)

InjectPause ==
  /\ \E leader \in BOOLEAN : /\ Pick({IF leader THEN "pause-leader" ELSE "pause"})
                             /\ \E n \in Target(leader), err \in BOOLEAN :
                                  /\ SignalPause(n, TRUE, err)
                                  /\ Injected(IF err THEN NoFault ELSE Hit("resume", <<n>>), err)
  /\ UNCHANGED <<exits, watching, lost, nodeVars, calls, deaths, faultVars, failed, dirty>>

\* replace-disk: crash a follower, remove it, wipe it.
InjectReplace ==
  /\ Pick({"replace-disk"})
  /\ \E leader \in Target(TRUE), n \in Responsive, err \in BOOLEAN :
       /\ n # leader /\ Crash(n, err)
       /\ IF err THEN Injected(NoFault, TRUE)
                 ELSE pc' = "remove" /\ fault' = Hit("restart", <<n>>) /\ UNCHANGED <<at, doubt>>
  /\ UNCHANGED <<exits, watching, lost, nodeVars, calls, deaths, faultVars, failed, dirty>>

\* Faulty variant: the disk is replaced though the node may still be a member.
RemoveFollowerRegardless ==
  /\ pc = "remove"
  /\ \E err \in BOOLEAN : Remove(fault.nodes[1], err)
  /\ pc' = "wipe" /\ UNCHANGED <<at, fault, doubt>>
  /\ UNCHANGED <<memberVars, os, watching, lost, leased, mounts, wiped, calls, deaths, faultVars, left, failed, dirty>>

RemoveFollower ==
  /\ pc = "remove"
  /\ \E err \in BOOLEAN :
       /\ Remove(fault.nodes[1], err)
       /\ IF err THEN Injected(fault, TRUE) ELSE pc' = "wipe" /\ UNCHANGED <<at, fault, doubt>>
  /\ UNCHANGED <<memberVars, os, watching, lost, leased, mounts, wiped, calls, deaths, faultVars, left, failed, dirty>>
WipeFollower ==
  /\ pc = "wipe"
  /\ \E err \in BOOLEAN : Wipe(fault.nodes[1], err) /\ Injected(fault, err)
  /\ UNCHANGED <<memberVars, os, watching, lost, leased, joined, calls, deaths, faultVars, left, failed, dirty>>

\* diskfault.Fill: one that fails may have written some of its file, and is freed
\* too.
Fill(n, err) == IF err THEN Fails /\ full' \in {full, full \cup {n}} ELSE Works /\ full' = full \cup {n}
InjectFull ==
  /\ Pick({"disk-full"})
  /\ \E n \in Target(TRUE), err \in BOOLEAN :
       /\ Fill(n, err)
       /\ Injected(Hit("free", <<n>>), err)
  /\ UNCHANGED <<memberVars, os, watching, lost, nodeVars, calls, deaths, drops, shaped, failed, dirty>>

-----------------------------------------------------------------------------
(* netfault.  A node's rules are replaced in one nft transaction; each goes *)
(* on past a node that fails, and one that fails may have been reached.     *)
Each(new, err) ==
  \E done \in SUBSET DOMAIN new :
    /\ IF err THEN Fails ELSE Works /\ done = DOMAIN new
    /\ drops' = [n \in Nodes |-> IF n \in done THEN new[n] ELSE drops[n]]

\* Partition: the nodes a node shares no group with.
Cut(groups, n) == {p \in UNION groups : p # n /\ ~\E g \in groups : {n, p} \subseteq g}
Partition(groups, err) ==
  Each([n \in UNION groups |-> [from |-> Cut(groups, n), to |-> Cut(groups, n), large |-> FALSE]], err)
Isolate(n, err) == Partition({{n}, Nodes \ {n}}, err)
Block(to, from, err) == Each([n \in {to} |-> [from |-> from, to |-> {}, large |-> FALSE]], err)
Blackhole(to, from, err) == Each([n \in {to} |-> [from |-> from, to |-> {}, large |-> TRUE]], err)
Heal(err) == Each([n \in Nodes |-> NoRules], err)

\* A bridge of three nodes or more: the node at the split is in both halves.
Halves == {{a, Nodes \ a} : a \in {a \in SUBSET Nodes : Cardinality(a) = N \div 2}}
Bridges == {{a \cup {n}, Nodes \ a} : a \in {a \in SUBSET Nodes : Cardinality(a) = N \div 2}, n \in Nodes}

InjectNet ==
  /\ \E err \in BOOLEAN :
       /\ \/ Pick({"partition-leader"}) /\ \E l \in Target(TRUE) : Isolate(l, err)
          \/ Pick({"partition-half"}) /\ \E groups \in Halves : Partition(groups, err)
          \/ Pick({"partition-bridge"}) /\ \E groups \in (IF N >= 3 THEN Bridges ELSE Halves) : Partition(groups, err)
          \/ Pick({"deafen-leader"}) /\ \E l \in Target(TRUE) : Block(l, Nodes \ {l}, err)
          \/ /\ Pick({"mtu-blackhole"})
             /\ \E l \in Target(TRUE) : \E f \in Nodes \ {l} : Blackhole(f, {l}, err)
       /\ Injected(Hit("net", <<>>), err)
  /\ UNCHANGED <<memberVars, os, watching, lost, nodeVars, calls, deaths, shaped, full, failed, dirty>>

SetShape(n, err) ==
  IF err THEN Fails /\ shaped' \in {shaped, shaped \cup {n}} ELSE Works /\ shaped' = shaped \cup {n}
InjectShape ==
  /\ Pick({"slow", "lossy"})
  /\ \E n \in Nodes, err \in BOOLEAN :
       /\ SetShape(n, err)
       /\ Injected(Hit("unshape", <<n>>), err)
  /\ UNCHANGED <<memberVars, os, watching, lost, nodeVars, calls, deaths, drops, full, failed, dirty>>

\* Unshape and diskfault.Free
Unshape(n, err) == IF err THEN Fails /\ UNCHANGED shaped ELSE Works /\ shaped' = shaped \ {n}
Free(n, err) == IF err THEN Fails /\ UNCHANGED full ELSE Works /\ full' = full \ {n}

-----------------------------------------------------------------------------
(* nemesis.run: the fault is healed when its hold is over, or the run is.   *)
Mended(err) == fault' = NoFault /\ doubt' = (doubt \/ err) /\ pc' = "quiet" /\ at' = 1

Mend ==
  /\ pc = "hold"
  /\ \E err \in BOOLEAN :
       \/ /\ fault.heal = "restart"
          /\ Restart(fault.nodes[at], err)
          /\ IF err \/ at = Len(fault.nodes) THEN Mended(err) ELSE at' = at + 1 /\ UNCHANGED <<pc, fault, doubt>>
          /\ UNCHANGED <<faultVars, mounts>>
       \/ /\ fault.heal = "resume" /\ SignalPause(fault.nodes[1], FALSE, err) /\ Mended(err)
          /\ UNCHANGED <<faultVars, watching, wiped, joined, mounts>>
       \/ /\ Mended(err) /\ UNCHANGED <<members, os, watching, wiped, joined, mounts>>
          /\ \/ fault.heal = "net" /\ Heal(err) /\ UNCHANGED <<shaped, full>>
             \/ fault.heal = "unshape" /\ Unshape(fault.nodes[1], err) /\ UNCHANGED <<drops, full>>
             \/ fault.heal = "free" /\ Free(fault.nodes[1], err) /\ UNCHANGED <<drops, shaped>>
  /\ UNCHANGED <<exits, lost, leased, calls, deaths, left, failed, dirty>>

\* The run's time is up, which the nemesis notices between faults.
RunOver ==
  /\ pc = "quiet" /\ pc' = "free" /\ at' = 1
  /\ UNCHANGED <<rqVars, faultVars, fault, doubt, left, failed, dirty>>

-----------------------------------------------------------------------------
(* nemesis.healAll, which returns at the first failure.                     *)
healRest == <<exits, lost, leased, mounts, calls, deaths, fault, doubt, left, dirty>>
Step(err, here, then) == IF err THEN Fail ELSE Onward(here, then) /\ UNCHANGED failed

HealDisks ==
  /\ pc = "free" /\ UNCHANGED <<members, os, watching, wiped, joined, drops, shaped>> /\ UNCHANGED healRest
  /\ IF Limited THEN \E err \in BOOLEAN : Free(at, err) /\ Step(err, "free", "net")
     ELSE pc' = "net" /\ UNCHANGED <<at, failed, full, fails>>

HealNet ==
  /\ pc = "net" /\ UNCHANGED <<members, os, watching, wiped, joined, shaped, full>> /\ UNCHANGED healRest
  /\ IF NetOK THEN \E err \in BOOLEAN : /\ Heal(err)
                                        /\ IF err THEN Fail ELSE pc' = "unshape" /\ UNCHANGED <<at, failed>>
     ELSE pc' = "resume" /\ UNCHANGED <<at, failed, drops, fails>>

\* Faulty variant: the shapes are taken to be gone with the partitions.
HealShapesNot ==
  /\ pc = "unshape" /\ pc' = "resume" /\ UNCHANGED <<rqVars, faultVars, at, fault, doubt, left, failed, dirty>>

HealShapes ==
  /\ pc = "unshape" /\ UNCHANGED <<members, os, watching, wiped, joined, drops, full>> /\ UNCHANGED healRest
  /\ \E err \in BOOLEAN : Unshape(at, err) /\ Step(err, "unshape", "resume")

HealPaused ==
  /\ pc = "resume" /\ UNCHANGED <<watching, wiped, joined, faultVars>> /\ UNCHANGED healRest
  /\ IF Paused(at)
     THEN \E err \in BOOLEAN : /\ SignalPause(at, FALSE, err)
                               /\ IF err THEN Fail ELSE pc' = "restart" /\ UNCHANGED <<at, failed>>
     ELSE pc' = "restart" /\ UNCHANGED <<at, failed, members, os, fails>>

HealStopped ==
  /\ pc = "restart" /\ UNCHANGED faultVars /\ UNCHANGED healRest
  /\ IF ~Running(at)
     THEN \E err \in BOOLEAN : Restart(at, err) /\ Step(err, "resume", "ready")
     ELSE Step(FALSE, "resume", "ready") /\ UNCHANGED <<members, os, watching, wiped, joined, fails>>

\* The rest of healAll waits: every node ready, a leader, every node synced.
HealWaits == Wait("ready", "synced") \/ Wait("synced", "flush")

\* The rest of Run: the queues flushed, the final read, the copies converged, and
\* the verdict, which an exit makes a failure.
Finish ==
  /\ pc = "flush" /\ pc' = "stop" /\ at' = 1
  /\ failed' \in {b \in BOOLEAN : exits # {} => b}
  /\ UNCHANGED <<rqVars, faultVars, fault, doubt, left, dirty>>

-----------------------------------------------------------------------------
(* The teardown: ServiceBase.Stop and Clean, past every failure.            *)
Mark(err) == dirty' = IF err THEN dirty \cup {at} ELSE dirty

StopNode ==
  /\ pc = "stop" /\ UNCHANGED <<faultVars, fault, doubt, left, failed>>
  /\ \/ StopNodeTake(at) /\ UNCHANGED <<pc, at, dirty>>
     \/ \E err \in BOOLEAN : StopNodeStop(at, err) /\ Mark(err) /\ Onward("stop", "clean")
     \/ /\ calls["a"] = NoCall /\ ~members[at].there
        /\ Onward("stop", "clean") /\ UNCHANGED <<rqVars, dirty>>

Clean ==
  /\ pc = "clean"
  /\ \E err \in BOOLEAN : CleanNode(at, err) /\ Mark(err) /\ Onward("clean", "done")
  /\ UNCHANGED <<memberVars, os, watching, lost, leased, joined, calls, deaths, faultVars, fault, doubt, left, failed>>

-----------------------------------------------------------------------------
(* Instead of the chaos job, two goroutines of some job that call the       *)
(* service as they like on one node of a cluster that is up.                *)
InitCalls ==
  /\ members = [n \in Nodes |-> [Gone EXCEPT !.there = TRUE, !.proc = 1]] /\ os = [n \in Nodes |-> <<"running">>]
  /\ watching = {<<n, 1>> : n \in Nodes} /\ exits = {} /\ lost = {}
  /\ leased = [n \in Nodes |-> 2] /\ mounts = [n \in Nodes |-> IF Limited THEN 1 ELSE 0]
  /\ wiped = {} /\ joined = Nodes
  /\ calls = [c \in Callers |-> NoCall] /\ deaths \in 0..MaxDeaths /\ fails = MaxFails - deaths
  /\ pc = "calls" /\ at = 1 /\ fault = NoFault
  /\ drops = [n \in Nodes |-> NoRules] /\ shaped = {} /\ full = {}
  /\ doubt = FALSE /\ left = 2 * MaxFaults /\ failed = FALSE /\ dirty = {}

Call(c) ==
  /\ pc = "calls" /\ UNCHANGED <<pc, at, fault, doubt, failed, dirty, faultVars>>
  /\ \/ /\ calls[c] = NoCall /\ left > 0 /\ left' = left - 1
        /\ \/ ShutdownTake(c, 1)
           \/ /\ \E err \in BOOLEAN :
                   \/ Crash(1, err) /\ UNCHANGED <<watching, wiped, joined>>
                   \/ \E paused \in BOOLEAN : SignalPause(1, paused, err) /\ UNCHANGED <<watching, wiped, joined>>
                   \/ Restart(1, err)
              /\ UNCHANGED <<exits, lost, leased, mounts, calls, deaths>>
     \/ (ShutdownStop(c) \/ ShutdownFinish(c)) /\ UNCHANGED left

CallsOver ==
  /\ pc = "calls" /\ \A c \in Callers : calls[c] = NoCall
  /\ pc' = "stop" /\ UNCHANGED <<rqVars, faultVars, at, fault, doubt, left, failed, dirty>>

-----------------------------------------------------------------------------
Inject == \/ InjectCrash \/ InjectNothing \/ InjectCall \/ InjectMajority \/ CrashNext
          \/ InjectStop \/ Stopping \/ InjectPause \/ InjectReplace \/ RemoveFollower \/ WipeFollower
          \/ InjectFull \/ InjectNet \/ InjectShape

Job == \/ Prepare \/ Start \/ Wait("wait", "begin") \/ Begin \/ Inject \/ Mend \/ RunOver
       \/ HealDisks \/ HealNet \/ HealShapes \/ HealPaused \/ HealStopped \/ HealWaits \/ Finish
       \/ StopNode \/ Clean \/ (\E c \in Callers : Call(c)) \/ CallsOver

Next == Job \/ (Background /\ UNCHANGED <<faultVars, jobVars>>)

Spec == (Init \/ InitCalls) /\ [][Next]_vars

-----------------------------------------------------------------------------
\* Nothing is cut, shaped, full or paused, and a node is down only by itself.
Whole ==
  /\ \A n \in Nodes : drops[n] = NoRules /\ ~Paused(n)
  /\ shaped = {} /\ full = {}
  /\ \A n \in Nodes : Running(n) \/ <<n, Len(os[n])>> \in exits

(* When healAll returns nil no fault is left, whatever failed before it, so  *)
(* the final read is of a cluster nothing interferes with; and the nemesis   *)
(* has left none behind when its run ends unless it recorded an operation as *)
(* in doubt, a stop it could not finish or a fault it half applied included. *)
FaultsEnd == (pc = "flush" \/ (pc = "free" /\ at = 1 /\ ~doubt)) => Whole

(* At most one rqlited of the job's lives on a node while it runs, whichever *)
(* of Crash, Shutdown and Restart failed and whoever called them at once, and *)
(* none on a node whose StopNode and CleanNode returned nil, whose ports are  *)
(* then back and whose directory is under no mount.  The one exception is a  *)
(* process a watcher's Wait lost track of while it lived and whose Close then *)
(* failed, which watch does not record.                                       *)
OneServer ==
  \A n \in Nodes :
    LET known == {g \in Live(n) : <<n, g>> \notin lost}
    IN  /\ \A g, h \in known : g = h
        /\ pc = "done" /\ n \notin dirty => known = {} /\ leased[n] = 0 /\ mounts[n] = 0

(* A disk is erased only of a node the cluster has removed: replace-disk      *)
(* never has rqlited come back as a member that forgot what it promised.     *)
NoAmnesia == pc \notin {"prepare", "start", "stop", "clean", "done"} => wiped \cap joined = {}

=============================================================================

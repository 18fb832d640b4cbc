------------------------------ MODULE RqProofs ------------------------------
(***************************************************************************)
(* For any number of nodes and any faults: the rqlite example never runs    *)
(* two servers on a node, blames on nobody what it did itself, leaves no    *)
(* fault behind its healAll and never erases the disk of a member.          *)
(***************************************************************************)
EXTENDS RqServiceProofs

Heals == {"none", "restart", "resume", "net", "unshape", "free"}
FaultState == [heal : Heals, nodes : Seq(Nodes)]
Setup == {"prepare", "start"}
Nemeses == {"wait", "begin", "quiet", "hold", "majority", "stopping", "remove", "wipe"}
HealAll == {"free", "net", "unshape", "resume", "restart", "ready", "synced", "flush"}
Teardown == {"stop", "clean", "done"}

JobType ==
  /\ pc \in Setup \cup Nemeses \cup HealAll \cup Teardown \cup {"calls"}
  /\ at \in Nat /\ fault \in FaultState /\ doubt \in BOOLEAN

\* What the job's loops count: nodes, or the nodes of the fault.
AtOK ==
  /\ pc \notin {"hold", "majority", "stopping", "remove", "wipe"} => at \in Nodes
  /\ pc \in {"begin", "quiet", "net", "done", "calls"} => at = 1
  /\ pc = "free" /\ ~Limited => at = 1
  /\ pc \in {"majority", "stopping", "remove", "wipe"} => fault.heal = "restart"
  /\ pc = "majority" => at \in 1..Quorum /\ Len(fault.nodes) = Quorum
  /\ pc \in {"stopping", "remove", "wipe"} => Len(fault.nodes) = 1
  /\ pc = "hold" => /\ fault.heal # "none"
                    /\ fault.heal = "restart" => at \in 1..Len(fault.nodes)
                    /\ fault.heal \in {"resume", "unshape", "free"} => Len(fault.nodes) = 1

\* Who has a stop in progress, and when.
CallsOK ==
  /\ \A c \in Callers : calls[c].step = "idle" => calls[c] = NoCall
  /\ pc \notin {"stop", "stopping", "calls"} => \A c \in Callers : calls[c].step = "idle"
  /\ pc \in {"stop", "stopping"} => calls["b"].step = "idle"
  /\ pc = "stopping" => calls["a"].step \in {"stop", "finish"} /\ calls["a"].node = fault.nodes[1]
  /\ pc = "stop" => \/ calls["a"].step = "idle"
                    \/ calls["a"].step = "teardown" /\ calls["a"].node = at
  /\ pc = "calls" => \A c \in Callers : calls[c].step # "teardown"

\* What the teardown has done so far.
TornOK ==
  /\ pc \notin Teardown => dirty = {}
  /\ \A n \in Nodes : members[n].there \/ leased[n] = 0 \/ (calls["a"].step = "teardown" /\ calls["a"].node = n)
  /\ pc = "stop" => \A n \in Nodes : n < at => ~members[n].there
  /\ pc \in {"clean", "done"} => \A n \in Nodes : ~members[n].there
  /\ pc = "clean" => \A n \in Nodes : n < at => n \in dirty \/ mounts[n] = 0
  /\ pc = "done" => \A n \in Nodes : n \in dirty \/ mounts[n] = 0

\* No member's disk is erased.
DisksOK ==
  /\ pc \in Setup => \A n \in joined : n \in Nodes /\ n < at
  /\ pc \notin Teardown => wiped \cap joined = {}
  /\ pc = "wipe" => fault.nodes[1] \notin joined

InForce(heal) == pc = "hold" /\ fault.heal = heal

\* The nodes the fault in effect has taken down.
Excused(n) ==
  \/ pc \in {"stopping", "remove", "wipe"} /\ n = fault.nodes[1]
  \/ pc = "majority" /\ \E i \in 1..(at - 1) : n = fault.nodes[i]
  \/ InForce("restart") /\ \E i \in at..Len(fault.nodes) : n = fault.nodes[i]

\* Unless an operation is in doubt, the fault in effect is all there is.
FaultsOK ==
  /\ pc \in Setup \cup {"wait", "begin"} => ~doubt
  /\ pc \in Setup => \A n \in Nodes : n < at => Up(n)
  /\ pc \in Nemeses /\ ~doubt => \A n \in Nodes : Up(n) \/ Excused(n)
  /\ pc \in Setup \cup Nemeses /\ ~doubt =>
       /\ \A n \in Nodes : Paused(n) => InForce("resume") /\ n = fault.nodes[1]
       /\ ~InForce("net") => \A n \in Nodes : drops[n] = NoRules
       /\ \A n \in shaped : InForce("unshape") /\ n = fault.nodes[1]
       /\ \A n \in full : InForce("free") /\ n = fault.nodes[1]

\* What the nodes cannot take is never tried.
ToolsOK ==
  /\ shaped \subseteq Nodes /\ full \subseteq Nodes
  /\ ~NetOK => shaped = {} /\ \A n \in Nodes : drops[n] = NoRules
  /\ ~Limited => full = {}

\* What healAll has healed so far.
HealedOK ==
  /\ pc = "free" => (at = 1 /\ ~doubt => Whole) /\ \A n \in full : n >= at
  /\ pc \in HealAll \ {"free"} => full = {}
  /\ pc \in HealAll \ {"free", "net"} => \A n \in Nodes : drops[n] = NoRules
  /\ pc = "unshape" => \A n \in shaped : n >= at
  /\ pc \in {"resume", "restart", "ready", "synced", "flush"} => shaped = {}
  /\ pc \in {"resume", "restart"} => \A n \in Nodes : n < at => ~Paused(n) /\ Up(n)
  /\ pc = "restart" => ~Paused(at)
  /\ pc \in {"ready", "synced", "flush"} => \A n \in Nodes : ~Paused(n) /\ Up(n)

-----------------------------------------------------------------------------
(* The job.                                                                 *)

\* No call is in progress.
Idle == \A c \in Callers : calls[c].step = "idle"

JobOK == JobType /\ AtOK /\ CallsOK /\ TornOK /\ DisksOK /\ FaultsOK /\ ToolsOK /\ HealedOK
Inv == ServiceOK /\ JobOK

\* The ports and the mounts of each node.
PlacesOK == leased \in [Nodes -> Nat] /\ mounts \in [Nodes -> Nat]

\* What holds of a state with no call in progress.
LEMMA IdleCalls ==
  ASSUME JobOK, Idle, calls' = calls, pc' # "stopping"
  PROVE  CallsOK'
BY Zenon DEF JobOK, CallsOK, Idle, Callers

\* A step that fails the job in its setup or its Run leads to the teardown.
LEMMA FailKeeps ==
  ASSUME Inv, pc \notin Teardown, pc' = "stop", at' = 1, Idle,
         UNCHANGED <<calls, fault, doubt, dirty>>, ServiceOK', ToolsOK',
         \A n \in Nodes : members'[n].there \/ leased'[n] = 0
  PROVE  Inv'
<1>1. JobType'
  BY Zenon DEF Inv, JobOK, JobType, Teardown
<1>2. AtOK'
  BY NAssumption DEF AtOK, Nodes
<1>3. CallsOK'
  BY IdleCalls, Zenon DEF Inv
<1>4. TornOK'
  <2>1. dirty = {} /\ \A n \in Nodes : ~(n < 1)
    BY DEF Inv, JobOK, TornOK, Nodes
  <2> QED
    BY <2>1, Zenon DEF TornOK, Teardown
<1>5. DisksOK' /\ FaultsOK' /\ HealedOK'
  BY Zenon DEF DisksOK, FaultsOK, HealedOK, Setup, Nemeses, HealAll, Teardown
<1> QED
  BY <1>1, <1>2, <1>3, <1>4, <1>5, Zenon DEF Inv, JobOK

\* The faults are well formed: none, and one that hit a single node.
LEMMA FaultTypes ==
  ASSUME NEW heal \in Heals, NEW n \in Nodes
  PROVE  /\ NoFault \in FaultState /\ NoFault.heal = "none"
         /\ Hit(heal, <<n>>) \in FaultState /\ Hit(heal, <<n>>).heal = heal
         /\ Len(Hit(heal, <<n>>).nodes) = 1 /\ Hit(heal, <<n>>).nodes[1] = n
BY DEF NoFault, Hit, FaultState, Heals

\* The chaos job starts with nothing started.
LEMMA InitKeeps ==
  ASSUME Init
  PROVE  Inv
<1>0. 1 \in Nodes /\ N \in Nat
  BY NAssumption DEF Nodes
<1>1. ServiceOK
  <2>1. /\ Gone \in Member /\ NoCall \in CallState /\ <<>> \in Seq(ProcStates) /\ Len(<<>>) = 0
        /\ Gone.proc = 0 /\ NoCall.step = "idle"
    BY DEF Gone, Member, NoCall, CallState
  <2>2. /\ \A n \in Nodes : members[n] = Gone /\ os[n] = <<>>
        /\ \A c \in Callers : calls[c] = NoCall
    BY Zenon DEF Init, RqInit
  <2>3. ServiceType
    BY <2>1, Zenon DEF Init, RqInit, ServiceType
  <2>4. MembersOK
    BY <2>1, <2>2, Zenon DEF MembersOK, MemberOK
  <2>5. StopsOK
    BY <2>1, <2>2, Zenon DEF StopsOK, StopsApart, StopOK
  <2>6. KnownOK /\ ExitsOK
    BY <2>1, <2>2 DEF KnownOK, ExitsOK, Init, RqInit
  <2> QED
    BY <2>3, <2>4, <2>5, <2>6, Zenon DEF ServiceOK
<1>2. JobType /\ AtOK /\ ToolsOK
  <2>1. fault \in FaultState
    BY <1>0, FaultTypes, Zenon DEF Init, Heals
  <2> QED
    BY <1>0, <2>1, Zenon DEF Init, JobType, AtOK, ToolsOK, Setup, Nodes
<1>3. CallsOK
  BY Zenon DEF Init, RqInit, CallsOK, NoCall, Callers
<1>4. TornOK /\ DisksOK
  BY Zenon DEF Init, RqInit, TornOK, DisksOK, Setup, Teardown
<1>5. FaultsOK
  BY DEF Init, RqInit, FaultsOK, Setup, Nemeses, Gone, Paused, InForce, Nodes
<1>6. HealedOK
  BY Zenon DEF Init, HealedOK, HealAll
<1> QED
  BY <1>1, <1>2, <1>3, <1>4, <1>5, <1>6, Zenon DEF Inv, JobOK

\* A free job starts from a cluster that is up.
LEMMA InitCallsKeeps ==
  ASSUME InitCalls
  PROVE  Inv
<1>0. 1 \in Nodes /\ N \in Nat
  BY NAssumption DEF Nodes
<1>1. ServiceOK
  <2> DEFINE up == [Gone EXCEPT !.there = TRUE, !.proc = 1]
  <2>1. /\ up \in Member /\ up.there /\ up.proc = 1 /\ ~up.stopping
        /\ NoCall \in CallState /\ NoCall.step = "idle"
        /\ <<"running">> \in Seq(ProcStates) /\ Len(<<"running">>) = 1 /\ <<"running">>[1] = "running"
    <3>1. "running" \in ProcStates
      BY Zenon DEF ProcStates
    <3>2. <<"running">> \in Seq(ProcStates) /\ Len(<<"running">>) = 1 /\ <<"running">>[1] = "running"
      BY <3>1
    <3> QED
      BY <3>2, Zenon DEF Gone, Member, NoCall, CallState
  <2>2. /\ \A n \in Nodes : members[n] = up /\ os[n] = <<"running">>
        /\ \A c \in Callers : calls[c] = NoCall
    BY Zenon DEF InitCalls
  <2>3. ServiceType
    BY <2>1, Zenon DEF InitCalls, ServiceType
  <2> HIDE DEF up
  <2>4. MembersOK
    BY <2>1, <2>2, Zenon DEF MembersOK, MemberOK
  <2>5. StopsOK
    BY <2>1, <2>2, Zenon DEF StopsOK, StopsApart, StopOK
  <2>6. KnownOK
    BY <2>1, <2>2 DEF KnownOK, Accounted
  <2>7. ExitsOK
    BY Zenon DEF ExitsOK, InitCalls
  <2> QED
    BY <2>3, <2>4, <2>5, <2>6, <2>7, Zenon DEF ServiceOK
<1>2. JobType /\ AtOK /\ ToolsOK
  <2>1. fault \in FaultState
    BY <1>0, FaultTypes, Zenon DEF InitCalls, Heals
  <2> QED
    BY <1>0, <2>1, Zenon DEF InitCalls, JobType, AtOK, ToolsOK, Nodes
<1>3. CallsOK
  BY Zenon DEF InitCalls, CallsOK, NoCall, Callers
<1>4. TornOK /\ DisksOK
  BY Zenon DEF InitCalls, TornOK, DisksOK, Setup, Teardown, Gone
<1>5. FaultsOK /\ HealedOK
  BY Zenon DEF InitCalls, FaultsOK, Setup, Nemeses, HealedOK, HealAll
<1> QED
  BY <1>1, <1>2, <1>3, <1>4, <1>5, Zenon DEF Inv, JobOK

\* What a step that spares the nodes keeps of the job's records, wherever the job is.
LEMMA SparedKeeps ==
  ASSUME Inv, ServiceOK', Spares({}), UNCHANGED <<calls, nodeVars, faultVars, jobVars>>
  PROVE  Inv'
<1>1. UNCHANGED <<calls, leased, mounts, wiped, joined, drops, shaped, full, pc, at, fault, doubt, dirty>>
  BY Zenon DEF nodeVars, faultVars, jobVars
<1>2. \A m \in Nodes : (Up(m) => Up(m)') /\ (Paused(m)' => Paused(m)) /\ (members'[m].there <=> members[m].there)
  BY Zenon DEF Spares
<1>3. JobType' /\ AtOK' /\ CallsOK' /\ DisksOK' /\ ToolsOK'
  <2>1. JobType' /\ AtOK'
    BY <1>1, Zenon DEF Inv, JobOK, JobType, AtOK
  <2>2. CallsOK' /\ DisksOK'
    BY <1>1, Zenon DEF Inv, JobOK, CallsOK, DisksOK
  <2>3. ToolsOK'
    BY <1>1, Zenon DEF Inv, JobOK, ToolsOK
  <2> QED
    BY <2>1, <2>2, <2>3, Zenon
<1>4. TornOK'
  BY <1>1, <1>2, Zenon DEF Inv, JobOK, TornOK
<1>5. FaultsOK'
  BY <1>1, <1>2, Zenon DEF Inv, JobOK, FaultsOK, InForce, Excused
<1>6. HealedOK'
  <2>1. Whole => Whole'
    BY <1>1, <1>2, Zenon DEF Whole, Up
  <2>2. pc = "restart" => at \in Nodes
    BY Zenon DEF Inv, JobOK, AtOK
  <2> QED
    BY <1>1, <1>2, <2>1, <2>2, Zenon DEF Inv, JobOK, HealedOK
<1> QED
  BY <1>3, <1>4, <1>5, <1>6, Zenon DEF Inv, JobOK

\* ServiceBase.Start: a node's directory is erased before it first joins,
LEMMA PrepareKeeps ==
  ASSUME Inv, Prepare
  PROVE  Inv'
<1>1. PICK err \in BOOLEAN : CleanNode(at, err) /\ IF err THEN Fail ELSE pc' = "start" /\ UNCHANGED <<at, failed>>
  BY Zenon DEF Prepare
<1>2. /\ pc = "prepare" /\ Idle /\ at \in Nodes
      /\ UNCHANGED <<members, exits, os, lost, leased, joined, calls, drops, shaped, full, fault, doubt, dirty>>
  BY Zenon DEF Inv, JobOK, CallsOK, AtOK, Idle, Prepare, memberVars, faultVars
<1>3. ServiceOK' /\ Spares({})
  BY <1>2, SameKeeps, Zenon DEF Inv
<1>4. ToolsOK'
  BY <1>2, Zenon DEF Inv, JobOK, ToolsOK
<1>5. \A n \in Nodes : members'[n].there \/ leased'[n] = 0
  BY <1>2, Zenon DEF Inv, JobOK, TornOK, Idle, Callers
<1>6. CASE err
  BY <1>1, <1>2, <1>3, <1>4, <1>5, <1>6, FailKeeps, Zenon DEF Fail, Teardown
<1>7. CASE ~err
  <2>1. pc' = "start" /\ at' = at /\ wiped' = wiped \cup {at}
    BY <1>1, <1>7, Zenon DEF CleanNode
  <2>2. JobType' /\ AtOK'
    BY <1>2, <2>1, Zenon DEF Inv, JobOK, JobType, AtOK, Setup
  <2>3. CallsOK'
    BY <1>2, <2>1, IdleCalls, Zenon DEF Inv
  <2>4. TornOK'
    BY <1>2, <1>5, <2>1, Zenon DEF Inv, JobOK, TornOK, Teardown
  <2>5. DisksOK'
    BY <1>2, <2>1 DEF Inv, JobOK, JobType, DisksOK, Setup, Teardown
  <2>6. FaultsOK'
    BY <1>2, <1>3, <2>1, Zenon DEF Inv, JobOK, FaultsOK, Spares, Setup, Nemeses, InForce
  <2>7. HealedOK'
    BY <2>1, Zenon DEF HealedOK, HealAll
  <2> QED
    BY <1>3, <1>4, <2>2, <2>3, <2>4, <2>5, <2>6, <2>7, Zenon DEF Inv, JobOK
<1> QED
  BY <1>6, <1>7, Zenon

\* and StartNode launches it.
LEMMA StartKeeps ==
  ASSUME Inv, PlacesOK, Start
  PROVE  Inv'
<1> DEFINE new == [Gone EXCEPT !.there = TRUE]
<1>1. PICK err \in BOOLEAN :
        /\ StartNode(at, err)
        /\ IF err THEN Fail
           ELSE /\ IF at < N THEN pc' = "prepare" /\ at' = at + 1 ELSE pc' = "wait" /\ at' = 1
                /\ UNCHANGED failed
  BY Zenon DEF Start
<1>2. /\ pc = "start" /\ Idle /\ at \in Nodes /\ at \notin dirty
      /\ UNCHANGED <<exits, lost, calls, drops, shaped, full, fault, doubt, dirty>>
  BY Zenon DEF Inv, JobOK, CallsOK, AtOK, TornOK, Teardown, Idle, Start, faultVars
<1>3. ToolsOK'
  BY <1>2, Zenon DEF Inv, JobOK, ToolsOK
<1>4. \A n \in Nodes : members[n].there \/ leased[n] = 0
  BY <1>2, Zenon DEF Inv, JobOK, TornOK, Idle, Callers
<1>5. \A c \in Callers : calls[c].step # "teardown"
  BY <1>2, Zenon DEF Idle
<1>6. leased \in [Nodes -> Nat]
  BY Zenon DEF PlacesOK
<1>7. CASE UNCHANGED <<members, os, leased>> /\ err
  <2>1. ServiceOK'
    BY <1>2, <1>7, SameKeeps, Zenon DEF Inv
  <2>2. \A n \in Nodes : members'[n].there \/ leased'[n] = 0
    BY <1>4, <1>7, Zenon
  <2> QED
    BY <1>1, <1>2, <1>3, <1>7, <2>1, <2>2, FailKeeps DEF Fail, Teardown
<1>8. CASE ~members[at].there /\ leased' = [leased EXCEPT ![at] = 2] /\ LaunchLocked(at, new, err)
  <2>1. CASE err
    <3>1. members' = [members EXCEPT ![at] = new] /\ os' = os
      BY <1>8, <2>1, Zenon DEF LaunchLocked
    <3>2. ServiceOK' /\ Spares({at}) /\ members'[at].there
      BY <3>1, <1>2, <1>5, <1>8, AddKeeps, Zenon DEF Inv
    <3>3. \A n \in Nodes : members'[n].there \/ leased'[n] = 0
      BY <3>2, <1>4, <1>6, <1>8, Zenon DEF Spares
    <3> QED
      BY <1>1, <1>2, <1>3, <2>1, <3>2, <3>3, FailKeeps DEF Fail, Teardown
  <2>2. CASE ~err
    <3>1. members[at].proc = 0 /\ ~members[at].stopping /\ ~members[at].unstopped
      BY <1>2, <1>8 DEF Inv, ServiceOK, MembersOK, MemberOK, Gone
    <3>2. new \in Member /\ new.there /\ ~new.stopping
      BY Zenon DEF Gone, Member
    <3>3. PICK n \in Nodes : n = at
      BY <1>2, Zenon
    <3>4. LaunchLocked(n, new, FALSE)
      BY <1>8, <2>2, <3>3, Zenon
    <3> HIDE DEF new
    <3>5. ServiceOK' /\ Spares({n}) /\ Running(n)' /\ ~Paused(n)' /\ members'[n].there
      BY <3>1, <3>2, <3>3, <3>4, <1>2, <1>5, LaunchKeeps, Zenon DEF Inv
    <3>6. wiped' = wiped \ {n} /\ joined' = joined \cup {n}
      BY <3>4, Zenon DEF LaunchLocked
    <3>7. \/ at < N /\ pc' = "prepare" /\ at' = at + 1
          \/ at = N /\ pc' = "wait" /\ at' = 1
      BY <1>1, <1>2, <2>2, NAssumption DEF Nodes
    <3>8. \A m \in Nodes : (m < at' \/ pc' = "wait") => m = n \/ m < at
      BY <1>2, <3>3, <3>7, NAssumption DEF Nodes
    <3>9. /\ \A m \in Nodes : (m < at' \/ pc' = "wait") => Up(m)'
          /\ \A m \in Nodes : ~Paused(m)'
      <4>1. \A m \in Nodes : m # n => (Up(m) => Up(m)') /\ (Paused(m)' => Paused(m))
        BY <3>5, Zenon DEF Spares
      <4>2. \A m \in Nodes : (m < at => Up(m)) /\ ~Paused(m)
        BY <1>2, Zenon DEF Inv, JobOK, FaultsOK, Setup, Nemeses, InForce
      <4>3. Up(n)'
        BY <3>5, Zenon DEF Up
      <4> QED
        BY <3>5, <3>8, <4>1, <4>2, <4>3, Zenon
    <3>10. JobType' /\ AtOK'
      BY <1>2, <3>7, NAssumption DEF Inv, JobOK, JobType, AtOK, Setup, Nemeses, Nodes
    <3>11. CallsOK'
      BY <1>2, <3>7, IdleCalls, Zenon DEF Inv
    <3>12. TornOK'
      <4>1. \A m \in Nodes : members'[m].there \/ leased'[m] = 0
        BY <3>3, <3>5, <1>4, <1>6, <1>8, Zenon DEF Spares
      <4> QED
        BY <4>1, <1>2, <3>7, Zenon DEF Inv, JobOK, TornOK, Teardown
    <3>13. DisksOK'
      <4>1. (\A m \in joined : m \in Nodes /\ m < at) /\ wiped \cap joined = {}
        BY <1>2, Zenon DEF Inv, JobOK, DisksOK, Setup, Teardown
      <4>2. pc' \in Setup => \A m \in joined' : m \in Nodes /\ m < at'
        BY <4>1, <1>2, <3>3, <3>6, <3>7 DEF Setup, Nodes
      <4>3. wiped' \cap joined' = {}
        BY <4>1, <3>6, Zenon
      <4> QED
        BY <3>7, <4>2, <4>3, Zenon DEF DisksOK
    <3>14. FaultsOK'
      BY <1>2, <3>7, <3>9, Zenon DEF Inv, JobOK, FaultsOK, Setup, Nemeses, InForce
    <3>15. HealedOK'
      BY <3>7, Zenon DEF HealedOK, HealAll
    <3> QED
      BY <1>3, <3>5, <3>10, <3>11, <3>12, <3>13, <3>14, <3>15, Zenon DEF Inv, JobOK
  <2> QED
    BY <2>1, <2>2, Zenon
<1> QED
  <2>1. (UNCHANGED <<members, os, leased>> /\ err) \/ (~members[at].there /\ leased' = [leased EXCEPT ![at] = 2] /\ LaunchLocked(at, new, err))
    BY <1>1, Zenon DEF StartNode, nodeVars
  <2> QED
    BY <2>1, <1>7, <1>8, Zenon

\* A wait for the next node to be ready, or for the job's own.
LEMMA WaitKeeps ==
  ASSUME Inv, NEW here, NEW then, Wait(here, then),
         \/ here = "wait" /\ then = "begin"
         \/ here = "ready" /\ then = "synced"
         \/ here = "synced" /\ then = "flush"
  PROVE  Inv'
<1>1. PICK err \in BOOLEAN : IF err THEN Fail ELSE Onward(here, then)
  BY Zenon DEF Wait
<1>2. /\ pc = here /\ Idle /\ at \in Nodes
      /\ UNCHANGED <<members, exits, os, lost, leased, mounts, wiped, joined, calls, drops, shaped, full, fault, doubt, dirty>>
  BY Zenon DEF Inv, JobOK, CallsOK, AtOK, Idle, Wait, memberVars, faultVars, nodeVars
<1>3. ServiceOK' /\ Spares({})
  BY <1>2, SameKeeps, Zenon DEF Inv
<1>4. ToolsOK'
  BY <1>2, Zenon DEF Inv, JobOK, ToolsOK
<1>5. \A n \in Nodes : members'[n].there \/ leased'[n] = 0
  BY <1>2, Zenon DEF Inv, JobOK, TornOK, Idle, Callers
<1>6. CASE err
  BY <1>1, <1>2, <1>3, <1>4, <1>5, <1>6, FailKeeps, Zenon DEF Fail, Teardown
<1>7. CASE ~err
  <2>1. pc' \in {here, then} /\ at' \in Nodes /\ (pc' # here => at' = 1)
    BY <1>1, <1>2, <1>7, NAssumption DEF Onward, Nodes
  <2>2. JobType' /\ AtOK'
    BY <1>2, <2>1, NAssumption DEF Inv, JobOK, JobType, AtOK, Nemeses, HealAll, Nodes
  <2>3. CallsOK'
    BY <1>2, <2>1, IdleCalls, Zenon DEF Inv
  <2>4. TornOK' /\ DisksOK'
    BY <1>2, <1>5, <2>1, Zenon DEF Inv, JobOK, TornOK, DisksOK, Teardown, Setup
  <2>5. FaultsOK'
    BY <1>2, <1>3, <2>1, Zenon DEF Inv, JobOK, FaultsOK, Spares, Setup, Nemeses, InForce, Excused
  <2>6. HealedOK'
    BY <1>2, <1>3, <2>1, Zenon DEF Inv, JobOK, HealedOK, Spares, HealAll
  <2> QED
    BY <1>3, <1>4, <2>2, <2>3, <2>4, <2>5, <2>6, Zenon DEF Inv, JobOK
<1> QED
  BY <1>6, <1>7, Zenon

\* Run begins, or refuses its faults.
LEMMA BeginKeeps ==
  ASSUME Inv, Begin
  PROVE  Inv'
<1>2. /\ pc = "begin" /\ Idle /\ at = 1
      /\ UNCHANGED <<members, exits, os, lost, leased, mounts, wiped, joined, calls, drops, shaped, full, fault, doubt, dirty>>
  BY Zenon DEF Inv, JobOK, CallsOK, AtOK, Idle, Begin, rqVars, memberVars, faultVars, nodeVars
<1>3. ServiceOK' /\ Spares({})
  BY <1>2, SameKeeps, Zenon DEF Inv
<1>4. ToolsOK'
  BY <1>2, Zenon DEF Inv, JobOK, ToolsOK
<1>5. \A n \in Nodes : members'[n].there \/ leased'[n] = 0
  BY <1>2, Zenon DEF Inv, JobOK, TornOK, Idle, Callers
<1>6. CASE Fail
  BY <1>2, <1>3, <1>4, <1>5, <1>6, FailKeeps, Zenon DEF Fail, Teardown
<1>7. CASE pc' = "quiet" /\ at' = at
  <2>2. JobType' /\ AtOK'
    BY <1>2, <1>7, NAssumption, Zenon DEF Inv, JobOK, JobType, AtOK, Nemeses, Nodes
  <2>3. CallsOK'
    BY <1>2, <1>7, IdleCalls, Zenon DEF Inv
  <2>4. TornOK' /\ DisksOK'
    BY <1>2, <1>5, <1>7, Zenon DEF Inv, JobOK, TornOK, DisksOK, Teardown, Setup
  <2>5. FaultsOK'
    BY <1>2, <1>3, <1>7, Zenon DEF Inv, JobOK, FaultsOK, Spares, Setup, Nemeses, InForce, Excused
  <2>6. HealedOK'
    BY <1>7, Zenon DEF HealedOK, HealAll
  <2> QED
    BY <1>3, <1>4, <2>2, <2>3, <2>4, <2>5, <2>6, Zenon DEF Inv, JobOK
<1> QED
  BY <1>6, <1>7, Zenon DEF Begin

-----------------------------------------------------------------------------
(* The nemesis.                                                             *)

\* Between faults, with none in doubt, nothing is wrong.
LEMMA QuietIsWhole ==
  ASSUME Inv, pc = "quiet", ~doubt
  PROVE  /\ \A n \in Nodes : Up(n) /\ ~Paused(n) /\ drops[n] = NoRules
         /\ shaped = {} /\ full = {}
BY Zenon DEF Inv, JobOK, FaultsOK, Nemeses, InForce, Excused

\* What a step of the nemesis leaves to show.
LEMMA NemesisKeeps ==
  ASSUME Inv, ServiceOK', pc \in Nemeses, pc' \in Nemeses, pc' # "stopping", Idle, UNCHANGED <<calls, leased, dirty>>,
         \A n \in Nodes : members'[n].there <=> members[n].there,
         wiped' \cap joined' = {}, pc' = "wipe" => fault'.nodes[1] \notin joined', JobType', AtOK', ToolsOK', FaultsOK'
  PROVE  Inv'
<1>1. CallsOK'
  BY IdleCalls, Zenon DEF Inv
<1>2. TornOK'
  BY Zenon DEF Inv, JobOK, TornOK, Nemeses, Teardown
<1>3. DisksOK' /\ HealedOK'
  BY Zenon DEF DisksOK, HealedOK, HealAll, Nemeses, Setup
<1> QED
  BY <1>1, <1>2, <1>3, Zenon DEF Inv, JobOK

\* The faults a nemesis injects, and what each may have done.
Confined(f) ==
  /\ \A n \in Nodes : Up(n) \/ (f.heal = "restart" /\ \E i \in 1..Len(f.nodes) : n = f.nodes[i])
  /\ \A n \in Nodes : Paused(n) => f.heal = "resume" /\ n = f.nodes[1]
  /\ f.heal # "net" => \A n \in Nodes : drops[n] = NoRules
  /\ \A n \in shaped : f.heal = "unshape" /\ n = f.nodes[1]
  /\ \A n \in full : f.heal = "free" /\ n = f.nodes[1]
Proper(f) ==
  /\ f \in FaultState
  /\ f.heal = "restart" => Len(f.nodes) >= 1
  /\ f.heal \in {"resume", "unshape", "free"} => Len(f.nodes) = 1

\* NoFault and the faults of one node are such faults.
LEMMA ProperFaults ==
  ASSUME NEW n \in Nodes
  PROVE  Proper(NoFault) /\ \A heal \in Heals : Proper(Hit(heal, <<n>>))
BY FaultTypes DEF Proper, Heals

\* A fault that was injected is held, or is over, and is all there is unless its
\* injection is in doubt.
LEMMA InjectedKeeps ==
  ASSUME JobType, NEW f, Proper(f), NEW err \in BOOLEAN, Injected(f, err),
         ~doubt /\ ~err => Confined(f)'
  PROVE  JobType' /\ AtOK' /\ FaultsOK' /\ pc' \in Nemeses /\ pc' \notin {"stopping", "wipe"}
<1>1. /\ fault' = f /\ (doubt' <=> doubt \/ err) /\ at' = 1 /\ doubt' \in BOOLEAN
      /\ f.heal = "none" => pc' = "quiet"
      /\ f.heal # "none" => pc' = "hold"
  BY Zenon DEF Injected, JobType
<1>2. JobType'
  BY <1>1, Zenon DEF JobType, Nemeses, Proper
<1>3. AtOK'
  BY <1>1, NAssumption DEF AtOK, Proper, FaultState, Nodes
<1>4. FaultsOK'
  BY <1>1, Zenon DEF FaultsOK, InForce, Excused, Confined, Setup, Nemeses, JobType
<1> QED
  BY <1>1, <1>2, <1>3, <1>4, Zenon DEF Nemeses

\* crash and crash-leader
LEMMA InjectCrashKeeps ==
  ASSUME Inv, InjectCrash
  PROVE  Inv'
<1>1. PICK leader \in BOOLEAN : /\ pc = "quiet"
                                /\ \E n \in Target(leader), err \in BOOLEAN :
                                     Crash(n, err) /\ Injected(IF err THEN NoFault ELSE Hit("restart", <<n>>), err)
  BY Zenon DEF InjectCrash, Pick
<1>2. PICK n \in Nodes, err \in BOOLEAN : Crash(n, err) /\ Injected(IF err THEN NoFault ELSE Hit("restart", <<n>>), err)
  BY <1>1, Zenon DEF Target, Responsive
<1>3. Idle /\ UNCHANGED <<exits, lost, leased, wiped, joined, calls, drops, shaped, full, dirty>>
  BY <1>1, Zenon DEF Inv, JobOK, CallsOK, Idle, InjectCrash, faultVars, nodeVars
<1>4. ServiceOK' /\ Spares({n}) /\ (Paused(n)' => Paused(n)) /\ (members'[n].there <=> members[n].there)
  BY <1>2, <1>3, CrashKeeps, Zenon DEF Inv
<1>5. PICK f : f = IF err THEN NoFault ELSE Hit("restart", <<n>>)
  BY Zenon
<1>6. Proper(f) /\ Injected(f, err) /\ (~err => f.heal = "restart" /\ Len(f.nodes) = 1 /\ f.nodes[1] = n)
  BY <1>2, <1>5, FaultTypes DEF Proper, Heals
<1>7. ~doubt /\ ~err => Confined(f)'
  BY <1>1, <1>3, <1>4, <1>6, QuietIsWhole DEF Spares, Confined
<1>8. JobType' /\ AtOK' /\ FaultsOK' /\ pc' \in Nemeses /\ pc' \notin {"stopping", "wipe"}
  BY <1>6, <1>7, InjectedKeeps, Zenon DEF Inv, JobOK
<1>9. ToolsOK' /\ wiped' \cap joined' = {}
  BY <1>1, <1>3, Zenon DEF Inv, JobOK, ToolsOK, DisksOK, Teardown
<1>10. \A m \in Nodes : members'[m].there <=> members[m].there
  BY <1>4, Zenon DEF Spares
<1> QED
  BY <1>1, <1>3, <1>4, <1>8, <1>9, <1>10, NemesisKeeps, Zenon DEF Nemeses

\* A fault that finds no target, and one that is over with its call.
LEMMA InjectNothingKeeps ==
  ASSUME Inv, InjectNothing \/ InjectCall
  PROVE  Inv'
<1>1. /\ pc = "quiet" /\ \E err \in BOOLEAN : Injected(NoFault, err)
      /\ UNCHANGED <<members, exits, os, lost, leased, wiped, joined, calls, drops, shaped, full, dirty>>
  BY Zenon DEF InjectNothing, InjectCall, Pick, rqVars, memberVars, nodeVars, faultVars
<1>2. PICK err \in BOOLEAN : Injected(NoFault, err)
  BY <1>1, Zenon
<1>3. Idle
  BY <1>1, Zenon DEF Inv, JobOK, CallsOK, Idle
<1>4. ServiceOK' /\ Spares({})
  BY <1>1, SameKeeps, Zenon DEF Inv
<1>5. PICK f : f = NoFault
  BY Zenon
<1>6. Proper(f) /\ Injected(f, err)
  <2>1. 1 \in Nodes
    BY NAssumption DEF Nodes
  <2> QED
    BY <2>1, <1>2, <1>5, ProperFaults, Zenon
<1>7. ~doubt /\ ~err => Confined(f)'
  BY <1>1, <1>4, QuietIsWhole, Zenon DEF Spares, Confined
<1>8. JobType' /\ AtOK' /\ FaultsOK' /\ pc' \in Nemeses /\ pc' \notin {"stopping", "wipe"}
  BY <1>6, <1>7, InjectedKeeps, Zenon DEF Inv, JobOK
<1>9. ToolsOK' /\ wiped' \cap joined' = {}
  BY <1>1, Zenon DEF Inv, JobOK, ToolsOK, DisksOK, Teardown
<1> QED
  BY <1>1, <1>3, <1>4, <1>8, <1>9, NemesisKeeps, Zenon DEF Nemeses, Spares

\* crash-majority picks its victims,
LEMMA InjectMajorityKeeps ==
  ASSUME Inv, InjectMajority
  PROVE  Inv'
<1>1. /\ pc = "quiet" /\ pc' = "majority" /\ at' = 1
      /\ UNCHANGED <<members, exits, os, lost, leased, wiped, joined, calls, drops, shaped, full, doubt, dirty>>
  BY Zenon DEF InjectMajority, Pick, rqVars, memberVars, nodeVars, faultVars
<1>2. PICK victims \in [1..Quorum -> Responsive] : fault' = Hit("restart", victims)
  BY Zenon DEF InjectMajority
<1>3. Idle
  BY <1>1, Zenon DEF Inv, JobOK, CallsOK, Idle
<1>4. ServiceOK' /\ Spares({})
  BY <1>1, SameKeeps, Zenon DEF Inv
<1>5. Quorum \in Nat /\ Quorum >= 1
  BY NAssumption DEF Quorum
<1>6. victims \in Seq(Nodes) /\ Len(victims) = Quorum
  <2>1. victims \in [1..Quorum -> Nodes]
    BY Zenon DEF Responsive
  <2>2. victims \in Seq(Nodes)
    BY <2>1, <1>5
  <2> QED
    BY <2>1, <2>2, <1>5
<1>7. fault' \in FaultState /\ fault'.heal = "restart" /\ Len(fault'.nodes) = Quorum
  BY <1>2, <1>6, Zenon DEF Hit, FaultState, Heals
<1>8. JobType' /\ AtOK'
  BY <1>1, <1>5, <1>7 DEF Inv, JobOK, JobType, AtOK, Nemeses
<1>9. FaultsOK'
  BY <1>1, <1>4, QuietIsWhole, Zenon DEF FaultsOK, Setup, Nemeses, InForce, Spares
<1>10. ToolsOK' /\ wiped' \cap joined' = {}
  BY <1>1, Zenon DEF Inv, JobOK, ToolsOK, DisksOK, Teardown
<1> QED
  BY <1>1, <1>3, <1>4, <1>8, <1>9, <1>10, NemesisKeeps DEF Nemeses, Spares

\* and crashes them one by one.
LEMMA CrashNextKeeps ==
  ASSUME Inv, CrashNext
  PROVE  Inv'
<1>1. /\ pc = "majority" /\ Idle /\ UNCHANGED <<exits, lost, leased, wiped, joined, calls, drops, shaped, full, dirty>>
  BY Zenon DEF CrashNext, Inv, JobOK, CallsOK, Idle, nodeVars, faultVars
<1>2. PICK err \in BOOLEAN :
        /\ Crash(fault.nodes[at], err)
        /\ IF err THEN Injected(NoFault, TRUE)
           ELSE IF at = Quorum THEN Injected(fault, FALSE)
           ELSE at' = at + 1 /\ UNCHANGED <<pc, fault, doubt>>
  BY Zenon DEF CrashNext
<1>3. Quorum \in Nat /\ at \in 1..Quorum /\ Len(fault.nodes) = Quorum /\ fault.heal = "restart"
      /\ fault.nodes \in Seq(Nodes) /\ fault \in FaultState /\ at \in DOMAIN fault.nodes
  BY <1>1, NAssumption DEF Inv, JobOK, JobType, AtOK, FaultState, Quorum
<1>4. PICK n \in Nodes : n = fault.nodes[at]
  BY <1>3
<1>5. ServiceOK' /\ Spares({n}) /\ (Paused(n)' => Paused(n)) /\ (members'[n].there <=> members[n].there)
  BY <1>1, <1>2, <1>4, CrashKeeps, Zenon DEF Inv
<1>6. ToolsOK' /\ wiped' \cap joined' = {}
  BY <1>1, Zenon DEF Inv, JobOK, ToolsOK, DisksOK, Teardown
<1>7. \A m \in Nodes : (members'[m].there <=> members[m].there) /\ (Paused(m)' => Paused(m)) /\ (m # n /\ Up(m) => Up(m)')
  BY <1>5, Zenon DEF Spares
<1>8. ~doubt => /\ \A m \in Nodes : Up(m) \/ \E i \in 1..(at - 1) : m = fault.nodes[i]
                /\ \A m \in Nodes : ~Paused(m) /\ drops[m] = NoRules
                /\ shaped = {} /\ full = {}
  BY <1>1, Zenon DEF Inv, JobOK, FaultsOK, InForce, Excused, Nemeses
<1>9. ~doubt => \A m \in Nodes : Up(m)' \/ \E i \in 1..at : m = fault.nodes[i]
  <2> SUFFICES ASSUME ~doubt, NEW m \in Nodes
               PROVE  Up(m)' \/ \E i \in 1..at : m = fault.nodes[i]
    BY Zenon
  <2>1. CASE m = n
    BY <2>1, <1>3, <1>4
  <2>2. CASE m # n
    BY <2>2, <1>3, <1>7, <1>8
  <2> QED
    BY <2>1, <2>2, Zenon
<1>10. JobType' /\ AtOK' /\ FaultsOK' /\ pc' \in Nemeses /\ pc' \notin {"stopping", "wipe"}
  <2>1. CASE err
    <3>1. PICK f : f = NoFault
      BY Zenon
    <3>2. Proper(f) /\ Injected(f, TRUE)
      BY <2>1, <3>1, <1>2, <1>4, ProperFaults, Zenon
    <3> QED
      BY <3>2, InjectedKeeps, Zenon DEF Inv, JobOK
  <2>2. CASE ~err /\ at = Quorum
    <3>1. PICK f : f = fault
      BY Zenon
    <3>2. Proper(f) /\ Injected(f, FALSE)
      <4>1. Injected(f, FALSE)
        BY <2>2, <3>1, <1>2, Zenon
      <4>2. Proper(f)
        BY <2>2, <3>1, <1>3, SMTT(30) DEF Proper
      <4> QED
        BY <4>1, <4>2, Zenon
    <3>3. ~doubt => Confined(f)'
      BY <2>2, <3>1, <1>1, <1>3, <1>7, <1>8, <1>9, SMTT(30) DEF Confined
    <3> QED
      BY <3>2, <3>3, InjectedKeeps, Zenon DEF Inv, JobOK
  <2>3. CASE ~err /\ at # Quorum
    <3>1. at' = at + 1 /\ UNCHANGED <<pc, fault, doubt>>
      BY <2>3, <1>2, Zenon
    <3>2. JobType' /\ AtOK'
      BY <2>3, <3>1, <1>1, <1>3, SMTT(30) DEF Inv, JobOK, JobType, AtOK
    <3>3. FaultsOK'
      BY <3>1, <1>1, <1>3, <1>7, <1>8, <1>9 DEF FaultsOK, Setup, Nemeses, InForce, Excused
    <3> QED
      BY <3>1, <3>2, <3>3, <1>1, Zenon DEF Nemeses
  <2> QED
    BY <2>1, <2>2, <2>3, Zenon
<1> QED
  BY <1>1, <1>5, <1>6, <1>7, <1>10, NemesisKeeps, Zenon DEF Nemeses

\* stop and stop-leader take the process of their target, or find none there.
LEMMA InjectStopKeeps ==
  ASSUME Inv, InjectStop
  PROVE  Inv'
<1>1. PICK leader \in BOOLEAN :
        /\ pc = "quiet"
        /\ \E n \in Target(leader) :
             IF Running(n)
             THEN ShutdownTake("a", n) /\ pc' = "stopping" /\ fault' = Hit("restart", <<n>>) /\ UNCHANGED <<at, doubt>>
             ELSE Injected(Hit("restart", <<n>>), FALSE) /\ UNCHANGED rqVars
  BY Zenon DEF InjectStop, Pick
<1>2. PICK n \in Nodes :
        IF Running(n)
        THEN ShutdownTake("a", n) /\ pc' = "stopping" /\ fault' = Hit("restart", <<n>>) /\ UNCHANGED <<at, doubt>>
        ELSE Injected(Hit("restart", <<n>>), FALSE) /\ UNCHANGED rqVars
  BY <1>1, Zenon DEF Target, Responsive
<1>3. Idle /\ UNCHANGED <<drops, shaped, full, dirty>>
  BY <1>1, Zenon DEF Inv, JobOK, CallsOK, Idle, InjectStop, faultVars
<1>4. ToolsOK'
  BY <1>3, Zenon DEF Inv, JobOK, ToolsOK
<1>5. PICK f : f = Hit("restart", <<n>>)
  BY Zenon
<1>6. Proper(f) /\ f \in FaultState /\ f.heal = "restart" /\ Len(f.nodes) = 1 /\ f.nodes[1] = n
  BY <1>5, FaultTypes DEF Proper, Heals
<1>7. CASE ~Running(n)
  <2>1. UNCHANGED <<members, exits, os, lost, leased, wiped, joined, calls>> /\ Injected(f, FALSE)
    BY <1>2, <1>5, <1>7, Zenon DEF rqVars, memberVars, nodeVars
  <2>2. ServiceOK' /\ Spares({})
    BY <2>1, <1>3, SameKeeps, Zenon DEF Inv
  <2>3. ~doubt => Confined(f)'
    BY <1>1, <1>3, <1>6, <2>2, QuietIsWhole DEF Spares, Confined
  <2>4. JobType' /\ AtOK' /\ FaultsOK' /\ pc' \in Nemeses /\ pc' \notin {"stopping", "wipe"}
    BY <1>6, <2>1, <2>3, InjectedKeeps, Zenon DEF Inv, JobOK
  <2>5. wiped' \cap joined' = {}
    BY <1>1, <2>1, Zenon DEF Inv, JobOK, DisksOK, Teardown
  <2> QED
    BY <1>1, <1>3, <1>4, <2>1, <2>2, <2>4, <2>5, NemesisKeeps, Zenon DEF Nemeses, Spares
<1>8. CASE Running(n)
  <2>1. ShutdownTake("a", n) /\ pc' = "stopping" /\ fault' = f /\ UNCHANGED <<at, doubt>>
    BY <1>2, <1>5, <1>8, Zenon
  <2>2. "a" \in Callers
    BY Zenon DEF Callers
  <2>3. /\ ServiceOK' /\ Spares({n}) /\ ~Paused(n)' /\ members'[n].there = members[n].there
        /\ calls'["a"].step = "stop" /\ calls'["a"].node = n
        /\ \A d \in Callers : d # "a" => calls'[d] = calls[d]
    BY <1>3, <2>1, <2>2, TakeKeeps, Zenon DEF Inv
  <2>4. UNCHANGED <<leased, mounts, wiped, joined>>
    BY <2>1, Zenon DEF ShutdownTake, nodeVars
  <2>5. \A m \in Nodes : (members'[m].there <=> members[m].there) /\ (Paused(m)' => Paused(m)) /\ (m # n /\ Up(m) => Up(m)')
    BY <2>3, Zenon DEF Spares
  <2>6. JobType' /\ AtOK'
    BY <1>1, <1>6, <2>1, Zenon DEF Inv, JobOK, JobType, AtOK, Nemeses
  <2>7. CallsOK'
    BY <1>3, <1>6, <2>1, <2>3, Zenon DEF Inv, JobOK, CallsOK, Idle, Callers
  <2>8. TornOK'
    BY <1>1, <1>3, <2>1, <2>4, <2>5, Zenon DEF Inv, JobOK, TornOK, Idle, Callers, Teardown
  <2>9. DisksOK' /\ HealedOK'
    BY <1>1, <2>1, <2>4, Zenon DEF Inv, JobOK, DisksOK, HealedOK, HealAll, Setup, Teardown
  <2>10. FaultsOK'
    BY <1>1, <1>3, <1>6, <2>1, <2>5, QuietIsWhole, Zenon DEF FaultsOK, Setup, Nemeses, InForce, Excused
  <2> QED
    BY <1>4, <2>3, <2>6, <2>7, <2>8, <2>9, <2>10, ZenonT(40) DEF Inv, JobOK
<1> QED
  BY <1>7, <1>8, Zenon

\* The stop goes on, and its node is to be restarted whatever came of it.
LEMMA StoppingKeeps ==
  ASSUME Inv, Stopping
  PROVE  Inv'
<1>1. /\ pc = "stopping" /\ UNCHANGED <<drops, shaped, full, dirty>> /\ "a" \in Callers /\ calls["b"].step = "idle"
      /\ calls["a"].step \in {"stop", "finish"} /\ calls["a"].node = fault.nodes[1]
      /\ fault.heal = "restart" /\ Len(fault.nodes) = 1 /\ fault \in FaultState
  BY Zenon DEF Stopping, faultVars, Callers, Inv, JobOK, JobType, CallsOK, AtOK
<1>2. ToolsOK'
  BY <1>1, Zenon DEF Inv, JobOK, ToolsOK
<1>3. wiped \cap joined = {}
  BY <1>1, Zenon DEF Inv, JobOK, DisksOK, Teardown
<1>4. \A n \in Nodes : members[n].there \/ leased[n] = 0
  BY <1>1, Zenon DEF Inv, JobOK, TornOK
<1>5. ~doubt => /\ \A m \in Nodes : Up(m) \/ m = fault.nodes[1]
                /\ \A m \in Nodes : ~Paused(m) /\ drops[m] = NoRules
                /\ shaped = {} /\ full = {}
  BY <1>1, Zenon DEF Inv, JobOK, FaultsOK, InForce, Excused, Nemeses
<1>6. CASE ShutdownStop("a") /\ UNCHANGED <<pc, at, fault, doubt>>
  <2>1. /\ ServiceOK' /\ Spares({})
        /\ calls'["a"].step = "finish" /\ calls'["a"].node = calls["a"].node
        /\ \A d \in Callers : d # "a" => calls'[d] = calls[d]
    BY <1>1, <1>6, StopKeeps, Zenon DEF Inv
  <2>2. UNCHANGED <<leased, mounts, wiped, joined>>
    BY <1>6, Zenon DEF ShutdownStop, nodeVars
  <2>3. JobType' /\ AtOK'
    BY <1>6, ZenonT(40) DEF Inv, JobOK, JobType, AtOK
  <2>4. CallsOK'
    BY <1>1, <1>6, <2>1, Zenon DEF Inv, JobOK, CallsOK, Callers
  <2>5. TornOK'
    BY <1>1, <1>4, <1>6, <2>1, <2>2, Zenon DEF Inv, JobOK, TornOK, Spares, Teardown
  <2>6. DisksOK' /\ HealedOK'
    BY <1>1, <1>3, <1>6, <2>2, Zenon DEF DisksOK, HealedOK, HealAll, Setup
  <2>7. FaultsOK'
    BY <1>1, <1>5, <1>6, <2>1, Zenon DEF FaultsOK, Spares, Setup, Nemeses, InForce, Excused
  <2> QED
    BY <1>2, <2>1, <2>3, <2>4, <2>5, <2>6, <2>7, Zenon DEF Inv, JobOK
<1>7. CASE ShutdownFinish("a") /\ Injected(fault, FALSE)
  <2>1. /\ ServiceOK' /\ Spares({}) /\ calls'["a"] = NoCall
        /\ \A d \in Callers : d # "a" => calls'[d] = calls[d]
    BY <1>1, <1>7, FinishKeeps, Zenon DEF Inv
  <2>2. UNCHANGED <<leased, mounts, wiped, joined>>
    BY <1>7, Zenon DEF ShutdownFinish, nodeVars
  <2>3. PICK f : f = fault
    BY Zenon
  <2>4. Injected(f, FALSE)
    BY <1>7, <2>3, Zenon
  <2>5. Proper(f)
    BY <1>1, <2>3 DEF Proper
  <2>6. ~doubt => Confined(f)'
    BY <1>1, <1>5, <2>1, <2>3 DEF Spares, Confined
  <2>7. JobType' /\ AtOK' /\ FaultsOK' /\ pc' \in Nemeses /\ pc' \notin {"stopping", "wipe"}
    BY <2>4, <2>5, <2>6, InjectedKeeps, Zenon DEF Inv, JobOK
  <2>8. CallsOK'
    BY <1>1, <2>1, <2>7, Zenon DEF Inv, JobOK, CallsOK, Callers, Nemeses, NoCall
  <2>9. TornOK'
    BY <1>1, <1>4, <2>1, <2>2, <2>7 DEF Inv, JobOK, TornOK, Spares, Teardown, Nemeses
  <2>10. DisksOK' /\ HealedOK'
    BY <1>3, <2>2, <2>7, Zenon DEF DisksOK, HealedOK, HealAll, Setup, Nemeses
  <2> QED
    BY <1>2, <2>1, <2>7, <2>8, <2>9, <2>10, Zenon DEF Inv, JobOK
<1> QED
  BY <1>6, <1>7, Zenon DEF Stopping

\* pause and pause-leader
LEMMA InjectPauseKeeps ==
  ASSUME Inv, InjectPause
  PROVE  Inv'
<1>1. PICK leader \in BOOLEAN : /\ pc = "quiet"
                                /\ \E n \in Target(leader), err \in BOOLEAN :
                                     /\ SignalPause(n, TRUE, err)
                                     /\ Injected(IF err THEN NoFault ELSE Hit("resume", <<n>>), err)
  BY Zenon DEF InjectPause, Pick
<1>2. PICK n \in Nodes, err \in BOOLEAN :
        SignalPause(n, TRUE, err) /\ Injected(IF err THEN NoFault ELSE Hit("resume", <<n>>), err)
  BY <1>1, Zenon DEF Target, Responsive
<1>3. Idle /\ UNCHANGED <<exits, lost, leased, wiped, joined, calls, drops, shaped, full, dirty>>
  BY <1>1, Zenon DEF Inv, JobOK, CallsOK, Idle, InjectPause, faultVars, nodeVars
<1>4. ServiceOK' /\ Spares({n}) /\ (Up(n) => Up(n)') /\ (members'[n].there <=> members[n].there)
  BY <1>2, <1>3, PauseKeeps, Zenon DEF Inv
<1>5. PICK f : f = IF err THEN NoFault ELSE Hit("resume", <<n>>)
  BY Zenon
<1>6. Proper(f) /\ Injected(f, err) /\ (~err => f.heal = "resume" /\ f.nodes[1] = n)
  BY <1>2, <1>5, FaultTypes DEF Proper, Heals
<1>7. ~doubt /\ ~err => Confined(f)'
  BY <1>1, <1>3, <1>4, <1>6, QuietIsWhole, Zenon DEF Spares, Confined
<1>8. JobType' /\ AtOK' /\ FaultsOK' /\ pc' \in Nemeses /\ pc' \notin {"stopping", "wipe"}
  BY <1>6, <1>7, InjectedKeeps, Zenon DEF Inv, JobOK
<1>9. ToolsOK' /\ wiped' \cap joined' = {}
  BY <1>1, <1>3, Zenon DEF Inv, JobOK, ToolsOK, DisksOK, Teardown
<1>10. \A m \in Nodes : members'[m].there <=> members[m].there
  BY <1>4, Zenon DEF Spares
<1> QED
  BY <1>1, <1>3, <1>4, <1>8, <1>9, <1>10, NemesisKeeps DEF Nemeses

\* replace-disk crashes a follower,
LEMMA InjectReplaceKeeps ==
  ASSUME Inv, InjectReplace
  PROVE  Inv'
<1>1. pc = "quiet" /\ Idle /\ UNCHANGED <<exits, lost, leased, wiped, joined, calls, drops, shaped, full, dirty>>
  BY Zenon DEF InjectReplace, Pick, Inv, JobOK, CallsOK, Idle, faultVars, nodeVars
<1>2. PICK n \in Nodes, err \in BOOLEAN :
        /\ Crash(n, err)
        /\ IF err THEN Injected(NoFault, TRUE)
                  ELSE pc' = "remove" /\ fault' = Hit("restart", <<n>>) /\ UNCHANGED <<at, doubt>>
  BY Zenon DEF InjectReplace, Responsive
<1>3. ServiceOK' /\ Spares({n}) /\ (Paused(n)' => Paused(n)) /\ (members'[n].there <=> members[n].there)
  BY <1>1, <1>2, CrashKeeps, Zenon DEF Inv
<1>4. \A m \in Nodes : (members'[m].there <=> members[m].there) /\ (Paused(m)' => Paused(m)) /\ (m # n /\ Up(m) => Up(m)')
  BY <1>3, Zenon DEF Spares
<1>5. ToolsOK' /\ wiped' \cap joined' = {}
  BY <1>1, Zenon DEF Inv, JobOK, ToolsOK, DisksOK, Teardown
<1>6. CASE err
  <2>1. PICK f : f = NoFault
    BY Zenon
  <2>2. Proper(f) /\ Injected(f, TRUE)
    BY <2>1, <1>2, <1>6, ProperFaults, Zenon
  <2>3. JobType' /\ AtOK' /\ FaultsOK' /\ pc' \in Nemeses /\ pc' \notin {"stopping", "wipe"}
    BY <2>2, InjectedKeeps, Zenon DEF Inv, JobOK
  <2> QED
    BY <2>3, <1>1, <1>3, <1>4, <1>5, NemesisKeeps, Zenon DEF Nemeses
<1>7. CASE ~err
  <2>1. PICK f : f = Hit("restart", <<n>>)
    BY Zenon
  <2>2. pc' = "remove" /\ fault' = f /\ UNCHANGED <<at, doubt>>
    BY <2>1, <1>2, <1>7, Zenon
  <2>3. f \in FaultState /\ f.heal = "restart" /\ Len(f.nodes) = 1 /\ f.nodes[1] = n
    BY <2>1, FaultTypes DEF Heals
  <2>4. JobType' /\ AtOK'
    BY <2>2, <2>3, <1>1, Zenon DEF Inv, JobOK, JobType, AtOK, Nemeses
  <2>5. FaultsOK'
    BY <2>2, <2>3, <1>1, <1>4, QuietIsWhole, Zenon DEF FaultsOK, Setup, Nemeses, InForce, Excused
  <2> QED
    BY <2>2, <2>4, <2>5, <1>1, <1>3, <1>4, <1>5, NemesisKeeps, SMTT(30) DEF Nemeses
<1> QED
  BY <1>6, <1>7, Zenon

\* and erases its disk once the cluster has removed it.
LEMMA RemoveFollowerKeeps ==
  ASSUME Inv, RemoveFollower \/ WipeFollower
  PROVE  Inv'
<1>1. /\ pc \in {"remove", "wipe"} /\ Idle /\ fault.heal = "restart" /\ Len(fault.nodes) = 1 /\ fault \in FaultState
      /\ UNCHANGED <<members, exits, os, lost, leased, calls, drops, shaped, full, dirty>>
  BY Zenon DEF RemoveFollower, WipeFollower, memberVars, faultVars, Inv, JobOK, JobType, CallsOK, Idle, AtOK
<1>2. ServiceOK' /\ Spares({})
  BY <1>1, SameKeeps, Zenon DEF Inv
<1>3. ToolsOK' /\ wiped \cap joined = {} /\ (pc = "wipe" => fault.nodes[1] \notin joined)
  BY <1>1, Zenon DEF Inv, JobOK, ToolsOK, DisksOK, Teardown
<1>4. ~doubt => /\ \A m \in Nodes : Up(m) \/ m = fault.nodes[1]
                /\ \A m \in Nodes : ~Paused(m) /\ drops[m] = NoRules
                /\ shaped = {} /\ full = {}
  BY <1>1, Zenon DEF Inv, JobOK, FaultsOK, InForce, Excused, Nemeses
<1>5. /\ wiped' \cap joined' = {}
      /\ \/ \E err \in BOOLEAN : Injected(fault, err)
         \/ pc' = "wipe" /\ UNCHANGED <<at, fault, doubt>> /\ fault.nodes[1] \notin joined'
  <2>1. CASE RemoveFollower
    <3>1. PICK err \in BOOLEAN :
            /\ Remove(fault.nodes[1], err)
            /\ IF err THEN Injected(fault, TRUE) ELSE pc' = "wipe" /\ UNCHANGED <<at, fault, doubt>>
      BY <2>1, Zenon DEF RemoveFollower
    <3>2. joined' \in {joined, joined \ {fault.nodes[1]}} /\ (~err => joined' = joined \ {fault.nodes[1]}) /\ wiped' = wiped
      BY <2>1, <3>1, Zenon DEF Remove, RemoveFollower
    <3>3. wiped' \cap joined' = {} /\ (~err => fault.nodes[1] \notin joined')
      BY <3>2, <1>3, Zenon
    <3> QED
      BY <3>1, <3>3, Zenon
  <2>2. CASE WipeFollower
    <3>1. PICK err \in BOOLEAN : Wipe(fault.nodes[1], err) /\ Injected(fault, err)
      BY <2>2, Zenon DEF WipeFollower
    <3>2. wiped' \in {wiped, wiped \cup {fault.nodes[1]}} /\ joined' = joined /\ pc = "wipe"
      BY <2>2, <3>1, Zenon DEF Wipe, WipeFollower
    <3> QED
      BY <3>1, <3>2, <1>3, Zenon
  <2> QED
    BY <2>1, <2>2, Zenon
<1>6. CASE \E err \in BOOLEAN : Injected(fault, err)
  <2>1. PICK err \in BOOLEAN : Injected(fault, err)
    BY <1>6, Zenon
  <2>2. PICK f : f = fault
    BY Zenon
  <2>3. Injected(f, err)
    BY <2>1, <2>2, Zenon
  <2>4. Proper(f)
    BY <2>2, <1>1 DEF Proper
  <2>5. ~doubt => Confined(f)'
    BY <2>2, <1>1, <1>2, <1>4 DEF Spares, Confined
  <2>6. JobType' /\ AtOK' /\ FaultsOK' /\ pc' \in Nemeses /\ pc' \notin {"stopping", "wipe"}
    BY <2>3, <2>4, <2>5, InjectedKeeps, Zenon DEF Inv, JobOK
  <2> QED
    BY <2>6, <1>1, <1>2, <1>3, <1>5, NemesisKeeps, Zenon DEF Nemeses, Spares
<1>7. CASE pc' = "wipe" /\ UNCHANGED <<at, fault, doubt>> /\ fault.nodes[1] \notin joined'
  <2>1. JobType' /\ AtOK'
    BY <1>1, <1>7, Zenon DEF Inv, JobOK, JobType, AtOK, Nemeses
  <2>2. FaultsOK'
    BY <1>1, <1>2, <1>4, <1>7, Zenon DEF FaultsOK, Spares, Setup, Nemeses, InForce, Excused
  <2> QED
    BY <2>1, <2>2, <1>1, <1>2, <1>3, <1>5, <1>7, NemesisKeeps, Zenon DEF Nemeses, Spares
<1> QED
  BY <1>5, <1>6, <1>7, Zenon

\* disk-full, a partition or a block, and a slow or lossy node: what only the
\* node's tools can do.
LEMMA InjectToolKeeps ==
  ASSUME Inv, InjectFull \/ InjectNet \/ InjectShape
  PROVE  Inv'
<1>1. /\ pc = "quiet" /\ Idle /\ UNCHANGED <<members, exits, os, lost, leased, wiped, joined, calls, dirty>>
  BY Zenon DEF InjectFull, InjectNet, InjectShape, Pick, memberVars, nodeVars, Inv, JobOK, CallsOK, Idle
<1>2. ServiceOK' /\ Spares({})
  BY <1>1, SameKeeps, Zenon DEF Inv
<1>3. wiped' \cap joined' = {} /\ shaped \subseteq Nodes /\ full \subseteq Nodes
      /\ (~NetOK => shaped = {} /\ \A n \in Nodes : drops[n] = NoRules) /\ (~Limited => full = {})
  BY <1>1, Zenon DEF Inv, JobOK, DisksOK, ToolsOK, Teardown
<1>4. ASSUME NEW f, NEW err \in BOOLEAN, Proper(f), Injected(f, err), ~doubt /\ ~err => Confined(f)', ToolsOK'
      PROVE  Inv'
  <2>1. JobType' /\ AtOK' /\ FaultsOK' /\ pc' \in Nemeses /\ pc' \notin {"stopping", "wipe"}
    BY <1>4, InjectedKeeps, Zenon DEF Inv, JobOK
  <2> QED
    BY <2>1, <1>1, <1>2, <1>3, <1>4, NemesisKeeps DEF Nemeses, Spares
<1>5. CASE InjectFull
  <2>1. PICK n \in Nodes, err \in BOOLEAN : Fill(n, err) /\ Injected(Hit("free", <<n>>), err)
    BY <1>5, Zenon DEF InjectFull, Target, Responsive
  <2>2. Limited
    BY <1>5, Zenon DEF InjectFull, Pick, Usable, CanTake, DiskFaults
  <2>3. full' \in {full, full \cup {n}} /\ UNCHANGED <<drops, shaped>>
    BY <1>5, <2>1, Zenon DEF Fill, InjectFull
  <2>4. PICK f : f = Hit("free", <<n>>)
    BY Zenon
  <2>5. Proper(f) /\ f.heal = "free" /\ f.nodes[1] = n
    BY <2>4, FaultTypes, Zenon DEF Proper, Heals
  <2>6. ~doubt => Confined(f)'
    BY <2>3, <2>5, <1>1, <1>2, QuietIsWhole, Zenon DEF Spares, Confined
  <2>7. ToolsOK'
    BY <2>2, <2>3, <1>3, Zenon DEF ToolsOK
  <2> QED
    BY <1>4, <2>1, <2>4, <2>5, <2>6, <2>7, Zenon
<1>6. CASE InjectNet
  <2>1. PICK err \in BOOLEAN : Injected(Hit("net", <<>>), err)
    BY <1>6, Zenon DEF InjectNet
  <2>2. NetOK
    BY <1>6, Zenon DEF InjectNet, Pick, Usable, CanTake, NetFaults
  <2>3. UNCHANGED <<shaped, full>>
    BY <1>6, Zenon DEF InjectNet
  <2>4. PICK f : f = Hit("net", <<>>)
    BY Zenon
  <2>5. Proper(f) /\ f.heal = "net"
    BY <2>4 DEF Proper, Hit, FaultState, Heals
  <2>6. ~doubt => Confined(f)'
    BY <2>3, <2>5, <1>1, <1>2, QuietIsWhole, Zenon DEF Spares, Confined
  <2>7. ToolsOK'
    BY <2>2, <2>3, <1>3, Zenon DEF ToolsOK
  <2> QED
    BY <1>4, <2>1, <2>4, <2>5, <2>6, <2>7, Zenon
<1>7. CASE InjectShape
  <2>1. PICK n \in Nodes, err \in BOOLEAN : SetShape(n, err) /\ Injected(Hit("unshape", <<n>>), err)
    BY <1>7, Zenon DEF InjectShape
  <2>2. NetOK
    BY <1>7, Zenon DEF InjectShape, Pick, Usable, CanTake, NetFaults
  <2>3. shaped' \in {shaped, shaped \cup {n}} /\ UNCHANGED <<drops, full>>
    BY <1>7, <2>1, Zenon DEF SetShape, InjectShape
  <2>4. PICK f : f = Hit("unshape", <<n>>)
    BY Zenon
  <2>5. Proper(f) /\ f.heal = "unshape" /\ f.nodes[1] = n
    BY <2>4, FaultTypes DEF Proper, Heals
  <2>6. ~doubt => Confined(f)'
    BY <2>3, <2>5, <1>1, <1>2, QuietIsWhole, Zenon DEF Spares, Confined
  <2>7. ToolsOK'
    BY <2>2, <2>3, <1>3, Zenon DEF ToolsOK
  <2> QED
    BY <1>4, <2>1, <2>4, <2>5, <2>6, <2>7, Zenon
<1> QED
  BY <1>5, <1>6, <1>7, Zenon

\* A fault is healed, or the run is in doubt.
LEMMA MendKeeps ==
  ASSUME Inv, Mend
  PROVE  Inv'
<1>1. /\ pc = "hold" /\ Idle /\ dirty = {} /\ fault \in FaultState
      /\ fault.heal = "restart" => at \in 1..Len(fault.nodes)
      /\ fault.heal \in {"resume", "unshape", "free"} => Len(fault.nodes) = 1
      /\ UNCHANGED <<exits, lost, leased, calls, dirty>>
  BY Zenon DEF Mend, Inv, JobOK, JobType, CallsOK, AtOK, TornOK, Idle, Teardown
<1>2. \A i \in 1..Len(fault.nodes) : fault.nodes[i] \in Nodes
  BY <1>1 DEF FaultState
<1>3. /\ wiped \cap joined = {} /\ shaped \subseteq Nodes /\ full \subseteq Nodes
      /\ (~NetOK => shaped = {} /\ \A n \in Nodes : drops[n] = NoRules) /\ (~Limited => full = {})
  BY <1>1, Zenon DEF Inv, JobOK, DisksOK, ToolsOK, Teardown
<1>4. ~doubt =>
        /\ \A n \in Nodes : Up(n) \/ (fault.heal = "restart" /\ \E i \in at..Len(fault.nodes) : n = fault.nodes[i])
        /\ \A n \in Nodes : Paused(n) => fault.heal = "resume" /\ n = fault.nodes[1]
        /\ fault.heal # "net" => \A n \in Nodes : drops[n] = NoRules
        /\ \A n \in shaped : fault.heal = "unshape" /\ n = fault.nodes[1]
        /\ \A n \in full : fault.heal = "free" /\ n = fault.nodes[1]
  BY <1>1, Zenon DEF Inv, JobOK, FaultsOK, InForce, Excused, Nemeses
<1>5. ASSUME NEW err \in BOOLEAN, Mended(err), ServiceOK', wiped' \cap joined' = {}, ToolsOK',
             \A n \in Nodes : members'[n].there <=> members[n].there,
             ~doubt /\ ~err => Confined(NoFault)'
      PROVE  Inv'
  <2>1. Injected(NoFault, err)
    BY <1>5, Zenon DEF Mended, Injected, NoFault
  <2>2. 1 \in Nodes
    BY NAssumption DEF Nodes
  <2>3. Proper(NoFault)
    BY <2>2, ProperFaults, Zenon
  <2>4. JobType' /\ AtOK' /\ FaultsOK' /\ pc' \in Nemeses /\ pc' \notin {"stopping", "wipe"}
    BY <2>1, <2>3, <1>5, InjectedKeeps, Zenon DEF Inv, JobOK
  <2> QED
    BY <2>4, <1>1, <1>5, NemesisKeeps, Zenon DEF Nemeses
<1>6. PICK err \in BOOLEAN :
       \/ /\ fault.heal = "restart"
          /\ Restart(fault.nodes[at], err)
          /\ IF err \/ at = Len(fault.nodes) THEN Mended(err) ELSE at' = at + 1 /\ UNCHANGED <<pc, fault, doubt>>
          /\ UNCHANGED <<faultVars, mounts>>
       \/ /\ fault.heal = "resume" /\ SignalPause(fault.nodes[1], FALSE, err) /\ Mended(err)
          /\ UNCHANGED <<faultVars, watching, wiped, joined, mounts>>
       \/ /\ Mended(err) /\ UNCHANGED <<members, os, watching, wiped, joined, mounts>>
          /\ \/ fault.heal = "net" /\ Heal(err) /\ UNCHANGED <<shaped, full>>
             \/ fault.heal = "unshape" /\ Unshape(fault.nodes[1], err) /\ UNCHANGED <<drops, full>>
             \/ fault.heal = "free" /\ Free(fault.nodes[1], err) /\ UNCHANGED <<drops, shaped>>
  BY Zenon DEF Mend
<1>7. CASE /\ fault.heal = "restart" /\ Restart(fault.nodes[at], err)
           /\ IF err \/ at = Len(fault.nodes) THEN Mended(err) ELSE at' = at + 1 /\ UNCHANGED <<pc, fault, doubt>>
           /\ UNCHANGED <<faultVars, mounts>>
  <2>1. PICK n \in Nodes : n = fault.nodes[at]
    BY <1>1, <1>2, <1>7, Zenon
  <2>2. Restart(n, err) /\ \A c \in Callers : calls[c].step # "teardown"
    BY <1>1, <1>7, <2>1, Zenon DEF Idle
  <2>3. ServiceOK' /\ Spares({}) /\ (~err => Running(n)')
    BY <1>1, <2>2, RestartKeeps, Zenon DEF Inv
  <2>4. wiped' \subseteq wiped /\ (wiped' = wiped \/ n \notin wiped') /\ joined' \subseteq joined \cup {n}
        /\ (wiped' # wiped \/ joined' # joined => n \notin wiped')
    BY <2>2, Zenon DEF Restart, LaunchLocked
  <2>5. wiped' \cap joined' = {}
    BY <1>3, <2>4, Zenon
  <2>6. ToolsOK' /\ UNCHANGED <<drops, shaped, full>>
    BY <1>3, <1>7, Zenon DEF ToolsOK, faultVars
  <2>7. ~doubt /\ ~err => \A m \in Nodes : Up(m)' \/ \E i \in (at + 1)..Len(fault.nodes) : m = fault.nodes[i]
    <3> SUFFICES ASSUME ~doubt, ~err, NEW m \in Nodes, ~Up(m)'
                 PROVE  \E i \in (at + 1)..Len(fault.nodes) : m = fault.nodes[i]
      BY Zenon
    <3>1. m # n /\ ~Up(m)
      BY <2>3, Zenon DEF Up, Spares
    <3>2. PICK i \in at..Len(fault.nodes) : m = fault.nodes[i]
      BY <3>1, <1>4, Zenon
    <3>3. i # at
      BY <2>1, <3>1, <3>2, Zenon
    <3>4. i \in (at + 1)..Len(fault.nodes)
      BY <3>2, <3>3, <1>1, <1>7
    <3> QED
      BY <3>2, <3>4, Zenon
  <2>8. CASE err \/ at = Len(fault.nodes)
    <3>1. Mended(err)
      BY <1>7, <2>8, Zenon
    <3>2. ~doubt /\ ~err => Confined(NoFault)'
      BY <2>3, <2>6, <2>7, <2>8, <1>1, <1>4, <1>7, SMTT(30) DEF Confined, Spares
    <3> QED
      BY <1>5, <2>3, <2>5, <2>6, <3>1, <3>2 DEF Spares
  <2>9. CASE ~(err \/ at = Len(fault.nodes))
    <3>1. at' = at + 1 /\ UNCHANGED <<pc, fault, doubt>>
      BY <1>7, <2>9, Zenon
    <3>2. JobType' /\ AtOK'
      BY <2>9, <3>1, <1>1, <1>7, SMTT(30) DEF Inv, JobOK, JobType, AtOK, FaultState
    <3>3. FaultsOK'
      BY <2>3, <2>6, <2>7, <2>9, <3>1, <1>1, <1>4, <1>7, SMTT(30) DEF FaultsOK, InForce, Excused, Setup, Nemeses, Spares
    <3> QED
      BY <2>3, <2>5, <2>6, <3>1, <3>2, <3>3, <1>1, NemesisKeeps, ZenonT(40) DEF Nemeses, Spares
  <2> QED
    BY <2>8, <2>9, Zenon
<1>8. CASE /\ fault.heal = "resume" /\ SignalPause(fault.nodes[1], FALSE, err) /\ Mended(err)
           /\ UNCHANGED <<faultVars, watching, wiped, joined, mounts>>
  <2>1. PICK n \in Nodes : n = fault.nodes[1]
    BY <1>1, <1>2, <1>8
  <2>2. ServiceOK' /\ Spares({n}) /\ (Up(n) => Up(n)') /\ (members'[n].there <=> members[n].there) /\ (~err => ~Paused(n)')
    BY <1>1, <1>8, <2>1, PauseKeeps, Zenon DEF Inv
  <2>3. ToolsOK' /\ UNCHANGED <<drops, shaped, full>> /\ wiped' \cap joined' = {}
    BY <1>3, <1>8, Zenon DEF ToolsOK, faultVars
  <2>4. ~doubt /\ ~err => Confined(NoFault)'
    BY <2>1, <2>2, <2>3, <1>4, <1>8, Zenon DEF Confined, Spares
  <2>5. \A m \in Nodes : members'[m].there <=> members[m].there
    BY <2>2, Zenon DEF Spares
  <2> QED
    BY <1>5, <1>8, <2>2, <2>3, <2>4, <2>5, ZenonT(40)
<1>9. CASE /\ Mended(err) /\ UNCHANGED <<members, os, watching, wiped, joined, mounts>>
           /\ \/ fault.heal = "net" /\ Heal(err) /\ UNCHANGED <<shaped, full>>
              \/ fault.heal = "unshape" /\ Unshape(fault.nodes[1], err) /\ UNCHANGED <<drops, full>>
              \/ fault.heal = "free" /\ Free(fault.nodes[1], err) /\ UNCHANGED <<drops, shaped>>
  <2>1. ServiceOK' /\ Spares({})
    BY <1>1, <1>9, SameKeeps, Zenon DEF Inv
  <2>2. /\ shaped' \subseteq shaped /\ full' \subseteq full
        /\ \A n \in Nodes : drops'[n] \in {drops[n], NoRules}
        /\ ~err => /\ fault.heal = "net" => \A n \in Nodes : drops'[n] = NoRules
                   /\ fault.heal = "unshape" => shaped' = shaped \ {fault.nodes[1]}
                   /\ fault.heal = "free" => full' = full \ {fault.nodes[1]}
    BY <1>9, Zenon DEF Heal, Each, Unshape, Free
  <2>3. ToolsOK' /\ wiped' \cap joined' = {}
    BY <2>2, <1>3, <1>9, Zenon DEF ToolsOK
  <2>4. ~doubt /\ ~err => Confined(NoFault)'
    BY <2>1, <2>2, <1>4, <1>9, Zenon DEF Confined, Spares
  <2> QED
    BY <1>5, <1>9, <2>1, <2>3, <2>4 DEF Spares
<1> QED
  BY <1>6, <1>7, <1>8, <1>9, Zenon

\* The run's time is up.
LEMMA RunOverKeeps ==
  ASSUME Inv, RunOver
  PROVE  Inv'
<1>1. /\ pc = "quiet" /\ pc' = "free" /\ at' = 1 /\ Idle
      /\ UNCHANGED <<members, exits, os, lost, leased, mounts, wiped, joined, calls, drops, shaped, full, fault, doubt, dirty>>
  BY Zenon DEF RunOver, rqVars, memberVars, nodeVars, faultVars, Inv, JobOK, CallsOK, Idle
<1>2. ServiceOK' /\ Spares({})
  BY <1>1, SameKeeps, Zenon DEF Inv
<1>3. JobType' /\ AtOK' /\ ToolsOK'
  BY <1>1, NAssumption, Zenon DEF Inv, JobOK, JobType, AtOK, ToolsOK, HealAll, Nodes
<1>4. CallsOK'
  BY <1>1, IdleCalls, Zenon DEF Inv
<1>5. TornOK' /\ DisksOK' /\ FaultsOK'
  BY <1>1, Zenon DEF Inv, JobOK, TornOK, DisksOK, FaultsOK, Setup, Nemeses, Teardown
<1>6. HealedOK'
  <2>1. ~doubt => Whole'
    BY <1>1, <1>2, QuietIsWhole, Zenon DEF Whole, Up, Spares
  <2> QED
    BY <1>1, <2>1 DEF Inv, JobOK, ToolsOK, HealedOK, HealAll, Nodes
<1> QED
  BY <1>2, <1>3, <1>4, <1>5, <1>6, Zenon DEF Inv, JobOK

-----------------------------------------------------------------------------
(* healAll: every node is freed, then joined, then unshaped, then resumed   *)
(* and restarted, and no later step undoes an earlier one.                  *)

\* What a step within healAll owes, beyond what it heals.
LEMMA HealKeeps ==
  ASSUME Inv, ServiceOK', pc \in HealAll, pc' \in HealAll, Idle, UNCHANGED <<calls, leased, fault, doubt, dirty>>,
         \A n \in Nodes : members'[n].there <=> members[n].there,
         wiped' \cap joined' = {}, at' \in Nodes, pc' = "net" => at' = 1, pc' = "free" => Limited, ToolsOK', HealedOK'
  PROVE  Inv'
<1>1. JobType' /\ AtOK'
  BY DEF Inv, JobOK, JobType, AtOK, HealAll, Nodes
<1>2. CallsOK'
  BY IdleCalls, Zenon DEF Inv, HealAll
<1>3. TornOK' /\ DisksOK' /\ FaultsOK'
  BY Zenon DEF Inv, JobOK, TornOK, DisksOK, FaultsOK, Setup, Nemeses, Teardown, HealAll
<1> QED
  BY <1>1, <1>2, <1>3, Zenon DEF Inv, JobOK

\* The loop's counter: on to the next node, or to the first of the next loop.
LEMMA OnwardIs ==
  ASSUME at \in Nodes, NEW here, NEW then, Onward(here, then)
  PROVE  /\ at' \in Nodes
         /\ (pc' = here /\ at' = at + 1) \/ (pc' = then /\ at' = 1 /\ at = N)
BY NAssumption DEF Onward, Nodes

\* The disks, the network and the shapes.
LEMMA HealToolsKeeps ==
  ASSUME Inv, HealDisks \/ HealNet \/ HealShapes
  PROVE  Inv'
<1>1. /\ pc \in {"free", "net", "unshape"} /\ Idle /\ at \in Nodes
      /\ UNCHANGED <<members, exits, os, lost, leased, wiped, joined, calls, fault, doubt, dirty>>
  BY Zenon DEF HealDisks, HealNet, HealShapes, healRest, Inv, JobOK, CallsOK, AtOK, Idle
<1>2. ServiceOK' /\ Spares({})
  BY <1>1, SameKeeps, Zenon DEF Inv
<1>3. /\ wiped \cap joined = {} /\ shaped \subseteq Nodes /\ full \subseteq Nodes
      /\ (~NetOK => shaped = {} /\ \A n \in Nodes : drops[n] = NoRules) /\ (~Limited => full = {})
      /\ \A n \in Nodes : members[n].there \/ leased[n] = 0
  BY <1>1, Zenon DEF Inv, JobOK, DisksOK, ToolsOK, TornOK, Teardown, Idle, Callers
<1>4. /\ \A n \in full : pc = "free" /\ n >= at
      /\ pc = "unshape" => (\A n \in Nodes : drops[n] = NoRules) /\ \A n \in shaped : n >= at
  BY <1>1, Zenon DEF Inv, JobOK, HealedOK, HealAll
<1>5. ASSUME pc' \in {"free", "net", "unshape", "resume"}, at' \in Nodes, pc' = "net" => at' = 1, pc' = "free" => Limited,
             ToolsOK', HealedOK'
      PROVE  Inv'
  BY <1>1, <1>2, <1>3, <1>5, HealKeeps, Zenon DEF HealAll, Spares
<1>6. ASSUME Fail, ToolsOK'
      PROVE  Inv'
  BY <1>1, <1>2, <1>3, <1>6, FailKeeps, Zenon DEF Fail, Teardown, Spares
<1>7. CASE HealDisks
  <2>1. pc = "free" /\ UNCHANGED <<drops, shaped>>
    BY <1>7, Zenon DEF HealDisks
  <2>2. CASE ~Limited
    <3>1. pc' = "net" /\ at' = at /\ full' = full /\ at = 1
      BY <1>7, <2>2, <2>1 DEF HealDisks, Inv, JobOK, AtOK
    <3>2. ToolsOK' /\ HealedOK'
      BY <1>3, <2>1, <2>2, <3>1, Zenon DEF ToolsOK, HealedOK, HealAll
    <3> QED
      BY <1>1, <1>5, <3>1, <3>2, Zenon
  <2>3. CASE Limited
    <3>1. PICK err \in BOOLEAN : Free(at, err) /\ Step(err, "free", "net")
      BY <1>7, <2>3, Zenon DEF HealDisks
    <3>2. full' \subseteq full /\ (~err => full' = full \ {at})
      BY <3>1, Zenon DEF Free
    <3>3. ToolsOK'
      BY <1>3, <2>1, <2>3, <3>2, Zenon DEF ToolsOK
    <3>4. CASE err
      BY <1>6, <3>1, <3>3, <3>4, Zenon DEF Step
    <3>5. CASE ~err
      <4>1. Onward("free", "net")
        BY <3>1, <3>5, Zenon DEF Step
      <4>2. at' \in Nodes /\ ((pc' = "free" /\ at' = at + 1) \/ (pc' = "net" /\ at' = 1 /\ at = N))
        BY <4>1, <1>1, OnwardIs, Zenon
      <4>3. \A n \in full' : n >= at + 1
        BY <3>2, <3>5, <1>3, <1>4, <1>1 DEF Nodes
      <4>4. pc' = "net" => full' = {}
        BY <4>2, <4>3, <3>2, <1>3, NAssumption DEF Nodes
      <4>5. HealedOK'
        BY <4>2, <4>3, <4>4, <1>1 DEF HealedOK, HealAll, Nodes
      <4> QED
        BY <1>5, <2>3, <3>3, <4>2, <4>5, Zenon
    <3> QED
      BY <3>4, <3>5, Zenon
  <2> QED
    BY <2>2, <2>3, Zenon
<1>8. CASE HealNet
  <2>1. pc = "net" /\ UNCHANGED <<shaped, full>> /\ full = {} /\ at = 1
    BY <1>8, <1>4, Zenon DEF HealNet, Inv, JobOK, AtOK
  <2>2. CASE ~NetOK
    <3>1. pc' = "resume" /\ at' = at /\ drops' = drops
      BY <1>8, <2>2, Zenon DEF HealNet
    <3>2. ToolsOK'
      BY <1>3, <2>1, <3>1, Zenon DEF ToolsOK
    <3>3. HealedOK'
      BY <1>3, <2>1, <2>2, <3>1, SMTT(30) DEF HealedOK, HealAll, Nodes
    <3> QED
      BY <1>1, <1>5, <3>1, <3>2, <3>3, Zenon
  <2>3. CASE NetOK
    <3>1. PICK err \in BOOLEAN : Heal(err) /\ IF err THEN Fail ELSE pc' = "unshape" /\ UNCHANGED <<at, failed>>
      BY <1>8, <2>3, Zenon DEF HealNet
    <3>2. ToolsOK'
      BY <1>3, <2>1, <2>3, Zenon DEF ToolsOK
    <3>3. CASE err
      BY <1>6, <3>1, <3>2, <3>3, Zenon
    <3>4. CASE ~err
      <4>1. pc' = "unshape" /\ at' = 1 /\ \A n \in Nodes : drops'[n] = NoRules
        BY <3>1, <3>4, <2>1, Zenon DEF Heal, Each
      <4>2. HealedOK'
        BY <4>1, <2>1, <1>3 DEF HealedOK, HealAll, Nodes
      <4> QED
        BY <1>1, <1>5, <2>1, <3>2, <4>1, <4>2, Zenon
    <3> QED
      BY <3>3, <3>4, Zenon
  <2> QED
    BY <2>2, <2>3, Zenon
<1>9. CASE HealShapes
  <2>1. pc = "unshape" /\ UNCHANGED <<drops, full>> /\ full = {}
    BY <1>9, <1>4, Zenon DEF HealShapes
  <2>2. PICK err \in BOOLEAN : Unshape(at, err) /\ Step(err, "unshape", "resume")
    BY <1>9, Zenon DEF HealShapes
  <2>3. shaped' \subseteq shaped /\ (~err => shaped' = shaped \ {at})
    BY <2>2, Zenon DEF Unshape
  <2>4. ToolsOK'
    BY <1>3, <2>1, <2>3, Zenon DEF ToolsOK
  <2>5. CASE err
    BY <1>6, <2>2, <2>4, <2>5, Zenon DEF Step
  <2>6. CASE ~err
    <3>1. Onward("unshape", "resume")
      BY <2>2, <2>6, Zenon DEF Step
    <3>2. at' \in Nodes /\ ((pc' = "unshape" /\ at' = at + 1) \/ (pc' = "resume" /\ at' = 1 /\ at = N))
      BY <3>1, <1>1, OnwardIs, Zenon
    <3>3. \A n \in shaped' : n >= at + 1
      BY <2>1, <2>3, <2>6, <1>3, <1>4, <1>1, SMTT(30) DEF Nodes
    <3>4. pc' = "resume" => shaped' = {}
      BY <3>2, <3>3, <2>3, <1>3, NAssumption DEF Nodes
    <3>5. HealedOK'
      BY <3>2, <3>3, <3>4, <2>1, <1>4 DEF HealedOK, HealAll, Nodes
    <3> QED
      BY <1>5, <2>4, <3>2, <3>5, Zenon
  <2> QED
    BY <2>5, <2>6, Zenon
<1> QED
  BY <1>7, <1>8, <1>9, Zenon

\* A node is resumed, and restarted if it does not run.
LEMMA HealNodeKeeps ==
  ASSUME Inv, HealPaused \/ HealStopped
  PROVE  Inv'
<1>1. /\ pc \in {"resume", "restart"} /\ Idle /\ dirty = {} /\ UNCHANGED <<exits, lost, leased, calls, fault, doubt, dirty>>
      /\ UNCHANGED <<drops, shaped, full>>
  BY Zenon DEF HealPaused, HealStopped, healRest, faultVars, Inv, JobOK, CallsOK, TornOK, Teardown, Idle
<1>2. PICK n \in Nodes : n = at
  BY <1>1, Zenon DEF Inv, JobOK, AtOK
<1>3. /\ wiped \cap joined = {} /\ \A m \in Nodes : members[m].there \/ leased[m] = 0
  BY <1>1, Zenon DEF Inv, JobOK, DisksOK, TornOK, Teardown, Idle, Callers
<1>4. /\ full = {} /\ shaped = {} /\ \A m \in Nodes : drops[m] = NoRules
      /\ \A m \in Nodes : m < n => ~Paused(m) /\ Up(m)
      /\ pc = "restart" => ~Paused(n)
  BY <1>1, <1>2, Zenon DEF Inv, JobOK, HealedOK, HealAll
<1>5. ToolsOK'
  BY <1>1, Zenon DEF Inv, JobOK, ToolsOK
<1>6. ASSUME ServiceOK', Spares({n}), members'[n].there <=> members[n].there, Fail
      PROVE  Inv'
  <2>1. \A m \in Nodes : members'[m].there \/ leased'[m] = 0
    BY <1>1, <1>3, <1>6, Zenon DEF Spares
  <2> QED
    BY <1>1, <1>5, <1>6, <2>1, FailKeeps, Zenon DEF Fail, Teardown
<1>7. ASSUME ServiceOK', Spares({n}), members'[n].there <=> members[n].there, wiped' \cap joined' = {}, ~Paused(n)',
             \/ pc' = "restart" /\ at' = at
             \/ pc' = "resume" /\ at' = at + 1 /\ Up(n)' /\ at' \in Nodes
             \/ pc' = "ready" /\ at' = 1 /\ at = N /\ Up(n)'
      PROVE  Inv'
  <2>1. \A m \in Nodes : m < n => ~Paused(m)' /\ Up(m)'
    BY <1>4, <1>7 DEF Spares, Nodes
  <2>2. \A m \in Nodes : members'[m].there <=> members[m].there
    BY <1>7, Zenon DEF Spares
  <2>3. at' \in Nodes
    BY <1>2, <1>7, NAssumption DEF Nodes
  <2>4. HealedOK'
    <3>1. CASE pc' = "restart" /\ at' = at
      BY <3>1, <2>1, <1>1, <1>2, <1>4, <1>7, ZenonT(40) DEF HealedOK, HealAll
    <3>2. CASE pc' = "resume" /\ at' = at + 1 /\ Up(n)'
      <4>1. \A m \in Nodes : m < at' => m < n \/ m = n
        BY <3>2, <1>2 DEF Nodes
      <4> QED
        BY <3>2, <4>1, <2>1, <1>1, <1>4, <1>7, ZenonT(40) DEF HealedOK, HealAll
    <3>3. CASE pc' = "ready" /\ at' = 1 /\ at = N /\ Up(n)'
      <4>1. \A m \in Nodes : m < n \/ m = n
        BY <3>3, <1>2 DEF Nodes
      <4> QED
        BY <3>3, <4>1, <2>1, <1>1, <1>4, <1>7, Zenon DEF HealedOK, HealAll
    <3> QED
      BY <3>1, <3>2, <3>3, <1>7, Zenon
  <2> QED
    BY <1>1, <1>5, <1>7, <2>2, <2>3, <2>4, HealKeeps, ZenonT(40) DEF HealAll
<1>8. CASE HealPaused
  <2>1. wiped' \cap joined' = {} /\ pc = "resume"
    BY <1>3, <1>8, Zenon DEF HealPaused
  <2>2. CASE ~Paused(n)
    <3>1. UNCHANGED <<members, os>> /\ pc' = "restart" /\ at' = at
      BY <1>2, <1>8, <2>2, Zenon DEF HealPaused
    <3>2. ServiceOK' /\ Spares({})
      BY <1>1, <3>1, SameKeeps, Zenon DEF Inv
    <3> QED
      BY <1>7, <2>1, <2>2, <3>1, <3>2, Zenon DEF Spares
  <2>3. CASE Paused(n)
    <3>1. PICK err \in BOOLEAN : /\ SignalPause(n, FALSE, err)
                                 /\ IF err THEN Fail ELSE pc' = "restart" /\ UNCHANGED <<at, failed>>
      BY <1>2, <1>8, <2>3, Zenon DEF HealPaused
    <3>2. /\ ServiceOK' /\ Spares({n}) /\ (members'[n].there <=> members[n].there)
          /\ (~err => ~Paused(n)')
      BY <1>1, <3>1, PauseKeeps, Zenon DEF Inv
    <3> QED
      BY <1>6, <1>7, <2>1, <3>1, <3>2, Zenon
  <2> QED
    BY <2>2, <2>3, Zenon
<1>9. CASE HealStopped
  <2>1. pc = "restart"
    BY <1>9, Zenon DEF HealStopped
  <2>2. ASSUME Onward("resume", "ready")
        PROVE  \/ pc' = "resume" /\ at' = at + 1 /\ at' \in Nodes
               \/ pc' = "ready" /\ at' = 1 /\ at = N
    BY <1>2, <2>2, OnwardIs, Zenon
  <2>3. CASE Running(n)
    <3>1. UNCHANGED <<members, os, wiped, joined>> /\ Onward("resume", "ready")
      BY <1>2, <1>9, <2>3, Zenon DEF HealStopped, Step
    <3>2. ServiceOK' /\ Spares({})
      BY <1>1, <3>1, SameKeeps, Zenon DEF Inv
    <3>3. Up(n)' /\ ~Paused(n)' /\ (members'[n].there <=> members[n].there) /\ Spares({n})
      BY <1>4, <2>1, <2>3, <3>2, Zenon DEF Spares, Up
    <3>4. wiped' \cap joined' = {}
      BY <1>3, <3>1, Zenon
    <3> QED
      BY <1>7, <2>2, <3>1, <3>2, <3>3, <3>4, Zenon
  <2>4. CASE ~Running(n)
    <3>1. PICK err \in BOOLEAN : Restart(n, err) /\ Step(err, "resume", "ready")
      BY <1>2, <1>9, <2>4, Zenon DEF HealStopped
    <3>2. ServiceOK' /\ Spares({}) /\ (~err => Running(n)')
      BY <1>1, <3>1, RestartKeeps, Zenon DEF Inv, Idle
    <3>3. ~Paused(n)' /\ (members'[n].there <=> members[n].there) /\ Spares({n}) /\ (~err => Up(n)')
      BY <1>4, <2>1, <3>2, Zenon DEF Spares, Up
    <3>4. wiped' \subseteq wiped /\ joined' \subseteq joined \cup {n} /\ (wiped' # wiped \/ joined' # joined => n \notin wiped')
      BY <3>1, Zenon DEF Restart, LaunchLocked
    <3>5. wiped' \cap joined' = {}
      BY <1>3, <3>4, Zenon
    <3>6. CASE err
      BY <1>6, <3>1, <3>2, <3>3, <3>6, Zenon DEF Step
    <3>7. CASE ~err
      <4>1. Onward("resume", "ready")
        BY <3>1, <3>7, Zenon DEF Step
      <4> QED
        BY <1>7, <2>2, <3>2, <3>3, <3>5, <3>7, <4>1, ZenonT(40)
    <3> QED
      BY <3>6, <3>7, Zenon
  <2> QED
    BY <2>3, <2>4, Zenon
<1> QED
  BY <1>8, <1>9, Zenon

-----------------------------------------------------------------------------
(* The teardown, and the calls of a free job.                               *)

\* The end of Run, and of a free job's calls.
LEMMA OverKeeps ==
  ASSUME Inv, Finish \/ CallsOver
  PROVE  Inv'
<1>1. /\ pc \in {"flush", "calls"} /\ pc' = "stop" /\ at' = 1 /\ Idle
      /\ UNCHANGED <<members, exits, os, lost, leased, calls, drops, shaped, full, fault, doubt, dirty>>
  BY DEF Finish, CallsOver, NoCall, rqVars, memberVars, nodeVars, faultVars, Inv, JobOK, AtOK, CallsOK, Idle
<1>2. ServiceOK' /\ Spares({})
  BY <1>1, SameKeeps, Zenon DEF Inv
<1>3. ToolsOK'
  BY <1>1, Zenon DEF Inv, JobOK, ToolsOK
<1>4. \A n \in Nodes : members'[n].there \/ leased'[n] = 0
  BY <1>1, Zenon DEF Inv, JobOK, TornOK, Idle, Callers
<1> QED
  BY <1>1, <1>2, <1>3, <1>4, FailKeeps, ZenonT(40) DEF Teardown

\* What a step of the teardown owes, beyond what it tears down.
LEMMA TeardownKeeps ==
  ASSUME Inv, ServiceOK', pc \in Teardown, pc' \in Teardown, UNCHANGED <<drops, shaped, full, fault, doubt>>,
         at' \in Nodes, pc' = "done" => at' = 1, CallsOK', TornOK'
  PROVE  Inv'
<1>1. JobType' /\ AtOK' /\ ToolsOK'
  BY DEF Inv, JobOK, JobType, AtOK, ToolsOK, Teardown, Nodes
<1>2. DisksOK' /\ FaultsOK' /\ HealedOK'
  BY Zenon DEF DisksOK, FaultsOK, HealedOK, Setup, Nemeses, HealAll, Teardown
<1> QED
  BY <1>1, <1>2, Zenon DEF Inv, JobOK

\* StopNode: a node is let go of before its process is stopped, its ports after.
LEMMA StopNodeKeeps ==
  ASSUME Inv, PlacesOK, StopNode
  PROVE  Inv'
<1>1. /\ pc = "stop" /\ UNCHANGED <<drops, shaped, full, fault, doubt>>
      /\ calls["b"].step = "idle" /\ (calls["a"].step = "idle" \/ (calls["a"].step = "teardown" /\ calls["a"].node = at))
      /\ \A c \in Callers : calls[c].step = "idle" => calls[c] = NoCall
  BY Zenon DEF StopNode, faultVars, Inv, JobOK, CallsOK
<1>2. PICK n \in Nodes : n = at
  BY <1>1, Zenon DEF Inv, JobOK, AtOK
<1>3. /\ \A m \in Nodes : members[m].there \/ leased[m] = 0 \/ (calls["a"].step = "teardown" /\ calls["a"].node = m)
      /\ \A m \in Nodes : m < n => ~members[m].there
      /\ calls["a"].step = "teardown" => ~members[n].there
  BY <1>1, <1>2, Zenon DEF Inv, JobOK, TornOK, ServiceOK, StopsOK, StopOK, Callers
<1>4. CASE StopNodeTake(at) /\ UNCHANGED <<pc, at, dirty>>
  <2>1. StopNodeTake(n) /\ dirty' = dirty /\ leased' = leased
    BY <1>2, <1>4, Zenon DEF StopNodeTake, nodeVars
  <2>2. /\ ServiceOK' /\ Spares({n}) /\ ~members'[n].there
        /\ calls'["a"].step = "teardown" /\ calls'["a"].node = n /\ calls'["b"] = calls["b"]
    BY <1>1, <2>1, StopNodeTakeKeeps, Zenon DEF Inv
  <2>3. CallsOK'
    BY <1>1, <1>2, <1>4, <2>2, Zenon DEF CallsOK, Callers
  <2>4. calls["a"].step = "idle"
    BY <2>1 DEF StopNodeTake, NoCall
  <2>5. TornOK'
    <3>1. \A m \in Nodes : members'[m].there \/ leased'[m] = 0 \/ (calls'["a"].step = "teardown" /\ calls'["a"].node = m)
      BY <1>3, <2>1, <2>2, <2>4, Zenon DEF Spares
    <3>2. \A m \in Nodes : m < at' => ~members'[m].there
      BY <1>2, <1>3, <1>4, <2>2, Zenon DEF Spares, Nodes
    <3> QED
      BY <1>1, <1>4, <3>1, <3>2, Zenon DEF TornOK, Teardown
  <2> QED
    BY <1>1, <1>2, <1>4, <2>2, <2>3, <2>5, TeardownKeeps, Zenon DEF Teardown
<1>5. ASSUME ServiceOK', Onward("stop", "clean"), calls'["a"] = NoCall, calls'["b"] = calls["b"],
             \A m \in Nodes : (members'[m].there <=> members[m].there) /\ (m # n => leased'[m] = leased[m]),
             ~members[n].there, leased'[n] = 0
      PROVE  Inv'
  <2>1. at' \in Nodes /\ ((pc' = "stop" /\ at' = at + 1) \/ (pc' = "clean" /\ at' = 1 /\ at = N))
    BY <1>2, <1>5, OnwardIs, Zenon
  <2>2. \A c \in Callers : calls'[c].step = "idle" /\ calls'[c] = NoCall
    BY <1>1, <1>5, Zenon DEF Callers, NoCall
  <2>3. CallsOK'
    BY <2>1, <2>2, Zenon DEF CallsOK, Callers
  <2>4. \A m \in Nodes : members'[m].there \/ leased'[m] = 0
    BY <1>1, <1>2, <1>3, <1>5, ZenonT(40)
  <2>5. \A m \in Nodes : m <= n => ~members'[m].there
    BY <1>3, <1>5 DEF Nodes
  <2>6. TornOK'
    <3>1. CASE pc' = "stop" /\ at' = at + 1
      BY <3>1, <2>4, <2>5, <1>2, SMTT(30) DEF TornOK, Teardown, Nodes
    <3>2. CASE pc' = "clean" /\ at' = 1 /\ at = N
      BY <3>2, <2>4, <2>5, <1>2 DEF TornOK, Teardown, Nodes
    <3> QED
      BY <3>1, <3>2, <2>1, Zenon
  <2> QED
    BY <1>1, <1>5, <2>1, <2>3, <2>6, TeardownKeeps, Zenon DEF Teardown
<1>6. ASSUME NEW err \in BOOLEAN, StopNodeStop(at, err), Mark(err), Onward("stop", "clean")
      PROVE  Inv'
  <2>1. StopNodeStop(n, err) /\ dirty \subseteq dirty' /\ (err => n \in dirty')
    BY <1>2, <1>6, Zenon DEF Mark
  <2>2. ServiceOK' /\ Spares({}) /\ calls'["a"] = NoCall /\ calls'["b"] = calls["b"]
    BY <1>1, <2>1, StopNodeStopKeeps, Zenon DEF Inv
  <2>3. leased' = [leased EXCEPT ![n] = 0] /\ calls["a"].step = "teardown"
    BY <2>1, Zenon DEF StopNodeStop
  <2>4. leased'[n] = 0 /\ \A m \in Nodes : m # n => leased'[m] = leased[m]
    BY <2>3, Zenon DEF PlacesOK
  <2>5. \A m \in Nodes : members'[m].there <=> members[m].there
    BY <2>2, Zenon DEF Spares
  <2> QED
    BY <1>3, <1>5, <1>6, <2>2, <2>3, <2>4, <2>5, Zenon
<1>7. CASE calls["a"] = NoCall /\ ~members[at].there /\ Onward("stop", "clean") /\ UNCHANGED <<rqVars, dirty>>
  <2>1. UNCHANGED <<members, os, exits, lost, calls, dirty, leased>>
    BY <1>7, Zenon DEF rqVars, memberVars, nodeVars
  <2>2. ServiceOK' /\ Spares({})
    BY <2>1, SameKeeps, Zenon DEF Inv
  <2>3. leased[n] = 0 /\ ~members[n].there
    BY <1>2, <1>3, <1>7 DEF NoCall
  <2> QED
    BY <1>5, <1>7, <2>1, <2>2, <2>3, Zenon
<1> QED
  BY <1>4, <1>6, <1>7, Zenon DEF StopNode

\* CleanNode: a node that is not marked has nothing mounted over its directory.
LEMMA CleanKeeps ==
  ASSUME Inv, PlacesOK, Clean
  PROVE  Inv'
<1>1. /\ pc = "clean" /\ Idle /\ UNCHANGED <<members, exits, os, lost, leased, calls, drops, shaped, full, fault, doubt>>
  BY Zenon DEF Clean, memberVars, faultVars, Inv, JobOK, CallsOK, Idle
<1>2. PICK n \in Nodes : n = at
  BY <1>1, Zenon DEF Inv, JobOK, AtOK
<1>3. PICK err \in BOOLEAN : CleanNode(n, err) /\ Mark(err) /\ Onward("clean", "done")
  BY <1>2, Zenon DEF Clean
<1>4. /\ \A m \in Nodes : members[m].there \/ leased[m] = 0
      /\ \A m \in Nodes : ~members[m].there
      /\ \A m \in Nodes : m < n => m \in dirty \/ mounts[m] = 0
  BY <1>1, <1>2, Zenon DEF Inv, JobOK, TornOK, Idle, Callers
<1>5. dirty' = IF err THEN dirty \cup {n} ELSE dirty
  BY <1>2, <1>3, Zenon DEF Mark
<1>6. /\ \A m \in Nodes : m # n => mounts'[m] = mounts[m]
      /\ ~err => mounts'[n] = 0
  BY <1>3, Zenon DEF CleanNode, Unlimit, PlacesOK
<1>7. ServiceOK' /\ Spares({})
  <2>1. dirty \subseteq dirty'
    BY <1>5, Zenon
  <2> QED
    BY <1>1, <2>1, SameKeeps, Zenon DEF Inv
<1>8. at' \in Nodes /\ ((pc' = "clean" /\ at' = at + 1) \/ (pc' = "done" /\ at' = 1 /\ at = N))
  BY <1>2, <1>3, OnwardIs, Zenon
<1>9. CallsOK'
  BY <1>1, <1>8, IdleCalls, Zenon DEF Inv
<1>10. \A m \in Nodes : m <= n => m \in dirty' \/ mounts'[m] = 0
  BY <1>4, <1>5, <1>6 DEF Nodes
<1>11. TornOK'
  <2>1. CASE pc' = "clean" /\ at' = at + 1
    BY <2>1, <1>1, <1>2, <1>4, <1>10, SMTT(30) DEF TornOK, Teardown, Nodes
  <2>2. CASE pc' = "done" /\ at' = 1 /\ at = N
    BY <2>2, <1>1, <1>2, <1>4, <1>10 DEF TornOK, Teardown, Nodes
  <2> QED
    BY <2>1, <2>2, <1>8, Zenon
<1> QED
  BY <1>1, <1>7, <1>8, <1>9, <1>11, TeardownKeeps DEF Teardown

\* A free job's caller takes a step.
LEMMA CallKeeps ==
  ASSUME Inv, NEW c \in Callers, Call(c)
  PROVE  Inv'
<1>1. /\ pc = "calls" /\ pc' = "calls" /\ UNCHANGED <<at, fault, doubt, dirty, drops, shaped, full, leased>>
  BY Zenon DEF Call, faultVars, ShutdownTake, ShutdownStop, ShutdownFinish, nodeVars
<1>2. /\ dirty = {} /\ wiped \cap joined = {} /\ 1 \in Nodes
      /\ \A d \in Callers : calls[d].step # "teardown" /\ (calls[d].step = "idle" => calls[d] = NoCall)
      /\ \A n \in Nodes : members[n].there \/ leased[n] = 0
  BY <1>1, NAssumption DEF Inv, JobOK, TornOK, CallsOK, DisksOK, Teardown, Nodes, Callers
<1>3. ASSUME ServiceOK', \A n \in Nodes : members'[n].there <=> members[n].there, wiped' \cap joined' = {},
             \A d \in Callers : calls'[d].step # "teardown" /\ (calls'[d].step = "idle" => calls'[d] = NoCall)
      PROVE  Inv'
  <2>1. JobType' /\ AtOK' /\ ToolsOK'
    BY <1>1, Zenon DEF Inv, JobOK, JobType, AtOK, ToolsOK
  <2>2. CallsOK' /\ TornOK' /\ DisksOK'
    BY <1>1, <1>2, <1>3, Zenon DEF CallsOK, TornOK, DisksOK, Setup, Teardown
  <2>3. FaultsOK' /\ HealedOK'
    BY <1>1, Zenon DEF FaultsOK, HealedOK, Setup, Nemeses, HealAll
  <2> QED
    BY <1>3, <2>1, <2>2, <2>3, Zenon DEF Inv, JobOK
<1>4. CASE ShutdownTake(c, 1)
  <2>1. /\ ServiceOK' /\ Spares({1}) /\ (members'[1].there <=> members[1].there)
        /\ calls'[c].step = "stop" /\ \A d \in Callers : d # c => calls'[d] = calls[d]
    BY <1>1, <1>2, <1>4, TakeKeeps DEF Inv
  <2>2. UNCHANGED <<wiped, joined>>
    BY <1>4, Zenon DEF ShutdownTake, nodeVars
  <2> QED
    BY <1>2, <1>3, <2>1, <2>2, ZenonT(40) DEF Spares
<1>5. CASE ShutdownStop(c)
  <2>1. /\ ServiceOK' /\ Spares({})
        /\ calls'[c].step = "finish" /\ \A d \in Callers : d # c => calls'[d] = calls[d]
    BY <1>1, <1>5, StopKeeps, Zenon DEF Inv
  <2>2. UNCHANGED <<wiped, joined>>
    BY <1>5, Zenon DEF ShutdownStop, nodeVars
  <2> QED
    BY <1>2, <1>3, <2>1, <2>2, Zenon DEF Spares
<1>6. CASE ShutdownFinish(c)
  <2>1. /\ ServiceOK' /\ Spares({})
        /\ calls'[c] = NoCall /\ \A d \in Callers : d # c => calls'[d] = calls[d]
    BY <1>1, <1>6, FinishKeeps, Zenon DEF Inv
  <2>2. UNCHANGED <<wiped, joined>> /\ NoCall.step = "idle"
    BY <1>6, Zenon DEF ShutdownFinish, nodeVars, NoCall
  <2> QED
    BY <1>2, <1>3, <2>1, <2>2, Zenon DEF Spares
<1>7. ASSUME NEW err \in BOOLEAN, UNCHANGED <<exits, lost, calls>>,
             \/ Crash(1, err) /\ UNCHANGED <<watching, wiped, joined>>
             \/ \E paused \in BOOLEAN : SignalPause(1, paused, err) /\ UNCHANGED <<watching, wiped, joined>>
             \/ Restart(1, err)
      PROVE  Inv'
  <2>1. CASE Crash(1, err) /\ UNCHANGED <<watching, wiped, joined>>
    <3>1. ServiceOK' /\ Spares({1}) /\ members'[1].there = members[1].there
      BY <1>1, <1>2, <1>7, <2>1, CrashKeeps, Zenon DEF Inv
    <3> QED
      BY <1>2, <1>3, <1>7, <2>1, <3>1, Zenon DEF Spares
  <2>2. ASSUME NEW paused \in BOOLEAN, SignalPause(1, paused, err), UNCHANGED <<watching, wiped, joined>>
        PROVE  Inv'
    <3>1. ServiceOK' /\ Spares({1}) /\ members'[1].there = members[1].there
      BY <1>1, <1>2, <1>7, <2>2, PauseKeeps, Zenon DEF Inv
    <3> QED
      BY <1>2, <1>3, <1>7, <2>2, <3>1, Zenon DEF Spares
  <2>3. CASE Restart(1, err)
    <3>1. ServiceOK' /\ Spares({})
      BY <1>1, <1>2, <1>7, <2>3, RestartKeeps, Zenon DEF Inv
    <3>2. wiped' \subseteq wiped /\ joined' \subseteq joined \cup {1} /\ (wiped' # wiped \/ joined' # joined => 1 \notin wiped')
      BY <2>3, Zenon DEF Restart, LaunchLocked
    <3>3. wiped' \cap joined' = {}
      BY <1>2, <3>2, Zenon
    <3> QED
      BY <1>2, <1>3, <1>7, <3>1, <3>3, Zenon DEF Spares
  <2> QED
    BY <1>7, <2>1, <2>2, <2>3, Zenon
<1> QED
  BY <1>4, <1>5, <1>6, <1>7, Zenon DEF Call

-----------------------------------------------------------------------------
(* The whole job.                                                           *)

\* Ports and mounts are counted per node, whoever changes them.
LEMMA PlacesKeep ==
  ASSUME Inv, PlacesOK, [Next]_vars
  PROVE  PlacesOK'
<1>1. ASSUME NEW n \in Nodes
      PROVE  /\ Unlimited(n) \in Nat /\ mounts[n] \in Nat
             /\ \A x \in Nat : [mounts EXCEPT ![n] = x] \in [Nodes -> Nat] /\ [leased EXCEPT ![n] = x] \in [Nodes -> Nat]
  BY <1>1 DEF PlacesOK, Unlimited
<1>2. ASSUME NEW n \in Nodes, NEW err, CleanNode(n, err), leased' = leased
      PROVE  PlacesOK'
  BY <1>1, <1>2 DEF CleanNode, Unlimit, PlacesOK
<1>3. pc \in {"prepare", "start", "stop", "clean"} => at \in Nodes
  BY Zenon DEF Inv, JobOK, AtOK
<1>4. pc = "wipe" => fault.nodes[1] \in Nodes
  BY DEF Inv, JobOK, JobType, AtOK, FaultState
<1>5. CASE Prepare
  BY <1>2, <1>3, <1>5, Zenon DEF Prepare
<1>6. CASE Clean
  BY <1>2, <1>3, <1>6, Zenon DEF Clean
<1>7. CASE Start
  <2>1. PICK n \in Nodes, err \in BOOLEAN : StartNode(n, err)
    BY <1>3, <1>7, Zenon DEF Start
  <2>2. UNCHANGED <<leased, mounts>> \/ mounts' = [mounts EXCEPT ![n] = @ + (IF Limited THEN 1 ELSE 0)]
    BY <2>1, Zenon DEF StartNode, Limit, nodeVars
  <2>3. leased' = leased \/ leased' = [leased EXCEPT ![n] = 2]
    BY <2>1, Zenon DEF StartNode, nodeVars
  <2>4. mounts' \in [Nodes -> Nat] /\ leased' \in [Nodes -> Nat]
    BY <1>1, <2>2, <2>3 DEF PlacesOK
  <2> QED
    BY <2>4, Zenon DEF PlacesOK
<1>8. CASE WipeFollower
  <2>1. PICK n \in Nodes, err \in BOOLEAN : Wipe(n, err)
    BY <1>4, <1>8, Zenon DEF WipeFollower
  <2>2. leased' = leased /\ (mounts' = mounts \/ mounts' = [mounts EXCEPT ![n] = Unlimited(n)])
    BY <1>8, <2>1, Zenon DEF WipeFollower, Wipe
  <2> QED
    BY <1>1, <2>2, Zenon DEF PlacesOK
<1>9. CASE StopNode
  <2>1. mounts' = mounts /\ (leased' = leased \/ leased' = [leased EXCEPT ![at] = 0]) /\ at \in Nodes
    BY <1>3, <1>9, Zenon DEF StopNode, StopNodeTake, StopNodeStop, rqVars, nodeVars
  <2> QED
    BY <1>1, <2>1 DEF PlacesOK
<1>10. ASSUME UNCHANGED <<leased, mounts>>
       PROVE  PlacesOK'
  BY <1>10, Zenon DEF PlacesOK
<1>11. CASE \/ InjectCrash \/ InjectNothing \/ InjectCall \/ InjectMajority \/ CrashNext
            \/ InjectStop \/ Stopping \/ InjectPause \/ InjectReplace \/ RemoveFollower
  BY <1>10, <1>11, Zenon DEF InjectCrash, InjectNothing, InjectCall, InjectMajority, CrashNext, InjectStop, Stopping,
     InjectPause, InjectReplace, RemoveFollower, ShutdownTake, ShutdownStop, ShutdownFinish, rqVars, nodeVars
<1>12. CASE \/ InjectFull \/ InjectNet \/ InjectShape \/ Wait("wait", "begin") \/ HealWaits \/ Begin \/ RunOver \/ Finish
  BY <1>10, <1>12, Zenon DEF InjectFull, InjectNet, InjectShape, Wait, HealWaits, Begin, RunOver, Finish, rqVars, nodeVars
<1>13. CASE Mend \/ HealDisks \/ HealNet \/ HealShapes \/ HealPaused \/ HealStopped
  BY <1>10, <1>13, Zenon DEF Mend, HealDisks, HealNet, HealShapes, HealPaused, HealStopped, healRest
<1>14. CASE CallsOver \/ \E c \in Callers : Call(c)
  BY <1>10, <1>14, Zenon DEF CallsOver, Call, ShutdownTake, ShutdownStop, ShutdownFinish, rqVars, nodeVars
<1>15. CASE Background
  BY <1>10, <1>15, Zenon DEF Background, OwnExit, Watch, nodeVars
<1>16. CASE UNCHANGED vars
  BY <1>10, <1>16, Zenon DEF vars, rqVars, nodeVars
<1> QED
  BY <1>5, <1>6, <1>7, <1>8, <1>9, <1>11, <1>12, <1>13, <1>14, <1>15, <1>16, ZenonT(40) DEF Next, Job, Inject

\* Every step of the job, of the processes and of their watchers keeps Inv.
LEMMA NextKeeps ==
  ASSUME Inv, PlacesOK, [Next]_vars
  PROVE  Inv'
<1>1. CASE Inject
  BY <1>1, InjectCrashKeeps, InjectNothingKeeps, InjectMajorityKeeps, CrashNextKeeps, InjectStopKeeps, StoppingKeeps,
     InjectPauseKeeps, InjectReplaceKeeps, RemoveFollowerKeeps, InjectToolKeeps, ZenonT(40) DEF Inject
<1>2. CASE HealWaits
  BY <1>2, WaitKeeps, Zenon DEF HealWaits
<1>3. CASE Wait("wait", "begin")
  BY <1>3, WaitKeeps, Zenon
<1>4. CASE Job
  BY <1>1, <1>2, <1>3, <1>4, PrepareKeeps, StartKeeps, BeginKeeps, MendKeeps, RunOverKeeps, HealToolsKeeps,
     HealNodeKeeps, OverKeeps, StopNodeKeeps, CleanKeeps, CallKeeps, ZenonT(40) DEF Job
<1>5. CASE Background /\ UNCHANGED <<faultVars, jobVars>>
  <2>1. UNCHANGED nodeVars /\ dirty' = dirty
    BY <1>5, Zenon DEF Background, OwnExit, Watch, jobVars
  <2>2. ServiceOK' /\ Spares({}) /\ calls' = calls
    BY <1>5, <2>1, BackgroundKeeps, Zenon DEF Inv
  <2> QED
    BY <1>5, <2>1, <2>2, SparedKeeps, Zenon
<1>6. CASE UNCHANGED vars
  <2>1. UNCHANGED <<members, os, exits, lost, calls>> /\ dirty' = dirty /\ UNCHANGED <<calls, nodeVars, faultVars, jobVars>>
    BY <1>6, Zenon DEF vars, rqVars, memberVars, jobVars
  <2>2. ServiceOK' /\ Spares({})
    BY <2>1, SameKeeps, Zenon DEF Inv
  <2> QED
    BY <2>1, <2>2, SparedKeeps, Zenon
<1> QED
  BY <1>4, <1>5, <1>6, Zenon DEF Next

\* The inductive invariant holds of every state of the job, for any number of
\* nodes, faults and failures.
THEOREM InvHolds == Spec => [](Inv /\ PlacesOK)
<1>1. Init \/ InitCalls => Inv
  BY InitKeeps, InitCallsKeeps, Zenon
<1>2. Init \/ InitCalls => PlacesOK
  BY DEF Init, InitCalls, RqInit, PlacesOK
<1>3. Inv /\ PlacesOK /\ [Next]_vars => Inv' /\ PlacesOK'
  BY NextKeeps, PlacesKeep, Zenon
<1> QED
  BY <1>1, <1>2, <1>3, PTL DEF Spec

-----------------------------------------------------------------------------
(* What it implies.                                                         *)

\* However Crash, Shutdown, Restart, StopNode and the watchers interleave and
\* fail, a node never has two rqlited processes the service does not know to be
\* lost; and a node whose StopNode and CleanNode returned nil is left with none,
\* with no port leased and no mount over its directory (service.go).
THEOREM OneServerEach == Spec => []OneServer
<1>1. Inv /\ PlacesOK => OneServer
  <2> SUFFICES ASSUME Inv, NEW n \in Nodes
               PROVE  LET known == {g \in Live(n) : <<n, g>> \notin lost}
                      IN  /\ \A g, h \in known : g = h
                          /\ pc = "done" /\ n \notin dirty => known = {} /\ leased[n] = 0 /\ mounts[n] = 0
    BY Zenon DEF OneServer
  <2>1. \A g \in Live(n) : g \in 1..Len(os[n]) /\ os[n][g] \in Lives
    BY DEF Live, Alive, Lives, Inv, ServiceOK, ServiceType
  <2>2. \A g \in Live(n) : <<n, g>> \notin lost => g = Len(os[n]) /\ Accounted(n, g)
    BY <2>1, Zenon DEF Inv, ServiceOK, KnownOK
  <2>3. ASSUME pc = "done", n \notin dirty
        PROVE  /\ \A g \in Live(n) : ~Accounted(n, g)
               /\ leased[n] = 0 /\ mounts[n] = 0
    <3>1. \A c \in Callers : calls[c].step = "idle"
      BY <2>3, Zenon DEF Inv, JobOK, CallsOK
    <3>2. ~members[n].there /\ leased[n] = 0 /\ mounts[n] = 0
      BY <2>3, <3>1, Zenon DEF Inv, JobOK, TornOK, Callers
    <3>3. members[n] = Gone
      BY <3>2, Zenon DEF Inv, ServiceOK, MembersOK, MemberOK
    <3>4. members[n].proc = 0 /\ ~members[n].unstopped
      BY <3>3 DEF Gone
    <3>5. \A g \in Live(n) : ~Accounted(n, g)
      BY <2>1, <2>3, <3>1, <3>4 DEF Accounted, InHand
    <3> QED
      BY <3>2, <3>5, Zenon
  <2> QED
    BY <2>2, <2>3, Zenon
<1> QED
  BY <1>1, InvHolds, PTL

\* An exit on the service's record is of a process that exited by itself or that
\* the transport lost, never of one the service killed or stopped, however late
\* its watch goroutine comes to it (service.go, watch).
THEOREM ExitsAreNobodys == Spec => []ExitsAreUnasked
<1>1. Inv /\ PlacesOK => ExitsAreUnasked
  BY Zenon DEF Inv, ServiceOK, ExitsOK, ExitsAreUnasked
<1> QED
  BY <1>1, InvHolds, PTL

\* When healAll has returned nil, and when the nemesis ends with no operation in
\* doubt, no node is cut off, shaped, full or paused, and one that is down went
\* down by itself (nemesis.go).
THEOREM NoFaultIsLeft == Spec => []FaultsEnd
<1>1. Inv /\ PlacesOK => FaultsEnd
  <2> SUFFICES ASSUME Inv, pc = "flush"
               PROVE  Whole
    BY Zenon DEF FaultsEnd, Inv, JobOK, HealedOK
  <2>1. /\ full = {} /\ shaped = {} /\ \A n \in Nodes : drops[n] = NoRules
        /\ \A n \in Nodes : ~Paused(n) /\ Up(n)
    BY Zenon DEF Inv, JobOK, HealedOK, HealAll
  <2> QED
    BY <2>1, Zenon DEF Whole, Up
<1> QED
  BY <1>1, InvHolds, PTL

\* replace-disk never erases the disk of a node the cluster still has as a
\* member, whatever of it failed (nemesis.go).
THEOREM NoMemberForgets == Spec => []NoAmnesia
<1>1. Inv /\ PlacesOK => NoAmnesia
  BY Zenon DEF Inv, JobOK, DisksOK, NoAmnesia, Teardown
<1> QED
  BY <1>1, InvHolds, PTL

=============================================================================

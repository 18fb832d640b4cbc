-------------------------- MODULE RqServiceProofs ---------------------------
(***************************************************************************)
(* What the rqlite example's service keeps whatever calls it: the node's    *)
(* last process is the only one that can live, someone answers for it while *)
(* it does, and an exit on record is nobody's doing.  One lemma says so for *)
(* each operation, and what it does to the nodes it is not about.           *)
(***************************************************************************)
EXTENDS RqChaos, TLAPS

ProcStates == {"running", "frozen", "killed", "exited", "dropped"}
Member == [there : BOOLEAN, proc : Nat, paused : BOOLEAN, stopping : BOOLEAN, unstopped : BOOLEAN]
CallState == [node : Nat, proc : Nat, paused : BOOLEAN, step : {"idle", "stop", "finish", "teardown"}, err : BOOLEAN]
Lives == {"running", "frozen"}

ServiceType ==
  /\ members \in [Nodes -> Member] /\ os \in [Nodes -> Seq(ProcStates)]
  /\ exits \subseteq Nodes \X Nat /\ calls \in [Callers -> CallState]

\* A member's process is the node's last, and not one the service killed; a
\* stop in progress has taken it off.
MemberOK(n) ==
  /\ ~members[n].there => members[n] = Gone
  /\ members[n].proc \in {0, Len(os[n])}
  /\ members[n].proc # 0 => os[n][members[n].proc] # "killed" /\ ~members[n].stopping
MembersOK == \A n \in Nodes : MemberOK(n)

\* A stop in progress is of a node's last process, and the only one there.
StopOK(c) ==
  /\ calls[c].step \in {"stop", "finish"} =>
       /\ calls[c].node \in Nodes /\ members[calls[c].node].stopping
       /\ calls[c].proc \in 1..Len(os[calls[c].node])
  /\ calls[c].step = "teardown" =>
       /\ calls[c].node \in Nodes /\ ~members[calls[c].node].there
       /\ calls[c].proc \in 0..Len(os[calls[c].node])
StopsApart ==
  \A c, d \in Callers :
    calls[c].step # "idle" /\ calls[d].step # "idle" /\ calls[c].node = calls[d].node => c = d
StopsOK == StopsApart /\ \A c \in Callers : StopOK(c)

\* What is known of a live process: it is its member's, a stop has it in hand or
\* has failed, or the teardown has it or has failed.
InHand(c, n, g) ==
  /\ calls[c].node = n
  /\ \/ calls[c].step \in {"stop", "teardown"} /\ calls[c].proc = g
     \/ calls[c].step \in {"finish", "teardown"} /\ calls[c].err
Accounted(n, g) ==
  g = members[n].proc \/ members[n].unstopped \/ n \in dirty \/ \E c \in Callers : InHand(c, n, g)
KnownOK ==
  \A n \in Nodes : \A g \in 1..Len(os[n]) :
    os[n][g] \in Lives => <<n, g>> \in lost \/ (g = Len(os[n]) /\ Accounted(n, g))

\* The exits on record are of processes that were, and nobody's doing.
ExitsOK ==
  \A e \in exits : e[2] \in 1..Len(os[e[1]]) /\ (os[e[1]][e[2]] \in {"exited", "dropped"} \/ e \in lost)

ServiceOK == ServiceType /\ MembersOK /\ StopsOK /\ KnownOK /\ ExitsOK

\* A node is up, or went down by itself.
Up(n) == Running(n) \/ <<n, Len(os[n])>> \in exits

-----------------------------------------------------------------------------
(* The processes.                                                           *)

\* One process became x and the others are as they were.
Became(n, g, x) ==
  /\ os' \in [Nodes -> Seq(ProcStates)]
  /\ \A m \in Nodes : Len(os'[m]) = Len(os[m])
  /\ os'[n][g] = x
  /\ \A m \in Nodes : \A h \in 1..Len(os[m]) : m # n \/ h # g => os'[m][h] = os[m][h]

\* An element of a sequence can be replaced.
LEMMA Replaced ==
  ASSUME NEW S, NEW s \in Seq(S), NEW g \in 1..Len(s), NEW x \in S
  PROVE  [s EXCEPT ![g] = x] \in Seq(S) /\ Len([s EXCEPT ![g] = x]) = Len(s)
<1> DEFINE t == [s EXCEPT ![g] = x]
<1>1. Len(s) \in Nat /\ DOMAIN s = 1..Len(s) /\ s \in [1..Len(s) -> S]
  OBVIOUS
<1>2. t \in [1..Len(s) -> S]
  BY <1>1, Zenon
<1>3. t \in Seq(S)
  BY <1>1, <1>2
<1>4. Len(t) = Len(s)
  BY <1>1, <1>2, <1>3
<1> QED
  BY <1>3, <1>4, Zenon

\* Setting the state of one process, as OwnExit, Kill and signalPause do.
LEMMA SetState ==
  ASSUME ServiceType, NEW n \in Nodes, NEW g \in 1..Len(os[n]), NEW x \in ProcStates,
         os' = [os EXCEPT ![n][g] = x]
  PROVE  Became(n, g, x)
<1>1. os \in [Nodes -> Seq(ProcStates)] /\ os[n] \in Seq(ProcStates)
  BY Zenon DEF ServiceType
<1>2. [os[n] EXCEPT ![g] = x] \in Seq(ProcStates) /\ Len([os[n] EXCEPT ![g] = x]) = Len(os[n])
  BY <1>1, Replaced
<1>3. os'[n] = [os[n] EXCEPT ![g] = x] /\ \A m \in Nodes : m # n => os'[m] = os[m]
  BY <1>1, Zenon
<1>4. os' \in [Nodes -> Seq(ProcStates)]
  BY <1>1, <1>2, Zenon
<1>5. \A h \in 1..Len(os[n]) : os'[n][h] = IF h = g THEN x ELSE os[n][h]
  BY <1>1, <1>3
<1> QED
  BY <1>2, <1>3, <1>4, <1>5, Zenon DEF Became

\* Kill ends the process it is given, if it lives, and no other.
LEMMA KillDoes ==
  ASSUME ServiceType, NEW n \in Nodes, NEW g \in 1..Len(os[n]), Kill(n, g)
  PROVE  Became(n, g, Ended(os[n][g]))
<1>1. os[n][g] \in ProcStates /\ os \in [Nodes -> Seq(ProcStates)]
  BY DEF ServiceType
<1>2. Ended(os[n][g]) \in ProcStates
  BY <1>1, Zenon DEF Ended, ProcStates
<1>3. os' = [os EXCEPT ![n][g] = Ended(os[n][g])]
  BY <1>1, Zenon DEF Kill
<1> QED
  BY <1>2, <1>3, SetState, Zenon

\* A stop that returns no error has ended the process.
LEMMA StopDoes ==
  ASSUME NEW n, NEW g, NEW paused, NEW result, Stop(n, g, paused, result)
  PROVE  (os' = os /\ result = "error") \/ Kill(n, g)
BY DEF Stop, StopResult

-----------------------------------------------------------------------------
(* What each operation of the service does to what is known of it.          *)

\* What a step may not do to any node but those in S: take it down, pause it, or
\* make it a member or none.
Spares(S) ==
  \A m \in Nodes \ S : /\ Up(m) => Up(m)'
                       /\ Paused(m)' => Paused(m)
                       /\ members'[m].there <=> members[m].there

\* Nothing of it changes.
LEMMA SameKeeps ==
  ASSUME ServiceOK, UNCHANGED <<members, os, exits, lost, calls>>, dirty \subseteq dirty'
  PROVE  ServiceOK' /\ Spares({})
<1>1. ServiceType' /\ MembersOK' /\ StopsOK' /\ ExitsOK'
  BY Zenon DEF ServiceOK, ServiceType, MembersOK, MemberOK, StopsOK, StopOK, StopsApart, ExitsOK
<1>2. \A n, g : Accounted(n, g) => Accounted(n, g)'
  BY Zenon DEF Accounted, InHand
<1>3. KnownOK'
  BY <1>2, Zenon DEF ServiceOK, KnownOK
<1>4. Spares({})
  BY Zenon DEF Spares, Up, Running, Paused
<1> QED
  BY <1>1, <1>3, <1>4, Zenon DEF ServiceOK

\* No process begins, none that ended changes, and only g of n changes at all.
Narrows(n, g) ==
  /\ os' \in [Nodes -> Seq(ProcStates)]
  /\ \A m \in Nodes : Len(os'[m]) = Len(os[m])
  /\ \A m \in Nodes : \A h \in 1..Len(os[m]) :
       /\ m # n \/ h # g => os'[m][h] = os[m][h]
       /\ os'[m][h] \in Lives => os[m][h] \in Lives
       /\ os[m][h] \notin Lives => os'[m][h] = os[m][h]

\* A process that is left alone or killed, and one that is paused or resumed.
LEMMA SameNarrows ==
  ASSUME ServiceType, NEW n, NEW g, os' = os
  PROVE  Narrows(n, g)
BY Zenon DEF ServiceType, Narrows

\* So does a process that became another state without coming back to life,
LEMMA BecameNarrows ==
  ASSUME NEW n \in Nodes, NEW g \in 1..Len(os[n]), NEW x, Became(n, g, x),
         x \in Lives => os[n][g] \in Lives, os[n][g] \notin Lives => x = os[n][g]
  PROVE  Narrows(n, g)
BY Zenon DEF Became, Narrows

\* and one that is killed, which no longer lives.
LEMMA KillNarrows ==
  ASSUME ServiceType, NEW n \in Nodes, NEW g \in 1..Len(os[n]), Kill(n, g)
  PROVE  Narrows(n, g) /\ os'[n][g] \notin Lives /\ (os[n][g] \in Lives => os'[n][g] = "killed")
<1>1. Became(n, g, Ended(os[n][g]))
  BY KillDoes, Zenon
<1>2. Ended(os[n][g]) \notin Lives /\ (os[n][g] \notin Lives => Ended(os[n][g]) = os[n][g])
  BY Zenon DEF Ended, Lives
<1>3. Narrows(n, g)
  BY <1>1, <1>2, BecameNarrows, Zenon
<1> QED
  BY <1>1, <1>2, <1>3, Zenon DEF Became, Ended, Lives

\* Such a step keeps the records of the processes as long as those that live stay
\* accounted for.
LEMMA NarrowKeeps ==
  ASSUME ServiceOK, NEW n, NEW g, Narrows(n, g), lost \subseteq lost',
         \A m \in Nodes : \A h \in 1..Len(os[m]) :
           Accounted(m, h) => Accounted(m, h)' \/ os'[m][h] \notin Lives \/ <<m, h>> \in lost'
  PROVE  KnownOK' /\ (exits' = exits => ExitsOK')
<1>1. KnownOK'
  <2> SUFFICES ASSUME NEW m \in Nodes, NEW h \in 1..Len(os'[m]), os'[m][h] \in Lives, <<m, h>> \notin lost'
               PROVE  h = Len(os'[m]) /\ Accounted(m, h)'
    BY Zenon DEF KnownOK
  <2>1. h \in 1..Len(os[m]) /\ os[m][h] \in Lives /\ <<m, h>> \notin lost /\ Len(os'[m]) = Len(os[m])
    BY Zenon DEF Narrows
  <2>2. h = Len(os[m]) /\ Accounted(m, h)
    BY <2>1, Zenon DEF ServiceOK, KnownOK
  <2> QED
    BY <2>1, <2>2, Zenon
<1>2. ASSUME exits' = exits PROVE ExitsOK'
  <2> SUFFICES ASSUME NEW e \in exits
               PROVE  e[2] \in 1..Len(os'[e[1]]) /\ (os'[e[1]][e[2]] \in {"exited", "dropped"} \/ e \in lost')
    BY <1>2, Zenon DEF ExitsOK
  <2>1. e \in Nodes \X Nat /\ e[2] \in 1..Len(os[e[1]]) /\ (os[e[1]][e[2]] \in {"exited", "dropped"} \/ e \in lost)
    BY Zenon DEF ServiceOK, ServiceType, ExitsOK
  <2>2. e[1] \in Nodes
    BY <2>1, Zenon
  <2>3. os[e[1]][e[2]] \in {"exited", "dropped"} => os[e[1]][e[2]] \notin Lives
    BY Zenon DEF Lives
  <2> QED
    BY <2>1, <2>2, <2>3, Zenon DEF Narrows
<1> QED
  BY <1>1, <1>2, Zenon

\* It keeps the members it leaves alone,
LEMMA OthersKept ==
  ASSUME ServiceOK, NEW n, NEW g, Narrows(n, g), \A m \in Nodes : m # n => members'[m] = members[m]
  PROVE  \A m \in Nodes : m # n => MemberOK(m)'
<1> SUFFICES ASSUME NEW m \in Nodes, m # n
             PROVE  MemberOK(m)'
  BY Zenon
<1>1. members'[m] = members[m] /\ Len(os'[m]) = Len(os[m]) /\ MemberOK(m)
  BY Zenon DEF Narrows, ServiceOK, MembersOK
<1>2. members[m].proc # 0 => members[m].proc \in 1..Len(os[m])
  BY <1>1 DEF MemberOK, ServiceOK, ServiceType, Member
<1>3. members[m].proc # 0 => os'[m][members[m].proc] = os[m][members[m].proc]
  BY <1>2, Zenon DEF Narrows
<1> QED
  BY <1>1, <1>3, Zenon DEF MemberOK

\* and the stops in progress of nodes that stay what they are.
LEMMA StopKept ==
  ASSUME NEW c, calls'[c] = calls[c], StopOK(c),
         calls[c].step # "idle" => \A m \in Nodes : m = calls[c].node =>
           /\ members[m].stopping => members'[m].stopping
           /\ members'[m].there => members[m].there
           /\ Len(os'[m]) = Len(os[m])
  PROVE  StopOK(c)'
BY Zenon DEF StopOK

\* All of them are kept by a step that makes no node a member or none, and takes
\* up and ends no stop.
LEMMA StopsKept ==
  ASSUME ServiceOK, NEW n, NEW g, Narrows(n, g), calls' = calls,
         \A m \in Nodes : members'[m].there = members[m].there /\ members'[m].stopping = members[m].stopping
  PROVE  StopsOK'
<1>1. \A m \in Nodes : Len(os'[m]) = Len(os[m])
  BY Zenon DEF Narrows
<1>2. StopsApart'
  BY Zenon DEF ServiceOK, StopsOK, StopsApart
<1> QED
  BY <1>1, <1>2, StopKept, Zenon DEF ServiceOK, StopsOK

\* A member that runs has the node's last process.
LEMMA RunningIs ==
  ASSUME ServiceOK, NEW n \in Nodes, Running(n)
  PROVE  /\ members[n].proc = Len(os[n]) /\ members[n].proc \in 1..Len(os[n])
         /\ members[n].there /\ ~members[n].stopping /\ os[n][members[n].proc] # "killed"
<1>1. members[n].proc \in Nat /\ members[n].proc # 0
  BY Zenon DEF ServiceOK, ServiceType, Running, Member
<1>2. members[n].proc = Len(os[n]) /\ ~members[n].stopping /\ os[n][members[n].proc] # "killed"
  BY <1>1, Zenon DEF ServiceOK, MembersOK, MemberOK
<1>3. members[n].there
  BY <1>1 DEF ServiceOK, MembersOK, MemberOK, Gone
<1> QED
  BY <1>1, <1>2, <1>3

\* Crash
LEMMA CrashKeeps ==
  ASSUME ServiceOK, NEW n \in Nodes, NEW err \in BOOLEAN, Crash(n, err), UNCHANGED <<exits, lost, calls, dirty>>
  PROVE  /\ ServiceOK' /\ Spares({n})
         /\ Paused(n)' => Paused(n)
         /\ members'[n].there = members[n].there
<1>1. CASE ~Running(n)
  <2>1. UNCHANGED <<members, os>>
    BY <1>1, Zenon DEF Crash
  <2>2. ServiceOK' /\ Spares({})
    BY <2>1, SameKeeps, Zenon
  <2> QED
    BY <2>1, <2>2, Zenon DEF Spares, Paused
<1>2. CASE Running(n)
  <2> DEFINE g == members[n].proc
  <2>0. ServiceType /\ members \in [Nodes -> Member] /\ members[n] \in Member
    BY Zenon DEF ServiceOK, ServiceType
  <2>1. g = Len(os[n]) /\ g \in 1..Len(os[n]) /\ members[n].there /\ ~members[n].stopping
    BY <1>2, RunningIs, Zenon
  <2>2. members' = [members EXCEPT ![n].proc = 0, ![n].paused = FALSE, ![n].unstopped = @ \/ err]
    BY <1>2, Zenon DEF Crash
  <2>3. /\ members' \in [Nodes -> Member]
        /\ \A m \in Nodes : m # n => members'[m] = members[m]
        /\ members'[n].there = members[n].there /\ members'[n].stopping = members[n].stopping
        /\ members'[n].proc = 0 /\ ~members'[n].paused
        /\ members'[n].unstopped = (members[n].unstopped \/ err)
    BY <2>0, <2>2, Zenon DEF Member
  <2>4. Narrows(n, g) /\ (err \/ os'[n][g] \notin Lives)
    <3>1. (err /\ os' = os) \/ Kill(n, g)
      BY <1>2, Zenon DEF Crash
    <3> QED
      BY <3>1, <2>0, <2>1, SameNarrows, KillNarrows, Zenon
  <2>5. ServiceType'
    BY <2>3, <2>4, Zenon DEF ServiceOK, ServiceType, Narrows
  <2>6. MembersOK'
    <3>1. \A m \in Nodes : m # n => MemberOK(m)'
      BY <2>3, <2>4, OthersKept, Zenon
    <3>2. MemberOK(n)'
      BY <2>1, <2>3, Zenon DEF MemberOK
    <3> QED
      BY <3>1, <3>2, Zenon DEF MembersOK
  <2>7. StopsOK'
    <3>1. \A m \in Nodes : members'[m].there = members[m].there /\ members'[m].stopping = members[m].stopping
      BY <2>3, Zenon
    <3> QED
      BY <3>1, <2>4, StopsKept, Zenon
  <2>8. \A m \in Nodes : \A h \in 1..Len(os[m]) :
          Accounted(m, h) => Accounted(m, h)' \/ os'[m][h] \notin Lives \/ <<m, h>> \in lost'
    BY <2>3, <2>4, ZenonT(40) DEF Accounted, InHand
  <2>9. KnownOK' /\ ExitsOK'
    BY <2>4, <2>8, NarrowKeeps, Zenon
  <2>10. Spares({n})
    BY <2>3, <2>4, Zenon DEF Spares, Up, Paused, Running, Narrows
  <2> QED
    BY <2>3, <2>5, <2>6, <2>7, <2>9, <2>10, Zenon DEF ServiceOK, Paused
<1> QED
  BY <1>1, <1>2, Zenon

\* signalPause
LEMMA PauseKeeps ==
  ASSUME ServiceOK, NEW n \in Nodes, NEW p \in BOOLEAN, NEW err \in BOOLEAN, SignalPause(n, p, err),
         UNCHANGED <<exits, lost, calls, dirty>>
  PROVE  /\ ServiceOK' /\ Spares({n}) /\ (Up(n) => Up(n)')
         /\ members'[n].there = members[n].there
         /\ ~err => (Paused(n)' <=> p)
         /\ err => (Paused(n)' <=> Paused(n))
<1>0. members \in [Nodes -> Member] /\ members[n] \in Member /\ ServiceType
  BY Zenon DEF ServiceOK, ServiceType
<1>1. CASE UNCHANGED <<members, os>>
  <2>1. ServiceOK' /\ Spares({})
    BY <1>1, SameKeeps, Zenon
  <2>2. Paused(n)' = Paused(n) /\ (~err => Paused(n) = p)
    BY <1>0, <1>1 DEF Paused, SignalPause, Member
  <2> QED
    BY <1>1, <2>1, <2>2, Zenon DEF Spares
<1>2. CASE ~UNCHANGED <<members, os>>
  <2> DEFINE g == members[n].proc
             x == IF Alive(n, g) THEN (IF p THEN "frozen" ELSE "running") ELSE os[n][g]
  <2>1. /\ Running(n)
        /\ os' = os \/ os' = [os EXCEPT ![n][g] = x]
        /\ IF err THEN members' = members ELSE members' = [members EXCEPT ![n].paused = p]
    BY <1>0, <1>2, Zenon DEF SignalPause, ServiceType
  <2>2. g = Len(os[n]) /\ g \in 1..Len(os[n]) /\ members[n].there /\ ~members[n].stopping /\ os[n][g] # "killed"
    BY <2>1, RunningIs, Zenon
  <2>3. /\ members' \in [Nodes -> Member]
        /\ \A m \in Nodes : m # n => members'[m] = members[m]
        /\ members'[n].there = members[n].there /\ members'[n].stopping = members[n].stopping
        /\ members'[n].proc = g /\ members'[n].unstopped = members[n].unstopped
        /\ members'[n].paused = IF err THEN members[n].paused ELSE p
    BY <1>0, <2>1 DEF Member
  <2>4. x \in ProcStates /\ x # "killed" /\ (x \in Lives => os[n][g] \in Lives) /\ (os[n][g] \notin Lives => x = os[n][g])
    <3>1. os[n][g] \in ProcStates /\ DOMAIN os[n] = 1..Len(os[n])
      BY <1>0, <2>2 DEF ServiceType
    <3> QED
      BY <2>2, <3>1, Zenon DEF Alive, Lives, ProcStates
  <2>5. Narrows(n, g) /\ os'[n][g] # "killed"
    <3> HIDE DEF g, x
    <3>1. CASE os' = os
      BY <3>1, <1>0, <2>2, SameNarrows, Zenon
    <3>2. CASE os' = [os EXCEPT ![n][g] = x]
      <4>1. Became(n, g, x)
        BY <3>2, <1>0, <2>2, <2>4, SetState, Zenon
      <4> QED
        BY <4>1, <2>2, <2>4, BecameNarrows, Zenon DEF Became
    <3> QED
      BY <3>1, <3>2, <2>1, Zenon
  <2> HIDE DEF x
  <2>6. ServiceType'
    BY <2>3, <2>5, Zenon DEF ServiceOK, ServiceType, Narrows
  <2>7. MembersOK'
    <3>1. \A m \in Nodes : m # n => MemberOK(m)'
      BY <2>3, <2>5, OthersKept, Zenon
    <3>2. MemberOK(n)'
      BY <2>2, <2>3, <2>5, Zenon DEF MemberOK, Narrows
    <3> QED
      BY <3>1, <3>2, Zenon DEF MembersOK
  <2>8. StopsOK'
    <3>1. \A m \in Nodes : members'[m].there = members[m].there /\ members'[m].stopping = members[m].stopping
      BY <2>3, Zenon
    <3> QED
      BY <3>1, <2>5, StopsKept, Zenon
  <2>9. \A m \in Nodes : \A h \in 1..Len(os[m]) : Accounted(m, h) => Accounted(m, h)'
    BY <2>3, Zenon DEF Accounted, InHand
  <2>10. KnownOK' /\ ExitsOK'
    BY <2>5, <2>9, NarrowKeeps, Zenon
  <2>11. Spares({n}) /\ (Up(n) => Up(n)')
    BY <2>3, <2>5, Zenon DEF Spares, Up, Paused, Running, Narrows
  <2> QED
    BY <2>3, <2>6, <2>7, <2>8, <2>10, <2>11, Zenon DEF ServiceOK, Paused
<1> QED
  BY <1>1, <1>2, Zenon

\* On a node that nothing is known to live on, launchLocked starts the one.
LEMMA LaunchKeeps ==
  ASSUME ServiceOK, NEW n \in Nodes, NEW m \in Member, LaunchLocked(n, m, FALSE), UNCHANGED <<exits, lost, calls, dirty>>,
         m.there, ~m.stopping, ~members[n].stopping, ~members[n].unstopped, members[n].proc = 0, n \notin dirty,
         \A c \in Callers : calls[c].step = "teardown" => calls[c].node # n
  PROVE  /\ ServiceOK' /\ Spares({n})
         /\ Running(n)' /\ ~Paused(n)' /\ members'[n].there
<1> DEFINE g == Len(os[n]) + 1
<1>0. /\ ServiceType /\ members \in [Nodes -> Member] /\ os \in [Nodes -> Seq(ProcStates)]
      /\ os[n] \in Seq(ProcStates) /\ Len(os[n]) \in Nat /\ g \in Nat /\ g # 0
  BY DEF ServiceOK, ServiceType
<1>1. /\ os' = [os EXCEPT ![n] = Append(@, "running")]
      /\ members' = [members EXCEPT ![n] = [m EXCEPT !.proc = g, !.paused = FALSE]]
  BY Zenon DEF LaunchLocked
<1>2. /\ os' \in [Nodes -> Seq(ProcStates)]
      /\ \A k \in Nodes : k # n => os'[k] = os[k]
      /\ Len(os'[n]) = g /\ os'[n][g] = "running"
      /\ \A h \in 1..Len(os[n]) : os'[n][h] = os[n][h]
  <2>1. Append(os[n], "running") \in Seq(ProcStates)
    BY <1>0 DEF ProcStates
  <2>2. os'[n] = Append(os[n], "running") /\ \A k \in Nodes : k # n => os'[k] = os[k]
    BY <1>0, <1>1, Zenon
  <2> QED
    BY <1>0, <1>1, <2>1, <2>2
<1>3. /\ members' \in [Nodes -> Member]
      /\ \A k \in Nodes : k # n => members'[k] = members[k]
      /\ members'[n].there /\ ~members'[n].stopping /\ members'[n].proc = g /\ ~members'[n].paused
  BY <1>0, <1>1, Zenon DEF Member
<1>4. \A c \in Callers : calls[c].step # "idle" => calls[c].node # n
  BY Zenon DEF ServiceOK, ServiceType, StopsOK, StopOK, CallState
<1>5. \A k \in Nodes : \A h \in 1..Len(os'[k]) : (k = n /\ h = g) \/ (h \in 1..Len(os[k]) /\ os'[k][h] = os[k][h])
  <2> SUFFICES ASSUME NEW h \in 1..Len(os'[n]), h # g
               PROVE  h \in 1..Len(os[n])
    BY <1>2, Zenon
  <2> QED
    BY <1>0, <1>2
<1> HIDE DEF g
<1>6. ServiceType'
  BY <1>2, <1>3, Zenon DEF ServiceOK, ServiceType
<1>7. MembersOK'
  <2> SUFFICES ASSUME NEW k \in Nodes
               PROVE  MemberOK(k)'
    BY Zenon DEF MembersOK
  <2>1. CASE k = n
    <3>1. "running" # "killed"
      BY Zenon
    <3> QED
      BY <2>1, <3>1, <1>2, <1>3, Zenon DEF MemberOK
  <2>2. CASE k # n
    <3>1. members'[k] = members[k] /\ os'[k] = os[k] /\ MemberOK(k)
      BY <2>2, <1>2, <1>3, Zenon DEF ServiceOK, MembersOK
    <3> QED
      BY <3>1, Zenon DEF MemberOK
  <2> QED
    BY <2>1, <2>2, Zenon
<1>8. StopsOK'
  <2>1. StopsApart'
    BY Zenon DEF ServiceOK, StopsOK, StopsApart
  <2> QED
    BY <1>2, <1>3, <1>4, <2>1, StopKept, ZenonT(40) DEF ServiceOK, StopsOK
<1>9. \A h \in 1..Len(os[n]) : os[n][h] \in Lives => <<n, h>> \in lost
  <2> SUFFICES ASSUME NEW h \in 1..Len(os[n]), os[n][h] \in Lives, Accounted(n, h)
               PROVE  FALSE
    BY Zenon DEF ServiceOK, KnownOK
  <2>1. h # members[n].proc
    BY <1>0
  <2>2. PICK c \in Callers : calls[c].node = n /\ calls[c].step \in {"stop", "finish", "teardown"}
    BY <2>1, Zenon DEF Accounted, InHand
  <2> QED
    BY <2>2, <1>4, Zenon
<1>10. KnownOK'
  <2> SUFFICES ASSUME NEW k \in Nodes, NEW h \in 1..Len(os'[k]), os'[k][h] \in Lives, <<k, h>> \notin lost
               PROVE  h = Len(os'[k]) /\ Accounted(k, h)'
    BY Zenon DEF KnownOK
  <2>1. CASE k = n /\ h = g
    BY <2>1, <1>2, <1>3, Zenon DEF Accounted
  <2>2. CASE k # n
    <3>1. members'[k] = members[k] /\ os'[k] = os[k]
      BY <2>2, <1>2, <1>3, Zenon
    <3>2. h = Len(os[k]) /\ Accounted(k, h)
      BY <3>1, Zenon DEF ServiceOK, KnownOK
    <3> QED
      BY <3>1, <3>2, Zenon DEF Accounted, InHand
  <2>3. CASE k = n /\ h # g
    BY <2>3, <1>5, <1>9, Zenon
  <2> QED
    BY <2>1, <2>2, <2>3, Zenon
<1>11. ExitsOK'
  <2> SUFFICES ASSUME NEW e \in exits
               PROVE  e[2] \in 1..Len(os'[e[1]]) /\ (os'[e[1]][e[2]] \in {"exited", "dropped"} \/ e \in lost)
    BY Zenon DEF ExitsOK
  <2>1. e \in Nodes \X Nat /\ e[2] \in 1..Len(os[e[1]]) /\ (os[e[1]][e[2]] \in {"exited", "dropped"} \/ e \in lost)
    BY Zenon DEF ServiceOK, ServiceType, ExitsOK
  <2>2. e[1] \in Nodes
    BY <2>1, Zenon
  <2>3. e[2] \in 1..Len(os'[e[1]]) /\ os'[e[1]][e[2]] = os[e[1]][e[2]]
    <3>1. CASE e[1] = n
      <4>1. e[2] \in 1..g
        BY <2>1, <3>1, <1>0 DEF g
      <4> QED
        BY <4>1, <3>1, <2>1, <1>2, Zenon
    <3>2. CASE e[1] # n
      BY <3>2, <2>1, <2>2, <1>2, Zenon
    <3> QED
      BY <3>1, <3>2, Zenon
  <2> QED
    BY <2>1, <2>3, Zenon
<1>12. Spares({n}) /\ Running(n)' /\ ~Paused(n)'
  <2>1. g # 0
    BY <1>0, Zenon
  <2> QED
    BY <1>2, <1>3, <2>1, Zenon DEF Spares, Up, Paused, Running
<1> QED
  BY <1>3, <1>6, <1>7, <1>8, <1>10, <1>11, <1>12, Zenon DEF ServiceOK

\* Restart, which refuses a node where a process may live.
LEMMA RestartKeeps ==
  ASSUME ServiceOK, NEW n \in Nodes, NEW err \in BOOLEAN, Restart(n, err), UNCHANGED <<exits, lost, calls, dirty>>,
         n \notin dirty, \A c \in Callers : calls[c].step # "teardown"
  PROVE  ServiceOK' /\ Spares({}) /\ (~err => Running(n)')
<1>0. members \in [Nodes -> Member] /\ members[n] \in Member
  BY Zenon DEF ServiceOK, ServiceType
<1>1. CASE err
  <2>1. UNCHANGED <<members, os>>
    BY <1>0, <1>1, Zenon DEF Restart, LaunchLocked
  <2> QED
    BY <1>1, <2>1, SameKeeps, Zenon
<1>2. CASE ~err
  <2>1. members[n].there /\ ~members[n].unstopped /\ ~members[n].stopping /\ LaunchLocked(n, members[n], FALSE)
    BY <1>2, Zenon DEF Restart
  <2>2. members[n].proc = 0
    BY <2>1, Zenon DEF LaunchLocked
  <2>3. ServiceOK' /\ Spares({n}) /\ Running(n)' /\ ~Paused(n)' /\ members'[n].there
    BY <1>0, <2>1, <2>2, LaunchKeeps, Zenon
  <2> QED
    BY <2>1, <2>3, Zenon DEF Spares, Up
<1> QED
  BY <1>1, <1>2, Zenon

\* A node StartNode adds and cannot launch.
LEMMA AddKeeps ==
  ASSUME ServiceOK, NEW n \in Nodes, ~members[n].there, members' = [members EXCEPT ![n] = [Gone EXCEPT !.there = TRUE]],
         UNCHANGED <<os, exits, lost, calls, dirty>>,
         \A c \in Callers : calls[c].step = "teardown" => calls[c].node # n
  PROVE  /\ ServiceOK' /\ Spares({n})
         /\ ~Paused(n)' /\ members'[n].there
<1>0. members \in [Nodes -> Member] /\ ServiceType /\ members[n] = Gone
  BY Zenon DEF ServiceOK, ServiceType, MembersOK, MemberOK
<1>1. /\ members' \in [Nodes -> Member]
      /\ \A m \in Nodes : m # n => members'[m] = members[m]
      /\ members'[n].there /\ members'[n].proc = 0 /\ ~members'[n].paused /\ ~members'[n].stopping
      /\ members[n].proc = 0 /\ ~members[n].unstopped /\ ~members[n].stopping
  <2>1. [Gone EXCEPT !.there = TRUE] \in Member
    BY Zenon DEF Member, Gone
  <2>2. members'[n] = [Gone EXCEPT !.there = TRUE] /\ \A m \in Nodes : m # n => members'[m] = members[m]
    BY <1>0, Zenon
  <2> QED
    BY <1>0, <2>1, <2>2 DEF Gone
<1>2. \A c \in Callers : calls[c].step # "idle" => calls[c].node # n
  BY <1>1 DEF ServiceOK, ServiceType, StopsOK, StopOK, CallState
<1>3. Narrows(n, 0)
  BY <1>0, SameNarrows, Zenon
<1>4. ServiceType'
  BY <1>1, Zenon DEF ServiceOK, ServiceType
<1>5. MembersOK'
  <2>1. \A m \in Nodes : m # n => MemberOK(m)'
    BY <1>1, <1>3, OthersKept, Zenon
  <2>2. MemberOK(n)'
    BY <1>1, Zenon DEF MemberOK
  <2> QED
    BY <2>1, <2>2, Zenon DEF MembersOK
<1>6. StopsOK'
  <2>1. StopsApart'
    BY Zenon DEF ServiceOK, StopsOK, StopsApart
  <2> QED
    BY <1>1, <1>2, <2>1, StopKept, Zenon DEF ServiceOK, StopsOK
<1>7. \A m \in Nodes : \A h \in 1..Len(os[m]) : Accounted(m, h) => Accounted(m, h)'
  BY <1>1, Zenon DEF Accounted, InHand
<1>8. KnownOK' /\ ExitsOK'
  BY <1>3, <1>7, NarrowKeeps, Zenon
<1>9. Spares({n})
  BY <1>1, Zenon DEF Spares, Up, Paused, Running
<1> QED
  BY <1>1, <1>4, <1>5, <1>6, <1>8, <1>9, Zenon DEF ServiceOK, Paused

\* Shutdown's first part: no one else has the node's process in hand.
LEMMA TakeKeeps ==
  ASSUME ServiceOK, NEW c \in Callers, NEW n \in Nodes, ShutdownTake(c, n), dirty' = dirty
  PROVE  /\ ServiceOK' /\ Spares({n})
         /\ ~Paused(n)' /\ members'[n].there = members[n].there
         /\ calls'[c].step = "stop" /\ calls'[c].node = n
         /\ \A d \in Callers : d # c => calls'[d] = calls[d]
<1> DEFINE g == members[n].proc
<1>0. members \in [Nodes -> Member] /\ members[n] \in Member /\ calls \in [Callers -> CallState] /\ ServiceType
  BY Zenon DEF ServiceOK, ServiceType
<1>1. /\ calls[c] = NoCall /\ Running(n) /\ UNCHANGED <<exits, os, lost>>
      /\ calls' = [calls EXCEPT ![c] = [node |-> n, proc |-> g, paused |-> members[n].paused,
                                        step |-> "stop", err |-> FALSE]]
      /\ members' = [members EXCEPT ![n].proc = 0, ![n].paused = FALSE, ![n].stopping = TRUE]
  BY Zenon DEF ShutdownTake
<1>2. g = Len(os[n]) /\ g \in 1..Len(os[n]) /\ members[n].there /\ ~members[n].stopping
  BY <1>1, RunningIs, Zenon
<1>3. /\ members' \in [Nodes -> Member]
      /\ \A m \in Nodes : m # n => members'[m] = members[m]
      /\ members'[n].there = members[n].there /\ members'[n].proc = 0 /\ ~members'[n].paused /\ members'[n].stopping
      /\ members'[n].unstopped = members[n].unstopped
  BY <1>0, <1>1, Zenon DEF Member
<1>4. /\ calls' \in [Callers -> CallState]
      /\ \A d \in Callers : d # c => calls'[d] = calls[d]
      /\ calls'[c].node = n /\ calls'[c].proc = g /\ calls'[c].step = "stop" /\ calls[c].step = "idle"
  BY <1>0, <1>1 DEF Member, CallState, NoCall, Nodes
<1>5. \A d \in Callers : calls[d].step # "idle" => calls[d].node # n
  BY <1>0, <1>2, Zenon DEF ServiceOK, StopsOK, StopOK, CallState
<1>6. Narrows(n, g)
  BY <1>0, <1>1, SameNarrows, Zenon
<1> HIDE DEF g
<1>7. ServiceType'
  BY <1>1, <1>3, <1>4, Zenon DEF ServiceOK, ServiceType
<1>8. MembersOK'
  <2>1. \A m \in Nodes : m # n => MemberOK(m)'
    BY <1>3, <1>6, OthersKept, Zenon
  <2>2. MemberOK(n)'
    BY <1>2, <1>3, Zenon DEF MemberOK
  <2> QED
    BY <2>1, <2>2, Zenon DEF MembersOK
<1>9. StopsOK'
  <2>1. StopsApart'
    BY <1>4, <1>5, ZenonT(40) DEF ServiceOK, StopsOK, StopsApart
  <2>2. StopOK(c)'
    BY <1>1, <1>2, <1>3, <1>4, Zenon DEF StopOK
  <2>3. \A d \in Callers : d # c => StopOK(d)'
    BY <1>1, <1>3, <1>4, <1>5, StopKept, Zenon DEF ServiceOK, StopsOK
  <2> QED
    BY <2>1, <2>2, <2>3, Zenon DEF StopsOK
<1>10. \A m \in Nodes : \A h \in 1..Len(os[m]) : Accounted(m, h) => Accounted(m, h)'
  <2>1. \A h : h = members[n].proc => InHand(c, n, h)'
    BY <1>4, Zenon DEF InHand, g
  <2>2. \A d \in Callers : d # c => \A m, h : InHand(d, m, h)' = InHand(d, m, h)
    BY <1>4, Zenon DEF InHand
  <2>3. \A m, h : ~InHand(c, m, h)
    BY <1>4, Zenon DEF InHand
  <2> SUFFICES ASSUME NEW m \in Nodes, NEW h \in 1..Len(os[m]), Accounted(m, h)
               PROVE  Accounted(m, h)'
    BY Zenon
  <2>4. CASE \E d \in Callers : InHand(d, m, h)
    BY <2>2, <2>3, <2>4, Zenon DEF Accounted
  <2>5. CASE h = members[m].proc \/ members[m].unstopped \/ m \in dirty
    BY <2>1, <2>5, <1>3, Zenon DEF Accounted
  <2> QED
    BY <2>4, <2>5, Zenon DEF Accounted
<1>11. KnownOK' /\ ExitsOK'
  BY <1>1, <1>6, <1>10, NarrowKeeps, Zenon
<1>12. Spares({n})
  BY <1>1, <1>3, Zenon DEF Spares, Up, Paused, Running
<1> QED
  BY <1>3, <1>4, <1>7, <1>8, <1>9, <1>11, <1>12, Zenon DEF ServiceOK, Paused

\* Its second part: the process ends, or the stop has failed.
LEMMA StopKeeps ==
  ASSUME ServiceOK, NEW c \in Callers, ShutdownStop(c), dirty' = dirty
  PROVE  /\ ServiceOK' /\ Spares({})
         /\ calls'[c].step = "finish" /\ calls'[c].node = calls[c].node
         /\ \A d \in Callers : d # c => calls'[d] = calls[d]
<1>0. calls \in [Callers -> CallState] /\ calls[c] \in CallState /\ ServiceType
  BY Zenon DEF ServiceOK, ServiceType
<1>1. PICK n \in Nodes : n = calls[c].node
  BY Zenon DEF ShutdownStop, ServiceOK, StopsOK, StopOK
<1>2. PICK g \in 1..Len(os[n]) : g = calls[c].proc
  BY <1>1, Zenon DEF ShutdownStop, ServiceOK, StopsOK, StopOK
<1>3. PICK result \in {"code", "timeout", "error"} :
        /\ Stop(n, g, calls[c].paused, result)
        /\ calls' = [calls EXCEPT ![c].step = "finish", ![c].err = result = "error"]
  BY <1>1, <1>2, Zenon DEF ShutdownStop
<1>4. calls[c].step = "stop" /\ UNCHANGED <<members, exits, lost>>
  BY Zenon DEF ShutdownStop, memberVars
<1>5. /\ calls' \in [Callers -> CallState]
      /\ \A d \in Callers : d # c => calls'[d] = calls[d]
      /\ calls'[c].node = n /\ calls'[c].proc = g /\ calls'[c].step = "finish"
      /\ calls'[c].err <=> result = "error"
  BY <1>0, <1>1, <1>2, <1>3, Zenon DEF CallState
<1>6. Narrows(n, g) /\ (os'[n][g] \notin Lives \/ calls'[c].err)
  <2>1. (os' = os /\ result = "error") \/ Kill(n, g)
    BY <1>3, StopDoes, Zenon
  <2> QED
    BY <2>1, <1>0, <1>5, SameNarrows, KillNarrows, Zenon
<1>7. ServiceType'
  BY <1>4, <1>5, <1>6, Zenon DEF ServiceOK, ServiceType, Narrows
<1>8. MembersOK'
  <2>1. \A m \in Nodes : m # n => MemberOK(m)'
    BY <1>4, <1>6, OthersKept, Zenon
  <2>2. members[n].stopping
    BY <1>1, <1>4, Zenon DEF ServiceOK, StopsOK, StopOK
  <2>3. MemberOK(n)'
    BY <2>2, <1>4, <1>6, Zenon DEF ServiceOK, MembersOK, MemberOK, Narrows
  <2> QED
    BY <2>1, <2>3, Zenon DEF MembersOK
<1>9. StopsOK'
  <2>1. StopsApart'
    <3>1. \A d \in Callers : calls'[d].node = calls[d].node /\ (calls'[d].step # "idle" => calls[d].step # "idle")
      BY <1>1, <1>4, <1>5, Zenon
    <3> QED
      BY <3>1, ZenonT(40) DEF ServiceOK, StopsOK, StopsApart
  <2>2. StopOK(c) /\ Len(os'[n]) = Len(os[n])
    BY <1>6, Zenon DEF ServiceOK, StopsOK, Narrows
  <2>3. StopOK(c)'
    BY <2>2, <1>1, <1>2, <1>4, <1>5, Zenon DEF StopOK
  <2>4. \A d \in Callers : d # c => StopOK(d)'
    BY <1>4, <1>5, <1>6, StopKept, Zenon DEF ServiceOK, StopsOK, Narrows
  <2> QED
    BY <2>1, <2>3, <2>4, Zenon DEF StopsOK
<1>10. \A m \in Nodes : \A h \in 1..Len(os[m]) : Accounted(m, h) => Accounted(m, h)' \/ os'[m][h] \notin Lives
  <2>1. \A d \in Callers : d # c => \A m, h : InHand(d, m, h) => InHand(d, m, h)'
    BY <1>5, Zenon DEF InHand
  <2>2. \A m, h : InHand(c, m, h) => m = n /\ h = g
    BY <1>1, <1>2, <1>4, Zenon DEF InHand
  <2>3. \A h : calls'[c].err => InHand(c, n, h)'
    BY <1>5, Zenon DEF InHand
  <2> SUFFICES ASSUME NEW m \in Nodes, NEW h \in 1..Len(os[m]), Accounted(m, h)
               PROVE  Accounted(m, h)' \/ os'[m][h] \notin Lives
    BY Zenon
  <2>4. CASE \E d \in Callers : InHand(d, m, h)
    BY <2>1, <2>2, <2>3, <2>4, <1>6, Zenon DEF Accounted
  <2>5. CASE h = members[m].proc \/ members[m].unstopped \/ m \in dirty
    BY <2>5, <1>4, Zenon DEF Accounted
  <2> QED
    BY <2>4, <2>5, Zenon DEF Accounted
<1>11. KnownOK' /\ ExitsOK'
  BY <1>4, <1>6, <1>10, NarrowKeeps, Zenon
<1>12. Spares({})
  BY <1>4, <1>6, Zenon DEF Spares, Up, Paused, Running, Narrows
<1> QED
  BY <1>1, <1>5, <1>7, <1>8, <1>9, <1>11, <1>12, Zenon DEF ServiceOK

\* Its last part: a stop that failed is on record.
LEMMA FinishKeeps ==
  ASSUME ServiceOK, NEW c \in Callers, ShutdownFinish(c), dirty' = dirty
  PROVE  /\ ServiceOK' /\ Spares({})
         /\ calls'[c] = NoCall
         /\ \A d \in Callers : d # c => calls'[d] = calls[d]
<1>0. members \in [Nodes -> Member] /\ calls \in [Callers -> CallState] /\ calls[c] \in CallState /\ ServiceType
  BY Zenon DEF ServiceOK, ServiceType
<1>1. PICK n \in Nodes : n = calls[c].node
  BY Zenon DEF ShutdownFinish, ServiceOK, StopsOK, StopOK
<1>2. /\ calls[c].step = "finish" /\ UNCHANGED <<os, exits, lost>>
      /\ members' = [members EXCEPT ![n].stopping = FALSE, ![n].unstopped = @ \/ calls[c].err]
      /\ calls' = [calls EXCEPT ![c] = NoCall]
  BY <1>1, Zenon DEF ShutdownFinish
<1>3. /\ members' \in [Nodes -> Member]
      /\ \A m \in Nodes : m # n => members'[m] = members[m]
      /\ members'[n].there = members[n].there /\ members'[n].proc = members[n].proc /\ ~members'[n].stopping
      /\ members'[n].paused = members[n].paused
      /\ members'[n].unstopped = (members[n].unstopped \/ calls[c].err)
  <2>1. members[n] \in Member
    BY <1>0, Zenon
  <2> QED
    BY <1>0, <1>2, <2>1, Zenon DEF Member, CallState
<1>4. /\ calls' \in [Callers -> CallState] /\ calls'[c] = NoCall /\ calls'[c].step = "idle"
      /\ \A d \in Callers : d # c => calls'[d] = calls[d]
  BY <1>0, <1>2, Zenon DEF CallState, NoCall
<1>5. \A d \in Callers : d # c /\ calls[d].step # "idle" => calls[d].node # n
  BY <1>1, <1>2, Zenon DEF ServiceOK, StopsOK, StopsApart
<1>6. members[n].stopping /\ members[n].proc = 0 /\ members[n].there
  <2>1. members[n].stopping
    BY <1>1, <1>2, Zenon DEF ServiceOK, StopsOK, StopOK
  <2> QED
    BY <2>1 DEF ServiceOK, MembersOK, MemberOK, Gone
<1>7. Narrows(n, 0)
  BY <1>0, <1>2, SameNarrows, Zenon
<1>8. ServiceType'
  BY <1>2, <1>3, <1>4, Zenon DEF ServiceOK, ServiceType
<1>9. MembersOK'
  <2>1. \A m \in Nodes : m # n => MemberOK(m)'
    BY <1>3, <1>7, OthersKept, Zenon
  <2>2. MemberOK(n)'
    BY <1>3, <1>6, Zenon DEF MemberOK
  <2> QED
    BY <2>1, <2>2, Zenon DEF MembersOK
<1>10. StopsOK'
  <2>1. StopsApart'
    BY <1>4, ZenonT(40) DEF ServiceOK, StopsOK, StopsApart
  <2>2. StopOK(c)'
    BY <1>4, Zenon DEF StopOK
  <2>3. \A d \in Callers : d # c => StopOK(d)'
    BY <1>2, <1>3, <1>4, <1>5, StopKept, ZenonT(40) DEF ServiceOK, StopsOK
  <2> QED
    BY <2>1, <2>2, <2>3, Zenon DEF StopsOK
<1>11. \A m \in Nodes : \A h \in 1..Len(os[m]) : Accounted(m, h) => Accounted(m, h)'
  <2>1. \A d \in Callers : d # c => \A m, h : InHand(d, m, h) => InHand(d, m, h)'
    BY <1>4, Zenon DEF InHand
  <2>2. \A m, h : InHand(c, m, h) => m = n /\ calls[c].err
    BY <1>1, <1>2, Zenon DEF InHand
  <2>3. \A m \in Nodes : members[m].unstopped \/ (m = n /\ calls[c].err) => members'[m].unstopped
    BY <1>3, Zenon
  <2>4. \A m \in Nodes : members'[m].proc = members[m].proc
    BY <1>3, Zenon
  <2> QED
    BY <2>1, <2>2, <2>3, <2>4, Zenon DEF Accounted
<1>12. KnownOK' /\ ExitsOK'
  BY <1>2, <1>7, <1>11, NarrowKeeps, Zenon
<1>13. Spares({})
  BY <1>2, <1>3, Zenon DEF Spares, Up, Paused, Running
<1> QED
  BY <1>4, <1>8, <1>9, <1>10, <1>12, <1>13, Zenon DEF ServiceOK

\* StopNode takes the member away, and its process in hand.
LEMMA StopNodeTakeKeeps ==
  ASSUME ServiceOK, NEW n \in Nodes, StopNodeTake(n), calls["b"].step = "idle", dirty' = dirty
  PROVE  /\ ServiceOK' /\ Spares({n})
         /\ ~members'[n].there
         /\ calls'["a"].step = "teardown" /\ calls'["a"].node = n /\ calls'["b"] = calls["b"]
<1> DEFINE g == members[n].proc
<1>0. members \in [Nodes -> Member] /\ members[n] \in Member /\ calls \in [Callers -> CallState] /\ ServiceType
  BY Zenon DEF ServiceOK, ServiceType
<1>1. /\ calls["a"] = NoCall /\ UNCHANGED <<exits, os, lost>>
      /\ calls' = [calls EXCEPT !["a"] = [node |-> n, proc |-> g, paused |-> members[n].paused,
                                          step |-> "teardown", err |-> members[n].unstopped]]
      /\ members' = [members EXCEPT ![n] = Gone]
  BY Zenon DEF StopNodeTake
<1>2. g \in 0..Len(os[n])
  BY <1>0 DEF ServiceOK, ServiceType, MembersOK, MemberOK
<1>3. /\ members' \in [Nodes -> Member] /\ members'[n] = Gone
      /\ \A m \in Nodes : m # n => members'[m] = members[m]
  BY <1>0, <1>1, Zenon DEF Member, Gone
<1>4. /\ calls' \in [Callers -> CallState]
      /\ calls'["b"] = calls["b"]
      /\ calls'["a"].node = n /\ calls'["a"].proc = g /\ calls'["a"].step = "teardown"
      /\ calls'["a"].err = members[n].unstopped
  BY <1>0, <1>1 DEF Member, CallState, NoCall, Nodes, Callers
<1>5. \A m \in Nodes : Len(os'[m]) = Len(os[m])
  BY <1>1, Zenon
<1>6. Narrows(n, 0)
  BY <1>0, <1>1, SameNarrows, Zenon
<1> HIDE DEF g
<1>7. ServiceType'
  BY <1>1, <1>3, <1>4, Zenon DEF ServiceOK, ServiceType
<1>8. MembersOK'
  <2>1. \A m \in Nodes : m # n => MemberOK(m)'
    BY <1>3, <1>6, OthersKept, Zenon
  <2>2. MemberOK(n)'
    BY <1>3 DEF MemberOK, Gone
  <2> QED
    BY <2>1, <2>2, Zenon DEF MembersOK
<1>9. StopsOK'
  <2>1. StopsApart'
    BY <1>4, Zenon DEF StopsApart, Callers
  <2>2. ~members'[n].there
    BY <1>3 DEF Gone
  <2>3. StopOK("a")'
    BY <2>2, <1>1, <1>2, <1>4, Zenon DEF StopOK
  <2>4. StopOK("b")'
    BY <1>4, Zenon DEF StopOK
  <2> QED
    BY <2>1, <2>3, <2>4, Zenon DEF StopsOK, Callers
<1>10. \A m \in Nodes : \A h \in 1..Len(os[m]) : Accounted(m, h) => Accounted(m, h)'
  <2>1. \A m, h, d : d \in Callers => ~InHand(d, m, h)
    BY <1>1 DEF InHand, Callers, NoCall
  <2>2. \A h : h = members[n].proc \/ members[n].unstopped => InHand("a", n, h)'
    BY <1>4, Zenon DEF InHand, g
  <2> QED
    BY <2>1, <2>2, <1>3, Zenon DEF Accounted, Callers
<1>11. KnownOK' /\ ExitsOK'
  BY <1>1, <1>6, <1>10, NarrowKeeps, Zenon
<1>12. Spares({n}) /\ ~members'[n].there
  <2>1. ~members'[n].there
    BY <1>3 DEF Gone
  <2> QED
    BY <1>1, <1>3, <2>1, Zenon DEF Spares, Up, Paused, Running
<1> QED
  BY <1>4, <1>7, <1>8, <1>9, <1>11, <1>12, Zenon DEF ServiceOK

\* and stops it; what it cannot stop is its error.
LEMMA StopNodeStopKeeps ==
  ASSUME ServiceOK, NEW n \in Nodes, NEW err \in BOOLEAN, StopNodeStop(n, err), calls["b"].step = "idle",
         dirty \subseteq dirty', err => n \in dirty'
  PROVE  /\ ServiceOK' /\ Spares({})
         /\ calls'["a"] = NoCall /\ calls'["b"] = calls["b"]
<1>0. calls \in [Callers -> CallState] /\ ServiceType /\ "a" \in Callers /\ calls["a"] \in CallState
  BY Zenon DEF ServiceOK, ServiceType, Callers
<1>1. /\ calls["a"].step = "teardown" /\ calls["a"].node = n
      /\ UNCHANGED <<members, exits, lost>> /\ calls' = [calls EXCEPT !["a"] = NoCall]
  BY Zenon DEF StopNodeStop, memberVars
<1>2. PICK g \in 0..Len(os[n]) : g = calls["a"].proc
  BY <1>0, <1>1, Zenon DEF ServiceOK, StopsOK, StopOK
<1>3. /\ calls' \in [Callers -> CallState]
      /\ calls'["a"] = NoCall /\ calls'["b"] = calls["b"] /\ calls'["a"].step = "idle"
  BY <1>0, <1>1, Zenon DEF CallState, NoCall, Callers
<1>4. ~members[n].there /\ members[n] = Gone /\ members[n].proc = 0
  <2>1. ~members[n].there
    BY <1>0, <1>1, Zenon DEF ServiceOK, StopsOK, StopOK
  <2> QED
    BY <2>1 DEF ServiceOK, MembersOK, MemberOK, Gone
<1>5. Narrows(n, g) /\ (err \/ (~calls["a"].err /\ (g # 0 => os'[n][g] \notin Lives)))
  <2>1. CASE g = 0
    <3>1. os' = os /\ err = calls["a"].err
      BY <2>1, <1>2, Zenon DEF StopNodeStop
    <3> QED
      BY <2>1, <3>1, <1>0, SameNarrows, Zenon
  <2>2. CASE g # 0
    <3>1. g \in 1..Len(os[n])
      BY <2>2, <1>0, <1>2 DEF ServiceType
    <3>2. PICK result \in {"code", "timeout", "error"} :
            Stop(n, g, calls["a"].paused, result) /\ err = (calls["a"].err \/ result = "error")
      BY <2>2, <1>2, Zenon DEF StopNodeStop
    <3>3. (os' = os /\ result = "error") \/ Kill(n, g)
      BY <3>2, StopDoes, Zenon
    <3>4. Narrows(n, g) /\ (result = "error" \/ os'[n][g] \notin Lives)
      BY <3>1, <3>3, <1>0, SameNarrows, KillNarrows, Zenon
    <3> QED
      BY <3>2, <3>4, Zenon
  <2> QED
    BY <2>1, <2>2, Zenon
<1>6. ServiceType'
  BY <1>1, <1>3, <1>5, Zenon DEF ServiceOK, ServiceType, Narrows
<1>7. MembersOK'
  <2>1. \A m \in Nodes : m # n => MemberOK(m)'
    BY <1>1, <1>5, OthersKept, Zenon
  <2>2. MemberOK(n)'
    BY <1>1, <1>4, Zenon DEF MemberOK
  <2> QED
    BY <2>1, <2>2, Zenon DEF MembersOK
<1>8. StopsOK'
  <2>1. StopsApart' /\ StopOK("a")' /\ StopOK("b")'
    BY <1>3, Zenon DEF StopsApart, Callers, StopOK
  <2> QED
    BY <2>1, Zenon DEF StopsOK, Callers
<1>9. \A m \in Nodes : \A h \in 1..Len(os[m]) : Accounted(m, h) => Accounted(m, h)' \/ os'[m][h] \notin Lives
  <2>1. \A m, h : ~InHand("b", m, h)
    BY Zenon DEF InHand
  <2>2. \A m, h : InHand("a", m, h) => m = n /\ (h = g \/ calls["a"].err)
    BY <1>1, <1>2, Zenon DEF InHand
  <2>3. \A m \in Nodes : \A h \in 1..Len(os[m]) : h # 0
    BY <1>0 DEF ServiceType
  <2> SUFFICES ASSUME NEW m \in Nodes, NEW h \in 1..Len(os[m]), Accounted(m, h)
               PROVE  Accounted(m, h)' \/ os'[m][h] \notin Lives
    BY Zenon
  <2>4. CASE InHand("a", m, h)
    <3>1. m = n /\ (h = g \/ calls["a"].err) /\ h # 0
      BY <2>2, <2>3, <2>4
    <3>2. err \/ os'[m][h] \notin Lives
      BY <3>1, <1>5, Zenon
    <3>3. err => Accounted(m, h)'
      BY <3>1, Zenon DEF Accounted
    <3> QED
      BY <3>2, <3>3, Zenon
  <2>5. CASE h = members[m].proc \/ members[m].unstopped \/ m \in dirty
    BY <2>5, <1>1, Zenon DEF Accounted
  <2> QED
    BY <2>1, <2>4, <2>5, Zenon DEF Accounted, Callers
<1>10. KnownOK' /\ ExitsOK'
  BY <1>1, <1>5, <1>9, NarrowKeeps, Zenon
<1>11. Spares({})
  BY <1>1, <1>5, Zenon DEF Spares, Up, Paused, Running, Narrows
<1> QED
  BY <1>3, <1>6, <1>7, <1>8, <1>10, <1>11, Zenon DEF ServiceOK

\* A process that exits by itself is not one the service killed.
LEMMA OwnExitKeeps ==
  ASSUME ServiceOK, NEW n \in Nodes, NEW g \in DOMAIN os[n], OwnExit(n, g), dirty' = dirty
  PROVE  ServiceOK' /\ Spares({}) /\ calls' = calls
<1>0. ServiceType /\ g \in 1..Len(os[n])
  BY DEF ServiceOK, ServiceType
<1>1. UNCHANGED <<members, exits, lost, calls>> /\ os[n][g] \in Lives /\ os' = [os EXCEPT ![n][g] = "exited"]
  BY Zenon DEF OwnExit, memberVars, Alive, Lives
<1>2. Became(n, g, "exited")
  BY <1>0, <1>1, SetState, Zenon DEF ProcStates
<1>3. "exited" \notin Lives /\ "exited" # "killed"
  BY Zenon DEF Lives
<1>4. Narrows(n, g) /\ os'[n][g] = "exited"
  BY <1>0, <1>1, <1>2, <1>3, BecameNarrows, ZenonT(40) DEF Became
<1>5. ServiceType'
  BY <1>1, <1>4, Zenon DEF ServiceOK, ServiceType, Narrows
<1>6. MembersOK'
  <2>1. \A m \in Nodes : m # n => MemberOK(m)'
    BY <1>1, <1>4, OthersKept, Zenon
  <2>2. members[n].proc # 0 => os'[n][members[n].proc] # "killed"
    <3>1. CASE members[n].proc = g
      BY <3>1, <1>3, <1>4, Zenon
    <3>2. CASE members[n].proc # g /\ members[n].proc # 0
      <4>1. Running(n)
        BY <3>2, Zenon DEF Running
      <4>2. members[n].proc \in 1..Len(os[n]) /\ os[n][members[n].proc] # "killed"
        BY <4>1, RunningIs, Zenon
      <4> QED
        BY <3>2, <4>2, <1>4, Zenon DEF Narrows
    <3> QED
      BY <3>1, <3>2, Zenon
  <2>3. MemberOK(n)'
    BY <2>2, <1>1, <1>4, Zenon DEF ServiceOK, MembersOK, MemberOK, Narrows
  <2> QED
    BY <2>1, <2>3, Zenon DEF MembersOK
<1>7. StopsOK'
  BY <1>1, <1>4, StopsKept, Zenon
<1>8. \A m \in Nodes : \A h \in 1..Len(os[m]) : Accounted(m, h) => Accounted(m, h)'
  BY <1>1, Zenon DEF Accounted, InHand
<1>9. KnownOK' /\ ExitsOK'
  BY <1>1, <1>4, <1>8, NarrowKeeps, Zenon
<1>10. Spares({})
  BY <1>1, <1>4, Zenon DEF Spares, Up, Paused, Running, Narrows
<1> QED
  BY <1>1, <1>5, <1>6, <1>7, <1>9, <1>10, Zenon DEF ServiceOK

\* A watcher takes off its member the process it watched, if it is there still,
\* and records the exit.
LEMMA WatchKeeps ==
  ASSUME ServiceOK, NEW n \in Nodes, NEW g \in DOMAIN os[n], Watch(n, g), dirty' = dirty
  PROVE  ServiceOK' /\ Spares({}) /\ calls' = calls
<1>0. /\ ServiceType /\ g \in 1..Len(os[n]) /\ g # 0 /\ os[n][g] \in ProcStates
      /\ members \in [Nodes -> Member] /\ members[n] \in Member
  BY DEF ServiceOK, ServiceType
<1>1. /\ calls' = calls /\ TakeOff(n, g) /\ lost \subseteq lost'
      /\ \/ os[n][g] \notin Lives /\ UNCHANGED <<os, lost>>
         \/ os[n][g] \in Lives /\ members[n].proc = g /\ os' = [os EXCEPT ![n][g] = "dropped"]
         \/ os[n][g] \in Lives /\ members[n].proc = g /\ os' = os /\ <<n, g>> \in lost'
  BY Zenon DEF Watch, Alive, Lives
<1>2. /\ Narrows(n, g) /\ (os'[n][g] \notin Lives \/ <<n, g>> \in lost')
      /\ os'[n][g] \in {os[n][g], "dropped"}
  <2>1. CASE os' = [os EXCEPT ![n][g] = "dropped"] /\ os[n][g] \in Lives
    <3>1. Became(n, g, "dropped")
      BY <2>1, <1>0, SetState, Zenon DEF ProcStates
    <3>2. "dropped" \notin Lives
      BY Zenon DEF Lives
    <3>3. Narrows(n, g)
      BY <2>1, <3>1, <3>2, <1>0, BecameNarrows
    <3>4. os'[n][g] = "dropped"
      BY <3>1, Zenon DEF Became
    <3> QED
      BY <3>2, <3>3, <3>4, Zenon
  <2>2. CASE os' = os /\ (os[n][g] \notin Lives \/ <<n, g>> \in lost')
    BY <2>2, <1>0, SameNarrows, Zenon
  <2> QED
    BY <1>1, <2>1, <2>2, Zenon
<1>3. CASE members[n].proc # g
  <2>1. UNCHANGED <<members, exits, os, lost>>
    BY <1>1, <1>3, Zenon DEF TakeOff, memberVars
  <2> QED
    BY <2>1, <1>1, SameKeeps, Zenon
<1>4. CASE members[n].proc = g
  <2>1. members' = [members EXCEPT ![n].proc = 0, ![n].paused = FALSE] /\ exits' = exits \cup {<<n, g>>}
    BY <1>1, <1>4, Zenon DEF TakeOff
  <2>2. g = Len(os[n]) /\ os[n][g] # "killed" /\ members[n].there
    <3>1. Running(n)
      BY <1>0, <1>4, Zenon DEF Running
    <3> QED
      BY <3>1, <1>4, RunningIs, Zenon
  <2>3. /\ members' \in [Nodes -> Member]
        /\ \A m \in Nodes : m # n => members'[m] = members[m]
        /\ members'[n].there = members[n].there /\ members'[n].stopping = members[n].stopping
        /\ members'[n].proc = 0 /\ ~members'[n].paused /\ members'[n].unstopped = members[n].unstopped
    BY <1>0, <2>1, Zenon DEF Member
  <2>4. ServiceType'
    <3>1. exits' \subseteq Nodes \X Nat
      BY <1>0, <2>1 DEF ServiceType
    <3> QED
      BY <3>1, <1>1, <1>2, <2>3, Zenon DEF ServiceOK, ServiceType, Narrows
  <2>5. MembersOK'
    <3>1. \A m \in Nodes : m # n => MemberOK(m)'
      BY <2>3, <1>2, OthersKept, Zenon
    <3>2. MemberOK(n)'
      BY <2>2, <2>3, Zenon DEF MemberOK
    <3> QED
      BY <3>1, <3>2, Zenon DEF MembersOK
  <2>6. StopsOK'
    <3>1. \A m \in Nodes : members'[m].there = members[m].there /\ members'[m].stopping = members[m].stopping
      BY <2>3, Zenon
    <3> QED
      BY <3>1, <1>1, <1>2, StopsKept, Zenon
  <2>7. \A m \in Nodes : \A h \in 1..Len(os[m]) :
          Accounted(m, h) => Accounted(m, h)' \/ os'[m][h] \notin Lives \/ <<m, h>> \in lost'
    <3>1. \A d, m, h : InHand(d, m, h) => InHand(d, m, h)'
      BY <1>1, Zenon DEF InHand
    <3>2. \A m \in Nodes : members[m].unstopped => members'[m].unstopped
      BY <2>3, Zenon
    <3> QED
      BY <3>1, <3>2, <1>2, <1>4, <2>3, Zenon DEF Accounted
  <2>8. KnownOK'
    BY <1>1, <1>2, <2>7, NarrowKeeps, Zenon
  <2>9. ExitsOK'
    <3>1. os'[n][g] \in {"exited", "dropped"} \/ <<n, g>> \in lost'
      BY <1>0, <1>2, <2>2, Zenon DEF Lives, ProcStates
    <3>2. Len(os'[n]) = Len(os[n])
      BY <1>2, Zenon DEF Narrows
    <3> SUFFICES ASSUME NEW e \in exits', e # <<n, g>>
                 PROVE  e[2] \in 1..Len(os'[e[1]]) /\ (os'[e[1]][e[2]] \in {"exited", "dropped"} \/ e \in lost')
      BY <3>1, <3>2, <1>0 DEF ExitsOK
    <3>3. e \in exits /\ e \in Nodes \X Nat /\ e[2] \in 1..Len(os[e[1]]) /\ (os[e[1]][e[2]] \in {"exited", "dropped"} \/ e \in lost)
      BY <2>1, Zenon DEF ServiceOK, ServiceType, ExitsOK
    <3>4. e[1] \in Nodes
      BY <3>3, Zenon
    <3>5. os[e[1]][e[2]] \in {"exited", "dropped"} => os[e[1]][e[2]] \notin Lives
      BY Zenon DEF Lives
    <3> QED
      BY <3>3, <3>4, <3>5, <1>1, <1>2, Zenon DEF Narrows
  <2>10. Spares({})
    <3>1. \A m \in Nodes : Len(os'[m]) = Len(os[m])
      BY <1>2, Zenon DEF Narrows
    <3>2. <<n, Len(os'[n])>> \in exits' /\ exits \subseteq exits'
      BY <3>1, <2>1, <2>2, Zenon
    <3> QED
      BY <3>1, <3>2, <2>3, Zenon DEF Spares, Up, Paused, Running
  <2> QED
    BY <1>1, <2>4, <2>5, <2>6, <2>8, <2>9, <2>10, Zenon DEF ServiceOK
<1> QED
  BY <1>3, <1>4, Zenon

\* So every step behind the job's back.
LEMMA BackgroundKeeps ==
  ASSUME ServiceOK, Background, dirty' = dirty
  PROVE  ServiceOK' /\ Spares({}) /\ calls' = calls
<1>1. PICK n \in Nodes : \E g \in DOMAIN os[n] : OwnExit(n, g) \/ Watch(n, g)
  BY Zenon DEF Background
<1>2. PICK g \in DOMAIN os[n] : OwnExit(n, g) \/ Watch(n, g)
  BY <1>1, Zenon
<1> QED
  BY <1>2, OwnExitKeeps, WatchKeeps, Zenon

=============================================================================

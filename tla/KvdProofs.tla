----------------------------- MODULE KvdProofs ------------------------------
(***************************************************************************)
(* For any users, keys, number of writes and failures: which kvd is alive  *)
(* at each step of a job, that the service never has two, and, where a     *)
(* write that fails leaves nothing behind, that the log holds every        *)
(* acknowledged write and no user reads anything else.                     *)
(***************************************************************************)
EXTENDS KvdSuite, TLAPS

JobPCs == {"start", "wait", "write", "fault", "shutdown", "restart", "rewait",
           "verify", "stop", "signal", "stopping", "clean", "done"}
ServerPCs == {"unborn", "starting", "opened", "serving", "stopping", "dead"}
ConnStates == {"none", "new", "active", "idle"}
RequestStates == {"none", "sent", "read", "handled", "done", "failed"}

Entry == [key : Keys \cup {Corrupt.key}, value : Nat]

Process == [pc : ServerPCs, data : [Keys -> Nat], closed : BOOLEAN, code : Nat]
Connection == [by : {0} \cup Servers, st : ConnStates, hook : ConnStates, shut : BOOLEAN]
Request == [op : {"none", "put", "get", "error"}, key : Keys \cup {NoReq.key},
            value : Nat, st : RequestStates]
Service == [port : BOOLEAN, proc : {0} \cup Servers]
JobState == [kind : {"durability", "graceful"}, pc : JobPCs, n : Nat,
             failed : BOOLEAN, proc : {0} \cup Servers, asked : BOOLEAN]

\* The lines a log has for a key. A key that has lines has a last one.
Lines(l, k) == {i \in DOMAIN l : l[i].key = k}

LogType(l) ==
  /\ l \in Seq(Entry)
  /\ \A k \in Keys : Lines(l, k) = {} \/ \E i \in Lines(l, k) : \A j \in Lines(l, k) : j <= i

KvdType ==
  /\ LogType(log) /\ torn \in BOOLEAN
  /\ server \in [Servers -> Process]
  /\ conn \in [Users -> Connection]
  /\ req \in [Users -> Request]

TypeOK ==
  /\ KvdType
  /\ svc \in Service /\ job \in JobState /\ job.n \in 1..MaxOps
  /\ round \in [Loads -> Nat] /\ acked \in [Keys -> Nat]
  /\ wrong \subseteq Users /\ dirty \in BOOLEAN /\ fails \in Nat

\* The keys a user writes and reads: no two users share one.
KeysOf(u) == IF u = Job THEN {KeyOf(Job, n) : n \in 1..MaxOps} ELSE {KeyOf(u, 0)}

OwnKeys == \A u \in Users : req[u].st # "none" => req[u].key \in KeysOf(u)

\* A connection has a server that listens or is shutting down.
ConnsServed ==
  \A u \in Users :
    \/ conn[u] = NoConn
    \/ /\ conn[u].by \in Servers /\ conn[u].st # "none"
       /\ server[conn[u].by].pc \in {"serving", "stopping"}

KvdOK == KvdType /\ OwnKeys /\ ConnsServed

\* What kvd does by itself and what a signal makes it do: no process begins, and
\* no request.
KvdMoves ==
  \/ KvdStep
  \/ \E u \in Users : Dial(u)
  \/ \E i \in Servers : Live(i) /\ Killed(i)
  \/ \E i \in Servers : Sigterm(i)
  \/ UNCHANGED kvdVars

NoneBegins ==
  /\ \A j \in Servers : /\ Live(j)' => Live(j)
                        /\ (server[j].pc = "unborn")' <=> server[j].pc = "unborn"
  /\ \A u \in Users : req'[u].st # "none" => req[u].st # "none"

\* The process the service has, or the one StopNode took from it, is the only
\* one that may be alive.
Held == IF job.pc \in {"signal", "stopping", "clean", "done"} THEN job.proc ELSE svc.proc

ProcsKnown ==
  /\ \A i \in Servers : Live(i) => i = Held
  /\ job.pc \in {"clean", "done"} /\ ~dirty => \A i \in Servers : ~Live(i)
  /\ job.pc \in {"wait", "write", "fault", "shutdown", "rewait", "verify"} => svc.proc # 0
  /\ job.pc \in {"signal", "stopping"} => job.proc # 0
  /\ job.pc = "start" => svc.proc = 0
  /\ dirty => job.pc \in {"clean", "done"}

\* The job has a request only while it writes or reads its keys.
JobAtWork == req[Job].st # "none" => job.pc \in {"write", "verify"}

Control ==
  /\ TypeOK /\ KvdOK
  /\ ProcsKnown /\ JobAtWork

-----------------------------------------------------------------------------
(* Keys and lines.                                                         *)

\* Every user has its own keys.
LEMMA KeysApart ==
  /\ \A u \in Users : KeysOf(u) \subseteq Keys
  /\ \A u, v \in Users : u # v => KeysOf(u) \cap KeysOf(v) = {}
  /\ \A n, m \in 1..MaxOps : KeyOf(Job, n) = KeyOf(Job, m) => n = m
  BY UsersAssumption DEF KeysOf, KeyOf, Loads

\* An empty log has no line.
LEMMA EmptyLog == LogType(<<>>)
  BY DEF LogType, Lines

\* A line appended to a log is its last one, and the last one of its key.
LEMMA AppendEffect ==
  ASSUME NEW l, LogType(l), NEW e \in Entry, NEW t, t = Append(l, e)
  PROVE  /\ LogType(t) /\ Len(l) \in Nat
         /\ DOMAIN l = 1..Len(l) /\ DOMAIN t = 1..(Len(l) + 1)
         /\ t[Len(l) + 1] = e /\ \A i \in 1..Len(l) : t[i] = l[i]
<1>1. l \in Seq(Entry)
  BY Zenon DEF LogType
<1>2. /\ t \in Seq(Entry) /\ Len(l) \in Nat
      /\ DOMAIN l = 1..Len(l) /\ DOMAIN t = 1..(Len(l) + 1)
      /\ t[Len(l) + 1] = e /\ \A i \in 1..Len(l) : t[i] = l[i]
  BY <1>1
<1>3. ASSUME NEW k \in Keys
      PROVE  Lines(t, k) = {} \/ \E i \in Lines(t, k) : \A j \in Lines(t, k) : j <= i
  <2>1. CASE e.key = k
    <3>1. Len(l) + 1 \in Lines(t, k) /\ \A j \in Lines(t, k) : j <= Len(l) + 1
      BY <1>2, <2>1 DEF Lines
    <3> QED BY <3>1, Zenon
  <2>2. CASE e.key # k
    <3>1. Lines(t, k) = Lines(l, k)
      BY <1>2, <2>2 DEF Lines
    <3> QED BY <3>1, Zenon DEF LogType
  <2> QED BY <2>1, <2>2, Zenon
<1> QED
  BY <1>2, <1>3, Zenon DEF LogType

\* The latest of some lines is the one that none is after.
LEMMA LatestIs ==
  ASSUME NEW T \in SUBSET Nat, NEW m \in T, \A j \in T : j <= m
  PROVE  Latest(T) = m
<1>1. \A i \in T : (\A j \in T : j <= i) => i = m
  <2> SUFFICES ASSUME NEW i \in T, \A j \in T : j <= i PROVE i = m
    BY Zenon
  <2>1. m <= i /\ i <= m /\ i \in Nat /\ m \in Nat
    BY Zenon
  <2> QED BY <2>1
<1>2. Latest(T) \in T /\ \A j \in T : j <= Latest(T)
  BY Zenon DEF Latest
<1> QED
  BY <1>1, <1>2, Zenon

\* What replay reads from the log is a value for each key.
LEMMA ReplayedType == LogType(log) => Replayed \in [Keys -> Nat]
<1> SUFFICES ASSUME LogType(log), NEW k \in Keys, Lines(log, k) # {}
             PROVE  log[Latest(Lines(log, k))].value \in Nat
  BY Zenon DEF Replayed, Lines
<1>1. PICK m \in Lines(log, k) : \A j \in Lines(log, k) : j <= m
  BY Zenon DEF LogType
<1>2. Lines(log, k) \in SUBSET Nat /\ log[m] \in Entry
  BY DEF LogType, Lines
<1>3. Latest(Lines(log, k)) = m
  BY <1>1, <1>2, LatestIs, Zenon
<1> QED
  BY <1>2, <1>3, Zenon DEF Entry

-----------------------------------------------------------------------------
(* What a step leaves of kvd.                                              *)

\* A process that ends takes its connections and requests along, and leaves the
\* other processes as they are.
LEMMA EndsEffect ==
  ASSUME KvdType, NEW i \in Servers, NEW c \in Nat, Ends(i, c)
  PROVE  /\ server' \in [Servers -> Process]
         /\ conn' \in [Users -> Connection]
         /\ req' \in [Users -> Request]
         /\ server'[i].pc = "dead" /\ \A j \in Servers : j # i => server'[j] = server[j]
         /\ \A u \in Users : conn'[u] = IF conn[u].by = i THEN NoConn ELSE conn[u]
         /\ \A u \in Users : /\ req'[u].key = req[u].key /\ req'[u].op = req[u].op
                             /\ req'[u].value = req[u].value
                             /\ req'[u].st # req[u].st => req'[u].st = "failed" /\ req[u].st # "none"
<1>1. /\ server' \in [Servers -> Process]
      /\ server'[i].pc = "dead" /\ \A j \in Servers : j # i => server'[j] = server[j]
  BY ZenonT(60) DEF KvdType, Process, Ends, ServerPCs
<1>2. /\ conn' \in [Users -> Connection]
      /\ \A u \in Users : conn'[u] = IF conn[u].by = i THEN NoConn ELSE conn[u]
  BY Zenon DEF KvdType, Connection, Ends, ConnStates, NoConn
<1>3. /\ req' \in [Users -> Request]
      /\ \A u \in Users : /\ req'[u].key = req[u].key /\ req'[u].op = req[u].op
                          /\ req'[u].value = req[u].value
                          /\ req'[u].st # req[u].st => req'[u].st = "failed" /\ req[u].st # "none"
  BY SMTT(30) DEF KvdType, Request, Ends, RequestStates
<1> QED
  BY <1>1, <1>2, <1>3, Zenon

\* The other keeps of a process: it moves on, and nothing else does.
LEMMA MoveEffect ==
  ASSUME KvdType, NEW i \in Servers, NEW p \in ServerPCs, server' = [server EXCEPT ![i].pc = p]
  PROVE  /\ server' \in [Servers -> Process]
         /\ server'[i].pc = p /\ server'[i].data = server[i].data
         /\ \A j \in Servers : j # i => server'[j] = server[j]
  BY Zenon DEF KvdType, Process

\* A request goes one step on.
LEMMA RequestEffect ==
  ASSUME KvdType, NEW u \in Users, NEW s \in RequestStates, req' = [req EXCEPT ![u].st = s]
  PROVE  /\ req' \in [Users -> Request]
         /\ \A v \in Users : v # u => req'[v] = req[v]
         /\ req'[u].key = req[u].key /\ req'[u].op = req[u].op
         /\ req'[u].value = req[u].value /\ req'[u].st = s
  BY Zenon DEF KvdType, Request

\* A value goes to the map of one kvd (Put).
LEMMA PutEffect ==
  ASSUME KvdType, NEW i \in Servers, NEW e \in Entry, e.key \in Keys, Put(i, e)
  PROVE  /\ server' \in [Servers -> Process]
         /\ \A j \in Servers : server'[j].pc = server[j].pc
         /\ \A j \in Servers : j # i => server'[j] = server[j]
         /\ \A l \in Keys : server'[i].data[l] = IF l = e.key THEN e.value ELSE server[i].data[l]
<1>1. PICK d \in [Keys -> Nat] : d = [server[i].data EXCEPT ![e.key] = e.value]
  BY Zenon DEF KvdType, Process, Entry
<1>2. server' = [server EXCEPT ![i].data = d]
  BY <1>1, Zenon DEF Put
<1>3. PICK p : p = [server[i] EXCEPT !.data = d]
  BY Zenon
<1>4. p \in Process /\ p.pc = server[i].pc /\ p.data = d
  BY <1>3, Zenon DEF KvdType, Process
<1>5. server' = [server EXCEPT ![i] = p]
  BY <1>2, <1>3, Zenon
<1>6. \A l \in Keys : d[l] = IF l = e.key THEN e.value ELSE server[i].data[l]
  BY <1>1, Zenon DEF KvdType, Process
<1> QED
  BY <1>4, <1>5, <1>6, Zenon DEF KvdType

\* What an end keeps.
LEMMA EndsKeeps ==
  ASSUME KvdOK, NEW i \in Servers, NEW c \in Nat, Live(i), Ends(i, c), log' = log, torn' \in BOOLEAN
  PROVE  KvdOK' /\ NoneBegins
<1> USE EndsEffect DEF KvdOK
<1>1. KvdType'
  BY Zenon DEF KvdType
<1>2. OwnKeys'
  BY Zenon DEF OwnKeys
<1>3. ConnsServed'
  <2> SUFFICES ASSUME NEW u \in Users PROVE \/ conn'[u] = NoConn
               \/ /\ conn'[u].by \in Servers /\ conn'[u].st # "none"
                  /\ server'[conn'[u].by].pc \in {"serving", "stopping"}
    BY Zenon DEF ConnsServed, NoConn
  <2>1. CASE conn[u].by = i
    BY <2>1, Zenon
  <2>2. CASE conn[u].by # i
    <3>1. conn'[u] = conn[u]
      BY <2>2, Zenon
    <3> QED BY <3>1, <2>2 DEF ConnsServed
  <2> QED BY <2>1, <2>2, Zenon
<1>4. NoneBegins
  BY Zenon DEF NoneBegins, Live
<1> QED
  BY <1>1, <1>2, <1>3, <1>4, Zenon

\* Whatever kvd does, its state stays sound, and no process and no request begins.
LEMMA KvdKeeps ==
  ASSUME KvdOK, KvdMoves
  PROVE  KvdOK' /\ NoneBegins
<1> USE BoundsAssumption DEF KvdOK, KvdType
<1>1. ASSUME NEW i \in Servers, OpenStore(i) PROVE KvdOK' /\ NoneBegins
  <2> USE <1>1 DEF OpenStore
  <2>1. CASE Replay(i) /\ UNCHANGED <<log, conn, req>>
    <3>1. /\ server' \in [Servers -> Process]
          /\ server'[i].pc = "opened" /\ \A j \in Servers : j # i => server'[j] = server[j]
      BY <2>1, ReplayedType, ZenonT(60) DEF Replay, Process, ServerPCs
    <3>2. KvdType' /\ OwnKeys'
      BY <2>1, <3>1, Zenon DEF Replay, OwnKeys
    <3>3. ConnsServed'
      BY <2>1, <3>1, Zenon DEF ConnsServed
    <3> QED BY <2>1, <3>1, <3>2, <3>3, Zenon DEF NoneBegins, Live
  <2>2. CASE Ends(i, 1) /\ UNCHANGED <<log, torn>>
    BY <2>2, EndsKeeps, Zenon DEF Live
  <2> QED BY <2>1, <2>2, Zenon
<1>2. ASSUME NEW i \in Servers, Listen(i) PROVE KvdOK' /\ NoneBegins
  <2> USE <1>2 DEF Listen
  <2>1. CASE server' = [server EXCEPT ![i].pc = "serving"] /\ UNCHANGED <<conn, req>>
    <3>1. /\ server' \in [Servers -> Process]
          /\ server'[i].pc = "serving" /\ \A j \in Servers : j # i => server'[j] = server[j]
      BY <2>1, MoveEffect, Zenon DEF ServerPCs
    <3>2. KvdType' /\ OwnKeys'
      BY <2>1, <3>1, Zenon DEF OwnKeys
    <3>3. ConnsServed'
      BY <2>1, <3>1, Zenon DEF ConnsServed
    <3> QED BY <2>1, <3>1, <3>2, <3>3, Zenon DEF NoneBegins, Live
  <2>2. CASE Ends(i, 1)
    BY <2>2, EndsKeeps, Zenon DEF Live
  <2> QED BY <2>1, <2>2, Zenon
<1>3. ASSUME NEW i \in Servers, CloseNew(i) PROVE KvdOK' /\ NoneBegins
  <2>1. /\ server' \in [Servers -> Process]
        /\ \A j \in Servers : server'[j].pc = server[j].pc
    BY <1>3, Zenon DEF CloseNew, Process
  <2>2. /\ conn' \in [Users -> Connection]
        /\ \A v \in Users : \/ conn'[v] = conn[v]
                            \/ conn[v].hook = "new" /\ conn'[v].by = conn[v].by /\ conn'[v].st = conn[v].st
    BY <1>3, Zenon DEF CloseNew, Connection
  <2>3. UNCHANGED <<log, torn, req>>
    BY <1>3, Zenon DEF CloseNew
  <2> HIDE <1>3
  <2>7. KvdType'
    BY <2>1, <2>2, <2>3, Zenon
  <2>8. OwnKeys'
    BY <2>1, <2>2, <2>3, Zenon DEF OwnKeys
  <2>9. ConnsServed'
    BY <2>1, <2>2, <2>3 DEF ConnsServed, NoConn
  <2>10. NoneBegins
    BY <2>1, <2>2, <2>3, Zenon DEF NoneBegins, Live
  <2> QED BY <2>7, <2>8, <2>9, <2>10, Zenon
<1>4. ASSUME NEW i \in Servers, Stopped(i) PROVE KvdOK' /\ NoneBegins
  BY <1>4, EndsKeeps, Zenon DEF Stopped, Live
<1>5. ASSUME NEW i \in Servers, TimesOut(i) PROVE KvdOK' /\ NoneBegins
  BY <1>5, EndsKeeps, Zenon DEF TimesOut, Live
<1>6. ASSUME NEW u \in Users, Refused(u) PROVE KvdOK' /\ NoneBegins
  <2> USE <1>6 DEF Refused, Failed
  <2>1. KvdType'
    BY SMTT(30) DEF Request, RequestStates
  <2> USE <2>1
  <2>2. OwnKeys'
    BY DEF OwnKeys
  <2>3. ConnsServed'
    BY Zenon DEF ConnsServed, NoConn
  <2>4. NoneBegins
    BY Zenon DEF NoneBegins, Live
  <2> QED
    BY <2>1, <2>2, <2>3, <2>4, Zenon
<1>7. ASSUME NEW u \in Users, Hook(u) PROVE KvdOK' /\ NoneBegins
  <2>2. /\ conn' \in [Users -> Connection]
        /\ \A v \in Users : v # u => conn'[v] = conn[v]
        /\ conn[u] # NoConn
        /\ conn'[u].by = conn[u].by /\ conn'[u].st = conn[u].st
    BY <1>7 DEF Hook, Connection, ConnStates, NoConn
  <2>3. UNCHANGED <<log, torn, server, req>>
    BY <1>7, Zenon DEF Hook
  <2> HIDE <1>7
  <2>7. KvdType'
    BY <2>2, <2>3, Zenon
  <2>8. OwnKeys'
    BY <2>2, <2>3, Zenon DEF OwnKeys
  <2>9. ConnsServed'
    BY <2>2, <2>3, Zenon DEF ConnsServed
  <2>10. NoneBegins
    BY <2>2, <2>3, Zenon DEF NoneBegins, Live
  <2> QED BY <2>7, <2>8, <2>9, <2>10, Zenon
<1>8. ASSUME NEW u \in Users, ReadRequest(u) PROVE KvdOK' /\ NoneBegins
  <2>1. /\ req' \in [Users -> Request]
        /\ \A v \in Users : v # u => req'[v] = req[v]
        /\ req[u].st # "none" /\ req'[u].key = req[u].key
    BY <1>8 DEF ReadRequest, Request, RequestStates
  <2>2. /\ conn' \in [Users -> Connection]
        /\ \A v \in Users : v # u => conn'[v] = conn[v]
        /\ conn[u] # NoConn
        /\ conn'[u].by = conn[u].by /\ conn'[u].st # "none"
    BY <1>8 DEF ReadRequest, Connection, ConnStates, NoConn
  <2>3. UNCHANGED <<log, torn, server>>
    BY <1>8, Zenon DEF ReadRequest
  <2> HIDE <1>8
  <2>7. KvdType'
    BY <2>1, <2>2, <2>3, Zenon
  <2>8. OwnKeys'
    BY <2>1, <2>2, <2>3, Zenon DEF OwnKeys
  <2>9. ConnsServed'
    BY <2>1, <2>2, <2>3 DEF ConnsServed
  <2>10. NoneBegins
    BY <2>1, <2>2, <2>3, Zenon DEF NoneBegins, Live
  <2> QED BY <2>7, <2>8, <2>9, <2>10, Zenon
<1>9. ASSUME NEW u \in Users, Handle(u) PROVE KvdOK' /\ NoneBegins
  <2>0. /\ conn[u].by \in Servers /\ req[u].st = "read" /\ req[u].key \in Keys
        /\ UNCHANGED conn
    BY <1>9, KeysApart DEF Handle, InFlight, ConnsServed, NoConn, OwnKeys
  <2>1. CASE /\ Put(conn[u].by, [key |-> req[u].key, value |-> req[u].value])
             /\ req' = [req EXCEPT ![u].st = "handled"]
    <3>1. /\ server' \in [Servers -> Process]
          /\ \A j \in Servers : server'[j].pc = server[j].pc
      <4>1. PICK e \in Entry : e = [key |-> req[u].key, value |-> req[u].value]
        BY <2>0, Zenon DEF Request, Entry
      <4>2. e.key \in Keys /\ Put(conn[u].by, e)
        BY <2>0, <2>1, <4>1, Zenon
      <4>3. KvdType
        BY Zenon
      <4> QED BY <2>0, <4>2, <4>3, PutEffect, Zenon
    <3>2. LogType(log') /\ torn' \in BOOLEAN
      <4>1. [key |-> req[u].key, value |-> req[u].value] \in Entry
        BY <2>0, Zenon DEF Request, Entry
      <4>2. Corrupt \in Entry
        BY Zenon DEF Corrupt, Entry
      <4>3. PICK e \in Entry : log' = Append(log, e)
        BY <2>1, <4>1, <4>2, Zenon DEF Put, Appended
      <4>4. torn' = FALSE
        BY <2>1, Zenon DEF Put
      <4> QED BY <4>3, <4>4, AppendEffect, Zenon
    <3>3. /\ req' \in [Users -> Request]
          /\ \A v \in Users : v # u => req'[v] = req[v]
          /\ req'[u].key = req[u].key
      BY <2>1 DEF Request, RequestStates
    <3> QED BY <2>0, <3>1, <3>2, <3>3, Zenon DEF OwnKeys, ConnsServed, NoneBegins, Live
  <2>2. CASE /\ PutFails
             /\ req' = [req EXCEPT ![u].st = "handled", ![u].op = "error"]
    <3>1. log' = log /\ torn' \in BOOLEAN /\ server' = server
      BY <2>2, UsersAssumption, Zenon DEF PutFails
    <3>3. /\ req' \in [Users -> Request]
          /\ \A v \in Users : v # u => req'[v] = req[v]
          /\ req'[u].key = req[u].key
      BY <2>2, ZenonT(60) DEF Request, RequestStates
    <3> QED BY <2>0, <3>1, <3>3, Zenon DEF OwnKeys, ConnsServed, NoneBegins, Live
  <2>3. CASE /\ UNCHANGED <<log, torn, server>>
             /\ req' = [req EXCEPT ![u].st = "handled", ![u].value = server[conn[u].by].data[req[u].key]]
    <3>1. server[conn[u].by].data[req[u].key] \in Nat
      BY <2>0 DEF Process
    <3>3. /\ req' \in [Users -> Request]
          /\ \A v \in Users : v # u => req'[v] = req[v]
          /\ req'[u].key = req[u].key
      <4>1. PICK x \in Nat : x = server[conn[u].by].data[req[u].key]
        BY <3>1, Zenon
      <4>2. req' = [req EXCEPT ![u].st = "handled", ![u].value = x]
        BY <2>3, <4>1, Zenon
      <4> QED BY <4>2, ZenonT(60) DEF Request, RequestStates
    <3> QED BY <2>0, <2>3, <3>3, Zenon DEF OwnKeys, ConnsServed, NoneBegins, Live
  <2> QED BY <1>9, <2>1, <2>2, <2>3, Zenon DEF Handle
<1>10. ASSUME NEW u \in Users, Answer(u) PROVE KvdOK' /\ NoneBegins
  <2>1. /\ req' \in [Users -> Request]
        /\ \A v \in Users : v # u => req'[v] = req[v]
        /\ req[u].st # "none" /\ req'[u].key = req[u].key
    <3>1. PICK s \in {"failed", "done"} : req' = [req EXCEPT ![u].st = s]
      BY <1>10, Zenon DEF Answer, Failed
    <3>2. req[u].st # "none" /\ s \in RequestStates
      BY <1>10, <3>1, Zenon DEF Answer, RequestStates
    <3> QED BY <3>1, <3>2, RequestEffect, Zenon
  <2>2. /\ conn' \in [Users -> Connection]
        /\ \A v \in Users : v # u => conn'[v] = conn[v]
        /\ conn[u] # NoConn
        /\ conn'[u] = NoConn \/ (conn'[u].by = conn[u].by /\ conn'[u].st = "idle")
    <3>1. conn[u] # NoConn
      BY <1>10 DEF Answer, InFlight, NoConn
    <3>2. CASE conn' = [conn EXCEPT ![u] = NoConn]
      <4>1. NoConn \in Connection
        BY Zenon DEF Connection, ConnStates, NoConn
      <4>2. conn' \in [Users -> Connection]
        BY <3>2, <4>1, Zenon
      <4>3. conn'[u] = NoConn /\ \A v \in Users : v # u => conn'[v] = conn[v]
        BY <3>2, Zenon
      <4> QED BY <3>1, <4>2, <4>3, Zenon
    <3>3. CASE conn' = [conn EXCEPT ![u] = [@ EXCEPT !.st = "idle"]]
      BY <3>1, <3>3 DEF Connection, ConnStates
    <3> QED BY <1>10, <3>2, <3>3, Zenon DEF Answer
  <2>3. UNCHANGED <<log, torn, server>>
    BY <1>10, Zenon DEF Answer
  <2> HIDE <1>10
  <2>7. KvdType'
    BY <2>1, <2>2, <2>3, Zenon
  <2>8. OwnKeys'
    BY <2>1, <2>2, <2>3, Zenon DEF OwnKeys
  <2>9. ConnsServed'
    BY <2>1, <2>2, <2>3 DEF ConnsServed
  <2>10. NoneBegins
    BY <2>1, <2>2, <2>3, Zenon DEF NoneBegins, Live
  <2> QED BY <2>7, <2>8, <2>9, <2>10, Zenon
<1>11. ASSUME NEW u \in Users, Dropped(u) PROVE KvdOK' /\ NoneBegins
  <2>1. /\ req' \in [Users -> Request]
        /\ \A v \in Users : v # u => req'[v] = req[v]
        /\ req'[u].key = req[u].key
        /\ req[u].st = "none" => req'[u].st = "none"
    <3>1. CASE req[u].st = "sent"
      <4>1. req' = [req EXCEPT ![u].st = "failed"] /\ "failed" \in RequestStates
        BY <1>11, <3>1, Zenon DEF Dropped, Failed, RequestStates
      <4> QED BY <3>1, <4>1, RequestEffect, Zenon
    <3>2. CASE req[u].st # "sent"
      BY <1>11, <3>2, Zenon DEF Dropped
    <3> QED BY <3>1, <3>2, Zenon
  <2>2. /\ conn' \in [Users -> Connection]
        /\ \A v \in Users : v # u => conn'[v] = conn[v]
        /\ conn'[u] = NoConn
    BY <1>11, Zenon DEF Dropped, Connection, ConnStates, NoConn
  <2>3. UNCHANGED <<log, torn, server>>
    BY <1>11, Zenon DEF Dropped
  <2> HIDE <1>11
  <2>7. KvdType'
    BY <2>1, <2>2, <2>3, Zenon
  <2>8. OwnKeys'
    BY <2>1, <2>2, <2>3, Zenon DEF OwnKeys
  <2>9. ConnsServed'
    BY <2>1, <2>2, <2>3, Zenon DEF ConnsServed
  <2>10. NoneBegins
    BY <2>1, <2>2, <2>3, Zenon DEF NoneBegins, Live
  <2> QED BY <2>7, <2>8, <2>9, <2>10, Zenon
<1>12. ASSUME NEW u \in Users, Dial(u) PROVE KvdOK' /\ NoneBegins
  <2>1. PICK i \in Serving : conn' = [conn EXCEPT ![u] = [NoConn EXCEPT !.by = i, !.st = "new"]]
    BY <1>12, Zenon DEF Dial
  <2>2. /\ conn' \in [Users -> Connection]
        /\ \A v \in Users : v # u => conn'[v] = conn[v]
        /\ conn'[u].by = i /\ conn'[u].st = "new"
    BY <2>1, Zenon DEF Serving, Connection, ConnStates, NoConn
  <2>3. UNCHANGED <<log, torn, server, req>> /\ i \in Servers /\ server[i].pc = "serving"
    BY <1>12, <2>1, Zenon DEF Dial, Serving
  <2> HIDE <1>12, <2>1
  <2>7. KvdType'
    BY <2>2, <2>3, Zenon
  <2>8. OwnKeys'
    BY <2>2, <2>3, Zenon DEF OwnKeys
  <2>9. ConnsServed'
    BY <2>2, <2>3 DEF ConnsServed
  <2>10. NoneBegins
    BY <2>2, <2>3, Zenon DEF NoneBegins, Live
  <2> QED BY <2>7, <2>8, <2>9, <2>10, Zenon
<1>13. ASSUME NEW i \in Servers, Live(i), Killed(i) PROVE KvdOK' /\ NoneBegins
  <2>1. Ends(i, 137) /\ log' = log /\ torn' \in BOOLEAN
    BY <1>13, Zenon DEF Killed
  <2> QED BY <1>13, <2>1, EndsKeeps
<1>14. ASSUME NEW i \in Servers, Sigterm(i) PROVE KvdOK' /\ NoneBegins
  <2>1. CASE server[i].pc \in {"starting", "opened"}
    BY <1>14, <2>1, EndsKeeps DEF Sigterm, Live
  <2>2. CASE server[i].pc = "serving"
    <3>1. server' = [server EXCEPT ![i].pc = "stopping"] /\ UNCHANGED <<log, torn, conn, req>>
      BY <1>14, <2>2, Zenon DEF Sigterm
    <3>2. /\ server' \in [Servers -> Process]
          /\ server'[i].pc = "stopping" /\ \A j \in Servers : j # i => server'[j] = server[j]
      BY <3>1, MoveEffect, Zenon DEF ServerPCs
    <3>3. KvdType' /\ OwnKeys'
      BY <3>1, <3>2, Zenon DEF OwnKeys
    <3>4. ConnsServed'
      BY <2>2, <3>1, <3>2, Zenon DEF ConnsServed
    <3> QED BY <2>2, <3>1, <3>2, <3>3, <3>4, Zenon DEF NoneBegins, Live
  <2>3. CASE server[i].pc \notin {"starting", "opened", "serving"}
    <3>1. UNCHANGED <<log, torn, server, conn, req>>
      BY <1>14, <2>3, Zenon DEF Sigterm, kvdVars
    <3> QED BY <3>1, Zenon DEF OwnKeys, ConnsServed, NoneBegins, Live
  <2> QED BY <2>1, <2>2, <2>3, Zenon
<1>15. CASE UNCHANGED kvdVars
  <2> USE <1>15 DEF kvdVars
  <2>1. KvdType'
    BY Zenon
  <2> USE <2>1
  <2>2. OwnKeys'
    BY Zenon DEF OwnKeys
  <2>3. ConnsServed'
    BY Zenon DEF ConnsServed, NoConn
  <2>4. NoneBegins
    BY Zenon DEF NoneBegins, Live
  <2> QED
    BY <2>1, <2>2, <2>3, <2>4, Zenon
<1> QED
  BY <1>1, <1>2, <1>3, <1>4, <1>5, <1>6, <1>7, <1>8, <1>9, <1>10, <1>11,
     <1>12, <1>13, <1>14, <1>15, Zenon DEF KvdMoves, KvdStep

-----------------------------------------------------------------------------
(* What a step of the job does.                                            *)

\* The job goes on to another place, with the process it has.
LEMMA GoesEffect ==
  ASSUME TypeOK, NEW p \in JobPCs, Goes(p)
  PROVE  job' \in JobState /\ job'.n = 1 /\ job'.n \in 1..MaxOps /\ job'.pc = p /\ job'.proc = job.proc
<1>1. job' \in JobState /\ job'.n = 1 /\ job'.pc = p /\ job'.proc = job.proc
  BY Zenon DEF TypeOK, Goes, JobState
<1> QED
  BY <1>1, BoundsAssumption

\* The same when it gives up.
LEMMA GivesUpEffect ==
  ASSUME TypeOK, GivesUp
  PROVE  job' \in JobState /\ job'.n \in 1..MaxOps /\ job'.pc = "stop" /\ job'.proc = job.proc
  BY Zenon DEF TypeOK, GivesUp, JobState, JobPCs

\* launchLocked begins one process, which the service then has.
LEMMA LaunchEffect ==
  ASSUME TypeOK, KvdOK, LaunchLocked(FALSE)
  PROVE  /\ KvdOK' /\ svc' \in Service /\ fails' \in Nat
         /\ svc.proc = 0 /\ svc'.proc \in Servers
         /\ \A j \in Servers : j # svc'.proc => server'[j] = server[j]
         /\ UNCHANGED req
<1>1. PICK i \in Servers : Launched(i) /\ svc' = [port |-> TRUE, proc |-> i]
  BY Zenon DEF LaunchLocked
<1>2. svc.proc = 0 /\ UNCHANGED <<log, torn, conn, req, fails>>
  BY Zenon DEF LaunchLocked, Works
<1>3. /\ server' \in [Servers -> Process] /\ server[i].pc = "unborn"
      /\ \A j \in Servers : j # i => server'[j] = server[j]
  BY <1>1, MoveEffect, Zenon DEF Launched, KvdOK, ServerPCs
<1>4. KvdOK'
  BY <1>2, <1>3, Zenon DEF KvdOK, KvdType, OwnKeys, ConnsServed
<1>5. svc' \in Service /\ svc'.proc = i
  BY <1>1, Zenon DEF Service
<1> QED
  BY <1>2, <1>3, <1>4, <1>5, Zenon DEF TypeOK

\* A process that is closed without an error is not alive (Process.Close).
LEMMA CloseEffect ==
  ASSUME KvdOK, fails \in Nat, NEW i \in Servers, NEW err \in BOOLEAN, Close(i, err)
  PROVE  KvdOK' /\ NoneBegins /\ fails' \in Nat /\ (~err => ~Live(i)')
<1>1. fails' \in Nat
  BY DEF Close, Works, Fails
<1>2. CASE ~err /\ Live(i)
  <2>1. Killed(i)
    BY <1>2, Zenon DEF Close
  <2>2. KvdOK' /\ NoneBegins
    BY <1>2, <2>1, KvdKeeps, Zenon DEF KvdMoves
  <2>3. server'[i].pc = "dead"
    BY <2>1, EndsEffect DEF Killed, KvdOK
  <2> QED BY <1>1, <2>2, <2>3, Zenon DEF Live
<1>3. CASE err \/ ~Live(i)
  <2>1. UNCHANGED kvdVars
    BY <1>3, Zenon DEF Close
  <2>2. KvdOK' /\ NoneBegins
    BY <2>1, KvdKeeps, Zenon DEF KvdMoves
  <2>3. Live(i)' <=> Live(i)
    BY <2>1, Zenon DEF Live, kvdVars
  <2> QED BY <1>1, <1>3, <2>2, <2>3, Zenon
<1> QED
  BY <1>2, <1>3, Zenon

\* A stop without an error has ended its process (torx.Stop).
LEMMA StopEffect ==
  ASSUME KvdOK, fails \in Nat, NEW i \in Servers, NEW result, StopEnds(i, result)
  PROVE  KvdOK' /\ NoneBegins /\ fails' \in Nat /\ (result # "error" => ~Live(i)')
<1>1. CASE ~Live(i) /\ Works /\ UNCHANGED kvdVars
  <2>1. KvdOK' /\ NoneBegins
    BY <1>1, KvdKeeps, Zenon DEF KvdMoves
  <2>2. Live(i)' <=> Live(i)
    BY <1>1, Zenon DEF Live, kvdVars
  <2> QED BY <1>1, <2>1, <2>2, Zenon DEF Works
<1>2. CASE Close(i, FALSE)
  BY <1>2, CloseEffect, Zenon
<1>3. CASE Live(i) /\ result = "error" /\ Fails /\ Killed(i)
  <2>1. KvdOK' /\ NoneBegins
    BY <1>3, KvdKeeps, Zenon DEF KvdMoves
  <2> QED BY <1>3, <2>1 DEF Fails
<1>4. CASE result = "error" /\ Close(i, TRUE)
  BY <1>4, CloseEffect, Zenon
<1> QED
  BY <1>1, <1>2, <1>3, <1>4, Zenon DEF StopEnds

\* The signal of a stop, delivered or not.
LEMMA SignalEffect ==
  ASSUME TypeOK, KvdOK, NEW i \in Servers, NEW p \in JobPCs, StopSignal(i, p)
  PROVE  /\ KvdOK' /\ NoneBegins /\ fails' \in Nat
         /\ job' \in JobState /\ job'.n \in 1..MaxOps /\ job'.pc = p /\ job'.proc = job.proc
<1>1. PICK s \in BOOLEAN : /\ IF s THEN Works /\ Sigterm(i) ELSE Fails /\ UNCHANGED kvdVars
                           /\ job' = [job EXCEPT !.pc = p, !.n = 1, !.asked = s]
  BY Zenon DEF StopSignal
<1>2. KvdMoves /\ fails' \in Nat
  BY <1>1 DEF KvdMoves, TypeOK, Works, Fails
<1>3. job' \in JobState /\ job'.n = 1 /\ job'.pc = p /\ job'.proc = job.proc
  BY <1>1, Zenon DEF TypeOK, JobState
<1> QED
  BY <1>2, <1>3, KvdKeeps, BoundsAssumption

\* A request is sent for a key of its user.
LEMMA SendEffect ==
  ASSUME KvdOK, NEW u \in Users, NEW op \in {"put", "get"}, NEW k \in KeysOf(u), NEW x \in Nat,
         Send(u, op, k, x)
  PROVE  /\ KvdOK' /\ server' = server
         /\ \A v \in Users : v # u => req'[v] = req[v]
         /\ req'[u] = [op |-> op, key |-> k, value |-> x, st |-> "sent"]
<1>1. PICK r : r = [op |-> op, key |-> k, value |-> x, st |-> "sent"]
  BY Zenon
<1>2. r \in Request /\ r.key = k
  BY <1>1, KeysApart, Zenon DEF Request, RequestStates
<1>3. req' = [req EXCEPT ![u] = r] /\ UNCHANGED <<log, torn, server, conn>>
  BY <1>1, Zenon DEF Send
<1>4. KvdType' /\ OwnKeys' /\ ConnsServed'
  BY <1>2, <1>3, Zenon DEF KvdOK, KvdType, OwnKeys, ConnsServed
<1> QED
  BY <1>1, <1>3, <1>4, Zenon DEF KvdOK, KvdType

\* A user hears how its request came out, and may send again.
LEMMA LearnEffect ==
  ASSUME TypeOK, KvdOK, NEW u \in Users, Learns(u)
  PROVE  /\ KvdOK' /\ server' = server
         /\ acked' \in [Keys -> Nat] /\ wrong' \subseteq Users
         /\ UNCHANGED <<svc, dirty, fails>>
         /\ req'[u] = NoReq /\ \A v \in Users : v # u => req'[v] = req[v]
<1>1. NoReq \in Request /\ NoReq.st = "none"
  BY Zenon DEF Request, RequestStates, NoReq
<1>2. req' = [req EXCEPT ![u] = NoReq] /\ UNCHANGED <<log, torn, server, conn, svc, dirty, fails>>
  BY Zenon DEF Learns
<1>3. KvdType' /\ OwnKeys' /\ ConnsServed'
  BY <1>1, <1>2, Zenon DEF KvdOK, KvdType, OwnKeys, ConnsServed
<1>4. acked' \in [Keys -> Nat]
  BY Zenon DEF Learns, TypeOK, KvdType, Request
<1>5. wrong' \subseteq Users
  BY Zenon DEF Learns, TypeOK
<1> QED
  BY <1>2, <1>3, <1>4, <1>5, Zenon DEF KvdOK, KvdType

-----------------------------------------------------------------------------
(* The control of the job.                                                 *)

\* Initially there is no kvd, and no connection to one (Init).
LEMMA InitControl == Init => Control
<1> SUFFICES ASSUME Init PROVE Control
  BY Zenon
<1> USE BoundsAssumption DEF Init, KvdInit
<1>1. KvdType
  <2>1. Unborn \in Process /\ NoConn \in Connection /\ NoReq \in Request
    BY Zenon DEF Unborn, NoConn, NoReq, Process, Connection, Request, ServerPCs, ConnStates, RequestStates
  <2>2. LogType(log) /\ torn \in BOOLEAN
    BY EmptyLog, Zenon
  <2>3. /\ server \in [Servers -> Process] /\ conn \in [Users -> Connection]
        /\ req \in [Users -> Request]
    BY <2>1, Zenon
  <2> QED BY <2>2, <2>3, Zenon DEF KvdType
<1>2. KvdOK
  BY <1>1, Zenon DEF KvdOK, OwnKeys, ConnsServed, NoReq
<1>3. svc \in Service /\ job \in JobState /\ job.n \in 1..MaxOps
  BY DEF Service, JobState, JobPCs
<1>4. TypeOK
  BY <1>1, <1>3, ZenonT(60) DEF TypeOK
<1>5. \A i \in Servers : server[i].pc = "unborn"
  BY Zenon DEF Unborn
<1>6. ProcsKnown /\ JobAtWork
  BY <1>5, UsersAssumption DEF ProcsKnown, JobAtWork, Live, NoReq
<1> QED
  BY <1>2, <1>4, <1>6, Zenon DEF Control

\* Every step of kvd, of its users and of the job keeps it so.
LEMMA NextControl == Control /\ [Next]_vars => Control'
<1> SUFFICES ASSUME Control, [Next]_vars PROVE Control'
  BY Zenon
<1> USE DEF Control
<1>1. ASSUME KvdMoves, UNCHANGED suiteVars PROVE Control'
  <2>1. KvdOK' /\ NoneBegins
    BY <1>1, KvdKeeps, Zenon
  <2>21. TypeOK'
    BY <1>1, <2>1, Zenon DEF suiteVars, TypeOK, KvdOK
  <2>22. ProcsKnown'
    BY <1>1, <2>1, Zenon DEF suiteVars, ProcsKnown, Held, NoneBegins
  <2>23. JobAtWork'
    BY <1>1, <2>1, UsersAssumption, Zenon DEF suiteVars, JobAtWork, NoneBegins
  <2> QED
    BY <1>1, <2>1, <2>21, <2>22, <2>23, Zenon
<1>2. ASSUME NEW u \in Loads, LoadSends(u) PROVE Control'
  <2>1. KvdOK' /\ server' = server /\ req'[Job] = req[Job]
    <3>1. u \in Users /\ u # Job /\ Job \in Users /\ KeyOf(u, 0) \in KeysOf(u) /\ round[u] + 1 \in Nat
      BY UsersAssumption DEF Loads, KeysOf, TypeOK
    <3> QED BY <1>2, <3>1, SendEffect, Zenon DEF LoadSends
  <2>2. round' \in [Loads -> Nat]
    BY <1>2 DEF LoadSends, TypeOK
  <2>21. TypeOK'
    BY <1>2, <2>1, <2>2, Zenon DEF LoadSends, TypeOK, KvdOK
  <2>22. ProcsKnown'
    BY <1>2, <2>1, <2>2, Zenon DEF LoadSends, ProcsKnown, Held, Live
  <2>23. JobAtWork'
    BY <1>2, <2>1, <2>2, UsersAssumption, Zenon DEF LoadSends, JobAtWork
  <2> QED
    BY <1>2, <2>1, <2>2, <2>21, <2>22, <2>23, Zenon
<1>3. ASSUME NEW u \in Loads, LoadHears(u) PROVE Control'
  <2>0. u \in Users /\ u # Job /\ Job \in Users
    BY UsersAssumption, Zenon DEF Loads
  <2>1. CASE req[u].st = "done" /\ req[u].op = "put"
    <3>1. PICK r : r = [op |-> "get", key |-> req[u].key, value |-> 0, st |-> "sent"]
      BY Zenon
    <3>2. r \in Request /\ r.key \in KeysOf(u)
      BY <2>0, <2>1, <3>1, Zenon DEF KvdOK, KvdType, OwnKeys, Request, RequestStates
    <3>3. /\ req' = [req EXCEPT ![u] = r] /\ acked' = [acked EXCEPT ![req[u].key] = req[u].value]
          /\ UNCHANGED <<log, torn, server, conn, svc, wrong, dirty, fails, job, round>>
      BY <1>3, <2>1, <3>1, Zenon DEF LoadHears
    <3>4. KvdOK'
      BY <2>0, <3>2, <3>3, Zenon DEF KvdOK, KvdType, OwnKeys, ConnsServed
    <3>5. acked' \in [Keys -> Nat]
      BY <2>0, <3>3, Zenon DEF TypeOK, KvdType, Request
    <3>6. req'[Job] = req[Job]
      BY <2>0, <3>3, Zenon DEF KvdOK, KvdType
    <3>21. TypeOK'
      BY <3>3, <3>4, <3>5, <3>6, Zenon DEF TypeOK, KvdOK
    <3>22. ProcsKnown'
      BY <3>3, <3>4, <3>5, <3>6, Zenon DEF ProcsKnown, Held, Live
    <3>23. JobAtWork'
      BY <3>3, <3>4, <3>5, <3>6, UsersAssumption, Zenon DEF JobAtWork
    <3> QED
      BY <3>3, <3>4, <3>5, <3>6, <3>21, <3>22, <3>23, Zenon
  <2>2. CASE ~(req[u].st = "done" /\ req[u].op = "put")
    <3>1. Learns(u) /\ UNCHANGED <<job, round>>
      BY <1>3, <2>2, Zenon DEF LoadHears
    <3>21. TypeOK'
      BY <2>0, <3>1, LearnEffect, Zenon DEF TypeOK, KvdOK
    <3>22. ProcsKnown'
      BY <2>0, <3>1, LearnEffect, Zenon DEF ProcsKnown, Held, Live
    <3>23. JobAtWork'
      BY <2>0, <3>1, LearnEffect, UsersAssumption, Zenon DEF JobAtWork
    <3> QED
      BY <2>0, <3>1, LearnEffect, <3>21, <3>22, <3>23, Zenon
  <2> QED BY <2>1, <2>2, Zenon
<1>4. ASSUME Start PROVE Control'
  <2>1. CASE StartNode(FALSE) /\ Goes("wait")
    <3>1. /\ KvdOK' /\ svc' \in Service /\ fails' \in Nat
          /\ svc.proc = 0 /\ svc'.proc \in Servers
          /\ \A j \in Servers : j # svc'.proc => server'[j] = server[j]
          /\ UNCHANGED req
      BY <2>1, LaunchEffect, Zenon DEF StartNode
    <3>2. job' \in JobState /\ job'.n \in 1..MaxOps /\ job'.pc = "wait" /\ job'.proc = job.proc
      BY <2>1, GoesEffect, Zenon DEF JobPCs
    <3>3. \A j \in Servers : ~Live(j)
      BY <1>4, <3>1 DEF Start, At, ProcsKnown, Held, Servers
    <3>4. \A j \in Servers : Live(j)' => j = svc'.proc
      BY <3>1, <3>3, Zenon DEF Live
    <3>5. svc'.proc # 0
      BY <3>1, BoundsAssumption DEF Servers
    <3>21. TypeOK'
      BY <1>4, <3>1, <3>2, <3>4, <3>5, SMTT(30) DEF Start, At, TypeOK, KvdOK
    <3>22. ProcsKnown'
      BY <1>4, <3>1, <3>2, <3>4, <3>5, SMTT(30) DEF Start, At, ProcsKnown, Held
    <3>23. JobAtWork'
      BY <1>4, <3>1, <3>2, <3>4, <3>5, UsersAssumption, Zenon DEF Start, At, JobAtWork
    <3> QED
      BY <1>4, <3>1, <3>2, <3>4, <3>5, <3>21, <3>22, <3>23, Zenon
  <2>2. CASE StartNode(TRUE) /\ GivesUp
    <3>1. PICK b \in BOOLEAN : svc' = [svc EXCEPT !.port = b]
      BY <2>2, Zenon DEF StartNode
    <3>2. svc' \in Service /\ svc'.proc = svc.proc
      BY <3>1, Zenon DEF TypeOK, Service
    <3>3. UNCHANGED kvdVars /\ fails' \in Nat
      BY <2>2 DEF StartNode, Fails, TypeOK
    <3>4. KvdOK' /\ NoneBegins
      BY <3>3, KvdKeeps, Zenon DEF KvdMoves
    <3>5. job' \in JobState /\ job'.n \in 1..MaxOps /\ job'.pc = "stop" /\ job'.proc = job.proc
      BY <2>2, GivesUpEffect, Zenon
    <3>21. TypeOK'
      BY <1>4, <3>2, <3>3, <3>4, <3>5, Zenon DEF Start, At, TypeOK, KvdOK
    <3>22. ProcsKnown'
      BY <1>4, <3>2, <3>3, <3>4, <3>5, Zenon DEF Start, At, ProcsKnown, Held, NoneBegins
    <3>23. JobAtWork'
      BY <1>4, <3>2, <3>3, <3>4, <3>5, UsersAssumption, SMTT(30) DEF Start, At, JobAtWork, NoneBegins
    <3> QED
      BY <1>4, <3>2, <3>3, <3>4, <3>5, <3>21, <3>22, <3>23, Zenon
  <2> QED BY <1>4, <2>1, <2>2, Zenon DEF Start
<1>5. ASSUME NEW at \in {"wait", "rewait"}, NEW next \in {"write", "verify"},
             at = "wait" <=> next = "write", Wait(at, next)
      PROVE  Control'
  <2>1. UNCHANGED kvdVars /\ UNCHANGED <<svc, round, acked, wrong, dirty, fails>> /\ job.pc = at
    BY <1>5, Zenon DEF Wait, At
  <2>2. KvdOK' /\ NoneBegins
    BY <2>1, KvdKeeps, Zenon DEF KvdMoves
  <2>3. job' \in JobState /\ job'.n \in 1..MaxOps /\ job'.pc \in {next, "stop"} /\ job'.proc = job.proc
    BY <1>5, GoesEffect, GivesUpEffect, Zenon DEF Wait, JobPCs
  <2>21. TypeOK'
    BY <1>5, <2>1, <2>2, <2>3, Zenon DEF TypeOK, KvdOK
  <2>22. ProcsKnown'
    BY <1>5, <2>1, <2>2, <2>3, Zenon DEF ProcsKnown, Held, NoneBegins
  <2>23. JobAtWork'
    BY <1>5, <2>1, <2>2, <2>3, UsersAssumption, Zenon DEF JobAtWork, NoneBegins
  <2> QED
    BY <1>5, <2>1, <2>2, <2>3, <2>21, <2>22, <2>23, Zenon
<1>6. ASSUME JobSends PROVE Control'
  <2>0. job.pc \in {"write", "verify"}
    BY <1>6, Zenon DEF JobSends, At
  <2>1. KvdOK' /\ server' = server
    <3>1. Job \in Users /\ KeyOf(Job, job.n) \in KeysOf(Job)
      BY UsersAssumption, Zenon DEF KeysOf, TypeOK
    <3> QED BY <1>6, <3>1, SendEffect, Zenon DEF JobSends
  <2>21. TypeOK'
    BY <1>6, <2>0, <2>1, Zenon DEF JobSends, suiteVars, TypeOK, KvdOK
  <2>22. ProcsKnown'
    BY <1>6, <2>0, <2>1, Zenon DEF JobSends, suiteVars, ProcsKnown, Held, Live
  <2>23. JobAtWork'
    BY <1>6, <2>0, <2>1, UsersAssumption, Zenon DEF JobSends, suiteVars, JobAtWork
  <2> QED
    BY <1>6, <2>0, <2>1, <2>21, <2>22, <2>23, Zenon
<1>7. ASSUME JobHears PROVE Control'
  <2>1. /\ KvdOK' /\ server' = server /\ acked' \in [Keys -> Nat] /\ wrong' \subseteq Users
        /\ UNCHANGED <<svc, dirty, fails, round>>
    BY <1>7, LearnEffect, UsersAssumption, Zenon DEF JobHears
  <2>2. /\ job' \in JobState /\ job'.n \in 1..MaxOps /\ job'.proc = job.proc
        /\ job'.pc \in {job.pc, "stop", "fault"}
    <3>1. CASE GivesUp
      BY <3>1, GivesUpEffect, Zenon
    <3>2. CASE job.n < MaxOps /\ job' = [job EXCEPT !.n = @ + 1]
      BY <3>2, BoundsAssumption DEF TypeOK, JobState
    <3>3. CASE Goes(IF At("verify") THEN "stop" ELSE "fault")
      <4>1. PICK p \in {"stop", "fault"} : Goes(p)
        BY <3>3, Zenon
      <4> QED BY <4>1, GoesEffect, Zenon DEF JobPCs
    <3> QED BY <1>7, <3>1, <3>2, <3>3, Zenon DEF JobHears
  <2>3. job.pc \in {"write", "verify"}
    BY <1>7, Zenon DEF JobHears, JobAtWork
  <2>4. job'.pc = "fault" => job.pc = "write"
    BY <1>7, <2>3, Zenon DEF JobHears, Goes, GivesUp, At, TypeOK, JobState
  <2>5. (req[Job].st = "none")'
    BY <1>7, LearnEffect, UsersAssumption DEF JobHears, NoReq
  <2>21. TypeOK'
    BY <2>1, <2>2, <2>3, <2>4, <2>5, Zenon DEF TypeOK, KvdOK
  <2>22. ProcsKnown'
    BY <2>1, <2>2, <2>3, <2>4, <2>5, Zenon DEF ProcsKnown, Held, Live
  <2>23. JobAtWork'
    BY <2>1, <2>2, <2>3, <2>4, <2>5, UsersAssumption, Zenon DEF JobAtWork
  <2> QED
    BY <2>1, <2>2, <2>3, <2>4, <2>5, <2>21, <2>22, <2>23, Zenon
<1>8. ASSUME Fault PROVE Control'
  <2>1. svc.proc \in Servers /\ job.pc = "fault"
    BY <1>8, Zenon DEF Fault, At, ProcsKnown, TypeOK, Service
  <2>2. CASE Crash(FALSE) /\ Goes("restart")
    <3>0. PICK i \in Servers : i = svc.proc
      BY <2>1, Zenon
    <3>1. KvdOK' /\ NoneBegins /\ fails' \in Nat /\ ~Live(i)'
      BY <2>2, <3>0, CloseEffect, Zenon DEF Crash, TypeOK
    <3>2. job' \in JobState /\ job'.n \in 1..MaxOps /\ job'.pc = "restart" /\ job'.proc = job.proc
      BY <2>2, GoesEffect, Zenon DEF JobPCs
    <3>3. svc' \in Service
      BY <2>2, Zenon DEF Crash, TypeOK, Service
    <3>4. \A j \in Servers : ~Live(j)'
      BY <2>1, <3>0, <3>1, Zenon DEF ProcsKnown, Held, NoneBegins
    <3>21. TypeOK'
      BY <1>8, <2>1, <3>1, <3>2, <3>3, <3>4, Zenon DEF Fault, TypeOK, KvdOK
    <3>22. ProcsKnown'
      BY <1>8, <2>1, <3>1, <3>2, <3>3, <3>4, Zenon DEF Fault, ProcsKnown, Held, NoneBegins
    <3>23. JobAtWork'
      BY <1>8, <2>1, <3>1, <3>2, <3>3, <3>4, UsersAssumption, Zenon DEF Fault, JobAtWork,
         NoneBegins
    <3> QED
      BY <1>8, <2>1, <3>1, <3>2, <3>3, <3>4, <3>21, <3>22, <3>23, Zenon
  <2>3. CASE Crash(TRUE) /\ GivesUp
    <3>1. KvdOK' /\ NoneBegins /\ fails' \in Nat /\ svc' = svc
      BY <2>1, <2>3, CloseEffect, Zenon DEF Crash, TypeOK
    <3>2. job' \in JobState /\ job'.n \in 1..MaxOps /\ job'.pc = "stop" /\ job'.proc = job.proc
      BY <2>3, GivesUpEffect, Zenon
    <3>21. TypeOK'
      BY <1>8, <2>1, <3>1, <3>2, Zenon DEF Fault, TypeOK, KvdOK
    <3>22. ProcsKnown'
      BY <1>8, <2>1, <3>1, <3>2, Zenon DEF Fault, ProcsKnown, Held, NoneBegins
    <3>23. JobAtWork'
      BY <1>8, <2>1, <3>1, <3>2, UsersAssumption, Zenon DEF Fault, JobAtWork, NoneBegins
    <3> QED
      BY <1>8, <2>1, <3>1, <3>2, <3>21, <3>22, <3>23, Zenon
  <2>4. CASE StopSignal(svc.proc, "shutdown") /\ UNCHANGED svc
    <3>1. /\ KvdOK' /\ NoneBegins /\ fails' \in Nat
          /\ job' \in JobState /\ job'.n \in 1..MaxOps /\ job'.pc = "shutdown" /\ job'.proc = job.proc
      BY <2>1, <2>4, SignalEffect, Zenon DEF JobPCs
    <3>21. TypeOK'
      BY <1>8, <2>1, <2>4, <3>1, Zenon DEF Fault, TypeOK, KvdOK
    <3>22. ProcsKnown'
      BY <1>8, <2>1, <2>4, <3>1, Zenon DEF Fault, ProcsKnown, Held, NoneBegins
    <3>23. JobAtWork'
      BY <1>8, <2>1, <2>4, <3>1, UsersAssumption, Zenon DEF Fault, JobAtWork, NoneBegins
    <3> QED
      BY <1>8, <2>1, <2>4, <3>1, <3>21, <3>22, <3>23, Zenon
  <2> QED BY <1>8, <2>2, <2>3, <2>4, Zenon DEF Fault
<1>9. ASSUME Shutdown PROVE Control'
  <2>1. svc.proc \in Servers /\ job.pc = "shutdown"
    BY <1>9, Zenon DEF Shutdown, At, ProcsKnown, TypeOK, Service
  <2>2. PICK result \in {"code", "timeout", "error"} : ShutdownEnds(result)
    BY <1>9, Zenon DEF Shutdown
  <2>0. PICK i \in Servers : i = svc.proc
    BY <2>1, Zenon
  <2>3. KvdOK' /\ NoneBegins /\ fails' \in Nat /\ (result # "error" => ~Live(i)')
    BY <2>0, <2>2, StopEffect, Zenon DEF ShutdownEnds, TypeOK
  <2>4. /\ job' \in JobState /\ job'.n \in 1..MaxOps /\ job'.proc = job.proc
        /\ job'.pc = "stop" \/ (job'.pc = "restart" /\ result # "error")
    BY <2>2, GoesEffect, GivesUpEffect, Zenon DEF ShutdownEnds, JobPCs
  <2>5. svc' \in Service /\ (svc' = svc \/ (svc'.proc = 0 /\ result # "error"))
    BY <2>2, Zenon DEF ShutdownEnds, TypeOK, Service
  <2>6. \A j \in Servers : Live(j)' => j = svc'.proc
    BY <2>0, <2>1, <2>3, <2>5, Zenon DEF ProcsKnown, Held, NoneBegins
  <2>21. TypeOK'
    BY <1>9, <2>1, <2>3, <2>4, <2>5, <2>6, SMTT(30) DEF Shutdown, TypeOK, KvdOK
  <2>22. ProcsKnown'
    BY <1>9, <2>1, <2>3, <2>4, <2>5, <2>6, SMTT(30) DEF Shutdown, ProcsKnown, Held, NoneBegins
  <2>23. JobAtWork'
    BY <1>9, <2>1, <2>3, <2>4, <2>5, <2>6, UsersAssumption, Zenon DEF Shutdown, JobAtWork,
       NoneBegins
  <2> QED
    BY <1>9, <2>1, <2>3, <2>4, <2>5, <2>6, <2>21, <2>22, <2>23, Zenon
<1>10. ASSUME RestartJob PROVE Control'
  <2>1. job.pc = "restart"
    BY <1>10, Zenon DEF RestartJob, At
  <2>2. CASE Restart(FALSE) /\ Goes("rewait")
    <3>1. LaunchLocked(FALSE)
      BY <2>2, ZenonT(60) DEF Restart
    <3>2. /\ KvdOK' /\ svc' \in Service /\ fails' \in Nat
          /\ svc.proc = 0 /\ svc'.proc \in Servers
          /\ \A j \in Servers : j # svc'.proc => server'[j] = server[j]
          /\ UNCHANGED req
      BY <3>1, LaunchEffect, Zenon
    <3>3. job' \in JobState /\ job'.n \in 1..MaxOps /\ job'.pc = "rewait" /\ job'.proc = job.proc
      BY <2>2, GoesEffect, Zenon DEF JobPCs
    <3>4. \A j \in Servers : ~Live(j)
      BY <2>1, <3>2 DEF ProcsKnown, Held, Servers
    <3>5. \A j \in Servers : Live(j)' => j = svc'.proc
      BY <3>2, <3>4, Zenon DEF Live
    <3>6. svc'.proc # 0
      BY <3>2, BoundsAssumption DEF Servers
    <3>21. TypeOK'
      BY <1>10, <2>1, <3>2, <3>3, <3>5, <3>6, Zenon DEF RestartJob, TypeOK, KvdOK
    <3>22. ProcsKnown'
      BY <1>10, <2>1, <3>2, <3>3, <3>5, <3>6, Zenon DEF RestartJob, ProcsKnown, Held, Live
    <3>23. JobAtWork'
      BY <1>10, <2>1, <3>2, <3>3, <3>5, <3>6, UsersAssumption, Zenon DEF RestartJob, JobAtWork
    <3> QED
      BY <1>10, <2>1, <3>2, <3>3, <3>5, <3>6, <3>21, <3>22, <3>23, Zenon
  <2>3. CASE Restart(TRUE) /\ GivesUp
    <3>1. UNCHANGED kvdVars /\ UNCHANGED svc /\ fails' \in Nat
      BY <2>3 DEF Restart, LaunchLocked, Works, Fails, TypeOK
    <3>2. KvdOK' /\ NoneBegins
      BY <3>1, KvdKeeps, Zenon DEF KvdMoves
    <3>3. job' \in JobState /\ job'.n \in 1..MaxOps /\ job'.pc = "stop" /\ job'.proc = job.proc
      BY <2>3, GivesUpEffect, Zenon
    <3>21. TypeOK'
      BY <1>10, <2>1, <3>1, <3>2, <3>3, Zenon DEF RestartJob, TypeOK, KvdOK
    <3>22. ProcsKnown'
      BY <1>10, <2>1, <3>1, <3>2, <3>3, SMTT(30) DEF RestartJob, ProcsKnown, Held, NoneBegins
    <3>23. JobAtWork'
      BY <1>10, <2>1, <3>1, <3>2, <3>3, UsersAssumption, SMTT(30) DEF RestartJob, JobAtWork,
         NoneBegins
    <3> QED
      BY <1>10, <2>1, <3>1, <3>2, <3>3, <3>21, <3>22, <3>23, Zenon
  <2> QED BY <1>10, <2>2, <2>3, ZenonT(60) DEF RestartJob
<1>11. ASSUME StopNode PROVE Control'
  <2>1. /\ job.pc = "stop" /\ UNCHANGED kvdVars
        /\ UNCHANGED <<round, acked, wrong, dirty, fails>>
        /\ svc' = [port |-> FALSE, proc |-> 0]
    BY <1>11, Zenon DEF StopNode, At
  <2>2. KvdOK' /\ NoneBegins
    BY <2>1, KvdKeeps, Zenon DEF KvdMoves
  <2>3. /\ job' \in JobState /\ job'.n = job.n /\ job'.proc = svc.proc
        /\ job'.pc = IF svc.proc = 0 THEN "clean" ELSE "signal"
    BY <1>11, ZenonT(60) DEF StopNode, TypeOK, JobState, JobPCs, Service
  <2>4. svc' \in Service
    BY <2>1, Zenon DEF Service
  <2>5. svc.proc = 0 => \A j \in Servers : ~Live(j)
    BY <2>1 DEF ProcsKnown, Held, Servers
  <2>21. TypeOK'
    BY <2>1, <2>2, <2>3, <2>4, <2>5, Zenon DEF TypeOK, KvdOK
  <2>22. ProcsKnown'
    BY <2>1, <2>2, <2>3, <2>4, <2>5, Zenon DEF ProcsKnown, Held, NoneBegins
  <2>23. JobAtWork'
    BY <2>1, <2>2, <2>3, <2>4, <2>5, UsersAssumption, Zenon DEF JobAtWork, NoneBegins
  <2> QED
    BY <2>1, <2>2, <2>3, <2>4, <2>5, <2>21, <2>22, <2>23, Zenon
<1>12. ASSUME StopNodeSignals PROVE Control'
  <2>1. job.proc \in Servers /\ job.pc = "signal"
    BY <1>12, SMTT(30) DEF StopNodeSignals, At, ProcsKnown, TypeOK, JobState
  <2>2. /\ KvdOK' /\ NoneBegins /\ fails' \in Nat
        /\ job' \in JobState /\ job'.n \in 1..MaxOps /\ job'.pc = "stopping" /\ job'.proc = job.proc
    BY <1>12, <2>1, SignalEffect, Zenon DEF StopNodeSignals, JobPCs
  <2>21. TypeOK'
    BY <1>12, <2>1, <2>2, SMTT(30) DEF StopNodeSignals, TypeOK, KvdOK
  <2>22. ProcsKnown'
    BY <1>12, <2>1, <2>2, ZenonT(60) DEF StopNodeSignals, ProcsKnown, Held, NoneBegins
  <2>23. JobAtWork'
    BY <1>12, <2>1, <2>2, UsersAssumption, ZenonT(60) DEF StopNodeSignals, JobAtWork, NoneBegins
  <2> QED
    BY <1>12, <2>1, <2>2, <2>21, <2>22, <2>23, Zenon
<1>13. ASSUME StopNodeEnds PROVE Control'
  <2>1. job.proc \in Servers /\ job.pc = "stopping"
    BY <1>13, Zenon DEF StopNodeEnds, At, ProcsKnown, TypeOK, JobState
  <2>2. PICK result \in {"code", "timeout", "error"} :
          StopEnds(job.proc, result) /\ dirty' = (result = "error")
    BY <1>13, Zenon DEF StopNodeEnds
  <2>0. PICK i \in Servers : i = job.proc
    BY <2>1, Zenon
  <2>3. KvdOK' /\ NoneBegins /\ fails' \in Nat /\ (result # "error" => ~Live(i)')
    BY <2>0, <2>2, StopEffect, Zenon DEF TypeOK
  <2>4. job' \in JobState /\ job'.n \in 1..MaxOps /\ job'.pc = "clean" /\ job'.proc = job.proc
    BY <1>13, GoesEffect, Zenon DEF StopNodeEnds, JobPCs
  <2>5. dirty' \in BOOLEAN /\ (dirty' <=> result = "error")
    BY <2>2, ZenonT(60)
  <2>6. ~dirty' => \A j \in Servers : ~Live(j)'
    BY <2>0, <2>1, <2>3, <2>5, Zenon DEF ProcsKnown, Held, NoneBegins
  <2>21. TypeOK'
    BY <1>13, <2>1, <2>3, <2>4, <2>5, <2>6, Zenon DEF StopNodeEnds, TypeOK, KvdOK
  <2>22. ProcsKnown'
    BY <1>13, <2>1, <2>3, <2>4, <2>5, <2>6, SMTT(30) DEF StopNodeEnds, ProcsKnown, Held, NoneBegins
  <2>23. JobAtWork'
    BY <1>13, <2>1, <2>3, <2>4, <2>5, <2>6, UsersAssumption, SMTT(30) DEF StopNodeEnds, JobAtWork,
       NoneBegins
  <2> QED
    BY <1>13, <2>1, <2>3, <2>4, <2>5, <2>6, <2>21, <2>22, <2>23, Zenon
<1>14. ASSUME CleanNode PROVE Control'
  <2>1. /\ job.pc = "clean" /\ UNCHANGED <<server, conn, req, svc, round, acked, wrong>>
        /\ fails' \in Nat /\ dirty' \in BOOLEAN /\ (dirty => dirty')
    <3>1. CASE Works /\ UNCHANGED dirty
      BY <1>14, <3>1, Zenon DEF CleanNode, At, Works, TypeOK
    <3>2. CASE Fails /\ dirty' = TRUE
      BY <1>14, <3>2 DEF CleanNode, At, Fails, TypeOK
    <3> QED BY <1>14, <3>1, <3>2, Zenon DEF CleanNode
  <2>2. LogType(log') /\ torn' \in BOOLEAN
    <3>2. (log' = <<>> /\ torn' = FALSE) \/ UNCHANGED <<log, torn>>
      BY <1>14, Zenon DEF CleanNode
    <3> QED BY <3>2, EmptyLog, Zenon DEF KvdOK, KvdType
  <2>3. KvdOK'
    BY <2>1, <2>2, Zenon DEF KvdOK, KvdType, OwnKeys, ConnsServed
  <2>4. job' \in JobState /\ job'.n \in 1..MaxOps /\ job'.pc = "done" /\ job'.proc = job.proc
    BY <1>14, GoesEffect, Zenon DEF CleanNode, JobPCs
  <2>21. TypeOK'
    BY <2>1, <2>3, <2>4, Zenon DEF TypeOK, KvdOK
  <2>22. ProcsKnown'
    BY <2>1, <2>3, <2>4, Zenon DEF ProcsKnown, Held, Live
  <2>23. JobAtWork'
    BY <2>1, <2>3, <2>4, UsersAssumption, Zenon DEF JobAtWork
  <2> QED
    BY <2>1, <2>3, <2>4, <2>21, <2>22, <2>23, Zenon
<1>15. CASE UNCHANGED vars
  <2>1. UNCHANGED kvdVars /\ UNCHANGED suiteVars
    BY <1>15, Zenon DEF vars
  <2> QED BY <1>1, <2>1, Zenon DEF KvdMoves
<1>16. ASSUME KvdStep, UNCHANGED suiteVars PROVE Control'
  BY <1>1, <1>16, Zenon DEF KvdMoves
<1>17. ASSUME NEW u \in Users, Dial(u), UNCHANGED suiteVars PROVE Control'
  BY <1>1, <1>17, Zenon DEF KvdMoves
<1>18. CASE JobStep
  BY <1>4, <1>5, <1>6, <1>7, <1>8, <1>9, <1>10, <1>11, <1>12, <1>13, <1>14, <1>18, Zenon DEF JobStep
<1> QED
  BY <1>2, <1>3, <1>15, <1>16, <1>17, <1>18, Zenon DEF Next

\* That is so in every reachable state.
THEOREM ControlInvariance == Spec => []Control
  BY InitControl, NextControl, PTL DEF Spec

\* There is one kvd at most, and none after a teardown without an error, for any
\* number of users, writes and failing calls (Crash, launchLocked, StopNode).
THEOREM ThereIsOneKvd == Spec => []OneKvd
<1>1. Control => OneKvd
  BY Zenon DEF Control, ProcsKnown, OneKvd, At
<1> QED
  BY <1>1, ControlInvariance, PTL

-----------------------------------------------------------------------------
(* What the log, the maps and the users have of each key.                   *)

Opened(i) == server[i].pc \in {"opened", "serving", "stopping"}

\* What the log holds can be replayed, and a torn tail is there only when no
\* kvd that could append to it is alive.
LogWhole ==
  /\ \A i \in DOMAIN log : log[i].key \in Keys
  /\ torn => \A i \in Servers : ~Opened(i)

\* Who has no request asks nothing, and an error is not an answer.
RequestsSound ==
  \A u \in Users : /\ req[u].st = "none" => req[u].op = "none"
                   /\ req[u].st = "done" => req[u].op # "error"

\* Values grow: the last one acknowledged, the one a user is writing.
AckedBounds ==
  /\ \A n \in 1..MaxOps : acked[KeyOf(Job, n)] <= 1
  /\ \A u \in Loads : acked[KeyOf(u, 0)] <= round[u]
  /\ req[Job].op = "put" => req[Job].value = 1
  /\ \A u \in Loads : req[u].op = "put" => req[u].value = round[u]

\* Until the directory is removed, a kvd that has opened its store has in
\* memory what the log has, and the log has what was acknowledged and handled.
DataServed ==
  ~At("done") =>
    /\ \A k \in Keys : acked[k] <= Replayed[k]
    /\ \A i \in Servers : Opened(i) => \A k \in Keys : server[i].data[k] = Replayed[k]
    /\ \A u \in Users : req[u].op = "put" /\ req[u].st \in {"handled", "done"} =>
         Replayed[req[u].key] = req[u].value

\* Who reads has the last write of its key acknowledged, and reads that.
ReadsKnown ==
  /\ \A u \in Users : req[u].op = "get" =>
       /\ At("done") \/ Replayed[req[u].key] = acked[req[u].key]
       /\ req[u].st \in {"handled", "done"} => dirty \/ req[u].value = acked[req[u].key]
  /\ wrong # {} => dirty

\* The job writes its keys in order, and reads them once all are acknowledged.
AfterWrites == {"fault", "shutdown", "restart", "rewait", "verify"}

JobInOrder ==
  /\ req[Job].st # "none" =>
       /\ job.pc \in {"write", "verify"} /\ req[Job].key = KeyOf(Job, job.n)
       /\ req[Job].op \in {"put", "error"} <=> job.pc = "write"
  /\ job.pc = "write" => \A m \in 1..MaxOps : m < job.n => acked[KeyOf(Job, m)] = Replayed[KeyOf(Job, m)]
  /\ job.pc \in AfterWrites => \A m \in 1..MaxOps : acked[KeyOf(Job, m)] = Replayed[KeyOf(Job, m)]

Data == RequestsSound /\ LogWhole /\ AckedBounds /\ DataServed /\ ReadsKnown /\ JobInOrder

\* What a step of kvd leaves as it was: the log, the map of a kvd that has opened
\* its store, and what is asked and answered.
KvdQuiet ==
  /\ UNCHANGED log
  /\ torn' => \A i \in Servers : ~Opened(i)'
  /\ \A i \in Servers : Opened(i)' => Opened(i) /\ server'[i].data = server[i].data
  /\ \A u \in Users :
       /\ req'[u].key = req[u].key /\ req'[u].value = req[u].value
       /\ req'[u].op = req[u].op \/ (req[u].op = "put" /\ req'[u].op = "error")
       /\ req'[u].st \in {"handled", "done"} => req[u].st \in {"handled", "done"} \/ req'[u].op = "error"
       /\ req'[u].st = "none" <=> req[u].st = "none"
       /\ req'[u].st = "done" => req'[u].op # "error"

\* And a step of the job that sends and hears nothing.
JobQuiet ==
  /\ UNCHANGED <<round, acked, wrong>> /\ (dirty => dirty')
  /\ job.pc = "done" <=> job'.pc = "done"
  /\ \/ job' = job
     \/ /\ req[Job].st = "none" /\ (job'.pc = "write" => job'.n = 1)
        /\ job'.pc \in AfterWrites => job.pc \in AfterWrites

\* A log that stays as it is replays as before.
LEMMA ReplaySame == log' = log => Replayed' = Replayed
  BY Zenon DEF Replayed

\* A line that is appended gives its key its value, and no other.
LEMMA ReplayAppend ==
  ASSUME LogType(log), NEW e \in Entry, log' = Append(log, e), NEW k \in Keys
  PROVE  Replayed'[k] = IF e.key = k THEN e.value ELSE Replayed[k]
<1> DEFINE N == Len(log)
           A == Lines(log, k)
           B == Lines(log', k)
<1>1. /\ N \in Nat /\ DOMAIN log = 1..N /\ DOMAIN log' = 1..(N + 1)
      /\ log'[N + 1] = e /\ \A i \in 1..N : log'[i] = log[i]
  BY AppendEffect
<1>2. Replayed[k] = IF A = {} THEN 0 ELSE log[Latest(A)].value
  BY Zenon DEF Replayed, Lines
<1>3. Replayed'[k] = IF B = {} THEN 0 ELSE log'[Latest(B)].value
  BY Zenon DEF Replayed, Lines
<1>4. CASE e.key = k
  <2>1. B \in SUBSET Nat /\ N + 1 \in B /\ \A j \in B : j <= N + 1
    BY <1>1, <1>4 DEF Lines
  <2>2. Latest(B) = N + 1
    <3> HIDE DEF B, N
    <3> QED BY <2>1, LatestIs, Zenon
  <2> QED BY <1>1, <1>3, <1>4, <2>1, <2>2, Zenon
<1>5. CASE e.key # k
  <2>1. B = A
    BY <1>1, <1>5 DEF Lines
  <2>2. A # {} => Latest(A) \in 1..N
    <3> SUFFICES ASSUME A # {} PROVE Latest(A) \in 1..N
      BY Zenon
    <3>1. PICK m \in A : \A j \in A : j <= m
      BY Zenon DEF LogType
    <3>2. A \in SUBSET Nat /\ m \in 1..N
      BY <1>1 DEF Lines
    <3>3. Latest(A) = m
      <4> HIDE DEF A
      <4> QED BY <3>1, <3>2, LatestIs, Zenon
    <3> QED BY <3>2, <3>3, Zenon
  <2>3. A # {} => log'[Latest(A)] = log[Latest(A)]
    BY <1>1, <2>2, Zenon
  <2> QED
    <3> HIDE DEF A, B
    <3> QED BY <1>2, <1>3, <1>5, <2>1, <2>3, Zenon
<1> QED
  BY <1>4, <1>5, Zenon

\* Such steps keep what is known of the data.
LEMMA QuietKeeps ==
  ASSUME Control, Control', Data, KvdQuiet, JobQuiet
  PROVE  Data'
<1>0. Replayed' = Replayed /\ Replayed \in [Keys -> Nat]
  BY ReplaySame, ReplayedType, Zenon DEF KvdQuiet, Control, KvdOK, KvdType
<1>6. RequestsSound'
  BY DEF Data, RequestsSound, KvdQuiet
<1>1. LogWhole'
  BY Zenon DEF Data, LogWhole, KvdQuiet
<1>2. AckedBounds'
  BY UsersAssumption DEF Data, AckedBounds, KvdQuiet, JobQuiet, Loads
<1>3. DataServed'
  <2>1. SUFFICES ASSUME ~At("done")' PROVE DataServed'
    BY Zenon DEF DataServed
  <2>2. ~At("done")
    BY <2>1, Zenon DEF At, JobQuiet
  <2>3. \A k \in Keys : acked'[k] <= Replayed'[k]
    BY <1>0, <2>2, Zenon DEF Data, DataServed, JobQuiet
  <2>4. \A i \in Servers : Opened(i)' => \A k \in Keys : server'[i].data[k] = Replayed'[k]
    BY <1>0, <2>2 DEF Data, DataServed, KvdQuiet
  <2>5. \A u \in Users : req'[u].op = "put" /\ req'[u].st \in {"handled", "done"} =>
           Replayed'[req'[u].key] = req'[u].value
    BY <1>0, <2>2 DEF Data, DataServed, KvdQuiet
  <2> QED BY <2>3, <2>4, <2>5, Zenon DEF DataServed
<1>4. ReadsKnown'
  BY <1>0 DEF Data, ReadsKnown, KvdQuiet, JobQuiet, At
<1>5. JobInOrder'
  <2>1. \A m \in 1..MaxOps : acked'[KeyOf(Job, m)] = acked[KeyOf(Job, m)]
    BY Zenon DEF JobQuiet
  <2>2. CASE job' = job
    BY <1>0, <2>1, <2>2, UsersAssumption, SMTT(30) DEF Data, JobInOrder, KvdQuiet
  <2>3. CASE job' # job
    BY <1>0, <2>1, <2>3, UsersAssumption, SMTT(30) DEF Data, JobInOrder, KvdQuiet, JobQuiet
  <2> QED BY <2>2, <2>3, Zenon
<1> QED
  BY <1>1, <1>2, <1>3, <1>4, <1>5, <1>6, Zenon DEF Data

\* A process that ends leaves nothing in doubt: it was the only one.
LEMMA EndsQuiet ==
  ASSUME Control, Data, NEW i \in Servers, NEW c \in Nat, Ends(i, c), log' = log,
         torn' = torn \/ Live(i)
  PROVE  KvdQuiet
<1>1. /\ server'[i].pc = "dead" /\ \A j \in Servers : j # i => server'[j] = server[j]
      /\ \A u \in Users : /\ req'[u].key = req[u].key /\ req'[u].op = req[u].op
                          /\ req'[u].value = req[u].value
                          /\ req'[u].st # req[u].st => req'[u].st = "failed" /\ req[u].st # "none"
  BY EndsEffect, Zenon DEF Control, KvdOK
<1>2. \A j \in Servers : Opened(j)' => Opened(j) /\ server'[j].data = server[j].data
  BY <1>1, Zenon DEF Opened
<1>3. torn' => \A j \in Servers : ~Opened(j)'
  <2>1. CASE torn' = torn
    BY <1>2, <2>1, Zenon DEF Data, LogWhole
  <2>2. CASE Live(i)
    BY <1>1, <2>2, Zenon DEF Control, ProcsKnown, Opened, Live
  <2> QED BY <2>1, <2>2, Zenon
<1> QED
  BY <1>1, <1>2, <1>3 DEF KvdQuiet, Data, RequestsSound

\* What the service does to a kvd: signals, or nothing.
Signalled ==
  \/ \E i \in Servers : Live(i) /\ Killed(i)
  \/ \E i \in Servers : Sigterm(i)
  \/ UNCHANGED kvdVars

\* The signals the service sends are quiet too (Crash, Shutdown, StopNode).
LEMMA SignalQuiet ==
  ASSUME Control, Data, Signalled
  PROVE  KvdQuiet
<1>1. CASE \E i \in Servers : Live(i) /\ Killed(i)
  BY <1>1, EndsQuiet DEF Killed
<1>2. ASSUME NEW i \in Servers, Sigterm(i) PROVE KvdQuiet
  <2>1. CASE server[i].pc \in {"starting", "opened"}
    BY <1>2, <2>1, EndsQuiet DEF Sigterm
  <2>2. CASE server[i].pc = "serving"
    <3>1. server' = [server EXCEPT ![i].pc = "stopping"] /\ UNCHANGED <<log, torn, conn, req>>
      BY <1>2, <2>2, Zenon DEF Sigterm
    <3>2. \A j \in Servers : (Opened(j)' <=> Opened(j)) /\ server'[j].data = server[j].data
      BY <2>2, <3>1, Zenon DEF Opened, Control, KvdOK, KvdType, Process
    <3> QED BY <3>1, <3>2, Zenon DEF KvdQuiet, Data, RequestsSound, LogWhole
  <2>3. CASE server[i].pc \notin {"starting", "opened", "serving"}
    BY <1>2, <2>3, Zenon DEF Sigterm, kvdVars, KvdQuiet, Data, RequestsSound, LogWhole, Opened
  <2> QED BY <2>1, <2>2, <2>3, Zenon
<1>3. CASE UNCHANGED kvdVars
  BY <1>3, Zenon DEF kvdVars, KvdQuiet, Data, RequestsSound, LogWhole, Opened
<1> QED
  BY <1>1, <1>2, <1>3, Zenon DEF Signalled

\* And a request that moves on without being handled.
LEMMA RequestQuiet ==
  ASSUME Control, Data, NEW u \in Users, NEW s \in RequestStates, req' = [req EXCEPT ![u].st = s],
         UNCHANGED <<log, torn, server>>, req[u].st # "none", s # "none",
         s \in {"handled", "done"} => req[u].st \in {"handled", "done"} /\ req[u].op # "error"
  PROVE  KvdQuiet
<1>1. /\ \A v \in Users : v # u => req'[v] = req[v]
      /\ req'[u].key = req[u].key /\ req'[u].op = req[u].op
      /\ req'[u].value = req[u].value /\ req'[u].st = s
  BY RequestEffect, Zenon DEF Control, KvdOK
<1> QED
  BY <1>1 DEF KvdQuiet, Data, RequestsSound, LogWhole, Opened

\* The connections have no part in it.
LEMMA StillQuiet ==
  ASSUME Control, Data, UNCHANGED <<log, torn, req>>,
         \A i \in Servers : server'[i].pc = server[i].pc /\ server'[i].data = server[i].data
  PROVE  KvdQuiet
  BY Zenon DEF KvdQuiet, Data, RequestsSound, LogWhole, Opened

-----------------------------------------------------------------------------
(* The three steps of kvd that touch the data.                              *)

\* A kvd that opens its store has what the log has (replay).
LEMMA ReplayKeeps ==
  ASSUME Control, Control', Data, NEW i \in Servers, Replay(i), UNCHANGED <<log, conn, req>>,
         UNCHANGED suiteVars
  PROVE  Data'
<1>0. Replayed' = Replayed /\ Replayed \in [Keys -> Nat]
  BY ReplaySame, ReplayedType, Zenon DEF Control, KvdOK, KvdType
<1>1. /\ server'[i].data = Replayed
      /\ \A j \in Servers : j # i => server'[j] = server[j]
      /\ torn' = FALSE
  BY Zenon DEF Replay, Control, KvdOK, KvdType, Process
<1>2. UNCHANGED <<log, req, job, round, acked, wrong, dirty>>
  BY Zenon DEF suiteVars
<1>3. RequestsSound' /\ LogWhole' /\ AckedBounds'
  BY <1>1, <1>2, ZenonT(40) DEF Data, RequestsSound, LogWhole, AckedBounds
<1>4. DataServed'
  BY <1>0, <1>1, <1>2 DEF Data, DataServed, At, Opened
<1>5. ReadsKnown' /\ JobInOrder'
  BY <1>0, <1>2, Zenon DEF Data, ReadsKnown, JobInOrder, At
<1> QED
  BY <1>3, <1>4, <1>5, Zenon DEF Data

\* The value a user writes is not below the one acknowledged for its key.
LEMMA PutGrows ==
  ASSUME Control, Data, NEW u \in Users, req[u].op = "put", req[u].st # "none"
  PROVE  acked[req[u].key] <= req[u].value
<1>1. CASE u = Job
  BY <1>1, Zenon DEF Data, JobInOrder, AckedBounds, Control, TypeOK
<1>2. CASE u # Job
  BY <1>2, Zenon DEF Data, AckedBounds, Control, KvdOK, OwnKeys, KeysOf, Loads
<1> QED
  BY <1>1, <1>2, Zenon

\* Others ask for other keys.
LEMMA OthersKeys ==
  ASSUME Control, Data, NEW u \in Users, req[u].st # "none"
  PROVE  /\ req[u].key \in Keys
         /\ \A v \in Users : v # u /\ req[v].op # "none" => req[v].key \in Keys /\ req[v].key # req[u].key
         /\ u # Job => \A m \in 1..MaxOps : KeyOf(Job, m) # req[u].key
         /\ \A v \in Loads : v # u => KeyOf(v, 0) # req[u].key
<1>1. req[u].key \in KeysOf(u)
  BY Zenon DEF Control, KvdOK, OwnKeys
<1>2. \A v \in Users : req[v].op # "none" => req[v].key \in KeysOf(v)
  BY Zenon DEF Control, KvdOK, OwnKeys, Data, RequestsSound
<1>3. Job \in Users /\ \A m \in 1..MaxOps : KeyOf(Job, m) \in KeysOf(Job)
  BY UsersAssumption, Zenon DEF KeysOf
<1>4. \A v \in Loads : v \in Users /\ KeyOf(v, 0) \in KeysOf(v)
  BY Zenon DEF KeysOf, Loads
<1> QED
  BY <1>1, <1>2, <1>3, <1>4, KeysApart

\* A put gives its key its value, in the log and in the map, and no other (Put).
LEMMA PutKeeps ==
  ASSUME Control, Control', Data, NEW u \in Users, InFlight(u), req[u].st = "read", req[u].op = "put",
         Put(conn[u].by, [key |-> req[u].key, value |-> req[u].value]),
         req' = [req EXCEPT ![u].st = "handled"], UNCHANGED suiteVars
  PROVE  Data'
<1> DEFINE k == req[u].key
           x == req[u].value
<1>0. UNCHANGED <<job, round, acked, wrong, dirty>>
  BY Zenon DEF suiteVars
<1>1. PICK i \in Servers : i = conn[u].by /\ Opened(i)
  BY DEF InFlight, Control, KvdOK, ConnsServed, NoConn, Opened
<1>2. k \in Keys /\ x \in Nat
  BY OthersKeys, Zenon DEF Control, KvdOK, KvdType, Request
<1>3. PICK e \in Entry : e = [key |-> k, value |-> x]
  BY <1>2, Zenon DEF Entry
<1>4. log' = Append(log, e) /\ torn' = FALSE
  BY <1>1, <1>3, Zenon DEF Put, Appended, Data, LogWhole, Control, KvdOK, KvdType
<1>5. /\ \A j \in Servers : server'[j].pc = server[j].pc
      /\ \A j \in Servers : j # i => server'[j] = server[j]
      /\ \A l \in Keys : server'[i].data[l] = IF l = k THEN x ELSE server[i].data[l]
  <2>1. Put(i, e)
    BY <1>1, <1>3, Zenon
  <2>2. KvdType /\ e.key = k /\ e.value = x
    BY <1>3, Zenon DEF Control, KvdOK
  <2> HIDE DEF k, x
  <2> QED BY <1>2, <2>1, <2>2, PutEffect
<1>6. server[i].data \in [Keys -> Nat] /\ LogType(log) /\ acked \in [Keys -> Nat]
  BY SMTT(30) DEF Control, TypeOK, KvdOK, KvdType, Process
<1>7. /\ \A v \in Users : v # u => req'[v] = req[v]
      /\ req'[u].key = k /\ req'[u].op = "put" /\ req'[u].value = x /\ req'[u].st = "handled"
  BY RequestEffect, Zenon DEF Control, KvdOK, RequestStates
<1>8. Replayed \in [Keys -> Nat] /\ \A l \in Keys : Replayed'[l] = IF k = l THEN x ELSE Replayed[l]
  BY <1>3, <1>4, <1>6, ReplayAppend, ReplayedType, Zenon
<1>9. /\ \A v \in Users : v # u /\ req[v].op # "none" => req[v].key \in Keys /\ req[v].key # k
      /\ u # Job => \A m \in 1..MaxOps : KeyOf(Job, m) # k
  BY OthersKeys, Zenon
<1>10. acked[k] <= x
  BY PutGrows, Zenon
<1>11. \A j \in Servers : Opened(j) => j = i
  BY <1>1, Zenon DEF Control, ProcsKnown, Opened, Live
<1> HIDE DEF k, x
<1>12. RequestsSound'
  BY <1>7, Zenon DEF Data, RequestsSound
<1>13. LogWhole'
  <2>1. \A j \in DOMAIN log' : log'[j].key \in Keys
    BY <1>2, <1>3, <1>4, <1>6, AppendEffect DEF Data, LogWhole
  <2> QED BY <1>4, <2>1, Zenon DEF LogWhole
<1>14. AckedBounds'
  BY <1>0, <1>7, UsersAssumption DEF Data, AckedBounds, Loads, k, x
<1>15. DataServed'
  <2> SUFFICES ASSUME ~At("done")' PROVE DataServed'
    BY Zenon DEF DataServed
  <2>1. ~At("done")
    BY <1>0, Zenon DEF At
  <2>2. \A l \in Keys : acked'[l] <= Replayed'[l]
    BY <1>0, <1>6, <1>8, <1>10, <2>1, Zenon DEF Data, DataServed
  <2>3. \A j \in Servers : Opened(j)' => \A l \in Keys : server'[j].data[l] = Replayed'[l]
    <3>1. \A l \in Keys : server[i].data[l] = Replayed[l]
      BY <1>1, <2>1, Zenon DEF Data, DataServed
    <3>2. \A l \in Keys : server'[i].data[l] = Replayed'[l]
      BY <1>2, <1>5, <1>6, <1>8, <3>1, Zenon
    <3>3. \A j \in Servers : Opened(j)' => j = i
      BY <1>5, <1>11, Zenon DEF Opened
    <3> QED BY <3>2, <3>3, Zenon
  <2>4. \A v \in Users : req'[v].op = "put" /\ req'[v].st \in {"handled", "done"} =>
           Replayed'[req'[v].key] = req'[v].value
    BY <1>2, <1>7, <1>8, <1>9, <2>1, SMTT(30) DEF Data, DataServed
  <2> QED BY <2>2, <2>3, <2>4, Zenon DEF DataServed
<1>16. ReadsKnown'
  BY <1>0, <1>7, <1>8, <1>9 DEF Data, ReadsKnown, At
<1>17. JobInOrder'
  <2>1. \A m \in 1..MaxOps : KeyOf(Job, m) \in Keys
    BY UsersAssumption, Zenon
  <2>2. CASE u = Job
    <3>1. job.pc = "write" /\ k = KeyOf(Job, job.n)
      BY <2>2, Zenon DEF Data, JobInOrder, k
    <3>2. \A m \in 1..MaxOps : m < job.n => KeyOf(Job, m) # k
      BY <3>1, KeysApart DEF Control, TypeOK
    <3> QED BY <1>0, <1>7, <1>8, <2>1, <2>2, <3>1, <3>2 DEF Data, JobInOrder, AfterWrites
  <2>3. CASE u # Job
    BY <1>0, <1>7, <1>8, <1>9, <2>1, <2>3, UsersAssumption DEF Data, JobInOrder
  <2> QED BY <2>2, <2>3, Zenon
<1> QED
  BY <1>12, <1>13, <1>14, <1>15, <1>16, <1>17, Zenon DEF Data

\* A get answers with what the log has of the key (handler).
LEMMA GetKeeps ==
  ASSUME Control, Control', Data, NEW u \in Users, InFlight(u), req[u].st = "read", req[u].op = "get",
         UNCHANGED <<log, torn, server>>,
         req' = [req EXCEPT ![u].st = "handled", ![u].value = server[conn[u].by].data[req[u].key]],
         UNCHANGED suiteVars
  PROVE  Data'
<1>0. UNCHANGED <<job, round, acked, wrong, dirty>>
  BY Zenon DEF suiteVars
<1>1. PICK i \in Servers : i = conn[u].by /\ Opened(i)
  BY DEF InFlight, Control, KvdOK, ConnsServed, NoConn, Opened
<1>2. req[u].key \in Keys
  BY OthersKeys, Zenon
<1>3. PICK x \in Nat : x = server[i].data[req[u].key]
  BY <1>2, SMTT(30) DEF Control, KvdOK, KvdType, Process
<1>4. /\ \A v \in Users : v # u => req'[v] = req[v]
      /\ req'[u].key = req[u].key /\ req'[u].op = "get" /\ req'[u].value = x /\ req'[u].st = "handled"
  <2>1. req' = [req EXCEPT ![u].st = "handled", ![u].value = x]
    BY <1>1, <1>3, Zenon
  <2>2. req \in [Users -> Request]
    BY Zenon DEF Control, KvdOK, KvdType
  <2> QED BY <2>1, <2>2 DEF Request
<1>5. Replayed' = Replayed
  BY ReplaySame, Zenon
<1>6. dirty \/ x = acked[req[u].key]
  <2>1. CASE At("done")
    BY <1>1, <2>1, SMTT(30) DEF Control, ProcsKnown, At, Opened, Live
  <2>2. CASE ~At("done")
    <3>1. server[i].data[req[u].key] = Replayed[req[u].key]
      BY <1>1, <1>2, <2>2, Zenon DEF Data, DataServed
    <3>2. Replayed[req[u].key] = acked[req[u].key]
      BY <2>2, Zenon DEF Data, ReadsKnown
    <3> QED
      BY <1>3, <3>1, <3>2, Zenon
  <2> QED BY <2>1, <2>2, Zenon
<1>7. RequestsSound' /\ LogWhole'
  BY <1>4, ZenonT(40) DEF Data, RequestsSound, LogWhole, Opened
<1>8. AckedBounds'
  BY <1>0, <1>4, UsersAssumption, Zenon DEF Data, AckedBounds, Loads
<1>9. DataServed'
  BY <1>0, <1>4, <1>5, ZenonT(60) DEF Data, DataServed, At, Opened
<1>10. ReadsKnown'
  <2>1. At("done") \/ Replayed[req[u].key] = acked[req[u].key]
    BY Zenon DEF Data, ReadsKnown
  <2>2. \A v \in Users : v # u /\ req[v].op = "get" =>
          /\ At("done") \/ Replayed[req[v].key] = acked[req[v].key]
          /\ req[v].st \in {"handled", "done"} => dirty \/ req[v].value = acked[req[v].key]
    BY Zenon DEF Data, ReadsKnown
  <2>3. (wrong # {} => dirty)'
    BY <1>0, Zenon DEF Data, ReadsKnown
  <2> QED BY <1>0, <1>4, <1>5, <1>6, <2>1, <2>2, <2>3, ZenonT(60) DEF ReadsKnown, At
<1>11. JobInOrder'
  BY <1>0, <1>4, <1>5, UsersAssumption, Zenon DEF Data, JobInOrder
<1> QED
  BY <1>7, <1>8, <1>9, <1>10, <1>11, Zenon DEF Data

\* Every step of kvd keeps what is known of the data, if a write that fails leaves
\* nothing behind.
LEMMA KvdStepKeeps ==
  ASSUME Control, Control', Data, ~HalfWrites, KvdStep \/ (\E u \in Users : Dial(u)), UNCHANGED suiteVars
  PROVE  Data'
<1>0. KvdQuiet => Data'
  <2>1. JobQuiet
    BY Zenon DEF JobQuiet, suiteVars
  <2> QED BY <2>1, QuietKeeps, Zenon
<1>1. ASSUME NEW i \in Servers, OpenStore(i) PROVE Data'
  BY <1>0, <1>1, ReplayKeeps, EndsQuiet, Zenon DEF OpenStore
<1>2. ASSUME NEW i \in Servers, Listen(i) PROVE Data'
  <2>1. CASE Ends(i, 1)
    BY <1>0, <1>2, <2>1, EndsQuiet, Zenon DEF Listen
  <2>2. CASE server' = [server EXCEPT ![i].pc = "serving"] /\ UNCHANGED <<conn, req>>
    <3>1. \A j \in Servers : (Opened(j)' <=> Opened(j)) /\ server'[j].data = server[j].data
      BY <1>2, <2>2, MoveEffect DEF Listen, Opened, ServerPCs, Control, KvdOK
    <3>2. KvdQuiet
      BY <1>2, <2>2, <3>1, Zenon DEF Listen, KvdQuiet, Data, RequestsSound, LogWhole
    <3> QED BY <1>0, <3>2, ZenonT(40)
  <2> QED BY <1>2, <2>1, <2>2, Zenon DEF Listen
<1>3. ASSUME NEW i \in Servers, CloseNew(i) PROVE Data'
  <2>1. \A j \in Servers : server'[j].pc = server[j].pc /\ server'[j].data = server[j].data
    BY <1>3 DEF CloseNew, Control, KvdOK, KvdType, Process
  <2> QED BY <1>0, <1>3, <2>1, StillQuiet, Zenon DEF CloseNew
<1>4. ASSUME NEW i \in Servers, Stopped(i) PROVE Data'
  BY <1>0, <1>4, EndsQuiet, Zenon DEF Stopped
<1>5. ASSUME NEW i \in Servers, TimesOut(i) PROVE Data'
  BY <1>0, <1>5, EndsQuiet, Zenon DEF TimesOut
<1>6. ASSUME NEW u \in Users, Refused(u) PROVE Data'
  BY <1>0, <1>6, RequestQuiet, Zenon DEF Refused, Failed, RequestStates
<1>7. ASSUME NEW u \in Users, Hook(u) \/ Dial(u) PROVE Data'
  BY <1>0, <1>7, StillQuiet, Zenon DEF Hook, Dial
<1>8. ASSUME NEW u \in Users, ReadRequest(u) PROVE Data'
  BY <1>0, <1>8, RequestQuiet, Zenon DEF ReadRequest, RequestStates
<1>9. ASSUME NEW u \in Users, Handle(u) PROVE Data'
  <2>1. CASE /\ req[u].op = "put" /\ PutFails
             /\ req' = [req EXCEPT ![u].st = "handled", ![u].op = "error"]
    <3>1. torn' = torn /\ UNCHANGED <<log, server>>
      BY <2>1, Zenon DEF PutFails, Control, KvdOK, KvdType
    <3>2. /\ \A v \in Users : v # u => req'[v] = req[v]
          /\ req'[u].key = req[u].key /\ req'[u].op = "error"
          /\ req'[u].value = req[u].value /\ req'[u].st = "handled"
      BY <2>1 DEF Control, KvdOK, KvdType, Request
    <3>3. KvdQuiet
      BY <1>9, <2>1, <3>1, <3>2, ZenonT(60) DEF Handle, KvdQuiet, Data, RequestsSound, LogWhole, Opened
    <3> QED BY <1>0, <3>3, Zenon
  <2> QED BY <1>9, <2>1, PutKeeps, GetKeeps, Zenon DEF Handle
<1>10. ASSUME NEW u \in Users, Answer(u) PROVE Data'
  <2>1. CASE conn[u].shut \/ req[u].op = "error"
    BY <1>0, <1>10, <2>1, RequestQuiet, Zenon DEF Answer, Failed, RequestStates
  <2>2. CASE ~(conn[u].shut \/ req[u].op = "error")
    BY <1>0, <1>10, <2>2, RequestQuiet, Zenon DEF Answer, RequestStates
  <2> QED BY <2>1, <2>2, Zenon
<1>11. ASSUME NEW u \in Users, Dropped(u) PROVE Data'
  <2>1. CASE req[u].st = "sent"
    BY <1>0, <1>11, <2>1, RequestQuiet, Zenon DEF Dropped, Failed, RequestStates
  <2>2. CASE req[u].st # "sent"
    BY <1>0, <1>11, <2>2, StillQuiet, Zenon DEF Dropped
  <2> QED BY <2>1, <2>2, Zenon
<1> QED
  BY <1>1, <1>2, <1>3, <1>4, <1>5, <1>6, <1>7, <1>8, <1>9, <1>10, <1>11 DEF KvdStep

-----------------------------------------------------------------------------
(* The job and the clients.                                                 *)

\* A request is sent: for a put the value is the round, a get has the last write of
\* its key acknowledged (writeKeys, verifyKeys, runClient).
LEMMA LoadSendsKeeps ==
  ASSUME Control, Control', Data, NEW u \in Loads, LoadSends(u)
  PROVE  Data'
<1>1. u \in Users /\ u # Job /\ Job \in Users /\ KeyOf(u, 0) \in KeysOf(u) /\ round[u] + 1 \in Nat
  BY UsersAssumption DEF Loads, KeysOf, Control, TypeOK
<1>2. /\ UNCHANGED <<log, torn, server, job, acked, wrong, dirty>>
      /\ round' = [round EXCEPT ![u] = @ + 1]
  BY Zenon DEF LoadSends, Send
<1>3. /\ \A v \in Users : v # u => req'[v] = req[v]
      /\ req'[u].op = "put" /\ req'[u].st = "sent" /\ req'[u].value = round[u] + 1
  <2>1. KvdOK /\ Send(u, "put", KeyOf(u, 0), round[u] + 1)
    BY Zenon DEF LoadSends, Control
  <2>2. /\ \A v \in Users : v # u => req'[v] = req[v]
        /\ req'[u] = [op |-> "put", key |-> KeyOf(u, 0), value |-> round[u] + 1, st |-> "sent"]
    BY <1>1, <2>1, SendEffect, Zenon
  <2> QED BY <2>2
<1>4. /\ round'[u] = round[u] + 1 /\ \A v \in Loads : v # u => round'[v] = round[v]
      /\ round[u] \in Nat /\ acked \in [Keys -> Nat]
  BY <1>2, Zenon DEF Control, TypeOK
<1>5. Replayed' = Replayed
  BY <1>2, ReplaySame, Zenon
<1>6. RequestsSound' /\ LogWhole'
  BY <1>2, <1>3, Zenon DEF Data, RequestsSound, LogWhole, Opened
<1>7. AckedBounds'
  <2>1. \A v \in Loads : v \in Users /\ KeyOf(v, 0) \in Keys
    BY UsersAssumption, Zenon DEF Loads
  <2>2. \A v \in Loads : acked'[KeyOf(v, 0)] <= round'[v]
    BY <1>2, <1>4, <2>1, SMTT(30) DEF Data, AckedBounds
  <2> QED BY <1>1, <1>2, <1>3, <1>4, <2>1, <2>2 DEF Data, AckedBounds
<1>8. DataServed'
  BY <1>2, <1>3, <1>5, Zenon DEF Data, DataServed, At, Opened
<1>9. ReadsKnown'
  BY <1>2, <1>3, <1>5, Zenon DEF Data, ReadsKnown, At
<1>10. JobInOrder'
  BY <1>1, <1>2, <1>3, <1>5, Zenon DEF Data, JobInOrder
<1> QED
  BY <1>6, <1>7, <1>8, <1>9, <1>10, Zenon DEF Data

\* So does a request of the job (writeKeys, verifyKeys).
LEMMA JobSendsKeeps ==
  ASSUME Control, Control', Data, JobSends
  PROVE  Data'
<1>1. Job \in Users /\ KeyOf(Job, job.n) \in KeysOf(Job) /\ job.n \in 1..MaxOps
  BY UsersAssumption, Zenon DEF KeysOf, Control, TypeOK
<1>2. UNCHANGED <<log, torn, server, job, round, acked, wrong, dirty>>
  BY Zenon DEF JobSends, Send, suiteVars
<1>3. PICK op \in {"put", "get"}, x \in {0, 1} :
         /\ Send(Job, op, KeyOf(Job, job.n), x)
         /\ op = "put" => job.pc = "write" /\ x = 1
         /\ op = "get" => job.pc = "verify"
  BY Zenon DEF JobSends, At
<1>4. /\ \A v \in Users : v # Job => req'[v] = req[v]
      /\ req'[Job].op = op /\ req'[Job].st = "sent" /\ req'[Job].value = x
      /\ req'[Job].key = KeyOf(Job, job.n)
  <2>1. KvdOK /\ x \in Nat
    BY DEF Control
  <2>2. /\ \A v \in Users : v # Job => req'[v] = req[v]
        /\ req'[Job] = [op |-> op, key |-> KeyOf(Job, job.n), value |-> x, st |-> "sent"]
    BY <1>1, <1>3, <2>1, SendEffect, Zenon
  <2> QED BY <2>2
<1>5. Replayed' = Replayed
  BY <1>2, ReplaySame, Zenon
<1>6. RequestsSound' /\ LogWhole'
  BY <1>2, <1>4, Zenon DEF Data, RequestsSound, LogWhole, Opened
<1>7. AckedBounds'
  BY <1>2, <1>3, <1>4, Zenon DEF Data, AckedBounds, Loads
<1>8. DataServed'
  BY <1>2, <1>4, <1>5, ZenonT(40) DEF Data, DataServed, At, Opened
<1>9. ReadsKnown'
  <2>1. op = "get" => Replayed[KeyOf(Job, job.n)] = acked[KeyOf(Job, job.n)]
    BY <1>1, <1>3, Zenon DEF Data, JobInOrder, AfterWrites
  <2> QED BY <1>2, <1>3, <1>4, <1>5, <2>1 DEF Data, ReadsKnown, At
<1>10. JobInOrder'
  BY <1>2, <1>3, <1>4, <1>5, Zenon DEF Data, JobInOrder
<1> QED
  BY <1>6, <1>7, <1>8, <1>9, <1>10, Zenon DEF Data

\* What an acknowledged put leaves: its key has that value in the log, and no other
\* user asks for it.
AckedNow(u) ==
  /\ acked' = [acked EXCEPT ![req[u].key] = req[u].value]
  /\ req[u].st = "done" /\ req[u].op = "put"

\* What stays known of the other keys and users when a user hears of its request.
LEMMA HearsKeeps ==
  ASSUME Control, Data, NEW u \in Users, req[u].st # "none", AckedNow(u) \/ UNCHANGED acked,
         UNCHANGED <<log, torn, server, round, dirty>>, At("done")' <=> At("done"),
         \A v \in Users : v # u => req'[v] = req[v],
         req'[u].op \in {"none", "get"}, req'[u].st \in {"none", "sent"},
         req'[u].op = "none" <=> req'[u].st = "none",
         req'[u].op = "get" => AckedNow(u) /\ req'[u].key = req[u].key,
         wrong' # {} => dirty
  PROVE  /\ RequestsSound' /\ LogWhole' /\ AckedBounds' /\ DataServed' /\ ReadsKnown'
         /\ Replayed' = Replayed
         /\ AckedNow(u) => \A k \in Keys : acked'[k] = IF k = req[u].key THEN req[u].value ELSE acked[k]
         /\ AckedNow(u) /\ ~At("done") => acked'[req[u].key] = Replayed[req[u].key]
<1>0. /\ req[u].key \in Keys
      /\ \A v \in Users : v # u /\ req[v].op # "none" => req[v].key \in Keys /\ req[v].key # req[u].key
      /\ u # Job => \A m \in 1..MaxOps : KeyOf(Job, m) # req[u].key
      /\ \A v \in Loads : v # u => KeyOf(v, 0) # req[u].key
  BY OthersKeys, Zenon
<1>1. /\ Replayed' = Replayed /\ Replayed \in [Keys -> Nat] /\ acked \in [Keys -> Nat]
      /\ req[u].value \in Nat
  BY ReplaySame, ReplayedType, Zenon DEF Control, TypeOK, KvdOK, KvdType, Request
<1>2. AckedNow(u) => \A k \in Keys : acked'[k] = IF k = req[u].key THEN req[u].value ELSE acked[k]
  BY <1>0, <1>1, Zenon DEF AckedNow
<1>3. AckedNow(u) /\ ~At("done") => acked'[req[u].key] = Replayed[req[u].key]
  BY <1>0, <1>2, Zenon DEF AckedNow, Data, DataServed
<1>4. RequestsSound' /\ LogWhole'
  BY Zenon DEF Data, RequestsSound, LogWhole, Opened
<1>5. AckedBounds'
  <2>0. /\ \A m \in 1..MaxOps : KeyOf(Job, m) \in Keys
        /\ \A v \in Loads : KeyOf(v, 0) \in Keys /\ v \in Users /\ v # Job
        /\ Job \in Users
    BY UsersAssumption, Zenon DEF Loads
  <2>1. \A m \in 1..MaxOps : acked'[KeyOf(Job, m)] <= 1
    <3>1. CASE UNCHANGED acked
      BY <3>1, ZenonT(40) DEF Data, AckedBounds
    <3>2. CASE AckedNow(u)
      BY <1>0, <1>2, <2>0, <3>2 DEF AckedNow, Data, AckedBounds
    <3> QED BY <3>1, <3>2, Zenon
  <2>2. \A v \in Loads : acked'[KeyOf(v, 0)] <= round'[v]
    <3>1. CASE UNCHANGED acked
      BY <3>1, Zenon DEF Data, AckedBounds
    <3>2. ASSUME AckedNow(u), NEW v \in Loads PROVE acked'[KeyOf(v, 0)] <= round'[v]
      <4>1. CASE v = u
        <5>1. req[u].value = round[u] /\ round[u] \in Nat
          BY <3>2, <4>1, Zenon DEF AckedNow, Data, AckedBounds, Control, TypeOK
        <5>2. req[u].key = KeyOf(u, 0)
          BY <2>0, <4>1, Zenon DEF Control, KvdOK, OwnKeys, KeysOf
        <5> QED BY <1>0, <1>2, <3>2, <4>1, <5>1, <5>2
      <4>2. CASE v # u
        BY <1>0, <1>2, <2>0, <3>2, <4>2, Zenon DEF Data, AckedBounds
      <4> QED BY <4>1, <4>2, ZenonT(40)
    <3> QED BY <3>1, <3>2, SMTT(30)
  <2>3. /\ req'[Job].op = "put" => req'[Job].value = 1
        /\ \A v \in Loads : req'[v].op = "put" => req'[v].value = round'[v]
    BY <2>0, Zenon DEF Data, AckedBounds
  <2> QED BY <2>1, <2>2, <2>3, Zenon DEF AckedBounds
<1>6. DataServed'
  <2> SUFFICES ASSUME ~At("done"), ~At("done")' PROVE DataServed'
    BY Zenon DEF DataServed
  <2>1. \A k \in Keys : acked'[k] <= Replayed'[k]
    <3>1. CASE UNCHANGED acked
      BY <1>1, <3>1, ZenonT(40) DEF Data, DataServed
    <3>2. CASE AckedNow(u)
      BY <1>0, <1>1, <1>2, <1>3, <3>2 DEF Data, DataServed
    <3> QED BY <3>1, <3>2, SMTT(30)
  <2>2. \A i \in Servers : Opened(i)' => \A k \in Keys : server'[i].data[k] = Replayed'[k]
    BY <1>1, Zenon DEF Data, DataServed, Opened
  <2>3. \A v \in Users : req'[v].op = "put" /\ req'[v].st \in {"handled", "done"} =>
           Replayed'[req'[v].key] = req'[v].value
    BY <1>1, Zenon DEF Data, DataServed
  <2> QED BY <2>1, <2>2, <2>3, Zenon DEF DataServed
<1>7. ReadsKnown'
  <2> SUFFICES ASSUME NEW v \in Users, req'[v].op = "get"
               PROVE  /\ At("done")' \/ Replayed'[req'[v].key] = acked'[req'[v].key]
                      /\ req'[v].st \in {"handled", "done"} => dirty' \/ req'[v].value = acked'[req'[v].key]
    BY Zenon DEF ReadsKnown
  <2>1. CASE v = u
    BY <1>1, <1>3, <2>1, Zenon
  <2>2. CASE v # u
    <3>1. req'[v] = req[v] /\ req[v].op = "get" /\ acked'[req[v].key] = acked[req[v].key]
      BY <1>0, <1>2, <2>2, Zenon
    <3> QED BY <1>1, <3>1, Zenon DEF Data, ReadsKnown
  <2> QED BY <2>1, <2>2, Zenon
<1> QED
  BY <1>1, <1>2, <1>3, <1>4, <1>5, <1>6, <1>7

\* A client that hears of its put reads it back, and knows what it reads (runClient).
LEMMA LoadHearsKeeps ==
  ASSUME Control, Control', Data, NEW u \in Loads, LoadHears(u)
  PROVE  Data'
<1>0. u \in Users /\ u # Job /\ Job \in Users /\ req[u].st \in {"done", "failed"}
  BY UsersAssumption, Zenon DEF Loads, LoadHears
<1>1. UNCHANGED <<log, torn, server, job, round, dirty>>
  BY Zenon DEF LoadHears, Learns
<1>2. req \in [Users -> Request]
  BY Zenon DEF Control, KvdOK, KvdType
<1>3. /\ \A v \in Users : v # u => req'[v] = req[v]
      /\ req'[u].op \in {"none", "get"} /\ req'[u].st \in {"none", "sent"}
      /\ req'[u].op = "none" <=> req'[u].st = "none"
      /\ req'[u].op = "get" => AckedNow(u) /\ req'[u].key = req[u].key
      /\ AckedNow(u) \/ UNCHANGED acked
      /\ wrong' # {} => dirty
  <2>1. CASE req[u].st = "done" /\ req[u].op = "put"
    <3>1. /\ req' = [req EXCEPT ![u] = [op |-> "get", key |-> req[u].key, value |-> 0, st |-> "sent"]]
          /\ acked' = [acked EXCEPT ![req[u].key] = req[u].value] /\ UNCHANGED wrong
      BY <2>1, Zenon DEF LoadHears
    <3> QED BY <1>0, <1>2, <2>1, <3>1, Zenon DEF AckedNow, Data, ReadsKnown
  <2>2. CASE ~(req[u].st = "done" /\ req[u].op = "put")
    <3>1. Learns(u)
      BY <2>2, Zenon DEF LoadHears
    <3>2. req' = [req EXCEPT ![u] = NoReq] /\ UNCHANGED acked
      BY <2>2, <3>1, Zenon DEF Learns
    <3>3. wrong' # {} => dirty
      BY <1>0, <3>1, Zenon DEF Learns, Data, ReadsKnown
    <3> QED BY <1>0, <1>2, <3>2, <3>3, Zenon DEF NoReq
  <2> QED BY <2>1, <2>2, Zenon
<1>4. At("done")' <=> At("done")
  BY <1>1, ZenonT(40) DEF At
<1>5. /\ RequestsSound' /\ LogWhole' /\ AckedBounds' /\ DataServed' /\ ReadsKnown'
      /\ Replayed' = Replayed
      /\ AckedNow(u) => \A k \in Keys : acked'[k] = IF k = req[u].key THEN req[u].value ELSE acked[k]
  BY <1>0, <1>1, <1>3, <1>4, HearsKeeps, SMTT(30)
<1>6. JobInOrder'
  <2>1. \A m \in 1..MaxOps : KeyOf(Job, m) \in Keys /\ KeyOf(Job, m) # req[u].key
    BY <1>0, OthersKeys, UsersAssumption, Zenon
  <2>2. \A m \in 1..MaxOps : acked'[KeyOf(Job, m)] = acked[KeyOf(Job, m)]
    BY <1>3, <1>5, <2>1, Zenon
  <2> QED BY <1>0, <1>1, <1>3, <1>5, <2>2 DEF Data, JobInOrder
<1> QED
  BY <1>5, <1>6, Zenon DEF Data

\* The job that hears of its put goes on to the next key (writeKeys, verifyKeys).
LEMMA JobHearsKeeps ==
  ASSUME Control, Control', Data, JobHears
  PROVE  Data'
<1>0. Job \in Users /\ req[Job].st \in {"done", "failed"} /\ Learns(Job)
  BY UsersAssumption, Zenon DEF JobHears
<1>1. UNCHANGED <<log, torn, server, round, dirty>>
  BY Zenon DEF JobHears, Learns
<1>2. /\ req \in [Users -> Request] /\ job \in JobState /\ job.n \in 1..MaxOps
  BY Zenon DEF Control, TypeOK, KvdOK, KvdType
<1>3. /\ job.pc \in {"write", "verify"} /\ req[Job].key = KeyOf(Job, job.n)
      /\ req[Job].op \in {"put", "error"} <=> job.pc = "write"
  BY <1>0, Zenon DEF Data, JobInOrder
<1>4. /\ \A v \in Users : v # Job => req'[v] = req[v]
      /\ req'[Job].op = "none" /\ req'[Job].st = "none"
  BY <1>0, <1>2, Zenon DEF Learns, NoReq
<1>5. AckedNow(Job) \/ UNCHANGED acked
  BY <1>0, Zenon DEF Learns, AckedNow
<1>6. req[Job].st = "done" /\ req[Job].op = "put" => AckedNow(Job)
  BY <1>0, Zenon DEF Learns, AckedNow
<1>7. wrong' # {} => dirty
  BY <1>0, Zenon DEF Learns, Data, ReadsKnown
<1>8. /\ job'.pc \in {job.pc, "stop", "fault"}
      /\ job'.pc = job.pc => job'.n = job.n + 1 /\ req[Job].st = "done"
      /\ job'.pc = "fault" => job.pc = "write" /\ job.n = MaxOps /\ req[Job].st = "done"
  <2>1. CASE req[Job].st = "failed"
    BY <1>2, <1>3, <2>1, Zenon DEF JobHears, GivesUp, JobState
  <2>2. CASE req[Job].st = "done" /\ job.n < MaxOps
    BY <1>2, <1>3, <2>2, Zenon DEF JobHears, JobState
  <2>3. CASE req[Job].st = "done" /\ ~(job.n < MaxOps)
    <3>1. Goes(IF At("verify") THEN "stop" ELSE "fault") /\ job.n = MaxOps
      BY <1>2, <2>3, BoundsAssumption DEF JobHears
    <3>2. job'.pc = IF job.pc = "verify" THEN "stop" ELSE "fault"
      BY <1>2, <3>1, Zenon DEF Goes, At, JobState
    <3> QED BY <1>3, <2>3, <3>1, <3>2, Zenon
  <2> QED BY <1>0, <2>1, <2>2, <2>3, Zenon
<1>9. ~At("done") /\ ~At("done")'
  BY <1>3, <1>8, Zenon DEF At
<1>10. /\ RequestsSound' /\ LogWhole' /\ AckedBounds' /\ DataServed' /\ ReadsKnown'
       /\ Replayed' = Replayed
       /\ AckedNow(Job) => \A k \in Keys : acked'[k] = IF k = req[Job].key THEN req[Job].value ELSE acked[k]
       /\ AckedNow(Job) => acked'[req[Job].key] = Replayed[req[Job].key]
  BY <1>0, <1>1, <1>4, <1>5, <1>7, <1>9, HearsKeeps, Zenon
<1>11. JobInOrder'
  <2>1. \A m \in 1..MaxOps : KeyOf(Job, m) \in Keys
    BY UsersAssumption, Zenon
  <2>2. \A m \in 1..MaxOps : acked[KeyOf(Job, m)] = Replayed[KeyOf(Job, m)] =>
                               acked'[KeyOf(Job, m)] = Replayed'[KeyOf(Job, m)]
    BY <1>5, <1>10, <2>1, Zenon
  <2>3. job.pc = "write" /\ req[Job].st = "done" =>
          \A m \in 1..MaxOps : m <= job.n => acked'[KeyOf(Job, m)] = Replayed'[KeyOf(Job, m)]
    <3> SUFFICES ASSUME job.pc = "write", req[Job].st = "done", NEW m \in 1..MaxOps, m <= job.n
                 PROVE  acked'[KeyOf(Job, m)] = Replayed'[KeyOf(Job, m)]
      BY Zenon
    <3>1. AckedNow(Job)
      BY <1>0, <1>3, <1>6, Zenon DEF Data, RequestsSound
    <3>2. CASE m = job.n
      BY <1>3, <1>10, <3>1, <3>2, Zenon
    <3>3. CASE m < job.n
      BY <2>2, <3>3, Zenon DEF Data, JobInOrder
    <3> QED BY <1>2, <3>2, <3>3
  <2>4. job'.pc = "write" => \A m \in 1..MaxOps : m < job'.n => acked'[KeyOf(Job, m)] = Replayed'[KeyOf(Job, m)]
    BY <1>2, <1>8, <2>3
  <2>5. job'.pc \in AfterWrites => \A m \in 1..MaxOps : acked'[KeyOf(Job, m)] = Replayed'[KeyOf(Job, m)]
    <3>1. CASE job'.pc = "fault"
      BY <1>8, <2>3, <3>1, BoundsAssumption
    <3>2. CASE job'.pc = "verify"
      BY <1>3, <1>8, <2>2, <3>2, Zenon DEF Data, JobInOrder, AfterWrites
    <3> QED BY <1>3, <1>8, <3>1, <3>2, Zenon DEF AfterWrites
  <2> QED BY <1>4, <2>4, <2>5, Zenon DEF JobInOrder
<1> QED
  BY <1>10, <1>11, Zenon DEF Data

\* The teardown removes the directory when no request of the job is left (CleanNode).
LEMMA CleanKeeps ==
  ASSUME Control, Control', Data, CleanNode
  PROVE  Data'
<1>1. /\ UNCHANGED <<server, req, round, acked, wrong>> /\ job.pc = "clean"
      /\ (log' = <<>> /\ torn' = FALSE) \/ UNCHANGED <<log, torn>>
      /\ dirty => dirty'
  BY DEF CleanNode, At
<1>2. job'.pc = "done"
  BY Zenon DEF CleanNode, Goes, Control, TypeOK, JobState
<1>3. LogWhole'
  BY <1>1 DEF Data, LogWhole, Opened
<1>4. RequestsSound' /\ AckedBounds'
  BY <1>1, Zenon DEF Data, RequestsSound, AckedBounds
<1>5. DataServed'
  BY <1>2, SMTT(30) DEF DataServed, At
<1>6. ReadsKnown'
  BY <1>1, <1>2, Zenon DEF Data, ReadsKnown, At
<1>7. JobInOrder'
  BY <1>1, <1>2, SMTT(30) DEF Control, JobAtWork, JobInOrder, AfterWrites
<1> QED
  BY <1>3, <1>4, <1>5, <1>6, <1>7, Zenon DEF Data

\* What the job does between its requests keeps what is known of the data.
LEMMA JobStillKeeps ==
  ASSUME Control, Control', Data, KvdQuiet, UNCHANGED <<round, acked, wrong>>, dirty => dirty',
         job.pc \notin {"write", "verify", "done"}, job'.pc # "done",
         job'.pc = "write" => job'.n = 1, job'.pc \in AfterWrites => job.pc \in AfterWrites
  PROVE  Data'
<1>1. req[Job].st = "none"
  BY Zenon DEF Control, JobAtWork
<1> QED
  BY <1>1, QuietKeeps, Zenon DEF JobQuiet

\* So does every step of the job (durabilityJob.Run, gracefulJob.Run, the service).
LEMMA JobStepKeeps ==
  ASSUME Control, Control', Data, JobStep
  PROVE  Data'
<1>0. TypeOK
  BY Zenon DEF Control
<1>1. CASE Start
  <2>1. KvdQuiet
    <3>1. CASE StartNode(FALSE)
      <4>1. PICK i : server' = [server EXCEPT ![i].pc = "starting"] /\ UNCHANGED <<log, torn, req>>
        BY <3>1, Zenon DEF StartNode, LaunchLocked, Launched
      <4>2. \A j \in Servers : Opened(j)' => Opened(j) /\ server'[j].data = server[j].data
        BY <4>1 DEF Opened, Control, KvdOK, KvdType, Process
      <4> QED BY <4>1, <4>2, Zenon DEF KvdQuiet, Data, RequestsSound, LogWhole
    <3>2. CASE StartNode(TRUE)
      BY <3>2, SignalQuiet, Zenon DEF StartNode, Signalled
    <3> QED BY <1>1, <3>1, <3>2, Zenon DEF Start
  <2>2. job.pc = "start" /\ job'.pc \in {"wait", "stop"}
    BY <1>0, <1>1, GoesEffect, GivesUpEffect, Zenon DEF Start, At, JobPCs
  <2> QED BY <1>1, <2>1, <2>2, JobStillKeeps, Zenon DEF Start, AfterWrites
<1>2. ASSUME NEW at \in {"wait", "rewait"}, NEW next \in {"write", "verify"},
             at = "wait" <=> next = "write", Wait(at, next)
      PROVE  Data'
  <2>1. job.pc = at /\ job'.pc \in {next, "stop"} /\ (job'.pc = next => job'.n = 1)
    BY <1>0, <1>2, GoesEffect, GivesUpEffect, Zenon DEF Wait, At, JobPCs
  <2>2. KvdQuiet
    BY <1>2, SignalQuiet, Zenon DEF Wait, Signalled
  <2> QED BY <1>2, <2>1, <2>2, JobStillKeeps, Zenon DEF Wait, AfterWrites
<1>3. CASE Fault
  <2>0. svc.proc \in Servers /\ job.pc = "fault"
    BY <1>3, Zenon DEF Fault, At, Control, ProcsKnown, TypeOK, Service
  <2>1. CASE \E err \in BOOLEAN : Crash(err) /\ (Goes("restart") \/ GivesUp)
    <3>1. KvdQuiet
      BY <2>0, <2>1, SignalQuiet, Zenon DEF Crash, Close, Signalled
    <3>2. job'.pc \in {"restart", "stop"}
      BY <1>0, <2>1, GoesEffect, GivesUpEffect, Zenon DEF JobPCs
    <3> QED BY <1>3, <2>0, <3>1, <3>2, JobStillKeeps, Zenon DEF Fault, AfterWrites
  <2>2. CASE StopSignal(svc.proc, "shutdown")
    <3>1. KvdQuiet
      BY <2>0, <2>2, SignalQuiet, Zenon DEF StopSignal, Signalled
    <3>2. job'.pc = "shutdown"
      BY <2>0, <2>2, SignalEffect, Zenon DEF JobPCs, Control
    <3> QED BY <1>3, <2>0, <3>1, <3>2, JobStillKeeps, Zenon DEF Fault, AfterWrites
  <2> QED BY <1>3, <2>1, <2>2, Zenon DEF Fault
<1>4. CASE Shutdown
  <2>0. svc.proc \in Servers /\ job.pc = "shutdown"
    BY <1>4, Zenon DEF Shutdown, At, Control, ProcsKnown, TypeOK, Service
  <2>1. PICK result \in {"code", "timeout", "error"} : ShutdownEnds(result)
    BY <1>4, Zenon DEF Shutdown
  <2>2. KvdQuiet
    BY <2>0, <2>1, SignalQuiet, Zenon DEF ShutdownEnds, StopEnds, Close, Signalled
  <2>3. job'.pc \in {"restart", "stop"}
    BY <1>0, <2>1, GoesEffect, GivesUpEffect, Zenon DEF ShutdownEnds, JobPCs
  <2> QED BY <1>4, <2>0, <2>2, <2>3, JobStillKeeps, Zenon DEF Shutdown, AfterWrites
<1>5. CASE RestartJob
  <2>1. KvdQuiet
    <3>1. CASE Restart(FALSE)
      <4>1. PICK i : server' = [server EXCEPT ![i].pc = "starting"] /\ UNCHANGED <<log, torn, req>>
        BY <3>1, Zenon DEF Restart, LaunchLocked, Launched
      <4>2. \A j \in Servers : Opened(j)' => Opened(j) /\ server'[j].data = server[j].data
        BY <4>1, ZenonT(40) DEF Opened, Control, KvdOK, KvdType, Process
      <4> QED BY <4>1, <4>2, Zenon DEF KvdQuiet, Data, RequestsSound, LogWhole
    <3>2. CASE Restart(TRUE)
      BY <3>2, SignalQuiet, Zenon DEF Restart, LaunchLocked, Signalled
    <3> QED BY <1>5, <3>1, <3>2, Zenon DEF RestartJob
  <2>2. job.pc = "restart" /\ job'.pc \in {"rewait", "stop"}
    BY <1>0, <1>5, GoesEffect, GivesUpEffect, Zenon DEF RestartJob, At, JobPCs
  <2> QED BY <1>5, <2>1, <2>2, JobStillKeeps, Zenon DEF RestartJob, AfterWrites
<1>6. CASE StopNode
  <2>1. job.pc = "stop" /\ job'.pc \in {"clean", "signal"}
    BY <1>0, <1>6, Zenon DEF StopNode, At, TypeOK, JobState
  <2>2. KvdQuiet
    BY <1>6, SignalQuiet, Zenon DEF StopNode, Signalled
  <2> QED BY <1>6, <2>1, <2>2, JobStillKeeps, Zenon DEF StopNode, AfterWrites
<1>7. CASE StopNodeSignals
  <2>0. job.proc \in Servers /\ job.pc = "signal"
    BY <1>7, Zenon DEF StopNodeSignals, At, Control, ProcsKnown, TypeOK, JobState
  <2>1. KvdQuiet
    BY <1>7, <2>0, SignalQuiet, Zenon DEF StopNodeSignals, StopSignal, Signalled
  <2>2. job'.pc = "stopping"
    BY <1>7, <2>0, SignalEffect, Zenon DEF StopNodeSignals, JobPCs, Control
  <2> QED BY <1>7, <2>0, <2>1, <2>2, JobStillKeeps, Zenon DEF StopNodeSignals, AfterWrites
<1>8. CASE StopNodeEnds
  <2>0. job.proc \in Servers /\ job.pc = "stopping" /\ ~dirty
    BY <1>8, Zenon DEF StopNodeEnds, At, Control, ProcsKnown, TypeOK, JobState
  <2>1. KvdQuiet
    BY <1>8, <2>0, SignalQuiet, Zenon DEF StopNodeEnds, StopEnds, Close, Signalled
  <2>2. job'.pc = "clean"
    BY <1>0, <1>8, GoesEffect, Zenon DEF StopNodeEnds, JobPCs
  <2> QED BY <1>8, <2>0, <2>1, <2>2, JobStillKeeps, Zenon DEF StopNodeEnds, AfterWrites
<1> QED
  BY <1>1, <1>2, <1>3, <1>4, <1>5, <1>6, <1>7, <1>8, JobSendsKeeps, JobHearsKeeps, CleanKeeps DEF JobStep

-----------------------------------------------------------------------------
(* Where a write that fails leaves nothing behind.                          *)

\* Initially nothing is written (Init).
LEMMA InitData == Init => Data
<1> SUFFICES ASSUME Init PROVE Data
  BY Zenon
<1>1. Control
  BY InitControl, Zenon
<1>2. /\ log = <<>> /\ torn = FALSE /\ job.pc = "start" /\ wrong = {}
      /\ \A i \in Servers : server[i].pc = "unborn"
      /\ \A u \in Users : req[u] = NoReq
      /\ \A k \in Keys : acked[k] = 0
      /\ \A u \in Loads : round[u] = 0
  BY DEF Init, KvdInit, Unborn
<1>3. Replayed \in [Keys -> Nat]
  BY <1>1, ReplayedType, ZenonT(40) DEF Control, KvdOK, KvdType
<1>4. RequestsSound /\ LogWhole
  BY <1>2, SMTT(30) DEF RequestsSound, LogWhole, NoReq, Opened
<1>5. AckedBounds
  BY <1>2, UsersAssumption, SMTT(30) DEF AckedBounds, NoReq, Loads
<1>6. DataServed
  BY <1>2, <1>3, SMTT(30) DEF DataServed, NoReq, Opened
<1>7. ReadsKnown /\ JobInOrder
  BY <1>2, UsersAssumption DEF ReadsKnown, JobInOrder, NoReq, AfterWrites
<1> QED
  BY <1>4, <1>5, <1>6, <1>7, Zenon DEF Data

\* Every step keeps what is known of the data.
LEMMA NextData ==
  ASSUME ~HalfWrites
  PROVE  Control /\ Control' /\ Data /\ [Next]_vars => Data'
<1> SUFFICES ASSUME Control, Control', Data, [Next]_vars PROVE Data'
  BY Zenon
<1>1. CASE UNCHANGED vars
  <2>1. KvdQuiet
    BY <1>1, SignalQuiet, Zenon DEF vars, Signalled
  <2>2. JobQuiet
    BY <1>1, Zenon DEF vars, suiteVars, JobQuiet
  <2> QED BY <2>1, <2>2, QuietKeeps, Zenon
<1> QED
  BY <1>1, JobStepKeeps, KvdStepKeeps, LoadSendsKeeps, LoadHearsKeeps, Zenon DEF Next

\* That is so in every reachable state.
THEOREM DataInvariance ==
  ASSUME ~HalfWrites
  PROVE  Spec => [](Control /\ Data)
<1>1. Init => Control /\ Data
  BY InitControl, InitData, Zenon
<1>2. (Control /\ Data) /\ [Next]_vars => (Control /\ Data)'
  BY NextControl, NextData, Zenon
<1> QED
  BY <1>1, <1>2, PTL DEF Spec

\* The log replays, with every acknowledged write, whenever kvd was killed or
\* stopped (replay, Put): for any users, keys and writes, if a write that fails
\* leaves nothing behind.
THEOREM LogIsKept ==
  ASSUME ~HalfWrites
  PROVE  Spec => []LogServes
<1>1. Control /\ Data => LogServes
  <2> SUFFICES ASSUME Data PROVE LogServes
    BY Zenon
  <2>1. ~Spoilt
    BY UsersAssumption DEF Data, LogWhole, Spoilt
  <2> QED BY <2>1, Zenon DEF Data, DataServed, LogServes
<1> QED
  BY <1>1, DataInvariance, PTL

\* No user reads anything but its last acknowledged write (runClient, verifyKeys),
\* under the same condition.
THEOREM ReadsAreTrue ==
  ASSUME ~HalfWrites
  PROVE  Spec => []ReadBack
<1>1. Control /\ Data => ReadBack
  BY Zenon DEF Data, ReadsKnown, ReadBack
<1> QED
  BY <1>1, DataInvariance, PTL

=============================================================================

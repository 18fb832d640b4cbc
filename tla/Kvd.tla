-------------------------------- MODULE Kvd ---------------------------------
(***************************************************************************)
(* The tutorial's key-value server (examples/tutorial/kvd): the log it      *)
(* replays and appends to, its requests, and its graceful stop.             *)
(*                                                                         *)
(* kvd processes are numbered in the order they were launched, on one data  *)
(* directory and one port.  net/http is external: it moves a connection     *)
(* from new to active to idle, and calls the ConnState hook after each      *)
(* move, so that connTracker may lag behind by one.  A put is one step      *)
(* under store.mu; what a kill leaves of a write in progress is part of the *)
(* kill.                                                                    *)
(***************************************************************************)
EXTENDS Naturals, Sequences

CONSTANTS
  Users,        \* who sends requests; each has one connection at most
  Keys,
  MaxLaunches,  \* bound: kvd processes
  HalfWrites    \* whether a write that fails may leave part of its line

VARIABLES
  log,          \* the complete lines of kv.log
  torn,         \* whether bytes without a newline follow them
  server,       \* the kvd processes
  conn,         \* each user's connection: its server, its state, the state
                \* connTracker has for it, and whether closeNew closed it
  req           \* the request each user has in progress, or its outcome

kvdVars == <<log, torn, server, conn, req>>

Servers == 1..MaxLaunches
Corrupt == [key |-> <<"corrupt", 0>>, value |-> 0]
NoConn == [by |-> 0, st |-> "none", hook |-> "none", shut |-> FALSE]
NoReq == [op |-> "none", key |-> <<"none", 0>>, value |-> 0, st |-> "none"]
Unborn == [pc |-> "unborn", data |-> [k \in Keys |-> 0], closed |-> FALSE, code |-> 0]

Live(i) == server[i].pc \in {"starting", "opened", "serving", "stopping"}
Serving == {i \in Servers : server[i].pc = "serving"}
On(i) == {u \in Users : conn[u].by = i}
InFlight(u) == conn[u].st = "active" /\ conn[u].hook = "active" /\ req[u].st \in {"read", "handled"}

KvdInit ==
  /\ log = <<>> /\ torn = FALSE
  /\ server = [i \in Servers |-> Unborn]
  /\ conn = [u \in Users |-> NoConn] /\ req = [u \in Users |-> NoReq]

-----------------------------------------------------------------------------
(* The log.                                                                 *)

\* The data replay leaves: for each key the value of its last line.
Latest(lines) == CHOOSE i \in lines : \A j \in lines : j <= i
Replayed ==
  [k \in Keys |-> LET at == {i \in DOMAIN log : log[i].key = k}
                  IN  IF at = {} THEN 0 ELSE log[Latest(at)].value]

\* A line of the log does not parse.
Spoilt == \E i \in DOMAIN log : log[i] = Corrupt

\* Faulty variant: the torn tail is left where it is.
ReplayLeavesTail(i) ==
  /\ ~Spoilt
  /\ server' = [server EXCEPT ![i].pc = "opened", ![i].data = Replayed]
  /\ UNCHANGED torn

\* replay: a torn tail is cut off, and a line that does not parse is an error.
Replay(i) ==
  /\ ~Spoilt
  /\ server' = [server EXCEPT ![i].pc = "opened", ![i].data = Replayed]
  /\ torn' = FALSE

\* A line appended to a torn tail makes one line with it.
Appended(e) == Append(log, IF torn THEN Corrupt ELSE e)

\* Faulty variant: the value goes to the map alone.
PutUnlogged(i, e) ==
  /\ server' = [server EXCEPT ![i].data[e.key] = e.value]
  /\ UNCHANGED <<log, torn>>

\* Put: the line goes to the log, then the value to the map.
Put(i, e) ==
  /\ log' = Appended(e) /\ torn' = FALSE
  /\ server' = [server EXCEPT ![i].data[e.key] = e.value]
PutFails == torn' \in {torn, torn \/ HalfWrites} /\ UNCHANGED <<log, server>>

-----------------------------------------------------------------------------
(* Processes.                                                               *)

\* A process that ends takes its connections along; their requests fail.
Ends(i, code) ==
  /\ server' = [server EXCEPT ![i].pc = "dead", ![i].code = code]
  /\ conn' = [u \in Users |-> IF conn[u].by = i THEN NoConn ELSE conn[u]]
  /\ req' = [u \in Users |-> IF conn[u].by = i /\ req[u].st \in {"sent", "read", "handled"}
                             THEN [req[u] EXCEPT !.st = "failed"] ELSE req[u]]

\* SIGKILL: a write in progress may be cut short.
Writing(i) == \E u \in On(i) : InFlight(u) /\ req[u].op = "put" /\ req[u].st = "read"
Killed(i) ==
  /\ Ends(i, 137)
  /\ torn' \in {torn} \cup (IF Writing(i) THEN {TRUE} ELSE {})
  /\ UNCHANGED log

Launched(i) == server[i].pc = "unborn" /\ server' = [server EXCEPT ![i].pc = "starting"]

OpenStore(i) ==
  /\ server[i].pc = "starting"
  /\ \/ Replay(i) /\ UNCHANGED <<log, conn, req>>
     \/ Spoilt /\ Ends(i, 1) /\ UNCHANGED <<log, torn>>

Listen(i) ==
  /\ server[i].pc = "opened"
  /\ IF Serving = {} THEN server' = [server EXCEPT ![i].pc = "serving"] /\ UNCHANGED <<conn, req>>
                     ELSE Ends(i, 1)
  /\ UNCHANGED <<log, torn>>

\* SIGTERM: Shutdown closes the listener; before serveMain asks for the signal
\* it ends the process.
Sigterm(i) ==
  CASE server[i].pc \in {"starting", "opened"} -> Ends(i, 143) /\ UNCHANGED <<log, torn>>
    [] server[i].pc = "serving" -> server' = [server EXCEPT ![i].pc = "stopping"] /\ UNCHANGED <<log, torn, conn, req>>
    [] OTHER -> UNCHANGED kvdVars

\* closeNew, in a goroutine of its own, goes by what connTracker has.
CloseNew(i) ==
  /\ server[i].pc = "stopping" /\ ~server[i].closed
  /\ server' = [server EXCEPT ![i].closed = TRUE]
  /\ conn' = [u \in Users |-> IF u \in On(i) /\ conn[u].hook = "new" THEN [conn[u] EXCEPT !.shut = TRUE] ELSE conn[u]]
  /\ UNCHANGED <<log, torn, req>>

\* Shutdown returns once no connection is left, or when shutdownTimeout runs out
\* over a request in flight or a connection that closeNew came too early for.
Missed(u) == conn[u].st = "new" /\ ~conn[u].shut /\ server[conn[u].by].closed
Stopped(i) ==
  /\ server[i].pc = "stopping" /\ On(i) = {}
  /\ Ends(i, 0) /\ UNCHANGED <<log, torn>>
TimesOut(i) ==
  /\ server[i].pc = "stopping"
  /\ \E u \in On(i) : conn[u].st = "active" \/ Missed(u)
  /\ Ends(i, 1) /\ UNCHANGED <<log, torn>>

-----------------------------------------------------------------------------
(* Connections and requests.                                                *)

Failed(u) == req' = [req EXCEPT ![u].st = "failed"]

\* http.Client: a request goes out on the connection there is, or on a new one.
Dial(u) ==
  /\ conn[u] = NoConn
  /\ \E i \in Serving : conn' = [conn EXCEPT ![u] = [NoConn EXCEPT !.by = i, !.st = "new"]]
  /\ UNCHANGED <<log, torn, server, req>>
Refused(u) ==
  /\ conn[u] = NoConn /\ Serving = {} /\ req[u].st = "sent" /\ Failed(u)
  /\ UNCHANGED <<log, torn, server, conn>>

\* onState
Hook(u) ==
  /\ conn[u].st # conn[u].hook
  /\ conn' = [conn EXCEPT ![u].hook = conn[u].st]
  /\ UNCHANGED <<log, torn, server, req>>

ReadRequest(u) ==
  /\ conn[u].st \in {"new", "idle"} /\ conn[u].hook = conn[u].st /\ ~conn[u].shut /\ req[u].st = "sent"
  /\ conn' = [conn EXCEPT ![u].st = "active"] /\ req' = [req EXCEPT ![u].st = "read"]
  /\ UNCHANGED <<log, torn, server>>

\* handler
Handle(u) ==
  /\ InFlight(u) /\ req[u].st = "read"
  /\ \/ /\ req[u].op = "put" /\ Put(conn[u].by, [key |-> req[u].key, value |-> req[u].value])
        /\ req' = [req EXCEPT ![u].st = "handled"]
     \/ /\ req[u].op = "put" /\ PutFails
        /\ req' = [req EXCEPT ![u].st = "handled", ![u].op = "error"]
     \/ /\ req[u].op = "get" /\ UNCHANGED <<log, torn, server>>
        /\ req' = [req EXCEPT ![u].st = "handled", ![u].value = server[conn[u].by].data[req[u].key]]
  /\ UNCHANGED conn

\* The answer goes out, and the connection is kept unless the server is stopping.
Answer(u) ==
  /\ InFlight(u) /\ req[u].st = "handled"
  /\ IF conn[u].shut \/ req[u].op = "error" THEN Failed(u) ELSE req' = [req EXCEPT ![u].st = "done"]
  /\ conn' = [conn EXCEPT ![u] = IF @.shut \/ server[@.by].pc = "stopping" THEN NoConn ELSE [@ EXCEPT !.st = "idle"]]
  /\ UNCHANGED <<log, torn, server>>

\* The server drops a connection: one closed under it that it was to read from,
\* and when it stops an idle one, or one new for too long.
Dropped(u) ==
  /\ conn[u].by # 0
  /\ \/ conn[u].shut /\ conn[u].st # "active"
     \/ server[conn[u].by].pc = "stopping" /\ (conn[u].st = "idle" \/ Missed(u))
  /\ conn' = [conn EXCEPT ![u] = NoConn]
  /\ IF req[u].st = "sent" THEN Failed(u) ELSE UNCHANGED req
  /\ UNCHANGED <<log, torn, server>>

KvdStep ==
  \/ \E i \in Servers : OpenStore(i) \/ Listen(i) \/ CloseNew(i) \/ Stopped(i) \/ TimesOut(i)
  \/ \E u \in Users : Refused(u) \/ Hook(u) \/ ReadRequest(u) \/ Handle(u) \/ Answer(u) \/ Dropped(u)

=============================================================================

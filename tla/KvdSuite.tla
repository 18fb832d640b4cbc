------------------------------ MODULE KvdSuite ------------------------------
(***************************************************************************)
(* The tutorial's fault jobs around kvd (examples/tutorial/04-faults): the  *)
(* service that launches, crashes, stops and restarts it, the durability    *)
(* and the graceful job, their teardown, and the clients of a load          *)
(* generator beside them.                                                   *)
(*                                                                         *)
(* The job calls the service's methods one after another; each holds        *)
(* Service.mu while it runs, and the steps of a stop that wait for kvd are  *)
(* apart.                                                                   *)
(***************************************************************************)
EXTENDS Kvd

CONSTANTS
  MaxOps,       \* bound: the keys the job writes, and the rounds of a client
  MaxFails      \* bound: calls to the node that fail

VARIABLES
  svc,          \* Service.port, as whether it is leased, and Service.proc
  job,          \* [kind, pc, n, failed, proc, asked]: which job, where it is, the key
                \* it is at, whether it failed, the process StopNode has taken, and
                \* whether the process being stopped got its signal
  round,        \* the round each client of the load generator is in
  acked,        \* the last value acknowledged for each key
  wrong,        \* the users who read back something else than they wrote
  dirty,        \* the teardown returned an error
  fails

suiteVars == <<svc, job, round, acked, wrong, dirty, fails>>
vars == <<kvdVars, suiteVars>>

Job == "job"
Loads == Users \ {Job}
KeyOf(u, n) == IF u = Job THEN <<Job, n>> ELSE <<u, 0>>

ASSUME BoundsAssumption == MaxLaunches \in Nat /\ MaxOps \in Nat \ {0} /\ MaxFails \in Nat
ASSUME UsersAssumption ==
  /\ Job \in Users /\ HalfWrites \in BOOLEAN
  /\ \A n \in 1..MaxOps : KeyOf(Job, n) \in Keys
  /\ \A u \in Loads : KeyOf(u, 0) \in Keys
  /\ Corrupt.key \notin Keys

Init ==
  /\ KvdInit
  /\ svc = [port |-> FALSE, proc |-> 0]
  /\ \E k \in {"durability", "graceful"} : job = [kind |-> k, pc |-> "start", n |-> 1, failed |-> FALSE, proc |-> 0, asked |-> FALSE]
  /\ round = [u \in Loads |-> 0] /\ acked = [k \in Keys |-> 0]
  /\ wrong = {} /\ dirty = FALSE /\ fails = MaxFails

Works == UNCHANGED fails
Fails == fails > 0 /\ fails' = fails - 1

At(pc) == job.pc = pc
Goes(pc) == job' = [job EXCEPT !.pc = pc, !.n = 1]
GivesUp == job' = [job EXCEPT !.pc = "stop", !.failed = TRUE]

-----------------------------------------------------------------------------
(* Service                                                                  *)

\* launchLocked
LaunchLocked(err) ==
  IF err
  THEN (IF svc.proc # 0 THEN Works ELSE Fails) /\ UNCHANGED <<svc, kvdVars>>
  ELSE /\ svc.proc = 0 /\ Works
       /\ \E i \in Servers : /\ \A j \in 1..(i - 1) : server[j].pc # "unborn"
                             /\ Launched(i) /\ svc' = [port |-> TRUE, proc |-> i]
       /\ UNCHANGED <<log, torn, conn, req>>

\* StartNode: the preflight, a port, and the launch, which may each fail.
StartNode(err) ==
  IF err
  THEN /\ Fails /\ UNCHANGED kvdVars
       /\ \E leased \in BOOLEAN : svc' = [svc EXCEPT !.port = leased]
  ELSE LaunchLocked(FALSE)

\* Restart
Restart(err) ==
  \/ err /\ ~svc.port /\ Works /\ UNCHANGED <<svc, kvdVars>>
  \/ svc.port /\ LaunchLocked(err)

\* Process.Close: kills what is left of the process, or fails.
Close(i, err) ==
  IF err THEN Live(i) /\ Fails /\ UNCHANGED kvdVars
         ELSE Works /\ IF Live(i) THEN Killed(i) ELSE UNCHANGED kvdVars

\* Crash
Crash(err) ==
  /\ svc.proc # 0 /\ Close(svc.proc, err)
  /\ svc' = IF err THEN svc ELSE [svc EXCEPT !.proc = 0]

\* torx.Stop, in two steps: the signal, which may fail, and how it comes out: the
\* exit status, or, once the process is closed, a grace period that ran out or an
\* error.  When the close fails the process lives on.
StopSignal(i, next) ==
  \E signaled \in BOOLEAN :
    /\ IF signaled THEN Works /\ Sigterm(i) ELSE Fails /\ UNCHANGED kvdVars
    /\ job' = [job EXCEPT !.pc = next, !.n = 1, !.asked = signaled]

StopEnds(i, result) ==
  \/ ~Live(i) /\ result = "code" /\ Works /\ UNCHANGED kvdVars
  \/ Live(i) /\ result = (IF job.asked THEN "timeout" ELSE "error") /\ Close(i, FALSE)
  \/ Live(i) /\ result = "error" /\ Fails /\ Killed(i)        \* the transport lost it
  \/ Live(i) /\ result = "error" /\ Close(i, TRUE)

\* Shutdown, once the process has been signalled.
ShutdownEnds(result) ==
  /\ StopEnds(svc.proc, result)
  /\ svc' = IF result = "error" THEN svc ELSE [svc EXCEPT !.proc = 0]
  /\ IF result = "code" /\ server[svc.proc].code = 0 THEN Goes("restart") ELSE GivesUp

-----------------------------------------------------------------------------
(* The jobs: Start and Wait by the framework, writeKeys, the fault, Restart, *)
(* Wait, verifyKeys.                                                         *)
Start ==
  /\ At("start")
  /\ \/ StartNode(FALSE) /\ Goes("wait")
     \/ StartNode(TRUE) /\ GivesUp
  /\ UNCHANGED <<round, acked, wrong, dirty>>

\* WaitNode: kvd answers, or it does not and readyTimeout runs out.
Wait(at, next) ==
  /\ At(at)
  /\ IF Serving # {} THEN Goes(next) ELSE GivesUp
  /\ UNCHANGED <<kvdVars, svc, round, acked, wrong, dirty, fails>>

Send(u, op, key, value) ==
  /\ req[u].st = "none"
  /\ req' = [req EXCEPT ![u] = [op |-> op, key |-> key, value |-> value, st |-> "sent"]]
  /\ UNCHANGED <<log, torn, server, conn>>

\* What a user knows once its request has come back.
Learns(u) ==
  /\ req' = [req EXCEPT ![u] = NoReq]
  /\ acked' = IF req[u].st = "done" /\ req[u].op = "put" THEN [acked EXCEPT ![req[u].key] = req[u].value] ELSE acked
  /\ wrong' = IF req[u].st = "done" /\ req[u].op = "get" /\ req[u].value # acked[req[u].key]
              THEN wrong \cup {u} ELSE wrong
  /\ UNCHANGED <<log, torn, server, conn, svc, dirty, fails>>

JobSends ==
  /\ \/ At("write") /\ Send(Job, "put", KeyOf(Job, job.n), 1)
     \/ At("verify") /\ Send(Job, "get", KeyOf(Job, job.n), 0)
  /\ UNCHANGED suiteVars
JobHears ==
  /\ req[Job].st \in {"done", "failed"} /\ Learns(Job) /\ UNCHANGED round
  /\ CASE req[Job].st = "failed" -> GivesUp
       [] req[Job].st = "done" /\ job.n < MaxOps -> job' = [job EXCEPT !.n = @ + 1]
       [] OTHER -> Goes(IF At("verify") THEN "stop" ELSE "fault")

Fault ==
  /\ At("fault")
  /\ IF job.kind = "durability"
     THEN \/ Crash(FALSE) /\ Goes("restart")
          \/ Crash(TRUE) /\ GivesUp
     ELSE StopSignal(svc.proc, "shutdown") /\ UNCHANGED svc
  /\ UNCHANGED <<round, acked, wrong, dirty>>
Shutdown ==
  /\ At("shutdown")
  /\ \E result \in {"code", "timeout", "error"} : ShutdownEnds(result)
  /\ UNCHANGED <<round, acked, wrong, dirty>>
RestartJob ==
  /\ At("restart")
  /\ \/ Restart(FALSE) /\ Goes("rewait")
     \/ Restart(TRUE) /\ GivesUp
  /\ UNCHANGED <<round, acked, wrong, dirty>>

-----------------------------------------------------------------------------
(* The teardown: StopNode, which takes port and process off the service and  *)
(* stops the process without the lock, then CleanNode.                       *)
StopNode ==
  /\ At("stop")
  /\ job' = [job EXCEPT !.pc = IF svc.proc = 0 THEN "clean" ELSE "signal", !.proc = svc.proc]
  /\ svc' = [port |-> FALSE, proc |-> 0]
  /\ UNCHANGED <<kvdVars, round, acked, wrong, dirty, fails>>
StopNodeSignals ==
  /\ At("signal") /\ StopSignal(job.proc, "stopping")
  /\ UNCHANGED <<svc, round, acked, wrong, dirty>>

\* Faulty variant: an error is only logged.
StopNodeEndsLogged ==
  /\ At("stopping") /\ Goes("clean")
  /\ \E result \in {"code", "timeout", "error"} : StopEnds(job.proc, result)
  /\ UNCHANGED <<svc, dirty, round, acked, wrong>>

StopNodeEnds ==
  /\ At("stopping") /\ Goes("clean")
  /\ \E result \in {"code", "timeout", "error"} :
       StopEnds(job.proc, result) /\ dirty' = (result = "error")
  /\ UNCHANGED <<svc, round, acked, wrong>>

CleanNode ==
  /\ At("clean") /\ Goes("done")
  /\ \/ Works /\ log' = <<>> /\ torn' = FALSE /\ UNCHANGED dirty
     \/ Fails /\ dirty' = TRUE /\ UNCHANGED <<log, torn>>
  /\ UNCHANGED <<server, conn, req, svc, round, acked, wrong>>

-----------------------------------------------------------------------------
(* runClient: a value written and read back, round after round.  A user's    *)
(* connection may also be made ahead of its request.                         *)
LoadSends(u) ==
  /\ round[u] < MaxOps /\ svc.port
  /\ Send(u, "put", KeyOf(u, 0), round[u] + 1)
  /\ round' = [round EXCEPT ![u] = @ + 1] /\ UNCHANGED <<svc, job, acked, wrong, dirty, fails>>
LoadHears(u) ==
  /\ req[u].st \in {"done", "failed"} /\ UNCHANGED <<job, round>>
  /\ IF req[u].st = "done" /\ req[u].op = "put"
     THEN /\ req' = [req EXCEPT ![u] = [op |-> "get", key |-> @.key, value |-> 0, st |-> "sent"]]
          /\ acked' = [acked EXCEPT ![req[u].key] = req[u].value]
          /\ UNCHANGED <<log, torn, server, conn, svc, wrong, dirty, fails>>
     ELSE Learns(u)

JobStep ==
  \/ Start \/ Wait("wait", "write") \/ JobSends \/ JobHears \/ Fault \/ Shutdown \/ RestartJob
  \/ Wait("rewait", "verify") \/ StopNode \/ StopNodeSignals \/ StopNodeEnds \/ CleanNode

Next ==
  \/ JobStep
  \/ KvdStep /\ UNCHANGED suiteVars
  \/ \E u \in Users : Dial(u) /\ UNCHANGED suiteVars
  \/ \E u \in Loads : LoadSends(u) \/ LoadHears(u)

\* A job's goroutine and the handlers of a server that is up keep running; a
\* request is dialled for.
Spec ==
  /\ Init /\ [][Next]_vars
  /\ WF_vars(JobStep)
  /\ WF_vars(KvdStep /\ UNCHANGED suiteVars)
  /\ WF_vars(req[Job].st = "sent" /\ Dial(Job) /\ UNCHANGED suiteVars)

-----------------------------------------------------------------------------
\* While the data directory stands, its log replays, and with every write that
\* was acknowledged: a kill in the middle of a write, and the restart after it,
\* lose and spoil nothing (replay, Put).
LogServes ==
  ~At("done") => ~Spoilt /\ \A k \in Keys : acked[k] <= Replayed[k]

\* No user reads back anything but what it wrote last, before a crash or after
\* the restart: what runClient and verifyKeys hold kvd to.  (After a failed stop
\* the data directory is removed under a kvd that may be alive.)
ReadBack == dirty \/ wrong = {}

\* The service never has a kvd beside another on its data directory, and leaves
\* none behind a teardown without an error: a failed kill keeps the process,
\* Restart refuses, and StopNode reports it (Crash, Shutdown, launchLocked).
OneKvd ==
  /\ \A i, j \in Servers : Live(i) /\ Live(j) => i = j
  /\ At("done") /\ ~dirty => \A i \in Servers : ~Live(i)

\* kvd "exits 0 on SIGTERM once the requests in flight have finished, closing the
\* connections that carried none": a request kvd has begun to handle fails only
\* with a process that was killed or ran out of shutdownTimeout.
InFlightAnswered ==
  [][\A u \in Users : InFlight(u) /\ req[u].op # "error" /\ req'[u].st = "failed" =>
       LET i == conn[u].by IN server'[i].pc = "dead" /\ server'[i].code # 0]_vars

=============================================================================

----------------------------- MODULE ProcStream -----------------------------
(***************************************************************************)
(* A command a LocalBackend streams (localbackend.go) and the goroutines   *)
(* that share its handle: a graceful Stop (process.go), waits, closes and  *)
(* the watcher of the context that started it.                             *)
(*                                                                         *)
(* The command leads a process group that may hold a child.  It is reaped  *)
(* lazily: an exited leader stays a zombie, which pins its pid and its     *)
(* group id, until a Wait or a teardown starts the reaper.                 *)
(*                                                                         *)
(* With Lossy the handle is any other backend's: a wait may lose track of  *)
(* the command, and a close may fail to kill it.                           *)
(***************************************************************************)
EXTENDS Naturals, FiniteSets

CONSTANTS Stopper, Waiter, Closer,  \* goroutines that call Stop, Wait, Close
          Lossy,                    \* a transport that can fail
          Dump                      \* the stop policy has a dump signal

Watch == "watcher"
Proc == Stopper \cup Waiter \cup Closer \cup {Watch}

VARIABLES leader,     \* "none", "running", "zombie" or "reaped"
          how,        \* how it ended: "none", "exit" or "killed"
          child,      \* a process the leader left in its group is alive
          reused,     \* the group id, freed, now names another group
          strayed,    \* a group kill hit that other group
          cancelled,  \* the context that started the stream is done
          watch,      \* its AfterFunc: "unset", "armed", "stopped" or "fired"
          reaper,     \* "none", "waiting" or "done": done is closed
          once,       \* closeOnce: "new", "running" or "done"
          closeErr,   \* teardown failed to kill the command
          pc, ret,    \* where each goroutine is, and what its call returned
          sig,        \* Stop's sigErr: "none", "sent" or "failed"
          waited,     \* how Stop's wait ended: "none", "exit", "caller", "grace", "lost"
          copy,       \* the copy of the input: "busy" or "ended"
          stdin       \* the write end of the input pipe is open

vars == <<leader, how, child, reused, strayed, cancelled, watch, reaper, once, closeErr,
          pc, ret, sig, waited, copy, stdin>>
os == <<leader, how, child, reused, strayed>>
handle == <<watch, reaper, once, closeErr, copy, stdin>>
stop == <<sig, waited>>

Goto(p, l) == pc' = [pc EXCEPT ![p] = l]
Return(p, r) == Goto(p, "returned") /\ ret' = [ret EXCEPT ![p] = r]

Init ==
  /\ leader = "none" /\ how = "none" /\ child = FALSE /\ reused = FALSE /\ strayed = FALSE
  /\ cancelled = FALSE /\ watch = "unset" /\ reaper = "none" /\ once = "new" /\ closeErr = FALSE
  /\ pc = [p \in Proc |-> "idle"] /\ ret = [p \in Proc |-> "none"]
  /\ sig = "none" /\ waited = "none" /\ copy = "ended" /\ stdin = FALSE

-----------------------------------------------------------------------------
(* The processes and the context.                                          *)

\* Stream: a context already done starts nothing.
Stream ==
  /\ leader = "none" /\ ~cancelled
  /\ leader' = "running"
  /\ \E in \in BOOLEAN : stdin' = in /\ copy' = IF in THEN "busy" ELSE "ended"
  /\ UNCHANGED <<how, child, reused, strayed, cancelled, watch, reaper, once, closeErr, pc, ret>>
  /\ UNCHANGED stop

\* AfterFunc runs the teardown also for a context that is already done.
Arm ==
  /\ leader # "none" /\ watch = "unset" /\ watch' = "armed"
  /\ UNCHANGED <<os, cancelled, reaper, once, closeErr, pc, ret, stop, copy, stdin>>

Cancel ==
  /\ ~cancelled /\ cancelled' = TRUE
  /\ UNCHANGED <<os, handle, pc, ret, stop>>

Spawn ==
  /\ leader = "running" /\ ~child /\ child' = TRUE
  /\ UNCHANGED <<leader, how, reused, strayed, cancelled, handle, pc, ret, stop>>

Exit ==
  /\ leader = "running" /\ leader' = "zombie" /\ how' = "exit"
  /\ UNCHANGED <<child, reused, strayed, cancelled, handle, pc, ret, stop>>

ChildExit ==
  /\ child /\ child' = FALSE
  /\ UNCHANGED <<leader, how, reused, strayed, cancelled, handle, pc, ret, stop>>

\* The pid space wraps around: only a group with no process left, its leader
\* reaped, gives up its id.
Reuse ==
  /\ leader = "reaped" /\ ~child /\ ~reused /\ reused' = TRUE
  /\ UNCHANGED <<leader, how, child, strayed, cancelled, handle, pc, ret, stop>>

\* The copy of the input is done: the command read it all, nobody is left to
\* read it, or the pipe was closed under it.  A process that escaped the
\* group may hold the other end unread.
CopyEnds ==
  /\ copy = "busy" /\ copy' = "ended" /\ stdin' = FALSE
  /\ UNCHANGED <<os, cancelled, watch, reaper, once, closeErr, pc, ret, stop>>

-----------------------------------------------------------------------------
(* The reaper and the teardown.                                            *)

\* cmd.Wait returns in the goroutine reap started, and done is closed.
Reap ==
  /\ reaper = "waiting" /\ leader = "zombie"
  /\ leader' = "reaped" /\ reaper' = "done"
  /\ UNCHANGED <<how, child, reused, strayed, cancelled, watch, once, closeErr, pc, ret, stop,
                 copy, stdin>>

StartReaper == reaper' = IF reaper = "none" THEN "waiting" ELSE reaper

KillGroup ==
  /\ IF leader = "running" THEN leader' = "zombie" /\ how' = "killed"
     ELSE UNCHANGED <<leader, how>>
  /\ child' = FALSE /\ strayed' = (strayed \/ reused)
  /\ UNCHANGED reused

\* A faulty version: only a Wait starts the reaper.
KillUnreaped(p) ==
  /\ pc[p] = "close" /\ once = "new"
  /\ once' = "running" /\ Goto(p, "tear")
  /\ KillGroup /\ closeErr' = FALSE /\ UNCHANGED reaper
  /\ stdin' = FALSE
  /\ UNCHANGED <<cancelled, watch, copy, ret, stop>>

\* Close, or the AfterFunc, reaches the teardown: closeOnce lets one through,
\* and the others wait for it to return.
Kill(p) ==
  /\ pc[p] = "close" /\ once = "new"
  /\ once' = "running" /\ Goto(p, "tear")
  /\ \/ KillGroup /\ closeErr' = FALSE /\ StartReaper
     \/ Lossy /\ closeErr' = TRUE /\ UNCHANGED os /\ UNCHANGED reaper
  /\ stdin' = FALSE
  /\ UNCHANGED <<cancelled, watch, copy, ret, stop>>

Torn(p) ==
  /\ pc[p] = "tear" /\ (reaper = "done" \/ closeErr)
  /\ once' = "done" /\ Goto(p, "close")
  /\ UNCHANGED <<os, cancelled, watch, reaper, closeErr, ret, stop, copy, stdin>>

\* A faulty version: what ended the wait is reported first.
OutcomeOfWait ==
  CASE waited = "exit" -> "code"
    [] waited = "caller" -> "caller error"
    [] sig = "failed" -> "signal error"
    [] waited = "grace" -> "timeout"
    [] OTHER -> "wait error"

\* How Stop ranks the errors.
Outcome ==
  CASE waited = "exit" -> IF closeErr THEN "code, close error" ELSE "code"
    [] closeErr -> "close error"
    [] sig = "failed" -> "signal error"
    [] waited = "caller" -> "caller error"
    [] waited = "grace" -> "timeout"
    [] OTHER -> "wait error"

CloseReturns(p) ==
  /\ pc[p] = "close" /\ once = "done"
  /\ Return(p, IF p \in Stopper THEN Outcome ELSE IF closeErr THEN "close error" ELSE "closed")
  /\ UNCHANGED <<os, cancelled, handle, stop>>

\* The watcher fires.
Fire ==
  /\ watch = "armed" /\ cancelled /\ pc[Watch] = "idle"
  /\ watch' = "fired" /\ Goto(Watch, "close")
  /\ UNCHANGED <<os, cancelled, reaper, once, closeErr, copy, stdin, ret, stop>>

\* Close: stop the watcher, then tear down.
Close(p) ==
  /\ p \in Closer /\ pc[p] = "idle" /\ watch # "unset"
  /\ watch' = IF watch = "armed" THEN "stopped" ELSE watch
  /\ Goto(p, "close")
  /\ UNCHANGED <<os, cancelled, reaper, once, closeErr, copy, stdin, ret, stop>>

-----------------------------------------------------------------------------
(* Wait.                                                                   *)

Wait(p) ==
  /\ p \in Waiter /\ pc[p] = "idle" /\ watch # "unset"
  /\ StartReaper /\ Goto(p, "wait")
  /\ UNCHANGED <<os, cancelled, watch, once, closeErr, copy, stdin, ret, stop>>

\* The status, or the error of a caller that gave up before the exit was seen.
WaitReturns(p) ==
  /\ p \in Waiter /\ pc[p] = "wait"
  /\ \/ reaper = "done" /\ Return(p, how)
     \/ reaper # "done" /\ Return(p, "cut short")
     \/ Lossy /\ Return(p, "wait error")
  /\ UNCHANGED <<os, cancelled, handle, stop>>

-----------------------------------------------------------------------------
(* Stop.                                                                   *)

\* The signal reaches the leader, zombie or not; a reaped one refuses it.
StopSignal(p) ==
  /\ p \in Stopper /\ pc[p] = "idle" /\ watch # "unset"
  /\ \/ leader # "reaped" /\ sig' = "sent"
     \/ (leader = "reaped" \/ Lossy) /\ sig' = "failed"
  /\ StartReaper /\ Goto(p, "wait")
  /\ UNCHANGED <<os, cancelled, watch, once, closeErr, copy, stdin, ret, waited>>

\* The wait ends: the exit is seen, the caller gives up, the grace period runs
\* out or the transport loses the command.  A grace period that runs out after
\* a signal that failed, or an exit as it runs out, is not a timeout.
StopWaited(p) ==
  /\ p \in Stopper /\ pc[p] = "wait"
  /\ \/ reaper = "done" /\ waited' = "exit"
     \/ reaper # "done" /\ waited' \in {"caller", "grace"}
     \/ Lossy /\ waited' = "lost"
  /\ Goto(p, IF waited' = "grace" /\ sig = "sent" /\ Dump THEN "dump" ELSE "stopping")
  /\ UNCHANGED <<os, cancelled, handle, ret, sig>>

\* The dump signal, and the wait for it if it was sent; the exit it may cause
\* does not change the outcome.
StopDump(p) ==
  /\ p \in Stopper /\ pc[p] = "dump"
  /\ Goto(p, "stopping")
  /\ UNCHANGED <<os, cancelled, handle, ret, stop>>

StopClose(p) ==
  /\ p \in Stopper /\ pc[p] = "stopping"
  /\ watch' = IF watch = "armed" THEN "stopped" ELSE watch
  /\ Goto(p, "close")
  /\ UNCHANGED <<os, cancelled, reaper, once, closeErr, copy, stdin, ret, stop>>

Step(p) ==
  \/ Kill(p) \/ Torn(p) \/ CloseReturns(p)
  \/ Close(p) \/ Wait(p) \/ WaitReturns(p)
  \/ StopSignal(p) \/ StopWaited(p) \/ StopDump(p) \/ StopClose(p)

Next ==
  \/ Stream \/ Arm \/ Cancel \/ Spawn \/ Exit \/ ChildExit \/ Reuse \/ CopyEnds
  \/ Reap \/ Fire
  \/ \E p \in Proc : Step(p)

Spec == Init /\ [][Next]_vars

\* A goroutine inside a call is scheduled; the runtime fires an AfterFunc; a
\* zombie whose reaper waits is reaped; a copy whose pipe was closed ends.  No
\* process exits by itself, and nobody need call anything.  None of these
\* steps can be repeated for ever, so that some one is taken is enough.
Fairness ==
  WF_vars(\/ \E p \in Proc : pc[p] # "idle" /\ Step(p)
          \/ Arm \/ Fire \/ Reap \/ (~stdin /\ CopyEnds))

FairSpec == Spec /\ Fairness

-----------------------------------------------------------------------------
\* Type invariant.
TypeOK ==
  /\ leader \in {"none", "running", "zombie", "reaped"}
  /\ how \in {"none", "exit", "killed"}
  /\ {child, reused, strayed, cancelled, closeErr, stdin} \subseteq BOOLEAN
  /\ watch \in {"unset", "armed", "stopped", "fired"}
  /\ reaper \in {"none", "waiting", "done"} /\ once \in {"new", "running", "done"}
  /\ pc \in [Proc -> {"idle", "wait", "dump", "stopping", "close", "tear", "returned"}]
  /\ sig \in {"none", "sent", "failed"}
  /\ waited \in {"none", "exit", "caller", "grace", "lost"}
  /\ copy \in {"busy", "ended"}
  /\ Cardinality({p \in Proc : pc[p] = "tear"}) <= 1

Closed(p) == p \notin Waiter /\ pc[p] = "returned"

\* "The command is gone once it returns": after a Close or a Stop that reports
\* no failed kill, whoever ran the teardown, the leader is reaped and nothing
\* of its group is left.
GoneAfterClose ==
  \A p \in Proc : (Closed(p) /\ ret[p] \notin {"close error", "code, close error"}) =>
    leader = "reaped" /\ ~child

\* A handle nobody waits on is reaped only by its teardown, so its group kill
\* cannot hit a group that inherited the id.
KillIsOwn == strayed => \E p \in Stopper \cup Waiter : pc[p] # "idle"

\* A status a Wait or a Stop reports is the command's own: it had ended, and a
\* stop that reports one saw the exit within its grace period.
StatusIsReal ==
  /\ \A p \in Waiter : ret[p] \in {"exit", "killed"} => leader = "reaped" /\ how = ret[p]
  /\ \A p \in Stopper : ret[p] \in {"code", "code, close error"} => leader = "reaped" /\ waited = "exit"

\* A timeout is reported only for a command that was sent the signal, was not
\* seen to end in time, and is dead now: a service may shrug it off.
TimeoutIsBenign ==
  \A p \in Stopper : ret[p] = "timeout" =>
    sig = "sent" /\ waited = "grace" /\ leader = "reaped"

\* The command dies with its context, group and all: cancelling the context
\* that started it kills it as Close would.
CancelKills ==
  (cancelled /\ leader # "none") ~> (leader = "reaped" \/ closeErr)

\* A Close or Stop that was called returns, though the command ignores every
\* signal it can, and so does a copy of the input that nobody reads.
CloseEnds ==
  (\E p \in Proc \ Waiter : pc[p] # "idle") ~>
    /\ \A p \in Proc \ Waiter : pc[p] \in {"idle", "returned"}
    /\ once = "done" => copy = "ended"
=============================================================================

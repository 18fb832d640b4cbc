----------------------------- MODULE SshStream -----------------------------
(***************************************************************************)
(* A command streamed over SSH (ssh/ssh.go): the session's exit report and *)
(* its close arrive as two events, and waits, closes and the watcher of    *)
(* the context that started the stream share one teardown.                 *)
(*                                                                         *)
(* The command leads a process group on the node that may hold a child; a  *)
(* daemon it started has left the group.  Both keep its output open.  sshd *)
(* reports the exit as soon as it reaps the command, unless the session    *)
(* was closed from this side first, and closes the session once the output *)
(* has drained.                                                            *)
(***************************************************************************)
EXTENDS Naturals

CONSTANTS Waiter, Closer,  \* goroutines that call Wait and Close
          MayDrop,         \* the connection may be lost, and a kill fail
          MaySlow          \* the node may take longer than exitReportTimeout

Watch == "watcher"
Tearer == Closer \cup {Watch}

VARIABLES cmd,        \* "none", "shell" (before its marker), "running" or "dead"
          child,      \* a process of its group is alive
          daemon,     \* a process that left the group holds the output
          marker,     \* the group id is on its way or read
          report,     \* the exit report: "none", "sent" or "taken"
          session,    \* "open", "closed" (from this side) or "over"
          up,         \* the connection
          cancelled,  \* the context that started the stream is done
          start,      \* Stream: "exec", "marker", "live" or "failed"
          exited,     \* s.exited is closed, and s.code set
          done,       \* s.done is closed
          watch,      \* its AfterFunc: "unset", "armed", "off" or "begun"
          once,       \* s.once: "new", "running" or "done"
          killErr,
          slow,       \* teardown gave up waiting for the exit report
          pc, ret     \* of every goroutine

node == <<cmd, child, daemon, marker, report>>
handle == <<exited, done>>
tear == <<once, killErr, slow>>
procs == <<pc, ret>>
vars == <<node, session, up, cancelled, start, handle, watch, tear, procs>>

Goto(p, l) == pc' = [pc EXCEPT ![p] = l]
Return(p, r) == Goto(p, "returned") /\ ret' = [ret EXCEPT ![p] = r]

Init ==
  /\ cmd = "none" /\ child = FALSE /\ daemon = FALSE /\ marker = FALSE /\ report = "none"
  /\ session = "open" /\ up = TRUE /\ cancelled = FALSE /\ start = "exec"
  /\ exited = FALSE /\ done = FALSE /\ watch = "unset"
  /\ once = "new" /\ killErr = FALSE /\ slow = FALSE
  /\ pc = [p \in Waiter \cup Tearer |-> "idle"] /\ ret = [p \in Waiter \cup Tearer |-> "none"]

-----------------------------------------------------------------------------
(* The node, the network and the context.                                  *)

\* The prologue prints the group id and becomes the command, or refuses.
Prologue ==
  /\ cmd = "shell"
  /\ \/ cmd' = "running" /\ marker' = TRUE
     \/ cmd' = "dead" /\ UNCHANGED marker
  /\ UNCHANGED <<child, daemon, report, session, up, cancelled, start, handle, watch, tear, procs>>

Spawn ==
  /\ cmd = "running"
  /\ \/ ~child /\ child' = TRUE /\ UNCHANGED daemon
     \/ ~daemon /\ daemon' = TRUE /\ UNCHANGED child
  /\ UNCHANGED <<cmd, marker, report, session, up, cancelled, start, handle, watch, tear, procs>>

Exit ==
  /\ \/ cmd = "running" /\ cmd' = "dead" /\ UNCHANGED child
     \/ child /\ child' = FALSE /\ UNCHANGED cmd
  /\ UNCHANGED <<daemon, marker, report, session, up, cancelled, start, handle, watch, tear, procs>>

Report ==
  /\ cmd = "dead" /\ report = "none" /\ session = "open" /\ up /\ report' = "sent"
  /\ UNCHANGED <<cmd, child, daemon, marker, session, up, cancelled, start, handle, watch, tear, procs>>

\* The node's close of the session, which follows whatever it sent before.
SessionOver ==
  /\ up /\ \/ session = "open" /\ report # "none" /\ ~child /\ ~daemon
           \/ session = "closed"
  /\ session' = "over"
  /\ UNCHANGED <<node, up, cancelled, start, handle, watch, tear, procs>>

\* What the node had sent may or may not have arrived.
Drop ==
  /\ MayDrop /\ up /\ up' = FALSE /\ session' = "over"
  /\ \/ UNCHANGED report
     \/ report = "sent" /\ report' = "taken"
  /\ UNCHANGED <<cmd, child, daemon, marker, cancelled, start, handle, watch, tear, procs>>

Cancel ==
  /\ ~cancelled /\ cancelled' = TRUE
  /\ watch' = IF watch = "armed" THEN "begun" ELSE watch
  /\ UNCHANGED <<node, session, up, start, handle, tear, procs>>

-----------------------------------------------------------------------------
(* Stream, and the goroutine that watches the session's requests.          *)

CloseSession == session' = IF session = "open" THEN "closed" ELSE session

\* The exec request: it may arrive and its answer be lost.
Exec ==
  /\ start = "exec"
  /\ \/ up /\ start' = "marker" /\ cmd' = "shell" /\ UNCHANGED session
     \/ (~up \/ MayDrop) /\ start' = "failed" /\ CloseSession
        /\ cmd' \in (IF up THEN {"none", "shell"} ELSE {"none"})
  /\ UNCHANGED <<child, daemon, marker, report, up, cancelled, handle, watch, tear, procs>>

\* The group id is read, and the watcher of the context armed.
Started ==
  /\ start = "marker" /\ marker
  /\ start' = "live" /\ watch' = IF cancelled THEN "begun" ELSE "armed"
  /\ UNCHANGED <<node, session, up, cancelled, handle, tear, procs>>

\* The output ended first, or the context did.
NotStarted ==
  /\ start = "marker" /\ (cancelled \/ session = "over")
  /\ start' = "failed" /\ CloseSession
  /\ UNCHANGED <<node, up, cancelled, handle, watch, tear, procs>>

TakeReport ==
  /\ report = "sent"
  /\ report' = "taken" /\ exited' = TRUE
  /\ UNCHANGED <<cmd, child, daemon, marker, session, up, cancelled, start, done, watch, tear, procs>>

\* The requests are drained and their channel closed.
SessionEnded ==
  /\ session = "over" /\ report # "sent" /\ ~done /\ done' = TRUE
  /\ UNCHANGED <<node, session, up, cancelled, start, exited, watch, tear, procs>>

-----------------------------------------------------------------------------
(* Wait.                                                                   *)

Wait(w) == start = "live" /\ pc[w] = "idle" /\ Goto(w, "wait") /\ UNCHANGED ret

\* A faulty version: the exit is taken from the end of the session.
WakeOnEnd(w) == pc[w] = "wait" /\ done /\ Goto(w, "woken") /\ UNCHANGED ret

Wake(w) == pc[w] = "wait" /\ (exited \/ done) /\ Goto(w, "woken") /\ UNCHANGED ret

\* The context of the wait itself ends before either.
WaitGivesUp(w) == pc[w] = "wait" /\ ~exited /\ ~done /\ Return(w, "ctx")

Status(w) == pc[w] = "woken" /\ Return(w, IF exited THEN "code" ELSE "unreported")

-----------------------------------------------------------------------------
(* Close, the watcher and the teardown they share.                         *)

Close(p) ==
  /\ start = "live" /\ p \in Closer /\ pc[p] = "idle" /\ Goto(p, "teardown")
  /\ watch' = IF watch = "armed" THEN "off" ELSE watch
  /\ UNCHANGED <<node, session, up, cancelled, start, handle, tear, ret>>

Fire ==
  /\ watch = "begun" /\ pc[Watch] = "idle" /\ Goto(Watch, "teardown")
  /\ UNCHANGED <<node, session, up, cancelled, start, handle, watch, tear, ret>>

\* s.once lets one caller through; the others wait for it to return.
Begin(p) ==
  /\ pc[p] = "teardown" /\ once = "new" /\ once' = "running" /\ Goto(p, "kill")
  /\ UNCHANGED <<node, session, up, cancelled, start, handle, watch, killErr, slow, ret>>

\* A faulty version: a command that has exited is not killed, nor its group.
KillUnlessExited(p) ==
  /\ pc[p] = "kill" /\ up
  /\ IF exited THEN UNCHANGED <<cmd, child>> ELSE cmd' = "dead" /\ child' = FALSE
  /\ \E err \in {FALSE, MayDrop} :
       killErr' = err /\ Goto(p, IF err THEN "shut" ELSE "report")
  /\ UNCHANGED <<daemon, marker, report, session, up, cancelled, start, handle, watch, once, slow, ret>>

\* killGroup over a session of its own.  It may run and yet be reported failed.
Kill(p) ==
  /\ pc[p] = "kill" /\ up
  /\ cmd' = "dead" /\ child' = FALSE
  /\ \E err \in {FALSE, MayDrop} :
       killErr' = err /\ Goto(p, IF err THEN "shut" ELSE "report")
  /\ UNCHANGED <<daemon, marker, report, session, up, cancelled, start, handle, watch, once, slow, ret>>

KillFails(p) ==
  /\ pc[p] = "kill" /\ MayDrop /\ killErr' = TRUE /\ Goto(p, "shut")
  /\ UNCHANGED <<node, session, up, cancelled, start, handle, watch, once, slow, ret>>

AwaitReport(p) ==
  /\ pc[p] = "report" /\ (exited \/ done \/ MaySlow) /\ Goto(p, "shut")
  /\ slow' = ~(exited \/ done)
  /\ UNCHANGED <<node, session, up, cancelled, start, handle, watch, once, killErr, ret>>

Shut(p) ==
  /\ pc[p] = "shut" /\ once' = "done" /\ CloseSession
  /\ Return(p, IF killErr THEN "killErr" ELSE "nil")
  /\ UNCHANGED <<node, up, cancelled, start, handle, watch, killErr, slow>>

Join(p) ==
  /\ pc[p] = "teardown" /\ once = "done" /\ Return(p, IF killErr THEN "killErr" ELSE "nil")
  /\ UNCHANGED <<node, session, up, cancelled, start, handle, watch, tear>>

-----------------------------------------------------------------------------
Sshd == Prologue \/ Report \/ SessionOver
Stream == Exec \/ Started \/ NotStarted \/ TakeReport \/ SessionEnded
Waits(w) ==
  /\ Wait(w) \/ Wake(w) \/ WaitGivesUp(w) \/ Status(w)
  /\ UNCHANGED <<node, session, up, cancelled, start, handle, watch, tear>>
TearDown(p) == Begin(p) \/ Kill(p) \/ AwaitReport(p) \/ Shut(p) \/ Join(p)

Next ==
  \/ Spawn \/ Exit \/ Drop \/ Cancel \/ Sshd \/ Stream \/ Fire
  \/ \E w \in Waiter : Waits(w)
  \/ \E p \in Tearer : Close(p) \/ KillFails(p) \/ TearDown(p)

Spec == Init /\ [][Next]_vars

Awake(w) ==
  /\ Wake(w) \/ Status(w)
  /\ UNCHANGED <<node, session, up, cancelled, start, handle, watch, tear>>

\* The goroutines run, sshd does its part, and a kill runs or fails; whether
\* the command exits by itself, and whether anyone calls, is left open.  No
\* step of theirs can be repeated for ever, so that some one is taken while
\* there is one is all that is asked.
Fairness ==
  WF_vars(\/ Sshd \/ Stream \/ Fire
          \/ \E w \in Waiter : Awake(w)
          \/ \E p \in Tearer : TearDown(p) \/ KillFails(p))

FairSpec == Spec /\ Fairness

-----------------------------------------------------------------------------
(* Properties.                                                             *)

Gone == cmd = "dead" /\ ~child

\* Types; one teardown runs at a time, and none after it is done.
TypeOK ==
  /\ cmd \in {"none", "shell", "running", "dead"} /\ report \in {"none", "sent", "taken"}
  /\ {child, daemon, marker, up, cancelled, exited, done, killErr, slow} \subseteq BOOLEAN
  /\ session \in {"open", "closed", "over"} /\ start \in {"exec", "marker", "live", "failed"}
  /\ watch \in {"unset", "armed", "off", "begun"} /\ once \in {"new", "running", "done"}
  /\ pc \in [Waiter \cup Tearer -> {"idle", "wait", "woken", "teardown", "kill", "report", "shut",
                                    "returned"}]
  /\ ret \in [Waiter \cup Tearer -> {"none", "code", "unreported", "ctx", "nil", "killErr"}]
  /\ (once = "running") = (\E p \in Tearer : pc[p] \in {"kill", "report", "shut"})

\* A Close that returns nil leaves nothing of the command's group on the node,
\* its children included, however the exit, the cancellation and other closes
\* are ordered ("A failed kill means a service believed stopped may still be
\* running, which must surface").
NilMeansGone == \A p \in Tearer : ret[p] = "nil" => Gone

\* After a teardown whose kill ran, on a connection that held and a node that
\* answered in time, the handle knows how the command died: closing the
\* session never races the report (teardown).
ReportReaches == once = "done" /\ ~killErr /\ ~slow /\ up => exited

\* Wait's "the session ended without reporting the command's exit" is final: no
\* report is taken afterwards, and a code returned was reported.
WaitIsFinal ==
  \A w \in Waiter : /\ ret[w] = "unreported" => ~exited /\ done
                    /\ ret[w] = "code" => exited /\ cmd = "dead"

\* Cancelling the context of a started stream, or closing it, kills the
\* command and its group, or the failure is recorded (Stream's watcher).
Struck == start = "live" /\ (cancelled \/ once # "new")
CancelKills == Struck => Gone \/ killErr

\* A wait learns of the exit although children or daemons hold the output open
\* and keep the session from ending (why Stream drives a raw channel).
WaitReturns == cmd = "dead" => \A w \in Waiter : pc[w] \in {"idle", "returned"}

\* A stream that was struck, or whose command is dead, comes to both.
StreamEnds == Struck \/ (cmd = "dead" /\ session = "open") ~> CancelKills /\ WaitReturns
=============================================================================

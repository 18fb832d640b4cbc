------------------------------ MODULE Capture -------------------------------
(***************************************************************************)
(* StartCapturedAs (capture.go): the processes a service launches one after *)
(* the other on a node under one name, each with its output redirected to   *)
(* the same log, and what becomes of the log of the one before.             *)
(*                                                                         *)
(* A file is given by whose output it holds.  Calls to the node fail before *)
(* or after their effect; a stream that fails may have left its command     *)
(* running (an orphan), as one over ssh can.  A service launches the next   *)
(* process when the one it was handed is gone.                              *)
(***************************************************************************)
EXTENDS Naturals, Sequences, Functions

CONSTANT MaxCalls   \* bound on the calls of StartCapturedAs

VARIABLES
  policy,     \* "truncate" or "rotate"
  log,        \* <name>.log
  moved,      \* <name>.<k>.log, by k
  artifacts,  \* what was registered: Current, or the k of a rotated log
  launches,   \* ServiceBase.launches for the node and the name
  at, calls,  \* where the call is, and the number of calls made
  proc,       \* of each call's process: "none", "forked", "running" or "gone"
  handle,     \* the call whose process the service was handed last, or 0
  redirected, \* history: the processes that opened the log
  cut,        \* history: those whose log a failed mv had moved
  orphans     \* history: those a failed stream left

vars == <<policy, log, moved, artifacts, launches, at, calls, proc, handle, redirected, cut, orphans>>

Absent == 0
Old == MaxCalls + 1   \* the output of an earlier run
Current == MaxCalls + 1

Init ==
  /\ policy \in {"truncate", "rotate"} /\ log \in {Absent, Old}
  /\ \E f \in {Absent, Old} : moved = [k \in 0..MaxCalls |-> f]
  /\ artifacts = <<>> /\ launches = 0 /\ at = "idle" /\ calls = 0
  /\ proc = [i \in 1..MaxCalls |-> "none"] /\ handle = 0
  /\ redirected = {} /\ cut = {} /\ orphans = {}

Return == at' = "idle"

\* The directory is made, and launches and the policy are read.
Call ==
  /\ at = "idle" /\ calls < MaxCalls /\ (handle # 0 => proc[handle] = "gone")
  /\ calls' = calls + 1 /\ handle' = 0
  /\ at' = "clear" \/ Return
  /\ UNCHANGED <<policy, log, moved, artifacts, launches, proc, redirected, cut, orphans>>

-----------------------------------------------------------------------------
(* clearCaptureLog.                                                         *)

\* A faulty version: what is at the path is taken for the previous process's.
DiscardsByPolicy == policy # "rotate"

Discards == launches = 0 \/ policy # "rotate"

Remove ==
  /\ at = "clear" /\ Discards
  /\ \/ at' = "launch" /\ log' = Absent
     \/ Return /\ log' \in {log, Absent}
  /\ UNCHANGED <<policy, moved, artifacts, launches, calls, proc, handle, redirected, cut, orphans>>

Exists ==
  /\ at = "clear" /\ ~Discards
  /\ at' = (IF log = Absent THEN "launch" ELSE "move") \/ Return
  /\ UNCHANGED <<policy, log, moved, artifacts, launches, calls, proc, handle, redirected, cut, orphans>>

Moves == log' = Absent /\ moved' = [moved EXCEPT ![launches] = log]

Move ==
  /\ at = "move"
  /\ \/ Moves /\ at' = "launch" /\ artifacts' = Append(artifacts, launches) /\ UNCHANGED cut
     \/ Moves /\ Return /\ cut' = cut \cup {log} /\ UNCHANGED artifacts
     \/ Return /\ UNCHANGED <<log, moved, artifacts, cut>>
  /\ UNCHANGED <<policy, launches, calls, proc, handle, redirected, orphans>>

-----------------------------------------------------------------------------
\* The stream starts a shell that redirects its output and becomes the command;
\* the launch is counted and, if it is the first, the log registered.
Launch ==
  /\ at = "launch" /\ Return
  /\ \/ /\ proc' = [proc EXCEPT ![calls] = "forked"] /\ handle' = calls
        /\ launches' = launches + 1
        /\ artifacts' = IF launches = 0 THEN Append(artifacts, Current) ELSE artifacts
        /\ UNCHANGED orphans
     \/ /\ proc' = [proc EXCEPT ![calls] = "forked"] /\ orphans' = orphans \cup {calls}
        /\ UNCHANGED <<artifacts, launches, handle>>
     \/ UNCHANGED <<proc, artifacts, launches, handle, orphans>>
  /\ UNCHANGED <<policy, log, moved, calls, redirected, cut>>

\* The shell is scheduled: it opens the log, truncating what is there.
Redirect(i) ==
  /\ proc[i] = "forked" /\ proc' = [proc EXCEPT ![i] = "running"]
  /\ log' = i /\ redirected' = redirected \cup {i}
  /\ UNCHANGED <<policy, moved, artifacts, launches, at, calls, handle, cut, orphans>>

\* The process exits, crashes or is closed.
End(i) ==
  /\ proc[i] \in {"forked", "running"} /\ proc' = [proc EXCEPT ![i] = "gone"]
  /\ UNCHANGED <<policy, log, moved, artifacts, launches, at, calls, handle, redirected, cut, orphans>>

Next == Call \/ Remove \/ Exists \/ Move \/ Launch \/ \E i \in 1..MaxCalls : Redirect(i) \/ End(i)

Spec == Init /\ [][Next]_vars

-----------------------------------------------------------------------------
\* The log only ever holds output of the process just started: from the moment
\* the service is handed it, a poll of the log sees nothing or what that process
\* wrote, though its shell may not have run yet.
FreshLog == handle # 0 => log \in {Absent, handle}

\* Under rotation the output of every process handed out is kept, in a file of
\* its own that is registered, whatever failed and was tried again in between;
\* but for one moved by an mv that then failed, which no one registers.
OutputKept ==
  policy = "rotate" =>
    \A i \in (redirected \ cut) : log = i \/ \E n \in DOMAIN artifacts :
      artifacts[n] # Current /\ moved[artifacts[n]] = i

\* Nothing is collected twice, and nothing an earlier run left.
CollectedOnce ==
  /\ IsInjective(artifacts)
  /\ \A n \in DOMAIN artifacts : (IF artifacts[n] = Current THEN log ELSE moved[artifacts[n]]) # Old

\* What is captured on a node is kept apart, by process and by run; unless a
\* stream that failed left its command behind, which the next launch does not
\* know of.
CapturedApart == orphans = {} => FreshLog /\ OutputKept /\ CollectedOnce

=============================================================================

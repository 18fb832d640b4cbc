----------------------------- MODULE CgroupGate -----------------------------
(***************************************************************************)
(* The gate between the commands a worker starts on a local node and the   *)
(* freezes of the node's cgroup (cgroup_linux.go, localbackend.go).  A     *)
(* process forked into a frozen cgroup freezes before it can exec, and the *)
(* whole worker hangs with it, so a start waits while the cgroup is frozen *)
(* and a freeze waits for the starts in flight.                            *)
(*                                                                         *)
(* Goroutines that start commands, freeze and thaw share the gate.  mu is  *)
(* held for one step at a time, except that a freeze releases it while it  *)
(* waits for the starts; op is held from the first step of a freeze to the *)
(* last.  A channel thawed is closed before another is made, so the        *)
(* channel a waiter took is either the current one or closed: released is  *)
(* the set of waiters whose channel is closed.                             *)
(***************************************************************************)
EXTENDS Integers

CONSTANTS Starter,   \* goroutines that start commands on the node
          Freezer,   \* goroutines that freeze it
          Thawer     \* goroutines that thaw it

VARIABLES op,        \* the freeze that holds g.op, in a set, or none
          frozen,    \* g.frozen
          start,     \* where each starter is: idle, waiting or starting
          released,  \* the waiters whose channel has been closed
          freezing,  \* where each freeze is: idle, draining or polling
          closed,    \* the freezes that closed the gate themselves
          undone,    \* the freezes whose channel has been closed
          file,      \* what cgroup.freeze holds: 0 or 1
          kernel     \* what cgroup.events reports: "frozen 1" or not

vars == <<op, frozen, start, released, freezing, closed, undone, file, kernel>>

\* g.starting > 0
Starting == \E s \in Starter : start[s] = "starting"

\* close(g.thawed): everyone who holds the current channel is released.
CloseThawed ==
  /\ released' = released \cup {s \in Starter : start[s] = "waiting"}
  /\ undone' = undone \cup {f \in Freezer : freezing[f] = "polling"}

Init ==
  /\ op = {} /\ frozen = FALSE
  /\ start = [s \in Starter |-> "idle"] /\ released = {}
  /\ freezing = [f \in Freezer |-> "idle"] /\ closed = {} /\ undone = {}
  /\ file = 0 /\ kernel = FALSE

-----------------------------------------------------------------------------

\* place, enter: count the start in, or take the channel and wait.
Enter(s) ==
  /\ start[s] = "idle"
  /\ start' = [start EXCEPT ![s] = IF frozen THEN "waiting" ELSE "starting"]
  /\ UNCHANGED <<op, frozen, released, freezing, closed, undone, file, kernel>>

\* A faulty version: a released waiter does not look at the flag again.
ReenterUnguarded(s) ==
  /\ start[s] = "waiting" /\ s \in released
  /\ start' = [start EXCEPT ![s] = "starting"]
  /\ released' = released \ {s}
  /\ UNCHANGED <<op, frozen, freezing, closed, undone, file, kernel>>

\* A released waiter takes mu again and looks at the flag again.
Reenter(s) ==
  /\ start[s] = "waiting" /\ s \in released
  /\ start' = [start EXCEPT ![s] = IF frozen THEN "waiting" ELSE "starting"]
  /\ released' = released \ {s}
  /\ UNCHANGED <<op, frozen, freezing, closed, undone, file, kernel>>

\* The context of a waiting start is done.
GiveUp(s) ==
  /\ start[s] = "waiting"
  /\ start' = [start EXCEPT ![s] = "idle"]
  /\ released' = released \ {s}
  /\ UNCHANGED <<op, frozen, freezing, closed, undone, file, kernel>>

\* The command has been started, or could not be: count the start out.
Leave(s) ==
  /\ start[s] = "starting"
  /\ start' = [start EXCEPT ![s] = "idle"]
  /\ UNCHANGED <<op, frozen, released, freezing, closed, undone, file, kernel>>

\* A faulty version: the gate is closed only when the file is written.
FreezeOpen(f) ==
  /\ freezing[f] = "idle" /\ op = {}
  /\ op' = {f}
  /\ closed' = IF frozen THEN closed \ {f} ELSE closed \cup {f}
  /\ freezing' = [freezing EXCEPT ![f] = "draining"]
  /\ UNCHANGED <<frozen, start, released, undone, file, kernel>>

\* freeze: take op, close the gate, and wait for the starts in flight.
Freeze(f) ==
  /\ freezing[f] = "idle" /\ op = {}
  /\ op' = {f}
  /\ closed' = IF frozen THEN closed \ {f} ELSE closed \cup {f}
  /\ frozen' = TRUE
  /\ freezing' = [freezing EXCEPT ![f] = "draining"]
  /\ UNCHANGED <<start, released, undone, file, kernel>>

\* No start is in flight: write the file, and let op go.
FreezeWrite(f) ==
  /\ freezing[f] = "draining" /\ ~Starting
  /\ file' = 1 /\ frozen' = TRUE
  /\ freezing' = [freezing EXCEPT ![f] = "polling"] /\ undone' = undone \ {f}
  /\ op' = {}
  /\ UNCHANGED <<start, released, closed, kernel>>

\* The file cannot be written: a gate this freeze closed is opened again.
FreezeFails(f) ==
  /\ freezing[f] = "draining" /\ ~Starting
  /\ IF f \in closed THEN frozen' = FALSE /\ CloseThawed
                     ELSE UNCHANGED <<frozen, released, undone>>
  /\ freezing' = [freezing EXCEPT ![f] = "idle"]
  /\ op' = {}
  /\ UNCHANGED <<start, closed, file, kernel>>

\* The kernel reports the cgroup frozen, or a thaw has undone the freeze.
FreezeReturns(f) ==
  /\ freezing[f] = "polling" /\ (kernel \/ f \in undone)
  /\ freezing' = [freezing EXCEPT ![f] = "idle"]
  /\ UNCHANGED <<op, frozen, start, released, closed, undone, file, kernel>>

\* The context of a polling freeze is done, or cgroup.events unreadable: an
\* error, with the cgroup still frozen and the gate still closed.
FreezeGivesUp(f) ==
  /\ freezing[f] = "polling"
  /\ freezing' = [freezing EXCEPT ![f] = "failed"]
  /\ UNCHANGED <<op, frozen, start, released, closed, undone, file, kernel>>

FreezeAgain(f) ==
  /\ freezing[f] = "failed"
  /\ freezing' = [freezing EXCEPT ![f] = "idle"]
  /\ UNCHANGED <<op, frozen, start, released, closed, undone, file, kernel>>

\* thaw, once no freeze is in progress.  If the file cannot be written
\* nothing changes.
Thaw(t) ==
  /\ op = {}
  /\ file' = 0
  /\ IF frozen THEN frozen' = FALSE /\ CloseThawed
               ELSE UNCHANGED <<frozen, released, undone>>
  /\ UNCHANGED <<op, start, freezing, closed, kernel>>

\* The kernel follows the file.
KernelFollows ==
  /\ kernel # (file = 1)
  /\ kernel' = (file = 1)
  /\ UNCHANGED <<op, frozen, start, released, freezing, closed, undone, file>>

Next ==
  \/ \E s \in Starter : Enter(s) \/ Reenter(s) \/ GiveUp(s) \/ Leave(s)
  \/ \E f \in Freezer : \/ Freeze(f) \/ FreezeWrite(f) \/ FreezeFails(f)
                        \/ FreezeReturns(f) \/ FreezeGivesUp(f) \/ FreezeAgain(f)
  \/ \E t \in Thawer : Thaw(t)
  \/ KernelFollows

Spec == Init /\ [][Next]_vars

\* A start ends, since its cgroup is not frozen under it; a goroutine that
\* may go on does, and the kernel follows its file.
Fairness ==
  /\ \A s \in Starter : WF_vars(Leave(s)) /\ WF_vars(Reenter(s))
  /\ \A f \in Freezer : WF_vars(FreezeWrite(f) \/ FreezeFails(f)) /\ WF_vars(FreezeReturns(f))
  /\ WF_vars(KernelFollows)

FairSpec == Spec /\ Fairness

-----------------------------------------------------------------------------

TypeOK ==
  /\ op \in {{}} \cup {{f} : f \in Freezer} /\ frozen \in BOOLEAN
  /\ start \in [Starter -> {"idle", "waiting", "starting"}]
  /\ released \in SUBSET Starter
  /\ freezing \in [Freezer -> {"idle", "draining", "polling", "failed"}]
  /\ closed \in SUBSET Freezer /\ undone \in SUBSET Freezer
  /\ file \in {0, 1} /\ kernel \in BOOLEAN

\* No command is being started while the cgroup's file says frozen: the fork
\* that would hang the worker never happens, in any interleaving of starts,
\* freezes that fail and thaws (localbackend.go place).
NoStartWhileFrozen == file = 1 => ~Starting

\* The gate is never open over a frozen cgroup, and only one freeze is between
\* closing the gate and writing the file.
GateFollowsFile ==
  /\ file = 1 => frozen
  /\ \A f \in Freezer : freezing[f] = "draining" <=> f \in op
  /\ \A f \in Freezer : freezing[f] = "draining" => frozen

\* No wake-up is lost: a start that waits on a channel nobody has closed
\* waits because the gate is closed.
NoLostWakeup ==
  \A s \in Starter : start[s] = "waiting" /\ s \notin released => frozen

\* The gate does what place relies on: nothing is forked into a frozen cgroup,
\* the gate is closed over one, and a start waits only as long as it is closed.
GateHolds == NoStartWhileFrozen /\ GateFollowsFile /\ NoLostWakeup

\* A freeze reports success only if the kernel has stopped the processes, or
\* a thaw has come after it: it never reports one that is still to come.
FreezeIsReal ==
  [][\A f \in Freezer :
       freezing[f] = "polling" /\ freezing'[f] = "idle" => kernel \/ f \in undone]_vars

\* A freeze is not starved by starts: once it has closed the gate, the starts
\* in flight run out and it goes on.
FreezeProceeds ==
  (\E f \in Freezer : freezing[f] = "draining") ~> (\A f \in Freezer : freezing[f] # "draining")

\* What makes the invariants inductive: the file is still unfrozen under a
\* freeze that closed the gate and has not written it, so that opening the
\* gate when the write fails is right.
GateInv ==
  /\ NoStartWhileFrozen /\ GateFollowsFile /\ NoLostWakeup
  /\ \A f \in Freezer : freezing[f] = "draining" /\ f \in closed => file = 0

=============================================================================

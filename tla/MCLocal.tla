------------------------------ MODULE MCLocal -------------------------------
(***************************************************************************)
(* The local backend: three runs that share a scratch root (Scratch); a     *)
(* streamed command and the goroutines that share its handle (ProcStream);  *)
(* two starts, two freezes and a thaw over one cgroup, each again and again *)
(* (CgroupGate).  A behaviour is of one of the three.                       *)
(***************************************************************************)
EXTENDS Scratch

VARIABLES leader, how, child, reused, strayed, cancelled, watch, reaper, once, closeErr,
          at, ret, sig, waited, copy, stdin,
          op, frozen, start, released, freezing, closed, undone, file, kernel

Proc == INSTANCE ProcStream WITH
  pc <- at, Stopper <- {"stop"}, Waiter <- {"wait"}, Closer <- {"close"}, Lossy <- TRUE, Dump <- TRUE
Gate == INSTANCE CgroupGate WITH Starter <- {"s1", "s2"}, Freezer <- {"f1", "f2"}, Thawer <- {"t1"}

procVars == <<leader, how, child, reused, strayed, cancelled, watch, reaper, once, closeErr,
              at, ret, sig, waited, copy, stdin>>
gateVars == <<op, frozen, start, released, freezing, closed, undone, file, kernel>>

NoRuns ==
  /\ pc = [r \in Run |-> "dead"] /\ turn = Nil /\ exists = [r \in Run |-> FALSE]
  /\ lockfile = [r \in Run |-> FALSE] /\ holder = [r \in Run |-> Nil]
  /\ todo = [r \in Run |-> {}] /\ target = [r \in Run |-> r] /\ owed = [r \in Run |-> {}]
NoCommand ==
  /\ leader = "reaped" /\ how = "exit" /\ child = FALSE /\ reused = TRUE /\ strayed = FALSE
  /\ cancelled = TRUE /\ watch = "stopped" /\ reaper = "done" /\ once = "done" /\ closeErr = FALSE
  /\ at = [p \in Proc!Proc |-> "returned"] /\ ret = [p \in Proc!Proc |-> "none"]
  /\ sig = "none" /\ waited = "none" /\ copy = "ended" /\ stdin = FALSE
NoGate ==
  /\ op = {} /\ frozen = FALSE /\ start = [s \in {"s1", "s2"} |-> "none"] /\ released = {}
  /\ freezing = [f \in {"f1", "f2"} |-> "none"] /\ closed = {} /\ undone = {}
  /\ file = 0 /\ kernel = FALSE

MCInit ==
  \/ Init /\ NoCommand /\ NoGate
  \/ NoRuns /\ Proc!Init /\ NoGate
  \/ NoRuns /\ NoCommand /\ Gate!Init
MCNext ==
  \/ Next /\ UNCHANGED <<procVars, gateVars>>
  \/ Proc!Next /\ UNCHANGED <<vars, gateVars>>
  \/ start["s1"] # "none" /\ Gate!Next /\ UNCHANGED <<vars, procVars>>
MCSpec ==
  /\ MCInit /\ [][MCNext]_<<vars, procVars, gateVars>>
  /\ Fairness /\ Proc!Fairness /\ Gate!Fairness

-----------------------------------------------------------------------------
\* What the handle of a command reports is so: once a Close or a Stop has
\* reported no failed kill nothing of the command's group is left, no other
\* group was hit in its place, a status is the command's own, and a timeout is
\* reported of a command that was signalled, was late and is dead (procStream).
TeardownIsTrue ==
  Proc!GoneAfterClose /\ Proc!KillIsOwn /\ Proc!StatusIsReal /\ Proc!TimeoutIsBenign

\* Nobody waits for ever on the host: a Close or a Stop that was called returns,
\* though the command ignores every signal it can, and so does a copy of the
\* input that nobody reads; a command whose context is cancelled dies, group and
\* all; and a run that starts gets its turn at the scratch root.
CallsEnd == Proc!CloseEnds /\ Proc!CancelKills /\ NewScratchReturns

\* No command is being started while the file of its cgroup says frozen, and
\* none waits for a thaw that has come, in any interleaving of starts, freezes
\* that fail and thaws (cgroup freezeGate).
GateHolds == Gate!GateHolds

\* A freeze is not starved by starts: once it has closed the gate, the starts in
\* flight run out and it goes on; and it reports success only once the kernel
\* has stopped the processes, or a thaw has undone it.
FreezeWorks == Gate!FreezeProceeds /\ Gate!FreezeIsReal

=============================================================================

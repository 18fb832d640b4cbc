------------------------------ MODULE MCWorker ------------------------------
(***************************************************************************)
(* A job with two services, one on one node and the other on two, in the    *)
(* worker; one launch of a worker, with an event pipe that holds two        *)
(* messages (Launcher); and the processes a service launches in turn under  *)
(* one name, with their log (Capture).  A behaviour is of one of the three. *)
(***************************************************************************)
EXTENDS Worker

MCSizes == <<1, 2>>

VARIABLES main, reap, have, pipe, buf, open, forced, cancelled, signalled, worker,
          sent, left, holdsEvents, keeps, outErr, disk, ret

launchVars == <<main, reap, have, pipe, buf, open, forced, cancelled, signalled, worker,
                sent, left, holdsEvents, keeps, outErr, disk, ret>>

Launch == INSTANCE Launcher WITH PipeRoom <- 2

VARIABLES policy, log, moved, artifacts, launches, at, calls, proc, handle, redirected, cut, orphans

captureVars == <<policy, log, moved, artifacts, launches, at, calls, proc, handle, redirected, cut, orphans>>

Captured == INSTANCE Capture WITH MaxCalls <- 4

NoJob ==
  /\ phase = "exit" /\ step = "stop" /\ todo = {} /\ jobDir = FALSE /\ prepErr = FALSE
  /\ runErr = FALSE /\ tdErr = FALSE /\ persistErr = FALSE /\ stale = {} /\ up = {}
  /\ started = {} /\ collected = {} /\ deferred = <<>> /\ ran = <<>> /\ owed = 0
  /\ entered = FALSE /\ faults = {} /\ result = <<>>
NoLaunch ==
  /\ main = "returned" /\ reap = "done" /\ have = "none" /\ pipe = <<>> /\ buf = <<>>
  /\ open = FALSE /\ forced = FALSE /\ cancelled = FALSE /\ signalled = "none" /\ worker = "none"
  /\ sent = "none" /\ left = "none" /\ holdsEvents = FALSE /\ keeps = FALSE /\ outErr = FALSE
  /\ disk = "none" /\ ret = Launch!NoReturn

NoCapture ==
  /\ policy = "truncate" /\ log = 0 /\ moved = <<>> /\ artifacts = <<>> /\ launches = 0
  /\ at = "idle" /\ calls = 4 /\ proc = [i \in 1..4 |-> "gone"] /\ handle = 0
  /\ redirected = {} /\ cut = {} /\ orphans = {}

\* Which of the three the behaviour is of.
VARIABLE part

mcVars == <<vars, launchVars, captureVars, part>>

MCInit ==
  \/ part = "job" /\ Init /\ NoLaunch /\ NoCapture
  \/ part = "launch" /\ NoJob /\ Launch!Init /\ NoCapture
  \/ part = "capture" /\ NoJob /\ NoLaunch /\ Captured!Init

\* The service calls StartCaptured no more.
CaptureOver == part = "capture" /\ at = "idle" /\ calls = 4 /\ UNCHANGED mcVars

MCNext ==
  \/ part = "job" /\ Next /\ UNCHANGED <<launchVars, captureVars, part>>
  \/ part = "launch" /\ Launch!Next /\ UNCHANGED <<vars, captureVars, part>>
  \/ part = "capture" /\ Captured!Next /\ UNCHANGED <<vars, launchVars, part>>
  \/ CaptureOver
MCSpec == MCInit /\ [][MCNext]_mcVars /\ Launch!Fairness

-----------------------------------------------------------------------------
\* Launch never invents a result and never loses one but to the drain's grace:
\* what the worker wrote in full is what Launch returns, however it died, and
\* result.json says the same or the result carries a PersistErr.
ResultIsTheWorkers == Launch!ResultIsTheWorkers /\ Launch!DiskAgrees

\* When Launch returns, the worker is gone, and so is every process it left that
\* can be killed.
NothingKillableLeft == Launch!NothingKillableLeft

\* A launch that is cancelled, or whose worker has exited, returns, whatever the
\* worker ignores and whoever holds its pipes.
LaunchReturns == Launch!LaunchReturns

\* What StartCaptured captures is kept apart by process and by run: a poll of
\* the log of the process just started sees nothing older, under rotation every
\* process's output ends in a registered file of its own, whatever call failed
\* and was tried again, and nothing is collected twice or of an earlier run.
\* The exceptions are a log an mv moved before it failed, and a command left
\* by a stream that failed.
CapturedApart == Captured!CapturedApart

=============================================================================

------------------------------ MODULE Launcher ------------------------------
(***************************************************************************)
(* SelfExecLauncher.Launch (selfexec.go): the driver's side of one worker  *)
(* process.  Four things go on at once: Launch reads the worker's events   *)
(* from a pipe, a goroutine reaps the worker, os/exec watches the context, *)
(* and the worker runs, writes, leaves processes behind and dies when it   *)
(* likes.  A process the worker leaves may hold copies of the write ends   *)
(* of the event pipe and of the output pipes; one is enough.               *)
(*                                                                         *)
(* Timers.  The code's grace periods are seconds and its own steps are     *)
(* not, so a timer expires only while something it guards against really   *)
(* lasts: the worker still running, the sink not returning, or a copy of   *)
(* a write end still open.                                                 *)
(***************************************************************************)
EXTENDS Integers, Sequences

CONSTANTS PipeRoom   \* bound on the messages the event pipe holds, at least 1

VARIABLES main,       \* Launch itself
          reap,       \* the goroutine that calls cmd.Wait
          have,       \* the result read from the worker, or "none"
          pipe, buf,  \* messages in the event pipe and in the decoder's buffer
          open,       \* eventR is open
          forced,     \* eventR was closed because the drain's grace was up
          cancelled,  \* the context is done
          signalled,  \* the last signal sent: none, term, quit, kill
          worker,     \* the worker process: none, running, exited
          sent,       \* the result the worker has written in full, or "none"
          left,       \* what it left behind: none, mortal, immortal
          holdsEvents,  \* and whether that holds the write end of the event pipe
          keeps,      \* the run persists results, so that dir # ""
          outErr,     \* worker.log could not be opened or written
          disk,       \* result.json of the variant
          ret         \* what Launch returned

vars == <<main, reap, have, pipe, buf, open, forced, cancelled, signalled, worker,
          sent, left, holdsEvents, keeps, outErr, disk, ret>>
proc == <<worker, sent, left, holdsEvents>>
reading == <<have, pipe, buf, open, forced>>
fixed == <<keeps, outErr>>

Verdict == {"clean", "dirty"}   \* a result of the worker, by its Dirty flag
NoReturn == [result |-> "none", persist |-> FALSE]

EventsHeld == worker = "running" \/ (left # "none" /\ holdsEvents)

Init ==
  /\ main = "start" /\ reap = "none" /\ have = "none"
  /\ pipe = <<>> /\ buf = <<>> /\ open = TRUE /\ forced = FALSE
  /\ cancelled = FALSE /\ signalled = "none"
  /\ worker = "none" /\ sent = "none" /\ left = "none"
  /\ holdsEvents = FALSE
  /\ keeps \in BOOLEAN /\ outErr = FALSE
  /\ disk = "none" /\ ret = NoReturn

-----------------------------------------------------------------------------
(* The worker, its processes and the context.                              *)

Cancel ==
  /\ ~cancelled /\ main # "returned"
  /\ cancelled' = TRUE
  /\ UNCHANGED <<main, reap, signalled, disk, ret>>
  /\ UNCHANGED proc /\ UNCHANGED reading /\ UNCHANGED fixed

WorkerEvent ==
  /\ worker = "running" /\ sent = "none" /\ Len(pipe) < PipeRoom
  /\ pipe' = Append(pipe, "event")
  /\ UNCHANGED <<main, reap, have, buf, open, forced, cancelled, signalled, disk, ret>>
  /\ UNCHANGED proc /\ UNCHANGED fixed

WorkerSpawns(kind, e) ==
  /\ worker = "running" /\ left = "none"
  /\ left' = kind /\ holdsEvents' = e
  /\ UNCHANGED <<main, reap, cancelled, signalled, worker, sent, disk, ret>>
  /\ UNCHANGED reading /\ UNCHANGED fixed

\* The worker writes result.json, if it can, before it sends the result.
WorkerSaves(v) ==
  /\ worker = "running" /\ keeps /\ disk = "none" /\ sent = "none"
  /\ disk' = v
  /\ UNCHANGED <<main, reap, cancelled, signalled, ret>>
  /\ UNCHANGED proc /\ UNCHANGED reading /\ UNCHANGED fixed

\* A result that result.json does not hold says so in its PersistErr.
WorkerResult(v) ==
  /\ worker = "running" /\ sent = "none" /\ Len(pipe) < PipeRoom
  /\ disk \in {"none", v}
  /\ pipe' = Append(pipe, v) /\ sent' = v
  /\ UNCHANGED <<main, reap, have, buf, open, forced, cancelled, signalled, disk, ret,
                 worker, left, holdsEvents>>
  /\ UNCHANGED fixed

\* The worker exits, by itself or not, perhaps in the middle of a message.
WorkerExits ==
  /\ worker = "running"
  /\ worker' = "exited"
  /\ pipe' \in {pipe} \cup IF sent = "none" /\ Len(pipe) < PipeRoom
                           THEN {Append(pipe, "part")} ELSE {}
  /\ UNCHANGED <<main, reap, have, buf, open, forced, cancelled, signalled, disk, ret,
                 sent, left, holdsEvents>>
  /\ UNCHANGED fixed

\* What the worker left ends by itself.
LeftoverEnds ==
  /\ left = "mortal"
  /\ left' = "none" /\ holdsEvents' = FALSE
  /\ UNCHANGED <<main, reap, cancelled, signalled, worker, sent, disk, ret>>
  /\ UNCHANGED reading /\ UNCHANGED fixed

-----------------------------------------------------------------------------
(* Launch.                                                                 *)

\* A pipe or the process cannot be made: an error, and no worker.
StartFails ==
  /\ main = "start"
  /\ main' = "returned" /\ ret' = [result |-> "error", persist |-> FALSE]
  /\ UNCHANGED <<reap, cancelled, signalled, disk>>
  /\ UNCHANGED proc /\ UNCHANGED reading /\ UNCHANGED fixed

Start(e) ==
  /\ main = "start" /\ ~cancelled
  /\ main' = "read" /\ reap' = "wait" /\ worker' = "running"
  /\ outErr' = e
  /\ UNCHANGED <<cancelled, signalled, disk, ret, sent, left, holdsEvents, keeps>>
  /\ UNCHANGED reading

\* cmd.Cancel: SIGTERM to the worker's group.
Terminate ==
  /\ cancelled /\ worker = "running" /\ signalled = "none"
  /\ signalled' = "term"
  /\ UNCHANGED <<main, reap, cancelled, disk, ret>>
  /\ UNCHANGED proc /\ UNCHANGED reading /\ UNCHANGED fixed

\* A faulty version: no WaitDelay, so that the SIGQUIT is the last word.
EscalateOnce ==
  /\ worker = "running" /\ signalled = "term"
  /\ signalled' = "quit"
  /\ UNCHANGED <<main, reap, cancelled, disk, ret>>
  /\ UNCHANGED proc /\ UNCHANGED reading /\ UNCHANGED fixed

\* workerGracePeriod is up, then WaitDelay: SIGQUIT, then the kill.
Escalate ==
  /\ worker = "running" /\ signalled \in {"term", "quit"}
  /\ signalled' = IF signalled = "term" THEN "quit" ELSE "kill"
  /\ UNCHANGED <<main, reap, cancelled, disk, ret>>
  /\ UNCHANGED proc /\ UNCHANGED reading /\ UNCHANGED fixed

\* The decoder reads as much of the pipe as it gets.
Refill ==
  /\ main = "read" /\ open /\ buf = <<>> /\ pipe # <<>>
  /\ \E k \in 1..Len(pipe) : /\ buf' = SubSeq(pipe, 1, k)
                             /\ pipe' = SubSeq(pipe, k + 1, Len(pipe))
  /\ UNCHANGED <<main, reap, have, open, forced, cancelled, signalled, disk, ret>>
  /\ UNCHANGED proc /\ UNCHANGED fixed

\* One message: the last result is kept, an event goes to the sink, a broken
\* one ends the loop.
Read ==
  /\ main = "read" /\ buf # <<>>
  /\ buf' = Tail(buf)
  /\ main' = CASE Head(buf) = "event" -> "emit"
               [] Head(buf) = "part" -> "drained"
               [] OTHER -> "read"
  /\ have' = IF Head(buf) \in Verdict THEN Head(buf) ELSE have
  /\ UNCHANGED <<reap, pipe, open, forced, cancelled, signalled, disk, ret>>
  /\ UNCHANGED proc /\ UNCHANGED fixed

\* sink.Emit returns.
Emitted ==
  /\ main = "emit" /\ main' = "read"
  /\ UNCHANGED <<reap, cancelled, signalled, disk, ret>>
  /\ UNCHANGED proc /\ UNCHANGED reading /\ UNCHANGED fixed

\* The end of the stream, or a read of the closed eventR.
ReadEnds ==
  /\ main = "read" /\ buf = <<>>
  /\ ~open \/ (pipe = <<>> /\ ~EventsHeld)
  /\ main' = "drained"
  /\ UNCHANGED <<reap, cancelled, signalled, disk, ret>>
  /\ UNCHANGED proc /\ UNCHANGED reading /\ UNCHANGED fixed

\* A faulty version: the leftovers are killed before the worker has exited.
ReapEarly ==
  /\ reap = "wait"
  /\ reap' = "kill"
  /\ UNCHANGED <<main, cancelled, signalled, disk, ret>>
  /\ UNCHANGED proc /\ UNCHANGED reading /\ UNCHANGED fixed

\* cmd.Wait returns, and exited is closed.
Reap ==
  /\ reap = "wait" /\ worker = "exited"
  /\ reap' = "kill"
  /\ UNCHANGED <<main, cancelled, signalled, disk, ret>>
  /\ UNCHANGED proc /\ UNCHANGED reading /\ UNCHANGED fixed

\* killTagged: what can be found and killed is; the rest is at most a warning.
KillTagged ==
  /\ reap = "kill"
  /\ reap' = "drain" /\ UNCHANGED worker
  /\ IF left = "mortal" THEN left' = "none" /\ holdsEvents' = FALSE
                        ELSE UNCHANGED <<left, holdsEvents>>
  /\ UNCHANGED <<main, cancelled, signalled, disk, ret, sent>>
  /\ UNCHANGED reading /\ UNCHANGED fixed

DrainDone ==
  /\ reap = "drain" /\ main = "drained"
  /\ reap' = "output"
  /\ UNCHANGED <<main, cancelled, signalled, disk, ret>>
  /\ UNCHANGED proc /\ UNCHANGED reading /\ UNCHANGED fixed

\* eventDrainGrace is up: the sink is holding the loop, or a leftover the pipe.
DrainExpires ==
  /\ reap = "drain"
  /\ main = "emit" \/ (main = "read" /\ buf = <<>> /\ pipe = <<>> /\ EventsHeld)
  /\ reap' = "output" /\ open' = FALSE /\ forced' = TRUE
  /\ UNCHANGED <<main, have, pipe, buf, cancelled, signalled, disk, ret>>
  /\ UNCHANGED proc /\ UNCHANGED fixed

\* out.drain ends at the end of the output or when the grace is up, and so
\* always.  A write to worker.log may have failed.
DrainOutput(e) ==
  /\ reap = "output"
  /\ reap' = "done"
  /\ outErr' = (outErr \/ (e /\ keeps))
  /\ UNCHANGED <<main, cancelled, signalled, disk, ret, keeps>>
  /\ UNCHANGED proc /\ UNCHANGED reading

\* A faulty version: a worker that exited without a result is not dirty.
ReturnTrusts(w) ==
  /\ main = "drained" /\ reap = "done"
  /\ LET res == IF have = "none" THEN "clean" ELSE have
         writes == keeps /\ (outErr \/ have = "none")
     IN  /\ disk' = IF writes /\ w THEN res ELSE disk
         /\ ret' = [result |-> res,
                    persist |-> outErr \/ (writes /\ ~w) \/ (keeps /\ ~writes /\ disk = "none")]
  /\ main' = "returned"
  /\ UNCHANGED <<reap, cancelled, signalled>>
  /\ UNCHANGED proc /\ UNCHANGED reading /\ UNCHANGED fixed

\* The rest of Launch.  "lost" is failResult with Dirty set.  result.json is
\* written again when there is something to add; w: the write succeeds.
Return(w) ==
  /\ main = "drained" /\ reap = "done"
  /\ LET res == IF have = "none" THEN "lost" ELSE have
         writes == keeps /\ (outErr \/ have = "none")
     IN  /\ disk' = IF writes /\ w THEN res ELSE disk
         /\ ret' = [result |-> res,
                    persist |-> outErr \/ (writes /\ ~w) \/ (keeps /\ ~writes /\ disk = "none")]
  /\ main' = "returned"
  /\ UNCHANGED <<reap, cancelled, signalled>>
  /\ UNCHANGED proc /\ UNCHANGED reading /\ UNCHANGED fixed

Terminated == main = "returned" /\ UNCHANGED vars

Next ==
  \/ Cancel \/ WorkerEvent \/ WorkerExits \/ LeftoverEnds
  \/ \E kind \in {"mortal", "immortal"}, e \in BOOLEAN : WorkerSpawns(kind, e)
  \/ \E v \in Verdict : WorkerSaves(v) \/ WorkerResult(v)
  \/ StartFails \/ Terminate \/ Escalate \/ Refill \/ Read \/ Emitted \/ ReadEnds
  \/ Reap \/ KillTagged \/ DrainDone \/ DrainExpires
  \/ \E b \in BOOLEAN : Start(b) \/ DrainOutput(b) \/ Return(b)
  \/ Terminated

Spec == Init /\ [][Next]_vars

\* The goroutines are scheduled, timers expire, the sink returns, and a
\* killed worker exits.  Nothing is assumed of a worker that is not killed.
Fairness ==
  /\ WF_vars(Terminate) /\ WF_vars(Escalate)
  /\ WF_vars(signalled = "kill" /\ WorkerExits)
  /\ WF_vars(Refill) /\ WF_vars(Read) /\ WF_vars(Emitted) /\ WF_vars(ReadEnds)
  /\ WF_vars(Reap) /\ WF_vars(KillTagged) /\ WF_vars(DrainDone) /\ WF_vars(DrainExpires)
  /\ WF_vars(\E b \in BOOLEAN : DrainOutput(b))
  /\ WF_vars(\E b \in BOOLEAN : Return(b))

FairSpec == Spec /\ Fairness

-----------------------------------------------------------------------------

TypeOK ==
  /\ main \in {"start", "read", "emit", "drained", "returned"}
  /\ reap \in {"none", "wait", "kill", "drain", "output", "done"}
  /\ have \in Verdict \cup {"none"} /\ sent \in Verdict \cup {"none"}
  /\ pipe \in Seq(Verdict \cup {"event", "part"}) /\ Len(pipe) <= PipeRoom
  /\ buf \in Seq(Verdict \cup {"event", "part"}) /\ Len(buf) <= PipeRoom
  /\ {open, forced, cancelled, holdsEvents, keeps, outErr} \subseteq BOOLEAN
  /\ signalled \in {"none", "term", "quit", "kill"}
  /\ worker \in {"none", "running", "exited"} /\ left \in {"none", "mortal", "immortal"}
  /\ disk \in Verdict \cup {"none", "lost"}
  /\ ret \in [result : Verdict \cup {"none", "lost", "error"}, persist : BOOLEAN]

\* Launch never invents a result: one that is not dirty was written in full by
\* the worker, and said so.  And it never loses one: unless the drain's grace
\* ran out, what the worker wrote is what Launch returns, even if the worker
\* was killed or died right after the write.
ResultIsTheWorkers ==
  ret.result \in {"clean", "dirty", "lost"} =>
    /\ ret.result # "lost" => ret.result = sent
    /\ ~forced /\ sent # "none" => ret.result = sent

\* When Launch returns, the worker is gone and so is every process it left
\* that can be killed, whenever the worker started it: none of them is still
\* there when the node is handed to the next job.
NothingKillableLeft ==
  ret.result \in {"clean", "dirty", "lost"} => worker = "exited" /\ left # "mortal"

\* The variant's directory says what the run says: result.json holds the
\* result Launch returned, even if the worker wrote one and died before it
\* could send it, or else the result carries a PersistErr.
DiskAgrees ==
  keeps /\ ret.result \in {"clean", "dirty", "lost"} /\ ~ret.persist => disk = ret.result

\* A cancelled launch returns, and so does one whose worker has exited: no
\* leftover that holds a pipe and no worker that ignores SIGTERM wedges it.
LaunchReturns ==
  (worker = "exited" \/ (cancelled /\ worker = "running")) ~> (main = "returned")

=============================================================================

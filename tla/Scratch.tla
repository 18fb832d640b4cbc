------------------------------ MODULE Scratch ------------------------------
(***************************************************************************)
(* The scratch directories of the runs of one host (scratch.go).           *)
(*                                                                         *)
(* Each run makes a directory of its own under $TMPDIR/torx and holds a    *)
(* lock on the .lock file in it for as long as it lives.  A starting run   *)
(* first removes the directories of runs that are gone.  Runs take turns   *)
(* starting, under the lock of $TMPDIR/torx itself; Close takes no turn.   *)
(* A run may be killed between any two steps: the operating system then    *)
(* drops its locks and leaves its directory as it is.                      *)
(*                                                                         *)
(* os.MkdirTemp picks a fresh name, so a directory is named by its run.    *)
(***************************************************************************)
EXTENDS FiniteSets

CONSTANTS Run, Nil

ASSUME NilIsNoRun == Nil \notin Run

VARIABLES
  pc,        \* where each run is
  turn,      \* the run that holds the lock of the root, or Nil
  exists,    \* exists[d]: the directory of run d is there
  lockfile,  \* lockfile[d]: it has its .lock file
  holder,    \* holder[d]: the run that holds that file's lock, or Nil
  todo,      \* todo[r]: the entries r has still to look at in reapScratch
  target,    \* target[r]: the directory r is looking at or removing
  owed       \* owed[r]: a ghost, the directories r's turn has to remove

vars == <<pc, turn, exists, lockfile, holder, todo, target, owed>>

\* A run that is over, however it ended.
Over == {"closed", "failed", "dead"}

\* A run whose directory is made, and locked if the run still lives.
Past == {"live", "closeUnlink", "closeRmdir"} \cup Over

\* The steps of newRunScratch between taking the turn and ending it.
Reaping == {"list", "reap", "try", "unlink", "rmdir"}
Making == {"make", "open", "flock", "undo"}

\* The types, and that the turn is held by the run that is in it and by no
\* other (newRunScratch, scratch.go:41-54).
TypeOK ==
  /\ pc \in [Run -> {"idle", "wait"} \cup Reaping \cup Making \cup Past]
  /\ turn \in Run \cup {Nil}
  /\ exists \in [Run -> BOOLEAN]
  /\ lockfile \in [Run -> BOOLEAN]
  /\ holder \in [Run -> Run \cup {Nil}]
  /\ todo \in [Run -> SUBSET Run]
  /\ target \in [Run -> Run]
  /\ owed \in [Run -> SUBSET Run]
  /\ \A r \in Run : turn = r <=> pc[r] \in Reaping \cup Making

Init ==
  /\ pc = [r \in Run |-> "idle"]
  /\ turn = Nil
  /\ exists = [r \in Run |-> FALSE]
  /\ lockfile = [r \in Run |-> FALSE]
  /\ holder = [r \in Run |-> Nil]
  /\ todo = [r \in Run |-> {}]
  /\ target = [r \in Run |-> r]
  /\ owed = [r \in Run |-> {}]

Goto(r, l) == pc' = [pc EXCEPT ![r] = l]

-----------------------------------------------------------------------------
\* newRunScratch, up to the lock of the root.
Begin(r) ==
  /\ pc[r] = "idle"
  /\ Goto(r, "wait")
  /\ UNCHANGED <<turn, exists, lockfile, holder, todo, target, owed>>

\* The blocking flock of the root's lock, tried again on EINTR.  The
\* directories of the runs that are over by now are r's to remove.
TakeTurn(r) ==
  /\ pc[r] = "wait"
  /\ turn = Nil
  /\ turn' = r
  /\ owed' = [owed EXCEPT ![r] = {d \in Run : exists[d] /\ pc[d] \in Over}]
  /\ Goto(r, "list")
  /\ UNCHANGED <<exists, lockfile, holder, todo, target>>

\* os.ReadDir, which lists every directory or fails; then nothing is reaped.
List(r) ==
  /\ pc[r] = "list"
  /\ \/ /\ todo' = [todo EXCEPT ![r] = {d \in Run : exists[d]}]
        /\ Goto(r, "reap")
        /\ UNCHANGED owed
     \/ /\ owed' = [owed EXCEPT ![r] = {}]
        /\ Goto(r, "make")
        /\ UNCHANGED todo
  /\ UNCHANGED <<turn, exists, lockfile, holder, target>>

\* reapScratch turns to the next entry and opens its lock file: with no
\* file there the directory is to be removed.
Look(r) ==
  /\ pc[r] = "reap"
  /\ \E d \in todo[r] :
       /\ todo' = [todo EXCEPT ![r] = @ \ {d}]
       /\ target' = [target EXCEPT ![r] = d]
       /\ Goto(r, IF lockfile[d] THEN "try" ELSE "unlink")
  /\ UNCHANGED <<turn, exists, lockfile, holder, owed>>

\* reapScratch cannot open the lock file for some other reason, and goes on.
Skip(r) ==
  /\ pc[r] = "reap"
  /\ \E d \in todo[r] :
       /\ todo' = [todo EXCEPT ![r] = @ \ {d}]
       /\ owed' = [owed EXCEPT ![r] = @ \ {d}]
  /\ UNCHANGED <<pc, turn, exists, lockfile, holder, target>>

\* A reaper that does not try the lock: the lock file is enough.
TryLockNot(r) ==
  /\ pc[r] = "try"
  /\ Goto(r, "unlink")
  /\ UNCHANGED <<turn, exists, lockfile, holder, todo, target, owed>>

\* The non-blocking flock of an entry's lock file: a live run holds it, or
\* the directory is to be removed.
TryLock(r) ==
  /\ pc[r] = "try"
  /\ LET d == target[r] IN
       \/ /\ holder[d] = Nil
          /\ holder' = [holder EXCEPT ![d] = r]
          /\ Goto(r, "unlink")
       \/ /\ holder[d] # Nil
          /\ Goto(r, "reap")
          /\ UNCHANGED holder
  /\ UNCHANGED <<turn, exists, lockfile, todo, target, owed>>

\* os.RemoveAll of the target, first half: its contents, the lock file
\* among them.
Unlink(r) ==
  /\ pc[r] \in {"unlink", "closeUnlink"}
  /\ lockfile' = [lockfile EXCEPT ![target[r]] = FALSE]
  /\ Goto(r, IF pc[r] = "unlink" THEN "rmdir" ELSE "closeRmdir")
  /\ UNCHANGED <<turn, exists, holder, todo, target, owed>>

\* lock.Close: what r holds of the target's lock.
Released(r) ==
  [holder EXCEPT ![target[r]] = IF @ = r THEN Nil ELSE @]

\* os.RemoveAll, second half: the directory itself.  It is followed by
\* lock.Close, and by the next entry or the end of the run's Close.
Rmdir(r) ==
  /\ pc[r] \in {"rmdir", "closeRmdir"}
  /\ exists' = [exists EXCEPT ![target[r]] = FALSE]
  /\ holder' = Released(r)
  /\ Goto(r, IF pc[r] = "rmdir" THEN "reap" ELSE "closed")
  /\ UNCHANGED <<turn, lockfile, todo, target, owed>>

\* os.RemoveAll fails before it has removed everything; the error is
\* ignored, and what follows it is the same.
RemoveFails(r) ==
  /\ pc[r] \in {"unlink", "rmdir", "closeUnlink", "closeRmdir"}
  /\ holder' = Released(r)
  /\ owed' = [owed EXCEPT ![r] = @ \ {target[r]}]
  /\ Goto(r, IF pc[r] \in {"unlink", "rmdir"} THEN "reap" ELSE "closed")
  /\ UNCHANGED <<turn, exists, lockfile, todo, target>>

\* The end of reapScratch.
Reaped(r) ==
  /\ pc[r] = "reap"
  /\ todo[r] = {}
  /\ Goto(r, "make")
  /\ UNCHANGED <<turn, exists, lockfile, holder, todo, target, owed>>

\* os.MkdirTemp makes the run's directory, or fails and ends the start.
Make(r) ==
  /\ pc[r] = "make"
  /\ target' = [target EXCEPT ![r] = r]
  /\ \/ /\ exists' = [exists EXCEPT ![r] = TRUE]
        /\ Goto(r, "open")
        /\ UNCHANGED turn
     \/ /\ turn' = Nil
        /\ Goto(r, "failed")
        /\ UNCHANGED exists
  /\ UNCHANGED <<lockfile, holder, todo, owed>>

\* lockScratch creates the lock file, or fails.
Open(r) ==
  /\ pc[r] = "open"
  /\ \/ /\ lockfile' = [lockfile EXCEPT ![r] = TRUE]
        /\ Goto(r, "flock")
     \/ /\ Goto(r, "undo")
        /\ UNCHANGED lockfile
  /\ UNCHANGED <<turn, exists, holder, todo, target, owed>>

\* lockScratch takes the lock of the new file, or cannot.  newRunScratch
\* returns once it has it, and with that the turn ends.
Flock(r) ==
  /\ pc[r] = "flock"
  /\ \/ /\ holder[r] = Nil
        /\ holder' = [holder EXCEPT ![r] = r]
        /\ turn' = Nil
        /\ Goto(r, "live")
     \/ /\ Goto(r, "undo")
        /\ UNCHANGED <<holder, turn>>
  /\ UNCHANGED <<exists, lockfile, todo, target, owed>>

\* newRunScratch removes the directory it could not lock, if it can, and
\* returns the error.
Undo(r) ==
  /\ pc[r] = "undo"
  /\ \/ /\ exists' = [exists EXCEPT ![r] = FALSE]
        /\ lockfile' = [lockfile EXCEPT ![r] = FALSE]
     \/ UNCHANGED <<exists, lockfile>>
  /\ turn' = Nil
  /\ Goto(r, "failed")
  /\ UNCHANGED <<holder, todo, target, owed>>

\* The run ends and calls Close.
Close(r) ==
  /\ pc[r] = "live"
  /\ Goto(r, "closeUnlink")
  /\ UNCHANGED <<turn, exists, lockfile, holder, todo, target, owed>>

\* The process is killed: its locks go, its directory stays.
Kill(r) ==
  /\ pc[r] \notin {"idle"} \cup Over
  /\ Goto(r, "dead")
  /\ turn' = IF turn = r THEN Nil ELSE turn
  /\ holder' = [d \in Run |-> IF holder[d] = r THEN Nil ELSE holder[d]]
  /\ UNCHANGED <<exists, lockfile, todo, target, owed>>

\* The steps newRunScratch and Close take by themselves.
Step(r) ==
  \/ TakeTurn(r) \/ List(r) \/ Look(r) \/ Skip(r) \/ TryLock(r)
  \/ Unlink(r) \/ Rmdir(r) \/ RemoveFails(r) \/ Reaped(r)
  \/ Make(r) \/ Open(r) \/ Flock(r) \/ Undo(r)

Next == \E r \in Run : Begin(r) \/ Step(r) \/ Close(r) \/ Kill(r)

Spec == Init /\ [][Next]_vars

\* While some run that is not killed can go on, one of them does; every run
\* is bounded, so that each gets its turn.
Fairness == WF_vars(\E r \in Run : Step(r))

FairSpec == Spec /\ Fairness
-----------------------------------------------------------------------------
\* While a run lives its directory is there, with its lock file, and the
\* lock is its own: no reaper, however its steps fall between the others',
\* removes a live run's directory (the comment on runScratch, scratch.go:24).
LiveKept ==
  \A r \in Run : pc[r] = "live" =>
    exists[r] /\ lockfile[r] /\ holder[r] = r

\* A run that has reaped without an error has removed every directory whose
\* run was over when its turn began, wherever that run was killed: before
\* its lock file was made, before it was locked, or half way through a
\* removal of its own (reapScratch, scratch.go:97).
DeadReaped ==
  \A r \in Run : pc[r] \in {"make", "open", "flock"} =>
    \A d \in owed[r] : ~exists[d]

\* A start returns, or is killed: nobody waits for a turn for ever
\* (newRunScratch, scratch.go:36).
NewScratchReturns ==
  (\E r \in Run : pc[r] = "wait") ~> (\A r \in Run : pc[r] \in {"idle"} \cup Past)

\* A reaper removes the directories of the runs that were over, all of them, and
\* none of a run that lives.
ReapedExactly == LiveKept /\ DeadReaped
=============================================================================

--------------------------- MODULE ScratchProofs ---------------------------
(***************************************************************************)
(* For any number of runs: a live run keeps its directory, and a run that  *)
(* reaps removes those of the runs that were over.                         *)
(***************************************************************************)
EXTENDS Scratch, TLAPS

\* A run's own directory is its target from the moment it makes it.
OwnTarget ==
  \A r \in Run :
    pc[r] \in {"open", "flock", "undo", "live", "closeUnlink", "closeRmdir"}
      => target[r] = r

\* A directory belongs to a run that made it, and nobody disturbs one that
\* is being made.
MadeByRun ==
  \A r \in Run :
    /\ exists[r] => pc[r] \in Past \cup {"open", "flock", "undo"}
    /\ pc[r] \in {"open", "flock"} => exists[r]
    /\ pc[r] = "flock" => lockfile[r]

\* What a reaper looks at belongs to runs that have had their turn, and what
\* it removes to a run that is not live.
SeenIsPast ==
  \A r \in Run :
    /\ pc[r] \in {"reap", "try", "unlink", "rmdir"} =>
         \A d \in todo[r] : pc[d] \in Past
    /\ pc[r] \in {"try", "unlink", "rmdir"} => pc[target[r]] \in Past
    /\ pc[r] \in {"unlink", "rmdir"} => pc[target[r]] # "live"

\* A lock is held by the run whose directory it is, or by the reaper that
\* removes it.
HeldForCause ==
  \A d \in Run : holder[d] # Nil =>
    \/ holder[d] = d /\ pc[d] \in {"live", "closeUnlink", "closeRmdir"}
    \/ pc[holder[d]] \in {"unlink", "rmdir"} /\ target[holder[d]] = d

\* What a reaper owes it has yet to look at, or is removing.
OwedIsListed ==
  \A r \in Run : \A d \in owed[r] :
    /\ pc[d] \in Over
    /\ pc[r] \in {"reap", "try", "unlink", "rmdir"} /\ exists[d] =>
         d \in todo[r] \/ (pc[r] # "reap" /\ d = target[r])

Inv ==
  /\ TypeOK
  /\ OwnTarget
  /\ MadeByRun
  /\ SeenIsPast
  /\ HeldForCause
  /\ OwedIsListed
  /\ LiveKept
  /\ DeadReaped

\* Initially no run has started (Init).
LEMMA InitInv == Init => Inv
  BY NilIsNoRun DEF Init, Inv, TypeOK, OwnTarget, MadeByRun, SeenIsPast,
     HeldForCause, OwedIsListed, LiveKept, DeadReaped, Past, Over, Reaping,
     Making

\* Every step of a run, and its death, keeps the invariant.
LEMMA NextInv == Inv /\ [Next]_vars => Inv'
<1> SUFFICES ASSUME Inv, [Next]_vars PROVE Inv'
  BY Zenon
<1> USE NilIsNoRun DEF Inv, TypeOK, Past, Over, Reaping, Making, Goto
<1>1. ASSUME NEW r \in Run, Begin(r) PROVE Inv'
  <2> USE <1>1 DEF Begin
  <2>1. TypeOK'
    BY Zenon
  <2>2. OwnTarget'
    BY Zenon DEF OwnTarget
  <2>3. MadeByRun'
    BY Zenon DEF MadeByRun
  <2>4. SeenIsPast'
    BY DEF SeenIsPast
  <2>5. HeldForCause'
    BY DEF HeldForCause
  <2>6. OwedIsListed'
    BY DEF OwedIsListed
  <2>7. LiveKept'
    BY Zenon DEF LiveKept
  <2>8. DeadReaped'
    BY Zenon DEF DeadReaped
  <2> QED
    BY <2>1, <2>2, <2>3, <2>4, <2>5, <2>6, <2>7, <2>8, Zenon
<1>2. ASSUME NEW r \in Run, TakeTurn(r) PROVE Inv'
  <2> USE <1>2 DEF TakeTurn
  <2>1. TypeOK'
    OBVIOUS
  <2>2. OwnTarget'
    BY Zenon DEF OwnTarget
  <2>3. MadeByRun'
    BY Zenon DEF MadeByRun
  <2>4. SeenIsPast'
    BY DEF SeenIsPast
  <2>5. HeldForCause'
    BY DEF HeldForCause
  <2>6. OwedIsListed'
    BY DEF OwedIsListed
  <2>7. LiveKept'
    BY Zenon DEF LiveKept
  <2>8. DeadReaped'
    BY Zenon DEF DeadReaped
  <2> QED
    BY <2>1, <2>2, <2>3, <2>4, <2>5, <2>6, <2>7, <2>8, Zenon
<1>3. ASSUME NEW r \in Run, List(r) PROVE Inv'
  <2> USE <1>3 DEF List
  <2>1. TypeOK'
    OBVIOUS
  <2>2. OwnTarget'
    BY DEF OwnTarget
  <2>3. MadeByRun'
    BY DEF MadeByRun
  <2>4. SeenIsPast'
    BY DEF SeenIsPast, MadeByRun
  <2>5. HeldForCause'
    BY DEF HeldForCause
  <2>6. OwedIsListed'
    BY DEF OwedIsListed, OwnTarget
  <2>7. LiveKept'
    BY DEF LiveKept
  <2>8. DeadReaped'
    BY DEF DeadReaped
  <2> QED
    BY <2>1, <2>2, <2>3, <2>4, <2>5, <2>6, <2>7, <2>8, Zenon
<1>4. ASSUME NEW r \in Run, Look(r) PROVE Inv'
  <2> USE <1>4 DEF Look
  <2>1. TypeOK'
    OBVIOUS
  <2>2. OwnTarget'
    BY DEF OwnTarget
  <2>3. MadeByRun'
    BY DEF MadeByRun
  <2>4. SeenIsPast'
    BY DEF SeenIsPast, LiveKept
  <2>5. HeldForCause'
    BY DEF HeldForCause
  <2>6. OwedIsListed'
    BY DEF OwedIsListed
  <2>7. LiveKept'
    BY DEF LiveKept
  <2>8. DeadReaped'
    BY DEF DeadReaped
  <2> QED
    BY <2>1, <2>2, <2>3, <2>4, <2>5, <2>6, <2>7, <2>8, Zenon
<1>5. ASSUME NEW r \in Run, Skip(r) PROVE Inv'
  <2> USE <1>5 DEF Skip
  <2>1. TypeOK'
    OBVIOUS
  <2>2. OwnTarget'
    BY Zenon DEF OwnTarget
  <2>3. MadeByRun'
    BY Zenon DEF MadeByRun
  <2>4. SeenIsPast'
    BY DEF SeenIsPast
  <2>5. HeldForCause'
    BY Zenon DEF HeldForCause
  <2>6. OwedIsListed'
    BY DEF OwedIsListed
  <2>7. LiveKept'
    BY Zenon DEF LiveKept
  <2>8. DeadReaped'
    BY Zenon DEF DeadReaped
  <2> QED
    BY <2>1, <2>2, <2>3, <2>4, <2>5, <2>6, <2>7, <2>8, Zenon
<1>6. ASSUME NEW r \in Run, TryLock(r) PROVE Inv'
  <2> USE <1>6 DEF TryLock
  <2>1. TypeOK'
    OBVIOUS
  <2>2. OwnTarget'
    BY DEF OwnTarget
  <2>3. MadeByRun'
    BY DEF MadeByRun
  <2>4. SeenIsPast'
    BY SMTT(30) DEF SeenIsPast, LiveKept
  <2>5. HeldForCause'
    BY DEF HeldForCause
  <2>6. OwedIsListed'
    BY DEF OwedIsListed, OwnTarget, HeldForCause
  <2>7. LiveKept'
    BY DEF LiveKept
  <2>8. DeadReaped'
    BY DEF DeadReaped
  <2> QED
    BY <2>1, <2>2, <2>3, <2>4, <2>5, <2>6, <2>7, <2>8, Zenon
<1>7. ASSUME NEW r \in Run, Unlink(r) PROVE Inv'
  <2> USE <1>7 DEF Unlink
  <2>1. TypeOK'
    BY Zenon
  <2>2. OwnTarget'
    BY Zenon DEF OwnTarget
  <2>3. MadeByRun'
    BY DEF MadeByRun, OwnTarget
  <2>4. SeenIsPast'
    BY DEF SeenIsPast
  <2>5. HeldForCause'
    BY DEF HeldForCause
  <2>6. OwedIsListed'
    BY DEF OwedIsListed
  <2>7. LiveKept'
    BY DEF LiveKept, OwnTarget, SeenIsPast
  <2>8. DeadReaped'
    BY Zenon DEF DeadReaped
  <2> QED
    BY <2>1, <2>2, <2>3, <2>4, <2>5, <2>6, <2>7, <2>8, Zenon
<1>8. ASSUME NEW r \in Run, Rmdir(r) PROVE Inv'
  <2> USE <1>8 DEF Rmdir, Released
  <2>1. TypeOK'
    BY Zenon
  <2>2. OwnTarget'
    BY Zenon DEF OwnTarget
  <2>3. MadeByRun'
    BY DEF MadeByRun, OwnTarget
  <2>4. SeenIsPast'
    BY DEF SeenIsPast
  <2>5. HeldForCause'
    BY DEF HeldForCause, OwnTarget
  <2>6. OwedIsListed'
    BY DEF OwedIsListed
  <2>7. LiveKept'
    BY DEF LiveKept, OwnTarget, SeenIsPast
  <2>8. DeadReaped'
    BY Zenon DEF DeadReaped
  <2> QED
    BY <2>1, <2>2, <2>3, <2>4, <2>5, <2>6, <2>7, <2>8, Zenon
<1>9. ASSUME NEW r \in Run, RemoveFails(r) PROVE Inv'
  <2> USE <1>9 DEF RemoveFails, Released
  <2>1. TypeOK'
    BY Zenon
  <2>2. OwnTarget'
    BY Zenon DEF OwnTarget
  <2>3. MadeByRun'
    BY Zenon DEF MadeByRun
  <2>4. SeenIsPast'
    BY DEF SeenIsPast
  <2>5. HeldForCause'
    BY DEF HeldForCause, OwnTarget
  <2>6. OwedIsListed'
    BY DEF OwedIsListed
  <2>7. LiveKept'
    BY DEF LiveKept
  <2>8. DeadReaped'
    BY Zenon DEF DeadReaped
  <2> QED
    BY <2>1, <2>2, <2>3, <2>4, <2>5, <2>6, <2>7, <2>8, Zenon
<1>10. ASSUME NEW r \in Run, Reaped(r) PROVE Inv'
  <2> USE <1>10 DEF Reaped
  <2>1. TypeOK'
    BY Zenon
  <2>2. OwnTarget'
    BY Zenon DEF OwnTarget
  <2>3. MadeByRun'
    BY DEF MadeByRun
  <2>4. SeenIsPast'
    BY DEF SeenIsPast
  <2>5. HeldForCause'
    BY DEF HeldForCause
  <2>6. OwedIsListed'
    BY DEF OwedIsListed
  <2>7. LiveKept'
    BY Zenon DEF LiveKept
  <2>8. DeadReaped'
    BY DEF DeadReaped, OwedIsListed
  <2> QED
    BY <2>1, <2>2, <2>3, <2>4, <2>5, <2>6, <2>7, <2>8, Zenon
<1>11. ASSUME NEW r \in Run, Make(r) PROVE Inv'
  <2> USE <1>11 DEF Make
  <2>1. TypeOK'
    <3>1. exists' \in [Run -> BOOLEAN]
      BY Zenon
    <3>2. pc' \in [Run -> {"idle", "wait"} \cup Reaping \cup Making \cup Past]
      OBVIOUS
    <3>3. \A q \in Run : turn' = q <=> pc'[q] \in Reaping \cup Making
      OBVIOUS
    <3> QED
      BY <3>1, <3>2, <3>3, Zenon
  <2>2. OwnTarget'
    BY DEF OwnTarget
  <2>3. MadeByRun'
    BY DEF MadeByRun
  <2>4. SeenIsPast'
    BY DEF SeenIsPast
  <2>5. HeldForCause'
    BY DEF HeldForCause
  <2>6. OwedIsListed'
    BY DEF OwedIsListed
  <2>7. LiveKept'
    BY DEF LiveKept
  <2>8. DeadReaped'
    BY SMTT(30) DEF DeadReaped, OwedIsListed
  <2> QED
    BY <2>1, <2>2, <2>3, <2>4, <2>5, <2>6, <2>7, <2>8, Zenon
<1>12. ASSUME NEW r \in Run, Open(r) PROVE Inv'
  <2> USE <1>12 DEF Open
  <2>1. TypeOK'
    BY ZenonT(30)
  <2>2. OwnTarget'
    BY DEF OwnTarget
  <2>3. MadeByRun'
    BY DEF MadeByRun
  <2>4. SeenIsPast'
    BY DEF SeenIsPast
  <2>5. HeldForCause'
    BY DEF HeldForCause
  <2>6. OwedIsListed'
    BY DEF OwedIsListed
  <2>7. LiveKept'
    BY DEF LiveKept
  <2>8. DeadReaped'
    BY DEF DeadReaped
  <2> QED
    BY <2>1, <2>2, <2>3, <2>4, <2>5, <2>6, <2>7, <2>8, Zenon
<1>13. ASSUME NEW r \in Run, Flock(r) PROVE Inv'
  <2> USE <1>13 DEF Flock
  <2>1. TypeOK'
    OBVIOUS
  <2>2. OwnTarget'
    BY DEF OwnTarget
  <2>3. MadeByRun'
    BY DEF MadeByRun
  <2>4. SeenIsPast'
    BY DEF SeenIsPast
  <2>5. HeldForCause'
    BY DEF HeldForCause
  <2>6. OwedIsListed'
    BY DEF OwedIsListed
  <2>7. LiveKept'
    BY DEF LiveKept, MadeByRun
  <2>8. DeadReaped'
    BY DEF DeadReaped
  <2> QED
    BY <2>1, <2>2, <2>3, <2>4, <2>5, <2>6, <2>7, <2>8, Zenon
<1>14. ASSUME NEW r \in Run, Undo(r) PROVE Inv'
  <2> USE <1>14 DEF Undo
  <2>1. TypeOK'
    BY Zenon
  <2>2. OwnTarget'
    BY Zenon DEF OwnTarget
  <2>3. MadeByRun'
    BY DEF MadeByRun
  <2>4. SeenIsPast'
    BY DEF SeenIsPast
  <2>5. HeldForCause'
    BY DEF HeldForCause
  <2>6. OwedIsListed'
    BY DEF OwedIsListed
  <2>7. LiveKept'
    BY DEF LiveKept
  <2>8. DeadReaped'
    BY Zenon DEF DeadReaped
  <2> QED
    BY <2>1, <2>2, <2>3, <2>4, <2>5, <2>6, <2>7, <2>8, Zenon
<1>15. ASSUME NEW r \in Run, Close(r) PROVE Inv'
  <2> USE <1>15 DEF Close
  <2>1. TypeOK'
    BY Zenon
  <2>2. OwnTarget'
    BY Zenon DEF OwnTarget
  <2>3. MadeByRun'
    BY Zenon DEF MadeByRun
  <2>4. SeenIsPast'
    BY DEF SeenIsPast
  <2>5. HeldForCause'
    BY DEF HeldForCause
  <2>6. OwedIsListed'
    BY DEF OwedIsListed
  <2>7. LiveKept'
    BY DEF LiveKept
  <2>8. DeadReaped'
    BY Zenon DEF DeadReaped
  <2> QED
    BY <2>1, <2>2, <2>3, <2>4, <2>5, <2>6, <2>7, <2>8, Zenon
<1>16. ASSUME NEW r \in Run, Kill(r) PROVE Inv'
  <2> USE <1>16 DEF Kill
  <2>1. TypeOK'
    OBVIOUS
  <2>2. OwnTarget'
    BY DEF OwnTarget
  <2>3. MadeByRun'
    BY Zenon DEF MadeByRun
  <2>4. SeenIsPast'
    BY DEF SeenIsPast
  <2>5. HeldForCause'
    BY DEF HeldForCause
  <2>6. OwedIsListed'
    BY DEF OwedIsListed
  <2>7. LiveKept'
    BY DEF LiveKept
  <2>8. DeadReaped'
    BY DEF DeadReaped
  <2> QED
    BY <2>1, <2>2, <2>3, <2>4, <2>5, <2>6, <2>7, <2>8, Zenon
<1>17. CASE UNCHANGED vars
  BY <1>17 DEF vars, OwnTarget, MadeByRun, SeenIsPast, HeldForCause,
     OwedIsListed, LiveKept, DeadReaped
<1> QED
  BY <1>1, <1>2, <1>3, <1>4, <1>5, <1>6, <1>7, <1>8, <1>9, <1>10, <1>11, <1>12, <1>13, <1>14, <1>15, <1>16, <1>17, Zenon DEF Next, Step

\* The invariant holds throughout.
THEOREM ScratchInvariance == Spec => []Inv
  BY InitInv, NextInv, PTL DEF Spec

\* No reaper removes the directory of a live run, for any number of runs
\* (scratch.go:24).
THEOREM LiveIsKept == Spec => []LiveKept
<1>1. Inv => LiveKept
  BY Zenon DEF Inv
<1> QED
  BY <1>1, ScratchInvariance, PTL

\* A run that reaps without an error removes every directory whose run was
\* over when its turn began, for any number of runs (scratch.go:97).
THEOREM DeadIsReaped == Spec => []DeadReaped
<1>1. Inv => DeadReaped
  BY Zenon DEF Inv
<1> QED
  BY <1>1, ScratchInvariance, PTL

\* For any number of runs, killed wherever they are, reaping is exact
\* (reapScratch).
THEOREM ReapIsExact == Spec => []ReapedExactly
BY LiveIsKept, DeadIsReaped, PTL DEF ReapedExactly
=============================================================================

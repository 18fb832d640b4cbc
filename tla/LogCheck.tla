------------------------------ MODULE LogCheck ------------------------------
(***************************************************************************)
(* The log checker (logcheck/logcheck.go), run on the histories a log and  *)
(* its clients can produce.                                                *)
(*                                                                         *)
(* The clients send each append in one or more attempts, read the last     *)
(* entry of a key, and note when each call was sent and answered.  The log *)
(* takes an attempt at any time after it was sent, also once its client    *)
(* has given it up.  A log without a fault must never be accused; one with *)
(* a fault must be, when the history shows it.                             *)
(***************************************************************************)
EXTENDS Integers, Sequences, SequencesExt, FiniteSets

CONSTANTS Values,       \* the appends, each by its unique value
          Setups,       \* what the clients and the log may do, see below
          MaxOffset

None == -1  \* no condition

VARIABLES setup,  \* one of Setups, which never changes
          app,    \* what each append is
          tries,  \* its attempts: [call, ret, outcome, off]
          fate,   \* what the log did with each: [at: 0 or its offset, state]
          log,    \* offset -> [key, value]
          reads,  \* the reads: [key, call, ret, off, value], ret = 0 while open
          clock

vars == <<setup, app, tries, fate, log, reads, clock>>

Kinds == setup.kinds    \* the appends to choose from: [key, idem, afterKey, afterLog]
Faults == setup.faults  \* of "lose", "dup", "fill", "stale": what the log does wrong
MaxTries == setup.tries \* attempts of an append
MaxReads == setup.reads
MaxCalls == setup.calls \* attempts and reads together
MaxTime == setup.time
Inf == MaxTime + 1  \* linearize.Pending
Keys == {a.key : a \in Kinds}

Offsets == DOMAIN log
MaxIn(S) == IF S = {} THEN 0 ELSE CHOOSE x \in S : \A y \in S : y <= x
MinIn(S) == CHOOSE x \in S : \A y \in S : x <= y
LastOf(k) == MaxIn({o \in Offsets : log[o].key = k})

-----------------------------------------------------------------------------
(* The clients and the log.                                                *)

Init ==
  /\ setup \in Setups
  /\ app \in [Values -> Kinds]
  /\ tries = [v \in Values |-> <<>>] /\ fate = [v \in Values |-> <<>>]
  /\ log = <<>> /\ reads = <<>> /\ clock = 1

\* Whether there may be another attempt or read.
MayCall == Len(reads) + Cardinality({<<v, i>> \in Values \X (1..MaxTries) : i \in DOMAIN tries[v]}) < MaxCalls

\* Two events may read the same time.
Tick == clock' \in {clock, clock + 1} /\ clock' <= MaxTime

\* An attempt, the first or a resend; an earlier one that has no answer yet is
\* given up, and stays unknown.
Send(v) ==
  /\ Len(tries[v]) < MaxTries /\ MayCall /\ Tick
  /\ tries' = [tries EXCEPT ![v] = Append(@, [call |-> clock', ret |-> 0, outcome |-> "unknown", off |-> 0])]
  /\ fate' = [fate EXCEPT ![v] = Append(@, [state |-> "sent", at |-> 0])]
  /\ UNCHANGED <<app, log, reads>>

Accepted(v) ==
  /\ app[v].afterKey \in {None, LastOf(app[v].key)}
  /\ app[v].afterLog \in {None, MaxIn(Offsets)}

\* Where the log may put an entry: after its last, or, with the fault, anywhere.
Places ==
  IF "fill" \in Faults THEN 1..MaxOffset \ Offsets ELSE {MaxIn(Offsets) + 1} \cap 1..MaxOffset

Held(v) == {o \in Offsets : log[o].value = v}

Settle(v, i, s, o) == fate' = [fate EXCEPT ![v][i] = [state |-> s, at |-> o]]

Take(v, i) ==
  /\ fate[v][i].state = "sent"
  /\ \/ /\ app[v].idem /\ Held(v) # {}  \* deduplicated
        /\ Settle(v, i, "took", MinIn(Held(v))) /\ UNCHANGED log
     \/ /\ ~Accepted(v)
        /\ Settle(v, i, "refused", 0) /\ UNCHANGED log
     \/ /\ Accepted(v) /\ (app[v].idem => Held(v) = {} \/ "dup" \in Faults)
        /\ \E o \in Places :
             /\ log' = [x \in Offsets \cup {o} |->
                          IF x = o THEN [key |-> app[v].key, value |-> v] ELSE log[x]]
             /\ Settle(v, i, "took", o)
  /\ UNCHANGED <<app, tries, reads, clock>>

\* The answer to the last attempt reaches its client.
Answer(v) ==
  LET i == Len(tries[v])
      f == fate[v][i] IN
  /\ i > 0 /\ f.state # "sent" /\ tries[v][i].ret = 0 /\ Tick
  /\ tries' = [tries EXCEPT ![v][i] =
       [@ EXCEPT !.ret = clock', !.outcome = IF f.state = "took" THEN "ok" ELSE "failed", !.off = f.at]]
  /\ UNCHANGED <<app, fate, log, reads>>

\* One reader, one read after the other; what it saw is fixed by LookUp.
StartRead(k) ==
  /\ Len(reads) < MaxReads /\ MayCall /\ (reads # <<>> => Last(reads).ret # 0) /\ Tick
  /\ reads' = Append(reads, [key |-> k, call |-> clock', ret |-> 0, off |-> None, value |-> None])
  /\ UNCHANGED <<app, tries, fate, log>>

LookUp ==
  /\ reads # <<>> /\ Last(reads).off = None
  /\ LET k == Last(reads).key IN
     \E o \in {LastOf(k)} \cup (IF "stale" \in Faults
                                THEN {0} \cup {x \in Offsets : log[x].key = k} ELSE {}) :
       reads' = [reads EXCEPT ![Len(reads)] =
         [@ EXCEPT !.off = o, !.value = IF o = 0 THEN None ELSE log[o].value]]
  /\ UNCHANGED <<app, tries, fate, log, clock>>

EndRead ==
  /\ reads # <<>> /\ Last(reads).off # None /\ Last(reads).ret = 0 /\ Tick
  /\ reads' = [reads EXCEPT ![Len(reads)].ret = clock']
  /\ UNCHANGED <<app, tries, fate, log>>

\* The fault: an entry is gone from the log.
Lose ==
  /\ "lose" \in Faults
  /\ \E o \in Offsets : log' = [x \in Offsets \ {o} |-> log[x]]
  /\ UNCHANGED <<app, tries, fate, reads, clock>>

Next ==
  /\ \/ \E v \in Values : \/ Send(v) \/ Answer(v)
                          \/ \E i \in DOMAIN fate[v] : Take(v, i)
     \/ \E k \in Keys : StartRead(k)
     \/ LookUp \/ EndRead \/ Lose
  /\ UNCHANGED setup

Spec == Init /\ [][Next]_vars

-----------------------------------------------------------------------------
(* The checker: Check and realtimeOrder.                                   *)

Appended == {v \in Values : tries[v] # <<>>}
Tried(v) == ToSet(tries[v])
Acks(v) == {t \in Tried(v) : t.outcome = "ok"}
Could(v) == Cardinality({i \in DOMAIN tries[v] : tries[v][i].outcome # "failed"})

\* The last offset in S before o, or 0.
Before(S, o) == MaxIn({x \in S : x < o})

\* The attempts whose acks named copy o as the one they placed.
Placing(v, o) == {t \in Acks(v) : ~app[v].idem /\ t.off = o}

\* When the attempts that no copy is known to come from were sent: those not
\* refused or, if there are none, those refused.
LeftOver(v) ==
  LET Sent(Keep(_)) == [i \in DOMAIN SelectSeq(tries[v], Keep) |-> SelectSeq(tries[v], Keep)[i].call]
      Unplaced(t) == t.outcome # "failed" /\ ~(t.outcome = "ok" /\ ~app[v].idem /\ t.off \in Held(v))
      Refused(t) == t.outcome = "failed" IN
  SortSeq(IF Sent(Unplaced) # <<>> THEN Sent(Unplaced) ELSE Sent(Refused), <)

\* A faulty version: every copy may come from the append's first attempt.
CallsFirst(v, o) == MinIn({t.call : t \in Tried(v)})

\* When copy o of v was sent, at the earliest: by the attempt whose ack named
\* it, or, the j-th unplaced copy, no earlier than the j-th attempt left over.
Calls(v, o) ==
  IF Placing(v, o) # {} THEN MinIn({t.call : t \in Placing(v, o)})
  ELSE LET left == LeftOver(v)
           j == Cardinality({x \in Held(v) : x <= o /\ Placing(v, x) = {}}) IN
       IF left = <<>> THEN MinIn({t.call : t \in Tried(v)})
       ELSE left[IF j <= Len(left) THEN j ELSE Len(left)]

Duplicated(v) == Cardinality(Held(v)) > 1 /\ (app[v].idem \/ Cardinality(Held(v)) > Could(v))

Lost(v) ==
  \/ \E t \in Acks(v) : t.off \notin Offsets
  \/ /\ ~app[v].idem  \* one copy acked to two attempts
     /\ \E i, j \in DOMAIN tries[v] :
          i # j /\ {tries[v][i], tries[v][j]} \subseteq Acks(v) /\ tries[v][i].off = tries[v][j].off

Mismatched(v) ==
  \E t \in Acks(v) : t.off \in Offsets /\ log[t.off] # [key |-> app[v].key, value |-> v]

Misfiled(v) ==
  \E o \in Held(v) : log[o].key # app[v].key /\ \A t \in Acks(v) : t.off # o

Unconditional(v) ==
  \E o \in Held(v) :
    \/ app[v].afterKey \notin {None, Before({x \in Offsets : log[x].key = app[v].key}, o)}
    \/ app[v].afterLog \notin {None, Before(Offsets, o)}

\* A copy the log holds before one acked before it was sent.
Disordered(v) ==
  \E o \in Held(v) : \E w \in Appended : \E t \in Acks(w) :
    t.off \in Held(w) /\ t.ret < Calls(v, o) /\ o < t.off

\* Check: the kinds of anomaly, each with the values it concerns.
Check ==
  [failedVisible |-> {v \in Appended : Could(v) = 0 /\ Held(v) # {}},
   duplicate |-> {v \in Appended : Could(v) # 0 /\ Duplicated(v)},
   lost |-> {v \in Appended : Lost(v)},
   ackMismatch |-> {v \in Appended : Mismatched(v)},
   misfiled |-> {v \in Appended : Misfiled(v)},
   condition |-> {v \in Appended : Unconditional(v)},
   phantom |-> {log[o].value : o \in Offsets} \ Appended,
   realtimeOrder |-> {v \in Appended : Disordered(v)}]

-----------------------------------------------------------------------------
(* The checker: windows and CheckReads.                                    *)

Answered == {r \in ToSet(reads) : r.ret # 0}

Dirty(r) == r.off # 0 /\ (r.off \notin Offsets \/ log[r.off] # [key |-> r.key, value |-> r.value])
Clean == {r \in Answered : ~Dirty(r)}

\* The offsets of the entries that some append put in the log.
Placed == {o \in Offsets : log[o].value \in Appended}

\* An entry's own bounds: its attempt's call, and the first ack that named it.
Own(o) ==
  LET v == log[o].value IN
  [lo |-> Calls(v, o), hi |-> MinIn({t.ret : t \in {u \in Acks(v) : u.off = o}} \cup {Inf})]

\* The earliest any entry at or after o was acked or read.
Ceil(o, own, seen) ==
  MinIn({seen[x] : x \in {y \in Offsets : y >= o}} \cup {own[x].hi : x \in {y \in Placed : y >= o}})

\* When each entry landed, the log being one sequence: no earlier than any
\* before it was sent, no later than any after it was acked or seen by a read
\* that its floor does not rule out.  Contradictory bounds leave its own.
Windows ==
  LET own == [o \in Placed |-> Own(o)]
      floor == [o \in Offsets |-> MaxIn({own[x].lo : x \in {y \in Placed : y <= o}})]
      seen == [o \in Offsets |->
                 MinIn({r.ret : r \in {q \in Clean : q.off = o /\ q.ret >= floor[o]}} \cup {Inf})] IN
  [o \in Placed |-> LET ceil == Ceil(o, own, seen) IN
                    IF floor[o] <= ceil THEN [lo |-> floor[o], hi |-> ceil] ELSE own[o]]

\* The search, one key at a time.  The log's order settles the place of every
\* entry and of every read, so the history is linearizable unless real time
\* orders two operations the other way around.
History(k) ==
  LET landed == Windows IN
  {[call |-> landed[o].lo, ret |-> landed[o].hi, slot |-> 2 * o] : o \in {x \in Placed : log[x].key = k}}
  \cup {[call |-> r.call, ret |-> r.ret, slot |-> 2 * r.off + 1] :
          r \in {q \in Clean : q.key = k /\ q.off \in Placed \cup {0}}}

Nonlinearizable(k) ==
  LET h == History(k) IN \E x, y \in h : x.ret < y.call /\ x.slot > y.slot

CheckReads ==
  [dirtyRead |-> {r \in Answered : Dirty(r)}, nonlinearizableRead |-> {k \in Keys : Nonlinearizable(k)}]

-----------------------------------------------------------------------------
(* Properties.                                                             *)

\* Types; every copy of an append the log holds is given a time it was sent
\* at, by one of the append's attempts.
TypeOK ==
  /\ app \in [Values -> Kinds] /\ clock \in 1..MaxTime
  /\ Offsets \subseteq 1..MaxOffset /\ Len(reads) <= MaxReads
  /\ \A v \in Values : Len(tries[v]) = Len(fate[v]) /\ Len(tries[v]) <= MaxTries
  /\ \A v \in Appended : \A o \in Held(v) : Calls(v, o) \in {t.call : t \in Tried(v)}

\* Check and CheckReads accuse no correct log: whatever attempts were resent,
\* lost, delayed past their client's patience or taken after it, and however
\* events share a time, a log that only appends at its end, refuses what is not
\* acceptable and deduplicates yields no anomaly; and the bounds derived for when
\* each entry landed (windows) always leave room for where each read fits.
NoFalseAlarm ==
  Faults = {} => /\ LET found == Check IN \A kind \in DOMAIN found : found[kind] = {}
                 /\ LET found == CheckReads IN \A kind \in DOMAIN found : found[kind] = {}

\* An entry acked, or read, and then gone is reported (Check, CheckReads).
LossReported ==
  /\ \A v \in Appended : (\E t \in Acks(v) : t.off \notin Offsets) => v \in Check.lost
  /\ \A r \in Answered : r.off \notin Offsets \cup {0} => r \in CheckReads.dirtyRead

\* A second copy of an idempotent append is reported, and so is a copy more
\* than attempts that may have placed one.
DuplicateReported ==
  \A v \in Appended : Cardinality(Held(v)) > (IF app[v].idem THEN 1 ELSE Could(v)) =>
    v \in Check.duplicate \cup Check.failedVisible

\* A copy before an entry that was acked before the copy can have been sent is
\* reported: by every attempt, or by the one whose ack named it (calls).
OrderReported ==
  \A v, w \in Appended : \A o \in Held(v) : \A t \in Acks(w) :
    /\ t.off \in Held(w) /\ o < t.off
    /\ \A u \in (IF Placing(v, o) # {} THEN Placing(v, o) ELSE Tried(v)) : t.ret < u.call
    => v \in Check.realtimeOrder

\* A read that misses an entry of its key acked before the read was sent is
\* reported (CheckReads), and so is one older than an earlier read's answer.
StaleReported ==
  \A r \in Clean : r.off \in Placed \cup {0} =>
    /\ \A v \in Appended : \A t \in Acks(v) :
         t.off \in Held(v) /\ log[t.off].key = r.key /\ t.ret < r.call /\ r.off < t.off
         => r.key \in CheckReads.nonlinearizableRead
    /\ \A q \in Clean : q.key = r.key /\ q.off \in Placed /\ q.ret < r.call /\ r.off < q.off
         => r.key \in CheckReads.nonlinearizableRead
=============================================================================

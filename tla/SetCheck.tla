------------------------------ MODULE SetCheck ------------------------------
(***************************************************************************)
(* The set workload of the rqlite example and its checker: the clients of   *)
(* chaos.go, the outcomes of history.go and checkSet of checkset.go, run    *)
(* against a database that is correct or does one thing wrong.              *)
(*                                                                         *)
(* The database is external: a table in the order its adds were committed,  *)
(* read as far as the read's level promises.  The clock ticks with every    *)
(* start and every end of an operation.                                     *)
(***************************************************************************)
EXTENDS Naturals, FiniteSets, Sequences, SequencesExt

CONSTANTS
  Clients,
  ReadWindow,   \* readWindow, in values
  ReadFreshness,\* readFreshness, in ticks
  Setups,       \* [flaw, prog]: what the database does wrong, or "none", and the
                \* operations of each client, in order
  MaxAdds       \* bound: the adds of a program

VARIABLES
  flaw,         \* what this database does wrong
  prog,         \* what each client has still to do
  table,        \* the adds committed: [value, at]
  pend,         \* the adds that may still be committed: [value, queued]
  client,       \* the operation each client has in progress
  ops,          \* History.ops
  next,         \* the last value handed out
  now,          \* History.Now
  final,        \* what the final read returned
  told,         \* when a client was first told of each value; 0 is never
  shown         \* the anomalies the database's flaw has caused

setVars == <<flaw, prog, table, pend, client, ops, next, now, final, told, shown>>

Ok == "ok"
Info == "info"
Idle == [f |-> "idle"]
NotYet == <<0>>
Numbers == 1..MaxAdds

\* The values of a table above lower, in order.
Above(t, lower) == SelectSeq([i \in DOMAIN t |-> t[i].value], LAMBDA v : v > lower)
Twice(s) == {v \in Range(s) : Cardinality({i \in DOMAIN s : s[i] = v}) > 1}

SetInit ==
  /\ \E s \in Setups : flaw = s.flaw /\ prog = s.prog
  /\ table = <<>> /\ pend = {} /\ client = [c \in Clients |-> Idle]
  /\ ops = {} /\ next = 0 /\ now = 1 /\ final = NotYet
  /\ told = [v \in Numbers |-> 0] /\ shown = {}

Tick == now' = now + 1

-----------------------------------------------------------------------------
(* chaosJob.client                                                          *)
Begins(c, f) ==
  /\ client[c] = Idle /\ prog[c] # <<>> /\ Head(prog[c]).f = f
  /\ prog' = [prog EXCEPT ![c] = Tail(@)] /\ Tick

Add(c) ==
  /\ Begins(c, "add")
  /\ next' = next + 1
  /\ client' = [client EXCEPT ![c] = [f |-> "add", value |-> next + 1, start |-> now']]
  /\ pend' = pend \cup {[value |-> next + 1, queued |-> Head(prog[c]).queued]}
  /\ UNCHANGED <<flaw, table, ops, final, told, shown>>

Read(c) ==
  /\ Begins(c, "read")
  /\ client' = [client EXCEPT ![c] =
       [f |-> "read", mode |-> Head(prog[c]).mode, start |-> now', len |-> Len(table),
        lower |-> IF Head(prog[c]).whole \/ next < ReadWindow THEN 0 ELSE next - ReadWindow]]
  /\ UNCHANGED <<flaw, table, pend, ops, next, final, told, shown>>

Tell(vs) == told' = [v \in Numbers |-> IF v \in vs /\ told[v] = 0 THEN now' ELSE told[v]]
Record(c, op) == ops' = ops \cup {op} /\ client' = [client EXCEPT ![c] = Idle]

\* Faulty variant: an error from the database is taken for a refusal.
ClassifyFails(err) == IF err = "" THEN Ok ELSE "fail"

\* classify: only a refused connection and an answer that no leader is known say
\* that the write did not happen.
Classify(err) == CASE err = "" -> Ok [] err \in {"dial", "no leader"} -> "fail" [] OTHER -> Info

\* The add is answered, refused before it got anywhere, or given up on.
AddEnds(c, err) ==
  LET v == client[c].value
      committed == \E e \in Range(table) : e.value = v
  IN  /\ client[c].f = "add" /\ Tick
      /\ err = "" => committed
      /\ err \in {"dial", "no leader"} => ~committed
      /\ pend' = IF err \in {"dial", "no leader"} /\ flaw # "revive" THEN {p \in pend : p.value # v} ELSE pend
      /\ Record(c, [f |-> "add", value |-> v, start |-> client[c].start, end |-> now', outcome |-> Classify(err)])
      /\ Tell(IF err = "" THEN {v} ELSE {})
      /\ UNCHANGED <<flaw, prog, table, next, final, shown>>

\* The read is served from the first n adds of the table, as few as its level
\* allows, or as a stale database has.  One that fails is not recorded as
\* anything checkSet uses.
Served(op) ==
  CASE flaw = "stale" \/ op.mode \in {"weak", "none"} -> 0
    [] op.mode = "strong" -> op.len
    [] op.mode = "fresh" -> Cardinality({i \in DOMAIN table : table[i].at + ReadFreshness <= op.start})
ReadEnds(c) ==
  LET op == client[c]
      slack == IF op.mode = "fresh" THEN ReadFreshness ELSE 0
  IN  /\ op.f = "read" /\ Tick
      /\ \E n \in Served(op)..Len(table) :
           LET got == Above(SubSeq(table, 1, n), op.lower)
           IN  /\ Record(c, [f |-> "read", mode |-> op.mode, start |-> op.start, end |-> now', lower |-> op.lower,
                             values |-> got])
               /\ Tell(Range(got))
               /\ shown' = shown \cup
                    (IF op.mode \in {"strong", "fresh"}
                        /\ \E v \in Numbers \ Range(got) :
                             v > op.lower /\ told[v] # 0 /\ told[v] + slack < op.start
                     THEN {IF op.mode = "fresh" THEN "stale-fresh-read" ELSE "stale-read"} ELSE {})
                    \cup (IF Twice(got) # {} THEN {"duplicate"} ELSE {})
      /\ UNCHANGED <<flaw, prog, table, pend, next, final>>

-----------------------------------------------------------------------------
(* The database.                                                            *)
Commit(p) ==
  /\ p \in pend /\ final = NotYet
  /\ table' = Append(table, [value |-> p.value, at |-> now])
  /\ \/ pend' = pend \ {p}
     \/ flaw = "twice" /\ (\A e \in Range(table) : e.value # p.value) /\ UNCHANGED pend
  /\ UNCHANGED <<flaw, prog, client, ops, next, now, final, told, shown>>

Lose ==
  /\ flaw = "lose" /\ final = NotYet
  /\ \E i \in DOMAIN table : table' = RemoveAt(table, i)
  /\ UNCHANGED <<flaw, prog, pend, client, ops, next, now, final, told, shown>>

\* Once the clients are done: flushQueues, then finalRead.
FinalRead ==
  /\ final = NotYet /\ \A c \in Clients : client[c] = Idle /\ prog[c] = <<>>
  /\ \A p \in pend : ~p.queued
  /\ final' = Above(table, 0)
  /\ shown' = shown
       \cup (IF \E o \in ops : o.f = "add" /\ o.outcome = Ok /\ o.value \notin Range(final') THEN {"lost"} ELSE {})
       \cup (IF Twice(final') # {} THEN {"duplicate"} ELSE {})
       \cup (IF \E o \in ops : o.f = "add" /\ o.outcome = "fail" /\ o.value \in Range(final')
             THEN {"resurrected"} ELSE {})
  /\ UNCHANGED <<flaw, prog, table, pend, client, ops, next, now, told>>

SetNext ==
  \/ \E c \in Clients :
       \/ Add(c) \/ Read(c)
       \/ \E err \in {"", "dial", "other"} : AddEnds(c, err)
       \/ ReadEnds(c)
  \/ \E p \in pend : Commit(p)
  \/ Lose \/ FinalRead

-----------------------------------------------------------------------------
(* checkSet                                                                 *)
Adds == {o \in ops : o.f = "add"}
Reads == {o \in ops : o.f = "read"}

\* see: when a value became known committed, or 0.
Visible(v) ==
  LET at == {o.end : o \in {o \in Adds : o.value = v /\ o.outcome = Ok}}
            \cup {r.end : r \in {r \in Reads : v \in Range(r.values)}}
  IN  IF at = {} THEN 0 ELSE CHOOSE t \in at : \A u \in at : t <= u

\* contentAnomalies
Content(values) ==
  (IF Twice(values) # {} THEN {"duplicate"} ELSE {})
  \cup (IF \E v \in Range(values) : ~\E o \in Adds : o.value = v THEN {"phantom"} ELSE {})
  \cup (IF \E v \in Range(values) : \E o \in Adds : o.value = v /\ o.outcome = "fail"
        THEN {"resurrected"} ELSE {})

\* What a read missed that was known committed before it began, less its
\* allowance.
Missing(r) ==
  LET allowance == IF r.mode = "fresh" THEN ReadFreshness ELSE 0
  IN  {v \in Numbers : /\ v > r.lower /\ Visible(v) # 0 /\ v \notin Range(r.values)
                       /\ Visible(v) + allowance < r.start}

ReadAnomalies(r) ==
  Content(r.values) \cup
  (IF r.mode = "none" \/ Missing(r) = {} THEN {}
   ELSE {CASE r.mode = "weak" -> "weak-stale-read"
           [] r.mode = "fresh" -> "stale-fresh-read"
           [] OTHER -> "stale-read"})

Found ==
  UNION {ReadAnomalies(r) : r \in Reads} \cup Content(final)
  \cup (IF \E o \in Adds : o.outcome = Ok /\ o.value \notin Range(final) THEN {"lost"} ELSE {})

-----------------------------------------------------------------------------
(* checkSet accuses a correct database of nothing that is an error, whatever *)
(* writes were in doubt, landed late or were queued, and however reads of    *)
(* different levels overlapped them.                                         *)
SetNoFalseAlarm == (flaw = "none" /\ final # NotYet) => Found \subseteq {"weak-stale-read"}

(* What the database did wrong that clients were shown is reported: a value  *)
(* lost, committed twice or committed though refused, and a read that missed *)
(* what some client had been told of before it began.                        *)
SetWrongsReported == final # NotYet => shown \subseteq Found

=============================================================================

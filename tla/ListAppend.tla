----------------------------- MODULE ListAppend -----------------------------
(***************************************************************************)
(* The isolation checker of listappend/listappend.go, run on the histories *)
(* of a database.                                                          *)
(*                                                                         *)
(* Check and its passes are operators over a history: a sequence of        *)
(* transactions, each with its calls, its status and what it read.  The    *)
(* database (external) is one of several: it keeps a level, or it breaks   *)
(* one, and it may leave a client in doubt about a commit that lands later *)
(* or never.  An anomaly is its kind; whom it names and how it is worded   *)
(* are left out.                                                           *)
(***************************************************************************)
EXTENDS TxnGraph, FiniteSetsExt

CONSTANTS Setups,     \* pairs of a database -- "strict-serializable", "snapshot-isolation",
                      \* "read-committed" or "read-uncommitted" -- and of what each
                      \* transaction does: a sequence of sequences of mops
          MaxDoubt    \* how many transactions end aborted by choice or in doubt

VARIABLES level, prog,   \* one of Setups, which never changes
          db,         \* each key's list
          view,       \* what a transaction's reads see: its snapshot
          txns,       \* the history so far: call, ret, status, mops
          pos,        \* how many mops each has done
          now         \* the clock: calls and returns are at distinct times

vars == <<level, prog, db, view, txns, pos, now>>

Keys == {"x", "y"}
T == DOMAIN prog

\* A read of k, and an append to k; the value is filled in, unique to its
\* transaction and place, when the transaction runs.
R(k) == [append |-> FALSE, key |-> k, val |-> 0, read |-> <<>>]
A(k) == [append |-> TRUE, key |-> k, val |-> 0, read |-> <<>>]

-----------------------------------------------------------------------------
(* The checker. *)

Committed == "committed"
Aborted == "aborted"
Unknown == "unknown"

Forbidden(l) ==
  LET base == {"G0", "G1a", "G1b", "G1c", "incompatible-order", "duplicate", "internal"}
  IN  CASE l = "read-committed" -> base
        [] l = "snapshot-isolation" -> base \cup {"nonrepeatable", "G-single", "G-nonadjacent"}
        [] l \in {"serializable", "strict-serializable"} ->
             base \cup {"nonrepeatable", "G-single", "G-nonadjacent", "G2", "lost"}
        [] OTHER -> {}

\* What the mops append to k, in order.
AppendsTo(mops, k) ==
  LET s == SelectSeq(mops, LAMBDA m : m.append /\ m.key = k)
  IN  [i \in DOMAIN s |-> s[i].val]

\* appends: c.appended[k][i], and c.writer[k][v], 0 when nobody appended v.
Appended(h, k, i) == AppendsTo(h[i].mops, k)
Writer(h, k, v) ==
  LET who == {i \in DOMAIN h : Contains(Appended(h, k, i), v)}
  IN  IF who = {} THEN 0 ELSE Max(who)

\* The reads of a committed transaction, by their places.
ReadsOf(h) == {r \in {<<i, j>> : i \in DOMAIN h, j \in 1..Max({Len(h[i].mops) : i \in DOMAIN h})} :
                 /\ h[r[1]].status = Committed
                 /\ r[2] \in DOMAIN h[r[1]].mops
                 /\ ~h[r[1]].mops[r[2]].append}
At(h, r) == h[r[1]].mops[r[2]]

AppendsReport(h) ==
  IF \E k \in Keys, i, j \in DOMAIN h :
       i # j /\ Range(Appended(h, k, i)) \cap Range(Appended(h, k, j)) # {}
  THEN {"duplicate"} ELSE {}

\* internal: a read ends with the transaction's own appends so far, and what
\* precedes them is what its last such read of the key showed.
Mine(h, r) == AppendsTo(SubSeq(h[r[1]].mops, 1, r[2] - 1), At(h, r).key)
EndsWithMine(h, r) == IsSuffix(Mine(h, r), At(h, r).read)
Rest(h, r) == SubSeq(At(h, r).read, 1, Len(At(h, r).read) - Len(Mine(h, r)))
Earlier(h, r) == {q \in ReadsOf(h) : /\ q[1] = r[1] /\ q[2] < r[2]
                                     /\ At(h, q).key = At(h, r).key /\ EndsWithMine(h, q)}
InternalReport(h) ==
  LET bad == {r \in ReadsOf(h) : ~EndsWithMine(h, r)}
      changed == {r \in ReadsOf(h) \ bad :
                    /\ Earlier(h, r) # {}
                    /\ LET last == CHOOSE q \in Earlier(h, r) : \A p \in Earlier(h, r) : p[2] <= q[2]
                       IN  Rest(h, last) # Rest(h, r)}
  IN  (IF bad # {} THEN {"internal"} ELSE {}) \cup (IF changed # {} THEN {"nonrepeatable"} ELSE {})

\* external: the reads of a key before the transaction's first append to it.
External(h) == {r \in ReadsOf(h) : Mine(h, r) = <<>>}

\* orders: the longest read of each key.
ListsRead(h, k) == {At(h, r).read : r \in {r \in ReadsOf(h) : At(h, r).key = k}}
Order(h, k) ==
  IF ListsRead(h, k) = {} THEN <<>>
  ELSE CHOOSE l \in ListsRead(h, k) : \A m \in ListsRead(h, k) : Len(m) <= Len(l)
OrdersReport(h) ==
  (IF \E k \in Keys : \E l \in ListsRead(h, k) : ~IsInjective(l) THEN {"duplicate"} ELSE {})
  \cup (IF \E k \in Keys : \E l \in ListsRead(h, k) : ~IsPrefix(l, Order(h, k))
        THEN {"incompatible-order"} ELSE {})

\* effects: who took effect.
Took(h) == {i \in DOMAIN h :
              \/ h[i].status = Committed
              \/ /\ h[i].status = Unknown
                 /\ \E k \in Keys : \E v \in Range(Order(h, k)) : Writer(h, k, v) = i}

\* reads: what one read saw of what others appended.
Theirs(h, r, w) == SelectSeq(At(h, r).read, LAMBDA v : Writer(h, At(h, r).key, v) = w)
G1a(h, r) == \E v \in Range(At(h, r).read) :
               LET w == Writer(h, At(h, r).key, v) IN w = 0 \/ h[w].status = Aborted
Disordered(h, r) ==
  \E w \in DOMAIN h \ {r[1]} :
    LET made == Appended(h, At(h, r).key, w)
        got == Theirs(h, r, w)
        n == Min({Len(got), Len(made)})
    IN  Len(made) > 1 /\ SubSeq(got, 1, n) # SubSeq(made, 1, n)
G1b(h, r) ==
  LET k == At(h, r).key
      list == At(h, r).read
      others == {j \in DOMAIN list : Writer(h, k, list[j]) # r[1]}
      last == list[Max(others)]
      w == Writer(h, k, last)
  IN  others # {} /\ w # 0 /\ Last(Appended(h, k, w)) # last
Lost(h, r) ==
  \E w \in DOMAIN h \ {r[1]} :
    /\ h[w].status = Committed /\ h[w].ret < h[r[1]].call
    /\ ~(Range(Appended(h, At(h, r).key, w)) \subseteq Range(At(h, r).read))
ReadsReport(h, realtime) ==
  (IF \E r \in ReadsOf(h) : G1a(h, r) THEN {"G1a"} ELSE {})
  \cup (IF \E r \in ReadsOf(h) : Disordered(h, r) THEN {"incompatible-order"} ELSE {})
  \cup (IF \E r \in ReadsOf(h) : G1b(h, r) THEN {"G1b"} ELSE {})
  \cup (IF realtime /\ \E r \in ReadsOf(h) : Lost(h, r) THEN {"lost"} ELSE {})

-----------------------------------------------------------------------------
(* edges *)

\* ww between writers of neighbours in the version order; wr from the writer of
\* the last element of a read; rw to the writer of the element after it.
OrderEdges(h) ==
  UNION {LET o == Order(h, k)
         IN  {<<Writer(h, k, o[i - 1]), Writer(h, k, o[i]), WW>> : i \in 2..Len(o)} : k \in Keys}
ReadEdges(h) ==
  UNION {LET m == At(h, r)
             o == Order(h, m.key)
         IN  (IF m.read # <<>> THEN {<<Writer(h, m.key, Last(m.read)), r[1], WR>>} ELSE {})
             \cup (IF Len(m.read) < Len(o) /\ IsPrefix(m.read, o)
                   THEN {<<r[1], Writer(h, m.key, o[Len(m.read) + 1]), RW>>} ELSE {})
         : r \in External(h)}

\* The transactions that took effect with an append to k that no read saw, those
\* that read all of k's order, and those that read a version of it.
Unread(h, k) == {i \in Took(h) : ~(Range(Appended(h, k, i)) \subseteq Range(Order(h, k)))}
Latest(h, k) == {r[1] : r \in {r \in External(h) : At(h, r).key = k /\ At(h, r).read = Order(h, k)}}
Readers(h, k) == {r[1] : r \in {r \in External(h) :
                                  At(h, r).key = k /\ IsPrefix(At(h, r).read, Order(h, k))}}
\* Faulty variant: those who read the last version seen are forgotten.
UnreadEdgesWW(h) ==
  UNION {IF Order(h, k) = <<>> THEN {}
         ELSE {<<Writer(h, k, Last(Order(h, k))), i, WW>> : i \in Unread(h, k)} : k \in Keys}

UnreadEdges(h) ==
  UNION {(IF Order(h, k) = <<>> THEN {}
          ELSE {<<Writer(h, k, Last(Order(h, k))), i, WW>> : i \in Unread(h, k)})
         \cup {<<reader, i, RW>> : reader \in Latest(h, k), i \in Unread(h, k)} : k \in Keys}

\* Lost updates among the unread appends.
Pairs(h) == UNION {kSubset(2, Unread(h, k) \cap Readers(h, k)) : k \in Keys}

\* Each committed transaction to those that took effect and began after it
\* returned, up to the first return of a committed one among them.
RealtimeEdges(h) ==
  UNION {LET next == {j \in Took(h) : h[j].call > h[i].ret}
             returns == {h[j].ret : j \in {j \in next : h[j].status = Committed}}
         IN  {<<i, j, Realtime>> : j \in {j \in next : returns = {} \/ h[j].call <= Min(returns)}}
         : i \in {i \in DOMAIN h : h[i].status = Committed}}

Edges(h, realtime) ==
  {e \in OrderEdges(h) \cup ReadEdges(h) \cup UnreadEdges(h)
         \cup (IF realtime THEN RealtimeEdges(h) ELSE {}) :
     e[1] # e[2] /\ e[1] # 0 /\ e[2] # 0}

Check(h, realtime) ==
  AppendsReport(h) \cup InternalReport(h) \cup OrdersReport(h)
  \cup ReadsReport(h, realtime) \cup Cycles(Edges(h, realtime), Pairs(h))

-----------------------------------------------------------------------------
(* The database, and its clients. *)

Init ==
  /\ \E s \in Setups : level = s[1] /\ prog = s[2]
  /\ db = [k \in Keys |-> <<>>]
  /\ view = [t \in T |-> db]
  /\ txns = [t \in T |-> [call |-> 0, ret |-> 0, status |-> "idle", mops |-> <<>>]]
  /\ pos = [t \in T |-> 0]
  /\ now = 1

\* The transactions are numbered in the order they begin.
Begin(t) ==
  /\ txns[t].status = "idle" /\ \A s \in T : s < t => txns[s].status # "idle"
  /\ txns' = [txns EXCEPT ![t].call = now, ![t].status = "open"]
  /\ view' = [view EXCEPT ![t] = db]
  /\ now' = now + 1
  /\ UNCHANGED <<level, prog, db, pos>>

\* The mop with its value, or with what it reads of the lists.
Done(t, mops, lists) ==
  LET m == prog[t][Len(mops) + 1]
      own == AppendsTo(mops, m.key)
  IN  IF m.append THEN [m EXCEPT !.val = 10 * t + Len(mops) + 1]
      ELSE [m EXCEPT !.read = lists[m.key] \o own]

RECURSIVE RunAll(_, _, _)
RunAll(t, mops, lists) ==
  IF Len(mops) = Len(prog[t]) THEN mops
  ELSE RunAll(t, Append(mops, Done(t, mops, lists)), lists)

\* Read committed: an append waits for whoever has appended to the key and not
\* ended, as on the lock of a row.
Blocked(t) ==
  /\ level = "read-committed" /\ pos[t] < Len(prog[t])
  /\ LET m == prog[t][pos[t] + 1]
     IN  m.append /\ \E s \in T \ {t} : /\ txns[s].status \in {"open", "pending"}
                                        /\ AppendsTo(txns[s].mops, m.key) # <<>>

\* One mop: a level that is not kept by running the whole transaction on one
\* version reads what is there, and read uncommitted appends there at once.
Statement(t) ==
  /\ level \in {"read-committed", "read-uncommitted"}
  /\ txns[t].status = "open" /\ pos[t] < Len(prog[t]) /\ ~Blocked(t)
  /\ LET others == [k \in Keys |->
                      SelectSeq(db[k], LAMBDA v : ~Contains(AppendsTo(txns[t].mops, k), v))]
         m == Done(t, txns[t].mops, others)
     IN  /\ txns' = [txns EXCEPT ![t].mops = Append(@, m)]
         /\ db' = IF level = "read-uncommitted" /\ m.append
                  THEN [db EXCEPT ![m.key] = Append(@, m.val)] ELSE db
  /\ pos' = [pos EXCEPT ![t] = @ + 1]
  /\ UNCHANGED <<level, prog, view, now>>

\* What the transaction did, were it to commit now.
Final(t) ==
  CASE level = "strict-serializable" -> RunAll(t, <<>>, db)
    [] level = "snapshot-isolation" -> RunAll(t, <<>>, view[t])
    [] OTHER -> txns[t].mops

\* Snapshot isolation: nobody else has appended to its keys since it began.
CanCommit(t) ==
  CASE level = "snapshot-isolation" ->
         \A k \in Keys : AppendsTo(Final(t), k) # <<>> => db[k] = view[t][k]
    [] level = "strict-serializable" -> TRUE
    [] OTHER -> pos[t] = Len(prog[t])

Applied(t) == IF level = "read-uncommitted" THEN db
              ELSE [k \in Keys |-> db[k] \o AppendsTo(Final(t), k)]

Doubtful == {t \in T : txns[t].status \in {Aborted, Unknown, "pending"}}

Commit(t) ==
  /\ txns[t].status = "open" /\ CanCommit(t)
  /\ db' = Applied(t)
  /\ txns' = [txns EXCEPT ![t].status = Committed, ![t].mops = Final(t), ![t].ret = now]
  /\ now' = now + 1
  /\ UNCHANGED <<level, prog, view, pos>>

\* An abort, of a transaction that lost a conflict or waits for another or by
\* choice, takes the transaction's appends out again.
Abort(t) ==
  /\ txns[t].status = "open"
  /\ \/ Blocked(t) \/ (level = "snapshot-isolation" /\ ~CanCommit(t))
     \/ Cardinality(Doubtful) < MaxDoubt
  /\ db' = [k \in Keys |-> SelectSeq(db[k], LAMBDA v : ~Contains(AppendsTo(txns[t].mops, k), v))]
  /\ txns' = [txns EXCEPT ![t].status = Aborted, ![t].mops = Final(t), ![t].ret = now]
  /\ now' = now + 1
  /\ UNCHANGED <<level, prog, view, pos>>

\* The client gives up on a commit, which lands later or never.
GiveUp(t) ==
  /\ txns[t].status = "open" /\ CanCommit(t) /\ Cardinality(Doubtful) < MaxDoubt
  /\ txns' = [txns EXCEPT ![t].status = "pending", ![t].mops = Final(t), ![t].ret = now]
  /\ now' = now + 1
  /\ UNCHANGED <<level, prog, db, view, pos>>

Land(t) ==
  /\ txns[t].status = "pending"
  /\ \/ db' = db
     \/ CanCommit(t) /\ db' = Applied(t)
  /\ txns' = [txns EXCEPT ![t].status = Unknown]
  /\ UNCHANGED <<level, prog, view, pos, now>>

Over == \A t \in T : txns[t].status \in {Committed, Aborted, Unknown}

Next == \E t \in T : Begin(t) \/ Statement(t) \/ Commit(t) \/ Abort(t) \/ GiveUp(t) \/ Land(t)

Spec == Init /\ [][Next]_vars

-----------------------------------------------------------------------------
(* Reference: a history is serializable if the transactions that took      *)
(* effect, in some order -- one that keeps the order of those that did not *)
(* overlap, when it is to be strict -- explain every read.                 *)

Serially(h, order, n) ==
  [k \in Keys |-> FoldLeft(LAMBDA acc, t : acc \o Appended(h, k, t), <<>>, SubSeq(order, 1, n))]

Explains(h, order) ==
  \A n \in DOMAIN order :
    LET t == order[n]
        lists == Serially(h, order, n - 1)
    IN  h[t].status = Committed =>
          \A j \in DOMAIN h[t].mops :
            LET m == h[t].mops[j]
            IN  ~m.append => m.read = lists[m.key] \o AppendsTo(SubSeq(h[t].mops, 1, j - 1), m.key)

Serializable(h, strict) ==
  \E order \in SetToSeqs(Took(h)) :
    /\ Explains(h, order)
    /\ strict => \A i, j \in DOMAIN order :
                   i < j => ~(h[order[j]].status = Committed /\ h[order[j]].ret < h[order[i]].call)

(* A finished history has an anomaly that serializability forbids -- with *)
(* Realtime, that strict serializability does -- exactly when no serial    *)
(* order of its transactions explains what they read: the dependencies     *)
(* edges infers, the unread appends and the pruned realtime order          *)
(* included, are all there is to know and none of them is imagined.        *)
SerializableExactly(found, realtime) ==
  Serializable(txns, realtime) <=> found \cap Forbidden("strict-serializable") = {}

(* What a database that keeps a level does is never reported as an anomaly *)
(* Forbidden lists for the level.                                          *)
LevelKept(found) == found \cap Forbidden(level) = {}

(* The verdict is exact: an anomaly is reported when no serial order explains *)
(* the history and only then, and none the database's own level allows.       *)
VerdictExact ==
  Over => LET plain == Check(txns, FALSE)
              strict == Check(txns, TRUE)
          IN  /\ SerializableExactly(plain, FALSE) /\ SerializableExactly(strict, TRUE)
              /\ LevelKept(IF level = "strict-serializable" THEN strict ELSE plain)
=============================================================================

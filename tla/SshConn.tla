------------------------------ MODULE SshConn ------------------------------
(***************************************************************************)
(* The connection and the SFTP client an SSH backend caches for its node   *)
(* (ssh/ssh.go, ssh/sftp.go), under concurrent file operations.            *)
(*                                                                         *)
(* Each member of Op is one call of sftpDo.  It takes the cached client    *)
(* and SFTP client, or makes one without holding the lock and installs it  *)
(* unless another call did so first.  A connection and an SFTP client are  *)
(* named after the operation that made them.                               *)
(*                                                                         *)
(* An operation of Teardown runs on a context detached from the others',   *)
(* and only once all of them have returned.                                *)
(***************************************************************************)
EXTENDS FiniteSets

CONSTANTS Op, Teardown,  \* operations: under the job's context, and after it
          Nil,
          Endings        \* of "lost" and "closed": what may happen to the connection

ASSUME NamesAreDistinct == Op \cap Teardown = {} /\ Nil \notin Op \cup Teardown

Caller == Op \cup Teardown

VARIABLES client,     \* b.client
          conns,      \* the connections that are open
          sftp,       \* b.sftp
          sessions,   \* the SFTP clients that are open
          over,       \* the connection each SFTP client runs over
          pc, ret,    \* where each call is, and what it returned
          mine,       \* the connection the call dialed or was given
          sc,         \* the SFTP client it was given
          neg,        \* its goroutine in sftp.NewClient: "none", "busy", "ready"
          cutter,     \* the AfterFunc of its dial: "off", "begun" or "fired"
          watch,      \* its AfterFunc: "off", "armed", "begun", "cleared", "fired"
          cancelled,  \* the context of the operations in Op is done
          ended       \* those that have: a connection was lost, the backend closed

vars == <<client, conns, sftp, sessions, over, pc, ret, mine, sc, neg, cutter, watch, cancelled,
          ended>>
node == <<conns, cutter, ended>>
cache == <<client, sftp>>

\* The SFTP clients that still work: open, over an open connection.
Working == {s \in sessions : over[s] \in conns}

Done(c) == cancelled /\ c \in Op
Goto(c, l) == pc' = [pc EXCEPT ![c] = l]
Return(c, r) == Goto(c, "returned") /\ ret' = [ret EXCEPT ![c] = r]

Init ==
  /\ client = Nil /\ conns = {} /\ sftp = Nil /\ sessions = {}
  /\ over = [c \in Caller |-> Nil]
  /\ pc = [c \in Caller |-> "idle"] /\ ret = [c \in Caller |-> "none"]
  /\ mine = [c \in Caller |-> Nil] /\ sc = [c \in Caller |-> Nil]
  /\ neg = [c \in Caller |-> "none"] /\ cutter = [c \in Caller |-> "off"]
  /\ watch = [c \in Caller |-> "off"]
  /\ cancelled = FALSE /\ ended = {}

-----------------------------------------------------------------------------
(* conn and dial.                                                          *)

MayStart(c) == c \in Teardown => \A o \in Op : pc[o] = "returned"

\* The cached client, or a dial outside the lock.
Conn(c) ==
  /\ pc[c] = "idle" /\ MayStart(c)
  /\ IF client # Nil THEN Goto(c, "conn") /\ mine' = [mine EXCEPT ![c] = client]
     ELSE Goto(c, "dial") /\ UNCHANGED mine
  /\ UNCHANGED <<cache, node, sessions, over, ret, sc, neg, watch, cancelled>>

\* The handshake completes.  A context that ends meanwhile has started the
\* watcher that closes the connection, and stopWatch does not wait for it.
Dial(c) ==
  /\ pc[c] = "dial" /\ (Done(c) => cutter[c] = "begun")
  /\ conns' = conns \cup {c} /\ mine' = [mine EXCEPT ![c] = c] /\ Goto(c, "dialed")
  /\ UNCHANGED <<cache, sessions, over, ret, sc, neg, cutter, watch, cancelled, ended>>

Cut(c) ==
  /\ cutter[c] = "begun" /\ cutter' = [cutter EXCEPT ![c] = "fired"]
  /\ conns' = conns \ {c}
  /\ UNCHANGED <<cache, sessions, over, pc, ret, mine, sc, neg, watch, cancelled, ended>>

\* The node refuses or the connect timeout passes, or the context ends.
DialFails(c) ==
  /\ pc[c] = "dial" /\ (Done(c) \/ "lost" \in Endings)
  /\ Return(c, "noconn")
  /\ UNCHANGED <<cache, node, sessions, over, mine, sc, neg, watch, cancelled>>

\* A faulty version: the later of two dials wins.
KeepLatest(c) ==
  /\ pc[c] = "dialed" /\ Goto(c, "conn")
  /\ client' = mine[c]
  /\ UNCHANGED <<sftp, node, sessions, over, ret, mine, sc, neg, watch, cancelled>>

\* Another caller connected meanwhile: theirs is kept and this one dropped.
Keep(c) ==
  /\ pc[c] = "dialed" /\ Goto(c, "conn")
  /\ IF client # Nil
     THEN /\ conns' = conns \ {c} /\ mine' = [mine EXCEPT ![c] = client]
          /\ UNCHANGED client
     ELSE client' = c /\ UNCHANGED <<conns, mine>>
  /\ UNCHANGED <<sftp, sessions, over, ret, sc, neg, cutter, watch, cancelled, ended>>

-----------------------------------------------------------------------------
(* sftpClient.                                                             *)

\* sftpDo arms its watcher as soon as it has an SFTP client; on a context that
\* is done already the watcher starts at once.
Use(c, s) ==
  /\ sc' = [sc EXCEPT ![c] = s] /\ Goto(c, "use")
  /\ watch' = [watch EXCEPT ![c] = IF Done(c) THEN "begun" ELSE "armed"]

Cached(c) ==
  /\ pc[c] = "conn" /\ sftp # Nil /\ Use(c, sftp)
  /\ UNCHANGED <<cache, node, sessions, over, ret, mine, neg, cancelled>>

Negotiate(c) ==
  /\ pc[c] = "conn" /\ sftp = Nil
  /\ neg' = [neg EXCEPT ![c] = "busy"] /\ Goto(c, "negotiate")
  /\ UNCHANGED <<cache, node, sessions, over, ret, mine, sc, watch, cancelled>>

\* The goroutine's NewClient returns, whoever is still waiting for it.
Negotiated(c) ==
  /\ neg[c] = "busy" /\ neg' = [neg EXCEPT ![c] = "ready"]
  /\ IF mine[c] \in conns THEN sessions' = sessions \cup {c} /\ over' = [over EXCEPT ![c] = mine[c]]
     ELSE UNCHANGED <<sessions, over>>
  /\ UNCHANGED <<cache, node, pc, ret, mine, sc, watch, cancelled>>

Refused(c) ==
  /\ pc[c] = "negotiate" /\ neg[c] = "ready" /\ over[c] = Nil
  /\ neg' = [neg EXCEPT ![c] = "none"] /\ Return(c, "noconn")
  /\ UNCHANGED <<cache, node, sessions, over, mine, sc, watch, cancelled>>

\* Another caller negotiated meanwhile: theirs is kept and this one dropped.
Install(c) ==
  /\ pc[c] = "negotiate" /\ neg[c] = "ready" /\ over[c] # Nil
  /\ neg' = [neg EXCEPT ![c] = "none"]
  /\ IF sftp # Nil THEN sessions' = sessions \ {c} /\ Use(c, sftp) /\ UNCHANGED sftp
     ELSE sftp' = c /\ Use(c, c) /\ UNCHANGED sessions
  /\ UNCHANGED <<client, node, over, ret, mine, cancelled>>

\* The context ends first: the caller leaves its goroutine to drain.
Abandon(c) ==
  /\ pc[c] = "negotiate" /\ Done(c) /\ Return(c, "ctx")
  /\ UNCHANGED <<cache, node, sessions, over, mine, sc, neg, watch, cancelled>>

\* A client that finishes too late is closed.
Drain(c) ==
  /\ pc[c] = "returned" /\ neg[c] = "ready" /\ neg' = [neg EXCEPT ![c] = "none"]
  /\ sessions' = sessions \ {c}
  /\ UNCHANGED <<cache, node, over, pc, ret, mine, sc, watch, cancelled>>

-----------------------------------------------------------------------------
(* sftpDo: the operation itself, and the watcher that closes its client.   *)

Stop(c) == watch' = [watch EXCEPT ![c] = IF @ = "armed" THEN "off" ELSE @]

Succeed(c) ==
  /\ pc[c] = "use" /\ sc[c] \in Working
  /\ Return(c, "ok") /\ Stop(c)
  /\ UNCHANGED <<cache, node, sessions, over, mine, sc, neg, cancelled>>

\* A request over a closed client fails; a cancelled operation says so.
Fail(c) ==
  /\ pc[c] = "use" /\ sc[c] \notin Working
  /\ Return(c, IF Done(c) THEN "ctx" ELSE "closed") /\ Stop(c)
  /\ UNCHANGED <<cache, node, sessions, over, mine, sc, neg, cancelled>>

\* A faulty version: a closed client stays in the cache.
ClearNothing(c) ==
  /\ watch[c] = "begun" /\ watch' = [watch EXCEPT ![c] = "cleared"]
  /\ UNCHANGED <<sftp, client, node, sessions, over, pc, ret, mine, sc, neg, cancelled>>

\* closeSFTP forgets the client before it closes it.
Clear(c) ==
  /\ watch[c] = "begun" /\ watch' = [watch EXCEPT ![c] = "cleared"]
  /\ sftp' = IF sftp = sc[c] THEN Nil ELSE sftp
  /\ UNCHANGED <<client, node, sessions, over, pc, ret, mine, sc, neg, cancelled>>

CloseSftp(c) ==
  /\ watch[c] = "cleared" /\ watch' = [watch EXCEPT ![c] = "fired"]
  /\ sessions' = sessions \ {sc[c]}
  /\ UNCHANGED <<cache, node, over, pc, ret, mine, sc, neg, cancelled>>

-----------------------------------------------------------------------------
(* The context, the network, and a backend closed; each at most once.      *)

\* Every watcher still armed starts a goroutine of its own.
Cancel ==
  /\ ~cancelled /\ cancelled' = TRUE
  /\ watch' = [c \in Caller |-> IF c \in Op /\ watch[c] = "armed" THEN "begun" ELSE watch[c]]
  /\ cutter' = [c \in Caller |-> IF c \in Op /\ pc[c] = "dial" THEN "begun" ELSE cutter[c]]
  /\ UNCHANGED <<cache, conns, ended, sessions, over, pc, ret, mine, sc, neg>>

Drop ==
  /\ "lost" \in Endings \ ended /\ ended' = ended \cup {"lost"}
  /\ client \in conns /\ conns' = conns \ {client}
  /\ UNCHANGED <<cache, sessions, over, pc, ret, mine, sc, neg, cutter, watch, cancelled>>

\* close: the SFTP client first, then the connection, under the lock.
Close ==
  /\ "closed" \in Endings \ ended /\ ended' = ended \cup {"closed"}
  /\ client # Nil
  /\ sessions' = sessions \ {sftp} /\ conns' = conns \ {client}
  /\ sftp' = Nil /\ client' = Nil
  /\ UNCHANGED <<over, pc, ret, mine, sc, neg, cutter, watch, cancelled>>

Step(c) == \/ Conn(c) \/ DialFails(c) \/ Cut(c) \/ Keep(c)
           \/ Cached(c) \/ Negotiate(c) \/ Refused(c) \/ Install(c) \/ Abandon(c) \/ Drain(c)
           \/ Fail(c) \/ Clear(c) \/ CloseSftp(c)

\* What the node answers, and in what time, is its own affair.
Answer(c) == Dial(c) \/ Negotiated(c) \/ Succeed(c)

Next == Cancel \/ Drop \/ Close \/ \E c \in Caller : Step(c) \/ Answer(c)

Spec == Init /\ [][Next]_vars

\* The goroutines run; the node need not answer.  Each takes finitely many
\* steps, so that some one is taken while there is one is all that is asked,
\* and of the operations that were cancelled only.
Fairness == WF_vars(cancelled /\ \E o \in Op : Step(o))

FairSpec == Spec /\ Fairness

-----------------------------------------------------------------------------
(* Properties.                                                             *)

\* Types; an operation in use has an SFTP client that was negotiated.
TypeOK ==
  /\ client \in Caller \cup {Nil} /\ conns \subseteq Caller
  /\ sftp \in Caller \cup {Nil} /\ sessions \subseteq Caller
  /\ over \in [Caller -> Caller \cup {Nil}] /\ mine \in [Caller -> Caller \cup {Nil}]
  /\ sc \in [Caller -> Caller \cup {Nil}]
  /\ pc \in [Caller -> {"idle", "dial", "dialed", "conn", "negotiate", "use", "returned"}]
  /\ ret \in [Caller -> {"none", "ok", "noconn", "ctx", "closed"}]
  /\ neg \in [Caller -> {"none", "busy", "ready"}]
  /\ cutter \in [Caller -> {"off", "begun", "fired"}]
  /\ watch \in [Caller -> {"off", "armed", "begun", "cleared", "fired"}]
  /\ cancelled \in BOOLEAN /\ ended \subseteq Endings
  /\ \A c \in Caller : pc[c] = "use" => sc[c] # Nil /\ over[sc[c]] # Nil

\* Whatever calls race to connect, cancel or close, no connection and no SFTP
\* client is lost track of: each that is open is the cached one, or some
\* goroutine still has it to install or to close (conn, sftpClient, closeSFTP).
NothingLeaks ==
  /\ \A k \in conns : k = client \/ pc[k] = "dialed"
  /\ \A s \in Working : \/ s = sftp \/ neg[s] = "ready"
                         \/ \E c \in Caller : sc[c] = s /\ watch[c] = "cleared"

\* The connections something ended: the network, or the context of their dial.
Ended(k) == ended # {} \/ cutter[k] = "fired"

\* As long as nobody closes the backend the cached SFTP client runs over the
\* cached connection and has not been closed: a cancelled operation clears the
\* cache before it closes the client (closeSFTP).  The cached connection is
\* up, unless it was lost or its dial was cancelled as it completed (dial).
CacheWorks ==
  /\ client # Nil => client \in conns \/ Ended(client)
  /\ sftp # Nil /\ "closed" \notin ended => sftp \in sessions /\ over[sftp] = client

\* An operation whose own context is live fails, the connection being up, only
\* because the SFTP client it shares was closed for a cancelled one (sftpDo).
FailsForCause ==
  \A c \in Caller : ret[c] = "closed" =>
    \/ Ended(over[sc[c]])
    \/ \E o \in Op \ {c} : sc[o] = sc[c] /\ watch[o] \in {"cleared", "fired"}

\* A cancelled operation returns even if the node never answers again: the
\* dial, the negotiation and the transfer are each cut short.
CancelReturns == cancelled ~> \A o \in Op : pc[o] \in {"idle", "returned"}

\* The cache is worth having: what it holds works, and an operation fails over a
\* connection that is up only because another's cancellation closed its client.
CacheServes == CacheWorks /\ FailsForCause
=============================================================================

------------------------------- MODULE MCSsh --------------------------------
(***************************************************************************)
(* The ssh backend: two operations and a teardown's over one cached       *)
(* connection (SshConn); one stream, two waits and a close (SshStream).  A  *)
(* behaviour is of one or of the other.                                     *)
(***************************************************************************)
EXTENDS SshConn

VARIABLES cmd, child, daemon, marker, report, session, up, streamCancelled, start, exited, done,
          streamWatch, once, killErr, slow, at, streamRet

Stream == INSTANCE SshStream WITH
  cancelled <- streamCancelled, watch <- streamWatch, pc <- at, ret <- streamRet,
  Waiter <- {"w1", "w2"}, Closer <- {"c1"}, MayDrop <- TRUE, MaySlow <- TRUE

streamVars == <<cmd, child, daemon, marker, report, session, up, streamCancelled, start, exited, done,
                streamWatch, once, killErr, slow, at, streamRet>>
Callers == {"w1", "w2", "c1", "watcher"}

NoCalls ==
  /\ client = Nil /\ conns = {} /\ sftp = Nil /\ sessions = {}
  /\ over = [c \in Caller |-> Nil] /\ pc = [c \in Caller |-> "returned"]
  /\ ret = [c \in Caller |-> "none"] /\ mine = [c \in Caller |-> Nil] /\ sc = [c \in Caller |-> Nil]
  /\ neg = [c \in Caller |-> "none"] /\ cutter = [c \in Caller |-> "off"]
  /\ watch = [c \in Caller |-> "off"] /\ cancelled = TRUE /\ ended = Endings
NoStream ==
  /\ cmd = "dead" /\ child = FALSE /\ daemon = FALSE /\ marker = FALSE /\ report = "taken"
  /\ session = "over" /\ up = FALSE /\ streamCancelled = TRUE /\ start = "failed"
  /\ exited = TRUE /\ done = TRUE /\ streamWatch = "off" /\ once = "done" /\ killErr = FALSE
  /\ slow = FALSE /\ at = [p \in Callers |-> "returned"] /\ streamRet = [p \in Callers |-> "none"]

MCSpec ==
  /\ (Init /\ NoStream) \/ (NoCalls /\ Stream!Init)
  /\ [][(Next /\ UNCHANGED streamVars) \/ (Stream!Next /\ UNCHANGED vars)]_<<vars, streamVars>>
  /\ Fairness /\ Stream!Fairness

-----------------------------------------------------------------------------
\* A Close that returns nil leaves nothing of the command's group on the node,
\* its children included, however the exit, the cancellation and other closes
\* are ordered; the handle then knows how the command died if the node could
\* say; and what a wait says of the exit is final.
NilMeansGone == Stream!NilMeansGone /\ Stream!ReportReaches /\ Stream!WaitIsFinal

\* Nobody waits for ever: a cancelled operation returns although the node never
\* answers again, a wait learns of the exit although children or daemons hold
\* the output open, and a stream that is cancelled or closed is killed, or the
\* failure recorded.
CallsReturn == CancelReturns /\ Stream!StreamEnds

=============================================================================

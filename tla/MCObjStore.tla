----------------------------- MODULE MCObjStore -----------------------------
(* Small instances of the object store. *)
EXTENDS ObjStore

\* A rule for every kind of request, for each action: the rules that always
\* fire, and those that may.
Rules(ops, sure, unsure) ==
  {[ops |-> ops, prob |-> "always", action |-> a] : a \in sure}
    \cup {[ops |-> ops, prob |-> "sometimes", action |-> a] : a \in unsure}

\* Faults that answer, cut or delay, on a pair of requests.
Faults ==
  LET ops == {"put", "get"}
  IN  [ops |-> ops, bodies |-> {1}, uniqueETags |-> FALSE,
       req |-> 2, open |-> 2, inForce |-> 1, mayQuit |-> {1},
       rules |-> Rules(ops, {"fail-after"},
                       {"fail", "drop", "delay", "drop-after", "delay-after"})]

\* The bucket comes and goes; requests that are held.
Bucket ==
  LET ops == {"put", "delete", "bucket-put", "bucket-delete"}
  IN  [ops |-> ops, bodies |-> {1}, uniqueETags |-> FALSE,
       req |-> 2, open |-> 2, inForce |-> 1, mayQuit |-> {1},
       rules |-> Rules(ops, {"stall"}, {"hang"})]

\* Conditional writes.
Conditional ==
  [ops |-> {"put", "copy", "deletes"}, bodies |-> {1}, uniqueETags |-> TRUE, req |-> 3, open |-> 2,
   inForce |-> 0, mayQuit |-> {}, rules |-> {}]

\* Multipart uploads.
Multipart ==
  [ops |-> {"mp-create", "mp-part", "mp-complete", "mp-abort"}, bodies |-> {1, 2},
   uniqueETags |-> FALSE,
   req |-> 4, open |-> 2, inForce |-> 0, mayQuit |-> {}, rules |-> {}]

MCConfs == {Faults, Bucket, Conditional, Multipart}
=============================================================================

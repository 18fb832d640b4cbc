------------------------------ MODULE ObjStore ------------------------------
(***************************************************************************)
(* The object store a job serves to the system it tests (objstore.go,      *)
(* fault.go, history.go): requests are served concurrently, each one goes  *)
(* through the faults the rules inject, takes effect under one lock, and   *)
(* is recorded; Close stops the store with requests at every stage.        *)
(*                                                                         *)
(* One bucket is modelled.  A body is a number and an object's data the    *)
(* sequence of the bodies it is made of, so that a content ETag (MD5) is   *)
(* the data itself.  A request is numbered by its Seq.  Its stages:        *)
(*   body    in flight, the body not read yet                              *)
(*   held    a fault holds it before its effect                            *)
(*   handle  about to take effect                                          *)
(*   after   took effect, the answer not sent                              *)
(*   ended   answered, or hung up on; then recorded, then done             *)
(***************************************************************************)
EXTENDS Integers, Sequences, SequencesExt, FiniteSets, TLC

CONSTANTS Key, Part,  \* keys; part numbers are numbers
          Confs       \* how the store is set up and used, see below

VARIABLES conf,      \* one of Confs, which never changes
          exists,    \* the bucket exists
          objects,   \* the bucket: an object for each key, in a sequence, or none
          uploads,   \* multipart uploads in progress, by upload ID
          nextID,
          rules,
          req,       \* the requests that have arrived, by Seq
          stage,     \* and where each one is
          gone,      \* requests whose client has given up
          fault,     \* the fault each request drew, or "none"
          event,     \* what is known of it: [applied, status, etag]
          history,   \* the events in the order they ended, by Seq
          closer,    \* Close: "open", "closing" or "closed"
          effects    \* history: [seq, key] of each change of an object, in order

vars == <<conf, exists, objects, uploads, nextID, rules, req, stage, gone, fault, event,
          history, closer, effects>>
store == <<exists, objects, uploads, nextID, effects>>

Ops == conf.ops                  \* kinds of request the clients send
Body == conf.bodies              \* the bodies they send, numbers
RuleSet == conf.rules            \* rules the job may add: [ops, prob, action]
UniqueETags == conf.uniqueETags  \* Options.UniqueETags
MaxReq == conf.req               \* bounds on the requests,
MaxOpen == conf.open             \* on those in flight at once
MaxRules == conf.inForce         \* and on the rules in force
MayQuit == conf.mayQuit          \* the requests, by Seq, whose client may give up

NoTag == [kind |-> "none", of |-> <<>>]
NoEvent == [applied |-> FALSE, status |-> "none", etag |-> NoTag]
Arrived == 1..Len(req)

Before == {"fail", "drop", "hang"}
Holds == {"delay", "stall", "hang"}

-----------------------------------------------------------------------------
(* The rules.                                                              *)

AddRule(r) ==
  /\ Len(rules) < MaxRules
  /\ rules' = Append(rules, r)
  /\ UNCHANGED <<req, stage, gone, fault, event, history, closer>> /\ UNCHANGED store

\* The rules that are left, in order.
RemoveAll(is) ==
  LET left == SetToSortSeq(DOMAIN rules \ is, <)
  IN  [j \in DOMAIN left |-> rules[left[j]]]

\* RemoveRule, and ClearRules.
RemoveRules(is) ==
  /\ is # {}
  /\ rules' = RemoveAll(is)
  /\ UNCHANGED <<req, stage, gone, fault, event, history, closer>> /\ UNCHANGED store

\* The faults draw may return: the first rule that matches and fires.  A rule
\* that is not certain to fire may let the next one have the request.
Drawn(op) ==
  LET matching == {i \in DOMAIN rules : op \in rules[i].ops /\ rules[i].prob # "never"}
      certain == {i \in matching : rules[i].prob = "always"}
  IN  {rules[i].action : i \in {j \in matching : \A k \in certain : j <= k}}
        \cup (IF certain = {} THEN {"none"} ELSE {})

-----------------------------------------------------------------------------
(* What a request does under the lock.  Each operation maps the request to *)
(* the new state of the bucket and the answer; "why" is the error.         *)

Cur(k) == objects[k]

\* s.etag: under UniqueETags every write has its own.
Tag(content) ==
  IF UniqueETags THEN [kind |-> "id", of |-> <<nextID + 1>>] ELSE content

CopyTag(o) == Tag(o.etag)

\* precondition: If-None-Match: *, or If-Match with an ETag.
Precondition(r) ==
  CASE r.cond.kind = "absent" -> IF Cur(r.key) = <<>> THEN "ok" ELSE "precondition"
    [] r.cond.kind = "match" ->
         IF Cur(r.key) = <<>> THEN "no key"
         ELSE IF Cur(r.key)[1].etag = r.cond.etag THEN "ok" ELSE "precondition"
    [] OTHER -> "ok"

\* sourceCondition: a copy's condition on the ETag of its source.
SourceCondition(r) ==
  LET same == Cur(r.src)[1].etag = r.scond.etag
  IN  IF (r.scond.kind = "match" /\ ~same) \/ (r.scond.kind = "differ" /\ same)
      THEN "precondition" ELSE "ok"

\* complete: every part named is there, in ascending order, and is the one
\* whose ETag the client was given.
CompletionError(r) ==
  LET u == uploads[r.upload]
      Good(i) == /\ u.parts[r.parts[i].number] = <<r.parts[i].body>>
                 /\ i > 1 => r.parts[i - 1].number < r.parts[i].number
  IN  IF \A i \in DOMAIN r.parts : Good(i) THEN "ok" ELSE "bad part"

KnownUpload(r) == r.upload \in DOMAIN uploads /\ uploads[r.upload].key = r.key

\* The data a completion concatenates: the parts the upload holds.
Chunks(r) == [i \in DOMAIN r.parts |-> uploads[r.upload].parts[r.parts[i].number][1]]

\* get: conditions and ranges only choose among the answers to a reader.
Found(r) == IF Cur(r.key) = <<>> THEN "no key" ELSE "ok"

\* The error of a request, or "ok", in the order the code checks.
Verdict(r) ==
  CASE r.op = "bucket-put" -> "ok"
    [] r.op = "mp-abort" -> "ok"
    [] r.op \in {"mp-part", "mp-complete"} /\ ~KnownUpload(r) -> "no upload"
    [] r.op # "mp-part" /\ ~exists -> "no bucket"
    [] r.op = "bucket-delete" -> IF \E k \in Key : Cur(k) # <<>> THEN "conflict" ELSE "ok"
    [] r.op = "put" -> Precondition(r)
    [] r.op = "copy" -> IF Cur(r.src) = <<>> THEN "no key" 
         ELSE IF SourceCondition(r) # "ok" THEN SourceCondition(r) ELSE Precondition(r)
    [] r.op = "get" -> Found(r)
    [] r.op = "mp-complete" ->
         IF Precondition(r) # "ok" THEN Precondition(r) ELSE CompletionError(r)
    [] OTHER -> "ok"

\* The object a successful write leaves; by is the request that wrote it.
Written(i, r) ==
  CASE r.op = "put" -> [data |-> <<r.body>>, by |-> i,
                        etag |-> Tag([kind |-> "md5", of |-> <<r.body>>])]
    [] r.op = "copy" -> [data |-> Cur(r.src)[1].data, by |-> i, etag |-> CopyTag(Cur(r.src)[1])]
    [] r.op = "mp-complete" -> [data |-> Chunks(r), by |-> i,
                                etag |-> Tag([kind |-> "mp", of |-> Chunks(r)])]

Writes == {"put", "copy", "mp-complete"}

\* The keys whose object changes.
Touched(r) ==
  CASE r.op \in Writes -> {r.key}
    [] r.op = "delete" -> {k \in {r.key} : Cur(k) # <<>>}
    [] r.op = "deletes" -> {k \in Key : Cur(k) # <<>>}   \* a batch of every key
    [] OTHER -> {}

\* A faulty version: the event says the request was served, not that it
\* changed anything.
AppliedAlways(r) == TRUE

Applied(r) == \/ Touched(r) # {}
              \/ (r.op = "bucket-put" /\ ~exists)
              \/ r.op = "bucket-delete"

\* A faulty version: a completion leaves its upload open.
UploadsAfterKept(r) ==
  CASE r.op = "mp-create" -> uploads @@
         (nextID + 1 :> [key |-> r.key, parts |-> [p \in Part |-> <<>>]])
    [] r.op = "mp-part" -> [uploads EXCEPT ![r.upload].parts[r.part] = <<r.body>>]
    [] OTHER -> uploads

UploadsAfter(r) ==
  CASE r.op = "mp-create" -> uploads @@
         (nextID + 1 :> [key |-> r.key, parts |-> [p \in Part |-> <<>>]])
    [] r.op = "mp-part" -> [uploads EXCEPT ![r.upload].parts[r.part] = <<r.body>>]
    [] r.op \in {"mp-complete", "mp-abort"} ->
         [u \in DOMAIN uploads \ {r.upload} |-> uploads[u]]
    [] OTHER -> uploads

Handle(i) ==
  LET r == req[i]
      v == Verdict(r)
      ids == IF (UniqueETags /\ r.op \in Writes) \/ r.op = "mp-create" THEN 1 ELSE 0
  IN
  /\ stage[i] = "handle"
  /\ stage' = [stage EXCEPT ![i] = "after"]
  /\ IF v # "ok"
     THEN /\ event' = [event EXCEPT ![i] = [@ EXCEPT !.status = v]]
          /\ UNCHANGED store
     ELSE /\ event' = [event EXCEPT ![i] =
                [applied |-> Applied(r), status |-> "ok",
                 etag |-> CASE r.op = "put" -> Written(i, r).etag
                            [] r.op = "mp-part" -> [kind |-> "md5", of |-> <<r.body>>]
                            [] r.op = "get" -> Cur(r.key)[1].etag
                            [] OTHER -> NoTag]]
          /\ exists' = CASE r.op = "bucket-put" -> TRUE
                         [] r.op = "bucket-delete" -> FALSE [] OTHER -> exists
          /\ objects' = [k \in Key |-> IF k \notin Touched(r) THEN objects[k]
                                       ELSE IF r.op \in Writes THEN <<Written(i, r)>> ELSE <<>>]
          /\ nextID' = nextID + ids
          /\ uploads' = UploadsAfter(r)
          /\ effects' = effects \o SetToSeq(
               {[seq |-> i, key |-> k] : k \in
                  {x \in Key : objects'[x] # objects[x]}
                  \cup (IF exists' # exists THEN {"the bucket"} ELSE {})})
  /\ UNCHANGED <<rules, req, gone, fault, history, closer>>

-----------------------------------------------------------------------------
(* ServeHTTP around it.                                                    *)

Absent == [kind |-> "absent", etag |-> NoTag]
Always == [kind |-> "always", etag |-> NoTag]
If(kind, e) == [kind |-> kind, etag |-> e]

\* The conditions a client may send; an ETag is one it can have read.
Tags == {objects[k][1].etag : k \in {x \in Key : objects[x] # <<>>}}
Conds == {Absent, Always} \cup {If("match", e) : e \in Tags}
SourceConds == {Always} \cup {If(kind, e) : kind \in {"match", "differ"}, e \in Tags}

R(op, k) == [op |-> op, key |-> k, body |-> 0, cond |-> Always, src |-> k, scond |-> Always,
             upload |-> 0, part |-> 0, parts |-> <<>>]

\* The requests of each kind.
RequestsOf(op) ==
  LET IDs == 1..nextID
      Refs == [number : Part, body : Body]
  IN CASE op = "put" ->
            {[R(op, k) EXCEPT !.body = b, !.cond = c] : b \in Body, c \in Conds, k \in Key}
       [] op = "copy" ->
            {[R(op, k) EXCEPT !.src = s, !.cond = c, !.scond = d] :
               s \in Key, c \in {Absent, Always}, d \in SourceConds, k \in Key}
       [] op = "mp-part" ->
            {[R(op, k) EXCEPT !.upload = u, !.part = p, !.body = b] :
               u \in IDs, p \in Part, b \in Body, k \in Key}
       [] op = "mp-complete" ->
            {[R(op, k) EXCEPT !.upload = u, !.parts = ps] :
               u \in IDs, ps \in BoundedSeq(Refs, Cardinality(Part)) \ {<<>>}, k \in Key}
       [] op = "mp-abort" -> {[R(op, k) EXCEPT !.upload = u] : u \in IDs, k \in Key}
       [] OTHER -> {R(op, k) : k \in Key}

Init ==
  /\ conf \in Confs
  /\ exists = TRUE /\ objects = [k \in Key |-> <<>>]
  /\ uploads = [u \in {} |-> 0] /\ nextID = 0
  /\ rules = <<>>
  /\ req = <<>> /\ stage = <<>> /\ gone = {} /\ fault = <<>> /\ event = <<>>
  /\ history = <<>> /\ closer = "open" /\ effects = <<>>

\* The job makes the bucket itself.
CreateBucket ==
  /\ ~exists /\ exists' = TRUE
  /\ UNCHANGED <<objects, uploads, nextID, effects, rules, req, stage, gone, fault, event,
                 history, closer>>

\* A faulty version: a request is counted out before it is recorded.
InFlightShort(i) == stage[i] \notin {"ended", "recorded", "done"}

InFlight(i) == stage[i] # "done"

\* enter, unless the store is closed: a later request is hung up on.
Arrive(r) ==
  /\ closer = "open" /\ Len(req) < MaxReq
  /\ Cardinality({i \in Arrived : InFlight(i)}) < MaxOpen
  /\ req' = Append(req, r) /\ stage' = Append(stage, "body")
  /\ fault' = Append(fault, "none") /\ event' = Append(event, NoEvent)
  /\ UNCHANGED <<rules, gone, history, closer>> /\ UNCHANGED store

\* A client gives up, or its connection is closed under it.
ClientGone(i) ==
  /\ i \in MayQuit \ gone /\ stage[i] \notin {"ended", "recorded", "done"}
  /\ gone' = gone \cup {i}
  /\ UNCHANGED <<rules, req, stage, fault, event, history, closer>> /\ UNCHANGED store

Goto(i, s) == stage' = [stage EXCEPT ![i] = s]

End(i, status) ==
  /\ Goto(i, "ended")
  /\ event' = [event EXCEPT ![i].status = status]

\* The body cannot be read: the client is gone, or Close closed the connection.
BodyLost(i) ==
  /\ stage[i] = "body" /\ (i \in gone \/ closer # "open")
  /\ End(i, "hung up")
  /\ UNCHANGED <<rules, req, gone, fault, history, closer>> /\ UNCHANGED store

\* The framing of a streaming upload is broken.
BodyBad(i) ==
  /\ stage[i] = "body" /\ req[i].op \in {"put", "mp-part"}
  /\ End(i, "bad body")
  /\ UNCHANGED <<rules, req, gone, fault, history, closer>> /\ UNCHANGED store

\* The body is read and the fault drawn.
Draw(i, f) ==
  /\ stage[i] = "body" /\ f \in Drawn(req[i].op)
  /\ fault' = [fault EXCEPT ![i] = f]
  /\ CASE f = "fail" -> End(i, "injected")
       [] f = "drop" -> End(i, "hung up")
       [] f \in Holds -> Goto(i, "held") /\ UNCHANGED event
       [] OTHER -> Goto(i, "handle") /\ UNCHANGED event
  /\ UNCHANGED <<rules, req, gone, history, closer>> /\ UNCHANGED store

\* The delay of a Delay or a Stall is over.
HoldEnds(i) ==
  /\ stage[i] = "held" /\ fault[i] \in {"delay", "stall"}
  /\ Goto(i, "handle")
  /\ UNCHANGED <<rules, req, gone, fault, event, history, closer>> /\ UNCHANGED store

\* The client gives up on a Delay or a Hang, or the store closes: no effect.
HoldCut(i) ==
  /\ stage[i] = "held"
  /\ closer # "open" \/ (i \in gone /\ fault[i] # "stall")
  /\ End(i, "hung up")
  /\ UNCHANGED <<rules, req, gone, fault, history, closer>> /\ UNCHANGED store

\* The answer: what a fault after the effect makes of it, nothing for a client
\* that has gone, or the recorded one.  DelayAfter's wait is cut as Delay's.
Answer(i) ==
  /\ stage[i] = "after"
  /\ CASE fault[i] = "fail-after" -> End(i, "injected")
       [] fault[i] = "drop-after" -> End(i, "hung up")
       [] fault[i] = "delay-after" /\ closer # "open" /\ i \notin gone ->
            \E s \in {"hung up", event[i].status} : End(i, s)
       [] OTHER -> End(i, IF i \in gone THEN "hung up" ELSE event[i].status)
  /\ UNCHANGED <<rules, req, gone, fault, history, closer>> /\ UNCHANGED store

\* The deferred append to the history, and then inflight.Done.
Record(i) ==
  /\ stage[i] = "ended"
  /\ Goto(i, "recorded") /\ history' = Append(history, i)
  /\ UNCHANGED <<rules, req, gone, fault, event, closer>> /\ UNCHANGED store

Done(i) ==
  /\ stage[i] = "recorded"
  /\ Goto(i, "done")
  /\ UNCHANGED <<rules, req, gone, fault, event, history, closer>> /\ UNCHANGED store

Close ==
  /\ closer = "open" /\ closer' = "closing"
  /\ UNCHANGED <<rules, req, stage, gone, fault, event, history>> /\ UNCHANGED store

CloseReturns ==
  /\ closer = "closing" /\ \A i \in Arrived : ~InFlight(i)
  /\ closer' = "closed"
  /\ UNCHANGED <<rules, req, stage, gone, fault, event, history>> /\ UNCHANGED store

\* What the handler of a request does without its client, and without waiting
\* for a delay.
Serve(i) == BodyLost(i) \/ HoldCut(i) \/ Handle(i) \/ Answer(i) \/ Record(i) \/ Done(i)

Next ==
  /\ \/ \E op \in Ops : \E r \in RequestsOf(op) : Arrive(r)
     \/ \E i \in Arrived : \/ ClientGone(i) \/ BodyBad(i) \/ HoldEnds(i) \/ Serve(i)
                           \/ \E f \in Drawn(req[i].op) : Draw(i, f)
     \/ \E r \in RuleSet : AddRule(r)
     \/ \E is \in {{i} : i \in DOMAIN rules} \cup {DOMAIN rules} : RemoveRules(is)
     \/ CreateBucket \/ Close \/ CloseReturns
  /\ UNCHANGED conf

Spec == Init /\ [][Next]_vars
-----------------------------------------------------------------------------
Stages == {"body", "held", "handle", "after", "ended", "recorded", "done"}

\* Type invariant: one entry of every table for each request that arrived.
TypeOK ==
  /\ exists \in BOOLEAN /\ DOMAIN objects = Key /\ nextID \in Nat
  /\ Len(req) <= MaxReq /\ stage \in Seq(Stages)
  /\ {Len(stage), Len(fault), Len(event)} = {Len(req)}
  /\ gone \subseteq Arrived /\ history \in Seq(Arrived)
  /\ closer \in {"open", "closing", "closed"}
  /\ Len(rules) <= MaxRules

Effects == {effects[n].seq : n \in DOMAIN effects}
Over(i) == stage[i] \in {"recorded", "done"}

\* The history explains the store: the events marked Applied are the requests
\* that changed something, the object of a key is the one the last change of
\* that key wrote, and once Close has returned the history lists every request
\* that was let in, once.
HistoryExplains ==
  /\ \A i \in Arrived : event[i].applied <=> i \in Effects
  /\ \A k \in Key :
       LET on == {n \in DOMAIN effects : effects[n].key = k}
           last == CHOOSE n \in on : \A m \in on : m <= n
       IN  IF on = {} \/ req[effects[last].seq].op \notin Writes
           THEN objects[k] = <<>>
           ELSE objects[k] # <<>> /\ objects[k][1].by = effects[last].seq
  /\ IsInjective(history)
  /\ closer = "closed" => ToSet(history) = Arrived

\* Where a fault strikes: a Fail, Drop or Hang leaves the store as it was; a
\* fault after the effect, and a Stall unless the store closes, never costs an
\* unconditional write its effect, not even when the client has given up.
FaultsStrike ==
  \A i \in Arrived : Over(i) =>
    /\ fault[i] \in Before => i \notin Effects
    /\ (/\ req[i].op = "put" /\ req[i].cond = Always /\ "bucket-delete" \notin Ops
        /\ \/ fault[i] \in {"fail-after", "drop-after", "delay-after"}
           \/ (fault[i] = "stall" /\ closer = "open"))
       => i \in Effects

\* What a client is told is true: a write answered with success took effect,
\* and one the store itself refused did not; only an injected error, or no
\* answer, leaves the client in doubt.
AnswersAreTrue ==
  \A i \in Arrived : (Over(i) /\ req[i].op \in Writes) =>
    /\ event[i].status = "ok" => i \in Effects
    /\ event[i].status \notin {"ok", "injected", "hung up"} => i \notin Effects

\* Two writes that each demand that the key be absent (If-None-Match: *) do
\* not both take effect unless the object was deleted between them.
CreatedOnce ==
  \A m, n \in DOMAIN effects :
    (/\ m < n /\ effects[m].key = effects[n].key
     /\ req[effects[m].seq].op \in Writes
     /\ req[effects[n].seq].op \in Writes /\ req[effects[n].seq].cond = Absent)
    => \E d \in m..n : /\ effects[d].key = effects[m].key
                       /\ req[effects[d].seq].op \in {"delete", "deletes"}

\* With UniqueETags no update is lost: of the writes conditional on one ETag
\* (If-Match) at most one takes effect, however they are stalled or retried.
MatchedOnce ==
  UniqueETags =>
    \A i, j \in Effects :
      (/\ {req[i].op, req[j].op} \subseteq Writes
       /\ req[i].cond.kind = "match" /\ req[i].cond = req[j].cond) => i = j

\* An object a completion wrote is made of exactly the parts the client named
\* by ETag, though parts may be uploaded again meanwhile.
CompletedWhole ==
  \A k \in Key : objects[k] # <<>> =>
    LET r == req[objects[k][1].by]
    IN  r.op = "mp-complete" =>
          objects[k][1].data = [i \in DOMAIN r.parts |-> r.parts[i].body]

\* An upload is completed at most once, so a retried completion cannot write
\* the object again over a later one.
CompletedOnce ==
  \A i, j \in Effects :
    (/\ req[i].op = "mp-complete" /\ req[j].op = "mp-complete"
     /\ req[i].upload = req[j].upload) => i = j

\* What the store holds and its history are final once Close returns; only the
\* job itself can still make a bucket.
FinalAfterClose ==
  [][closer = "closed" => UNCHANGED <<objects, uploads, history>> /\ (exists => exists')]_vars

\* Close returns, whatever the requests in flight are held by: while it waits,
\* every request still in flight has a step to take that needs neither its
\* client nor a delay, and when none is left Close can return.  (A request's
\* stages only advance, so that many steps are all it waits for.)
CloseNotHeld ==
  closer = "closing" =>
    /\ \A i \in Arrived : stage[i] # "done" => ENABLED Serve(i)
    /\ (\A i \in Arrived : stage[i] = "done") => ENABLED CloseReturns

\* The history and the answers explain the store: what is marked Applied, and
\* what a client was told, is what happened to it, wherever a fault struck.
StoreExplained == HistoryExplains /\ AnswersAreTrue /\ FaultsStrike

\* A conditional write or a completion wins once, however it is stalled, raced
\* or retried, and a completion writes the parts it named.
WinsOnce == CreatedOnce /\ MatchedOnce /\ CompletedOnce /\ CompletedWhole

\* Close returns whatever holds the requests in flight, and what the store holds
\* is then final.
CloseIsFinal == []CloseNotHeld /\ FinalAfterClose
=============================================================================

---------------------------- MODULE ChangesStream ----------------------------
(***************************************************************************)
(* GET /:db/_changes for one user: ChangesController fetches batches of     *)
(* changes from CouchDB, keeps the permitted ones, streams them to the      *)
(* client and ends with last_seq, pending and lostPermissions.  Documents   *)
(* are written while a request is running.  A replicating client (external) *)
(* sends one request after another, each from the last_seq of the last      *)
(* response it received completely.                                         *)
(*                                                                         *)
(* CouchDB lists a document once, at the sequence number of its latest      *)
(* change, so the database is a function from documents to latest changes.  *)
(***************************************************************************)
EXTENDS Naturals, FiniteSets, FiniteSetsExt

CONSTANTS
    DocId,                      \* all documents
    Replicable,                 \* those DocumentFilterService lets through
    Limit,                      \* limits of requests; a large one means none
    INTERNAL_LIMIT_MULTIPLIER,
    MAX_INTERNAL_LIMIT,
    Kinds,                      \* the kinds of changes that are written
    MaxSeq,                     \* bound: writes in one behaviour
    MaxFaults                   \* bound: disconnects and upstream errors

\* The kinds of changes a user can meet.  "missing" has no document body although
\* it is no deletion.
Kind == {"readable", "unreadable", "cleanTombstone", "nullTombstone", "missing"}

ASSUME ChangesAssumption ==
    /\ IsFiniteSet(DocId) /\ Replicable \subseteq DocId
    /\ Limit \subseteq Nat \ {0}
    /\ INTERNAL_LIMIT_MULTIPLIER \in Nat \ {0}
    /\ MAX_INTERNAL_LIMIT \in Nat \ {0}
    /\ Kinds \subseteq Kind
    /\ MaxSeq \in Nat /\ MaxFaults \in Nat

VARIABLES
    updateSeq,      \* the database's update sequence
    docs,           \* the latest change of every document; seq 0 for none
    request,        \* the request being served
    checkpoint,     \* client: last_seq of the last complete response
    received,       \* client: the change of each document it received last
    faults

vars == <<updateSeq, docs, request, checkpoint, received, faults>>

-----------------------------------------------------------------------------
\* isPermitted, with isCleanTombstone and the ability's verdict in the kind.
PermittedKinds == {"readable", "cleanTombstone", "nullTombstone"}

isPermitted(d) == docs[d].kind \in PermittedKinds

\* The document exists and the user may not read it.
isLost(d) == docs[d].kind = "unreadable"

\* CouchDB's side of a _changes request: the changes after since, the first n
\* of them, and the last_seq and pending it reports with those.
changesAfter(since) == {d \in DocId : docs[d].seq > since}

firstOf(S, n) ==
    {d \in S : Cardinality({e \in S : docs[e].seq <= docs[d].seq}) <= n}

lastSeqOf(S) == Max({docs[d].seq : d \in S})

couchLastSeq(since, rows) ==
    IF rows = changesAfter(since) THEN updateSeq ELSE lastSeqOf(rows)

couchPending(since, rows) == Cardinality(changesAfter(since) \ rows)

\* getPermittedChanges: how many changes to ask CouchDB for.
internalLimit(limit) ==
    Min({limit * INTERNAL_LIMIT_MULTIPLIER, MAX_INTERNAL_LIMIT})

\* DocumentFilterService.isReplicable.
isReplicable(d) == d \in Replicable

permitted(rows) == {d \in rows : isReplicable(d) /\ isPermitted(d)}

\* filterChanges stops before the first permitted change beyond the limit.
processed(rows, limit) ==
    {d \in rows :
        Cardinality({e \in permitted(rows) : docs[e].seq <= docs[d].seq}) <= limit}

\* Mutant: the last_seq of CouchDB, also when part of the batch is left over.
batchLastSeqUnprocessed(since, rows, done) == couchLastSeq(since, rows)

\* filterChanges: the last_seq and pending of a batch after filtering.
batchLastSeq(since, rows, done) ==
    IF done = rows THEN couchLastSeq(since, rows) ELSE lastSeqOf(done)

\* Mutant: the part of the batch that is left over is not counted.
batchPendingCouch(since, rows, done) == couchPending(since, rows)

batchPending(since, rows, done) ==
    couchPending(since, rows) + Cardinality(rows \ done)

-----------------------------------------------------------------------------
Idle == [pc |-> "idle", limit |-> 1, since |-> 0, written |-> 0, pending |-> 0,
         results |-> [d \in DocId |-> 0], lost |-> {}, closed |-> FALSE]

TypeOK ==
    /\ updateSeq \in Nat
    /\ docs \in [DocId -> [seq : Nat, kind : Kind]]
    /\ request \in [pc : {"idle", "fetch", "blocked", "check"},
                    limit : Nat, since : Nat, written : Nat, pending : Nat,
                    results : [DocId -> Nat], lost : SUBSET DocId,
                    closed : BOOLEAN]
    /\ checkpoint \in Nat
    /\ received \in [DocId -> Nat]
    /\ faults \in Nat

Init ==
    /\ updateSeq = 0
    /\ docs = [d \in DocId |-> [seq |-> 0, kind |-> "missing"]]
    /\ request = Idle
    /\ checkpoint = 0
    /\ received = [d \in DocId |-> 0]
    /\ faults = 0

Fault == faults < MaxFaults /\ faults' = faults + 1

\* Someone writes a document; its only entry moves to the end of the changes.
Write ==
    /\ updateSeq < MaxSeq
    /\ updateSeq' = updateSeq + 1
    /\ \E d \in DocId, k \in Kinds :
          docs' = [docs EXCEPT ![d] = [seq |-> updateSeq + 1, kind |-> k]]
    /\ UNCHANGED <<request, checkpoint, received, faults>>

\* Mutant: a request that sends no limit gets no default.
changesWithoutLimit ==
    /\ request.pc = "idle"
    /\ request' = [f \in DOMAIN Idle \ {"limit"} |->
                      IF f = "pc" THEN "fetch"
                      ELSE IF f = "since" THEN checkpoint ELSE Idle[f]]
    /\ UNCHANGED <<updateSeq, docs, checkpoint, received, faults>>

\* The client asks for the changes after its checkpoint.
changes ==
    /\ request.pc = "idle"
    /\ \E n \in Limit :
          request' = [Idle EXCEPT !.pc = "fetch", !.limit = n,
                                  !.since = checkpoint]
    /\ UNCHANGED <<updateSeq, docs, checkpoint, received, faults>>

\* What is left of the client's limit.
remaining == request.limit - request.written

\* getPermittedChanges and writeResults: one batch is fetched, filtered and
\* written, with the envelope's fields noted.  The client may be slower than
\* the stream ("blocked") or gone, in which case writing fails.
getPermittedChanges ==
    /\ request.pc = "fetch"
    /\ LET since == request.since
           limit == remaining
           rows  == firstOf(changesAfter(since), internalLimit(limit))
           done  == processed(rows, limit)
           sent  == permitted(done)
       IN  IF request.closed
           THEN request' = Idle
           ELSE \E pc \in {"check", "blocked"} :
                request' = [request EXCEPT
                    !.pc = pc,
                    !.written = @ + Cardinality(sent),
                    !.results = [d \in DocId |->
                                    IF d \in sent THEN docs[d].seq ELSE @[d]],
                    !.lost = @ \cup {d \in done : isReplicable(d) /\ isLost(d)},
                    !.since = batchLastSeq(since, rows, done),
                    !.pending = batchPending(since, rows, done)]
    /\ UNCHANGED <<updateSeq, docs, checkpoint, received, faults>>

\* The client caught up with the stream: the drain event.
drain ==
    /\ request.pc = "blocked" /\ ~ request.closed
    /\ request' = [request EXCEPT !.pc = "check"]
    /\ UNCHANGED <<updateSeq, docs, checkpoint, received, faults>>

\* Mutant: only drain settles a blocked write, which waits on for ever.
onDrainOnly ==
    /\ request.pc = "blocked" /\ request.closed
    /\ UNCHANGED vars

\* The close or error event while the stream is blocked: writing fails and the
\* response is aborted.
onFailure ==
    /\ request.pc = "blocked" /\ request.closed
    /\ request' = Idle
    /\ UNCHANGED <<updateSeq, docs, checkpoint, received, faults>>

\* isIterationComplete, apart from the time budget.
isIterationComplete ==
    \/ request.pending = 0
    \/ request.written >= request.limit
    \/ request.closed

nextBatch ==
    /\ request.pc = "check" /\ ~ isIterationComplete
    /\ request' = [request EXCEPT !.pc = "fetch"]
    /\ UNCHANGED <<updateSeq, docs, checkpoint, received, faults>>

\* Mutant: a response without results repeats the since of its request.
finishWithResults ==
    /\ request.pc = "check"
    /\ IF request.closed \/ request.written = 0
       THEN UNCHANGED <<checkpoint, received>>
       ELSE /\ checkpoint' = request.since
            /\ received' = [d \in DocId |->
                    IF request.results[d] # 0 THEN request.results[d]
                    ELSE received[d]]
    /\ request' = Idle
    /\ UNCHANGED <<updateSeq, docs, faults>>

\* The iteration is complete or the time budget is used up: the response ends,
\* unless the client is gone and the last write fails.
finish ==
    /\ request.pc = "check"
    /\ IF request.closed
       THEN UNCHANGED <<checkpoint, received>>
       ELSE /\ checkpoint' = request.since
            /\ received' = [d \in DocId |->
                    IF request.results[d] # 0 THEN request.results[d]
                    ELSE received[d]]
    /\ request' = Idle
    /\ UNCHANGED <<updateSeq, docs, faults>>

\* Mutant: a failing stream is ended like a complete one.
errorEndsStream ==
    /\ request.pc = "fetch"
    /\ Fault
    /\ checkpoint' = request.since
    /\ request' = Idle
    /\ UNCHANGED <<updateSeq, docs, received>>

\* CouchDB fails: abortStreamOrRethrow.  The client gets no complete response.
UpstreamError ==
    /\ request.pc = "fetch"
    /\ Fault
    /\ request' = Idle
    /\ UNCHANGED <<updateSeq, docs, checkpoint, received>>

Disconnect ==
    /\ request.pc # "idle" /\ ~ request.closed
    /\ Fault
    /\ request' = [request EXCEPT !.closed = TRUE]
    /\ UNCHANGED <<updateSeq, docs, checkpoint, received>>

-----------------------------------------------------------------------------
Serve ==
    \/ getPermittedChanges \/ drain \/ onFailure \/ nextBatch \/ finish

Next == Write \/ changes \/ Serve \/ UpstreamError \/ Disconnect

Spec == Init /\ [][Next]_vars

\* The handler runs on, a connected client reads what it is sent, and it asks
\* again after a response.  Writers and faults come as they please.
FairSpec == Spec /\ WF_vars(Serve) /\ WF_vars(changes)

-----------------------------------------------------------------------------
(***************************************************************************)
(* Properties                                                              *)
(***************************************************************************)
\* A response under way covers everything up to the last_seq it would end with:
\* each document whose latest change lies between the client's checkpoint and
\* there is among the results if it is permitted, and reported as lost if it
\* exists and may not be read; across batches, although documents are rewritten
\* between them.
NothingSkipped ==
    request.pc \in {"check", "blocked"} =>
        \A d \in Replicable :
            checkpoint < docs[d].seq /\ docs[d].seq <= request.since =>
                /\ isPermitted(d) => request.results[d] = docs[d].seq
                /\ isLost(d) => d \in request.lost

\* All batches together stay within the limit of the request, and pending
\* counts exactly the changes after the reported last_seq (the batch was cut
\* off there), so that a response with pending 0 misses none.
BatchNumbers ==
    [][request.pc = "fetch" /\ request'.pc \in {"check", "blocked"} =>
          /\ request'.written <= request'.limit
          /\ request'.pending = Cardinality(changesAfter(request'.since))]_vars

\* No request hangs, also when the client is gone while the stream is blocked.
RequestsEnd == request.pc # "idle" ~> request.pc = "idle"

\* Once nobody writes any more, the client ends up with the latest permitted
\* change of every document.
ClientCatchesUp ==
    <>[](\A d \in Replicable : isPermitted(d) => received[d] = docs[d].seq)

\* Whatever the batches, limits, aborts and rewrites, what the client sees is an
\* atomic feed: each complete response takes it from its checkpoint to a later
\* one with nothing it may read left out in between (ChangesFeed).
Feed == INSTANCE ChangesFeed WITH Permitted <- PermittedKinds

ImplementsFeed == Feed!Spec

\* What a test of the controller says: "should not add doc to lostPermissions if
\* user has access to the latest revision (even if a previous revision had lost
\* permissions)".
LostAreUnreadable ==
    request.pc = "check" /\ ~ request.closed =>
        \A d \in request.lost : docs[d].seq <= request.since => ~ isPermitted(d)
=============================================================================

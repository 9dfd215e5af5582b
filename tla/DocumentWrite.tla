---------------------------- MODULE DocumentWrite ----------------------------
(***************************************************************************)
(* Writes to one document: PUT and DELETE (DocumentWriteService) and        *)
(* _bulk_docs (BulkDocumentService), each of which reads the document from  *)
(* CouchDB, checks the user's permission on what it read, writes and then   *)
(* records the write in the audit database (DefaultAuditService).  Requests *)
(* run concurrently and meet at every call to CouchDB.                      *)
(*                                                                         *)
(* The documents of a bulk request are checked, written and recorded        *)
(* independently of each other, so such a request is modelled by what it    *)
(* does to the one document.  "bulk" has new_edits true, "push" is what     *)
(* PouchDB replication sends: new_edits false.                              *)
(***************************************************************************)
EXTENDS Naturals, FiniteSets

CONSTANTS
    Req,            \* request slots
    User,
    System,         \* author of what was there before auditing was enabled
    Key, Text,      \* the two fields of a document; rules look at the key
    Create, Update, Delete,     \* Update[u]: the keys u may update, and so on
    TextOnly,       \* TextOnly[u]: the keys whose update rule names fields: text
    Kinds,          \* the kinds of requests sent
    FaultKinds,     \* the kinds of faults that happen
    MaxRev,         \* bound: revisions of the document
    MaxFaults       \* bound: faults in one behaviour

Kind == {"put", "delete", "bulk", "push"}

ASSUME WriteAssumption ==
    /\ System \notin User
    /\ Create \in [User -> SUBSET Key]
    /\ Update \in [User -> SUBSET Key]
    /\ Delete \in [User -> SUBSET Key]
    /\ TextOnly \in [User -> SUBSET Key]
    /\ Kinds \subseteq Kind
    /\ FaultKinds \subseteq {"read", "write", "lookup", "audit", "crash"}
    /\ MaxRev \in Nat /\ MaxFaults \in Nat

VARIABLES
    revs,       \* the document's revision tree in CouchDB
    req,        \* the request in each slot
    audit,      \* the document's records in the audit database
    faults      \* the kinds of faults that happened

vars == <<revs, req, audit, faults>>

-----------------------------------------------------------------------------
Body == [key : Key, text : Text]

\* A revision has a number, 0 stands for none.  by and kind keep which
\* request wrote it; nothing reads them but the properties.
Revision ==
    [rev : Nat, parent : Nat, body : Body, deleted : BOOLEAN,
     by : User \cup {System}, kind : Kind]

\* A record holds a difference to the revision before, or with 0 a whole state.
\* The code's record does not name before; overtook is history.
Record ==
    [rev : Nat, operation : {"create", "update", "delete", "baseline"},
     before : Nat, user : User, overtook : BOOLEAN]

Revs == {r.rev : r \in revs}
Get(n) == CHOOSE r \in revs : r.rev = n

leaves == {r \in revs : \A s \in revs : s.parent # r.rev}
live == {r \in leaves : ~ r.deleted}

\* What a GET (or a row of _all_docs with include_docs) can return.  Which of
\* several live leaves wins is up to CouchDB.
winner == IF live = {} THEN {0} ELSE {r.rev : r \in live}

Idle == [pc |-> "idle"]

\* A DELETE sends no document.
NoBody == CHOOSE b \in Body : TRUE

Request ==
    [pc : {"read", "write", "lookup", "post"}, kind : Kind, user : User,
     rev : Nat, ifMatch : Nat, body : Body, deleted : BOOLEAN,
     existing : Nat, newRev : Nat, first : BOOLEAN]

TypeOK ==
    /\ revs \subseteq Revision
    /\ req \in [Req -> Request \cup {Idle}]
    /\ audit \subseteq Record
    /\ faults \subseteq FaultKinds

\* Auditing is switched on: the document may exist already.
Init ==
    /\ \/ revs = {}
       \/ \E b \in Body :
             revs = {[rev |-> 1, parent |-> 0, body |-> b, deleted |-> FALSE,
                      by |-> System, kind |-> "put"]}
    /\ req = [q \in Req |-> Idle]
    /\ audit = {}
    /\ faults = {}

Fault(kind) ==
    /\ kind \in FaultKinds \ faults
    /\ Cardinality(faults) < MaxFaults
    /\ faults' = faults \cup {kind}

Goto(q, pc) == req' = [req EXCEPT ![q].pc = pc]
\* Mutant: a request that ended stays in its slot.
DoneKept(q) == Goto(q, "idle")
Done(q) == req' = [req EXCEPT ![q] = Idle]

-----------------------------------------------------------------------------
\* A request arrives.  A client names no revision or one it has seen: in the
\* document, in the If-Match header of a PUT, in the query of a DELETE, as the
\* parent of what it pushes.
receive(q) ==
    /\ req[q] = Idle
    /\ Cardinality(revs) + Cardinality({p \in Req : req[p] # Idle}) < MaxRev
    /\ \E k \in Kinds, u \in User, b \in Body, del \in BOOLEAN,
          n \in Revs \cup {0}, header \in BOOLEAN :
          /\ header => k = "put" /\ n # 0
          /\ k = "delete" => del /\ b = NoBody
          /\ req' = [req EXCEPT ![q] =
                [pc |-> "read", kind |-> k, user |-> u, body |-> b,
                 deleted |-> del,
                 rev |-> IF header THEN 0 ELSE n,
                 ifMatch |-> IF header THEN n ELSE 0,
                 existing |-> 0, newRev |-> 0, first |-> FALSE]]
    /\ UNCHANGED <<revs, audit, faults>>

\* isAllowedTo in putDocument and deleteDocument, hasPermissionsForDoc for bulk
\* requests: the action depends on the request and on what was read, and the
\* check is on what was read unless that is nothing.
isDelete(kind, deleted) == kind = "delete" \/ (kind # "put" /\ deleted)

mayReplace(r, user, kind, deleted) ==
    IF isDelete(kind, deleted)
    THEN r.body.key \in Delete[user]
    ELSE r.body.key \in Update[user]

isAllowedTo(x, existing) ==
    IF existing = 0
    THEN x.kind # "delete" /\ x.body.key \in Create[x.user]
    ELSE mayReplace(Get(existing), x.user, x.kind, x.deleted)

\* Mutant: permitted fields are not told from the others.
applyAllFields(x, old) == x

\* applyPermissions: where the rule names fields, what was read is written back
\* with those fields changed, _rev included; else the document as it was sent.
applyPermissions(x, old) ==
    IF old.body.key \in TextOnly[x.user]
    THEN [x EXCEPT !.rev = old.rev, !.deleted = FALSE,
                   !.body = [old.body EXCEPT !.text = x.body.text]]
    ELSE [x EXCEPT !.rev = IF x.ifMatch # 0 THEN x.ifMatch ELSE x.rev]

finalDoc(x, existing) ==
    IF x.kind = "put" /\ existing # 0
    THEN applyPermissions(x, Get(existing))
    ELSE x

\* Mutant: an update is checked like the creation of what was sent.
checkSubmitted(q, existing) ==
    IF req[q].body.key \in Create[req[q].user]
    THEN req' = [req EXCEPT ![q] =
            [finalDoc(req[q], existing) EXCEPT !.pc = "write",
                                               !.existing = existing]]
    ELSE Done(q)

\* The permission check on what was read, and what is to be written.
checkExisting(q, existing) ==
    IF isAllowedTo(req[q], existing)
    THEN req' = [req EXCEPT ![q] =
            [finalDoc(req[q], existing) EXCEPT !.pc = "write",
                                               !.existing = existing]]
    ELSE Done(q)

\* A PUT reads the document before it writes.
readForPut(q) ==
    /\ req[q].pc = "read" /\ req[q].kind = "put"
    /\ \E n \in winner : checkExisting(q, n)
    /\ UNCHANGED <<revs, audit, faults>>

\* A DELETE reads the revision named in its query, if there is one.
readForDelete(q) ==
    /\ req[q].pc = "read" /\ req[q].kind = "delete"
    /\ \E n \in IF req[q].rev # 0 THEN {req[q].rev} ELSE winner :
          checkExisting(q, n)
    /\ UNCHANGED <<revs, audit, faults>>

\* A bulk request reads its documents with one POST to _all_docs.
fetchExistingDocs(q) ==
    /\ req[q].pc = "read" /\ req[q].kind \in {"bulk", "push"}
    /\ \E n \in winner : checkExisting(q, n)
    /\ UNCHANGED <<revs, audit, faults>>

\* The read fails.  A PUT takes any failure for "Doc does not exist"; the other
\* requests are answered with the error.
ReadFail(q) ==
    /\ req[q].pc = "read"
    /\ Fault("read")
    /\ IF req[q].kind = "put" THEN checkExisting(q, 0) ELSE Done(q)
    /\ UNCHANGED <<revs, audit>>

-----------------------------------------------------------------------------
\* CouchDB's verdict: with new_edits the revision named must be a leaf, or none
\* if no leaf is live; a DELETE needs a live document and its revision.
accepts(x) ==
    \/ x.kind = "push"
    \/ x.rev \in {r.rev : r \in leaves} /\ (x.kind = "delete" => live # {})
    \/ x.rev = 0 /\ live = {} /\ x.kind # "delete"

\* The revision a write replaces: a document without _rev follows a tombstone.
parentOf(x) ==
    IF x.rev = 0 /\ x.kind # "push" /\ leaves # {}
    THEN {r.rev : r \in leaves} ELSE {x.rev}

newRev == Cardinality(revs) + 1

addRevision(x) ==
    \E p \in parentOf(x) :
        revs' = revs \cup
            {[rev |-> newRev, parent |-> p, deleted |-> x.deleted,
              body |-> IF x.kind = "delete" THEN Get(x.rev).body ELSE x.body,
              by |-> x.user, kind |-> x.kind]}

\* The operation in the audit record.
operation(x) ==
    IF isDelete(x.kind, x.deleted) THEN "delete"
    ELSE IF x.existing = 0 THEN "create" ELSE "update"

\* Mutant: no baseline before a delete.
needsBaselineForUpdates(x) == operation(x) = "update"

\* needsBaseline, before the lookup.
needsBaseline(x) == x.existing # 0 /\ operation(x) # "create"

\* CouchDB takes the write, and recording it begins.
writeDocument(q) ==
    LET x == req[q]
    IN  /\ x.pc = "write"
        /\ accepts(x)
        /\ addRevision(x)
        /\ req' = [req EXCEPT ![q] =
              [x EXCEPT !.pc = IF needsBaseline(x) THEN "lookup" ELSE "post",
                        !.newRev = newRev]]
        /\ UNCHANGED <<audit, faults>>

\* CouchDB reports a conflict: nothing is written, nothing recorded.
writeConflict(q) ==
    /\ req[q].pc = "write"
    /\ ~ accepts(req[q])
    /\ Done(q)
    /\ UNCHANGED <<revs, audit, faults>>

\* The write fails, or its answer is lost.
WriteFail(q) ==
    /\ req[q].pc = "write"
    /\ Fault("write")
    /\ \/ UNCHANGED revs
       \/ accepts(req[q]) /\ addRevision(req[q])
    /\ Done(q)
    /\ UNCHANGED audit

-----------------------------------------------------------------------------
\* Does any record of the document exist?
isFirstAuditFor(q) ==
    /\ req[q].pc = "lookup"
    /\ req' = [req EXCEPT ![q].pc = "post", ![q].first = (audit = {})]
    /\ UNCHANGED <<revs, audit, faults>>

\* A failed lookup counts as a record.
LookupFail(q) ==
    /\ req[q].pc = "lookup"
    /\ Fault("lookup")
    /\ Goto(q, "post")
    /\ UNCHANGED <<revs, audit>>

\* The first record of a document that was there before auditing is posted while
\* changes of it have yet to look for a record, and it was created anew meanwhile.
overtakes ==
    /\ audit = {}
    /\ \E r \in revs : r.by = System
    /\ \E p \in Req : req[p].pc = "lookup"
    /\ \E p \in Req : req[p].pc = "post" /\ req[p].existing = 0

\* Mutant: a create is recorded with the revision of the document sent: none.
buildRecordOfChange(x) ==
    [rev |-> IF x.existing = 0 THEN 0 ELSE x.newRev,
     operation |-> operation(x), before |-> x.existing, user |-> x.user,
     overtook |-> overtakes]

buildRecord(x) ==
    [rev |-> x.newRev, operation |-> operation(x), before |-> x.existing,
     user |-> x.user, overtook |-> overtakes]

buildBaseline(x) ==
    [rev |-> x.existing, operation |-> "baseline", before |-> 0,
     user |-> x.user, overtook |-> FALSE]

\* Mutant: the before-state is no copy and reads like what was written.
recordAfterState(q) ==
    /\ req[q].pc = "post"
    /\ audit' = audit \cup {[buildRecord(req[q]) EXCEPT !.before = req[q].newRev]}
    /\ Done(q)
    /\ UNCHANGED <<revs, faults>>

\* record: the records are posted to the audit database and the request ends.
record(q) ==
    /\ req[q].pc = "post"
    /\ audit' = audit \cup {buildRecord(req[q])}
                      \cup IF req[q].first THEN {buildBaseline(req[q])} ELSE {}
    /\ Done(q)
    /\ UNCHANGED <<revs, faults>>

\* Recording fails, at ensureDb or at the post: logged, the request succeeds.
AuditFail(q) ==
    /\ req[q].pc \in {"lookup", "post"}
    /\ Fault("audit")
    /\ Done(q)
    /\ UNCHANGED <<revs, audit>>

\* The process dies with every request in it.
Crash ==
    /\ \E q \in Req : req[q] # Idle
    /\ Fault("crash")
    /\ req' = [q \in Req |-> Idle]
    /\ UNCHANGED <<revs, audit>>

-----------------------------------------------------------------------------
Next ==
    \/ \E q \in Req :
          \/ receive(q)
          \/ readForPut(q) \/ readForDelete(q) \/ fetchExistingDocs(q)
          \/ ReadFail(q)
          \/ writeDocument(q) \/ writeConflict(q) \/ WriteFail(q)
          \/ isFirstAuditFor(q) \/ LookupFail(q) \/ record(q) \/ AuditFail(q)
    \/ Crash

Spec == Init /\ [][Next]_vars

-----------------------------------------------------------------------------
(***************************************************************************)
(* Properties                                                              *)
(***************************************************************************)
\* The revisions that replaced a live one.
Replacing == {r \in revs : r.parent # 0 /\ ~ Get(r.parent).deleted}

\* What a test of the controller says, "should throw exception if the update
\* permission is not given": a live revision is replaced only by a user who may
\* do so on that very revision.
UpdateNeedsPermission ==
    \A r \in Replacing :
        r.by # System =>
            mayReplace(Get(r.parent), r.by, r.kind, r.deleted)

\* No read has failed, and no two revisions follow the same one: pushes have made
\* no conflicting branch.  What a request reads is then the one document there is.
Linear ==
    /\ "read" \notin faults
    /\ \A r, s \in revs : r.parent = s.parent => r = s

\* The permission decided on the revision that was read holds for the revision
\* that is replaced, by a PUT, a DELETE, a bulk write or a push, although others
\* write between the check and the write.  Only without branches: with several
\* leaves the check is on the one that wins, the write may name another.
ReplacedWithPermission == Linear => UpdateNeedsPermission

\* A PUT by a user whose rule names fields changes those fields of the revision
\* it replaces and nothing else, whatever others write meanwhile.  (With branches a
\* PUT can name a leaf other than the one that was read and checked.)
FieldsKept ==
    Linear =>
        \A r \in Replacing :
            LET p == Get(r.parent)
            IN  r.kind = "put" /\ r.by # System /\ p.body.key \in TextOnly[r.by] =>
                    ~ r.deleted /\ r.body.key = p.body.key

\* The before-state of an audit record is the revision that the recorded write
\* replaced, and no state in between is missing from the trail.  Only without
\* branches: the record of a push beside the winner is a difference to the winner.
DiffAgainstReplaced ==
    Linear =>
        \A a \in audit :
            a.operation # "baseline" /\ Get(a.rev) \in Replacing =>
                a.before = Get(a.rev).parent

\* "On each successful write one record is written": every revision written
\* through the backend has its record or is about to get it, whatever requests
\* overlap.  Only a failing audit database, a lost answer or a crash loses one.
AuditComplete ==
    faults \cap {"write", "audit", "crash"} = {} =>
        \A r \in revs :
            \/ r.by = System
            \/ \E a \in audit :
                  a.rev = r.rev /\ a.user = r.by /\ a.operation # "baseline"
            \/ \E q \in Req :
                  /\ req[q].pc \in {"lookup", "post"}
                  /\ req[q].newRev = r.rev /\ req[q].user = r.by

\* What the trail tells of the document: the states it holds in full, and with a
\* state every other that a difference leads to or from.
Full == {a.rev : a \in {b \in audit : b.before = 0}}
Known(S) ==
    /\ Full \subseteq S
    /\ \A a \in audit : a.before # 0 => (a.rev \in S <=> a.before \in S)

\* README: a baseline is recorded "so history is not lost when the feature is
\* switched on for an existing system".  When all requests have ended, every
\* state the document ever had can be told from the trail, the one from before
\* auditing included, however first changes overlap.  Two exceptions: a fault, and
\* a document that was deleted and created anew while its first changes had yet to
\* look for a record (they find the creation's, and nobody writes the baseline).
HistoryKept ==
    /\ faults = {} /\ audit # {}
    /\ \A q \in Req : req[q] = Idle
    /\ \A a \in audit : ~ a.overtook
    => \A S \in SUBSET Revs : Known(S) => S = Revs
=============================================================================

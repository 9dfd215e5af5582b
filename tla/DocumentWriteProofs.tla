------------------------ MODULE DocumentWriteProofs ------------------------
(***************************************************************************)
(* Proofs about DocumentWrite for any number of concurrent requests, any     *)
(* users, keys and rules, any bound on revisions and on faults.              *)
(***************************************************************************)
EXTENDS DocumentWrite, FiniteSetTheorems, TLAPS

-----------------------------------------------------------------------------
(***************************************************************************)
(* The inductive invariant.  It speaks of revisions and never of Get, whose  *)
(* choice is only shown to be the revision meant (GetRev).                   *)
(***************************************************************************)
\* Revision r was written over p while p was live.
Replaced(r, p) == r.parent = p.rev /\ ~ p.deleted

\* Fields kept by a PUT of a user whose rule for p names fields.
KeepsFields(p, user, kind, deleted, body) ==
    kind = "put" /\ p.body.key \in TextOnly[user] =>
        ~ deleted /\ body.key = p.body.key

\* The revision tree: numbers are distinct and given in order, a parent is a
\* revision or none, a tree has a root.  What was there before auditing is live
\* as long as nothing follows it.
TreeInv ==
    /\ IsFiniteSet(revs)
    /\ \A r \in revs : r.rev \in 1 .. Cardinality(revs) /\ r.parent \in Revs \cup {0}
    /\ \A r, s \in revs : r.rev = s.rev => r = s
    /\ revs # {} => \E r \in revs : r.parent = 0
    /\ \A r \in revs : r.by = System => r.rev = 1 /\ r.parent = 0 /\ ~ r.deleted

\* Requests and audit records name revisions that exist.
RefInv ==
    /\ \A q \in Req : req[q].pc # "idle" =>
          /\ req[q].rev \in Revs \cup {0} /\ req[q].ifMatch \in Revs \cup {0}
          /\ req[q].existing \in Revs \cup {0}
          /\ req[q].pc \in {"lookup", "post"} => req[q].newRev \in Revs
          /\ req[q].pc = "lookup" => req[q].existing # 0
    /\ \A a \in audit : /\ a.operation # "baseline" => a.rev \in Revs
                        /\ a.operation = "baseline" => a.before = 0
                        /\ a.before \in Revs \cup {0}

\* What a request is about to write was checked and merged against the revision
\* it has read.
CheckInv ==
    \A q \in Req, p \in revs : req[q].pc = "write" /\ req[q].existing = p.rev =>
        /\ mayReplace(p, req[q].user, req[q].kind, req[q].deleted)
        /\ KeepsFields(p, req[q].user, req[q].kind, req[q].deleted, req[q].body)

\* In a linear history the tree has at most one leaf, every revision of a user
\* was permitted on what it replaced and keeps the fields of it, and the records
\* name it.
TreeLinear ==
    Linear =>
        /\ \A r, s \in leaves : r = s
        /\ \A r, p \in revs : Replaced(r, p) /\ r.by # System =>
              /\ mayReplace(p, r.by, r.kind, r.deleted)
              /\ KeepsFields(p, r.by, r.kind, r.deleted, r.body)
        /\ \A a \in audit, r, p \in revs :
              a.operation # "baseline" /\ a.rev = r.rev /\ Replaced(r, p) =>
                  a.before = p.rev

\* In a linear history a request that can still replace a live leaf is one that
\* has read it, and what a request is about to record was read from the revision
\* it replaced.
RequestLinear ==
    Linear =>
        /\ \A q \in Req, l \in live :
              req[q].pc = "write" /\ req[q].rev = l.rev => req[q].existing = l.rev
        /\ \A q \in Req, r, p \in revs :
              /\ req[q].pc \in {"lookup", "post"}
              /\ req[q].newRev = r.rev /\ Replaced(r, p)
              => req[q].existing = p.rev

\* Revision n is recorded, or about to be, as a difference to e; with 0, as a
\* creation.
Link(n, e) ==
    \/ \E a \in audit : a.operation # "baseline" /\ a.rev = n /\ a.before = e
    \/ \E q \in Req : /\ req[q].pc \in {"lookup", "post"}
                      /\ req[q].newRev = n /\ req[q].existing = e

\* Revision n has its baseline or is about to get it.
Base(n) ==
    \/ \E a \in audit : a.operation = "baseline" /\ a.rev = n
    \/ \E q \in Req :
          req[q].pc = "post" /\ req[q].first = TRUE /\ req[q].existing = n

\* No difference leads into T or out of it.
Apart(T) == \A n, e \in Revs : Link(n, e) => (n \in T <=> e \in T)

\* What no difference connects with the rest began with the state from before
\* auditing or with a creation.
Begun ==
    \A T \in SUBSET Revs : T # {} /\ Apart(T) =>
        \/ \E s \in revs : s.by = System /\ s.rev \in T
        \/ \E n \in T : Link(n, 0)

\* The first request that replaced the state from before auditing has read it.
FirstChange ==
    \A s \in revs : s.by = System =>
        \/ /\ revs = {s}
           /\ \A q \in Req : req[q].pc \notin {"lookup", "post"}
           /\ \A q \in Req : req[q].pc = "write" => req[q].existing = s.rev
        \/ \E n \in Revs : Link(n, s.rev)

\* A request that records a difference has found a record or adds the baseline.
Lookup ==
    \A q \in Req : req[q].pc = "post" /\ req[q].existing # 0 =>
        req[q].first = TRUE \/ audit # {}

\* Once a trail has begun, the state from before auditing is connected with one
\* that is held in full, unless a creation has overtaken the first changes.
Anchored ==
    audit # {} /\ (\A a \in audit : ~ a.overtook) =>
        \A s \in revs, T \in SUBSET Revs :
            s.by = System /\ s.rev \in T /\ Apart(T) =>
                \E n \in T : Base(n) \/ Link(n, 0)

TrailInv == faults = {} => Begun /\ FirstChange /\ Lookup /\ Anchored

WriteInv ==
    /\ TypeOK /\ TreeInv /\ RefInv /\ CheckInv /\ TreeLinear /\ RequestLinear
    /\ TrailInv /\ AuditComplete

-----------------------------------------------------------------------------
(***************************************************************************)
(* The revision tree                                                       *)
(***************************************************************************)
\* Get finds the revision with a number.
LEMMA GetRev ==
    ASSUME TreeInv
    PROVE  /\ \A r \in revs : Get(r.rev) = r
           /\ \A n \in Revs : Get(n) \in revs /\ Get(n).rev = n
<1>1. \A r \in revs : Get(r.rev) \in revs /\ Get(r.rev).rev = r.rev
  BY DEF Get
<1>2. \A r, s \in revs : r.rev = s.rev => r = s
  BY DEF TreeInv
<1> QED
  BY <1>1, <1>2 DEF Revs

\* The next number is new.
LEMMA NextNumber ==
    ASSUME TypeOK, TreeInv
    PROVE  newRev \in Nat \ {0} /\ newRev \notin Revs /\ 0 \notin Revs
<1>1. Cardinality(revs) \in Nat
  BY FS_CardinalityType DEF TreeInv
<1>2. \A r \in revs : r.rev \in 1 .. Cardinality(revs)
  BY DEF TreeInv
<1> QED
  BY <1>1, <1>2 DEF Revs, newRev

\* A tree with one more revision.
LEMMA TreeGrows ==
    ASSUME TypeOK, TreeInv, NEW n \in Revision, revs' = revs \cup {n},
           n.rev = newRev, n.parent \in Revs \cup {0}, n.by # System
    PROVE  /\ TreeInv'
           /\ Revs' = Revs \cup {newRev}
           /\ leaves' \subseteq {n} \cup {l \in leaves : l.rev # n.parent}
           /\ live' \subseteq {n} \cup live
<1>1. newRev \in Nat \ {0} /\ newRev \notin Revs /\ n \notin revs
  BY NextNumber DEF Revs
<1>2. IsFiniteSet(revs) /\ Cardinality(revs) \in Nat
  BY FS_CardinalityType DEF TreeInv
<1>3. IsFiniteSet(revs') /\ Cardinality(revs') = Cardinality(revs) + 1
  BY <1>1, <1>2, FS_AddElement
<1>4. Revs' = Revs \cup {newRev}
  BY DEF Revs
<1>5. \A r \in revs' : r.rev \in 1 .. Cardinality(revs')
  <2>1. \A r \in revs : r.rev \in 1 .. Cardinality(revs)
    BY DEF TreeInv
  <2> QED
    BY <1>2, <1>3, <2>1 DEF newRev
<1>6. \A r \in revs' : r.parent \in Revs' \cup {0}
  BY <1>4 DEF TreeInv
<1>7. \A r, s \in revs' : r.rev = s.rev => r = s
  <2>1. \A r \in revs : r.rev \in Revs
    BY DEF Revs
  <2> QED
    BY <1>1, <2>1 DEF TreeInv
<1>8. leaves' \subseteq {n} \cup {l \in leaves : l.rev # n.parent}
  BY DEF leaves
<1>9. live' \subseteq {n} \cup live
  BY <1>8 DEF live
<1>10. \E r \in revs' : r.parent = 0
  <2>1. CASE revs = {}
    <3>1. n.parent = 0
      BY <2>1 DEF Revs
    <3> QED
      BY <3>1
  <2>2. CASE revs # {}
    BY <2>2 DEF TreeInv
  <2> QED
    BY <2>1, <2>2
<1>11. \A r \in revs' : r.by = System => r.rev = 1 /\ r.parent = 0 /\ ~ r.deleted
  BY DEF TreeInv
<1> QED
  BY <1>3, <1>4, <1>5, <1>6, <1>7, <1>8, <1>9, <1>10, <1>11 DEF TreeInv

\* What a write that CouchDB accepts adds: a push follows the revision it names,
\* every other write the leaf it names, a tombstone, or nothing.
LEMMA NewRevision ==
    ASSUME TypeOK, TreeInv, RefInv, NEW q \in Req, req[q].pc = "write",
           accepts(req[q]), addRevision(req[q])
    PROVE  \E n \in Revision :
              /\ revs' = revs \cup {n} /\ n.rev = newRev
              /\ n.parent \in Revs \cup {0}
              /\ n.by = req[q].user /\ n.by # System /\ n.kind = req[q].kind
              /\ n.deleted = req[q].deleted
              /\ n.kind # "delete" => n.body = req[q].body
              /\ \/ n.parent = req[q].rev
                 \/ leaves = {} /\ n.parent = 0
                 \/ \E l \in leaves :
                       n.parent = l.rev /\ (l.deleted \/ req[q].rev = l.rev)
<1> DEFINE x == req[q]
<1>1. x \in Request
  BY DEF TypeOK, Idle
<1>2. PICK p \in parentOf(x) :
         revs' = revs \cup
            {[rev |-> newRev, parent |-> p, deleted |-> x.deleted,
              body |-> IF x.kind = "delete" THEN Get(x.rev).body ELSE x.body,
              by |-> x.user, kind |-> x.kind]}
  BY DEF addRevision
<1> DEFINE n == [rev |-> newRev, parent |-> p, deleted |-> x.deleted,
                 body |-> IF x.kind = "delete" THEN Get(x.rev).body ELSE x.body,
                 by |-> x.user, kind |-> x.kind]
<1>3. x.rev \in Revs \cup {0} /\ \A l \in leaves : l.rev \in Revs /\ l.rev # 0
  BY NextNumber DEF RefInv, leaves, Revs
<1>4. p \in Revs \cup {0}
  BY <1>3 DEF parentOf
<1>5. x.kind = "delete" => x.rev \in Revs
  BY <1>3 DEF accepts
<1>6. n.body \in Body
  BY <1>1, <1>5, GetRev DEF TypeOK, Request, Revision
<1>7. Revs \in SUBSET Nat /\ newRev \in Nat
  BY NextNumber DEF TypeOK, Revs, Revision
<1>8. n \in Revision
  BY <1>1, <1>4, <1>6, <1>7 DEF Request, Revision
<1>9. \/ p = x.rev
      \/ leaves = {} /\ p = 0
      \/ \E l \in leaves : p = l.rev /\ (l.deleted \/ x.rev = l.rev)
  <2>1. CASE x.kind # "push" /\ x.rev \in {r.rev : r \in leaves}
    BY <1>3, <2>1 DEF parentOf
  <2>2. CASE x.kind # "push" /\ x.rev = 0 /\ live = {} /\ leaves # {}
    BY <2>2 DEF parentOf, live
  <2>3. CASE x.kind # "push" /\ x.rev = 0 /\ leaves = {}
    BY <2>3 DEF parentOf
  <2>4. CASE x.kind = "push"
    BY <2>4 DEF parentOf
  <2> QED
    BY <2>1, <2>2, <2>3, <2>4 DEF accepts
<1>10. n.by # System
  BY <1>1, WriteAssumption DEF Request
<1> QED
  BY <1>2, <1>4, <1>8, <1>9, <1>10

\* An accepted write keeps the tree well-formed, and in a linear history it
\* replaces only what its request has read and was permitted to replace.
LEMMA TreeWrite ==
    ASSUME WriteInv, NEW q \in Req, req[q].pc = "write", accepts(req[q]),
           addRevision(req[q]), UNCHANGED audit, faults \subseteq faults'
    PROVE  /\ revs' \subseteq Revision
           /\ TreeInv' /\ TreeLinear'
           /\ Revs' = Revs \cup {newRev}
           /\ \E n \in Revision :
                 /\ revs' = revs \cup {n} /\ n.rev = newRev
                 /\ n.by = req[q].user /\ n.by # System
                 /\ n.parent \in Revs \cup {0}
                 /\ live' \subseteq {n} \cup live
                 /\ Linear' => \A p \in revs : Replaced(n, p) =>
                                  req[q].existing = p.rev
<1>1. PICK n \in Revision :
         /\ revs' = revs \cup {n} /\ n.rev = newRev
         /\ n.parent \in Revs \cup {0}
         /\ n.by = req[q].user /\ n.by # System /\ n.kind = req[q].kind
         /\ n.deleted = req[q].deleted
         /\ n.kind # "delete" => n.body = req[q].body
         /\ \/ n.parent = req[q].rev
            \/ leaves = {} /\ n.parent = 0
            \/ \E l \in leaves :
                  n.parent = l.rev /\ (l.deleted \/ req[q].rev = l.rev)
  BY NewRevision DEF WriteInv
<1>2. /\ TreeInv' /\ Revs' = Revs \cup {newRev}
      /\ leaves' \subseteq {n} \cup {l \in leaves : l.rev # n.parent}
      /\ live' \subseteq {n} \cup live
  BY <1>1, TreeGrows DEF WriteInv
<1>3. /\ newRev \notin Revs \cup {0} /\ 0 \notin Revs
      /\ \A r \in revs : r.rev \in Revs /\ r.parent # newRev
  BY NextNumber DEF WriteInv, TreeInv, Revs
<1>4. revs' \subseteq Revision
  BY <1>1 DEF WriteInv, TypeOK
<1>5. ASSUME Linear'
      PROVE  Linear /\ \A r \in revs : r.parent # n.parent
  <2>1. n \notin revs
    BY <1>1, <1>3
  <2> QED
    BY <1>1, <1>5, <2>1 DEF Linear
<1>6. ASSUME Linear'
      PROVE  /\ \A r, s \in leaves' : r = s
             /\ \A p \in revs : n.parent = p.rev => p \in leaves
  <2>1. \A r, s \in leaves : r = s
    BY <1>5, <1>6 DEF WriteInv, TreeLinear
  <2>2. \A p \in revs : n.parent = p.rev => p \in leaves
    BY <1>5, <1>6 DEF leaves
  <2>3. CASE n.parent = 0
    <3>1. revs = {}
      BY <1>5, <1>6, <2>3 DEF WriteInv, TreeInv
    <3> QED
      BY <1>1, <1>2, <2>2, <3>1 DEF leaves
  <2>4. CASE n.parent # 0
    <3>1. PICK p \in revs : n.parent = p.rev
      BY <1>1, <2>4 DEF Revs
    <3> QED
      BY <1>2, <2>1, <2>2, <3>1
  <2> QED
    BY <2>3, <2>4
<1>7. ASSUME Linear', NEW p \in revs, Replaced(n, p)
      PROVE  req[q].existing = p.rev
  <2>1. p \in live
    BY <1>6, <1>7 DEF Replaced, live
  <2>2. req[q].rev = p.rev
    <3>1. CASE n.parent = req[q].rev
      BY <1>7, <3>1 DEF Replaced
    <3>2. CASE leaves = {} /\ n.parent = 0
      BY <2>1, <3>2 DEF live
    <3>3. ASSUME NEW l \in leaves, n.parent = l.rev, l.deleted \/ req[q].rev = l.rev
          PROVE  req[q].rev = p.rev
      <4>1. l \in revs /\ l = p
        BY <1>7, <3>3 DEF leaves, Replaced, WriteInv, TreeInv
      <4> QED
        BY <1>7, <3>3, <4>1 DEF Replaced
    <3> QED
      BY <1>1, <3>1, <3>2, <3>3
  <2> QED
    BY <1>5, <1>7, <2>1, <2>2 DEF WriteInv, RequestLinear
<1>8. ASSUME Linear', NEW r \in revs', NEW p \in revs', Replaced(r, p)
      PROVE  p \in revs /\ (r \in revs \/ r = n)
  BY <1>1, <1>3, <1>8 DEF Replaced
<1>9. ASSUME Linear', NEW r \in revs', NEW p \in revs', Replaced(r, p),
             r.by # System
      PROVE  /\ mayReplace(p, r.by, r.kind, r.deleted)
             /\ KeepsFields(p, r.by, r.kind, r.deleted, r.body)
  <2>1. CASE r \in revs
    BY <1>5, <1>8, <1>9, <2>1 DEF WriteInv, TreeLinear
  <2>2. CASE r = n
    <3>1. p \in revs /\ req[q].existing = p.rev
      BY <1>7, <1>8, <1>9, <2>2
    <3>2. /\ mayReplace(p, req[q].user, req[q].kind, req[q].deleted)
          /\ KeepsFields(p, req[q].user, req[q].kind, req[q].deleted, req[q].body)
      BY <3>1 DEF WriteInv, CheckInv
    <3> QED
      BY <1>1, <2>2, <3>2 DEF KeepsFields
  <2> QED
    BY <1>8, <1>9, <2>1, <2>2
<1>10. ASSUME Linear', NEW a \in audit', NEW r \in revs', NEW p \in revs',
              a.operation # "baseline", a.rev = r.rev, Replaced(r, p)
       PROVE  a.before = p.rev
  <2>1. p \in revs /\ r \in revs
    BY <1>1, <1>3, <1>8, <1>10 DEF WriteInv, RefInv
  <2> QED
    BY <1>5, <1>10, <2>1 DEF WriteInv, TreeLinear
<1>11. TreeLinear'
  BY <1>6, <1>9, <1>10 DEF TreeLinear
<1> QED
  BY <1>1, <1>2, <1>4, <1>7, <1>11

-----------------------------------------------------------------------------
(***************************************************************************)
(* Each action keeps the invariant                                         *)
(***************************************************************************)
LEMMA WriteInit == Init => WriteInv
<1> SUFFICES ASSUME Init PROVE WriteInv
  OBVIOUS
<1>1. \A q \in Req : req[q] = Idle /\ req[q].pc = "idle"
  BY DEF Init, Idle
<1>2. \/ revs = {}
      \/ \E r \in Revision : /\ revs = {r} /\ r.rev = 1 /\ r.parent = 0
                              /\ r.by = System /\ ~ r.deleted
  <2>1. ASSUME NEW b \in Body
        PROVE  [rev |-> 1, parent |-> 0, body |-> b, deleted |-> FALSE,
                by |-> System, kind |-> "put"] \in Revision
    BY DEF Revision, Kind
  <2> QED
    BY <2>1 DEF Init
<1>3. TypeOK
  BY <1>2 DEF Init, TypeOK
<1>4. TreeInv
  <2>1. CASE revs = {}
    BY <2>1, FS_EmptySet DEF TreeInv
  <2>2. ASSUME NEW r \in Revision, revs = {r}, r.rev = 1, r.parent = 0, ~ r.deleted
        PROVE  TreeInv
    <3>1. IsFiniteSet(revs) /\ Cardinality(revs) = 1
      BY <2>2, FS_Singleton
    <3> QED
      BY <2>2, <3>1 DEF TreeInv
  <2> QED
    BY <1>2, <2>1, <2>2
<1>5. \A r, p \in revs : r = p /\ r.by = System /\ ~ Replaced(r, p)
  BY <1>2 DEF Replaced
<1>6. RefInv /\ CheckInv /\ RequestLinear
  BY <1>1 DEF Init, RefInv, CheckInv, RequestLinear
<1>7. TreeLinear
  BY <1>5 DEF TreeLinear, leaves
<1>8. AuditComplete
  BY <1>5 DEF AuditComplete
<1>9. TrailInv
  <2>1. Begun
    BY <1>5 DEF Begun, Revs
  <2>2. FirstChange
    BY <1>1, <1>5 DEF FirstChange
  <2>3. Lookup /\ Anchored
    BY <1>1 DEF Init, Lookup, Anchored
  <2> QED
    BY <2>1, <2>2, <2>3 DEF TrailInv
<1> QED
  BY <1>3, <1>4, <1>6, <1>7, <1>8, <1>9 DEF WriteInv

\* What the trail invariant says of the tree is kept while no revision and no
\* link comes or goes.
LEMMA SameLinks ==
    ASSUME TrailInv, faults = {}, UNCHANGED revs,
           \A n, e : Link(n, e)' <=> Link(n, e)
    PROVE  /\ Begun'
           /\ \A T : Apart(T)' <=> Apart(T)
           /\ \A s \in revs : s.by = System =>
                 revs = {s} \/ \E n \in Revs : Link(n, s.rev)'
<1>1. Revs' = Revs
  BY DEF Revs
<1>2. \A T : Apart(T)' <=> Apart(T)
  BY <1>1 DEF Apart
<1>3. Begun'
  BY <1>1, <1>2 DEF TrailInv, Begun
<1> QED
  BY <1>2, <1>3 DEF TrailInv, FirstChange

\* A step that changes one request and neither the tree nor the trail.
LEMMA OneRequest ==
    ASSUME WriteInv, NEW q \in Req, NEW y \in Request \cup {Idle},
           req' = [req EXCEPT ![q] = y], UNCHANGED <<revs, audit>>,
           faults \subseteq faults', faults' \subseteq FaultKinds,
           \* what the new state of the request refers to
           y.pc # "idle" =>
              /\ y.rev \in Revs \cup {0} /\ y.ifMatch \in Revs \cup {0}
              /\ y.existing \in Revs \cup {0},
           y.pc \in {"lookup", "post"} =>
              /\ req[q].pc \in {"lookup", "post"}
              /\ y.newRev = req[q].newRev /\ y.existing = req[q].existing
              /\ y.user = req[q].user,
           \* what it is about to write
           y.pc = "write" => \A p \in revs : y.existing = p.rev =>
              /\ mayReplace(p, y.user, y.kind, y.deleted)
              /\ KeepsFields(p, y.user, y.kind, y.deleted, y.body),
           y.pc = "write" /\ Linear' => \A l \in live :
              y.rev = l.rev => y.existing = l.rev,
           \* what it is about to record
           y.pc # "lookup",
           y.pc = "write" /\ faults' = {} => \A s \in revs :
              s.by = System /\ revs = {s} => y.existing = s.rev,
           y.pc = "post" /\ y.existing # 0 /\ faults' = {} =>
              y.first = TRUE \/ audit # {},
           req[q].pc = "post" => faults' # {},
           \* a record is given up only with a fault
           req[q].pc \in {"lookup", "post"} /\ y.pc \notin {"lookup", "post"} =>
              faults' \cap {"write", "audit", "crash"} # {}
    PROVE  WriteInv'
<1>1. /\ req'[q] = y /\ \A z \in Req \ {q} : req'[z] = req[z]
      /\ req' \in [Req -> Request \cup {Idle}]
  BY DEF WriteInv, TypeOK
<1>2. Revs' = Revs /\ leaves' = leaves /\ live' = live
  BY DEF Revs, leaves, live
<1>3. Linear' => Linear
  BY DEF Linear
<1>4. TypeOK'
  BY <1>1 DEF WriteInv, TypeOK
<1>5. TreeInv'
  BY <1>2 DEF WriteInv, TreeInv
<1>6. RefInv'
  BY <1>1, <1>2 DEF WriteInv, RefInv
<1>7. CheckInv'
  BY <1>1 DEF WriteInv, CheckInv
<1>8. TreeLinear'
  BY <1>2, <1>3 DEF WriteInv, TreeLinear
<1>9. RequestLinear'
  BY <1>1, <1>2, <1>3 DEF WriteInv, RequestLinear
<1>10. TrailInv'
  <2>1. SUFFICES ASSUME faults' = {}
                 PROVE  (Begun /\ FirstChange /\ Lookup /\ Anchored)'
    BY DEF TrailInv
  <2>2. faults = {} /\ TrailInv
    BY <2>1 DEF WriteInv
  <2>3. req[q].pc \in {"lookup", "post"} <=> y.pc \in {"lookup", "post"}
    BY <2>1
  <2>4. \A n, e : Link(n, e)' <=> Link(n, e)
    BY <1>1, <2>3 DEF Link
  <2>5. \A n : Base(n) => Base(n)'
    BY <1>1, <2>1 DEF Base
  <2>6. Begun' /\ \A T : Apart(T)' <=> Apart(T)
    BY <2>2, <2>4, SameLinks
  <2>7. FirstChange'
    BY <1>1, <1>2, <2>1, <2>2, <2>3, <2>4 DEF TrailInv, FirstChange
  <2>8. Lookup'
    BY <1>1, <2>1, <2>2 DEF TrailInv, Lookup
  <2>9. Anchored'
    BY <1>2, <2>2, <2>4, <2>5, <2>6 DEF TrailInv, Anchored
  <2> QED
    BY <2>6, <2>7, <2>8, <2>9
<1>11. AuditComplete'
  BY <1>1 DEF WriteInv, AuditComplete
<1> QED
  BY <1>4, <1>5, <1>6, <1>7, <1>8, <1>9, <1>10, <1>11 DEF WriteInv

LEMMA StepReceive ==
    ASSUME WriteInv, NEW q \in Req, receive(q)
    PROVE  WriteInv'
<1>1. PICK k \in Kinds, u \in User, b \in Body, del \in BOOLEAN,
           n \in Revs \cup {0}, header \in BOOLEAN :
         /\ header => k = "put" /\ n # 0
         /\ k = "delete" => del /\ b = NoBody
         /\ req' = [req EXCEPT ![q] =
                [pc |-> "read", kind |-> k, user |-> u, body |-> b,
                 deleted |-> del,
                 rev |-> IF header THEN 0 ELSE n,
                 ifMatch |-> IF header THEN n ELSE 0,
                 existing |-> 0, newRev |-> 0, first |-> FALSE]]
  BY Zenon DEF receive
<1> DEFINE y == [pc |-> "read", kind |-> k, user |-> u, body |-> b,
                 deleted |-> del,
                 rev |-> IF header THEN 0 ELSE n,
                 ifMatch |-> IF header THEN n ELSE 0,
                 existing |-> 0, newRev |-> 0, first |-> FALSE]
<1>2. Revs \in SUBSET Nat
  BY DEF WriteInv, TypeOK, Revs, Revision
<1>3. y \in Request /\ y.pc = "read"
  BY <1>2, WriteAssumption DEF Request
<1>4. /\ y.rev \in Revs \cup {0} /\ y.ifMatch \in Revs \cup {0}
      /\ y.existing \in Revs \cup {0}
  OBVIOUS
<1>5. req[q].pc = "idle"
  BY DEF receive, Idle
<1>6. req' = [req EXCEPT ![q] = y]
  BY <1>1
<1>7. UNCHANGED <<revs, audit, faults>> /\ faults \subseteq FaultKinds
  BY DEF receive, WriteInv, TypeOK
<1> HIDE DEF y
<1> QED
  BY <1>3, <1>4, <1>5, <1>6, <1>7, OneRequest

\* A request that ends without having written, or with a fault.
LEMMA StepEnd ==
    ASSUME WriteInv, NEW q \in Req, Done(q), UNCHANGED <<revs, audit>>,
           faults \subseteq faults', faults' \subseteq FaultKinds,
           req[q].pc \in {"lookup", "post"} =>
              faults' \cap {"write", "audit", "crash"} # {}
    PROVE  WriteInv'
<1>1. Idle.pc = "idle"
  BY DEF Idle
<1>2. req' = [req EXCEPT ![q] = Idle]
  BY DEF Done
<1> QED
  BY <1>1, <1>2, OneRequest

\* The permission check: what will be written if it succeeds.
LEMMA StepCheck ==
    ASSUME WriteInv, NEW q \in Req, req[q].pc = "read",
           NEW n \in Revs \cup {0}, checkExisting(q, n),
           Linear' => \A l \in live :
              n = l.rev \/ (req[q].kind = "delete" /\ (req[q].rev # 0 => n = req[q].rev)),
           faults' = {} => \A s \in revs :
              s.by = System /\ revs = {s} => n = s.rev,
           UNCHANGED <<revs, audit>>, faults \subseteq faults',
           faults' \subseteq FaultKinds
    PROVE  WriteInv'
<1> DEFINE x == req[q]
           y == [finalDoc(x, n) EXCEPT !.pc = "write", !.existing = n]
<1>1. CASE ~ isAllowedTo(x, n)
  BY <1>1, StepEnd DEF checkExisting
<1>2. CASE isAllowedTo(x, n)
  <2>1. x \in Request /\ x.rev \in Revs \cup {0} /\ x.ifMatch \in Revs \cup {0}
    BY DEF WriteInv, TypeOK, RefInv, Idle
  <2>2. Revs \in SUBSET Nat /\ 0 \notin Revs
    BY NextNumber DEF WriteInv, TypeOK, Revs, Revision
  <2>3. \A p \in revs : n = p.rev => n # 0 /\ Get(n) = p
    BY <2>2, GetRev DEF WriteInv, Revs
  <2>4. n # 0 => Get(n) \in revs /\ Get(n).rev = n /\ Get(n).body \in Body
    BY GetRev DEF WriteInv, TypeOK, Revision
  <2>5. /\ y \in Request /\ y.pc = "write" /\ y.existing = n /\ y.kind = x.kind
        /\ y.user = x.user
        /\ y.rev \in Revs \cup {0} /\ y.ifMatch \in Revs \cup {0}
        /\ y.deleted = x.deleted \/ x.kind = "put"
        /\ y.rev = x.rev \/ x.kind = "put"
    <3>1. CASE x.kind = "put" /\ n # 0 /\ Get(n).body.key \in TextOnly[x.user]
      <4>1. /\ y = [x EXCEPT !.rev = n, !.deleted = FALSE, !.pc = "write",
                             !.body = [Get(n).body EXCEPT !.text = x.body.text],
                             !.existing = n]
        BY <2>1, <2>4, <3>1 DEF finalDoc, applyPermissions, Request
      <4>2. [Get(n).body EXCEPT !.text = x.body.text] \in Body
        BY <2>1, <2>4, <3>1 DEF Request, Body
      <4>3. y \in Request
        <5>1. n \in Nat
          BY <2>2
        <5> HIDE DEF y
        <5> QED
          BY <2>1, <4>1, <4>2, <5>1 DEF Request
      <4>4. /\ y.pc = "write" /\ y.existing = n /\ y.rev = n /\ y.kind = x.kind
            /\ y.user = x.user /\ y.ifMatch = x.ifMatch
        <5> HIDE DEF y
        <5> QED
          BY <2>1, <4>1 DEF Request
      <4> QED
        BY <2>1, <3>1, <4>3, <4>4
    <3>2. CASE x.kind = "put" /\ n # 0 /\ Get(n).body.key \notin TextOnly[x.user]
      <4>1. y = [x EXCEPT !.rev = IF x.ifMatch # 0 THEN x.ifMatch ELSE x.rev,
                          !.pc = "write", !.existing = n]
        BY <2>1, <3>2 DEF finalDoc, applyPermissions, Request
      <4> QED
        BY <2>1, <2>2, <3>2, <4>1 DEF Request
    <3>3. CASE x.kind # "put" \/ n = 0
      <4>1. y = [x EXCEPT !.pc = "write", !.existing = n]
        BY <3>3 DEF finalDoc
      <4>2. y \in Request
        <5>1. n \in Nat
          BY <2>2
        <5> HIDE DEF y
        <5> QED
          BY <2>1, <4>1, <5>1 DEF Request
      <4>3. y.deleted = x.deleted
        BY <2>1, <4>1, Zenon DEF Request
      <4> QED
        BY <2>1, <4>1, <4>2, <4>3 DEF Request
    <3> QED
      BY <3>1, <3>2, <3>3
  <2>6. ASSUME NEW p \in revs, n = p.rev
        PROVE  mayReplace(p, y.user, y.kind, y.deleted)
    <3>1. mayReplace(p, x.user, x.kind, x.deleted)
      BY <1>2, <2>3, <2>6 DEF isAllowedTo
    <3> QED
      BY <2>5, <3>1 DEF mayReplace, isDelete
  <2>7. ASSUME NEW p \in revs, n = p.rev
        PROVE  KeepsFields(p, y.user, y.kind, y.deleted, y.body)
    <3>1. SUFFICES ASSUME x.kind = "put", p.body.key \in TextOnly[x.user]
                   PROVE  ~ y.deleted /\ y.body.key = p.body.key
      BY <2>5 DEF KeepsFields
    <3>2. n # 0 /\ Get(n) = p /\ p.body \in Body
      BY <2>3, <2>4, <2>7
    <3>3. y = [x EXCEPT !.rev = p.rev, !.deleted = FALSE, !.pc = "write",
                        !.body = [p.body EXCEPT !.text = x.body.text],
                        !.existing = n]
      BY <2>1, <3>1, <3>2 DEF finalDoc, applyPermissions, Request
    <3>4. y.body = [p.body EXCEPT !.text = x.body.text]
      BY <2>1, <3>3 DEF Request
    <3>5. y.body.key = p.body.key
      BY <3>2, <3>4 DEF Body
    <3>6. y.deleted = FALSE
      BY <2>1, <3>3 DEF Request
    <3> QED
      BY <3>5, <3>6
  <2>8. ASSUME Linear', NEW l \in live, y.rev = l.rev
        PROVE  n = l.rev
    <3>1. l.rev # 0
      BY <2>2 DEF live, leaves, Revs
    <3> QED
      BY <2>5, <2>8, <3>1
  <2>9. req' = [req EXCEPT ![q] = y]
    BY <1>2 DEF checkExisting
  <2> HIDE DEF y
  <2> QED
    BY <2>5, <2>6, <2>7, <2>8, <2>9, OneRequest
<1> QED
  BY <1>1, <1>2

\* The reads of PUT, DELETE and bulk requests, and their failure.
LEMMA StepRead ==
    ASSUME WriteInv, NEW q \in Req,
           readForPut(q) \/ readForDelete(q) \/ fetchExistingDocs(q) \/ ReadFail(q)
    PROVE  WriteInv'
<1>1. winner \subseteq Revs \cup {0}
  BY DEF winner, live, leaves, Revs
<1>2. ASSUME Linear, NEW l \in live, NEW n \in winner
      PROVE  n = l.rev
  BY <1>2 DEF WriteInv, TreeLinear, winner, live
<1>3. faults \subseteq FaultKinds
  BY DEF WriteInv, TypeOK
<1>4. UNCHANGED <<revs, faults>> => Linear' = Linear
  BY DEF Linear
<1>9. ASSUME NEW s \in revs, s.by = System, revs = {s}
      PROVE  winner = {s.rev} /\ Revs = {s.rev}
  <2>1. s.parent = 0 /\ s.rev = 1 /\ ~ s.deleted
    BY <1>9 DEF WriteInv, TreeInv
  <2>2. live = {s}
    BY <1>9, <2>1 DEF live, leaves
  <2> QED
    BY <1>9, <2>2 DEF winner, Revs
<1>5. CASE readForPut(q)
  <2>1. PICK n \in winner : checkExisting(q, n)
    BY <1>5 DEF readForPut
  <2>2. UNCHANGED <<revs, audit, faults>> /\ req[q].pc = "read"
    BY <1>5 DEF readForPut
  <2> QED
    BY <1>1, <1>2, <1>3, <1>4, <1>9, <2>1, <2>2, StepCheck
<1>6. CASE fetchExistingDocs(q)
  <2>1. PICK n \in winner : checkExisting(q, n)
    BY <1>6 DEF fetchExistingDocs
  <2>2. UNCHANGED <<revs, audit, faults>> /\ req[q].pc = "read"
    BY <1>6 DEF fetchExistingDocs
  <2> QED
    BY <1>1, <1>2, <1>3, <1>4, <1>9, <2>1, <2>2, StepCheck
<1>7. CASE readForDelete(q)
  <2>1. PICK n \in IF req[q].rev # 0 THEN {req[q].rev} ELSE winner :
           checkExisting(q, n)
    BY <1>7 DEF readForDelete
  <2>2. UNCHANGED <<revs, audit, faults>> /\ req[q].pc = "read"
        /\ req[q].kind = "delete"
    BY <1>7 DEF readForDelete
  <2>3. n \in Revs \cup {0} /\ (req[q].rev # 0 => n = req[q].rev)
    BY <1>1, <2>1, <2>2 DEF WriteInv, RefInv
  <2>4. \A s \in revs : s.by = System /\ revs = {s} => n = s.rev
    BY <1>9, <2>1, <2>3, NextNumber DEF WriteInv
  <2> QED
    BY <1>3, <2>1, <2>2, <2>3, <2>4, StepCheck
<1>8. CASE ReadFail(q)
  <2>1. /\ req[q].pc = "read" /\ UNCHANGED <<revs, audit>>
        /\ faults \subseteq faults' /\ faults' \subseteq FaultKinds
        /\ ~ Linear' /\ faults' # {}
    BY <1>3, <1>8 DEF ReadFail, Fault, Linear
  <2>2. checkExisting(q, 0) \/ Done(q)
    BY <1>8 DEF ReadFail
  <2>3. CASE checkExisting(q, 0)
    BY <2>1, <2>3, StepCheck
  <2>4. CASE Done(q)
    BY <2>1, <2>4, StepEnd
  <2> QED
    BY <2>2, <2>3, <2>4
<1> QED
  BY <1>5, <1>6, <1>7, <1>8

\* A write that CouchDB takes, with its answer or without.
LEMMA StepAdd ==
    ASSUME WriteInv, NEW q \in Req, req[q].pc = "write", accepts(req[q]),
           addRevision(req[q]), UNCHANGED audit,
           faults \subseteq faults', faults' \subseteq FaultKinds,
           NEW y \in Request \cup {Idle}, req' = [req EXCEPT ![q] = y],
           \/ y.pc = "idle" /\ faults' \cap {"write", "audit", "crash"} # {}
           \/ /\ y.pc = IF y.existing # 0 THEN "lookup" ELSE "post"
              /\ y.rev = req[q].rev /\ y.ifMatch = req[q].ifMatch
              /\ y.existing = req[q].existing /\ y.user = req[q].user
              /\ y.newRev = newRev
    PROVE  WriteInv'
<1>1. /\ revs' \subseteq Revision
      /\ TreeInv' /\ TreeLinear'
      /\ Revs' = Revs \cup {newRev}
  BY TreeWrite
<1>2. PICK n \in Revision :
         /\ revs' = revs \cup {n} /\ n.rev = newRev
         /\ n.by = req[q].user /\ n.by # System
         /\ n.parent \in Revs \cup {0}
         /\ live' \subseteq {n} \cup live
         /\ Linear' => \A p \in revs : Replaced(n, p) => req[q].existing = p.rev
  BY TreeWrite
<1>3. /\ req'[q] = y /\ \A z \in Req \ {q} : req'[z] = req[z]
      /\ req' \in [Req -> Request \cup {Idle}]
  BY DEF WriteInv, TypeOK
<1>4. /\ newRev \notin Revs \cup {0} /\ 0 \notin Revs
      /\ \A r \in revs : r.rev \in Revs /\ r.parent # newRev
  BY NextNumber DEF WriteInv, TreeInv, Revs
<1>5. Linear' => Linear
  BY <1>2 DEF Linear
<1>6. TypeOK'
  BY <1>1, <1>3 DEF WriteInv, TypeOK
<1>7. RefInv'
  BY <1>1, <1>3 DEF WriteInv, RefInv
<1>8. CheckInv'
  <2>1. SUFFICES ASSUME NEW z \in Req, NEW p \in revs',
                        req'[z].pc = "write", req'[z].existing = p.rev
                 PROVE  /\ z # q /\ req'[z] = req[z] /\ p \in revs
    BY DEF WriteInv, CheckInv
  <2>2. z # q /\ req'[z] = req[z]
    BY <1>3, <2>1
  <2>3. req[z].existing \in Revs \cup {0}
    BY <2>1, <2>2 DEF WriteInv, RefInv
  <2> QED
    BY <1>2, <1>4, <2>1, <2>2, <2>3
<1>9. RequestLinear'
  <2>1. SUFFICES ASSUME Linear'
                 PROVE  /\ \A z \in Req, l \in live' :
                              req'[z].pc = "write" /\ req'[z].rev = l.rev =>
                                  req'[z].existing = l.rev
                        /\ \A z \in Req, r, p \in revs' :
                              /\ req'[z].pc \in {"lookup", "post"}
                              /\ req'[z].newRev = r.rev /\ Replaced(r, p)
                              => req'[z].existing = p.rev
    BY DEF RequestLinear
  <2>2. ASSUME NEW z \in Req, NEW l \in live',
               req'[z].pc = "write", req'[z].rev = l.rev
        PROVE  req'[z].existing = l.rev
    <3>1. z # q /\ req'[z] = req[z]
      BY <1>3, <2>2
    <3>2. req[z].rev \in Revs \cup {0}
      BY <2>2, <3>1 DEF WriteInv, RefInv
    <3>3. l \in live
      BY <1>2, <1>4, <2>2, <3>1, <3>2
    <3> QED
      BY <1>5, <2>1, <2>2, <3>1, <3>3 DEF WriteInv, RequestLinear
  <2>3. ASSUME NEW z \in Req, NEW r \in revs', NEW p \in revs',
               req'[z].pc \in {"lookup", "post"}, req'[z].newRev = r.rev,
               Replaced(r, p)
        PROVE  req'[z].existing = p.rev
    <3>1. p \in revs
      BY <1>2, <1>4, <2>3 DEF Replaced
    <3>2. CASE z = q
      <4>1. r = n
        BY <1>2, <1>3, <1>4, <2>3, <3>2
      <4> QED
        BY <1>2, <1>3, <2>1, <2>3, <3>1, <3>2, <4>1
    <3>3. CASE z # q
      <4>1. req'[z] = req[z] /\ req[z].newRev \in Revs
        BY <1>3, <2>3, <3>3 DEF WriteInv, RefInv
      <4>2. r \in revs
        BY <1>2, <1>4, <2>3, <4>1
      <4> QED
        BY <1>5, <2>1, <2>3, <3>1, <4>1, <4>2 DEF WriteInv, RequestLinear
    <3> QED
      BY <3>2, <3>3
  <2> QED
    BY <2>2, <2>3
<1>10. TrailInv'
  <2>1. SUFFICES ASSUME faults' = {}
                 PROVE  (Begun /\ FirstChange /\ Lookup /\ Anchored)'
    BY DEF TrailInv
  <2>2. faults = {} /\ Begun /\ FirstChange /\ Lookup /\ Anchored
    BY <2>1 DEF WriteInv, TrailInv
  <2> DEFINE old == req[q].existing
  <2>3. y.pc \in {"lookup", "post"} /\ y.newRev = newRev /\ y.existing = old
    BY <2>1
  <2>4. \A i, e : Link(i, e)' <=> Link(i, e) \/ (i = newRev /\ e = old)
    BY <1>3, <2>3 DEF Link
  <2>5. \A i : Base(i) => Base(i)'
    BY <1>3 DEF Base
  <2>6. old \in Revs \cup {0}
    BY DEF WriteInv, RefInv
  <2>7. ASSUME NEW T \in SUBSET Revs', Apart(T)'
        PROVE  /\ Apart(T \cap Revs)
               /\ T \cap Revs = {} /\ T # {} => newRev \in T /\ old = 0
    <3>1. Apart(T \cap Revs)
      BY <1>1, <2>4, <2>7 DEF Apart
    <3>2. old # 0 => (newRev \in T <=> old \in T)
      BY <1>1, <2>4, <2>6, <2>7 DEF Apart
    <3> QED
      BY <1>1, <2>6, <3>1, <3>2
  <2> HIDE DEF old
  <2>8. Begun'
    <3>1. SUFFICES ASSUME NEW T \in SUBSET Revs', T # {}, Apart(T)'
                   PROVE  \/ \E s \in revs' : s.by = System /\ s.rev \in T
                          \/ \E i \in T : Link(i, 0)'
      BY DEF Begun
    <3>2. CASE T \cap Revs = {}
      BY <2>4, <2>7, <3>1, <3>2
    <3>3. CASE T \cap Revs # {}
      <4>1. \/ \E s \in revs : s.by = System /\ s.rev \in T \cap Revs
            \/ \E i \in T \cap Revs : Link(i, 0)
        BY <2>2, <2>7, <3>1, <3>3 DEF Begun
      <4> QED
        BY <1>2, <2>4, <4>1
    <3> QED
      BY <3>2, <3>3
  <2>9. FirstChange'
    <3>1. SUFFICES ASSUME NEW s \in revs, s.by = System
                   PROVE  \E i \in Revs' : Link(i, s.rev)'
      BY <1>2 DEF FirstChange
    <3>2. old = s.rev \/ \E i \in Revs : Link(i, s.rev)
      BY <2>2, <3>1 DEF FirstChange, old
    <3> QED
      BY <1>1, <2>4, <3>2
  <2>10. Lookup'
    BY <1>3, <2>1, <2>2 DEF Lookup
  <2>11. Anchored'
    <3>1. SUFFICES ASSUME audit # {}, \A a \in audit : ~ a.overtook,
                          NEW s \in revs', NEW T \in SUBSET Revs',
                          s.by = System, s.rev \in T, Apart(T)'
                   PROVE  \E i \in T : Base(i)' \/ Link(i, 0)'
      BY DEF Anchored
    <3>2. s \in revs /\ s.rev \in T \cap Revs
      BY <1>2, <3>1 DEF Revs
    <3>3. \E i \in T \cap Revs : Base(i) \/ Link(i, 0)
      BY <2>2, <2>7, <3>1, <3>2 DEF Anchored
    <3> QED
      BY <2>4, <2>5, <3>3
  <2> QED
    BY <2>8, <2>9, <2>10, <2>11
<1>11. AuditComplete'
  <2>1. SUFFICES ASSUME faults' \cap {"write", "audit", "crash"} = {},
                        NEW r \in revs'
                 PROVE  \/ r.by = System
                        \/ \E a \in audit' : /\ a.rev = r.rev /\ a.user = r.by
                                             /\ a.operation # "baseline"
                        \/ \E z \in Req : /\ req'[z].pc \in {"lookup", "post"}
                                          /\ req'[z].newRev = r.rev
                                          /\ req'[z].user = r.by
    BY DEF AuditComplete
  <2>2. CASE r = n
    BY <1>2, <1>3, <2>1, <2>2
  <2>3. CASE r \in revs
    <3>1. \/ r.by = System
          \/ \E a \in audit : /\ a.rev = r.rev /\ a.user = r.by
                              /\ a.operation # "baseline"
          \/ \E z \in Req : /\ req[z].pc \in {"lookup", "post"}
                            /\ req[z].newRev = r.rev
                            /\ req[z].user = r.by
      BY <2>1, <2>3 DEF WriteInv, AuditComplete
    <3> QED
      BY <1>3, <3>1
  <2> QED
    BY <1>2, <2>2, <2>3
<1> QED
  BY <1>1, <1>6, <1>7, <1>8, <1>9, <1>10, <1>11 DEF WriteInv

LEMMA StepWrite ==
    ASSUME WriteInv, NEW q \in Req,
           writeDocument(q) \/ writeConflict(q) \/ WriteFail(q)
    PROVE  WriteInv'
<1>1. faults \subseteq FaultKinds
  BY DEF WriteInv, TypeOK
<1>2. CASE writeDocument(q)
  <2> DEFINE x == req[q]
             y == [x EXCEPT !.pc = IF needsBaseline(x) THEN "lookup" ELSE "post",
                            !.newRev = newRev]
  <2>1. /\ x.pc = "write" /\ accepts(x) /\ addRevision(x)
        /\ req' = [req EXCEPT ![q] = y] /\ UNCHANGED <<audit, faults>>
    BY <1>2 DEF writeDocument
  <2>2. x \in Request /\ newRev \in Nat
    BY <2>1, NextNumber DEF WriteInv, TypeOK, Idle
  <2>3. y \in Request
    BY <2>2 DEF Request
  <2>4. /\ y.rev = x.rev /\ y.ifMatch = x.ifMatch /\ y.existing = x.existing
        /\ y.user = x.user /\ y.newRev = newRev
        /\ y.pc = IF needsBaseline(x) THEN "lookup" ELSE "post"
    BY <2>2 DEF Request
  <2>5. needsBaseline(x) <=> x.existing # 0
    BY DEF needsBaseline, operation
  <2> HIDE DEF y
  <2> QED
    BY <1>1, <2>1, <2>3, <2>4, <2>5, StepAdd
<1>3. CASE writeConflict(q)
  BY <1>1, <1>3, StepEnd DEF writeConflict
<1>4. CASE WriteFail(q)
  <2>1. /\ req[q].pc = "write" /\ Done(q) /\ UNCHANGED audit
        /\ faults \subseteq faults' /\ faults' \subseteq FaultKinds
        /\ "write" \in faults'
    BY <1>1, <1>4 DEF WriteFail, Fault
  <2>2. CASE UNCHANGED revs
    BY <2>1, <2>2, StepEnd
  <2>3. CASE accepts(req[q]) /\ addRevision(req[q])
    <3>1. req' = [req EXCEPT ![q] = Idle] /\ Idle.pc = "idle"
      BY <2>1 DEF Done, Idle
    <3>2. faults' \cap {"write", "audit", "crash"} # {}
      BY <2>1
    <3> QED
      BY <2>1, <2>3, <3>1, <3>2, StepAdd
  <2> QED
    BY <1>4, <2>2, <2>3 DEF WriteFail
<1> QED
  BY <1>2, <1>3, <1>4

LEMMA StepLookup ==
    ASSUME WriteInv, NEW q \in Req,
           isFirstAuditFor(q) \/ LookupFail(q) \/ AuditFail(q)
    PROVE  WriteInv'
<1>1. faults \subseteq FaultKinds
  BY DEF WriteInv, TypeOK
<1>2. ASSUME req[q].pc = "lookup"
      PROVE  req[q] \in Request
  BY <1>2 DEF WriteInv, TypeOK, Idle
<1>3. CASE isFirstAuditFor(q)
  <2> DEFINE y == [req[q] EXCEPT !.pc = "post", !.first = (audit = {})]
  <2>1. /\ req[q].pc = "lookup" /\ UNCHANGED <<revs, audit, faults>>
        /\ req' = [req EXCEPT ![q] = y]
    BY <1>3 DEF isFirstAuditFor, WriteInv, TypeOK
  <2>2. y \in Request
    BY <1>2, <2>1 DEF Request
  <2>3. /\ y.pc = "post" /\ y.newRev = req[q].newRev /\ y.user = req[q].user
        /\ y.existing = req[q].existing /\ y.rev = req[q].rev
        /\ y.ifMatch = req[q].ifMatch
    BY <1>2, <2>1 DEF Request
  <2>4. y.first = TRUE \/ audit # {}
    BY <1>2, <2>1 DEF Request
  <2>5. /\ y.rev \in Revs \cup {0} /\ y.ifMatch \in Revs \cup {0}
        /\ y.existing \in Revs \cup {0}
    BY <2>1, <2>3 DEF WriteInv, RefInv
  <2> HIDE DEF y
  <2> QED
    BY <1>1, <2>1, <2>2, <2>3, <2>4, <2>5, OneRequest
<1>4. CASE LookupFail(q)
  <2> DEFINE y == [req[q] EXCEPT !.pc = "post"]
  <2>1. /\ req[q].pc = "lookup" /\ UNCHANGED <<revs, audit>>
        /\ faults \subseteq faults' /\ faults' \subseteq FaultKinds
        /\ "lookup" \in faults'
        /\ req' = [req EXCEPT ![q] = y]
    BY <1>1, <1>4 DEF LookupFail, Fault, Goto, WriteInv, TypeOK
  <2>2. y \in Request
    BY <1>2, <2>1 DEF Request
  <2>3. /\ y.pc = "post" /\ y.newRev = req[q].newRev /\ y.user = req[q].user
        /\ y.existing = req[q].existing /\ y.rev = req[q].rev
        /\ y.ifMatch = req[q].ifMatch
    BY <1>2, <2>1 DEF Request
  <2>4. /\ y.rev \in Revs \cup {0} /\ y.ifMatch \in Revs \cup {0}
        /\ y.existing \in Revs \cup {0}
    BY <2>1, <2>3 DEF WriteInv, RefInv
  <2> HIDE DEF y
  <2> QED
    BY <2>1, <2>2, <2>3, <2>4, OneRequest
<1>5. CASE AuditFail(q)
  <2>1. /\ Done(q) /\ UNCHANGED <<revs, audit>>
        /\ faults \subseteq faults' /\ faults' \subseteq FaultKinds
        /\ "audit" \in faults'
    BY <1>1, <1>5 DEF AuditFail, Fault
  <2>2. faults' \cap {"write", "audit", "crash"} # {}
    BY <2>1
  <2> QED
    BY <2>1, <2>2, StepEnd
<1> QED
  BY <1>3, <1>4, <1>5

\* The records are posted and the request ends.
LEMMA StepRecord ==
    ASSUME WriteInv, NEW q \in Req, record(q)
    PROVE  WriteInv'
<1> DEFINE x == req[q]
           a == buildRecord(x)
           more == IF x.first THEN {buildBaseline(x)} ELSE {}
<1>1. x \in Request
  BY DEF record, WriteInv, TypeOK, Idle
<1>2. /\ x.pc = "post" /\ audit' = audit \cup {a} \cup more
      /\ UNCHANGED <<revs, faults>>
  BY DEF record
<1>3. /\ req'[q] = Idle /\ Idle.pc = "idle" /\ \A z \in Req \ {q} : req'[z] = req[z]
      /\ req' \in [Req -> Request \cup {Idle}]
  BY DEF record, Done, Idle, WriteInv, TypeOK
<1>4. Revs' = Revs /\ leaves' = leaves /\ live' = live /\ Linear' = Linear
  BY <1>2 DEF Revs, leaves, live, Linear
<1>5. /\ a.rev = x.newRev /\ a.before = x.existing /\ a.user = x.user
      /\ a.operation \in {"create", "update", "delete"}
  BY DEF buildRecord, operation
<1>6. a \in Record
  <2>1. overtakes \in BOOLEAN
    BY DEF overtakes
  <2> QED
    BY <1>1, <2>1 DEF buildRecord, operation, Record, Request
<1>7. /\ more \subseteq Record
      /\ \A b \in more : b.operation = "baseline" /\ b.before = 0
  <2>1. /\ buildBaseline(x).operation = "baseline" /\ buildBaseline(x).before = 0
        /\ buildBaseline(x) \in Record
    BY <1>1 DEF buildBaseline, Record, Request
  <2> QED
    BY <2>1
<1>8. TypeOK'
  BY <1>2, <1>3, <1>6, <1>7 DEF WriteInv, TypeOK
<1>9. TreeInv'
  BY <1>2, <1>4 DEF WriteInv, TreeInv
<1>10. RefInv'
  BY <1>2, <1>3, <1>4, <1>5, <1>7 DEF WriteInv, RefInv
<1>11. CheckInv'
  BY <1>2, <1>3 DEF WriteInv, CheckInv
<1>12. TreeLinear'
  <2>1. ASSUME Linear, NEW b \in audit', NEW r \in revs, NEW p \in revs,
               b.operation # "baseline", b.rev = r.rev, Replaced(r, p)
        PROVE  b.before = p.rev
    <3>1. CASE b \in audit
      BY <2>1, <3>1 DEF WriteInv, TreeLinear
    <3>2. CASE b = a
      BY <1>2, <1>5, <2>1, <3>2 DEF WriteInv, RequestLinear
    <3> QED
      BY <1>2, <1>7, <2>1, <3>1, <3>2
  <2> QED
    BY <1>2, <1>4, <2>1 DEF WriteInv, TreeLinear
<1>13. RequestLinear'
  BY <1>2, <1>3, <1>4 DEF WriteInv, RequestLinear
<1>14. TrailInv'
  <2>1. SUFFICES ASSUME faults' = {}
                 PROVE  (Begun /\ FirstChange /\ Lookup /\ Anchored)'
    BY DEF TrailInv
  <2>2. /\ faults = {} /\ TrailInv /\ TreeInv
        /\ Begun /\ FirstChange /\ Lookup /\ Anchored
    BY <1>2, <2>1 DEF WriteInv, TrailInv
  <2>3. \A n, e : Link(n, e)' <=> Link(n, e)
    BY <1>2, <1>3, <1>5, <1>7 DEF Link
  <2>4. \A n : Base(n) => Base(n)'
    <3>1. x.first = TRUE => buildBaseline(x) \in audit'
      BY <1>2
    <3>2. /\ buildBaseline(x).operation = "baseline"
          /\ buildBaseline(x).rev = x.existing
      BY DEF buildBaseline
    <3> QED
      BY <1>2, <1>3, <3>1, <3>2 DEF Base
  <2>5. Begun' /\ \A T : Apart(T)' <=> Apart(T)
    BY <1>2, <2>2, <2>3, SameLinks
  <2>6. FirstChange'
    BY <1>2, <1>4, <2>2, <2>3 DEF FirstChange
  <2>7. Lookup'
    BY <1>2 DEF Lookup
  <2>8. ASSUME NEW s \in revs, NEW T \in SUBSET Revs, s.by = System, s.rev \in T,
               Apart(T), audit = {}, ~ overtakes
        PROVE  \E n \in T : Base(n) \/ Link(n, 0)
    <3>1. PICK p \in Req : /\ req[p].pc \in {"lookup", "post"}
                           /\ req[p].existing = s.rev
      BY <1>2, <2>2, <2>8 DEF FirstChange, Link
    <3>2. s.rev # 0
      BY <2>2, <2>8 DEF TreeInv
    <3>3. CASE req[p].pc = "post"
      <4>1. req[p].first = TRUE
        BY <2>2, <2>8, <3>1, <3>2, <3>3 DEF Lookup
      <4> QED
        BY <2>8, <3>1, <3>3, <4>1 DEF Base
    <3>4. CASE req[p].pc = "lookup"
      <4>1. \A z \in Req : req[z].pc = "post" => req[z].existing # 0
        BY <2>8, <3>4 DEF overtakes
      <4>2. CASE \E n : Link(n, 0)
        BY <2>8, <4>1, <4>2 DEF Link, WriteInv, RefInv
      <4>3. CASE \A n : ~ Link(n, 0)
        <5>1. Apart(Revs \ T)
          BY <2>8 DEF Apart
        <5>2. Revs \ T = {}
          BY <2>2, <2>8, <4>3, <5>1 DEF Begun, TreeInv
        <5>3. x.existing # 0 /\ x.first = TRUE
          BY <1>2, <2>2, <2>8, <4>1 DEF Lookup
        <5>4. x.existing \in T
          BY <1>2, <5>2, <5>3 DEF WriteInv, RefInv
        <5> QED
          BY <1>2, <5>3, <5>4 DEF Base
      <4> QED
        BY <4>2, <4>3
    <3> QED
      BY <3>1, <3>3, <3>4
  <2>9. Anchored'
    <3>1. SUFFICES ASSUME \A b \in audit' : ~ b.overtook,
                          NEW s \in revs, NEW T \in SUBSET Revs,
                          s.by = System, s.rev \in T, Apart(T)
                   PROVE  \E n \in T : Base(n) \/ Link(n, 0)
      BY <1>2, <1>4, <2>3, <2>4, <2>5 DEF Anchored
    <3>2. ~ overtakes
      <4>1. a.overtook = overtakes
        BY DEF buildRecord
      <4> QED
        BY <1>2, <3>1, <4>1
    <3> QED
      BY <1>2, <2>2, <2>8, <3>1, <3>2 DEF Anchored
  <2> QED
    BY <2>5, <2>6, <2>7, <2>9
<1>15. AuditComplete'
  <2>1. SUFFICES ASSUME faults' \cap {"write", "audit", "crash"} = {},
                        NEW r \in revs'
                 PROVE  \/ r.by = System
                        \/ \E b \in audit' : /\ b.rev = r.rev /\ b.user = r.by
                                             /\ b.operation # "baseline"
                        \/ \E z \in Req : /\ req'[z].pc \in {"lookup", "post"}
                                          /\ req'[z].newRev = r.rev
                                          /\ req'[z].user = r.by
    BY DEF AuditComplete
  <2>2. \/ r.by = System
        \/ \E b \in audit : /\ b.rev = r.rev /\ b.user = r.by
                            /\ b.operation # "baseline"
        \/ \E z \in Req : /\ req[z].pc \in {"lookup", "post"}
                          /\ req[z].newRev = r.rev
                          /\ req[z].user = r.by
    BY <1>2, <2>1 DEF WriteInv, AuditComplete
  <2> HIDE DEF a, more
  <2> QED
    BY <1>2, <1>3, <1>5, <2>2
<1> QED
  BY <1>8, <1>9, <1>10, <1>11, <1>12, <1>13, <1>14, <1>15 DEF WriteInv

LEMMA StepCrash ==
    ASSUME WriteInv, Crash
    PROVE  WriteInv'
<1>1. /\ UNCHANGED <<revs, audit>> /\ faults \subseteq faults'
      /\ faults' \subseteq FaultKinds /\ "crash" \in faults'
      /\ req' \in [Req -> Request \cup {Idle}]
      /\ \A q \in Req : req'[q].pc = "idle"
  BY DEF Crash, Fault, Idle, WriteInv, TypeOK
<1>2. Revs' = Revs /\ leaves' = leaves /\ live' = live /\ (Linear' => Linear)
  BY <1>1 DEF Revs, leaves, live, Linear
<1>3. TypeOK' /\ TreeInv' /\ RefInv'
  BY <1>1, <1>2 DEF WriteInv, TypeOK, TreeInv, RefInv
<1>4. CheckInv' /\ RequestLinear'
  BY <1>1 DEF CheckInv, RequestLinear
<1>5. TreeLinear'
  BY <1>1, <1>2 DEF WriteInv, TreeLinear
<1>6. TrailInv'
  BY <1>1 DEF WriteInv, TrailInv
<1>7. AuditComplete'
  BY <1>1 DEF AuditComplete
<1> QED
  BY <1>3, <1>4, <1>5, <1>6, <1>7 DEF WriteInv

LEMMA WriteStep == WriteInv /\ [Next]_vars => WriteInv'
<1> SUFFICES ASSUME WriteInv, [Next]_vars PROVE WriteInv'
  OBVIOUS
<1>1. CASE UNCHANGED vars
  <2>1. Revs' = Revs /\ leaves' = leaves /\ live' = live /\ Linear' = Linear
    BY <1>1 DEF vars, Revs, leaves, live, Linear
  <2>2. TypeOK' /\ TreeInv' /\ RefInv' /\ CheckInv'
    BY <1>1, <2>1 DEF vars, WriteInv, TypeOK, TreeInv, RefInv, CheckInv
  <2>3. TreeLinear' /\ RequestLinear'
    BY <1>1, <2>1 DEF vars, WriteInv, TreeLinear, RequestLinear
  <2>4. AuditComplete'
    BY <1>1 DEF vars, WriteInv, AuditComplete
  <2>5. TrailInv'
    <3>1. \A n, e : (Link(n, e)' <=> Link(n, e)) /\ (Base(n)' <=> Base(n))
      BY <1>1 DEF vars, Link, Base
    <3>2. \A T : Apart(T)' <=> Apart(T)
      BY <2>1, <3>1 DEF Apart
    <3> QED
      BY <1>1, <2>1, <3>1, <3>2
         DEF vars, WriteInv, TrailInv, Begun, FirstChange, Lookup, Anchored
  <2> QED
    BY <2>2, <2>3, <2>4, <2>5 DEF WriteInv
<1>2. ASSUME NEW q \in Req,
             \/ receive(q)
             \/ readForPut(q) \/ readForDelete(q) \/ fetchExistingDocs(q)
             \/ ReadFail(q)
             \/ writeDocument(q) \/ writeConflict(q) \/ WriteFail(q)
             \/ isFirstAuditFor(q) \/ LookupFail(q) \/ record(q) \/ AuditFail(q)
      PROVE  WriteInv'
  BY <1>2, StepReceive, StepRead, StepWrite, StepLookup, StepRecord
<1>3. CASE Crash
  BY <1>3, StepCrash
<1> QED
  BY <1>1, <1>2, <1>3 DEF Next

-----------------------------------------------------------------------------
(***************************************************************************)
(* The theorems                                                            *)
(***************************************************************************)
LEMMA WriteAlways == Spec => []WriteInv
<1>1. Init => WriteInv
  BY WriteInit
<1>2. WriteInv /\ [Next]_vars => WriteInv'
  BY WriteStep
<1> QED
  BY <1>1, <1>2, PTL DEF Spec

\* Revisions, requests and records have their types in every reachable state;
\* this needs TreeInv and RefInv, as a DELETE writes the body of the revision it
\* names.
THEOREM TypeCorrect == Spec => []TypeOK
<1>1. WriteInv => TypeOK
  BY DEF WriteInv
<1> QED
  BY <1>1, WriteAlways, PTL

\* Whoever replaces a live revision in a linear history may do so on that very
\* revision, although putDocument, deleteDocument and handleBulkDocs check what
\* they have read some time before they write.
THEOREM PermissionOnReplaced == Spec => []ReplacedWithPermission
<1>1. WriteInv => ReplacedWithPermission
  <2>1. SUFFICES ASSUME WriteInv, Linear, NEW r \in Replacing, r.by # System
                 PROVE  mayReplace(Get(r.parent), r.by, r.kind, r.deleted)
    BY DEF ReplacedWithPermission, UpdateNeedsPermission
  <2>2. r \in revs /\ Get(r.parent) \in revs /\ Replaced(r, Get(r.parent))
    BY <2>1, GetRev DEF Replacing, Replaced, WriteInv, TreeInv
  <2> QED
    BY <2>1, <2>2 DEF WriteInv, TreeLinear
<1> QED
  BY <1>1, WriteAlways, PTL

\* A PUT of a user whose rule names fields leaves the other fields of what it
\* replaces as they were and never deletes it.
THEOREM FieldsAlwaysKept == Spec => []FieldsKept
<1>1. WriteInv => FieldsKept
  <2>1. SUFFICES ASSUME WriteInv, Linear, NEW r \in Replacing,
                        r.kind = "put", r.by # System,
                        Get(r.parent).body.key \in TextOnly[r.by]
                 PROVE  ~ r.deleted /\ r.body.key = Get(r.parent).body.key
    BY DEF FieldsKept
  <2>2. r \in revs /\ Get(r.parent) \in revs /\ Replaced(r, Get(r.parent))
    BY <2>1, GetRev DEF Replacing, Replaced, WriteInv, TreeInv
  <2>3. KeepsFields(Get(r.parent), r.by, r.kind, r.deleted, r.body)
    BY <2>1, <2>2 DEF WriteInv, TreeLinear
  <2> QED
    BY <2>1, <2>3 DEF KeepsFields
<1> QED
  BY <1>1, WriteAlways, PTL

\* The audit record of a write that replaced a live revision has that revision
\* as its before-state.
THEOREM DiffsAgainstReplaced == Spec => []DiffAgainstReplaced
<1>1. WriteInv => DiffAgainstReplaced
  <2>1. SUFFICES ASSUME WriteInv, Linear, NEW a \in audit,
                        a.operation # "baseline", Get(a.rev) \in Replacing
                 PROVE  a.before = Get(a.rev).parent
    BY DEF DiffAgainstReplaced
  <2> DEFINE r == Get(a.rev)
             p == Get(r.parent)
  <2>2. r \in revs /\ r.rev = a.rev
    BY <2>1, GetRev DEF WriteInv, RefInv
  <2>3. p \in revs /\ p.rev = r.parent /\ Replaced(r, p)
    BY <2>1, <2>2, GetRev DEF Replacing, Replaced, WriteInv, TreeInv
  <2> HIDE DEF r, p
  <2>4. a.before = p.rev
    BY <2>1, <2>2, <2>3 DEF WriteInv, TreeLinear
  <2> QED
    BY <2>3, <2>4 DEF r
<1> QED
  BY <1>1, WriteAlways, PTL

\* No write through the backend is missing from the audit trail unless the
\* audit database failed, an answer was lost or the process died.
THEOREM AuditAlwaysComplete == Spec => []AuditComplete
<1>1. WriteInv => AuditComplete
  BY DEF WriteInv
<1> QED
  BY <1>1, WriteAlways, PTL

\* Whenever the requests on a document have ended without a fault, all its states
\* can be told from the trail, the one from before auditing included, for any
\* number of overlapping first changes, unless a creation overtook them.
THEOREM HistoryAlwaysKept == Spec => []HistoryKept
<1>1. WriteInv => HistoryKept
  <2>1. SUFFICES ASSUME WriteInv, faults = {}, audit # {},
                        \A q \in Req : req[q] = Idle,
                        \A a \in audit : ~ a.overtook,
                        NEW S \in SUBSET Revs, Known(S)
                 PROVE  S = Revs
    BY DEF HistoryKept
  <2> DEFINE T == Revs \ S
  <2>2. Begun /\ Anchored
    BY <2>1 DEF WriteInv, TrailInv
  <2>3. \A q \in Req : req[q].pc = "idle"
    BY <2>1 DEF Idle
  <2>4. 0 \notin Revs
    BY <2>1, NextNumber DEF WriteInv
  <2>5. Apart(T)
    BY <2>1, <2>3, <2>4 DEF Apart, Link, Known
  <2>6. \A n \in T : ~ Link(n, 0) /\ ~ Base(n)
    BY <2>1, <2>3 DEF Link, Base, Known, Full, WriteInv, RefInv
  <2> HIDE DEF T
  <2>7. T \in SUBSET Revs
    BY DEF T
  <2>8. T = {}
    BY <2>1, <2>2, <2>5, <2>6, <2>7 DEF Begun, Anchored
  <2> QED
    BY <2>1, <2>8 DEF T
<1> QED
  BY <1>1, WriteAlways, PTL
=============================================================================

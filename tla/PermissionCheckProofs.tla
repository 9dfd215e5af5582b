----------------------- MODULE PermissionCheckProofs -----------------------
(***************************************************************************)
(* Proofs about PermissionCheck, and through it about UserIdentity, for any  *)
(* set of users, entities and requests, any lifetime of entries and any      *)
(* number of edits and faults.                                              *)
(***************************************************************************)
EXTENDS PermissionCheck, TLAPS

-----------------------------------------------------------------------------
(***************************************************************************)
(* Type correctness                                                        *)
(***************************************************************************)
\* The requests as records: CheckTypeOK says what their fields hold.
Results == UNION {[S -> Result] : S \in SUBSET UserId}

CheckRecord ==
    [pc : {"idle", "load", "evaluate"}, users : SUBSET UserId, results : Results,
     rejected : SUBSET UserId]

CheckShape == check \in [Request -> CheckRecord]

\* A lookup under way is for the user of its name; its request has failed, or is
\* waiting for this user among others.
LookupInv ==
    \A c \in Call :
        call[c].pc # "idle" =>
            /\ call[c].user = c[2]
            /\ check[c[1]].pc # "load"
            /\ check[c[1]].pc = "evaluate" => c[2] \in check[c[1]].users

Typed == CheckTypeOK /\ CheckShape /\ LookupInv

\* A call is a pair of a request and a user.
LEMMA CallParts ==
    /\ \A c \in Call : c[1] \in Request /\ c[2] \in UserId /\ c = <<c[1], c[2]>>
    /\ \A r \in Request, u \in UserId : <<r, u>> \in Call
  BY CheckAssumption

\* The empty function is a result with no user in it.
LEMMA NoCheckTyped ==
    /\ NoCheck \in CheckRecord
    /\ DOMAIN NoCheck.results = {} /\ NoCheck.rejected = {}
<1>1. <<>> \in [{} -> Result]
  OBVIOUS
<1>2. <<>> \in Results
  BY <1>1 DEF Results
<1> QED
  BY <1>1, <1>2 DEF NoCheck, CheckRecord

\* The results of a request are results.
LEMMA ResultsTyped ==
    ASSUME NEW x \in CheckRecord, NEW u \in DOMAIN x.results
    PROVE  x.results[u] \in Result
<1>1. x.results \in Results
  BY DEF CheckRecord
<1>2. PICK S \in SUBSET UserId : x.results \in [S -> Result]
  BY <1>1 DEF Results
<1> QED
  BY <1>2

\* settle keeps every request but the one of its lookup as it is, and of that
\* one changes the result of the one user.
LEMMA Settled ==
    ASSUME Typed, NEW c \in Call, NEW result \in Result,
           NEW rejected \in SUBSET {c[2]},
           settle(c, result, rejected), call[c].pc # "idle"
    PROVE  /\ CheckShape'
           /\ \A r \in Request :
                 /\ check'[r].pc = check[r].pc /\ check'[r].users = check[r].users
                 /\ DOMAIN check'[r].results \subseteq
                       DOMAIN check[r].results \cup check[r].users
                 /\ \A u \in DOMAIN check'[r].results :
                       \/ /\ u \in DOMAIN check[r].results
                          /\ check'[r].results[u] = check[r].results[u]
                       \/ /\ r = c[1] /\ u = c[2]
                          /\ check'[r].results[u] = result
                          /\ rejected \subseteq check'[r].rejected
                 /\ check[r].rejected \subseteq check'[r].rejected
                 /\ check[r].rejected \subseteq check[r].users =>
                       check'[r].rejected \subseteq check'[r].users
<1> DEFINE s == c[1]
           old == check[s].results
           new == [u \in DOMAIN old \cup {c[2]} |->
                      IF u = c[2] THEN result ELSE old[u]]
<1>1. s \in Request /\ c[2] \in UserId
  BY CallParts
<1>2. check[s] \in CheckRecord /\ check \in [Request -> CheckRecord]
  BY <1>1 DEF Typed, CheckShape
<1>3. DOMAIN old \subseteq check[s].users /\ check[s].users \subseteq UserId
      /\ \A u \in DOMAIN old : old[u] \in Result
  BY <1>1 DEF Typed, CheckTypeOK
<1>4. new \in Results
  <2>1. new \in [DOMAIN old \cup {c[2]} -> Result]
    BY <1>3
  <2>2. DOMAIN old \cup {c[2]} \in SUBSET UserId
    BY <1>1, <1>3
  <2> QED
    BY <2>1, <2>2 DEF Results
<1>5. CASE check[s].pc = "evaluate"
  <2>1. check' = [check EXCEPT ![s] =
            [check[s] EXCEPT !.results = new, !.rejected = @ \cup rejected]]
    BY <1>1, <1>2, <1>5 DEF settle, CheckRecord
  <2>2. c[2] \in check[s].users
    BY <1>5 DEF Typed, LookupInv
  <2>3. CheckShape'
    BY <1>1, <1>2, <1>4, <2>1 DEF CheckShape, CheckRecord
  <2>4. /\ check'[s].pc = check[s].pc /\ check'[s].users = check[s].users
        /\ check'[s].results = new
        /\ check'[s].rejected = check[s].rejected \cup rejected
        /\ \A r \in Request : r # s => check'[r] = check[r]
    BY <1>1, <1>2, <2>1 DEF CheckRecord
  <2>5. DOMAIN new = DOMAIN old \cup {c[2]}
    OBVIOUS
  <2> QED
    BY <1>1, <2>2, <2>3, <2>4, <2>5
<1>6. CASE check[s].pc # "evaluate"
  <2>1. check' = check
    BY <1>1, <1>2, <1>6 DEF settle
  <2> QED
    BY <2>1 DEF Typed, CheckShape
<1> QED
  BY <1>5, <1>6

\* The initial state.
LEMMA TypedInit == CheckInit => Typed
<1> SUFFICES ASSUME CheckInit
             PROVE  Typed
  OBVIOUS
<1>1. TypeOK
  BY IdentityAssumption DEF CheckInit, Init, TypeOK, NoEntry, NoCall
<1>2. CheckShape /\ \A r \in Request : check[r] = NoCheck
  BY NoCheckTyped DEF CheckInit, CheckShape
<1>3. \A r \in Request : DOMAIN check[r].results \subseteq check[r].users
  BY <1>2, NoCheckTyped
<1>4. LookupInv
  BY DEF CheckInit, Init, LookupInv, NoCall
<1> QED
  BY <1>1, <1>2, <1>3, <1>4, ResultsTyped, NoCheckTyped
     DEF Typed, CheckTypeOK, CheckShape, CheckRecord

\* What happens outside of the requests.
LEMMA TypedEnvironment ==
    ASSUME Typed, Environment, UNCHANGED check
    PROVE  Typed'
<1> USE DEF Typed, CheckTypeOK, TypeOK
<1>1. ASSUME NEW u \in UserId, EditRoles(u)
      PROVE  TypeOK' /\ call' = call
  BY <1>1 DEF EditRoles, Edit
<1>2. ASSUME NEW e \in Entity, EditEntity(e)
      PROVE  TypeOK' /\ call' = call
  BY <1>2 DEF EditEntity, Edit
<1>3. ASSUME Tick
      PROVE  TypeOK' /\ call' = call
  <2>1. cache' \in [UserId -> [ttl : 0 .. Ttl, roles : Nat, projects : Nat]]
    <3>1. ASSUME NEW u \in UserId, cache[u].ttl # 0
          PROVE  [cache[u] EXCEPT !.ttl = cache[u].ttl - 1]
                    \in [ttl : 0 .. Ttl, roles : Nat, projects : Nat]
      <4>1. cache[u].ttl \in 0 .. Ttl /\ Ttl \in Nat
        BY IdentityAssumption
      <4>2. cache[u].ttl - 1 \in 0 .. Ttl
        BY <3>1, <4>1
      <4>3. cache[u] \in [ttl : 0 .. Ttl, roles : Nat, projects : Nat]
        OBVIOUS
      <4> HIDE DEF TypeOK
      <4> QED
        BY <4>2, <4>3
    <3> QED
      BY <1>3, <3>1 DEF Tick
  <2> QED
    BY <1>3, <2>1 DEF Tick, external
<1>4. ASSUME clearCache
      PROVE  TypeOK' /\ call' = call
  BY <1>4, IdentityAssumption DEF clearCache, external, NoEntry
<1>5. ASSUME invalidateByEntityName
      PROVE  TypeOK' /\ call' = call
  <2>1. feed' \in Seq(Entity) /\ Head(feed) \in Entity
    BY <1>5 DEF invalidateByEntityName
  <2>2. NoEntry \in [ttl : 0 .. Ttl, roles : Nat, projects : Nat]
    BY IdentityAssumption DEF NoEntry
  <2>3. cache' \in [UserId -> [ttl : 0 .. Ttl, roles : Nat, projects : Nat]]
    BY <1>5, <2>1, <2>2 DEF invalidateByEntityName
  <2> QED
    BY <1>5, <2>1, <2>3 DEF invalidateByEntityName, external
<1>6. ASSUME EventLost
      PROVE  TypeOK' /\ call' = call
  BY <1>6 DEF EventLost, external, Fault
<1>7. TypeOK' /\ call' = call
  BY <1>1, <1>2, <1>3, <1>4, <1>5, <1>6
     DEF Environment
<1>8. CheckShape' /\ LookupInv'
  BY <1>7 DEF CheckShape, LookupInv
<1> QED
  BY <1>7, <1>8

\* A step of one lookup that goes on keeps what is asked about it.
LEMMA TypedLookup ==
    ASSUME Typed, NEW c \in Call,
           getUserAccount(c) \/ readEntity(c) \/ EntityFail(c), UNCHANGED check
    PROVE  Typed'
<1> USE DEF Typed, CheckTypeOK, TypeOK
<1>1. call[c].user \in UserId /\ c[2] \in UserId
  BY CallParts DEF LookupInv, getUserAccount, readEntity, EntityFail
<1>2. EntityOf[call[c].user] \in Entity
  BY <1>1, IdentityAssumption
<1>3. ASSUME getUserAccount(c)
      PROVE  TypeOK' /\ call' = [call EXCEPT ![c].pc = "entity",
                                             ![c].roles = roles[call[c].user]]
  <2>1. call' = [call EXCEPT ![c].pc = "entity", ![c].roles = roles[call[c].user]]
    BY <1>3 DEF getUserAccount
  <2>2. call' \in [Call -> [pc : {"idle", "account", "entity", "reply"},
                           user : UserId \cup {Nobody},
                           roles : Nat, projects : Nat]]
    <3>1. roles[call[c].user] \in Nat
      BY <1>1
    <3>2. [call[c] EXCEPT !.pc = "entity", !.roles = roles[call[c].user]]
             \in [pc : {"idle", "account", "entity", "reply"},
                 user : UserId \cup {Nobody}, roles : Nat, projects : Nat]
      BY <3>1
    <3> QED
      BY <2>1, <3>2
  <2> QED
    BY <1>3, <2>1, <2>2 DEF getUserAccount, external
<1>4. ASSUME readEntity(c)
      PROVE  TypeOK' /\ call' = [call EXCEPT
                ![c].pc = "reply",
                ![c].projects = projects[EntityOf[call[c].user]]]
  <2> DEFINE p == projects[EntityOf[call[c].user]]
  <2>1. call' = [call EXCEPT ![c].pc = "reply", ![c].projects = p]
    BY <1>4 DEF readEntity
  <2>2. call' \in [Call -> [pc : {"idle", "account", "entity", "reply"},
                           user : UserId \cup {Nobody},
                           roles : Nat, projects : Nat]]
    <3>1. p \in Nat
      BY <1>2
    <3>2. [call[c] EXCEPT !.pc = "reply", !.projects = p]
             \in [pc : {"idle", "account", "entity", "reply"},
                 user : UserId \cup {Nobody}, roles : Nat, projects : Nat]
      BY <3>1
    <3> QED
      BY <2>1, <3>2
  <2> QED
    BY <1>4, <2>1, <2>2 DEF readEntity, external
<1>5. ASSUME EntityFail(c)
      PROVE  TypeOK' /\ call' = [call EXCEPT ![c].pc = "reply", ![c].projects = 0]
  <2>1. call' = [call EXCEPT ![c].pc = "reply", ![c].projects = 0]
    BY <1>5 DEF EntityFail
  <2>2. call' \in [Call -> [pc : {"idle", "account", "entity", "reply"},
                           user : UserId \cup {Nobody},
                           roles : Nat, projects : Nat]]
    <3>1. [call[c] EXCEPT !.pc = "reply", !.projects = 0]
             \in [pc : {"idle", "account", "entity", "reply"},
                 user : UserId \cup {Nobody}, roles : Nat, projects : Nat]
      OBVIOUS
    <3>2. call' = [call EXCEPT ![c] = [call[c] EXCEPT !.pc = "reply",
                                                      !.projects = 0]]
      BY <2>1
    <3> QED
      BY <3>1, <3>2
  <2>3. faults' \in Nat
    BY <1>5 DEF EntityFail, Fault
  <2> QED
    BY <1>5, <2>1, <2>2, <2>3 DEF EntityFail, external
<1>6. call[c].pc # "idle"
  BY DEF getUserAccount, readEntity, EntityFail
<1>7. TypeOK'
  BY <1>3, <1>4, <1>5
<1> HIDE DEF TypeOK, CheckTypeOK
<1> DEFINE Lookup == [pc : {"idle", "account", "entity", "reply"},
                      user : UserId \cup {Nobody}, roles : Nat, projects : Nat]
<1>8. call \in [Call -> Lookup]
  BY DEF TypeOK, CheckTypeOK
<1>9. \A d \in Call : d # c => call'[d] = call[d]
  BY <1>3, <1>4, <1>5, <1>8
<1>10. call'[c].user = call[c].user
  BY <1>3, <1>4, <1>5, <1>8
<1>11. CheckShape'
  BY DEF CheckShape
<1>12. LookupInv'
  <2>1. \A d \in Call : call'[d].pc # "idle" => /\ call[d].pc # "idle"
                                               /\ call'[d].user = call[d].user
    BY <1>6, <1>9, <1>10
  <2>2. check' = check
    OBVIOUS
  <2> QED
    BY <2>1, <2>2 DEF LookupInv
<1> QED
  BY <1>7, <1>11, <1>12 DEF CheckTypeOK

\* A lookup ends and settles its result.
LEMMA TypedSettle ==
    ASSUME Typed, NEW c \in Call,
           \/ evaluatePermissionForUser(c) \/ reportNotFound(c)
           \/ reportRejected(c) \/ reportError(c)
    PROVE  Typed'
<1> USE DEF Typed, CheckTypeOK, TypeOK
<1>1. call[c].pc # "idle" /\ call' = [call EXCEPT ![c] = NoCall]
  BY DEF evaluatePermissionForUser, storeResolved, reportNotFound,
         accountNotFound, reportRejected, reportError, AccountFail
<1>2. PICK result \in Result, rejected \in SUBSET {c[2]} :
         settle(c, result, rejected)
  BY DEF evaluatePermissionForUser, reportNotFound, reportRejected, reportError,
         Result
<1>3. TypeOK'
  <2>1. call[c].user \in UserId
    BY <1>1, CallParts DEF LookupInv
  <2>2. EntityOf[call[c].user] \in Entity
    BY <2>1, IdentityAssumption
  <2>3. NoCall \in [pc : {"idle", "account", "entity", "reply"},
                    user : UserId \cup {Nobody}, roles : Nat, projects : Nat]
    BY DEF NoCall
  <2>4. CASE storeResolved(c)
    <3>1. [ttl |-> Ttl, roles |-> call[c].roles, projects |-> call[c].projects]
             \in [ttl : 0 .. Ttl, roles : Nat, projects : Nat]
      BY IdentityAssumption
    <3>2. cache' \in [UserId -> [ttl : 0 .. Ttl, roles : Nat, projects : Nat]]
      BY <2>1, <2>4, <3>1 DEF storeResolved
    <3>3. entityNameIndex' \in [Entity -> UserId \cup {Nobody}]
      BY <2>1, <2>2, <2>4 DEF storeResolved
    <3>4. call' \in [Call -> [pc : {"idle", "account", "entity", "reply"},
                             user : UserId \cup {Nobody},
                             roles : Nat, projects : Nat]]
      BY <1>1, <2>3
    <3> QED
      BY <2>4, <3>2, <3>3, <3>4 DEF storeResolved, external
  <2>5. call' \in [Call -> [pc : {"idle", "account", "entity", "reply"},
                           user : UserId \cup {Nobody},
                           roles : Nat, projects : Nat]]
    BY <1>1, <2>3
  <2>6. CASE accountNotFound(c)
    <3>1. UNCHANGED <<roles, projects, edits, feed, cache, entityNameIndex, faults>>
      BY <2>6 DEF accountNotFound, external
    <3> QED
      BY <2>5, <3>1
  <2>7. CASE AccountFail(c, "unexpected") \/ AccountFail(c, "rejected")
    <3>1. /\ UNCHANGED <<roles, projects, edits, feed, cache, entityNameIndex>>
          /\ faults' = faults + 1
      BY <2>7 DEF AccountFail, Fault, external
    <3> QED
      BY <2>5, <3>1
  <2> QED
    BY <2>4, <2>6, <2>7 DEF evaluatePermissionForUser, reportNotFound,
                            reportRejected, reportError
<1>4. CheckShape' /\ \A r \in Request :
         /\ check'[r].pc = check[r].pc /\ check'[r].users = check[r].users
         /\ DOMAIN check'[r].results \subseteq
               DOMAIN check[r].results \cup check[r].users
         /\ check'[r].rejected \subseteq check'[r].users
  BY <1>1, <1>2, Settled
<1>5. CheckTypeOK'
  <2>1. \A r \in Request : DOMAIN check'[r].results \subseteq check'[r].users
    BY <1>4
  <2>2. \A r \in Request : check'[r] \in CheckRecord
    BY <1>4 DEF CheckShape
  <2>3. \A r \in Request : \A u \in DOMAIN check'[r].results :
           check'[r].results[u] \in Result
    BY <2>2, ResultsTyped
  <2> QED
    BY <1>3, <1>4, <2>1, <2>2, <2>3 DEF CheckShape, CheckRecord
<1>6. LookupInv'
  <2>1. \A d \in Call : call'[d].pc # "idle" => call'[d] = call[d]
    BY <1>1 DEF NoCall
  <2> QED
    BY <1>4, <2>1, CallParts DEF LookupInv
<1> QED
  BY <1>4, <1>5, <1>6

\* The steps of a request: it arrives, starts its lookups, fails or is answered.
LEMMA TypedRequest ==
    ASSUME Typed, NEW r \in Request,
           \/ checkPermissions(r) \/ loadCanonicalEntityDoc(r)
           \/ LoadTargetFail(r) \/ respond(r)
    PROVE  Typed'
<1>1. /\ check \in [Request -> CheckRecord] /\ TypeOK /\ LookupInv
      /\ \A s \in Request : DOMAIN check[s].results \subseteq check[s].users
                          /\ check[s].rejected \subseteq check[s].users
  BY DEF Typed, CheckShape, CheckTypeOK
<1>2. SUFFICES TypeOK' /\ LookupInv' /\ \E x \in CheckRecord :
                  /\ check' = [check EXCEPT ![r] = x]
                  /\ DOMAIN x.results \subseteq x.users
                  /\ x.rejected \subseteq x.users
  <2>1. PICK x \in CheckRecord : /\ check' = [check EXCEPT ![r] = x]
                                 /\ DOMAIN x.results \subseteq x.users
                                 /\ x.rejected \subseteq x.users
    BY <1>2
  <2>2. CheckShape' /\ \A s \in Request : check'[s] \in CheckRecord
    BY <1>1, <2>1 DEF CheckShape
  <2>3. \A s \in Request : DOMAIN check'[s].results \subseteq check'[s].users
                        /\ check'[s].rejected \subseteq check'[s].users
    BY <1>1, <2>1
  <2>4. \A s \in Request : \A u \in DOMAIN check'[s].results :
           check'[s].results[u] \in Result
    BY <2>2, ResultsTyped
  <2> QED
    BY <1>2, <2>2, <2>3, <2>4 DEF Typed, CheckTypeOK, CheckShape, CheckRecord
<1>3. CASE checkPermissions(r)
  <2>1. PICK U \in SUBSET UserId :
           check' = [check EXCEPT ![r] = [NoCheck EXCEPT !.pc = "load",
                                                         !.users = U]]
    BY <1>3 DEF checkPermissions
  <2> DEFINE x == [NoCheck EXCEPT !.pc = "load", !.users = U]
  <2>2. x \in CheckRecord /\ DOMAIN x.results \subseteq x.users
        /\ x.rejected \subseteq x.users
    BY NoCheckTyped DEF CheckRecord, NoCheck
  <2>3. TypeOK' /\ call' = call
    BY <1>1, <1>3 DEF checkPermissions, vars, TypeOK
  <2>4. LookupInv'
    <3>1. ASSUME NEW c \in Call, c[1] = r
          PROVE  call[c].pc = "idle"
      <4>1. c = <<r, c[2]>> /\ c[2] \in UserId
        BY <3>1, CallParts
      <4>2. call[<<r, c[2]>>].pc = "idle"
        BY <1>3, <4>1 DEF checkPermissions
      <4> QED
        BY <4>1, <4>2
    <3> QED
      BY <1>1, <2>1, <2>3, <3>1, CallParts DEF LookupInv
  <2> QED
    BY <2>1, <2>2, <2>3, <2>4
<1>4. CASE loadCanonicalEntityDoc(r)
  <2> DEFINE hits == {u \in check[r].users : isCached(u)}
             x == [check[r] EXCEPT !.pc = "evaluate",
                                   !.results = [u \in hits |-> "DECIDED"]]
  <2>1. /\ check' = [check EXCEPT ![r] = x]
        /\ call' = [c \in Call |->
              IF c[1] = r /\ c[2] \in check[r].users \ hits
              THEN asked(c[2]) ELSE call[c]]
    BY <1>1, <1>4 DEF loadCanonicalEntityDoc, CheckRecord
  <2>2. check[r] \in CheckRecord /\ hits \in SUBSET UserId
    BY <1>1 DEF CheckRecord
  <2>3. [u \in hits |-> "DECIDED"] \in Results
    <3>1. [u \in hits |-> "DECIDED"] \in [hits -> Result]
      BY DEF Result
    <3> QED
      BY <2>2, <3>1 DEF Results
  <2>4. /\ x \in CheckRecord /\ DOMAIN x.results \subseteq x.users
        /\ x.users = check[r].users /\ x.rejected \subseteq x.users
    BY <1>1, <2>2, <2>3 DEF CheckRecord
  <2>5. \A u \in UserId : /\ asked(u).user = u
                          /\ asked(u) \in [pc : {"idle", "account", "entity", "reply"},
                                user : UserId \cup {Nobody},
                                roles : Nat, projects : Nat]
    BY DEF asked, NoCall
  <2>6. TypeOK'
    <3>1. call' \in [Call -> [pc : {"idle", "account", "entity", "reply"},
                             user : UserId \cup {Nobody},
                             roles : Nat, projects : Nat]]
      BY <1>1, <2>1, <2>5, CallParts DEF TypeOK
    <3> QED
      BY <1>1, <1>4, <3>1 DEF loadCanonicalEntityDoc, TypeOK, external
  <2>7. LookupInv'
    <3> SUFFICES ASSUME NEW c \in Call, call'[c].pc # "idle"
                 PROVE  /\ call'[c].user = c[2]
                        /\ check'[c[1]].pc # "load"
                        /\ check'[c[1]].pc = "evaluate" =>
                              c[2] \in check'[c[1]].users
      BY DEF LookupInv
    <3>1. c[1] \in Request /\ c[2] \in UserId
      BY CallParts
    <3>2. CASE c[1] = r /\ c[2] \in check[r].users \ hits
      <4>1. call'[c] = asked(c[2]) /\ check'[c[1]] = x
        BY <1>1, <2>1, <3>1, <3>2
      <4>2. x.pc = "evaluate"
        BY <2>2 DEF CheckRecord
      <4> QED
        BY <2>4, <2>5, <3>1, <3>2, <4>1, <4>2
    <3>3. CASE ~ (c[1] = r /\ c[2] \in check[r].users \ hits)
      <4>1. call'[c] = call[c]
        BY <2>1, <3>3
      <4>2. c[1] # r
        BY <1>1, <1>4, <4>1 DEF LookupInv, loadCanonicalEntityDoc
      <4> QED
        BY <1>1, <2>1, <3>1, <4>1, <4>2 DEF LookupInv
    <3> QED
      BY <3>2, <3>3
  <2> QED
    BY <2>1, <2>4, <2>6, <2>7
<1>5. CASE LoadTargetFail(r) \/ respond(r)
  <2>1. check' = [check EXCEPT ![r] = NoCheck] /\ call' = call
    BY <1>5 DEF LoadTargetFail, respond, vars
  <2>2. TypeOK'
    BY <1>1, <1>5 DEF LoadTargetFail, respond, vars, Fault, external, TypeOK
  <2>3. LookupInv'
    BY <1>1, <2>1, CallParts DEF LookupInv, NoCheck
  <2> QED
    BY <2>1, <2>2, <2>3, NoCheckTyped
<1> QED
  BY <1>3, <1>4, <1>5

\* A failing provider ends the request, the other lookups go on.
LEMMA TypedFailBatch ==
    ASSUME Typed, NEW c \in Call, failBatch(c)
    PROVE  Typed'
<1>1. /\ check \in [Request -> CheckRecord] /\ TypeOK /\ LookupInv
      /\ \A s \in Request : DOMAIN check[s].results \subseteq check[s].users
                          /\ check[s].rejected \subseteq check[s].users
  BY DEF Typed, CheckShape, CheckTypeOK
<1>2. /\ check' = [check EXCEPT ![c[1]] = NoCheck] /\ c[1] \in Request
      /\ call' = [call EXCEPT ![c] = NoCall]
  BY CallParts DEF failBatch, AccountFail
<1>3. TypeOK'
  <2>1. NoCall \in [pc : {"idle", "account", "entity", "reply"},
                    user : UserId \cup {Nobody}, roles : Nat, projects : Nat]
    BY DEF NoCall
  <2>2. call' \in [Call -> [pc : {"idle", "account", "entity", "reply"},
                           user : UserId \cup {Nobody},
                           roles : Nat, projects : Nat]]
    BY <1>1, <1>2, <2>1 DEF TypeOK
  <2>3. /\ UNCHANGED <<roles, projects, edits, feed, cache, entityNameIndex>>
        /\ faults' = faults + 1
    BY DEF failBatch, AccountFail, Fault, external
  <2> QED
    BY <1>1, <2>2, <2>3 DEF TypeOK
<1>4. CheckShape' /\ \A s \in Request : check'[s] \in CheckRecord
  BY <1>1, <1>2, NoCheckTyped DEF CheckShape
<1>5. \A s \in Request : DOMAIN check'[s].results \subseteq check'[s].users
                        /\ check'[s].rejected \subseteq check'[s].users
  BY <1>1, <1>2, NoCheckTyped
<1>6. \A s \in Request : \A u \in DOMAIN check'[s].results :
         check'[s].results[u] \in Result
  BY <1>4, ResultsTyped
<1>7. LookupInv'
  <2>1. \A d \in Call : call'[d].pc # "idle" => call'[d] = call[d]
    BY <1>2 DEF NoCall
  <2> QED
    BY <1>1, <1>2, <2>1, CallParts DEF LookupInv, NoCheck
<1> QED
  BY <1>3, <1>4, <1>5, <1>6, <1>7 DEF Typed, CheckTypeOK, CheckShape, CheckRecord

\* Every step keeps the types.
LEMMA TypedNext ==
    ASSUME Typed, [CheckNext]_checkVars
    PROVE  Typed'
<1>1. CASE UNCHANGED checkVars
  BY <1>1 DEF checkVars, vars, Typed, CheckTypeOK, TypeOK, CheckShape, LookupInv
<1>2. CASE CheckNext
  BY <1>2, TypedEnvironment, TypedLookup, TypedSettle, TypedRequest,
     TypedFailBatch DEF CheckNext, LookupStep
<1> QED
  BY <1>1, <1>2

\* The types hold in every state.
LEMMA TypedAlways == CheckSpec => []Typed
  BY TypedInit, TypedNext, PTL DEF CheckSpec

\* Whatever lookups overlap, fail and outlive their request, the results of a
\* request are about its users, and all state keeps its type.
THEOREM CheckTypeCorrect == CheckSpec => []CheckTypeOK
<1>1. Typed => CheckTypeOK
  BY DEF Typed
<1> QED
  BY <1>1, TypedAlways, PTL

-----------------------------------------------------------------------------
(***************************************************************************)
(* The index of the identity cache                                         *)
(***************************************************************************)
\* An event takes the link of its entity and the entry that the link leads to;
\* the other entries keep theirs, since no other user has this entity.
LEMMA IndexInvalidate ==
    ASSUME Typed, IndexCovers, invalidateByEntityName
    PROVE  IndexCovers'
<1> DEFINE e == Head(feed)
           user == entityNameIndex[e]
<1>1. e \in Entity
  BY DEF invalidateByEntityName, Typed, CheckTypeOK, TypeOK
<1>2. /\ cache \in [UserId -> [ttl : 0 .. Ttl, roles : Nat, projects : Nat]]
      /\ entityNameIndex \in [Entity -> UserId \cup {Nobody}]
  BY DEF Typed, CheckTypeOK, TypeOK
<1>3. /\ entityNameIndex' = [entityNameIndex EXCEPT ![e] = Nobody]
      /\ cache' = IF user = Nobody THEN cache
                  ELSE [cache EXCEPT ![user] = NoEntry]
  BY DEF invalidateByEntityName
<1> SUFFICES ASSUME NEW u \in UserId, cache'[u].ttl > 0
             PROVE  entityNameIndex'[EntityOf[u]] = u
  BY DEF IndexCovers, isCached
<1>4. cache'[u] = cache[u] /\ (user # Nobody => u # user)
  BY <1>1, <1>2, <1>3 DEF NoEntry
<1>5. entityNameIndex[EntityOf[u]] = u
  BY <1>4 DEF IndexCovers, isCached
<1>6. EntityOf[u] # e
  BY <1>4, <1>5, IdentityAssumption
<1> QED
  BY <1>2, <1>3, <1>5, <1>6, IdentityAssumption

\* An entry is stored together with its link, which no other user's link is.
LEMMA IndexStore ==
    ASSUME Typed, IndexCovers, NEW c \in Call, storeResolved(c)
    PROVE  IndexCovers'
<1> DEFINE v == call[c].user
<1>1. v \in UserId
  BY CallParts DEF storeResolved, Typed, LookupInv
<1>2. /\ cache \in [UserId -> [ttl : 0 .. Ttl, roles : Nat, projects : Nat]]
      /\ entityNameIndex \in [Entity -> UserId \cup {Nobody}]
  BY DEF Typed, CheckTypeOK, TypeOK
<1>3. /\ entityNameIndex' = [entityNameIndex EXCEPT ![EntityOf[v]] = v]
      /\ \A u \in UserId : u # v => cache'[u] = cache[u]
  BY <1>1, <1>2 DEF storeResolved
<1> SUFFICES ASSUME NEW u \in UserId, cache'[u].ttl > 0
             PROVE  entityNameIndex'[EntityOf[u]] = u
  BY DEF IndexCovers, isCached
<1>4. EntityOf[u] \in Entity /\ EntityOf[v] \in Entity
  BY <1>1, IdentityAssumption
<1>5. CASE u = v
  BY <1>2, <1>3, <1>4, <1>5
<1>6. CASE u # v
  <2>1. EntityOf[u] # EntityOf[v]
    BY <1>1, <1>6, OneUserPerEntity
  <2>2. entityNameIndex[EntityOf[u]] = u
    BY <1>3, <1>6 DEF IndexCovers, isCached
  <2> QED
    BY <1>2, <1>3, <1>4, <2>1, <2>2
<1> QED
  BY <1>5, <1>6

\* Time only takes entries away, and so does clearCache.
LEMMA IndexEnvironment ==
    ASSUME Typed, IndexCovers, Environment
    PROVE  IndexCovers'
<1>1. CASE Tick
  <2>1. entityNameIndex' = entityNameIndex
    BY <1>1 DEF Tick
  <2>2. ASSUME NEW u \in UserId, cache'[u].ttl > 0
        PROVE  cache[u].ttl > 0
    <3>1. cache[u] \in [ttl : 0 .. Ttl, roles : Nat, projects : Nat]
      BY DEF Typed, CheckTypeOK, TypeOK
    <3>2. cache[u].ttl \in 0 .. Ttl /\ Ttl \in Nat
      BY <3>1, IdentityAssumption
    <3>3. cache'[u] = IF cache[u].ttl = 0 THEN cache[u]
                      ELSE [cache[u] EXCEPT !.ttl = cache[u].ttl - 1]
      BY <1>1 DEF Tick
    <3>4. CASE cache[u].ttl = 0
      BY <2>2, <3>3, <3>4
    <3> QED
      BY <3>2, <3>4
  <2> QED
    BY <2>1, <2>2 DEF IndexCovers, isCached
<1>2. CASE clearCache
  BY <1>2 DEF clearCache, IndexCovers, isCached, NoEntry
<1>3. CASE invalidateByEntityName
  BY <1>3, IndexInvalidate
<1>4. CASE EventLost \/ (\E u \in UserId : EditRoles(u))
           \/ (\E e \in Entity : EditEntity(e))
  BY <1>4 DEF EventLost, EditRoles, EditEntity, IndexCovers, isCached
<1> QED
  BY <1>1, <1>2, <1>3, <1>4 DEF Environment

\* Every step keeps the index.
LEMMA IndexNext ==
    ASSUME Typed, IndexCovers, [CheckNext]_checkVars
    PROVE  IndexCovers'
<1>1. CASE Environment
  BY <1>1, IndexEnvironment
<1>2. ASSUME NEW c \in Call, evaluatePermissionForUser(c)
      PROVE  IndexCovers'
  BY <1>2, IndexStore DEF evaluatePermissionForUser
<1>3. ASSUME UNCHANGED <<cache, entityNameIndex>>
      PROVE  IndexCovers'
  BY <1>3 DEF IndexCovers, isCached
<1>4. ASSUME NEW r \in Request,
             \/ checkPermissions(r) \/ loadCanonicalEntityDoc(r)
             \/ LoadTargetFail(r) \/ respond(r)
      PROVE  UNCHANGED <<cache, entityNameIndex>>
  BY <1>4 DEF checkPermissions, loadCanonicalEntityDoc, LoadTargetFail,
              respond, vars
<1>5. ASSUME NEW c \in Call,
             \/ getUserAccount(c) \/ readEntity(c) \/ EntityFail(c)
             \/ reportNotFound(c) \/ failBatch(c)
             \/ reportRejected(c) \/ reportError(c)
      PROVE  UNCHANGED <<cache, entityNameIndex>>
  BY <1>5 DEF getUserAccount, readEntity, EntityFail, reportNotFound,
              accountNotFound, failBatch, reportRejected, reportError, AccountFail
<1>6. CASE UNCHANGED checkVars
  BY <1>3, <1>6 DEF checkVars, vars
<1>7. CASE CheckNext
  BY <1>1, <1>2, <1>3, <1>4, <1>5, <1>7 DEF CheckNext, LookupStep
<1> QED
  BY <1>6, <1>7

\* No order of overlapping lookups, clears, events and expiries leaves a cached
\* identity that a change of its user's entity would not reach.
THEOREM IndexAlwaysCovers == CheckSpec => []IndexCovers
<1>1. CheckInit => IndexCovers
  BY DEF CheckInit, Init, IndexCovers, isCached, NoEntry
<1> QED
  BY <1>1, IndexNext, TypedAlways, PTL DEF CheckSpec

-----------------------------------------------------------------------------
(***************************************************************************)
(* Unknown users                                                           *)
(***************************************************************************)
\* A deleted account does not come back.
LEMMA DeletedForEver ==
    ASSUME Typed, [CheckNext]_checkVars, NEW u \in UserId, roles[u] = 0
    PROVE  roles'[u] = 0
<1>1. CASE Environment
  <2>1. ASSUME NEW v \in UserId, EditRoles(v)
        PROVE  roles'[u] = 0
    BY <2>1 DEF EditRoles, Typed, CheckTypeOK, TypeOK
  <2> QED
    BY <1>1, <2>1 DEF Environment, EditEntity, Tick, clearCache,
       invalidateByEntityName, EventLost, external
<1>2. ASSUME NEW r \in Request,
             \/ checkPermissions(r) \/ loadCanonicalEntityDoc(r)
             \/ LoadTargetFail(r) \/ respond(r)
      PROVE  roles' = roles
  BY <1>2 DEF checkPermissions, loadCanonicalEntityDoc, LoadTargetFail,
              respond, vars, external
<1>3. ASSUME NEW c \in Call,
             \/ getUserAccount(c) \/ readEntity(c) \/ EntityFail(c)
             \/ evaluatePermissionForUser(c)
             \/ reportNotFound(c) \/ failBatch(c)
             \/ reportRejected(c) \/ reportError(c)
      PROVE  roles' = roles
  BY <1>3 DEF getUserAccount, readEntity, EntityFail, reportNotFound,
              accountNotFound, failBatch, reportRejected, reportError, AccountFail,
              evaluatePermissionForUser, storeResolved, external
<1>4. CASE UNCHANGED checkVars
  BY <1>4 DEF checkVars, vars
<1>5. CASE CheckNext
  BY <1>1, <1>2, <1>3, <1>5 DEF CheckNext, LookupStep
<1> QED
  BY <1>4, <1>5

\* A result that a step adds is a decision, an error, about a deleted account or
\* about a rejected lookup.
LEMMA NewResults ==
    ASSUME Typed, [CheckNext]_checkVars, NEW r \in Request,
           NEW u \in DOMAIN check'[r].results,
           check'[r].results[u] = "NOT_FOUND"
    PROVE  \/ /\ u \in DOMAIN check[r].results
              /\ check[r].results[u] = "NOT_FOUND"
              /\ check[r].rejected \subseteq check'[r].rejected
           \/ u \in UserId /\ roles[u] = 0
           \/ u \in check'[r].rejected
<1> DEFINE Goal == \/ /\ u \in DOMAIN check[r].results
                      /\ check[r].results[u] = "NOT_FOUND"
                      /\ check[r].rejected \subseteq check'[r].rejected
                   \/ u \in UserId /\ roles[u] = 0
                   \/ u \in check'[r].rejected
<1>1. check \in [Request -> CheckRecord]
  BY DEF Typed, CheckShape
<1>2. CASE check' = check
  BY <1>2
<1>3. ASSUME NEW s \in Request, checkPermissions(s)
      PROVE  Goal
  <2>1. PICK U \in SUBSET UserId :
           check' = [check EXCEPT ![s] = [NoCheck EXCEPT !.pc = "load",
                                                         !.users = U]]
    BY <1>3 DEF checkPermissions
  <2>2. [NoCheck EXCEPT !.pc = "load", !.users = U].results = NoCheck.results
    BY DEF NoCheck
  <2> QED
    BY <1>1, <2>1, <2>2, NoCheckTyped
<1>4. ASSUME NEW s \in Request, loadCanonicalEntityDoc(s)
      PROVE  Goal
  <2> DEFINE hits == {v \in check[s].users : isCached(v)}
             x == [check[s] EXCEPT !.pc = "evaluate",
                                   !.results = [v \in hits |-> "DECIDED"]]
  <2>1. check' = [check EXCEPT ![s] = x]
    BY <1>1, <1>4 DEF loadCanonicalEntityDoc, CheckRecord
  <2>2. x.results = [v \in hits |-> "DECIDED"]
    BY <1>1 DEF CheckRecord
  <2> QED
    BY <1>1, <2>1, <2>2
<1>5. ASSUME NEW s \in Request, check' = [check EXCEPT ![s] = NoCheck]
      PROVE  Goal
  BY <1>1, <1>5, NoCheckTyped
<1>6. ASSUME NEW c \in Call, reportNotFound(c)
      PROVE  Goal
  <2>1. call[c].pc = "account" /\ roles[call[c].user] = 0
    BY <1>6 DEF reportNotFound, accountNotFound
  <2>2. call[c].user = c[2] /\ c[2] \in UserId
    BY <2>1, CallParts DEF Typed, LookupInv
  <2>3. settle(c, "NOT_FOUND", {}) /\ "NOT_FOUND" \in Result
    BY <1>6 DEF reportNotFound, Result
  <2>4. /\ check[r].rejected \subseteq check'[r].rejected
        /\ \/ /\ u \in DOMAIN check[r].results
              /\ check'[r].results[u] = check[r].results[u]
           \/ u = c[2]
    BY <2>1, <2>3, Settled
  <2> QED
    BY <2>1, <2>2, <2>4
<1>7. ASSUME NEW c \in Call, evaluatePermissionForUser(c) \/ reportError(c)
      PROVE  Goal
  <2>1. call[c].pc # "idle"
    BY <1>7 DEF evaluatePermissionForUser, storeResolved, reportError, AccountFail
  <2>2. PICK result \in {"DECIDED", "ERROR"} : settle(c, result, {})
    BY <1>7 DEF evaluatePermissionForUser, reportError
  <2>3. result \in Result
    BY DEF Result
  <2>4. /\ check[r].rejected \subseteq check'[r].rejected
        /\ \/ /\ u \in DOMAIN check[r].results
              /\ check'[r].results[u] = check[r].results[u]
           \/ check'[r].results[u] = result
    BY <2>1, <2>2, <2>3, Settled
  <2> QED
    BY <2>2, <2>4
<1>10. ASSUME NEW c \in Call, reportRejected(c)
       PROVE  Goal
  <2>1. /\ call[c].pc # "idle" /\ "NOT_FOUND" \in Result
        /\ settle(c, "NOT_FOUND", {c[2]})
    BY <1>10 DEF reportRejected, AccountFail, Result
  <2>2. /\ check[r].rejected \subseteq check'[r].rejected
        /\ \/ /\ u \in DOMAIN check[r].results
              /\ check'[r].results[u] = check[r].results[u]
           \/ u = c[2] /\ {c[2]} \subseteq check'[r].rejected
    BY <2>1, Settled
  <2> QED
    BY <2>2
<1>8. CASE UNCHANGED checkVars
  BY <1>2, <1>8 DEF checkVars
<1>9. CASE CheckNext
  <2>1. ASSUME NEW s \in Request, LoadTargetFail(s) \/ respond(s)
        PROVE  Goal
    BY <1>5, <2>1 DEF LoadTargetFail, respond
  <2>2. ASSUME NEW c \in Call, failBatch(c)
        PROVE  Goal
    BY <1>5, <2>2, CallParts DEF failBatch
  <2> QED
    BY <1>2, <1>3, <1>4, <1>6, <1>7, <1>9, <1>10, <2>1, <2>2
       DEF CheckNext, LookupStep
<1> QED
  BY <1>8, <1>9

\* A user is reported as unknown only if the account is gone or the lookup for
\* this user in this request was rejected with a 400 or 404, however lookups fail,
\* overlap and outlive their requests.
THEOREM NotFoundAlwaysTrue == CheckSpec => []NotFoundIsTrue
<1>1. CheckInit => NotFoundIsTrue
  BY NoCheckTyped DEF CheckInit, NotFoundIsTrue
<1>2. ASSUME Typed, NotFoundIsTrue, [CheckNext]_checkVars
      PROVE  NotFoundIsTrue'
  <2> SUFFICES ASSUME NEW r \in Request, NEW u \in DOMAIN check'[r].results,
                      check'[r].results[u] = "NOT_FOUND"
               PROVE  roles'[u] = 0 \/ u \in check'[r].rejected
    BY DEF NotFoundIsTrue
  <2>1. \/ /\ u \in DOMAIN check[r].results
           /\ check[r].results[u] = "NOT_FOUND"
           /\ check[r].rejected \subseteq check'[r].rejected
        \/ u \in UserId /\ roles[u] = 0
        \/ u \in check'[r].rejected
    BY <1>2, NewResults
  <2>2. \/ u \in UserId /\ roles[u] = 0
        \/ u \in check'[r].rejected
    BY <1>2, <2>1 DEF Typed, CheckTypeOK, NotFoundIsTrue
  <2> QED
    BY <1>2, <2>2, DeletedForEver
<1> QED
  BY <1>1, <1>2, TypedAlways, PTL DEF CheckSpec
=============================================================================

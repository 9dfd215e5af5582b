-------------------------- MODULE PermissionCheck --------------------------
(***************************************************************************)
(* POST /permissions/check: PermissionCheckController reads the target       *)
(* document, resolves all users of the request at once (UserIdentity) and    *)
(* decides for each of them.  Requests overlap, so do their calls of         *)
(* resolveUser.  A call is named by its request and its user.                *)
(*                                                                         *)
(* Yes or no is up to the rules (PermissionRules) and the roles and projects *)
(* that were resolved; here it only counts that there is a decision.         *)
(***************************************************************************)
EXTENDS UserIdentity, FiniteSets

CONSTANTS Request, MAX_USER_IDS_PER_REQUEST

ASSUME CheckAssumption ==
    /\ Call = Request \X UserId
    /\ MAX_USER_IDS_PER_REQUEST \in Nat \ {0}

VARIABLE check      \* the requests being served

checkVars == <<vars, check>>

-----------------------------------------------------------------------------
\* rejected keeps the users for whom Keycloak answered 400 or 404 without being
\* asked about them; nothing reads it but the properties.
NoCheck == [pc |-> "idle", users |-> {}, results |-> <<>>, rejected |-> {}]

Result == {"DECIDED", "NOT_FOUND", "ERROR"}

CheckTypeOK ==
    /\ TypeOK
    /\ DOMAIN check = Request
    /\ \A r \in Request :
          /\ check[r].pc \in {"idle", "load", "evaluate"}
          /\ check[r].users \subseteq UserId
          /\ DOMAIN check[r].results \subseteq check[r].users
          /\ \A u \in DOMAIN check[r].results : check[r].results[u] \in Result
          /\ check[r].rejected \subseteq check[r].users

CheckInit == Init /\ check = [r \in Request |-> NoCheck]

\* The promise of one user is fulfilled; it no longer matters if the request has
\* failed meanwhile.
settle(c, result, rejected) ==
    LET x == check[c[1]]
        results == [u \in DOMAIN x.results \cup {c[2]} |->
                       IF u = c[2] THEN result ELSE x.results[u]]
    IN  check' = IF x.pc = "evaluate"
                 THEN [check EXCEPT ![c[1]].results = results,
                                    ![c[1]].rejected = @ \cup rejected]
                 ELSE check

-----------------------------------------------------------------------------
\* A request passes validatePermissionCheckRequest.  The calls of the one before
\* it in this slot are over.
checkPermissions(r) ==
    /\ check[r].pc = "idle"
    /\ \A u \in UserId : call[<<r, u>>].pc = "idle"
    /\ \E U \in SUBSET UserId :
          /\ Cardinality(U) \in 1 .. MAX_USER_IDS_PER_REQUEST
          /\ check' = [check EXCEPT ![r] = [NoCheck EXCEPT !.pc = "load",
                                                          !.users = U]]
    /\ UNCHANGED vars

\* The target document is there: every user is looked up, in the cache or by a
\* call that goes on.
loadCanonicalEntityDoc(r) ==
    /\ check[r].pc = "load"
    /\ LET hits == {u \in check[r].users : isCached(u)}
       IN  /\ check' = [check EXCEPT ![r].pc = "evaluate",
                   ![r].results = [u \in hits |-> "DECIDED"]]
           /\ call' = [c \in Call |->
                   IF c[1] = r /\ c[2] \in check[r].users \ hits
                   THEN asked(c[2]) ELSE call[c]]
    /\ UNCHANGED <<external, feed, cache, entityNameIndex, faults>>

\* It is missing (400) or cannot be read (502).
LoadTargetFail(r) ==
    /\ check[r].pc = "load"
    /\ Fault("target")
    /\ check' = [check EXCEPT ![r] = NoCheck]
    /\ UNCHANGED <<external, feed, cache, entityNameIndex, call>>

\* evaluatePermissionForUser after resolveUser.
evaluatePermissionForUser(c) ==
    /\ storeResolved(c)
    /\ settle(c, "DECIDED", {})

\* handlePermissionEvaluationError: 400 and 404.
reportNotFound(c) ==
    /\ accountNotFound(c)
    /\ settle(c, "NOT_FOUND", {})

\* Nobody looks at which request got the 400 or 404: one for the token or for the
\* roles is reported like an unknown user.
reportRejected(c) ==
    /\ AccountFail(c, "rejected")
    /\ settle(c, "NOT_FOUND", {c[2]})

\* Mutant: the answer to a failing provider is that the user is unknown.
failAsNotFound(c) ==
    /\ AccountFail(c, "provider")
    /\ settle(c, "NOT_FOUND", {})

\* Any other status, or no answer: the whole request fails with 502.  The calls
\* for the other users go on.
failBatch(c) ==
    /\ AccountFail(c, "provider")
    /\ check' = [check EXCEPT ![c[1]] = NoCheck]

\* Neither an HTTP error nor a network error.
reportError(c) ==
    /\ AccountFail(c, "unexpected")
    /\ settle(c, "ERROR", {})

\* Mutant: a request with users that could not be evaluated gets no answer.
respondIfEvaluated(r) ==
    /\ check[r].pc = "evaluate" /\ DOMAIN check[r].results = check[r].users
    /\ \A u \in check[r].users : check[r].results[u] = "DECIDED"
    /\ check' = [check EXCEPT ![r] = NoCheck]
    /\ UNCHANGED vars

\* Promise.all is fulfilled: the answer goes out.
respond(r) ==
    /\ check[r].pc = "evaluate" /\ DOMAIN check[r].results = check[r].users
    /\ check' = [check EXCEPT ![r] = NoCheck]
    /\ UNCHANGED vars

-----------------------------------------------------------------------------
LookupStep(c) ==
    \/ (getUserAccount(c) \/ readEntity(c)) /\ UNCHANGED check
    \/ evaluatePermissionForUser(c) \/ reportNotFound(c)

CheckNext ==
    \/ Environment /\ UNCHANGED check
    \/ \E r \in Request :
          \/ checkPermissions(r)
          \/ loadCanonicalEntityDoc(r) \/ LoadTargetFail(r) \/ respond(r)
    \/ \E c \in Call :
          \/ LookupStep(c)
          \/ failBatch(c) \/ reportRejected(c) \/ reportError(c)
          \/ EntityFail(c) /\ UNCHANGED check

CheckSpec == CheckInit /\ [][CheckNext]_checkVars

\* Time passes, events are delivered, CouchDB and Keycloak answer, and the event
\* loop runs what is due.  Edits, requests and faults come as they please.
FairCheckSpec ==
    /\ CheckSpec
    /\ WF_checkVars(Tick /\ UNCHANGED check)
    /\ WF_checkVars(invalidateByEntityName /\ UNCHANGED check)
    /\ \A r \in Request :
          WF_checkVars(loadCanonicalEntityDoc(r)) /\ WF_checkVars(respond(r))
    /\ \A c \in Call : WF_checkVars(LookupStep(c))

-----------------------------------------------------------------------------
(***************************************************************************)
(* Properties                                                              *)
(***************************************************************************)
\* A user is reported as unknown only if the account is gone or this very lookup
\* was rejected: a provider that is down, refuses the backend or cannot be reached
\* fails the request and is never mistaken for an answer about a user, and no
\* rejected lookup is taken for that of another user or request, in whichever
\* order they end.  (The 400 or 404 of a rejected lookup, for the token or the
\* roles, is mistaken.)
NotFoundIsTrue ==
    \A r \in Request : \A u \in DOMAIN check[r].results :
        check[r].results[u] = "NOT_FOUND" => roles[u] = 0 \/ u \in check[r].rejected

\* Every request is answered or fails; no order of failing and succeeding
\* lookups leaves it waiting for one that is over.
ChecksEnd ==
    \A r \in Request : check[r].pc # "idle" ~> check[r].pc = "idle"
=============================================================================

---------------------------- MODULE UserIdentity ----------------------------
(***************************************************************************)
(* UserIdentityService: resolves users by id for permission checks and      *)
(* caches the result.  Roles come from Keycloak (KeycloakUserAdminService), *)
(* projects from the user's entity in CouchDB.  An entry goes when its      *)
(* entity changes, when the permission configuration changes, or when its   *)
(* time is over.  Keycloak, CouchDB and the clock are external.             *)
(*                                                                         *)
(* Roles and projects are version numbers; roles 0 is a deleted account.    *)
(* An entity is read where CouchDB handles the request and stored where the *)
(* answer arrives.                                                          *)
(***************************************************************************)
EXTENDS Naturals, Sequences

CONSTANTS
    UserId, Entity,
    EntityOf,       \* EntityOf[u]: the entity that Keycloak links to the user
    Nobody,         \* no user id
    Call,           \* calls of resolveUser that can overlap
    Ttl,            \* cacheTtlMs, in ticks of the clock
    FaultKinds,
    MaxEdits,       \* bound: changes of roles and entities
    MaxFaults       \* bound: failing requests and lost events

ASSUME IdentityAssumption ==
    /\ EntityOf \in [UserId -> Entity]
    /\ Nobody \notin UserId
    /\ Ttl \in Nat \ {0}
    /\ FaultKinds \subseteq {"provider", "rejected", "unexpected", "entity", "event",
                         "target"}
    /\ MaxEdits \in Nat /\ MaxFaults \in Nat

\* The code keeps one user for an entity: entityNameIndex has room for no more.
ASSUME OneUserPerEntity ==
    \A u, v \in UserId : EntityOf[u] = EntityOf[v] => u = v

VARIABLES
    roles,              \* Keycloak: the roles of each user
    projects,           \* CouchDB: the projects in each entity
    feed,               \* change events not delivered yet
    cache,              \* UserIdentityService.cache
    entityNameIndex,    \* UserIdentityService.entityNameIndex
    call,               \* the calls of resolveUser
    edits, faults

external == <<roles, projects, edits>>
vars == <<roles, projects, feed, cache, entityNameIndex, call, edits, faults>>

-----------------------------------------------------------------------------
\* No entry has no time left, like one that is expired.
NoEntry == [ttl |-> 0, roles |-> 0, projects |-> 0]
NoCall == [pc |-> "idle", user |-> Nobody, roles |-> 0, projects |-> 0]

TypeOK ==
    /\ roles \in [UserId -> Nat]
    /\ projects \in [Entity -> Nat]
    /\ feed \in Seq(Entity)
    /\ cache \in [UserId -> [ttl : 0 .. Ttl, roles : Nat, projects : Nat]]
    /\ entityNameIndex \in [Entity -> UserId \cup {Nobody}]
    /\ call \in [Call -> [pc : {"idle", "account", "entity", "reply"},
                          user : UserId \cup {Nobody},
                          roles : Nat, projects : Nat]]
    /\ edits \in Nat /\ faults \in Nat

Init ==
    /\ roles = [u \in UserId |-> 1]
    /\ projects = [e \in Entity |-> 1]
    /\ feed = <<>>
    /\ cache = [u \in UserId |-> NoEntry]
    /\ entityNameIndex = [e \in Entity |-> Nobody]
    /\ call = [c \in Call |-> NoCall]
    /\ edits = 0 /\ faults = 0

Fault(kind) ==
    kind \in FaultKinds /\ faults < MaxFaults /\ faults' = faults + 1

Edit == edits < MaxEdits /\ edits' = edits + 1

-----------------------------------------------------------------------------
\* Changes in Keycloak are not announced, changes in CouchDB are.
EditRoles(u) ==
    /\ Edit
    /\ roles[u] # 0
    /\ \E r \in {0, roles[u] + 1} : roles' = [roles EXCEPT ![u] = r]
    /\ UNCHANGED <<projects, feed, cache, entityNameIndex, call, faults>>

EditEntity(e) ==
    /\ Edit
    /\ projects' = [projects EXCEPT ![e] = @ + 1]
    /\ feed' = Append(feed, e)
    /\ UNCHANGED <<roles, cache, entityNameIndex, call, faults>>

Tick ==
    /\ cache' = [u \in UserId |->
                    IF cache[u].ttl = 0 THEN cache[u]
                    ELSE [cache[u] EXCEPT !.ttl = @ - 1]]
    /\ UNCHANGED <<external, feed, entityNameIndex, call, faults>>

-----------------------------------------------------------------------------
\* Mutant: an entry is served however old it is.
isCachedAtAll(u) == cache[u] # NoEntry

\* resolveUser answers from the cache.
isCached(u) == cache[u].ttl > 0

\* What resolveUser does first on a miss: it asks Keycloak.
asked(u) == [NoCall EXCEPT !.pc = "account", !.user = u]

\* resolveUser misses the cache.
resolveUser(c, u) ==
    /\ call[c].pc = "idle" /\ ~ isCached(u)
    /\ call' = [call EXCEPT ![c] = asked(u)]
    /\ UNCHANGED <<external, feed, cache, entityNameIndex, faults>>

\* getUserAccount: token, user and roles from Keycloak.
getUserAccount(c) ==
    /\ call[c].pc = "account" /\ roles[call[c].user] # 0
    /\ call' = [call EXCEPT ![c].pc = "entity",
                            ![c].roles = roles[call[c].user]]
    /\ UNCHANGED <<external, feed, cache, entityNameIndex, faults>>

\* Keycloak answers 404: the call fails, and nothing is cached.
accountNotFound(c) ==
    /\ call[c].pc = "account" /\ roles[call[c].user] = 0
    /\ call' = [call EXCEPT ![c] = NoCall]
    /\ UNCHANGED <<external, feed, cache, entityNameIndex, faults>>

\* One of the requests for the token, the user and the roles fails: "rejected" is
\* a 400 or 404 that is not about the user (of the token or the roles request, of
\* a wrong realm or a proxy), "provider" any other status or no answer at all,
\* "unexpected" an error that is no answer to a request.
AccountFail(c, kind) ==
    /\ call[c].pc = "account"
    /\ Fault(kind)
    /\ call' = [call EXCEPT ![c] = NoCall]
    /\ UNCHANGED <<external, feed, cache, entityNameIndex>>

\* CouchDB reads the entity.
readEntity(c) ==
    /\ call[c].pc = "entity"
    /\ call' = [call EXCEPT ![c].pc = "reply",
                            ![c].projects = projects[EntityOf[call[c].user]]]
    /\ UNCHANGED <<external, feed, cache, entityNameIndex, faults>>

\* The entity cannot be read: the user has no projects.
EntityFail(c) ==
    /\ call[c].pc = "entity"
    /\ Fault("entity")
    /\ call' = [call EXCEPT ![c].pc = "reply", ![c].projects = 0]
    /\ UNCHANGED <<external, feed, cache, entityNameIndex>>

\* Mutant: an entry lives one tick too long.
storeResolvedTooLong(c) ==
    /\ call[c].pc = "reply"
    /\ cache' = [cache EXCEPT ![call[c].user] =
            [ttl |-> Ttl + 1, roles |-> call[c].roles,
             projects |-> call[c].projects]]
    /\ entityNameIndex' =
            [entityNameIndex EXCEPT ![EntityOf[call[c].user]] = call[c].user]
    /\ call' = [call EXCEPT ![c] = NoCall]
    /\ UNCHANGED <<external, feed, faults>>

\* The answer arrives: the end of resolveUser.
storeResolved(c) ==
    /\ call[c].pc = "reply"
    /\ cache' = [cache EXCEPT ![call[c].user] =
            [ttl |-> Ttl, roles |-> call[c].roles,
             projects |-> call[c].projects]]
    /\ entityNameIndex' =
            [entityNameIndex EXCEPT ![EntityOf[call[c].user]] = call[c].user]
    /\ call' = [call EXCEPT ![c] = NoCall]
    /\ UNCHANGED <<external, feed, faults>>

-----------------------------------------------------------------------------
\* RulesService.onPermissionsChanged, at any time.
clearCache ==
    /\ cache' = [u \in UserId |-> NoEntry]
    /\ entityNameIndex' = [e \in Entity |-> Nobody]
    /\ UNCHANGED <<external, feed, call, faults>>

\* Mutant: a change of one entity forgets the links of all.
invalidateAllNames ==
    /\ feed # <<>>
    /\ feed' = Tail(feed)
    /\ LET user == entityNameIndex[Head(feed)]
       IN  /\ entityNameIndex' = [e \in Entity |-> Nobody]
           /\ cache' = IF user = Nobody THEN cache
                       ELSE [cache EXCEPT ![user] = NoEntry]
    /\ UNCHANGED <<external, call, faults>>

\* watchUserEntityChanges: an event arrives.
invalidateByEntityName ==
    /\ feed # <<>>
    /\ feed' = Tail(feed)
    /\ LET user == entityNameIndex[Head(feed)]
       IN  /\ entityNameIndex' = [entityNameIndex EXCEPT ![Head(feed)] = Nobody]
           /\ cache' = IF user = Nobody THEN cache
                       ELSE [cache EXCEPT ![user] = NoEntry]
    /\ UNCHANGED <<external, call, faults>>

\* A change before the first answer of the longpoll is never reported.
EventLost ==
    /\ feed # <<>>
    /\ Fault("event")
    /\ feed' = Tail(feed)
    /\ UNCHANGED <<external, cache, entityNameIndex, call>>

-----------------------------------------------------------------------------
CallStep(c) ==
    getUserAccount(c) \/ accountNotFound(c) \/ readEntity(c) \/ storeResolved(c)

\* What happens outside of the calls.
Environment ==
    \/ \E u \in UserId : EditRoles(u)
    \/ \E e \in Entity : EditEntity(e)
    \/ Tick \/ clearCache \/ invalidateByEntityName \/ EventLost

Next ==
    \/ Environment
    \/ \E c \in Call :
          \/ \E u \in UserId : resolveUser(c, u)
          \/ CallStep(c) \/ EntityFail(c)
          \/ \E kind \in {"provider", "rejected", "unexpected"} : AccountFail(c, kind)

Spec == Init /\ [][Next]_vars

-----------------------------------------------------------------------------
(***************************************************************************)
(* Properties                                                              *)
(***************************************************************************)
\* Whoever is served from the cache can be found by the entity: no order of
\* overlapping calls, clears and invalidations leaves an entry that a change of
\* its entity would not reach.
IndexCovers ==
    \A u \in UserId : isCached(u) => entityNameIndex[EntityOf[u]] = u

Current(u) ==
    /\ cache[u].roles = roles[u]
    /\ cache[u].projects = projects[EntityOf[u]]

\* Whatever is lost, delayed or unannounced: when nothing changes any more, the
\* cache ends up serving current roles and projects only.
StalenessEnds == <>[](\A u \in UserId : isCached(u) => Current(u))
=============================================================================

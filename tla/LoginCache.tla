----------------------------- MODULE LoginCache -----------------------------
(***************************************************************************)
(* Who a request is served as: BasicAuthStrategy with its cache of logins,   *)
(* and CombinedAuthGuard, which falls back on tokens and on nobody.  CouchDB *)
(* (external) decides a login when it sees it, passwords change, and         *)
(* requests overlap.  Tokens are checked by a library: a request has the     *)
(* user of a valid token or none.                                           *)
(***************************************************************************)
EXTENDS Integers, Sequences, SequencesExt, Subsequence

CONSTANTS
    Slot,           \* requests that are handled at the same time
    User,           \* users of CouchDB
    Anonymous,      \* the user of a request that is not authenticated
    Workloads,      \* the kinds of requests that clients send
    OnlyAuthenticated,      \* endpoints with the decorator of that name
    LOGIN_CACHE_TTL,        \* in ticks
    LOGIN_CACHE_MAX_ENTRIES,
    MaxPassword     \* bound: changes of a password

\* In a behaviour the slots of one workload are used, with its endpoints,
\* credentials and tokens.
ASSUME LoginAssumption ==
    /\ Anonymous \notin User
    /\ \A w \in Workloads :
          /\ w.slots \subseteq Slot
          /\ w.credentials \subseteq User \X (0 .. MaxPassword)
          /\ w.tokens \subseteq User
    /\ LOGIN_CACHE_TTL \in Nat \ {0}
    /\ LOGIN_CACHE_MAX_ENTRIES \in Nat \ {0}
    /\ MaxPassword \in Nat

VARIABLES
    workload,
    password,       \* the current password of a user
    loginCache,     \* in the order of insertion; ttl 0 for expired
    request         \* the requests and who they are served as

loginVars == <<workload, password, loginCache, request>>

-----------------------------------------------------------------------------
Credentials == User \X (0 .. MaxPassword)
NoCredentials == <<Anonymous, 0>>
Entry == [key : Credentials, ttl : 0 .. LOGIN_CACHE_TTL]

NoRequest == [pc |-> "none", endpoint |-> "", credentials |-> NoCredentials,
              token |-> Anonymous, user |-> Anonymous, by |-> "nobody"]

LoginTypeOK ==
    /\ workload \in Workloads
    /\ password \in [User -> 0 .. MaxPassword]
    /\ loginCache \in Seq(Entry)
    /\ \A i, j \in DOMAIN loginCache :
          loginCache[i].key = loginCache[j].key => i = j
    /\ request \in
         [Slot -> [pc : {"none", "login", "verified", "refused", "granted", "over"},
                   endpoint : {""} \cup UNION {w.endpoints : w \in Workloads},
                   credentials : Credentials \cup {NoCredentials},
                   token : User \cup {Anonymous}, user : User \cup {Anonymous},
                   by : {"nobody", "login", "token"}]]

LoginInit ==
    /\ workload \in Workloads
    /\ password = [u \in User |-> 0]
    /\ loginCache = <<>>
    /\ request = [q \in Slot |-> NoRequest]

-----------------------------------------------------------------------------
Keys(cache) == {cache[i].key : i \in DOMAIN cache}
isLive(entry) == entry.ttl > 0
Live(cache) == {entry \in ToSet(cache) : isLive(entry)}
Without(cache, key) == Only(cache, {entry \in ToSet(cache) : entry.key # key})

\* Mutant: the expiry of an entry is not looked at.
anyEntry(credentials) == credentials \in Keys(loginCache)

cachedLogin(credentials) ==
    \E entry \in Live(loginCache) : entry.key = credentials

\* Mutant: off by one.
evictIfOver(cache) ==
    IF Len(cache) <= LOGIN_CACHE_MAX_ENTRIES THEN cache
    ELSE SubSeq(cache, 2, Len(cache))

\* Mutant: the oldest entry goes, expired or not.
evictOldest(cache) ==
    IF Len(cache) < LOGIN_CACHE_MAX_ENTRIES THEN cache
    ELSE SubSeq(cache, Len(cache) - LOGIN_CACHE_MAX_ENTRIES + 2, Len(cache))

\* When the cache is full, the expired entries go, then the oldest.
evictIfNeeded(cache) ==
    IF Len(cache) < LOGIN_CACHE_MAX_ENTRIES THEN cache
    ELSE LET live == Only(cache, Live(cache))
             excess == Len(live) - LOGIN_CACHE_MAX_ENTRIES + 1
         IN  IF excess <= 0 THEN live ELSE SubSeq(live, excess + 1, Len(live))

\* Mutant: an entry for the same key is not replaced.
addEntry(cache, key) == Append(cache, [key |-> key, ttl |-> LOGIN_CACHE_TTL])

\* Map.set: a key that is there keeps its place.
setEntry(cache, key) ==
    LET entry == [key |-> key, ttl |-> LOGIN_CACHE_TTL]
    IN  IF key \in Keys(cache)
        THEN [i \in DOMAIN cache |-> IF cache[i].key = key THEN entry ELSE cache[i]]
        ELSE Append(cache, entry)

grant(q, r, user, by) ==
    request' = [request EXCEPT ![q] = [r EXCEPT !.pc = "granted", !.user = user, !.by = by]]

\* The guards after the one for basic authentication, and what happens when
\* all of them fail.
authenticateViaGuards(q, r) ==
    \/ r.token # Anonymous /\ grant(q, r, r.token, "token")
    \/ /\ r.token = Anonymous
       /\ r.endpoint \notin OnlyAuthenticated
       /\ grant(q, r, Anonymous, "nobody")
    \/ /\ r.token = Anonymous
       /\ r.endpoint \in OnlyAuthenticated
       /\ request' = [request EXCEPT ![q] = [r EXCEPT !.pc = "over"]]

\* A request arrives: up to the login at CouchDB nothing waits.
validate(q) ==
    /\ q \in workload.slots
    /\ request[q] = NoRequest
    /\ \E endpoint \in workload.endpoints,
          credentials \in workload.credentials \cup {NoCredentials},
          token \in workload.tokens \cup {Anonymous} :
          LET r == [NoRequest EXCEPT !.endpoint = endpoint,
                        !.credentials = credentials, !.token = token]
          IN  \/ /\ credentials = NoCredentials
                 /\ authenticateViaGuards(q, r)
                 /\ UNCHANGED loginCache
              \/ /\ cachedLogin(credentials)
                 /\ grant(q, r, credentials[1], "login")
                 /\ UNCHANGED loginCache
              \/ /\ credentials # NoCredentials
                 /\ ~ cachedLogin(credentials)
                 /\ loginCache' = Without(loginCache, credentials)
                 /\ request' = [request EXCEPT ![q] = [r EXCEPT !.pc = "login"]]
    /\ UNCHANGED <<workload, password>>

\* CouchDB sees the login.
decideLogin(q) ==
    /\ request[q].pc = "login"
    /\ LET c == request[q].credentials
       IN  request' = [request EXCEPT ![q].pc =
                IF password[c[1]] = c[2] THEN "verified" ELSE "refused"]
    /\ UNCHANGED <<workload, password, loginCache>>

\* CouchDB or the network fails; login() turns every error into a 401.
LoginFail(q) ==
    /\ request[q].pc \in {"login", "verified"}
    /\ request' = [request EXCEPT ![q].pc = "refused"]
    /\ UNCHANGED <<workload, password, loginCache>>

\* The rest of validate, once CouchDB's answer is there.
storeLogin(q) ==
    /\ request[q].pc = "verified"
    /\ loginCache' = setEntry(evictIfNeeded(loginCache), request[q].credentials)
    /\ grant(q, request[q], request[q].credentials[1], "login")
    /\ UNCHANGED <<workload, password>>

loginRefused(q) ==
    /\ request[q].pc = "refused"
    /\ authenticateViaGuards(q, request[q])
    /\ UNCHANGED <<workload, password, loginCache>>

ChangePassword ==
    /\ \E u \in User : /\ password[u] < MaxPassword
                       /\ password' = [password EXCEPT ![u] = @ + 1]
    /\ UNCHANGED <<workload, loginCache, request>>

Tick ==
    /\ Live(loginCache) # {}
    /\ loginCache' = [i \in DOMAIN loginCache |->
                        [loginCache[i] EXCEPT !.ttl = IF @ > 0 THEN @ - 1 ELSE 0]]
    /\ UNCHANGED <<workload, password, request>>

LoginStep(q) ==
    validate(q) \/ decideLogin(q) \/ LoginFail(q) \/ storeLogin(q) \/ loginRefused(q)

-----------------------------------------------------------------------------
(***************************************************************************)
(* Properties                                                              *)
(***************************************************************************)

\* The login cache never has more entries than its cap, although entries are
\* made and removed while other requests wait for their logins.
CacheBounded == Len(loginCache) <= LOGIN_CACHE_MAX_ENTRIES

\* At most one live entry leaves the cache in a step, only when the cache is
\* full and nothing in it stays expired, and it is the oldest: evictIfNeeded
\* degrades the coldest entry and does not wipe the warm ones.
EvictionSparesLive ==
    [][LET Before == DOMAIN loginCache
           dropped(i) == loginCache[i].key \notin Keys(loginCache')
           lost(i) == isLive(loginCache[i]) /\ dropped(i)
       IN  \A i \in Before : lost(i) =>
             /\ Len(loginCache) >= LOGIN_CACHE_MAX_ENTRIES
             /\ \A entry \in ToSet(loginCache') : isLive(entry)
             /\ \A j \in Before \ {i} : ~ lost(j)
             /\ \A j \in 1 .. i - 1 :
                   dropped(j) \/ loginCache[j].key = Last(loginCache').key]_loginVars

\* After a password change the old one is served from the cache for some time
\* and then no more, although the login of it that was under way is cached
\* afterwards and requests with it go on.
OldPasswordEnds ==
    <>[][\A q \in Slot :
            LET r == request'[q]
            IN  request[q].pc # "granted" /\ r.pc = "granted" /\ r.by = "login" =>
                  r.credentials[2] = password[r.credentials[1]]]_loginVars
=============================================================================

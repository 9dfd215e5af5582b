--------------------------- MODULE PermissionRules ---------------------------
(***************************************************************************)
(* How one backend process obtains, keeps up to date and uses the permission*)
(* configuration: RulesService (startup load, live updates, write-back of   *)
(* the managed defaults), the longpoll feed of DocumentChangesService it    *)
(* listens to, and the ability cache of PermissionService that is derived   *)
(* from the configuration.  CouchDB holds the permission document and is    *)
(* external; administrators (and other backends) edit it at any time.       *)
(*                                                                         *)
(* Every HTTP exchange whose answer the process acts on is split where the  *)
(* database handles the request and where the process handles the answer,   *)
(* so that anything may happen in between.                                  *)
(***************************************************************************)
EXTENDS PermissionConfig, FiniteSets

CONSTANTS
    Invalid,            \* document contents that are no valid configuration
    Absent,             \* the contents of a missing or deleted document
    Undefined,          \* no configuration is loaded
    Now,                \* since=now
    EditData,           \* the contents administrators write (or Absent)
    Writer,             \* runs of ensureManagedDefaults that can overlap
    StartupWriter,      \* the run that startup waits for
    FetchRetries,       \* UPDATE_FETCH_MAX_RETRIES
    WriteAttempts,      \* attempts of one ensureManagedDefaults
    MaxAbilities,       \* ABILITY_CACHE_MAX_ENTRIES
    InitTries,          \* bound: attempts that fit into INIT_MAX_TOTAL_MS
    MaxEditRev,         \* bound: administrators stop editing at this revision
    MaxFaults,          \* bound: faults in one behaviour
    FaultKinds          \* the faults that can happen

ASSUME DataAssumption ==
    /\ Invalid \notin Config /\ Absent \notin Config /\ Undefined \notin Config
    /\ Invalid # Absent
    /\ EditData \subseteq Config \cup {Invalid, Absent}

ASSUME BoundAssumption ==
    /\ Now \notin Nat
    /\ StartupWriter \in Writer
    /\ FetchRetries \in Nat
    /\ WriteAttempts \in Nat \ {0}
    /\ InitTries \in Nat \ {0}
    /\ MaxAbilities \in Nat \ {0}
    /\ MaxEditRev \in Nat /\ MaxFaults \in Nat
    /\ FaultKinds \subseteq {"feed", "fetch", "fetchRejected", "load",
                             "write", "clear", "crash"}

VARIABLES
    doc,            \* Config:Permissions in CouchDB: its revision and contents
    lastSeq,        \* startFeed's lastSeq
    feed,           \* the outstanding _changes request
    queue,          \* events concatMap has not projected yet
    fetch,          \* the fetch of the event concatMap works on
    startup,        \* progress of onModuleInit
    permission,     \* RulesService.permission
    writer,         \* the runs of ensureManagedDefaults
    abilities,      \* PermissionService.abilityCache
    clearTimers,    \* pending timers that will call clearLocal
    faults,         \* faults so far
    anchor,         \* history: the sequence since=now came to stand for
    lastUpdate,     \* history: how the latest update from the feed ended
    synced          \* history: the configuration the clients last synced under

feedVars == <<lastSeq, feed, anchor>>
rulesVars == <<permission, abilities, clearTimers>>
vars == <<doc, lastSeq, feed, queue, fetch, startup, permission, writer,
          abilities, clearTimers, faults, anchor, lastUpdate, synced>>

-----------------------------------------------------------------------------
Data == Config \cup {Invalid, Absent}
Doc == [rev : Nat, data : Data]
NoDoc == [rev |-> 0, data |-> Absent]

\* What a change result says about the document; "none" for an answer that
\* reports no change of it (the longpoll timed out, or other documents changed).
EventOf(d, since) ==
    IF d.rev <= since THEN "none"
    ELSE IF d.data = Absent THEN "deleted" ELSE "changed"

IdleFetch == [pc |-> "idle", tries |-> 0, doc |-> NoDoc]
SentFeed == [pc |-> "sent", from |-> 0, last |-> 0, event |-> "none"]
IdleWriter == [pc |-> "idle", doc |-> NoDoc, attempt |-> 0]
NoAbilities == [u \in {} |-> <<>>]

FeedState ==
    [pc : {"sent", "open", "reply"}, from : Nat, last : Nat,
     event : {"none", "changed", "deleted"}]
FetchState == [pc : {"idle", "get", "reply"}, tries : Nat, doc : Doc]
StartupState ==
    [pc : {"get", "reply", "wait", "defaults", "ready", "aborted"},
     tries : Nat, doc : Doc]
WriterState == [pc : {"idle", "put", "get"}, doc : Doc, attempt : Nat]

TypeOK ==
    /\ doc \in Doc
    /\ lastSeq \in Nat \cup {Now}
    /\ feed \in FeedState
    /\ queue \in Seq({"changed", "deleted"})
    /\ fetch \in FetchState
    /\ startup \in StartupState
    /\ permission \in Config \cup {Undefined}
    /\ writer \in [Writer -> WriterState]
    /\ DOMAIN abilities \subseteq User
    /\ clearTimers \in Nat
    /\ faults \in Nat
    /\ anchor \in Nat \cup {Now}
    /\ lastUpdate \in {"none", "applied", "dropped"}
    /\ synced \in Config \cup {Undefined}

InitStartup ==
    [pc |-> "get", tries |-> 0, doc |-> NoDoc]

Init ==
    /\ doc \in {[rev |-> IF d = Absent THEN 0 ELSE 1, data |-> d] : d \in EditData}
    /\ lastSeq = Now
    /\ feed = SentFeed
    /\ queue = <<>>
    /\ fetch = IdleFetch
    /\ startup = InitStartup
    /\ permission = Undefined
    /\ writer = [w \in Writer |-> IdleWriter]
    /\ abilities = NoAbilities
    /\ clearTimers = 0
    /\ faults = 0
    /\ anchor = Now
    /\ lastUpdate = "none"
    /\ synced = Undefined

Up == startup.pc # "aborted"

\* A fault of the given kind happens now.
Fault(kind) ==
    /\ kind \in FaultKinds
    /\ faults < MaxFaults
    /\ faults' = faults + 1

-----------------------------------------------------------------------------
(***************************************************************************)
(* CouchDB's document and its editors.                                     *)
(***************************************************************************)
AdminEdit ==
    /\ doc.rev < MaxEditRev
    /\ \E d \in EditData :
          /\ ~ (d = Absent /\ doc.data = Absent)
          /\ doc' = [rev |-> doc.rev + 1, data |-> d]
    /\ UNCHANGED <<feedVars, queue, fetch, startup, rulesVars, writer, faults,
                   lastUpdate, synced>>

(***************************************************************************)
(* DocumentChangesService.startFeed: one longpoll request after another.    *)
(***************************************************************************)
\* CouchDB receives the request; only now does since=now get its meaning.
FeedOpen ==
    /\ Up /\ feed.pc = "sent"
    /\ feed' = [feed EXCEPT !.pc = "open",
                            !.from = IF lastSeq = Now THEN doc.rev ELSE lastSeq]
    /\ UNCHANGED <<doc, lastSeq, anchor, queue, fetch, startup, rulesVars,
                   writer, faults, lastUpdate, synced>>

\* CouchDB answers: something changed, or the longpoll timed out.
FeedAnswer ==
    /\ Up /\ feed.pc = "open"
    /\ feed' = [feed EXCEPT !.pc = "reply", !.last = doc.rev,
                            !.event = EventOf(doc, feed.from)]
    /\ UNCHANGED <<doc, lastSeq, anchor, queue, fetch, startup, rulesVars,
                   writer, faults, lastUpdate, synced>>

\* The answer arrives: lastSeq moves, events go out, the next request is sent.
FeedReceive ==
    /\ Up /\ feed.pc = "reply"
    /\ lastSeq' = feed.last
    /\ anchor' = IF lastSeq = Now THEN feed.from ELSE anchor
    /\ queue' = IF feed.event = "none" THEN queue ELSE Append(queue, feed.event)
    /\ feed' = SentFeed
    /\ UNCHANGED <<doc, fetch, startup, rulesVars, writer, faults, lastUpdate,
                   synced>>

\* The request or its answer is lost; after the backoff it is sent again with
\* the lastSeq of the last answer that did arrive.
FeedFail ==
    /\ Up
    /\ Fault("feed")
    /\ feed' = SentFeed
    /\ UNCHANGED <<doc, lastSeq, anchor, queue, fetch, startup, rulesVars,
                   writer, lastUpdate, synced>>

-----------------------------------------------------------------------------
(***************************************************************************)
(* RulesService: what a change of the in-memory configuration entails.      *)
(***************************************************************************)
setPermission(config) == permission' = normalizeSectionKeys(config)

onPermissionsChanged(new) ==
    IF permission = Undefined \/ permission = new
    THEN UNCHANGED <<abilities, clearTimers>>
    ELSE /\ abilities' = NoAbilities
         /\ clearTimers' = clearTimers + 1

isValidRulesConfig(data) == data \in Config

(***************************************************************************)
(* ensureManagedDefaults: one record per run.  startRun is the part of       *)
(* writeManagedDefaults before its PUT.                                     *)
(***************************************************************************)
startRun(d, attempt) ==
    IF isValidRulesConfig(d.data) /\ needsManagedDefaults(d.data)
    THEN [pc |-> "put", doc |-> d, attempt |-> attempt]
    ELSE IdleWriter

\* Mutant: after a conflict the stale copy is written over the new revision.
WriterPutOverConflict(w) ==
    /\ Up /\ writer[w].pc = "put"
    /\ doc' = [rev |-> doc.rev + 1,
               data |-> withManagedDefaults(writer[w].doc.data)]
    /\ writer' = [writer EXCEPT ![w] = IdleWriter]
    /\ UNCHANGED <<feedVars, queue, fetch, startup, rulesVars, faults, lastUpdate,
                   synced>>

\* The PUT reaches CouchDB: it succeeds if the revision is the current one.
\* A conflict ends the last attempt and leads to a fresh read in the others.
WriterPut(w) ==
    /\ Up /\ writer[w].pc = "put"
    /\ IF writer[w].doc.rev = doc.rev
       THEN /\ doc' = [rev |-> doc.rev + 1,
                       data |-> withManagedDefaults(writer[w].doc.data)]
            /\ writer' = [writer EXCEPT ![w] = IdleWriter]
       ELSE /\ writer' = [writer EXCEPT ![w] =
                    IF writer[w].attempt + 1 < WriteAttempts
                    THEN [IdleWriter EXCEPT !.pc = "get",
                                            !.attempt = writer[w].attempt]
                    ELSE IdleWriter]
            /\ UNCHANGED doc
    /\ UNCHANGED <<feedVars, queue, fetch, startup, rulesVars, faults, lastUpdate,
                   synced>>

\* The read after a conflict; a document that is gone ends the run.
WriterRefetch(w) ==
    /\ Up /\ writer[w].pc = "get"
    /\ writer' = [writer EXCEPT ![w] = startRun(doc, writer[w].attempt + 1)]
    /\ UNCHANGED <<doc, feedVars, queue, fetch, startup, rulesVars, faults,
                   lastUpdate, synced>>

\* Any other error is logged and ends the run.
WriterFail(w) ==
    /\ Up /\ writer[w].pc # "idle"
    /\ Fault("write")
    /\ writer' = [writer EXCEPT ![w] = IdleWriter]
    /\ UNCHANGED <<doc, feedVars, queue, fetch, startup, rulesVars, lastUpdate,
                   synced>>

-----------------------------------------------------------------------------
(***************************************************************************)
(* watchPermissionChanges: concatMap takes one event at a time.             *)
(***************************************************************************)
\* Mutant: the deletion swaps the rules and tells nobody.
deletionUnannounced ==
    /\ Up /\ fetch.pc = "idle"
    /\ queue # <<>> /\ Head(queue) = "deleted"
    /\ queue' = Tail(queue)
    /\ setPermission(bootstrapPermissions)
    /\ lastUpdate' = "applied"
    /\ UNCHANGED <<doc, feedVars, fetch, startup, abilities, clearTimers, writer,
                   faults, synced>>

\* Mutant: the deletion applies the contents the document has now.
deletionAppliesContents ==
    /\ Up /\ fetch.pc = "idle"
    /\ queue # <<>> /\ Head(queue) = "deleted"
    /\ queue' = Tail(queue)
    /\ permission' = doc.data
    /\ onPermissionsChanged(doc.data)
    /\ lastUpdate' = "applied"
    /\ UNCHANGED <<doc, feedVars, fetch, startup, writer, faults, synced>>

\* The event says "deleted": applyPermissionDeletion, without a fetch.
applyPermissionDeletion ==
    /\ Up /\ fetch.pc = "idle"
    /\ queue # <<>> /\ Head(queue) = "deleted"
    /\ queue' = Tail(queue)
    /\ setPermission(bootstrapPermissions)
    /\ onPermissionsChanged(bootstrapPermissions)
    /\ lastUpdate' = "applied"
    /\ UNCHANGED <<doc, feedVars, fetch, startup, writer, faults, synced>>

\* Any other event starts a fetch of the document.
FetchStart ==
    /\ Up /\ fetch.pc = "idle"
    /\ queue # <<>> /\ Head(queue) = "changed"
    /\ queue' = Tail(queue)
    /\ fetch' = [IdleFetch EXCEPT !.pc = "get"]
    /\ UNCHANGED <<doc, feedVars, startup, rulesVars, writer, faults, lastUpdate,
                   synced>>

\* CouchDB reads the document.
FetchRead ==
    /\ Up /\ fetch.pc = "get"
    /\ fetch' = [fetch EXCEPT !.pc = "reply", !.doc = doc]
    /\ UNCHANGED <<doc, feedVars, queue, startup, rulesVars, writer, faults,
                   lastUpdate, synced>>

\* 404, a non-transient error: the update is given up, its deletion follows.
FetchNotFound ==
    /\ Up /\ fetch.pc = "reply" /\ fetch.doc.data = Absent
    /\ fetch' = IdleFetch
    /\ UNCHANGED <<doc, feedVars, queue, startup, rulesVars, writer, faults,
                   lastUpdate, synced>>

\* Mutant: live updates do not restore the managed defaults.
updateWithoutDefaults ==
    /\ Up /\ fetch.pc = "reply" /\ fetch.doc.data # Absent
    /\ fetch' = IdleFetch
    /\ lastUpdate' = "applied"
    /\ IF isValidRulesConfig(fetch.doc.data)
       THEN /\ setPermission(fetch.doc.data)
            /\ onPermissionsChanged(normalizeSectionKeys(fetch.doc.data))
       ELSE UNCHANGED rulesVars
    /\ UNCHANGED <<doc, feedVars, queue, startup, writer, faults, synced>>

\* The document arrives: applyUpdatedPermission.
applyUpdatedPermission ==
    /\ Up /\ fetch.pc = "reply" /\ fetch.doc.data # Absent
    /\ fetch' = IdleFetch
    /\ lastUpdate' = "applied"
    /\ IF isValidRulesConfig(fetch.doc.data)
       THEN /\ setPermission(fetch.doc.data)
            /\ onPermissionsChanged(normalizeSectionKeys(fetch.doc.data))
            /\ \E w \in Writer \ {StartupWriter} :
                  /\ writer[w].pc = "idle"
                  /\ writer' = [writer EXCEPT ![w] = startRun(fetch.doc, 0)]
       ELSE UNCHANGED <<rulesVars, writer>>
    /\ UNCHANGED <<doc, feedVars, queue, startup, faults, synced>>

\* Mutant: the initial request counts as one of the retries.
FetchFailOneShort ==
    /\ Up /\ fetch.pc # "idle"
    /\ Fault("fetch")
    /\ IF fetch.tries + 1 < FetchRetries
       THEN /\ fetch' = [IdleFetch EXCEPT !.pc = "get",
                                          !.tries = fetch.tries + 1]
            /\ UNCHANGED lastUpdate
       ELSE /\ fetch' = IdleFetch
            /\ lastUpdate' = "dropped"
    /\ UNCHANGED <<doc, feedVars, queue, startup, rulesVars, writer, synced>>

\* A transient error: fetch again, unless the retries are used up.
FetchFail ==
    /\ Up /\ fetch.pc # "idle"
    /\ Fault("fetch")
    /\ IF fetch.tries < FetchRetries
       THEN /\ fetch' = [IdleFetch EXCEPT !.pc = "get",
                                          !.tries = fetch.tries + 1]
            /\ UNCHANGED lastUpdate
       ELSE /\ fetch' = IdleFetch
            /\ lastUpdate' = "dropped"
    /\ UNCHANGED <<doc, feedVars, queue, startup, rulesVars, writer, synced>>

\* A non-transient error such as 401: the update is given up at once.
FetchRejected ==
    /\ Up /\ fetch.pc # "idle"
    /\ Fault("fetchRejected")
    /\ fetch' = IdleFetch
    /\ lastUpdate' = "dropped"
    /\ UNCHANGED <<doc, feedVars, queue, startup, rulesVars, writer, synced>>

-----------------------------------------------------------------------------
(***************************************************************************)
(* loadInitialPermissions.                                                 *)
(***************************************************************************)
\* onModuleInit returns and the server starts to listen.  The first
\* configuration ever served is the one clients start to sync under.
Ready(config) ==
    synced' = IF synced = Undefined THEN config ELSE synced

LoadRead ==
    /\ startup.pc = "get"
    /\ startup' = [startup EXCEPT !.pc = "reply", !.doc = doc,
                                  !.tries = startup.tries + 1]
    /\ UNCHANGED <<doc, feedVars, queue, fetch, rulesVars, writer, faults,
                   lastUpdate, synced>>

\* Mutant: the initial document replaces what the feed delivered.
LoadValidOverwrites ==
    /\ startup.pc = "reply" /\ isValidRulesConfig(startup.doc.data)
    /\ setPermission(startup.doc.data)
    /\ writer' = [writer EXCEPT ![StartupWriter] = startRun(startup.doc, 0)]
    /\ startup' = [startup EXCEPT !.pc = "defaults", !.doc = NoDoc]
    /\ UNCHANGED <<doc, feedVars, queue, fetch, abilities, clearTimers, faults,
                   lastUpdate, synced>>

\* A valid document arrives.  It does not replace what the feed delivered.
LoadValid ==
    /\ startup.pc = "reply" /\ isValidRulesConfig(startup.doc.data)
    /\ IF permission = Undefined
       THEN setPermission(startup.doc.data)
       ELSE UNCHANGED permission
    /\ writer' = [writer EXCEPT ![StartupWriter] = startRun(startup.doc, 0)]
    /\ startup' = [startup EXCEPT !.pc = "defaults", !.doc = NoDoc]
    /\ UNCHANGED <<doc, feedVars, queue, fetch, abilities, clearTimers, faults,
                   lastUpdate, synced>>

\* ensureManagedDefaults has returned.
LoadDone ==
    /\ startup.pc = "defaults" /\ writer[StartupWriter].pc = "idle"
    /\ startup' = [startup EXCEPT !.pc = "ready"]
    /\ Ready(permission)
    /\ UNCHANGED <<doc, feedVars, queue, fetch, rulesVars, writer, faults,
                   lastUpdate>>

\* 404: enterBootstrapMode.
enterBootstrapMode ==
    /\ startup.pc = "reply" /\ startup.doc.data = Absent
    /\ IF permission = Undefined
       THEN setPermission(bootstrapPermissions)
       ELSE UNCHANGED permission
    /\ startup' = [startup EXCEPT !.pc = "ready", !.doc = NoDoc]
    /\ Ready(permission')
    /\ UNCHANGED <<doc, feedVars, queue, fetch, abilities, clearTimers, writer,
                   faults, lastUpdate>>

\* Any other error; waitForNextRetry returns at once if the feed was faster.
LoadFailed ==
    /\ startup' = [startup EXCEPT
            !.pc = IF permission # Undefined THEN "ready" ELSE "wait",
            !.doc = NoDoc]
    /\ IF permission # Undefined THEN Ready(permission) ELSE UNCHANGED synced
    /\ UNCHANGED <<doc, feedVars, queue, fetch, rulesVars, writer, lastUpdate>>

LoadInvalid ==
    /\ startup.pc = "reply" /\ startup.doc.data = Invalid
    /\ LoadFailed
    /\ UNCHANGED faults

LoadFail ==
    /\ startup.pc \in {"get", "reply"}
    /\ Fault("load")
    /\ LoadFailed

\* Mutant: when the time is used up the server starts to listen anyway.
waitThenServe ==
    /\ startup.pc = "wait"
    /\ startup' = [startup EXCEPT !.pc =
            IF startup.tries < InitTries THEN "get" ELSE "ready"]
    /\ UNCHANGED <<doc, feedVars, queue, fetch, rulesVars, writer, faults,
                   lastUpdate, synced>>

\* Mutant: no limit on the time spent retrying.
waitForever ==
    /\ startup.pc = "wait"
    /\ startup' = [startup EXCEPT !.pc =
            IF permission # Undefined THEN "ready" ELSE "get",
            !.tries = 0]
    /\ IF permission # Undefined THEN Ready(permission) ELSE UNCHANGED synced
    /\ UNCHANGED <<doc, feedVars, queue, fetch, rulesVars, writer, faults,
                   lastUpdate>>

\* The delay is over: return, try again, or abort if the time is used up.
waitForNextRetry ==
    /\ startup.pc = "wait"
    /\ startup' = [startup EXCEPT !.pc =
            IF permission # Undefined THEN "ready"
            ELSE IF startup.tries < InitTries THEN "get" ELSE "aborted"]
    /\ IF permission # Undefined THEN Ready(permission) ELSE UNCHANGED synced
    /\ UNCHANGED <<doc, feedVars, queue, fetch, rulesVars, writer, faults,
                   lastUpdate>>

-----------------------------------------------------------------------------
\* PermissionService.getAbilityFor, on behalf of a request: a miss fills the
\* cache, and a full cache is emptied first.
rulesFor(user) ==
    IF permission = Undefined THEN <<>> ELSE getRulesForUser(permission, user)

getAbilityFor(user) ==
    /\ startup.pc = "ready"
    /\ user \notin DOMAIN abilities
    /\ LET kept == IF Cardinality(DOMAIN abilities) >= MaxAbilities
                   THEN {} ELSE DOMAIN abilities
       IN  abilities' = [u \in kept \cup {user} |->
                            IF u = user THEN rulesFor(user) ELSE abilities[u]]
    /\ UNCHANGED <<doc, feedVars, queue, fetch, startup, permission, writer,
                   clearTimers, faults, lastUpdate, synced>>

\* A timer set by onPermissionsChanged fires: clients lose their checkpoints
\* and sync again under the configuration now in memory.
ClearLocal ==
    /\ Up /\ clearTimers > 0
    /\ clearTimers' = clearTimers - 1
    /\ synced' = permission
    /\ UNCHANGED <<doc, feedVars, queue, fetch, startup, permission, abilities,
                   writer, faults, lastUpdate>>

ClearLocalFail ==
    /\ Up /\ clearTimers > 0
    /\ Fault("clear")
    /\ clearTimers' = clearTimers - 1
    /\ UNCHANGED <<doc, feedVars, queue, fetch, startup, permission, abilities,
                   writer, lastUpdate, synced>>

\* The process stops and a new one starts; only the database survives.
Restart ==
    /\ Fault("crash")
    /\ lastSeq' = Now /\ feed' = SentFeed /\ anchor' = Now
    /\ queue' = <<>> /\ fetch' = IdleFetch
    /\ startup' = InitStartup
    /\ permission' = Undefined
    /\ writer' = [w \in Writer |-> IdleWriter]
    /\ abilities' = NoAbilities
    /\ clearTimers' = 0
    /\ lastUpdate' = "none"
    /\ UNCHANGED <<doc, synced>>

-----------------------------------------------------------------------------
FeedStep == FeedOpen \/ FeedAnswer \/ FeedReceive
FetchStep ==
    \/ applyPermissionDeletion \/ FetchStart \/ FetchRead \/ FetchNotFound
    \/ applyUpdatedPermission
LoadStep ==
    \/ LoadRead \/ LoadValid \/ LoadDone \/ enterBootstrapMode \/ LoadInvalid
    \/ waitForNextRetry
WriterStep(w) == WriterPut(w) \/ WriterRefetch(w)

\* Everything but the requests that are served meanwhile.
UpdateNext ==
    \/ AdminEdit
    \/ FeedStep \/ FeedFail
    \/ FetchStep \/ FetchFail \/ FetchRejected
    \/ LoadStep \/ LoadFail
    \/ \E w \in Writer : WriterStep(w) \/ WriterFail(w)
    \/ ClearLocal \/ ClearLocalFail
    \/ Restart

Next == UpdateNext \/ \E u \in User : getAbilityFor(u)

Spec == Init /\ [][Next]_vars

\* The event loop runs every callback, and CouchDB answers every request that
\* does not fail.  Editors, requests and faults come as they please.
Fairness ==
    /\ WF_vars(FeedStep) /\ WF_vars(FetchStep) /\ WF_vars(LoadStep)
    /\ \A w \in Writer : WF_vars(WriterStep(w))
    /\ WF_vars(ClearLocal)

\* The same without the requests, which only fill the ability cache.
UpdateSpec == Init /\ [][UpdateNext]_vars
FairUpdateSpec == UpdateSpec /\ Fairness

-----------------------------------------------------------------------------
(***************************************************************************)
(* Properties                                                              *)
(***************************************************************************)
\* The configuration the backend should be using for given contents.
Effective(data) ==
    IF data = Absent THEN bootstrapPermissions ELSE normalizeSectionKeys(data)

\* The ability cache never serves rules of an earlier configuration: every
\* cached ability is what getRulesForUser would compute now.  The cache has no
\* expiry and relies on the permissionsChanged$ notification alone, which is
\* not sent for the first configuration.
AbilitiesCurrent ==
    \A u \in DOMAIN abilities : abilities[u] = rulesFor(u)

\* The server never listens without a configuration (the state in which
\* getRulesForUser denies everything "should be unreachable").
ServesConfigured == startup.pc = "ready" => permission # Undefined

\* The feed has reported the latest change and everything it reported has been
\* worked off.
CaughtUp ==
    /\ Up
    /\ anchor # Now /\ anchor < doc.rev
    /\ lastSeq = doc.rev
    /\ queue = <<>> /\ fetch.pc = "idle"

\* Once caught up on a document that changed after the feed was anchored, the
\* in-memory configuration is the one the document asks for; whatever the
\* startup load read, whichever answers were lost.  A deleted document means
\* the bootstrap rules.  Updates given up on, and invalid ones, are excepted.
CaughtUpMeansCurrent ==
    CaughtUp /\ lastUpdate # "dropped" /\ doc.data # Invalid
        => permission = Effective(doc.data)

\* A run of ensureManagedDefaults has just written the document.
WroteDefaults ==
    /\ doc' # doc
    /\ \E w \in Writer : writer[w].pc = "put" /\ writer'[w] # writer[w]

\* The write-back only ever replaces the current contents by those contents
\* with the managed rules merged in, although it merged into a copy it read
\* earlier: it undoes no edit and resurrects no deleted document.  It writes
\* only where something was missing, so two runs never rewrite each other.
WriteBackLosesNothing ==
    [][WroteDefaults =>
          /\ isValidRulesConfig(doc.data)
          /\ doc'.data = withManagedDefaults(doc.data)
          /\ needsManagedDefaults(doc.data)]_vars

\* Clients that synced under another configuration than the present one are
\* about to be reset: a clearLocal timer is pending.  Holds unless a clearLocal
\* fails or the process restarts.
ResyncPending ==
    startup.pc = "ready" /\ permission # synced => clearTimers > 0

\* onModuleInit returns or gives up.
StartupEnds == <>(startup.pc \in {"ready", "aborted"})

\* A change after the feed was anchored takes effect in the end.
UpdateTakesEffect ==
    <>[](anchor # Now /\ anchor < doc.rev /\ Up /\ doc.data # Invalid
            => permission = Effective(doc.data))

\* The managed rules end up in the document an administrator wrote, whichever
\* edits got in the way of the write-back.
DefaultsRestored ==
    <>[](anchor # Now /\ anchor < doc.rev /\ Up /\ isValidRulesConfig(doc.data)
            => ~ needsManagedDefaults(doc.data))

\* What the documentation of the startup says: "the live changes feed swaps in
\* the real rules" once an administrator has created the document.
FeedSwapsInRealRules ==
    <>[](startup.pc = "ready" /\ doc.data # Invalid
            => permission = Effective(doc.data))
=============================================================================

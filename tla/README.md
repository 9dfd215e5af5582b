# A TLA+ model of replication-backend

replication-backend is a NestJS proxy in front of CouchDB. PouchDB clients
replicate through it; it authenticates them (Keycloak tokens, CouchDB logins),
evaluates permission rules on every document that is read or written, filters the
`_changes` feed, and records writes in an audit database. One process serves all
requests on one event loop: everything between two `await`s is atomic, and at every
`await` (a call to CouchDB or Keycloak, a timer, a full socket) anything else may
run. That is the granularity of the modules here.

Paths below are relative to `src/src/` of the repository.

## 1. Inventory

| Component | State | Operations | Talks to |
|---|---|---|---|
| `RulesService` (`permissions/rules/rules.service.ts`) | `permission`, the configuration in memory | startup load with retries; live update and deletion; write-back of the managed defaults (`ensureManagedDefaults`); `getRulesForUser` | CouchDB (`Config:Permissions`), the change feed, `AdminService.clearLocal`, `UserIdentityService.clearCache`, `permissionsChanged$` |
| permission functions (`default-permissions.ts`, `permission.ts`) | none | legacy section keys, managed defaults, reserved sections, user variables | used by `RulesService` |
| `DocumentChangesService` (`couchdb/document-changes.service.ts`) | `lastSeq`, the longpoll under way | one longpoll after another, backoff on errors, events to subscribers | CouchDB `_changes` |
| `PermissionService` (`permissions/permission/`) | `abilityCache`, at most 1000 entries | `getAbilityFor`, `isAllowedTo`, emptied on `permissionsChanged$` | `RulesService` |
| `AdminService` (`admin/`) | none | `clearLocal`: deletes all replication checkpoints | CouchDB `_local_docs` |
| `ChangesController` (`restricted-endpoints/replication/changes/`) | per request: since, written, pending, `lostPermissions`, ability | fetch a batch, filter, write with backpressure, end or abort the response | CouchDB `_changes`, the client's socket |
| `DocumentFilterService` | prefixes from the environment | `isReplicable` | used by the changes and bulk endpoints |
| `DocumentWriteService`, `DocumentController` (`restricted-endpoints/document/`) | per request: the document read | PUT, DELETE, GET, HEAD | CouchDB, `PermissionService`, `AuditService` |
| `BulkDocumentService` and its controller (`replication/bulk-document/`) | per request: the documents read | `_bulk_docs`; filters for `_bulk_get`, `_all_docs`, `_find` | the same |
| `AuditService` (`audit/`) | which databases exist | lookup of earlier records, baseline, record | CouchDB `<db>-audit` |
| `UserIdentityService` (`permissions/user-identity/`) | cache with expiry, entity-to-user index | `resolveUser`, `clearCache`, invalidation by change events | `KeycloakUserAdminService`, CouchDB, the change feed |
| `KeycloakUserAdminService` | access token | account and roles of a user | Keycloak |
| `PermissionCheckController` | none | permission of many users for one document | `resolveUser`, `PermissionService` |
| guards, strategies, session (`auth/`, `session/`) | login cache of basic authentication, at most 1000 entries for a minute each | validate credentials, chain of guards | CouchDB `_session`, Keycloak keys |
| `CouchdbService` (`couchdb/couchdb.service.ts`) | none | all requests to CouchDB: buffered, as a stream, logins; errors to exceptions | CouchDB |
| `json-array-filter.ts` | parser position | filters a streamed JSON array | bulk read endpoints |
| `ExponentialBackoff`, error classification (`common/`) | current delay | delay, transient or not | `RulesService`, the feed |
| attachments, design documents, info endpoints | none | a check and a forwarded request | CouchDB |

What makes each correct:

* rules: requests are answered under the rules in memory and those follow the
  document; the write-back never undoes an edit; clients whose rules changed sync
  again; startup ends.
* changes: a client never misses a readable change, whatever is written,
  interrupted or repeated; limits and `pending` are exact; no request hangs.
* writes: the permission decided on a document that was read holds for the document
  that is replaced; the audit trail has every write, with the state it replaced.
* identities: what is cached is invalidated when it changes, or expires.
* resync: after a change of permissions every client ends up with what it may read.
* reads: a client gets the response without what it may not read, all of it or
  visibly not; no connection to CouchDB is left behind.
* logins: the cache is bounded, spares what is in use and forgets old passwords.

The hard behaviours are all of one sort: a value read before an `await` and used
after it (the startup document, the copy a write-back merges into, the document a
permission was decided on, the audit lookup, the user entity), combined with faults
that arrive at that moment. There is no persistent state but CouchDB's, so a crash
loses what is in memory: timers, audit records that are due, checkpoints to clear.
`PROJECT.json` lists these hazards with their lines.

## 2. Modules

```
PermissionConfig      functions on configurations (uses Subsequence)
  PermissionWriteBack the write-back applied to a configuration again and again
    PermissionWriteBackProofs
  PermissionRules     RulesService + DocumentChangesService + PermissionService's cache
    PermissionRulesProofs
ChangesFeed           what the _changes endpoint promises (abstract)
  ChangesStream       ChangesController and one replicating client; implements it
    ChangesStreamProofs
Resync                permission changes, clearLocal, checkpoints and clients
  ResyncProofs
DocumentWrite         PUT, DELETE, _bulk_docs and the audit trail of one document
  DocumentWriteProofs
UserIdentity          UserIdentityService
  PermissionCheck     PermissionCheckController, which makes the calls of UserIdentity
    PermissionCheckProofs
Subsequence           the loop that leaves out some elements of a sequence
  SubsequenceProofs   what it returns; induction over numbers
ReadFilters           which items of a read a user gets (uses Subsequence)
  JsonArrayFilter     JsonArrayFilterTransform, token by token
LoginCache            BasicAuthStrategy and CombinedAuthGuard (uses Subsequence)
  StreamedRead        extends both: a read from its authentication to its end
    StreamedReadProofs
MC*.tla, MC*.cfg      instances
```

`PROJECT.json` maps every definition to its lines. Definitions with a comment that begins
with "Mutant:" are deliberately wrong variants of the definition
after them: replacing the one by the other makes the property named in
`PROJECT.json` fail, which shows that the property depends on that code.

### PermissionConfig

A configuration is a function from section keys to a section or `NoSection`; a
section is a sequence of rules; rules are opaque. The managed rules and the rules with
the managed marker are constants, so that `mergeManagedDefaults` is "managed rules
first, then everything without the marker". `getRulesForUser` follows the code: the
public section for anonymous users, else the default section and those of the roles
that are neither reserved keys nor begin with `_` (`ReservedKeys`, `PrefixedKeys`), with
the user's variables substituted (abstractly: a pair of rule and user, so that two users
never share an ability).

PermissionWriteBack applies the write-back to one document, from every configuration an
administrator may have written, without the concurrency and the faults of PermissionRules:
it asks what the functions compute.

### PermissionRules

CouchDB's document is `doc` (revision, contents); revisions double as sequence
numbers. An HTTP exchange is split in two: the step in which CouchDB handles the
request and the step in which the process handles the answer.

| Variable | Code |
|---|---|
| `lastSeq`, `feed` | the loop of `startFeed`; `Now` is `since=now`, which gets its meaning only when CouchDB has the request (`FeedOpen`) |
| `queue`, `fetch` | `concatMap` in `watchPermissionChanges`: events wait while one is fetched, with retries |
| `startup` | `onModuleInit` / `loadInitialPermissions`; `"ready"` means the server listens |
| `permission` | the field of that name, `Undefined` before the first configuration |
| `writer` | runs of `ensureManagedDefaults`; each holds the copy it read and its attempt |
| `abilities` | `abilityCache` |
| `clearTimers` | the one-second timers set by `onPermissionsChanged` |
| `anchor`, `lastUpdate`, `synced` | history: what `since=now` came to mean, whether the latest update was given up, the configuration clients last synced under |

The actions are `FeedOpen/Answer/Receive/Fail`, `FetchStart/Read/NotFound/Fail/Rejected`
with `applyUpdatedPermission` and `applyPermissionDeletion`, `LoadRead/Valid/Done/
Invalid/Fail` with `enterBootstrapMode` and `waitForNextRetry`, `WriterPut/Refetch/Fail`,
`getAbilityFor`, `ClearLocal`, `ClearLocalFail`, `Restart`; `AdminEdit` is everybody
else who writes the document, other backends included. A PUT whose answer is lost is
`WriterPut`: either way the run ends.

### ChangesStream

A document has one entry in CouchDB's changes, at its latest sequence number. A change
has one of five kinds, which carry the verdict of the user's ability and what
`isPermitted` looks at: readable, unreadable, tombstone with and without a body,
missing body. `getPermittedChanges` is one batch: fetch, filter until the limit is full,
write. `nextBatch` and `finish` are the loop; `finish` may happen at every check
because the time budget can be over at any time. The client is external: it asks from
the `last_seq` of the last complete response, and keeps what it received. A response
that is aborted, by an upstream error or by the client's own disconnect, leaves it where
it was.

### ChangesFeed

The promise of the endpoint without its mechanics: `Respond` takes the client from its
checkpoint to some later sequence number in one step, after which it has received the
latest change of every document between the two that is due to it; of other documents it
has what it had, or a change that was replaced while the response was under way.
ChangesStream maps its variables of the same names; a batch, a drain, an abort or a
disconnect is a stuttering step, and `finish` is `Respond` (`ImplementsFeed`).

### Resync

The composition of permission changes with replication. A `_changes` response is one
step here, with the promise of ChangesFeed, but the ability it applies is the one of the
step in which the request began (`changes`). A run of `clearLocal` is a timer, a listing
and one deletion after the other, each of which may fail; an administrator's call has no
timer to wait for, which makes no difference, since a timer may fire at once. A client
reads its `_local` document at the beginning of a replication, asks, is answered, saves
its checkpoint and asks on or ends. `view` is what it holds of a document: nothing, an old
version, the latest. A response decides batch after batch, so a document that becomes
readable or unreadable meanwhile can be among its results and in its `lostPermissions`
(the violation shown by `changes_lost`): such documents are `turned`, and the client may
end without the document or with an old version of it. Four history variables make the
argument: `clean` (everything up to the client's `since` was received under the present
rules), `localClean` (the same of its saved checkpoint), `missed` (a client for which
`clearLocal` came at a wrong time) and `mixed` (the documents that were turned in the
response that settled them).
All clients belong to one user; rules are the set of kinds that user may read.

### DocumentWrite

One document with its revision tree, in which CouchDB keeps conflicting branches
(`leaves`, `winner`); two fields, of which rules look at `key`, and `TextOnly[u]` says
where a user's update rule names fields. A request goes `read` (with the permission
check on what was read), `write` (CouchDB compares revisions), `lookup` (is this the
first audit record?), `post`. A `_bulk_docs` request is modelled by what it does to the
one document; `"bulk"` has `new_edits` true, `"push"` false. In the read step the
answer and its handling are one step: between the two the process only sends the next
request, and whatever happens meanwhile in CouchDB can as well happen after it. A push of
a revision that CouchDB has already is left out (PouchDB asks `_revs_diff` first).

A record's `before` is the document its diff starts from, which the code's record does
not name; `overtook` is history: the record was the first of a document that was deleted
and created anew while changes of the earlier one had yet to look for a record.

### UserIdentity

Roles (in Keycloak) and projects (in the user's entity) are version numbers. A call of
`resolveUser` asks for the account, reads the entity and stores both; the last two are
separate steps. `ttl` counts the ticks an entry has left. Edits of an entity are
announced by the feed, edits of roles by nobody; roles 0 is a deleted account.

### PermissionCheck

Extends UserIdentity by its only caller. A request passes validation, reads the target
document and then starts the lookup of all its users in one step: hits are decided at
once, misses become calls. A call that ends settles its user's result: decided,
`NOT_FOUND`, `ERROR` (neither an HTTP nor a network error); any other failure fails the
request (`failBatch`), while the other calls go on and fill the cache. `NOT_FOUND` is
what the code makes of every 400 and 404 of Keycloak: of an account that is gone
(`reportNotFound`), and of any other request the lookup makes, for the token, the account
or its roles, in which case the account exists (`reportRejected`). `respond` is the
fulfilled `Promise.all`.

### ReadFilters, JsonArrayFilter

`JsonArrayFilterTransform` as a function from its state and a token to its next state,
written after `processToken`: the modes, the pending key, the two comma flags, the value
that is being assembled and its depth are fields of a record, and so is what was pushed.
Text is tokens: what the code serialises is the sequence of the tokens it was assembled
from. `Document` says what may arrive, as members, the items of the array and values with
their brackets balanced, and `Tokens` in which tokens; `Filtered` says, from the members
instead of the tokens, what should come out. A string value stands for a document by what the filters ask of it.

### LoginCache, StreamedRead

`validate` is split at its `await`: the lookup in the cache (`validate`), CouchDB's
decision (`decideLogin`, at a moment of its own, between which and the answer the password
may change), and `storeLogin`. The cache is a sequence in the order of insertion of a
`Map`, in which setting a key that is present keeps its place. `authenticateViaGuards` is
the rest of the chain: the user of a valid token, or else nobody or a 401.

A read then asks CouchDB (`requestStream`), and either streams (`streamFiltered`: `transform`
feeds a token to the filter, `forwardToResponse` sends a piece, at most `HighWaterMark`
pieces lie between them) or reads the body of an error (`readErrorChunk`, `errorBodyEnd`,
`errorBodyTimeout`). `failRead` is the handler's catch: an error status while nothing was
sent, else the connection is cut. `stream.pipeline` is external: it destroys the source
when a later stream fails or is destroyed. `ClientLeaves` is a disconnect before anybody
listens for one: afterwards Node gives the response no `close` event and refuses writes
to it without an error, so that nothing is forwarded and nothing ends.

A behaviour has one of two workloads: one slot that streams, with one login, or two slots
with logins for two users and old and new passwords. They share every definition, and
the choice keeps the states of one from being multiplied with those of the other.

## 3. Runs

| Run | Shows |
|---|---|
| `config` | `WriteBackSettles`, `WriteBackKeepsAdminPart` for every configuration with default sections of up to two rules in both spellings |
| `rules` | `AbilitiesCurrent`, `ServesConfigured`, `TypeOK` with all kinds of faults, crashes and requests of three users |
| `rules_updates` | `CaughtUpMeansCurrent`, `WriteBackLosesNothing`, `ResyncPending`, and the liveness properties `StartupEnds`, `UpdateTakesEffect`, `DefaultsRestored` |
| `rules_feed` | violation of `FeedSwapsInRealRules` |
| `changes` | `NothingSkipped`, `BatchNumbers`, `TypeOK`, the refinement `ImplementsFeed`, and the liveness properties `RequestsEnd`, `ClientCatchesUp` |
| `changes_lost` | violation of `LostAreUnreadable` |
| `write` | `ReplacedWithPermission`, `FieldsKept`, `DiffAgainstReplaced`, `AuditComplete`, `HistoryKept`, `TypeOK` with all kinds of requests and faults; conflicting branches occur, and are left out by the first three properties |
| `write_read_failure` | violation of `UpdateNeedsPermission` when a read fails |
| `check` | `IndexCovers`, `NotFoundIsTrue`, `CheckTypeOK`, and the liveness properties `StalenessEnds`, `ChecksEnd` |
| `resync` | `CleanIsExact`, `NoOldCheckpoint`, `TypeOK`, and the liveness property `NotMissedResyncs`, with all kinds of faults |
| `resync_race` | violation of `EveryClientResyncs` without any fault |
| `reads` | `CacheBounded`, `EvictionSparesLive`, `FilteredAnswer`, `SourceReleased`, `ReadTypeOK`, and the liveness properties `OldPasswordEnds`, `ReadsEnd` |

The properties of `write` hold for the histories their definitions name:

* `ReplacedWithPermission`, `FieldsKept` and `DiffAgainstReplaced` where no read has failed
  and no two revisions follow the same one (`Linear`). Pushes are among these histories,
  conflicting branches are not: with a branch, a PUT, DELETE or push that replaces another
  leaf than CouchDB's winner is checked on the winner, merged into it and recorded as a
  difference to it. `write_read_failure` is the first one without its condition, with a
  read that fails.
* `AuditComplete` without a failing write, audit post or crash.
* `HistoryKept`, branches included, without a fault, and where no record overtook the
  first changes (see below).

In `check`, `NotFoundIsTrue` excepts lookups that Keycloak rejected; in `resync`,
`CleanIsExact` and `NotMissedResyncs` except the documents one response both sent and
reported lost.

Each property is stated in words above its definition.

### Disagreements found

* **A permission document created early is missed** (`rules_feed`). The longpoll starts
  at `since=now`. A document created after the startup load got its 404 and before
  CouchDB has the longpoll request is never reported; the bootstrap rules stay until the
  next edit or restart, although README and comments promise that the feed swaps the
  real rules in.
* **A readable document reported as lost** (`changes_lost`). `lostPermissions`
  accumulates over the batches of one response. A document that is unreadable in one
  batch and rewritten before the next is both sent and reported lost.
* **A failed read is taken for a missing document** (`write_read_failure`). Any error of
  the GET before a PUT leads to the check of the create rule on the submitted document.
* **Clients that are replicating miss a clearLocal** (`resync_race`). A replication reads
  its checkpoint once. A client whose `since` or whose response under way is from before
  the permission change goes on from there and saves its checkpoint after `clearLocal`
  deleted it, so documents below it that it gained are never fetched, and documents it
  lost stay; the README says that each client fetches all it has gained. `resync` shows
  that this and failed deletions are the only ways to be missed (`NoOldCheckpoint`), and
  that a checkpoint written between the listing and the deletion is none.

Further observations, which no run checks:

* Two overlapping first changes of an entity: when the second is recorded first, the
  first finds its record and emits no baseline (`audit/audit.service.ts:277`). The state
  before auditing is then not recorded as such, but it can be told from the differences,
  with the baseline of the second: `HistoryKept`. Not so when an entity from before auditing
  is deleted and created anew, and the creation is recorded before the deletion looks for
  a record: the creation is all the trail begins with, and the state from before is lost,
  against README 117-120 ("so history is not lost when the feature is switched on").
* A 400 or 404 of the token or roles request, of a wrong realm or of a proxy, is reported as
  `NOT_FOUND` for a user who exists
  (`permissions/permission-check/permission-check.controller.ts:169-175`).
* An entity that changes while `resolveUser` reads it is cached in its old state after
  the event was handled (`user-identity.service.ts:91`); `StalenessEnds` bounds it.
* A client that leaves while CouchDB has not yet answered a read: `forwardToResponse`
  listens for a `close` event that is over, so the read never ends and, for a response
  larger than the buffers, its connection, one of the pool's 50, stays open until
  CouchDB closes it (`bulk-doc-endpoints.controller.ts:301`). `ReadsEnd` leaves these
  reads out.
* A CouchDB outage during a login is taken for a wrong password and the request is served
  as anonymous (`combined-auth.guard.ts:62`).
* A login that CouchDB accepted just before a password change is cached for a full
  minute after it (`OldPasswordEnds` says that it ends).
* When two logins with the same credentials overlap and the cache is full, the second
  evicts an entry although it needs no room.
* A 401 or 403 during the startup load is retried for a minute like a network error,
  where the README says that startup is aborted.
* `If-Match` has no effect on a PUT by a user whose rule names fields.

### Bounds, and why they are enough

* Rules: two write-back runs (the one at startup and one at a time for live updates; a
  third would wait behind a conflict like the second), two attempts in `rules` and the
  code's three in `rules_updates`, the code's three fetch retries with three faults in
  `rules_updates`, so that every retry can be used up, edits up to the second revision
  with write-backs beyond, an ability cache of two for three users, so that it
  overflows. Two startup attempts: one that fails and one after it.
* Changes: batches of at most two with limits one, two and nine give a batch that is cut
  off by the limit, one that fits exactly and a response of several batches; four writes
  on three documents leave room for a rewrite between two batches. `design` is a
  document that is not replicable. The kinds written are readable, unreadable and
  missing, one for each verdict: `isPermitted` puts both tombstones with the readable
  ones, and nothing else looks at the kind.
* Writes: two requests at a time, three revisions: the one from before, one in between
  and one that meets it. Two kinds of documents and two users who may each change what
  the other may not: a permitted, a field-restricted and a forbidden update, and a
  request of either user that changes the kind between another's check and its write.
  Two faults of different kinds, such as a crash after a failed lookup.
* Permission checks: two requests for up to two users each, so that one user is looked up
  twice at the same time and one lookup of two fails; one edit, one fault, an expiry of
  one tick.
* Resync: one client, since clients of one user meet only in `clearLocal`, whose
  deletions are independent; two documents, of which one can be gained and one lost
  in the same change; two runs of `clearLocal`, so that they overlap; three writes and
  one fault of any kind.
* Reads: a cache of three with four pairs of credentials and two requests at a time: it
  fills up, an entry that was set again in its place is older than an expired one,
  and both requests log in at once. Responses with up to three items, dropped, kept
  and changed at the beginning, in the middle and at the end, members before and after
  the array, nested values, a root that is no object; a buffer of three pieces, smaller
  than each response.

`CHECK_DEADLOCK FALSE` is used where the model stops at a bound (revisions in
DocumentWrite), where the server really may stop (startup aborted, in
PermissionRules), and where the end is the point (a configuration that needs no
write-back), and in StreamedRead for the read that never ends.

No symmetry is used in runs with liveness properties; the DocumentWrite runs exchange
the two request slots.

### Fairness

Weak fairness on the process's own steps: Node's event loop runs every callback that is
due, and HTTP requests are answered or fail (`FeedStep`, `FetchStep`, `LoadStep`,
`WriterStep`, `ClearLocal`; `Serve`; `LookupStep`, `loadCanonicalEntityDoc`, `respond`, the
delivery of feed events, `Tick`).
In ChangesStream `drain` is part of `Serve`: a client that stays connected reads what it
is sent; one that stops reading without closing is cut by TCP, which is `Disconnect`.
`changes` is fair because a live replication asks again after every response. In Resync
timers fire and clients replicate again and again. In StreamedRead CouchDB goes on with a
response it began (the timeout of the HTTP client is for the wait until a response
begins, not for the body of a stream; TCP ends a dead connection, which is
`SourceFail`), a client reads or leaves, but the body of an error may stall for ever:
only the timer is fair there. Edits, requests, disconnects and faults are never fair, and faults are finite in number, so
liveness says what happens once they stop.

`UpdateTakesEffect` and `DefaultsRestored` are about changes after the feed was anchored
(see `rules_feed`), and hold while no more than the retries' number of fetches fails;
a rejected fetch (a non-transient error) drops an update, which the run leaves out and
`CaughtUpMeansCurrent` excepts.

## 4. Proofs

`PermissionRulesProofs` proves for every set of rules, sections, users, edit contents
and write-back runs, every cache size, number of retries and number of faults:

| Theorem | States | Rests on |
|---|---|---|
| `TypeCorrect` | `Spec => []TypeOK` | `Typed`: types, and a run that is about to write holds a valid configuration |
| `AbilitiesAlwaysCurrent` | `Spec => []AbilitiesCurrent` | `AbilitiesInv`: with it, no ability is cached before startup is over, which is why the first configuration needs no notification |
| `AlwaysServesConfigured` | `Spec => []ServesConfigured` | `AbilitiesInv` |
| `WriteBackSafe` | `Spec => WriteBackLosesNothing` | `CopiesInv`: every copy in memory (of a run, of a fetch, of the startup load) is no newer than the document, and one with the document's revision has its contents. CouchDB's revision check then does the rest |
| `CaughtUpAlwaysCurrent` | `Spec => []CaughtUpMeansCurrent` | `RequestInv` (what the longpoll under way knows) and `PendingInv`: of a document that changed after the anchor, either the configuration in memory is its configuration, or the change is still to be reported, is the last event in the queue, or is being fetched |
| `ResyncAlwaysPending` | `ResyncPending`, where neither `"clear"` nor `"crash"` faults happen | `ResyncInv` |

Assumptions: `RuleAssumption` and `MergeAssumption` (sections are closed under the
merge, as all sequences of rules are), `DataAssumption` (the special contents are
different from configurations), `BoundAssumption`. TLC evaluates them on every run.

`ResyncProofs` proves for every set of clients, documents, kinds and rules, every number
of writes, runs of `clearLocal` and faults:

| Theorem | States | Rests on |
|---|---|---|
| `TypeCorrect` | `Spec => []TypeOK` | itself |
| `CleanAlwaysExact` | `Spec => []CleanIsExact` | `ExactInv`: with it, sequence numbers are bounded by the database's and a checkpoint is never ahead of its session (`SeqInv`), and a clean request has the ability of the present rules (`AbilityInv`), without which a response could add what the rules no longer allow. The documents in `mixed` are excepted, by the property and the proof |
| `NoOldCheckpointLeft` | `Spec => []NoOldCheckpoint` | `CheckpointInv`: every single client was missed, is up to date, or is still due in some run; and who has no checkpoint is clean. The property itself speaks of all runs at once and says nothing while one is due |

Assumption: `ResyncAssumption`. The theorems are the positive side of `resync_race`: they
say exactly which clients the race can leave behind.

`PermissionCheckProofs` proves for every set of users, entities and requests, every
lifetime of entries and every number of edits and faults:

| Theorem | States | Rests on |
|---|---|---|
| `CheckTypeCorrect` | `CheckSpec => []CheckTypeOK` | `Typed`: with it, a lookup under way is for the user of its name and its request has failed or waits for that user (`LookupInv`): a late answer never meets the slot's next request |
| `IndexAlwaysCovers` | `CheckSpec => []IndexCovers` | `Typed` |
| `NotFoundAlwaysTrue` | `CheckSpec => []NotFoundIsTrue` | `Typed`, and that a deleted account does not come back. A lookup is known to be rejected by the request it belongs to and no other |

Assumptions: `IdentityAssumption`, `CheckAssumption`, and `OneUserPerEntity`, which only
`IndexAlwaysCovers` needs: were an entity linked to two accounts, `entityNameIndex` would
keep the one resolved last, and a change of the entity would leave the other in the cache
until it expires.

`ChangesStreamProofs` proves for every finite set of documents, every set of kinds, limits
and batch sizes, every number of writes and faults:

| Theorem | States | Rests on |
|---|---|---|
| `TypeCorrect` | `Spec => []TypeOK` | `StreamInv` |
| `NothingEverSkipped` | `Spec => []NothingSkipped` | `StreamInv`: every write has a sequence number of its own (`SeqInv`), so that the cut-off of a batch at the limit is between two changes; a request that fetches has room left (`written < limit`); and `Covered`, which is `NothingSkipped` for every request under way, before a batch as well as after one |
| `BatchNumbersRight` | `Spec => BatchNumbers` | `StreamInv` and counting: a batch that is cut off ends at the change that fills the limit |
| `StreamImplementsFeed` | `Spec => ImplementsFeed` | `Covered`, and `Sent`: whatever a response has sent is of a replicable document, lies between its beginning and its `since`, and was permitted if it is still the latest. With both, `finish` is `Respond` of ChangesFeed, and every other step is `Write` or a stuttering step |

Assumption: `ChangesAssumption`, which has no `limit` 0 (see section 5).

`DocumentWriteProofs` proves for every number of concurrent requests, every set of users,
keys and rules and every bound on revisions and faults:

| Theorem | States | Rests on |
|---|---|---|
| `TypeCorrect` | `Spec => []TypeOK` | `TreeInv` (revision numbers are distinct and consecutive) and `RefInv` (requests and records name revisions that exist): a DELETE writes the body of the revision it names |
| `PermissionOnReplaced` | `Spec => []ReplacedWithPermission` | `CheckInv`: what a request is about to write was checked and merged against the revision it has read; `TreeLinear`: without branches there is one leaf, whether its revisions were put or pushed; and `RequestLinear`: a request that can still replace the live leaf has read that leaf. CouchDB's revision check then makes "read" and "replaced" the same |
| `FieldsAlwaysKept` | `Spec => []FieldsKept` | the same |
| `DiffsAgainstReplaced` | `Spec => []DiffAgainstReplaced` | the same, with the half of `RequestLinear` about requests that have written and are about to record |
| `AuditAlwaysComplete` | `Spec => []AuditComplete` | itself, with `TypeOK` and `TreeInv`: a new revision's number is not that of a record of an earlier one |
| `HistoryAlwaysKept` | `Spec => []HistoryKept` | `TrailInv`, which speaks of sets of revisions that no recorded difference leads into or out of: each contains the state from before auditing or a revision that was created (`Begun`), and, once there is a record, the first also contains a state that is held in full (`Anchored`), since its first change was made by a request that had read it (`FirstChange`) and posts the baseline or has found a record (`Lookup`). When all have ended, what follows from the full states is everything |

The inductive invariant is `WriteInv`, the conjunction of all these. It names revisions and
never `Get`, the `CHOOSE` of the model; `GetRev` shows that `Get` finds the revision meant.
Assumption: `WriteAssumption`.

`StreamedReadProofs` proves for every set of users, slots and workloads, every set of
documents and rules, every size and lifetime of the cache and every buffer:

| Theorem | States | Rests on |
|---|---|---|
| `TypeCorrect` | `Spec => []ReadTypeOK` | `ReadInv`: the transform has a key in hand when it waits for a value, and is inside of brackets when it assembles one (`IsFilter`); nothing is sent before CouchDB's response is there |
| `CacheStaysBounded` | `Spec => []CacheBounded` | `CacheInv`: the cache is a sequence without a key twice; eviction makes room for one entry, and setting a key that is present adds none |
| `SourcesReleased` | `Spec => []SourceReleased` | `SlotInv`: CouchDB's response is under way only while the request is being answered |
| `EvictionAlwaysSparesLive` | `Spec => EvictionSparesLive` | `CacheInv`, and what `evictIfNeeded` leaves of any cache |
| `FeedsDocument` | the transform over the tokens of any document that is an object ends done, with `Filtered` of the document written | `FeedsValue`, `FeedsItems`, `FeedsMembers`: a value, the items of the array and the members, each by induction over its parts |
| `AnswersAreFiltered` | `Spec => []FilteredAnswer` | `AnswerInv`, with `FeedsDocument` |

`FilteredAnswer` compares what was sent with the filtered document, and the steps between
are single tokens. `Feeds(f, s, k, h)` says that the tokens of `s` after the first `k` take
the transform from `f` to `h`. The lemmas built on it go up from a token to a value (inside,
`valueDepth` is the nesting of what was read, so that a value is complete at its last token
and not before), to the items of the array (what is written of them is `join` of what was
written before and the mapped item, which is why `firstItem` must go by the items written),
to the members, to the document. `AnswerInv` is not about what was read but about what is
left: while CouchDB's response is open, the rest of its tokens leads to the filtered document
(`Rest`). A step then only has to take one token from the rest. What is written stays
(`Grows`), so what is there at any moment is the first part of what will be; and a transform
that is done has no tokens left, since one more would be an error.

Assumptions: `LoginAssumption`, `FilterAssumption`, `ReadersAssumption` and
`StreamAssumption`, with CouchDB's responses in `Document`: JSON of any nesting, the
root an object whose keys are not empty, or no object. That they break off or are no JSON
at any token is `sourceEnd` and `SourceFail`, which the theorems cover.

`PermissionWriteBackProofs` proves for every set of rules, sections, roles and users and
every list of managed rules:

| Theorem | States | Rests on |
|---|---|---|
| `SettlesAtOnce` | `Spec => WriteBackSettles` | `MergeIdempotent`: a merge after a merge changes nothing, since no managed rule is taken for one of an administrator |
| `AdminPartKept` | `Spec => WriteBackKeepsAdminPart` | `MergeKeepsAdminRules`: of a merged section the same rules of administrators are left, in the same order |

Assumptions: `RuleAssumption` (the managed rules carry the marker, which is what makes
the merge idempotent), `MergeAssumption`, `ContentsAssumption`.

What the loops over sections, the cache and items return is a statement about every sequence.
It is proved in `SubsequenceProofs`: the induction is over numbers, by the least number for
which the statement fails, and speaks of the set of numbers for which it holds, since a set
can be instantiated where an operator cannot. `Recursion` says that a function defined by
recursion over numbers exists, for any step; with it the loops of `FlattenSeq`, `Separated`
and `nesting` are equations that hold of the functions chosen. `Only` is the loop as a
recursive function; `SelectSeq` of the library would say the same to TLC and nothing to
the prover.

Only model-checked are the liveness properties (`StartupEnds`, `UpdateTakesEffect`,
`DefaultsRestored`, `RequestsEnd`, `ClientCatchesUp`, `StalenessEnds`, `ChecksEnd`,
`NotMissedResyncs`, `OldPasswordEnds`, `ReadsEnd`): they need fairness and `ENABLED`.
Every safety invariant, action property and refinement that the passing runs check is
stated by a theorem.

## 5. Not modelled

Token validation (done by libraries), cookies, the buffered requests of CouchdbService,
logging, Sentry, configuration; GET, HEAD, attachments and the forwarded
design-document and info requests, which keep no state. Delays have no length: a backoff
is a step that may come at any later time. Requests with `limit=0` are outside
ChangesStream: CouchDB answers them with one change, which the code counts as pending and
does not send, while the `last_seq` it answers is already after it. Several revisions of
one document in one `_bulk_docs` request, the contents of audit diffs and the token cache of `KeycloakUserAdminService` are abstracted.

## 6. Plan

1. The token cache of `KeycloakUserAdminService`, on top of UserIdentity: a token that
   expires between two requests.
2. Attachments with the app-attachments branch of `isAllowedTo`: the entity is read, and
   read again, before the attachment is written.
3. DocumentWrite: several revisions of a document in one request and the indexing of
   CouchDB's answer by id.
4. The arithmetic of the backoff.

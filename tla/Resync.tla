------------------------------- MODULE Resync -------------------------------
(***************************************************************************)
(* What a change of the permissions does to clients that replicate: the      *)
(* rules in memory change (RulesService), a second later AdminService        *)
(* deletes the replication checkpoints (_local documents), and clients       *)
(* (external) find no checkpoint and sync from the start.  Meanwhile their   *)
(* _changes requests go on, each with the ability it began with, and they    *)
(* write checkpoints.                                                        *)
(*                                                                         *)
(* A _changes response is one step here, with the promise of ChangesFeed,    *)
(* which ChangesStream keeps.  All clients belong to one user; the rules are *)
(* the kinds of documents that user may read.                               *)
(***************************************************************************)
EXTENDS Naturals, FiniteSets

CONSTANTS
    Client,         \* replicating clients, each with its _local document
    DocId,
    Kind,           \* the kinds of documents that rules tell apart
    RuleSets,       \* the configurations: sets of readable kinds
    Clears,         \* bound: runs of clearLocal in one behaviour
    FaultKinds,     \* the kinds of faults that happen
    MaxSeq,         \* bound: writes
    MaxFaults       \* bound: faults

ASSUME ResyncAssumption ==
    /\ RuleSets \subseteq SUBSET Kind
    /\ FaultKinds \subseteq {"request", "list", "delete", "crash"}
    /\ MaxSeq \in Nat /\ MaxFaults \in Nat

VARIABLES
    updateSeq,      \* the database's update sequence
    docs,           \* the latest change of every document; seq 0 for none
    rules,          \* the configuration in memory
    clears,         \* runs of clearLocal, with the ids still to be deleted
    local,          \* last_seq in the _local document of a client; 0 for none
    client,         \* the clients and the requests they wait for
    view,           \* what a client holds of a document
    mixed,          \* history: documents that a client's response may have sent
                    \* and reported lost
    clean,          \* history: is it complete under the rules up to its since?
    localClean,     \* history: was its checkpoint, too?
    missed,         \* history: clients that clearLocal came at a wrong time for
    faults

database == <<updateSeq, docs>>
held == <<view, mixed>>
vars == <<database, rules, clears, local, client, held, clean, localClean,
          missed, faults>>

-----------------------------------------------------------------------------
Copy == {"none", "old", "latest"}
Unused == [pc |-> "unused", ids |-> {}]
Offline == [pc |-> "offline", since |-> 0, ability |-> {}, turned |-> {}]

TypeOK ==
    /\ updateSeq \in Nat
    /\ docs \in [DocId -> [seq : Nat, kind : Kind]]
    /\ rules \in SUBSET Kind
    /\ clears \in [Clears -> [pc : {"unused", "timer", "deleting"},
                              ids : SUBSET Client]]
    /\ local \in [Client -> Nat]
    /\ client \in [Client -> [pc : {"offline", "session", "request", "save"},
                              since : Nat, ability : SUBSET Kind,
                              turned : SUBSET DocId]]
    /\ view \in [Client -> [DocId -> Copy]]
    /\ mixed \in [Client -> SUBSET DocId]
    /\ clean \in [Client -> BOOLEAN]
    /\ localClean \in [Client -> BOOLEAN]
    /\ missed \in [Client -> BOOLEAN]
    /\ faults \in Nat

Init ==
    /\ updateSeq = 0
    /\ \E k \in Kind : docs = [d \in DocId |-> [seq |-> 0, kind |-> k]]
    /\ rules \in RuleSets
    /\ clears = [n \in Clears |-> Unused]
    /\ local = [c \in Client |-> 0]
    /\ client = [c \in Client |-> Offline]
    /\ view = [c \in Client |-> [d \in DocId |-> "none"]]
    /\ mixed = [c \in Client |-> {}]
    /\ clean = [c \in Client |-> TRUE]
    /\ localClean = [c \in Client |-> TRUE]
    /\ missed = [c \in Client |-> FALSE]
    /\ faults = 0

Fault(kind) ==
    kind \in FaultKinds /\ faults < MaxFaults /\ faults' = faults + 1

\* d, which the request of client c has to report and may have reported, becomes
\* readable or unreadable under the request's ability.
Turns(c, d, kind) ==
    /\ client[c].pc = "request" /\ client[c].since < docs[d].seq
    /\ (docs[d].kind \in client[c].ability) # (kind \in client[c].ability)

\* Someone writes a document: what clients hold of it is no longer the latest.
Write ==
    /\ updateSeq < MaxSeq
    /\ updateSeq' = updateSeq + 1
    /\ \E d \in DocId, k \in Kind :
          /\ docs' = [docs EXCEPT ![d] = [seq |-> updateSeq + 1, kind |-> k]]
          /\ view' = [c \in Client |-> [view[c] EXCEPT ![d] =
                        IF @ = "none" THEN "none" ELSE "old"]]
          /\ client' = [c \in Client |-> [client[c] EXCEPT !.turned =
                          IF Turns(c, d, k) THEN @ \cup {d} ELSE @]]
    /\ UNCHANGED <<rules, clears, local, mixed, clean, localClean, missed,
                   faults>>

-----------------------------------------------------------------------------
(***************************************************************************)
(* Permission changes and clearLocal                                        *)
(***************************************************************************)
\* Nothing was received yet, nor is: that is complete under any rules.
Untouched(c) == client[c].pc # "request" /\ client[c].since = 0

\* Mutant: a timer that was set once is taken for pending for ever.
onPermissionsChangedOnce(n) ==
    /\ clears[n].pc = "unused"
    /\ rules' \in RuleSets \ {rules}
    /\ clears' = [clears EXCEPT ![n].pc =
          IF \E m \in Clears : clears[m] # Unused THEN "deleting" ELSE "timer"]
    /\ clean' = [c \in Client |-> Untouched(c)]
    /\ localClean' = [c \in Client |-> local[c] = 0]
    /\ UNCHANGED <<database, local, client, held, missed, faults>>

\* The configuration changes: requests from now on get new abilities, and the
\* timer for clearLocal is set.
onPermissionsChanged(n) ==
    /\ clears[n].pc = "unused"
    /\ rules' \in RuleSets \ {rules}
    /\ clears' = [clears EXCEPT ![n].pc = "timer"]
    /\ clean' = [c \in Client |-> Untouched(c)]
    /\ localClean' = [c \in Client |-> local[c] = 0]
    /\ UNCHANGED <<database, local, client, held, missed, faults>>

\* An administrator calls POST /admin/clear_local, which does not wait.
adminClearLocal(n) ==
    /\ clears[n].pc = "unused"
    /\ clears' = [clears EXCEPT ![n].pc = "timer"]
    /\ UNCHANGED <<database, rules, local, client, held, clean, localClean,
                   missed, faults>>

\* A session that goes on with what it received under earlier rules.
Outdated(c) == client[c].pc # "offline" /\ ~ clean[c]

\* Mutant: CouchDB's own _local documents are not left out.
listAllLocalDocs(n) ==
    /\ clears[n].pc = "timer"
    /\ clears' = [clears EXCEPT ![n] =
          [pc |-> "deleting",
           ids |-> {c \in Client : local[c] # 0} \cup {"shard-sync"}]]
    /\ UNCHANGED <<database, rules, local, client, held, clean, localClean,
                   missed, faults>>

\* clearLocal asks CouchDB for the ids of the _local documents.
listLocalDocs(n) ==
    /\ clears[n].pc = "timer"
    /\ clears' = [clears EXCEPT ![n] =
          [pc |-> "deleting", ids |-> {c \in Client : local[c] # 0}]]
    /\ missed' = [c \in Client |->
          IF local[c] = 0 THEN Outdated(c) ELSE missed[c]]
    /\ UNCHANGED <<database, rules, local, client, held, clean, localClean,
                   faults>>

\* The request for the ids fails and with it the whole run.
ListFail(n) ==
    /\ clears[n].pc = "timer"
    /\ Fault("list")
    /\ clears' = [clears EXCEPT ![n].pc = "deleting"]
    /\ missed' = [c \in Client |-> TRUE]
    /\ UNCHANGED <<database, rules, local, client, held, clean, localClean>>

\* One of the deletions that were sent all at once.
deleteLocalDoc(n, c) ==
    /\ clears[n].pc = "deleting" /\ c \in clears[n].ids
    /\ clears' = [clears EXCEPT ![n].ids = @ \ {c}]
    /\ local' = [local EXCEPT ![c] = 0]
    /\ localClean' = [localClean EXCEPT ![c] = TRUE]
    /\ missed' = [missed EXCEPT ![c] = Outdated(c)]
    /\ UNCHANGED <<database, rules, client, held, clean, faults>>

\* One deletion fails; the others go on, nothing is tried again.
DeleteFail(n, c) ==
    /\ clears[n].pc = "deleting" /\ c \in clears[n].ids
    /\ Fault("delete")
    /\ clears' = [clears EXCEPT ![n].ids = @ \ {c}]
    /\ missed' = [missed EXCEPT ![c] = TRUE]
    /\ UNCHANGED <<database, rules, local, client, held, clean, localClean>>

\* The process ends: timers and deletions are forgotten, requests are cut off.
Crash ==
    /\ Fault("crash")
    /\ clears' = [n \in Clears |->
          IF clears[n].pc = "unused" THEN Unused
          ELSE [pc |-> "deleting", ids |-> {}]]
    /\ client' = [c \in Client |-> Offline]
    /\ missed' = [c \in Client |-> TRUE]
    /\ UNCHANGED <<database, rules, local, held, clean, localClean>>

-----------------------------------------------------------------------------
(***************************************************************************)
(* Clients                                                                  *)
(***************************************************************************)
\* A client starts a replication with its checkpoint, or from 0 without one.
getLocalDoc(c) ==
    /\ client[c].pc = "offline"
    /\ client' = [client EXCEPT ![c] =
          [Offline EXCEPT !.pc = "session", !.since = local[c]]]
    /\ clean' = [clean EXCEPT ![c] = localClean[c] \/ local[c] = 0]
    /\ UNCHANGED <<database, rules, clears, local, held, localClean,
                   missed, faults>>

\* Mutant: the abilities of a user are not renewed when permissions change.
changesWithAnyAbility(c) ==
    /\ client[c].pc = "session"
    /\ \E r \in RuleSets :
          client' = [client EXCEPT ![c].pc = "request", ![c].ability = r]
    /\ UNCHANGED <<database, rules, clears, local, held, clean, localClean,
                   missed, faults>>

\* A _changes request begins and keeps the ability of this moment to its end.
changes(c) ==
    /\ client[c].pc = "session"
    /\ client' = [client EXCEPT ![c].pc = "request", ![c].ability = rules]
    /\ UNCHANGED <<database, rules, clears, local, held, clean, localClean,
                   missed, faults>>

\* Mutant: documents that may not be read are left out without a word.
copiesWithoutLost(c, d, n) ==
    IF docs[d].seq <= client[c].since THEN {view[c][d]}
    ELSE IF docs[d].seq > n THEN {view[c][d], "old"}
    ELSE {IF docs[d].kind \in client[c].ability THEN "latest" ELSE view[c][d]}

\* What a response up to n makes of the client's copy of d.  A document whose
\* latest change is later may have been sent or reported lost in an earlier
\* version; one that may not be read is purged.  A document that turned between
\* two batches can be among the results and in lostPermissions: which of the two
\* has the last word is up to the client.
copies(c, d, n) ==
    IF docs[d].seq <= client[c].since THEN {view[c][d]}
    ELSE IF docs[d].seq > n THEN {view[c][d], "old", "none"}
    ELSE IF docs[d].kind \in client[c].ability
         THEN IF d \in client[c].turned THEN {"latest", "none"} ELSE {"latest"}
         ELSE IF d \in client[c].turned THEN {"old", "none"} ELSE {"none"}

\* The documents up to n that one response both sent and reported lost.
mixedUpTo(c, n) ==
    {d \in DocId : IF docs[d].seq <= client[c].since THEN d \in mixed[c]
                   ELSE docs[d].seq <= n /\ d \in client[c].turned}

\* A response ends, at the end of the changes or before (limit, time budget).
respond(c) ==
    /\ client[c].pc = "request"
    /\ \E n \in client[c].since .. updateSeq :
          /\ client[c].since < updateSeq => client[c].since < n
          /\ client' = [client EXCEPT ![c].pc = "save", ![c].since = n,
                                      ![c].turned = {}]
          /\ mixed' = [mixed EXCEPT ![c] = mixedUpTo(c, n)]
          /\ \E v \in [DocId -> Copy] :
                /\ \A d \in DocId : v[d] \in copies(c, d, n)
                /\ view' = [view EXCEPT ![c] = v]
    /\ UNCHANGED <<database, rules, clears, local, clean, localClean, missed,
                   faults>>

\* The client saves its checkpoint and asks on, or ends the replication.
putLocalDoc(c) ==
    /\ client[c].pc = "save"
    /\ local' = [local EXCEPT ![c] = client[c].since]
    /\ localClean' = [localClean EXCEPT ![c] =
          clean[c] \/ client[c].since = 0]
    /\ \/ client' = [client EXCEPT ![c].pc = "session"]
       \/ client' = [client EXCEPT ![c] = Offline]
    /\ UNCHANGED <<database, rules, clears, held, clean, missed, faults>>

\* A request of the client fails, or the client is closed.
Stop(c) ==
    /\ client[c].pc # "offline"
    /\ Fault("request")
    /\ client' = [client EXCEPT ![c] = Offline]
    /\ UNCHANGED <<database, rules, clears, local, held, clean, localClean,
                   missed>>

-----------------------------------------------------------------------------
ClearStep ==
    \E n \in Clears :
        listLocalDocs(n) \/ \E c \in Client : deleteLocalDoc(n, c)

ClientStep(c) == getLocalDoc(c) \/ changes(c) \/ respond(c) \/ putLocalDoc(c)

Next ==
    \/ Write
    \/ \E n \in Clears :
          \/ onPermissionsChanged(n) \/ adminClearLocal(n)
          \/ ListFail(n) \/ \E c \in Client : DeleteFail(n, c)
    \/ ClearStep
    \/ \E c \in Client : ClientStep(c) \/ Stop(c)
    \/ Crash

Spec == Init /\ [][Next]_vars

\* Timers fire, CouchDB answers, and clients replicate again and again.
FairSpec ==
    /\ Spec
    /\ WF_vars(ClearStep)
    /\ \A c \in Client : WF_vars(ClientStep(c))

-----------------------------------------------------------------------------
(***************************************************************************)
(* Properties                                                              *)
(***************************************************************************)
\* The client's copies of the documents up to n are those the rules allow; of a
\* document that one response sent and reported lost nothing is known.
ExactUpTo(c, n) ==
    \A d \in DocId \ mixed[c] :
        0 < docs[d].seq /\ docs[d].seq <= n =>
            view[c][d] = IF docs[d].kind \in rules THEN "latest" ELSE "none"

\* A session that began without a checkpoint, or with one that was earned under
\* the present rules, is exact up to the place it has reached: it holds what it
\* may read in its latest version and nothing else; however documents change
\* hands between responses, and although a response applies the ability of its
\* beginning.  Not so for a document that became readable or unreadable while a
\* response was under way: that response can send it and report it lost (the
\* violated LostAreUnreadable of ChangesStream), and the client may purge what it
\* is to keep, or keep an old version, until the document changes again.
CleanIsExact ==
    \A c \in Client :
        /\ client[c].pc # "offline" /\ clean[c] => ExactUpTo(c, client[c].since)
        /\ localClean[c] => ExactUpTo(c, local[c])

\* When no clearLocal is due, the checkpoints are from the present rules, except
\* for the clients that clearLocal missed: those which at the moment of the
\* deletion were in a session with a since from earlier rules, or whose deletion
\* failed.  A checkpoint that is written between the listing and the deletions
\* makes no difference, neither do two runs at a time.
NoOldCheckpoint ==
    (\A n \in Clears : clears[n].pc # "timer" /\ clears[n].ids = {}) =>
        \A c \in Client :
            \/ missed[c]
            \/ localClean[c] /\ ~ Outdated(c)

\* All clients that were not missed end up with what the rules let them read,
\* but for documents that one response both sent and reported lost.
NotMissedResyncs ==
    \A c \in Client : <>[](missed[c] \/ ExactUpTo(c, updateSeq))

\* README: "This will restart the synchronization process for each client which
\* makes them fetch all the documents for which they now have gained
\* permissions."
EveryClientResyncs ==
    \A c \in Client : <>[](ExactUpTo(c, updateSeq))
=============================================================================

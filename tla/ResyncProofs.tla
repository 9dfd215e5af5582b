---------------------------- MODULE ResyncProofs ----------------------------
(***************************************************************************)
(* Proofs about Resync for any set of clients, documents, kinds and rules,   *)
(* any number of writes, runs of clearLocal and faults.                     *)
(***************************************************************************)
EXTENDS Resync, TLAPS

-----------------------------------------------------------------------------
(***************************************************************************)
(* Type correctness                                                        *)
(***************************************************************************)
\* The initial state is well typed.
LEMMA TypeInit == Init => TypeOK
  BY ResyncAssumption DEF Init, TypeOK, Unused, Offline, Copy

\* The records of TypeOK by name.
ClearRun == [pc : {"unused", "timer", "deleting"}, ids : SUBSET Client]
ClientRecord ==
    [pc : {"offline", "session", "request", "save"}, since : Nat,
     ability : SUBSET Kind, turned : SUBSET DocId]

\* The types of all variables but the two of records.
PlainTypes ==
    /\ updateSeq \in Nat /\ docs \in [DocId -> [seq : Nat, kind : Kind]]
    /\ rules \in SUBSET Kind /\ local \in [Client -> Nat]
    /\ view \in [Client -> [DocId -> Copy]] /\ mixed \in [Client -> SUBSET DocId]
    /\ clean \in [Client -> BOOLEAN] /\ localClean \in [Client -> BOOLEAN]
    /\ missed \in [Client -> BOOLEAN] /\ faults \in Nat

\* TypeOK in parts: a leaf about one of them need not see the others.
LEMMA TypeParts ==
    TypeOK <=> PlainTypes /\ clears \in [Clears -> ClearRun]
                          /\ client \in [Client -> ClientRecord]
  BY DEF TypeOK, PlainTypes, ClearRun, ClientRecord

\* A write changes nothing of a client but what its request has to report.
LEMMA WriteClients ==
    ASSUME TypeOK, Write
    PROVE  /\ client' \in [Client -> ClientRecord]
           /\ \A c \in Client : /\ client'[c].pc = client[c].pc
                                /\ client'[c].since = client[c].since
                                /\ client'[c].ability = client[c].ability
<1>1. PICK d \in DocId, k \in Kind :
         client' = [c \in Client |-> [client[c] EXCEPT !.turned =
                      IF Turns(c, d, k) THEN @ \cup {d} ELSE @]]
  BY DEF Write
<1>2. \A c \in Client : client[c] \in ClientRecord
  BY DEF TypeOK, ClientRecord
<1>3. ASSUME NEW c \in Client
      PROVE  /\ client'[c] \in ClientRecord
             /\ client'[c].pc = client[c].pc
             /\ client'[c].since = client[c].since
             /\ client'[c].ability = client[c].ability
  <2>1. PICK T \in SUBSET DocId : client'[c] = [client[c] EXCEPT !.turned = T]
    <3>1. CASE Turns(c, d, k)
      <4>1. client'[c] = [client[c] EXCEPT !.turned = @ \cup {d}]
        BY <1>1, <3>1
      <4>2. client[c].turned \cup {d} \in SUBSET DocId
        BY <1>2 DEF ClientRecord
      <4> QED
        BY <4>1, <4>2
    <3>2. CASE ~ Turns(c, d, k)
      <4>1. client'[c] = [client[c] EXCEPT !.turned = @]
        BY <1>1, <3>2
      <4>2. client[c].turned \in SUBSET DocId
        BY <1>2 DEF ClientRecord
      <4> QED
        BY <4>1, <4>2
    <3> QED
      BY <3>1, <3>2
  <2> QED
    BY <1>2, <2>1 DEF ClientRecord
<1>4. DOMAIN client' = Client /\ client' = [c \in Client |-> client'[c]]
  BY <1>1
<1> QED
  BY <1>3, <1>4

\* Writes and everything that clearLocal does keep the types.
LEMMA TypeClears ==
    ASSUME TypeOK,
           \/ Write
           \/ \E n \in Clears :
                 \/ onPermissionsChanged(n) \/ adminClearLocal(n)
                 \/ ListFail(n) \/ \E c \in Client : DeleteFail(n, c)
           \/ ClearStep
           \/ Crash
    PROVE  TypeOK'
<1> SUFFICES PlainTypes' /\ clears' \in [Clears -> ClearRun]
                         /\ client' \in [Client -> ClientRecord]
  BY DEF TypeOK, PlainTypes, ClearRun, ClientRecord
<1>1. PlainTypes
  BY TypeParts
<1>2. clears \in [Clears -> ClearRun]
  BY TypeParts
<1>3. client \in [Client -> ClientRecord]
  BY TypeParts
<1>4. CASE Write
  <2>1. PICK d \in DocId, k \in Kind :
           /\ docs' = [docs EXCEPT ![d] = [seq |-> updateSeq + 1, kind |-> k]]
           /\ view' = [c \in Client |-> [view[c] EXCEPT ![d] =
                         IF @ = "none" THEN "none" ELSE "old"]]
    BY <1>4 DEF Write
  <2>2. updateSeq' \in Nat /\ docs' \in [DocId -> [seq : Nat, kind : Kind]]
    BY <1>1, <1>4, <2>1 DEF Write, PlainTypes
  <2>3. view' \in [Client -> [DocId -> Copy]]
    BY <1>1, <2>1 DEF Copy, PlainTypes
  <2> QED
    BY <1>1, <1>2, <1>4, <2>2, <2>3, WriteClients DEF Write, PlainTypes
<1>5. ASSUME NEW n \in Clears, onPermissionsChanged(n)
      PROVE  PlainTypes' /\ clears' \in [Clears -> ClearRun] /\ client' = client
  <2>1. \A c \in Client : Untouched(c) \in BOOLEAN
    BY DEF Untouched
  <2>2. rules' \in SUBSET Kind
    BY <1>5, ResyncAssumption DEF onPermissionsChanged
  <2>3. clears' \in [Clears -> ClearRun]
    BY <1>2, <1>5 DEF onPermissionsChanged, ClearRun
  <2>4. clean' \in [Client -> BOOLEAN] /\ localClean' \in [Client -> BOOLEAN]
    BY <1>5, <2>1 DEF onPermissionsChanged
  <2> QED
    BY <1>1, <1>5, <2>2, <2>3, <2>4 DEF onPermissionsChanged, database, held, PlainTypes
<1>6. ASSUME NEW n \in Clears, adminClearLocal(n)
      PROVE  PlainTypes' /\ clears' \in [Clears -> ClearRun] /\ client' = client
  <2>1. clears' \in [Clears -> ClearRun]
    BY <1>2, <1>6 DEF adminClearLocal, ClearRun
  <2> QED
    BY <1>1, <1>6, <2>1 DEF adminClearLocal, database, held, PlainTypes
<1>7. ASSUME NEW n \in Clears, ListFail(n)
      PROVE  PlainTypes' /\ clears' \in [Clears -> ClearRun] /\ client' = client
  <2>1. clears' \in [Clears -> ClearRun]
    BY <1>2, <1>7 DEF ListFail, ClearRun
  <2> QED
    BY <1>1, <1>7, <2>1 DEF ListFail, Fault, database, held, PlainTypes
<1>8. ASSUME NEW n \in Clears, NEW c \in Client, DeleteFail(n, c)
      PROVE  PlainTypes' /\ clears' \in [Clears -> ClearRun] /\ client' = client
  <2>1. clears' \in [Clears -> ClearRun]
    BY <1>2, <1>8 DEF DeleteFail, ClearRun
  <2> QED
    BY <1>1, <1>8, <2>1 DEF DeleteFail, Fault, database, held, PlainTypes
<1>9. ASSUME NEW n \in Clears, listLocalDocs(n)
      PROVE  PlainTypes' /\ clears' \in [Clears -> ClearRun] /\ client' = client
  <2>1. \A c \in Client : Outdated(c) \in BOOLEAN
    BY DEF Outdated
  <2>2. clears' \in [Clears -> ClearRun]
    BY <1>2, <1>9 DEF listLocalDocs, ClearRun
  <2> QED
    BY <1>1, <1>9, <2>1, <2>2 DEF listLocalDocs, database, held, PlainTypes
<1>10. ASSUME NEW n \in Clears, NEW c \in Client, deleteLocalDoc(n, c)
       PROVE  PlainTypes' /\ clears' \in [Clears -> ClearRun] /\ client' = client
  <2>1. Outdated(c) \in BOOLEAN
    BY DEF Outdated
  <2>2. clears' \in [Clears -> ClearRun]
    BY <1>2, <1>10 DEF deleteLocalDoc, ClearRun
  <2> QED
    BY <1>1, <1>10, <2>1, <2>2 DEF deleteLocalDoc, database, held, PlainTypes
<1>11. CASE Crash
  <2>1. clears' \in [Clears -> ClearRun]
    BY <1>11 DEF Crash, Unused, ClearRun
  <2>2. client' \in [Client -> ClientRecord]
    BY <1>11 DEF Crash, Offline, ClientRecord
  <2> QED
    BY <1>1, <1>11, <2>1, <2>2 DEF Crash, Fault, database, held, PlainTypes
<1> QED
  BY <1>3, <1>4, <1>5, <1>6, <1>7, <1>8, <1>9, <1>10, <1>11 DEF ClearStep

\* The steps of a client keep the types.
LEMMA TypeClients ==
    ASSUME TypeOK, NEW c \in Client, ClientStep(c) \/ Stop(c)
    PROVE  TypeOK'
<1> SUFFICES /\ PlainTypes' /\ client' \in [Client -> ClientRecord]
             /\ clears' = clears
  BY TypeParts DEF TypeOK, PlainTypes, ClearRun, ClientRecord
<1>1. PlainTypes
  BY TypeParts
<1>2. client \in [Client -> ClientRecord]
  BY TypeParts
<1>3. CASE getLocalDoc(c)
  <2>1. client' \in [Client -> ClientRecord]
    BY <1>1, <1>2, <1>3 DEF getLocalDoc, Offline, ClientRecord, PlainTypes
  <2> QED
    BY <1>1, <1>3, <2>1 DEF getLocalDoc, database, held, PlainTypes
<1>4. CASE changes(c)
  <2>1. rules \in SUBSET Kind
    BY <1>1 DEF PlainTypes
  <2>2. client' \in [Client -> ClientRecord]
    BY <1>2, <1>4, <2>1 DEF changes, ClientRecord
  <2> QED
    BY <1>1, <1>4, <2>2 DEF changes, database, held, PlainTypes
<1>5. CASE respond(c)
  <2>1. PICK n \in client[c].since .. updateSeq, v \in [DocId -> Copy] :
           /\ client' = [client EXCEPT ![c].pc = "save", ![c].since = n,
                                       ![c].turned = {}]
           /\ mixed' = [mixed EXCEPT ![c] = mixedUpTo(c, n)]
           /\ view' = [view EXCEPT ![c] = v]
    BY <1>5 DEF respond
  <2>2. client[c].since \in Nat /\ updateSeq \in Nat
    BY <1>1, <1>2 DEF PlainTypes, ClientRecord
  <2>3. n \in Nat
    BY <2>2
  <2>4. client' \in [Client -> ClientRecord]
    <3>1. [client[c] EXCEPT !.pc = "save", !.since = n, !.turned = {}] \in ClientRecord
      BY <1>2, <2>3 DEF ClientRecord
    <3>2. client' = [client EXCEPT ![c] =
                       [@ EXCEPT !.pc = "save", !.since = n, !.turned = {}]]
      BY <2>1
    <3> QED
      BY <1>2, <3>1, <3>2
  <2>5. view' \in [Client -> [DocId -> Copy]]
    BY <1>1, <2>1 DEF PlainTypes
  <2>6. mixed' \in [Client -> SUBSET DocId]
    BY <1>1, <2>1 DEF PlainTypes, mixedUpTo
  <2> QED
    BY <1>1, <1>5, <2>4, <2>5, <2>6 DEF respond, database, PlainTypes
<1>6. CASE putLocalDoc(c)
  <2>1. client' \in [Client -> ClientRecord]
    <3>1. CASE client' = [client EXCEPT ![c].pc = "session"]
      BY <1>2, <3>1 DEF ClientRecord
    <3>2. CASE client' = [client EXCEPT ![c] = Offline]
      BY <1>2, <3>2 DEF Offline, ClientRecord
    <3> QED
      BY <1>6, <3>1, <3>2 DEF putLocalDoc
  <2>2. (clean[c] \/ client[c].since = 0) \in BOOLEAN /\ client[c].since \in Nat
    BY <1>2 DEF ClientRecord
  <2> QED
    BY <1>1, <1>6, <2>1, <2>2 DEF putLocalDoc, database, held, PlainTypes
<1>7. CASE Stop(c)
  <2>1. client' \in [Client -> ClientRecord]
    BY <1>2, <1>7 DEF Stop, Offline, ClientRecord
  <2> QED
    BY <1>1, <1>7, <2>1 DEF Stop, Fault, database, held, PlainTypes
<1> QED
  BY <1>3, <1>4, <1>5, <1>6, <1>7 DEF ClientStep

\* Every step keeps the types.
LEMMA TypeStep == TypeOK /\ [Next]_vars => TypeOK'
<1>1. ASSUME TypeOK, UNCHANGED vars
      PROVE  TypeOK'
  BY <1>1 DEF TypeOK, vars, database, held
<1> QED
  BY <1>1, TypeClears, TypeClients DEF Next

\* Clients, checkpoints, timers and deletions keep their types, for any number
\* of clients, writes, runs of clearLocal and faults.
THEOREM TypeCorrect == Spec => []TypeOK
  BY TypeInit, TypeStep, PTL DEF Spec

-----------------------------------------------------------------------------
(***************************************************************************)
(* A clean session is exact.  What makes it inductive: sequence numbers are  *)
(* bounded by the database's, a checkpoint is never ahead of the session     *)
(* that wrote it, and a clean request has the ability of the present rules.  *)
(***************************************************************************)
SeqInv ==
    /\ \A d \in DocId : docs[d].seq <= updateSeq
    /\ \A c \in Client : client[c].since <= updateSeq /\ local[c] <= updateSeq
    /\ \A c \in Client : client[c].pc # "offline" => local[c] <= client[c].since

AbilityInv ==
    \A c \in Client :
        client[c].pc = "request" /\ clean[c] => client[c].ability = rules

ExactInv == TypeOK /\ SeqInv /\ AbilityInv /\ CleanIsExact

\* The initial state satisfies it: nothing has a sequence number yet.
LEMMA ExactInit == Init => ExactInv
<1> SUFFICES ASSUME Init PROVE ExactInv
  OBVIOUS
<1>1. TypeOK
  BY TypeInit
<1>2. SeqInv /\ AbilityInv
  BY DEF Init, SeqInv, AbilityInv, Offline
<1>3. CleanIsExact
  BY DEF Init, CleanIsExact, ExactUpTo, Offline
<1> QED
  BY <1>1, <1>2, <1>3 DEF ExactInv

\* A write is beyond every checkpoint.
LEMMA ExactWrite == ExactInv /\ Write => SeqInv' /\ AbilityInv' /\ CleanIsExact'
<1> SUFFICES ASSUME ExactInv, Write PROVE SeqInv' /\ AbilityInv' /\ CleanIsExact'
  OBVIOUS
<1> USE DEF ExactInv, TypeOK
<1>1. PICK d \in DocId, k \in Kind :
         /\ docs' = [docs EXCEPT ![d] = [seq |-> updateSeq + 1, kind |-> k]]
         /\ view' = [c \in Client |-> [view[c] EXCEPT ![d] =
                       IF @ = "none" THEN "none" ELSE "old"]]
  BY DEF Write
<1>2. SeqInv'
  <2>1. updateSeq' = updateSeq + 1 /\ local' = local
    BY DEF Write
  <2>2. \A e \in DocId : docs'[e].seq <= updateSeq'
    BY <1>1, <2>1 DEF SeqInv
  <2>3. \A c \in Client : client'[c].since <= updateSeq' /\ local'[c] <= updateSeq'
    BY <2>1, WriteClients DEF SeqInv
  <2>4. \A c \in Client : client'[c].pc # "offline" => local'[c] <= client'[c].since
    BY <2>1, WriteClients DEF SeqInv
  <2> QED
    BY <2>2, <2>3, <2>4 DEF SeqInv
<1>3. AbilityInv'
  BY WriteClients DEF Write, AbilityInv
<1>4. ASSUME NEW c \in Client, NEW n \in Nat, n <= updateSeq, ExactUpTo(c, n)
      PROVE  ExactUpTo(c, n)'
  BY <1>1, <1>4 DEF ExactUpTo, Write
<1>5. CleanIsExact'
  BY <1>4, WriteClients DEF CleanIsExact, Write, SeqInv
<1> QED
  BY <1>2, <1>3, <1>5

\* A change of the permissions leaves clean only what is empty.
LEMMA ExactChange ==
    ASSUME ExactInv, NEW m \in Clears, onPermissionsChanged(m)
    PROVE  SeqInv' /\ AbilityInv' /\ CleanIsExact'
<1> USE DEF ExactInv, TypeOK
<1>1. SeqInv'
  BY DEF onPermissionsChanged, SeqInv, database, held
<1>2. AbilityInv'
  BY DEF onPermissionsChanged, AbilityInv, Untouched
<1>3. ASSUME NEW c \in Client PROVE ExactUpTo(c, 0)'
  BY DEF ExactUpTo, onPermissionsChanged, database, held
<1>4. CleanIsExact'
  BY <1>3 DEF CleanIsExact, onPermissionsChanged, Untouched
<1> QED
  BY <1>1, <1>2, <1>4

\* Nothing else that clearLocal does adds to a checkpoint.
LEMMA ExactClears ==
    ASSUME ExactInv, NEW m \in Clears,
           \/ adminClearLocal(m) \/ ListFail(m) \/ listLocalDocs(m)
           \/ \E c \in Client : DeleteFail(m, c) \/ deleteLocalDoc(m, c)
    PROVE  SeqInv' /\ AbilityInv' /\ CleanIsExact'
<1> USE DEF ExactInv, TypeOK
<1>1. ASSUME adminClearLocal(m) \/ ListFail(m) \/ listLocalDocs(m)
             \/ \E c \in Client : DeleteFail(m, c)
      PROVE  UNCHANGED <<updateSeq, docs, rules, local, client, view, mixed,
                         clean, localClean>>
  BY <1>1 DEF adminClearLocal, ListFail, listLocalDocs, DeleteFail, database, held
<1>2. ASSUME UNCHANGED <<updateSeq, docs, rules, local, client, view, mixed,
                         clean, localClean>>
      PROVE  SeqInv' /\ AbilityInv' /\ CleanIsExact'
  BY <1>2 DEF SeqInv, AbilityInv, CleanIsExact, ExactUpTo
<1>3. ASSUME NEW c \in Client, deleteLocalDoc(m, c)
      PROVE  SeqInv' /\ AbilityInv' /\ CleanIsExact'
  <2> USE <1>3
  <2>1. SeqInv' /\ AbilityInv'
    BY DEF deleteLocalDoc, SeqInv, AbilityInv, database, held
  <2>2. CleanIsExact'
    BY DEF deleteLocalDoc, CleanIsExact, ExactUpTo, database, held
  <2> QED
    BY <2>1, <2>2
<1> QED
  BY <1>1, <1>2, <1>3

\* The steps of a client: a response fills exactly what lies between its since
\* and its end, and is beyond the client's checkpoint.
LEMMA ExactClients ==
    ASSUME ExactInv, NEW c \in Client, ClientStep(c) \/ Stop(c)
    PROVE  SeqInv' /\ AbilityInv' /\ CleanIsExact'
<1> USE DEF ExactInv, TypeOK
<1>1. CASE getLocalDoc(c)
  <2> USE <1>1
  <2>1. SeqInv' /\ AbilityInv'
    BY DEF getLocalDoc, SeqInv, AbilityInv, database, held
  <2>2. CleanIsExact'
    BY DEF getLocalDoc, CleanIsExact, ExactUpTo, database, held
  <2> QED
    BY <2>1, <2>2
<1>2. CASE changes(c)
  <2> USE <1>2
  <2>1. SeqInv' /\ AbilityInv'
    BY DEF changes, SeqInv, AbilityInv, database, held
  <2>2. CleanIsExact'
    BY DEF changes, CleanIsExact, ExactUpTo, database, held
  <2> QED
    BY <2>1, <2>2
<1>3. CASE respond(c)
  <2>1. PICK n \in client[c].since .. updateSeq, v \in [DocId -> Copy] :
           /\ client' = [client EXCEPT ![c].pc = "save", ![c].since = n,
                                       ![c].turned = {}]
           /\ mixed' = [mixed EXCEPT ![c] = mixedUpTo(c, n)]
           /\ \A d \in DocId : v[d] \in copies(c, d, n)
           /\ view' = [view EXCEPT ![c] = v]
    BY <1>3 DEF respond
  <2>2. /\ n \in Nat /\ n <= updateSeq /\ client[c].since <= n
        /\ UNCHANGED <<updateSeq, docs, rules, local, clean, localClean>>
        /\ client[c].pc = "request"
    <3>1. client[c].since \in Nat /\ updateSeq \in Nat
      OBVIOUS
    <3> QED
      BY <1>3, <3>1 DEF respond, database, held
  <2>3. SeqInv'
    BY <2>1, <2>2 DEF SeqInv
  <2>4. AbilityInv'
    BY <2>1, <2>2 DEF AbilityInv
  <2>5. ASSUME NEW d \in DocId, docs[d].seq <= client[c].since
        PROVE  view'[c][d] = view[c][d]
    BY <2>1, <2>5 DEF copies
  <2>6. ASSUME NEW d \in DocId, docs[d].seq <= client[c].since
         PROVE  d \in mixed'[c] <=> d \in mixed[c]
    BY <2>1, <2>6 DEF mixedUpTo
  <2>7. localClean[c] => ExactUpTo(c, local[c])'
    <3> SUFFICES ASSUME localClean[c], NEW d \in DocId \ mixed'[c],
                        0 < docs[d].seq, docs[d].seq <= local[c]
                 PROVE  view'[c][d] = IF docs[d].kind \in rules THEN "latest" ELSE "none"
      BY <2>2 DEF ExactUpTo
    <3>1. local[c] <= client[c].since
      BY <2>2 DEF SeqInv
    <3>2. docs[d].seq <= client[c].since
      BY <3>1
    <3> QED
      BY <2>5, <2>6, <3>2 DEF CleanIsExact, ExactUpTo
  <2>8. clean[c] => ExactUpTo(c, n)'
    <3> SUFFICES ASSUME clean[c], NEW d \in DocId \ mixed'[c],
                        0 < docs[d].seq, docs[d].seq <= n
                 PROVE  view'[c][d] = IF docs[d].kind \in rules THEN "latest" ELSE "none"
      BY <2>2 DEF ExactUpTo
    <3>1. client[c].ability = rules
      BY <2>2 DEF AbilityInv
    <3>2. CASE docs[d].seq <= client[c].since
      BY <2>2, <2>5, <2>6, <3>2 DEF CleanIsExact, ExactUpTo
    <3>3. CASE ~ (docs[d].seq <= client[c].since)
      <4>1. docs[d].seq \in Nat /\ n \in Nat
        BY <2>2
      <4>2. ~ (docs[d].seq > n)
        BY <4>1
      <4>3. d \notin client[c].turned
        BY <2>1, <3>3 DEF mixedUpTo
      <4>4. view'[c][d] \in copies(c, d, n)
        BY <2>1
      <4> QED
        BY <3>1, <3>3, <4>2, <4>3, <4>4 DEF copies
    <3> QED
      BY <3>2, <3>3
  <2>9. ASSUME NEW e \in Client, e # c, NEW k \in Nat, ExactUpTo(e, k)
        PROVE  ExactUpTo(e, k)'
    BY <2>1, <2>2, <2>9 DEF ExactUpTo
  <2>10. CleanIsExact'
    BY <2>1, <2>2, <2>7, <2>8, <2>9 DEF CleanIsExact
  <2> QED
    BY <2>3, <2>4, <2>10
<1>4. CASE putLocalDoc(c)
  <2>1. /\ UNCHANGED <<updateSeq, docs, rules, view, mixed, clean>>
        /\ client[c].pc = "save"
        /\ local' = [local EXCEPT ![c] = client[c].since]
        /\ localClean' = [localClean EXCEPT ![c] = clean[c] \/ client[c].since = 0]
        /\ \/ client' = [client EXCEPT ![c].pc = "session"]
           \/ client' = [client EXCEPT ![c] = Offline]
    BY <1>4 DEF putLocalDoc, database, held
  <2>2. SeqInv' /\ AbilityInv'
    <3>1. CASE client' = [client EXCEPT ![c].pc = "session"]
      BY <2>1, <3>1 DEF SeqInv, AbilityInv
    <3>2. CASE client' = [client EXCEPT ![c] = Offline]
      BY <2>1, <3>2 DEF SeqInv, AbilityInv, Offline
    <3> QED
      BY <2>1, <3>1, <3>2
  <2>3. \A e \in Client, k \in Nat : ExactUpTo(e, k)' <=> ExactUpTo(e, k)
    BY <2>1 DEF ExactUpTo
  <2>4. ExactUpTo(c, 0)
    BY DEF ExactUpTo
  <2>5. ASSUME NEW e \in Client, localClean'[e]
        PROVE  ExactUpTo(e, local'[e])
    BY <2>1, <2>4, <2>5 DEF CleanIsExact
  <2>6. ASSUME NEW e \in Client, client'[e].pc # "offline", clean[e]
        PROVE  client'[e].since = client[e].since /\ client[e].pc # "offline"
    <3>1. CASE client' = [client EXCEPT ![c].pc = "session"]
      BY <2>1, <2>6, <3>1
    <3>2. CASE client' = [client EXCEPT ![c] = Offline]
      BY <2>1, <2>6, <3>2 DEF Offline
    <3> QED
      BY <2>1, <3>1, <3>2
  <2>7. CleanIsExact'
    BY <2>1, <2>3, <2>5, <2>6, TypeClients DEF CleanIsExact
  <2> QED
    BY <2>2, <2>7
<1>5. CASE Stop(c)
  <2> USE <1>5
  <2>1. SeqInv' /\ AbilityInv'
    BY DEF Stop, SeqInv, AbilityInv, Offline, database, held
  <2>2. CleanIsExact'
    BY DEF Stop, CleanIsExact, ExactUpTo, Offline, database, held
  <2> QED
    BY <2>1, <2>2
<1> QED
  BY <1>1, <1>2, <1>3, <1>4, <1>5 DEF ClientStep

\* After a crash everybody is offline, with the checkpoints from before.
LEMMA ExactCrash == ExactInv /\ Crash => SeqInv' /\ AbilityInv' /\ CleanIsExact'
<1> SUFFICES ASSUME ExactInv, Crash PROVE SeqInv' /\ AbilityInv' /\ CleanIsExact'
  OBVIOUS
<1> USE DEF ExactInv, TypeOK
<1>1. SeqInv' /\ AbilityInv'
  BY DEF Crash, SeqInv, AbilityInv, Offline, database, held
<1>2. CleanIsExact'
  BY DEF Crash, CleanIsExact, ExactUpTo, Offline, database, held
<1> QED
  BY <1>1, <1>2

\* The invariant is inductive.
LEMMA ExactStep == ExactInv /\ [Next]_vars => ExactInv'
<1> SUFFICES ASSUME ExactInv, [Next]_vars PROVE ExactInv'
  OBVIOUS
<1>1. TypeOK'
  BY TypeStep DEF ExactInv
<1>2. CASE UNCHANGED vars
  BY <1>1, <1>2 DEF ExactInv, SeqInv, AbilityInv, CleanIsExact, ExactUpTo, vars,
                     database, held
<1>3. ASSUME Next PROVE SeqInv' /\ AbilityInv' /\ CleanIsExact'
  BY <1>3, ExactWrite, ExactChange, ExactClears, ExactClients, ExactCrash
     DEF Next, ClearStep
<1> QED
  BY <1>1, <1>2, <1>3 DEF ExactInv

\* Whoever synced under the present rules holds exactly what they allow, up to
\* its place in the changes, whatever is written, granted, revoked, deleted or
\* fails meanwhile.
THEOREM CleanAlwaysExact == Spec => []CleanIsExact
<1>1. ExactInv => CleanIsExact
  BY DEF ExactInv
<1> QED
  BY <1>1, ExactInit, ExactStep, PTL DEF Spec

-----------------------------------------------------------------------------
(***************************************************************************)
(* No old checkpoint outlives clearLocal.  The invariant says of every       *)
(* single client that it was missed, is up to date, or is still to be dealt  *)
(* with by some run.                                                        *)
(***************************************************************************)
UpToDate(c) == localClean[c] /\ ~ Outdated(c)
Due(c) == \E n \in Clears : clears[n].pc = "timer" \/ c \in clears[n].ids

CheckpointInv ==
    /\ TypeOK
    /\ \A c \in Client : local[c] = 0 => localClean[c]
    /\ \A c \in Client : missed[c] \/ UpToDate(c) \/ Due(c)

\* Nobody has a checkpoint in the beginning.
LEMMA CheckpointInit == Init => CheckpointInv
  BY TypeInit DEF Init, CheckpointInv, UpToDate, Outdated, Offline

\* The invariant is inductive.
LEMMA CheckpointStep == CheckpointInv /\ [Next]_vars => CheckpointInv'
<1> SUFFICES ASSUME CheckpointInv, [Next]_vars PROVE CheckpointInv'
  OBVIOUS
<1> DEFINE Empty(c) == local[c] = 0 => localClean[c]
           Fine(c) == missed[c] \/ UpToDate(c) \/ Due(c)
<1>1. TypeOK /\ TypeOK' /\ \A c \in Client : Empty(c) /\ Fine(c)
  BY TypeStep DEF CheckpointInv
<1> SUFFICES ASSUME NEW c \in Client PROVE Empty(c)' /\ Fine(c)'
  BY <1>1 DEF CheckpointInv
<1> USE <1>1 DEF TypeOK, UpToDate, Outdated, Due
<1>2. CASE Write
  BY <1>2 DEF Write
<1>3. ASSUME NEW n \in Clears, onPermissionsChanged(n) PROVE Empty(c)' /\ Fine(c)'
  BY <1>3 DEF onPermissionsChanged
<1>4. ASSUME NEW n \in Clears, adminClearLocal(n) PROVE Empty(c)' /\ Fine(c)'
  BY <1>4 DEF adminClearLocal
<1>5. ASSUME NEW n \in Clears, ListFail(n) PROVE Empty(c)' /\ Fine(c)'
  BY <1>5 DEF ListFail
<1>6. ASSUME NEW n \in Clears, NEW e \in Client, DeleteFail(n, e)
      PROVE  Empty(c)' /\ Fine(c)'
  BY <1>6 DEF DeleteFail
<1>7. ASSUME NEW n \in Clears, listLocalDocs(n) PROVE Empty(c)' /\ Fine(c)'
  BY <1>7 DEF listLocalDocs
<1>8. ASSUME NEW n \in Clears, NEW e \in Client, deleteLocalDoc(n, e)
      PROVE  Empty(c)' /\ Fine(c)'
  <2>1. CASE c = e
    <3>1. localClean'[c] /\ missed'[c] = Outdated(c)
      BY <1>8, <2>1 DEF deleteLocalDoc
    <3>2. Outdated(c)' = Outdated(c)
      BY <1>8 DEF deleteLocalDoc
    <3> QED
      BY <3>1, <3>2
  <2>2. CASE c # e
    <3>1. /\ local'[c] = local[c] /\ localClean'[c] = localClean[c]
          /\ missed'[c] = missed[c]
      BY <1>8, <2>2 DEF deleteLocalDoc
    <3>2. Outdated(c)' = Outdated(c)
      BY <1>8 DEF deleteLocalDoc
    <3>3. Due(c) => Due(c)'
      BY <1>8, <2>2 DEF deleteLocalDoc
    <3> QED
      BY <3>1, <3>2, <3>3
  <2> QED
    BY <2>1, <2>2
<1>9. ASSUME NEW e \in Client, getLocalDoc(e) PROVE Empty(c)' /\ Fine(c)'
  BY <1>9 DEF getLocalDoc
<1>10. ASSUME NEW e \in Client, changes(e) PROVE Empty(c)' /\ Fine(c)'
  BY <1>10 DEF changes
<1>11. ASSUME NEW e \in Client, respond(e) PROVE Empty(c)' /\ Fine(c)'
  BY <1>11 DEF respond
<1>12. ASSUME NEW e \in Client, putLocalDoc(e) PROVE Empty(c)' /\ Fine(c)'
  <2>1. /\ e # c => /\ client'[c] = client[c] /\ local'[c] = local[c]
                     /\ localClean'[c] = localClean[c]
        /\ UNCHANGED <<clears, clean, missed>>
    BY <1>12 DEF putLocalDoc
  <2>2. CASE e = c
    <3>1. /\ local'[c] = client[c].since
          /\ localClean'[c] = (clean[c] \/ client[c].since = 0)
          /\ client[c].pc = "save"
      BY <1>12, <2>2 DEF putLocalDoc
    <3> QED
      BY <2>1, <3>1
  <2> QED
    BY <2>1, <2>2
<1>13. ASSUME NEW e \in Client, Stop(e) PROVE Empty(c)' /\ Fine(c)'
  BY <1>13 DEF Stop, Offline
<1>14. CASE Crash
  BY <1>14 DEF Crash
<1>15. CASE UNCHANGED vars
  BY <1>15 DEF vars
<1> QED
  BY <1>2, <1>3, <1>4, <1>5, <1>6, <1>7, <1>8, <1>9, <1>10, <1>11, <1>12, <1>13,
     <1>14, <1>15 DEF Next, ClearStep, ClientStep

\* When no clearLocal is due, only the clients it is known to have missed have
\* a checkpoint or a session from earlier rules, for any number of overlapping
\* runs and clients that write checkpoints meanwhile.
THEOREM NoOldCheckpointLeft == Spec => []NoOldCheckpoint
<1>1. CheckpointInv => NoOldCheckpoint
  BY DEF CheckpointInv, NoOldCheckpoint, UpToDate, Due
<1> QED
  BY <1>1, CheckpointInit, CheckpointStep, PTL DEF Spec
=============================================================================

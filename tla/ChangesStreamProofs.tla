------------------------- MODULE ChangesStreamProofs -------------------------
(***************************************************************************)
(* Proofs about ChangesStream for any finite set of documents, any limits of  *)
(* requests and batches, any number of writes and faults; and the proof that  *)
(* it implements ChangesFeed.                                               *)
(***************************************************************************)
EXTENDS ChangesStream, FiniteSetTheorems, SubsequenceProofs

-----------------------------------------------------------------------------
(***************************************************************************)
(* Numbers and cardinalities                                               *)
(***************************************************************************)
\* Max of a bounded set is its greatest element.
LEMMA MaxNat ==
    ASSUME NEW S \in SUBSET Nat, S # {}, NEW b \in Nat, \A n \in S : n <= b
    PROVE  Max(S) \in S /\ \A n \in S : n <= Max(S)
<1> DEFINE T == {b - n : n \in S}
<1>1. T \in SUBSET Nat /\ T # {}
  <2>1. \A n \in S : b - n \in Nat
    OBVIOUS
  <2> QED
    BY <2>1
<1>2. PICK t \in T : \A u \in T : t <= u
  BY <1>1, LeastNat
<1>3. PICK m \in S : t = b - m
  OBVIOUS
<1>4. ASSUME NEW n \in S
      PROVE  m >= n
  <2>1. b - m <= b - n
    BY <1>2, <1>3
  <2> QED
    BY <2>1
<1>5. \E x \in S : \A y \in S : x >= y
  BY <1>4
<1>6. Max(S) \in S /\ \A y \in S : Max(S) >= y
  BY <1>5 DEF Max
<1> QED
  BY <1>6

\* Sets of documents are finite.
LEMMA Sizes ==
    ASSUME NEW A \in SUBSET DocId, NEW B \in SUBSET A
    PROVE  /\ IsFiniteSet(A) /\ IsFiniteSet(B)
           /\ Cardinality(A) \in Nat /\ Cardinality(B) \in Nat
           /\ Cardinality(B) <= Cardinality(A)
<1>1. IsFiniteSet(A)
  BY ChangesAssumption, FS_Subset
<1>2. IsFiniteSet(B) /\ Cardinality(B) <= Cardinality(A)
  BY <1>1, FS_Subset
<1> QED
  BY <1>1, <1>2, FS_CardinalityType

\* At least one change is asked for.
LEMMA InternalLimit ==
    ASSUME NEW limit \in Nat \ {0}
    PROVE  internalLimit(limit) \in Nat \ {0}
<1> DEFINE a == limit * INTERNAL_LIMIT_MULTIPLIER
           b == MAX_INTERNAL_LIMIT
<1>1. a \in Nat \ {0} /\ b \in Nat \ {0}
  BY ChangesAssumption
<1> HIDE DEF a, b
<1>2. \E x \in {a, b} : \A y \in {a, b} : x <= y
  BY <1>1
<1>3. Min({a, b}) \in {a, b}
  BY <1>2 DEF Min
<1> QED
  BY <1>1, <1>3 DEF internalLimit, a, b

-----------------------------------------------------------------------------
(***************************************************************************)
(* One batch                                                               *)
(***************************************************************************)
\* Each write has a sequence number of its own.
SeqInv ==
    /\ \A d \in DocId : docs[d].seq <= updateSeq
    /\ \A d, e \in DocId : docs[d].seq # 0 /\ docs[d].seq = docs[e].seq => d = e

\* The documents up to a sequence number grow with it.
LEMMA UpToGrows ==
    ASSUME TypeOK, NEW A \in SUBSET DocId, NEW x \in DocId, NEW d \in DocId,
           docs[x].seq <= docs[d].seq, NEW n \in Nat,
           Cardinality({e \in A : docs[e].seq <= docs[d].seq}) <= n
    PROVE  Cardinality({e \in A : docs[e].seq <= docs[x].seq}) <= n
<1> DEFINE X == {e \in A : docs[e].seq <= docs[x].seq}
           D == {e \in A : docs[e].seq <= docs[d].seq}
<1>1. \A e \in DocId : docs[e].seq \in Nat
  BY DEF TypeOK
<1>2. D \in SUBSET DocId /\ X \in SUBSET D
  BY <1>1
<1>3. Cardinality(X) <= Cardinality(D) /\ Cardinality(X) \in Nat
      /\ Cardinality(D) \in Nat
  BY <1>2, Sizes
<1> QED
  BY <1>3

\* Nothing is before the first of a set of changes.
LEMMA Earliest ==
    ASSUME TypeOK, SeqInv, NEW S \in SUBSET DocId, S # {},
           \A d \in S : docs[d].seq # 0
    PROVE  \E m \in S : \A A \in SUBSET S :
              Cardinality({e \in A : docs[e].seq <= docs[m].seq}) <= 1
<1>1. \A e \in DocId : docs[e].seq \in Nat
  BY DEF TypeOK
<1>2. \E m \in S : \A e \in S : docs[m].seq <= docs[e].seq
  <2> DEFINE N == {docs[d].seq : d \in S}
  <2>1. N \in SUBSET Nat /\ N # {}
    BY <1>1
  <2>2. PICK n \in N : \A k \in N : n <= k
    BY <2>1, LeastNat
  <2> QED
    BY <2>2
<1>3. PICK m \in S : \A e \in S : docs[m].seq <= docs[e].seq
  BY <1>2
<1>4. ASSUME NEW A \in SUBSET S
      PROVE  Cardinality({e \in A : docs[e].seq <= docs[m].seq}) <= 1
  <2>1. \A e \in A : docs[e].seq <= docs[m].seq => e = m
    BY <1>1, <1>3 DEF SeqInv
  <2>2. {e \in A : docs[e].seq <= docs[m].seq} \in SUBSET {m}
    BY <2>1
  <2>3. IsFiniteSet({m}) /\ Cardinality({m}) = 1
    BY FS_Singleton
  <2> QED
    BY <2>2, <2>3, FS_Subset
<1> QED
  BY <1>4

\* A batch that CouchDB sends: the changes after since that come first, and at
\* least one if there is any.
LEMMA Rows ==
    ASSUME TypeOK, SeqInv, NEW since \in Nat, NEW n \in Nat \ {0}
    PROVE  LET all  == changesAfter(since)
               rows == firstOf(all, n)
           IN  /\ all \in SUBSET DocId /\ rows \in SUBSET all
               /\ all # {} => rows # {}
               /\ \A d \in rows, e \in all :
                     docs[e].seq <= docs[d].seq => e \in rows
<1> DEFINE all == changesAfter(since)
           rows == firstOf(all, n)
<1>1. all \in SUBSET DocId /\ rows \in SUBSET all
  BY DEF changesAfter, firstOf
<1>2. ASSUME all # {}
      PROVE  rows # {}
  <2>1. \A d \in all : docs[d].seq # 0
    BY DEF changesAfter, TypeOK
  <2>2. PICK m \in all : \A A \in SUBSET all :
           Cardinality({e \in A : docs[e].seq <= docs[m].seq}) <= 1
    BY <1>1, <1>2, <2>1, Earliest
  <2>3. Cardinality({e \in all : docs[e].seq <= docs[m].seq}) <= 1
    BY <2>2
  <2>4. {e \in all : docs[e].seq <= docs[m].seq} \in SUBSET DocId
    BY <1>1
  <2>5. Cardinality({e \in all : docs[e].seq <= docs[m].seq}) \in Nat
    BY <2>4, Sizes
  <2>6. Cardinality({e \in all : docs[e].seq <= docs[m].seq}) <= n
    BY <2>3, <2>5
  <2> QED
    BY <2>6 DEF firstOf
<1>3. ASSUME NEW d \in rows, NEW e \in all, docs[e].seq <= docs[d].seq
      PROVE  e \in rows
  <2>1. Cardinality({x \in all : docs[x].seq <= docs[d].seq}) <= n
    BY DEF firstOf
  <2>2. Cardinality({x \in all : docs[x].seq <= docs[e].seq}) <= n
    BY <1>1, <1>3, <2>1, UpToGrows
  <2> QED
    BY <2>2 DEF firstOf
<1> QED
  BY <1>1, <1>2, <1>3

\* What filterChanges processes of a batch: the rows that come first, and at
\* least one of them.
LEMMA Processed ==
    ASSUME TypeOK, SeqInv, NEW rows \in SUBSET DocId, NEW limit \in Nat \ {0},
           \A d \in rows : docs[d].seq # 0
    PROVE  LET done == processed(rows, limit)
           IN  /\ done \in SUBSET rows
               /\ rows # {} => done # {}
               /\ \A d \in done, e \in rows :
                     docs[e].seq <= docs[d].seq => e \in done
<1> DEFINE done == processed(rows, limit)
<1>1. permitted(rows) \in SUBSET rows
  BY DEF permitted
<1>2. ASSUME rows # {}
      PROVE  done # {}
  <2>1. PICK m \in rows : \A A \in SUBSET rows :
           Cardinality({e \in A : docs[e].seq <= docs[m].seq}) <= 1
    BY <1>2, Earliest
  <2>2. {e \in permitted(rows) : docs[e].seq <= docs[m].seq} \in SUBSET DocId
    BY <1>1
  <2>3. Cardinality({e \in permitted(rows) : docs[e].seq <= docs[m].seq}) \in Nat
    BY <2>2, Sizes
  <2>4. Cardinality({e \in permitted(rows) : docs[e].seq <= docs[m].seq}) <= 1
    BY <1>1, <2>1
  <2>5. Cardinality({e \in permitted(rows) : docs[e].seq <= docs[m].seq}) <= limit
    BY <2>3, <2>4
  <2> QED
    BY <2>5 DEF processed
<1>3. ASSUME NEW d \in done, NEW e \in rows, docs[e].seq <= docs[d].seq
      PROVE  e \in done
  <2>1. /\ Cardinality({x \in permitted(rows) : docs[x].seq <= docs[d].seq}) <= limit
        /\ d \in DocId /\ permitted(rows) \in SUBSET DocId
    BY <1>1 DEF processed
  <2> DEFINE X == {x \in permitted(rows) : docs[x].seq <= docs[e].seq}
             D == {x \in permitted(rows) : docs[x].seq <= docs[d].seq}
  <2>2. \A x \in DocId : docs[x].seq \in Nat
    BY DEF TypeOK
  <2>3. D \in SUBSET DocId /\ X \in SUBSET D
    BY <1>3, <2>1, <2>2
  <2>4. Cardinality(X) <= limit
    BY <2>1, <2>3, Sizes
  <2> QED
    BY <2>4 DEF processed
<1> QED
  BY <1>2, <1>3 DEF processed

\* lastSeqOf is the sequence number of one of the changes, and of no earlier one.
LEMMA LastSeq ==
    ASSUME TypeOK, SeqInv, NEW S \in SUBSET DocId, S # {}
    PROVE  /\ \E d \in S : lastSeqOf(S) = docs[d].seq
           /\ \A d \in S : docs[d].seq <= lastSeqOf(S)
<1> DEFINE N == {docs[d].seq : d \in S}
<1>1. N \in SUBSET Nat /\ N # {} /\ updateSeq \in Nat /\ \A n \in N : n <= updateSeq
  BY DEF TypeOK, SeqInv
<1>2. Max(N) \in N /\ \A n \in N : n <= Max(N)
  BY <1>1, MaxNat
<1> QED
  BY <1>2 DEF lastSeqOf

\* The last_seq of a batch separates what was processed from what was not, also
\* when the batch is cut off within the limit of the request.
LEMMA Batch ==
    ASSUME TypeOK, SeqInv, NEW since \in Nat, since <= updateSeq,
           NEW limit \in Nat \ {0}
    PROVE  LET all  == changesAfter(since)
               rows == firstOf(all, internalLimit(limit))
               done == processed(rows, limit)
               last == batchLastSeq(since, rows, done)
           IN  /\ all \in SUBSET DocId /\ rows \in SUBSET all /\ done \in SUBSET rows
               /\ last \in Nat /\ since <= last /\ last <= updateSeq
               /\ \A d \in all : docs[d].seq <= last <=> d \in done
<1> DEFINE all == changesAfter(since)
           n == internalLimit(limit)
           rows == firstOf(all, n)
           done == processed(rows, limit)
           last == batchLastSeq(since, rows, done)
<1>1. n \in Nat \ {0}
  BY InternalLimit
<1> HIDE DEF n
<1>2. /\ all \in SUBSET DocId /\ rows \in SUBSET all
      /\ all # {} => rows # {}
      /\ \A d \in rows, e \in all : docs[e].seq <= docs[d].seq => e \in rows
  BY <1>1, Rows
<1>3. /\ \A d \in DocId : docs[d].seq \in Nat /\ docs[d].seq <= updateSeq
      /\ \A d \in all : docs[d].seq > since
      /\ updateSeq \in Nat
  BY DEF TypeOK, SeqInv, changesAfter
<1>4. /\ done \in SUBSET rows
      /\ rows # {} => done # {}
      /\ \A d \in done, e \in rows : docs[e].seq <= docs[d].seq => e \in done
  <2>1. rows \in SUBSET DocId /\ \A d \in rows : docs[d].seq # 0
    BY <1>2, <1>3
  <2> QED
    BY <2>1, Processed
<1> HIDE DEF all, rows, done
<1>5. CASE done = rows /\ rows = all
  <2>1. last = updateSeq
    BY <1>5 DEF batchLastSeq, couchLastSeq, all
  <2> QED
    BY <1>2, <1>3, <1>4, <1>5, <2>1 DEF all, rows, done, n
<1>6. CASE ~ (done = rows /\ rows = all)
  <2>1. done # {} /\ done \in SUBSET DocId
    BY <1>2, <1>4, <1>6
  <2>2. last = lastSeqOf(done)
    BY <1>6 DEF batchLastSeq, couchLastSeq, all
  <2>3. PICK x \in done : last = docs[x].seq
    BY <2>1, <2>2, LastSeq
  <2>4. \A d \in done : docs[d].seq <= last
    BY <2>1, <2>2, LastSeq
  <2>5. x \in DocId /\ x \in all /\ x \in rows
    BY <1>2, <1>4
  <2>6. last \in Nat /\ since <= last /\ last <= updateSeq
    BY <1>3, <2>3, <2>5
  <2>7. ASSUME NEW d \in all, docs[d].seq <= last
        PROVE  d \in done
    BY <1>2, <1>4, <2>3, <2>5, <2>7
  <2> QED
    BY <1>2, <1>4, <2>4, <2>6, <2>7 DEF all, rows, done, n
<1> QED
  BY <1>5, <1>6

\* No more changes are sent than the limit allows.
LEMMA BatchWithinLimit ==
    ASSUME TypeOK, SeqInv, NEW rows \in SUBSET DocId, NEW limit \in Nat \ {0}
    PROVE  LET sent == permitted(processed(rows, limit))
           IN  Cardinality(sent) \in Nat /\ Cardinality(sent) <= limit
<1> DEFINE done == processed(rows, limit)
           sent == permitted(done)
<1>1. sent \in SUBSET done /\ done \in SUBSET rows /\ sent \in SUBSET permitted(rows)
  BY DEF permitted, processed
<1>2. Cardinality(sent) \in Nat
  BY <1>1, Sizes
<1>3. CASE sent = {}
  BY <1>3, FS_EmptySet
<1>4. CASE sent # {}
  <2>1. PICK x \in sent : lastSeqOf(sent) = docs[x].seq
    BY <1>1, <1>4, LastSeq
  <2>2. \A d \in sent : docs[d].seq <= docs[x].seq
    BY <1>1, <1>4, <2>1, LastSeq
  <2> DEFINE upTo == {e \in permitted(rows) : docs[e].seq <= docs[x].seq}
  <2>3. Cardinality(upTo) <= limit
    BY <1>1 DEF processed
  <2>4. upTo \in SUBSET DocId /\ sent \in SUBSET upTo
    BY <1>1, <2>2 DEF permitted
  <2>5. Cardinality(sent) <= Cardinality(upTo) /\ Cardinality(upTo) \in Nat
    BY <2>4, Sizes
  <2> QED
    BY <1>2, <2>3, <2>5
<1> QED
  BY <1>2, <1>3, <1>4

\* pending is the number of changes after the last_seq of the batch.
LEMMA BatchPending ==
    ASSUME TypeOK, SeqInv, NEW since \in Nat, since <= updateSeq,
           NEW limit \in Nat \ {0}
    PROVE  LET rows == firstOf(changesAfter(since), internalLimit(limit))
               done == processed(rows, limit)
           IN  /\ batchPending(since, rows, done) =
                     Cardinality(changesAfter(batchLastSeq(since, rows, done)))
               /\ batchPending(since, rows, done) \in Nat
<1> DEFINE all == changesAfter(since)
           rows == firstOf(all, internalLimit(limit))
           done == processed(rows, limit)
           last == batchLastSeq(since, rows, done)
<1>1. /\ all \in SUBSET DocId /\ rows \in SUBSET all /\ done \in SUBSET rows
      /\ last \in Nat /\ since <= last /\ last <= updateSeq
      /\ \A d \in all : docs[d].seq <= last <=> d \in done
  BY Batch
<1>2. changesAfter(last) = (all \ rows) \cup (rows \ done)
  <2>1. \A d \in DocId : docs[d].seq \in Nat
    BY DEF TypeOK
  <2>2. \A d \in DocId : d \in all <=> docs[d].seq > since
    BY DEF changesAfter
  <2>3. \A d \in DocId : docs[d].seq > last <=> d \in all /\ d \notin done
    BY <1>1, <2>1, <2>2
  <2> QED
    BY <1>1, <2>3 DEF changesAfter
<1> HIDE DEF all, rows, done, last
<1>3. IsFiniteSet(all \ rows) /\ IsFiniteSet(rows \ done)
  BY <1>1, Sizes
<1>4. (all \ rows) \cap (rows \ done) = {}
  OBVIOUS
<1>5. Cardinality(changesAfter(last)) =
         Cardinality(all \ rows) + Cardinality(rows \ done) - 0
  BY <1>2, <1>3, <1>4, FS_Union, FS_EmptySet
<1>6. Cardinality(all \ rows) \in Nat /\ Cardinality(rows \ done) \in Nat
  BY <1>3, FS_CardinalityType
<1>7. batchPending(since, rows, done) =
         Cardinality(all \ rows) + Cardinality(rows \ done)
  BY DEF batchPending, couchPending, all
<1> QED
  BY <1>5, <1>6, <1>7 DEF all, rows, done, last

-----------------------------------------------------------------------------
(***************************************************************************)
(* The inductive invariant.  A response under way covers the changes from    *)
(* the checkpoint up to its since, before a batch as well as after one; and  *)
(* what it has sent it took from there, and was permitted to if it is still  *)
(* the latest.                                                              *)
(***************************************************************************)
Covered ==
    \A d \in Replicable :
        checkpoint < docs[d].seq /\ docs[d].seq <= request.since =>
            /\ isPermitted(d) => request.results[d] = docs[d].seq
            /\ isLost(d) => d \in request.lost

Sent ==
    \A d \in DocId :
        request.results[d] # 0 =>
            /\ d \in Replicable
            /\ checkpoint < request.results[d]
            /\ request.results[d] <= request.since
            /\ request.results[d] <= docs[d].seq
            /\ request.results[d] = docs[d].seq => isPermitted(d)

ServingInv ==
    /\ checkpoint <= updateSeq
    /\ request.pc # "idle" =>
          /\ checkpoint <= request.since /\ request.since <= updateSeq
          /\ request.pc = "fetch" => request.written < request.limit
          /\ Covered /\ Sent

StreamInv == TypeOK /\ SeqInv /\ ServingInv

\* The records of TypeOK by name.
RequestRecord ==
    [pc : {"idle", "fetch", "blocked", "check"}, limit : Nat, since : Nat,
     written : Nat, pending : Nat, results : [DocId -> Nat],
     lost : SUBSET DocId, closed : BOOLEAN]

\* No request is one.
LEMMA IdleTyped == Idle \in RequestRecord /\ Idle.pc = "idle"
  BY DEF Idle, RequestRecord

\* Nothing is written, asked for or received in the beginning.
LEMMA StreamInit == Init => StreamInv
<1> SUFFICES ASSUME Init
             PROVE  StreamInv
  OBVIOUS
<1>1. TypeOK
  <2>1. request \in RequestRecord
    BY IdleTyped DEF Init
  <2> QED
    BY <2>1 DEF Init, TypeOK, Kind, RequestRecord
<1>2. SeqInv
  BY DEF Init, SeqInv
<1>3. ServingInv
  BY IdleTyped DEF Init, ServingInv
<1> QED
  BY <1>1, <1>2, <1>3 DEF StreamInv

\* A write takes a document out of what was covered, behind every last_seq.
LEMMA StreamWrite ==
    ASSUME StreamInv, Write
    PROVE  StreamInv'
<1>1. PICK w \in DocId, k \in Kinds :
         docs' = [docs EXCEPT ![w] = [seq |-> updateSeq + 1, kind |-> k]]
  BY DEF Write
<1>2. /\ docs \in [DocId -> [seq : Nat, kind : Kind]] /\ updateSeq \in Nat
      /\ request \in RequestRecord /\ checkpoint \in Nat
      /\ \A d \in DocId : docs[d].seq <= updateSeq
  BY DEF StreamInv, TypeOK, SeqInv, RequestRecord
<1>3. /\ updateSeq' = updateSeq + 1
      /\ UNCHANGED <<request, checkpoint, received, faults>>
  BY DEF Write
<1>4. /\ docs'[w] = [seq |-> updateSeq + 1, kind |-> k]
      /\ \A d \in DocId : d # w => docs'[d] = docs[d]
  BY <1>1, <1>2
<1>5. TypeOK'
  <2>1. [seq |-> updateSeq + 1, kind |-> k] \in [seq : Nat, kind : Kind]
    BY <1>2, ChangesAssumption
  <2>2. docs' \in [DocId -> [seq : Nat, kind : Kind]]
    BY <1>1, <1>2, <2>1
  <2> QED
    BY <1>2, <1>3, <2>2 DEF StreamInv, TypeOK
<1>6. SeqInv'
  BY <1>2, <1>3, <1>4 DEF StreamInv, SeqInv
<1>7. ServingInv'
  <2>1. checkpoint' <= updateSeq'
    BY <1>2, <1>3 DEF StreamInv, ServingInv
  <2>2. ASSUME request.pc # "idle"
        PROVE  Covered' /\ Sent' /\ request'.since <= updateSeq'
    <3>1. request.since <= updateSeq /\ Covered /\ Sent /\ request.since \in Nat
      BY <1>2, <2>2 DEF StreamInv, ServingInv, RequestRecord
    <3>2. Covered'
      <4> SUFFICES ASSUME NEW d \in Replicable, checkpoint < docs'[d].seq,
                          docs'[d].seq <= request.since
                   PROVE  /\ isPermitted(d)' => request.results[d] = docs'[d].seq
                          /\ isLost(d)' => d \in request.lost
        BY <1>3 DEF Covered
      <4>1. d \in DocId
        BY ChangesAssumption
      <4>2. d # w
        BY <1>2, <1>4, <3>1
      <4>3. docs'[d] = docs[d]
        BY <1>4, <4>1, <4>2
      <4> QED
        BY <3>1, <4>3 DEF Covered, isPermitted, isLost
    <3>3. Sent'
      <4> SUFFICES ASSUME NEW d \in DocId, request.results[d] # 0
                   PROVE  /\ d \in Replicable
                          /\ checkpoint < request.results[d]
                          /\ request.results[d] <= request.since
                          /\ request.results[d] <= docs'[d].seq
                          /\ request.results[d] = docs'[d].seq => isPermitted(d)'
        BY <1>3 DEF Sent
      <4>1. /\ d \in Replicable
            /\ checkpoint < request.results[d]
            /\ request.results[d] <= request.since
            /\ request.results[d] <= docs[d].seq
            /\ request.results[d] = docs[d].seq => isPermitted(d)
        BY <3>1 DEF Sent
      <4>2. request.results[d] \in Nat
        BY <1>2 DEF RequestRecord
      <4>3. CASE d = w
        <5>1. docs'[d].seq = updateSeq + 1
          BY <1>4, <4>3
        <5> QED
          BY <1>2, <3>1, <4>1, <4>2, <5>1
      <4>4. CASE d # w
        <5>1. docs'[d] = docs[d]
          BY <1>4, <4>4
        <5> QED
          BY <4>1, <5>1 DEF isPermitted
      <4> QED
        BY <4>3, <4>4
    <3> QED
      BY <1>2, <1>3, <3>1, <3>2, <3>3
  <2> QED
    BY <1>3, <2>1, <2>2 DEF StreamInv, ServingInv
<1> QED
  BY <1>5, <1>6, <1>7 DEF StreamInv

\* A request begins where the client is: nothing is to be covered yet.
LEMMA StreamChanges ==
    ASSUME StreamInv, changes
    PROVE  StreamInv'
<1>1. PICK n \in Limit : request' = [Idle EXCEPT !.pc = "fetch", !.limit = n,
                                                 !.since = checkpoint]
  BY DEF changes
<1>2. UNCHANGED <<updateSeq, docs, checkpoint, received, faults>>
  BY DEF changes
<1>3. n \in Nat \ {0} /\ checkpoint \in Nat /\ updateSeq \in Nat
  BY ChangesAssumption DEF StreamInv, TypeOK
<1>4. /\ request' \in RequestRecord
      /\ request'.since = checkpoint /\ request'.written = 0 /\ request'.limit = n
      /\ request'.results = [d \in DocId |-> 0]
  BY <1>1, <1>3 DEF Idle, RequestRecord
<1>5. TypeOK' /\ SeqInv'
  BY <1>2, <1>4 DEF StreamInv, TypeOK, SeqInv, RequestRecord
<1>6. Sent'
  BY <1>4 DEF Sent
<1>7. Covered'
  <2>1. \A d \in Replicable : docs[d].seq \in Nat
    BY ChangesAssumption DEF StreamInv, TypeOK
  <2> QED
    BY <1>2, <1>3, <1>4, <2>1 DEF Covered
<1>8. ServingInv'
  BY <1>2, <1>3, <1>4, <1>6, <1>7 DEF StreamInv, ServingInv
<1> QED
  BY <1>5, <1>8 DEF StreamInv

\* A batch moves since to the last_seq of the batch, and everything in between
\* was processed.
LEMMA StreamFetch ==
    ASSUME StreamInv, getPermittedChanges
    PROVE  StreamInv'
<1>1. /\ request.pc = "fetch"
      /\ UNCHANGED <<updateSeq, docs, checkpoint, received, faults>>
  BY DEF getPermittedChanges
<1>2. /\ request \in RequestRecord /\ checkpoint \in Nat /\ updateSeq \in Nat
      /\ \A d \in DocId : docs[d].seq \in Nat
  BY DEF StreamInv, TypeOK, RequestRecord
<1>3. CASE request.closed
  <2>1. request' = Idle
    BY <1>3 DEF getPermittedChanges
  <2>2. TypeOK' /\ SeqInv'
    BY <1>1, <2>1, IdleTyped DEF StreamInv, TypeOK, SeqInv, RequestRecord
  <2>3. ServingInv'
    BY <1>1, <2>1, IdleTyped DEF StreamInv, ServingInv
  <2> QED
    BY <2>2, <2>3 DEF StreamInv
<1>4. CASE ~ request.closed
  <2> DEFINE since == request.since
             limit == remaining
             all   == changesAfter(since)
             rows  == firstOf(all, internalLimit(limit))
             done  == processed(rows, limit)
             sent  == permitted(done)
             last  == batchLastSeq(since, rows, done)
  <2>1. PICK pc \in {"check", "blocked"} :
           request' = [request EXCEPT
              !.pc = pc,
              !.written = request.written + Cardinality(sent),
              !.results = [d \in DocId |->
                              IF d \in sent THEN docs[d].seq
                              ELSE request.results[d]],
              !.lost = request.lost \cup {d \in done : isReplicable(d) /\ isLost(d)},
              !.since = last,
              !.pending = batchPending(since, rows, done)]
    BY <1>4 DEF getPermittedChanges
  <2>2. /\ since \in Nat /\ since <= updateSeq /\ limit \in Nat \ {0}
        /\ checkpoint <= since
    BY <1>1, <1>2 DEF StreamInv, ServingInv, remaining, RequestRecord
  <2>3. /\ all \in SUBSET DocId /\ rows \in SUBSET all /\ done \in SUBSET rows
        /\ last \in Nat /\ since <= last /\ last <= updateSeq
        /\ \A d \in all : docs[d].seq <= last <=> d \in done
    BY <2>2, Batch DEF StreamInv
  <2>4. Cardinality(sent) \in Nat
    BY <2>2, <2>3, BatchWithinLimit DEF StreamInv
  <2>5. batchPending(since, rows, done) \in Nat
    BY <2>2, BatchPending DEF StreamInv
  <2>6. \A d \in DocId : d \in all <=> docs[d].seq > since
    BY DEF changesAfter
  <2>7. \A d \in DocId :
           d \in sent <=> d \in done /\ d \in Replicable /\ isPermitted(d)
    BY DEF permitted, isReplicable
  <2> HIDE DEF since, limit, all, rows, done, sent, last
  <2>8. /\ request' \in RequestRecord
        /\ request'.pc = pc /\ request'.since = last
        /\ request'.lost = request.lost \cup
              {d \in done : isReplicable(d) /\ isLost(d)}
        /\ request'.results = [d \in DocId |->
              IF d \in sent THEN docs[d].seq ELSE request.results[d]]
    <3>1. [d \in DocId |-> IF d \in sent THEN docs[d].seq ELSE request.results[d]]
             \in [DocId -> Nat]
      BY <1>2 DEF RequestRecord
    <3>2. request.lost \cup {d \in done : isReplicable(d) /\ isLost(d)}
             \in SUBSET DocId
      BY <1>2, <2>3 DEF RequestRecord
    <3>3. request.written + Cardinality(sent) \in Nat
      BY <1>2, <2>4 DEF RequestRecord
    <3> QED
      BY <1>2, <2>1, <2>3, <2>5, <3>1, <3>2, <3>3 DEF RequestRecord
  <2>9. Covered /\ Sent
    BY <1>1 DEF StreamInv, ServingInv
  <2>10. Covered'
    <3> SUFFICES ASSUME NEW d \in Replicable, checkpoint < docs[d].seq,
                        docs[d].seq <= last
                 PROVE  /\ isPermitted(d) => request'.results[d] = docs[d].seq
                        /\ isLost(d) => d \in request'.lost
      BY <1>1, <2>8 DEF Covered, isPermitted, isLost
    <3>1. d \in DocId
      BY ChangesAssumption
    <3>2. CASE docs[d].seq > since
      <4>1. d \in done
        BY <2>3, <2>6, <3>1, <3>2
      <4> QED
        BY <2>7, <2>8, <3>1, <4>1 DEF isReplicable
    <3>3. CASE docs[d].seq <= since
      <4>1. /\ isPermitted(d) => request.results[d] = docs[d].seq
            /\ isLost(d) => d \in request.lost
        BY <2>9, <3>3 DEF Covered, since
      <4> QED
        BY <2>8, <3>1, <4>1
    <3> QED
      BY <1>2, <2>2, <3>1, <3>2, <3>3
  <2>11. Sent'
    <3> SUFFICES ASSUME NEW d \in DocId, request'.results[d] # 0
                 PROVE  /\ d \in Replicable
                        /\ checkpoint < request'.results[d]
                        /\ request'.results[d] <= last
                        /\ request'.results[d] <= docs[d].seq
                        /\ request'.results[d] = docs[d].seq => isPermitted(d)
      BY <1>1, <2>8 DEF Sent, isPermitted
    <3>1. CASE d \in sent
      <4>1. /\ request'.results[d] = docs[d].seq /\ d \in done /\ d \in all
            /\ d \in Replicable /\ isPermitted(d)
        BY <2>3, <2>7, <2>8, <3>1
      <4>2. docs[d].seq > since /\ docs[d].seq <= last
        BY <2>3, <2>6, <4>1
      <4> QED
        BY <1>2, <2>2, <4>1, <4>2
    <3>2. CASE d \notin sent
      <4>1. request'.results[d] = request.results[d] /\ request.results[d] \in Nat
        BY <1>2, <2>8, <3>2 DEF RequestRecord
      <4>2. /\ d \in Replicable
            /\ checkpoint < request.results[d]
            /\ request.results[d] <= since
            /\ request.results[d] <= docs[d].seq
            /\ request.results[d] = docs[d].seq => isPermitted(d)
        BY <2>9, <4>1 DEF Sent, since
      <4> QED
        BY <2>2, <2>3, <4>1, <4>2
    <3> QED
      BY <3>1, <3>2
  <2>12. TypeOK' /\ SeqInv'
    BY <1>1, <2>8 DEF StreamInv, TypeOK, SeqInv, RequestRecord
  <2>13. ServingInv'
    <3>1. checkpoint' = checkpoint /\ checkpoint <= last
      BY <1>1, <1>2, <2>2, <2>3
    <3> QED
      BY <1>1, <2>3, <2>8, <2>10, <2>11, <3>1 DEF StreamInv, ServingInv
  <2> QED
    BY <2>12, <2>13 DEF StreamInv
<1> QED
  BY <1>2, <1>3, <1>4 DEF RequestRecord

\* The steps between batches change neither what is covered nor what was sent.
LEMMA StreamBetween ==
    ASSUME StreamInv, drain \/ nextBatch \/ Disconnect
    PROVE  StreamInv'
<1>1. /\ request \in RequestRecord /\ faults \in Nat
      /\ UNCHANGED <<updateSeq, docs, checkpoint, received>>
      /\ request.pc # "idle"
  BY DEF StreamInv, TypeOK, RequestRecord, drain, nextBatch, Disconnect
<1>2. \/ request' = [request EXCEPT !.pc = "check"]
      \/ /\ request' = [request EXCEPT !.pc = "fetch"]
         /\ ~ (request.written >= request.limit)
      \/ request' = [request EXCEPT !.closed = TRUE]
  BY DEF drain, nextBatch, Disconnect, isIterationComplete
<1>3. /\ request' \in RequestRecord
      /\ request'.since = request.since /\ request'.results = request.results
      /\ request'.lost = request.lost /\ request'.pc # "idle"
      /\ request'.written = request.written /\ request'.limit = request.limit
      /\ request'.pc = "fetch" => \/ request.pc = "fetch"
                                 \/ ~ (request.written >= request.limit)
  BY <1>1, <1>2 DEF RequestRecord
<1>4. faults' \in Nat
  BY <1>1 DEF drain, nextBatch, Disconnect, Fault
<1>5. TypeOK' /\ SeqInv'
  BY <1>1, <1>3, <1>4 DEF StreamInv, TypeOK, SeqInv, RequestRecord
<1>6. Covered' /\ Sent'
  BY <1>1, <1>3 DEF StreamInv, ServingInv, Covered, Sent, isPermitted, isLost
<1>7. request.written \in Nat /\ request.limit \in Nat
  BY <1>1 DEF RequestRecord
<1>8. ServingInv'
  BY <1>1, <1>3, <1>6, <1>7 DEF StreamInv, ServingInv
<1> QED
  BY <1>5, <1>8 DEF StreamInv

\* A request ends, with or without a complete response.
LEMMA StreamEnd ==
    ASSUME StreamInv, onFailure \/ finish \/ UpstreamError
    PROVE  StreamInv'
<1>1. /\ request \in RequestRecord /\ received \in [DocId -> Nat]
      /\ checkpoint \in Nat /\ faults \in Nat
      /\ UNCHANGED <<updateSeq, docs>> /\ request.pc # "idle" /\ request' = Idle
  BY DEF StreamInv, TypeOK, RequestRecord, onFailure, finish, UpstreamError
<1>2. checkpoint' \in {checkpoint, request.since}
  BY DEF onFailure, finish, UpstreamError
<1>3. received' \in [DocId -> Nat]
  <2>1. [d \in DocId |-> IF request.results[d] # 0 THEN request.results[d]
                         ELSE received[d]] \in [DocId -> Nat]
    BY <1>1 DEF RequestRecord
  <2> QED
    BY <1>1, <2>1 DEF onFailure, finish, UpstreamError
<1>4. faults' \in Nat
  BY <1>1 DEF onFailure, finish, UpstreamError, Fault
<1>5. checkpoint' \in Nat /\ checkpoint' <= updateSeq
  BY <1>1, <1>2 DEF StreamInv, ServingInv, RequestRecord
<1>6. TypeOK' /\ SeqInv'
  BY <1>1, <1>3, <1>4, <1>5, IdleTyped
     DEF StreamInv, TypeOK, SeqInv, RequestRecord
<1>7. ServingInv'
  BY <1>1, <1>5, IdleTyped DEF ServingInv
<1> QED
  BY <1>6, <1>7 DEF StreamInv

\* The invariant is inductive.
LEMMA StreamStep == StreamInv /\ [Next]_vars => StreamInv'
<1>1. ASSUME StreamInv, UNCHANGED vars
      PROVE  StreamInv'
  BY <1>1 DEF vars, StreamInv, TypeOK, SeqInv, ServingInv, Covered, Sent,
              isPermitted, isLost
<1> QED
  BY <1>1, StreamWrite, StreamChanges, StreamFetch, StreamBetween, StreamEnd
     DEF Next, Serve

\* It holds in every state.
LEMMA StreamAlways == Spec => []StreamInv
  BY StreamInit, StreamStep, PTL DEF Spec

-----------------------------------------------------------------------------
(***************************************************************************)
(* Theorems                                                                *)
(***************************************************************************)
\* Requests, responses and the client's state keep their types: in particular no
\* batch is asked for with an empty limit, and every last_seq is a number.
THEOREM TypeCorrect == Spec => []TypeOK
<1>1. StreamInv => TypeOK
  BY DEF StreamInv
<1> QED
  BY <1>1, StreamAlways, PTL

\* getPermittedChanges: whatever is written between batches, the permitted
\* changes up to the last_seq of a response are among its results and the lost
\* ones among its lostPermissions.
THEOREM NothingEverSkipped == Spec => []NothingSkipped
<1>1. StreamInv => NothingSkipped
  BY DEF StreamInv, ServingInv, Covered, NothingSkipped
<1> QED
  BY <1>1, StreamAlways, PTL

\* filterChanges: a response stays within its limit, and pending counts the
\* changes after last_seq.
THEOREM BatchNumbersRight == Spec => BatchNumbers
<1>1. ASSUME StreamInv, [Next]_vars, request.pc = "fetch",
             request'.pc \in {"check", "blocked"}
      PROVE  /\ request'.written <= request'.limit
             /\ request'.pending = Cardinality(changesAfter(request'.since))
  <2>1. request \in RequestRecord
    BY <1>1 DEF StreamInv, TypeOK, RequestRecord
  <2>2. getPermittedChanges /\ ~ request.closed
    <3>1. request' # request /\ request' # Idle
      BY <1>1, IdleTyped
    <3>2. ~ Disconnect
      BY <1>1, <2>1 DEF Disconnect, RequestRecord
    <3> QED
      BY <1>1, <3>1, <3>2 DEF Next, Serve, Write, changes, getPermittedChanges,
         drain, onFailure, nextBatch, finish, UpstreamError, vars
  <2> DEFINE since == request.since
             limit == remaining
             rows  == firstOf(changesAfter(since), internalLimit(limit))
             done  == processed(rows, limit)
             sent  == permitted(done)
             last  == batchLastSeq(since, rows, done)
  <2>3. PICK pc \in {"check", "blocked"} :
           request' = [request EXCEPT
              !.pc = pc,
              !.written = request.written + Cardinality(sent),
              !.results = [d \in DocId |->
                              IF d \in sent THEN docs[d].seq
                              ELSE request.results[d]],
              !.lost = request.lost \cup {d \in done : isReplicable(d) /\ isLost(d)},
              !.since = last,
              !.pending = batchPending(since, rows, done)]
    BY <2>2 DEF getPermittedChanges
  <2>4. /\ since \in Nat /\ since <= updateSeq /\ limit \in Nat \ {0}
        /\ limit = request.limit - request.written
        /\ request.limit \in Nat /\ request.written \in Nat
    BY <1>1, <2>1 DEF StreamInv, ServingInv, remaining, RequestRecord
  <2>5. batchPending(since, rows, done) = Cardinality(changesAfter(last))
    BY <1>1, <2>4, BatchPending DEF StreamInv
  <2>6. rows \in SUBSET DocId
    BY DEF firstOf, changesAfter
  <2>7. Cardinality(sent) \in Nat /\ Cardinality(sent) <= limit
    BY <1>1, <2>4, <2>6, BatchWithinLimit DEF StreamInv
  <2> HIDE DEF since, limit, rows, done, sent, last
  <2>8. /\ request'.written = request.written + Cardinality(sent)
        /\ request'.limit = request.limit /\ request'.since = last
        /\ request'.pending = batchPending(since, rows, done)
    BY <2>1, <2>3 DEF RequestRecord
  <2>9. request'.written <= request'.limit
    BY <2>4, <2>7, <2>8
  <2> QED
    BY <2>5, <2>8, <2>9
<1> QED
  BY <1>1, StreamAlways, PTL DEF Spec, BatchNumbers

-----------------------------------------------------------------------------
(***************************************************************************)
(* The refinement of ChangesFeed                                           *)
(***************************************************************************)
\* A complete response is one step of the feed, from the checkpoint to the
\* last_seq of the response.
LEMMA FinishResponds ==
    ASSUME StreamInv, finish
    PROVE  [Feed!Next]_(Feed!vars)
<1>1. CASE request.closed
  BY <1>1 DEF finish, Feed!vars
<1>2. CASE ~ request.closed
  <2> DEFINE n == request.since
  <2>1. /\ checkpoint' = n /\ UNCHANGED <<updateSeq, docs>>
        /\ received' = [d \in DocId |->
              IF request.results[d] # 0 THEN request.results[d] ELSE received[d]]
    BY <1>2 DEF finish
  <2>2. /\ request \in RequestRecord /\ checkpoint \in Nat /\ updateSeq \in Nat
        /\ \A d \in DocId : docs[d].seq \in Nat
        /\ checkpoint <= n /\ n <= updateSeq /\ Covered /\ Sent
    BY DEF StreamInv, ServingInv, TypeOK, RequestRecord, finish
  <2>3. n \in checkpoint .. updateSeq /\ n \in Nat
    BY <2>2 DEF RequestRecord
  <2>4. ASSUME NEW d \in DocId
        PROVE  received'[d] \in IF Feed!Due(d, n) THEN {docs[d].seq}
                                ELSE {received[d]} \cup Feed!Replaced(d, n)
    <3>1. request.results[d] \in Nat
      BY <2>2 DEF RequestRecord
    <3>2. CASE Feed!Due(d, n)
      <4>1. d \in Replicable /\ isPermitted(d)
            /\ checkpoint < docs[d].seq /\ docs[d].seq <= n
        BY <3>2 DEF Feed!Due, isPermitted
      <4>2. request.results[d] = docs[d].seq /\ docs[d].seq # 0
        BY <2>2, <4>1 DEF Covered
      <4> QED
        BY <2>1, <3>2, <4>2
    <3>3. CASE ~ Feed!Due(d, n) /\ request.results[d] # 0
      <4>1. /\ d \in Replicable
            /\ checkpoint < request.results[d] /\ request.results[d] <= n
            /\ request.results[d] <= docs[d].seq
            /\ request.results[d] = docs[d].seq => isPermitted(d)
        BY <2>2, <3>3 DEF Sent
      <4>2. request.results[d] # docs[d].seq
        BY <3>3, <4>1 DEF Feed!Due, isPermitted
      <4>3. request.results[d] \in checkpoint + 1 .. n
        BY <2>2, <2>3, <3>1, <4>1
      <4>4. request.results[d] < docs[d].seq
        BY <2>2, <3>1, <4>1, <4>2
      <4>5. request.results[d] \in Feed!Replaced(d, n)
        BY <4>1, <4>3, <4>4 DEF Feed!Replaced
      <4> QED
        BY <2>1, <3>3, <4>5
    <3>4. CASE ~ Feed!Due(d, n) /\ request.results[d] = 0
      BY <2>1, <3>4
    <3> QED
      BY <3>2, <3>3, <3>4
  <2>5. received' = [d \in DocId |-> received'[d]]
    BY <2>1
  <2>6. Feed!Respond
    BY <2>1, <2>3, <2>4, <2>5 DEF Feed!Respond
  <2> QED
    BY <2>6 DEF Feed!Next
<1> QED
  BY <1>1, <1>2

\* Every step of the controller, the client and the database is a write, a
\* complete response, or invisible.
LEMMA StepsFeed ==
    ASSUME StreamInv, [Next]_vars
    PROVE  [Feed!Next]_(Feed!vars)
<1>1. CASE Write
  <2>1. PICK w \in DocId, k \in Kinds :
           docs' = [docs EXCEPT ![w] = [seq |-> updateSeq + 1, kind |-> k]]
    BY <1>1 DEF Write
  <2>2. docs \in [DocId -> [seq : Nat, kind : Kind]]
    BY DEF StreamInv, TypeOK
  <2>3. docs'[w] = [seq |-> updateSeq + 1, kind |-> k]
    BY <2>1, <2>2
  <2>4. docs' = [docs EXCEPT ![w] = docs'[w]]
    BY <2>1, <2>3, Zenon
  <2>5. docs'[w].seq = updateSeq + 1
    BY <2>3
  <2>6. Feed!Write
    BY <1>1, <2>4, <2>5 DEF Write, Feed!Write
  <2> QED
    BY <2>6 DEF Feed!Next
<1>2. CASE finish
  BY <1>2, FinishResponds
<1>3. CASE \/ changes \/ getPermittedChanges \/ drain \/ onFailure \/ nextBatch
           \/ UpstreamError \/ Disconnect \/ UNCHANGED vars
  BY <1>3 DEF changes, getPermittedChanges, drain, onFailure, nextBatch,
              UpstreamError, Disconnect, vars, Feed!vars
<1> QED
  BY <1>1, <1>2, <1>3 DEF Next, Serve

\* The controller with its batches, limits, filters, aborts and a client that
\* resumes implements the atomic feed: a client that follows last_seq misses
\* nothing that it may read.
THEOREM StreamImplementsFeed == Spec => ImplementsFeed
<1>1. Init => Feed!Init
  BY DEF Init, Feed!Init
<1> QED
  BY <1>1, StepsFeed, StreamAlways, PTL DEF Spec, ImplementsFeed, Feed!Spec
=============================================================================

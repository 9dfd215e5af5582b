----------------------------- MODULE ChangesFeed -----------------------------
(***************************************************************************)
(* What the filtered _changes endpoint promises a replicating client,       *)
(* without batches, limits, filters and connections: a complete response    *)
(* moves the client from one sequence number to a later one, and between     *)
(* the two nothing that it may read is missing.  Failed and aborted requests *)
(* are not visible.  ChangesStream implements this specification.           *)
(***************************************************************************)
EXTENDS Naturals

CONSTANTS
    DocId,
    Replicable,     \* the documents that are replicated at all
    Permitted       \* the kinds of changes that a user is sent

VARIABLES
    updateSeq,      \* the database's update sequence
    docs,           \* the latest change of every document
    checkpoint,     \* the client is complete up to here
    received        \* the change of each document that it received last

vars == <<updateSeq, docs, checkpoint, received>>

Init ==
    /\ updateSeq = 0
    /\ docs \in [DocId -> [seq : {0}, kind : {"missing"}]]
    /\ checkpoint = 0
    /\ received = [d \in DocId |-> 0]

\* A document gets a new latest change, which hides the one before.
Write ==
    /\ updateSeq' = updateSeq + 1
    /\ \E d \in DocId :
          /\ docs' = [docs EXCEPT ![d] = docs'[d]]
          /\ docs'[d].seq = updateSeq + 1
    /\ UNCHANGED <<checkpoint, received>>

\* What the client can hold of document d after a response that covers the
\* changes from the checkpoint up to n: the latest change if it is due, else
\* what it had, or a change in that range which was replaced meanwhile.
Due(d, n) ==
    /\ d \in Replicable
    /\ docs[d].kind \in Permitted
    /\ checkpoint < docs[d].seq /\ docs[d].seq <= n

Replaced(d, n) == {s \in checkpoint + 1 .. n : d \in Replicable /\ s < docs[d].seq}

Respond ==
    /\ \E n \in checkpoint .. updateSeq :
          /\ checkpoint' = n
          /\ \A d \in DocId :
                received'[d] \in IF Due(d, n) THEN {docs[d].seq}
                                 ELSE {received[d]} \cup Replaced(d, n)
    /\ received' = [d \in DocId |-> received'[d]]
    /\ UNCHANGED <<updateSeq, docs>>

Next == Write \/ Respond

Spec == Init /\ [][Next]_vars
=============================================================================

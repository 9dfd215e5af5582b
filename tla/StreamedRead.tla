---------------------------- MODULE StreamedRead ----------------------------
(***************************************************************************)
(* A _find, _all_docs or _bulk_get request from its authentication to its    *)
(* end (BulkDocEndpointsController, CouchdbService): CouchDB's response is   *)
(* filtered as it arrives and sent on at the client's pace.  CouchDB may     *)
(* answer with an error, break off or end early at any token, clients leave  *)
(* at any moment.                                                          *)
(*                                                                         *)
(* A piece of the response is a token; res is the response to the client.    *)
(* CouchDB's response has a document and the number of its tokens read, or   *)
(* the size of an error body.                                               *)
(***************************************************************************)
EXTENDS LoginCache, JsonArrayFilter

CONSTANTS
    Documents,              \* Documents[e]: the responses of CouchDB's endpoint e
    HighWaterMark,          \* pieces buffered before the source is paused
    MAX_ERROR_BODY_BYTES    \* in chunks

ASSUME StreamAssumption ==
    /\ Reader = User \cup {Anonymous}
    /\ \A e \in Endpoint : Documents[e] \subseteq Document
    /\ HighWaterMark \in Nat \ {0}
    /\ MAX_ERROR_BODY_BYTES \in Nat

VARIABLES
    source,         \* CouchDB's response to the request of a slot
    filtered,       \* the JsonArrayFilterTransform
    res             \* the response to the client

streamVars == <<source, filtered, res>>
vars == <<loginVars, streamVars>>

-----------------------------------------------------------------------------
NoSource == [state |-> "none", doc |-> <<>>, read |-> 0]
NoResponse == [state |-> "open", sent |-> 0, left |-> FALSE]
NoFilter == NewFilter("_find", Anonymous)

ReadTypeOK ==
    /\ LoginTypeOK
    /\ source \in
         [Slot -> [state : {"none", "asked", "errorBody", "open", "ended", "destroyed"},
                   doc : {<<>>} \cup UNION {Documents[e] : e \in Endpoint}, read : Nat]]
    /\ filtered \in [Slot -> Filter]
    /\ \A q \in Slot : res[q].sent \in 0 .. Len(filtered[q].out)
    /\ res \in [Slot -> [state : {"open", "status", "complete", "aborted"},
                         sent : Nat, left : BOOLEAN]]

Init ==
    /\ LoginInit
    /\ source = [q \in Slot |-> NoSource]
    /\ filtered = [q \in Slot |-> NoFilter]
    /\ res = [q \in Slot |-> NoResponse]

-----------------------------------------------------------------------------
isRead(q) == request[q].pc = "granted" /\ request[q].endpoint \in Endpoint
isStreaming(q) == isRead(q) /\ source[q].state \in {"open", "ended"}

over(q) == request' = [request EXCEPT ![q].pc = "over"]

\* The source ends in the given state and the request with an error: with a
\* status if nothing was sent, else the connection is cut.
failRead(q, state) ==
    /\ source' = [source EXCEPT ![q].state = state]
    /\ res' = [res EXCEPT ![q].state =
                 IF res[q].sent = 0 /\ ~ res[q].left THEN "status" ELSE "aborted"]
    /\ over(q)
    /\ UNCHANGED <<workload, password, loginCache, filtered>>

\* getStream, postStream
requestStream(q) ==
    /\ isRead(q)
    /\ source[q].state = "none"
    /\ source' = [source EXCEPT ![q].state = "asked"]
    /\ UNCHANGED <<loginVars, filtered, res>>

\* CouchDB answers with success and the handler goes on to streamFiltered.
streamFiltered(q) ==
    /\ source[q].state = "asked"
    /\ \E doc \in Documents[request[q].endpoint] :
          source' = [source EXCEPT ![q] = [state |-> "open", doc |-> doc, read |-> 0]]
    /\ filtered' = [filtered EXCEPT ![q] = NewFilter(request[q].endpoint, request[q].user)]
    /\ UNCHANGED <<loginVars, res>>

\* CouchDB answers with an error status and a body.
toBufferedError(q) ==
    /\ source[q].state = "asked"
    /\ source' = [source EXCEPT ![q].state = "errorBody"]
    /\ UNCHANGED <<loginVars, filtered, res>>

\* CouchDB does not answer.
RequestFail(q) ==
    /\ source[q].state = "asked"
    /\ failRead(q, "destroyed")

\* A chunk of the error body; one too many and it is given up.
readErrorChunk(q) ==
    /\ source[q].state = "errorBody"
    /\ \/ /\ source[q].read + 1 > MAX_ERROR_BODY_BYTES
          /\ failRead(q, "destroyed")
       \/ /\ source[q].read + 1 <= MAX_ERROR_BODY_BYTES
          /\ source' = [source EXCEPT ![q].read = @ + 1]
          /\ UNCHANGED <<loginVars, filtered, res>>

\* The error body ends or fails.
errorBodyEnd(q) ==
    /\ source[q].state = "errorBody"
    /\ failRead(q, "destroyed")

\* Mutant: the timer is started by the first chunk.
timeoutAfterChunk(q) ==
    /\ source[q].state = "errorBody"
    /\ source[q].read > 0
    /\ failRead(q, "destroyed")

\* It stalls, and the timer of readBoundedText destroys it.
errorBodyTimeout(q) ==
    /\ source[q].state = "errorBody"
    /\ failRead(q, "destroyed")

\* The parser passes a token on to the filter, which is not full.
transform(q) ==
    LET tokens == Tokens(source[q].doc)
        f == processToken(filtered[q], tokens[source[q].read + 1])
    IN  /\ isStreaming(q)
        /\ source[q].state = "open"
        /\ source[q].read < Len(tokens)
        /\ Len(filtered[q].out) - res[q].sent < HighWaterMark
        /\ \/ f.mode = "error" /\ failRead(q, "destroyed")
           \/ /\ f.mode # "error"
              /\ filtered' = [filtered EXCEPT ![q] = f]
              /\ source' = [source EXCEPT ![q].read = @ + 1]
              /\ UNCHANGED <<loginVars, res>>

\* The source ends, after the whole document or before.
sourceEnd(q) ==
    /\ isStreaming(q)
    /\ source[q].state = "open"
    /\ \/ Flushed(filtered[q]) /\ source' = [source EXCEPT ![q].state = "ended"]
                               /\ UNCHANGED <<loginVars, filtered, res>>
       \/ ~ Flushed(filtered[q]) /\ failRead(q, "ended")

\* The connection to CouchDB breaks, or what it sends is not JSON.
SourceFail(q) ==
    /\ isStreaming(q)
    /\ source[q].state = "open"
    /\ failRead(q, "destroyed")

\* A piece is written to the client, if it is still there.
forwardToResponse(q) ==
    /\ isStreaming(q)
    /\ ~ res[q].left
    /\ res[q].sent < Len(filtered[q].out)
    /\ res' = [res EXCEPT ![q].sent = @ + 1]
    /\ UNCHANGED <<loginVars, source, filtered>>

onFinish(q) ==
    /\ isStreaming(q)
    /\ ~ res[q].left
    /\ source[q].state = "ended"
    /\ res[q].sent = Len(filtered[q].out)
    /\ res' = [res EXCEPT ![q].state = "complete"]
    /\ over(q)
    /\ UNCHANGED <<workload, password, loginCache, source, filtered>>

\* Mutant: the response is given up and the source left alone.
onCloseOnly(q) ==
    /\ isStreaming(q)
    /\ ~ res[q].left
    /\ res' = [res EXCEPT ![q].state = "aborted", ![q].left = TRUE]
    /\ over(q)
    /\ UNCHANGED <<workload, password, loginCache, source, filtered>>

\* The client closes the connection: the filter is destroyed, and by the
\* pipeline the source.
onClose(q) ==
    /\ isStreaming(q)
    /\ ~ res[q].left
    /\ source' = [source EXCEPT ![q].state = IF @ = "open" THEN "destroyed" ELSE @]
    /\ res' = [res EXCEPT ![q].state = "aborted", ![q].left = TRUE]
    /\ over(q)
    /\ UNCHANGED <<workload, password, loginCache, filtered>>

\* The client closes it before CouchDB has answered: nobody listens yet, and
\* the close event does not come again.
ClientLeaves(q) ==
    /\ isRead(q)
    /\ source[q].state \in {"asked", "errorBody"}
    /\ ~ res[q].left
    /\ res' = [res EXCEPT ![q].left = TRUE]
    /\ UNCHANGED <<loginVars, source, filtered>>

\* Requests to other endpoints are answered, and a slot is free again.
answer(q) ==
    /\ \/ request[q].pc = "over"
       \/ request[q].pc = "granted" /\ request[q].endpoint \notin Endpoint
    /\ request' = [request EXCEPT ![q] = NoRequest]
    /\ source' = [source EXCEPT ![q] = NoSource]
    /\ filtered' = [filtered EXCEPT ![q] = NoFilter]
    /\ res' = [res EXCEPT ![q] = NoResponse]
    /\ UNCHANGED <<workload, password, loginCache>>

Read(q) ==
    \/ requestStream(q) \/ streamFiltered(q) \/ toBufferedError(q) \/ RequestFail(q)
    \/ readErrorChunk(q) \/ errorBodyEnd(q) \/ errorBodyTimeout(q)
    \/ transform(q) \/ sourceEnd(q) \/ SourceFail(q)
    \/ forwardToResponse(q) \/ onFinish(q) \/ onClose(q) \/ ClientLeaves(q)
    \/ answer(q)

Next ==
    \/ ChangePassword /\ UNCHANGED streamVars
    \/ Tick /\ UNCHANGED streamVars
    \/ \E q \in Slot : LoginStep(q) /\ UNCHANGED streamVars
    \/ \E q \in Slot : Read(q)

Spec == Init /\ [][Next]_vars

(***************************************************************************)
(* Time passes, CouchDB and the handlers go on, and a client reads or        *)
(* leaves.  An error body may stall: only the timer is sure to end it.       *)
(***************************************************************************)
FairSpec ==
    /\ Spec
    /\ WF_vars(Tick /\ UNCHANGED streamVars)
    /\ \A q \in Slot :
          /\ WF_vars((decideLogin(q) \/ LoginFail(q) \/ storeLogin(q)
                        \/ loginRefused(q)) /\ UNCHANGED streamVars)
          /\ WF_vars(requestStream(q) \/ streamFiltered(q) \/ toBufferedError(q))
          /\ WF_vars(errorBodyTimeout(q))
          /\ WF_vars(transform(q))
          /\ WF_vars(sourceEnd(q) /\ source[q].read = Len(Tokens(source[q].doc)))
          /\ WF_vars(forwardToResponse(q) \/ onClose(q))
          /\ WF_vars(onFinish(q) \/ answer(q))

-----------------------------------------------------------------------------
(***************************************************************************)
(* Properties                                                              *)
(***************************************************************************)

\* Whatever the order in which the response arrives, is filtered and sent, a
\* client has at any moment the first part of CouchDB's response without what
\* the user may not read, a response that ends properly is the whole of it,
\* and one that fails does so with a status only while nothing was sent.
FilteredAnswer ==
    \A q \in Slot :
        LET expected == Filtered(source[q].doc, filtered[q].options)
            sent == SubSeq(filtered[q].out, 1, res[q].sent)
        IN  /\ res[q].sent > 0 => IsPrefix(sent, expected)
            /\ res[q].state = "complete" => sent = expected
            /\ res[q].state = "status" => res[q].sent = 0

\* When a request is over, its response from CouchDB is read to the end or
\* destroyed: no connection is left behind by a client that went away or by
\* an error.
SourceReleased ==
    \A q \in Slot :
        request[q].pc = "over" => source[q].state \in {"none", "ended", "destroyed"}

\* Every streamed read ends, with CouchDB's errors and error bodies that
\* stall too, unless the client left before CouchDB had answered.
ReadsEnd ==
    \A q \in Slot : isRead(q) ~> (~ isRead(q) \/ res[q].left)
=============================================================================

----------------------------- MODULE ReadFilters -----------------------------
(***************************************************************************)
(* Which items of a _find, _all_docs or _bulk_get response a user gets        *)
(* (BulkDocumentService).  An item is the sequence of its JSON tokens; a      *)
(* string value in it stands for a document, by what the filters ask about:  *)
(*   "deleted"  a deleted document                                          *)
(*   "error"    the error entry for a missing key or revision                *)
(*   "bare"     a row without its document                                   *)
(*   "internal" a document that is not replicated, such as a design document *)
(* and any other text is a document that the user may read or not.          *)
(***************************************************************************)
EXTENDS Naturals, Sequences, SequencesExt, Subsequence

CONSTANTS
    Reader,         \* users, and Anonymous for none
    Text,           \* the texts of string values, keys included
    Readable        \* Readable[u]: the documents u may read

ASSUME ReadersAssumption == Readable \in [Reader -> SUBSET Text]

Token ==
    {<<name, "">> : name \in {"startObject", "endObject", "startArray",
                              "endArray", "comma"}}
    \cup {"keyValue", "stringValue"} \X Text

StartObject == <<"startObject", "">>
EndObject == <<"endObject", "">>
StartArray == <<"startArray", "">>
EndArray == <<"endArray", "">>
Comma == <<"comma", "">>
KeyValue(k) == <<"keyValue", k>>
StringValue(v) == <<"stringValue", v>>

-----------------------------------------------------------------------------
isInternal(text) == text = "internal"

findDocFilter(user, text) == ~ isInternal(text) /\ text \in Readable[user]

\* Rows without a document pass, those of documents that are not replicated
\* excepted.
allDocsRowFilter(user, text) ==
    \/ text = "error"
    \/ ~ isInternal(text) /\ text \in {"bare", "deleted"} \cup Readable[user]

isPermittedBulkGetDoc(user, text) == text \in {"deleted", "error"} \cup Readable[user]

Endpoint == {"_find", "_all_docs", "_bulk_get"}

isDoc(token) == token[1] = "stringValue"

docsIn(item) == {t[2] : t \in {u \in ToSet(item) : isDoc(u)}}

\* A _bulk_get result keeps those of its documents that are permitted, if any.
bulkGetResultMapper(user, item) ==
    LET mapped == Only(item, {t \in Token :
                    isDoc(t) => isPermittedBulkGetDoc(user, t[2])})
    IN  IF docsIn(mapped) = {} \/ (\E text \in docsIn(item) : isInternal(text))
        THEN <<>> ELSE mapped

\* The item to send, or no tokens for none.
mapItem(options, item) ==
    LET passes(text) == IF options.endpoint = "_find"
                        THEN findDocFilter(options.user, text)
                        ELSE allDocsRowFilter(options.user, text)
    IN  IF options.endpoint = "_bulk_get"
        THEN bulkGetResultMapper(options.user, item)
        ELSE IF \A text \in docsIn(item) : passes(text) THEN item ELSE <<>>
=============================================================================

--------------------------- MODULE MCStreamedRead ---------------------------
(***************************************************************************)
(* Small instances of StreamedRead: one read of a few responses with        *)
(* readable and hidden documents, nested values, members before and after   *)
(* the array and a root that is no object; or many overlapping logins.       *)
(***************************************************************************)
EXTENDS StreamedRead

CONSTANTS q1, q2, ann, bob, nobody

ReaderSet == {ann, bob, nobody}
ReadableDocs == [u \in ReaderSet |->
    IF u = ann THEN {"child", "school"} ELSE IF u = bob THEN {"school"} ELSE {}]
TextSet == {"rows", "total", "child", "school", "deleted", "error", "bare", "internal"}

Doc(text) == <<StartObject, KeyValue("total"), StringValue(text), EndObject>>
Result(texts) ==
    <<StartObject, KeyValue("total"), StartArray>>
    \o [i \in DOMAIN texts |-> StringValue(texts[i])] \o <<EndArray, EndObject>>

Responses ==
    [e \in Endpoint |->
        {<<>>, Root(<<StringValue("error")>>)} \cup
        CASE e = "_find" ->
               {<<Array("rows", <<Doc("internal"), Doc("school"), Doc("child")>>),
                  Plain("total", Enclosed(StartArray, <<StringValue("bare")>>, EndArray))>>}
          [] e = "_all_docs" ->
               {<<Plain("total", <<StringValue("bare")>>),
                  Array("rows", <<Doc("child"), Doc("error"), Doc("deleted")>>)>>,
                <<Array("rows", <<Doc("bare"), Doc("internal")>>)>>}
          [] e = "_bulk_get" ->
               {<<Array("rows", <<Result(<<"child">>), Result(<<"deleted", "child">>),
                                  Result(<<"error">>)>>)>>}]

Loads ==
    {[slots |-> {q1}, endpoints |-> Endpoint, credentials |-> {<<ann, 0>>},
      tokens |-> {bob}],
     [slots |-> {q1, q2}, endpoints |-> {"_local"},
      credentials |-> {ann, bob} \X {0, 1}, tokens |-> {}]}
=============================================================================

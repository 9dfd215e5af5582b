--------------------------- MODULE JsonArrayFilter ---------------------------
(***************************************************************************)
(* JsonArrayFilterTransform: filters the items of one array in a JSON        *)
(* object that arrives token by token, and writes JSON again token by        *)
(* token.  The state of the transform is a record, processToken a function   *)
(* on it; the text that a value is serialised to is its tokens.  Members     *)
(* and items are separated by a comma token on the way out.                  *)
(*                                                                         *)
(* The second half says what arrives and what the output should be, from     *)
(* the members of the object instead of its tokens.                          *)
(***************************************************************************)
EXTENDS ReadFilters

CONSTANT ArrayField         \* the key of the array that is filtered

ASSUME FilterAssumption == ArrayField \in Text

\* value holds what the assembler has consumed; empty for no assembler.
Filter ==
    [options : [endpoint : Endpoint, user : Reader],
     mode : {"init", "members", "value", "items", "done", "error"},
     pendingKey : Text \cup {""}, firstMember : BOOLEAN, firstItem : BOOLEAN,
     value : Seq(Token), valueDepth : Nat, out : Seq(Token)]

NewFilter(endpoint, user) ==
    [options |-> [endpoint |-> endpoint, user |-> user],
     mode |-> "init", pendingKey |-> "", firstMember |-> TRUE,
     firstItem |-> TRUE, value |-> <<>>, valueDepth |-> 0, out |-> <<>>]

-----------------------------------------------------------------------------
Error(f) == [f EXCEPT !.mode = "error"]

push(f, text) == [f EXCEPT !.out = @ \o text]

pushMemberPrefix(f) ==
    [f EXCEPT !.out = IF f.firstMember THEN @ ELSE Append(@, Comma),
              !.firstMember = FALSE]

\* Envelope fields are passed on unchanged.
memberComplete(f, value) ==
    [push(pushMemberPrefix(f), <<KeyValue(f.pendingKey)>> \o value)
        EXCEPT !.mode = "members"]

\* Mutant: the separator goes by the items read, not by the items written.
itemCompleteByPosition(f, value) ==
    LET mapped == mapItem(f.options, value)
        g == push(f, (IF f.firstItem THEN <<>> ELSE <<Comma>>) \o mapped)
    IN  [g EXCEPT !.firstItem = FALSE]

\* mapItem gives the item to write, or no tokens to drop it.
itemComplete(f, value) ==
    LET mapped == mapItem(f.options, value)
    IN  IF mapped = <<>> THEN f
        ELSE [push(f, (IF f.firstItem THEN <<>> ELSE <<Comma>>) \o mapped)
                EXCEPT !.firstItem = FALSE]

depthChange(f, token) ==
    IF token \in {StartObject, StartArray} THEN f.valueDepth + 1
    ELSE IF token \in {EndObject, EndArray} THEN f.valueDepth - 1
    ELSE f.valueDepth

onComplete(f, value) ==
    IF f.mode = "items" THEN itemComplete(f, value) ELSE memberComplete(f, value)

\* One more token of a value; the value is complete at depth 0.
consumeValueToken(f, token) ==
    IF f.value = <<>> /\ token[1] \notin {"startObject", "startArray", "stringValue"}
    THEN Error(f)
    ELSE LET value == Append(f.value, token)
             depth == depthChange(f, token)
         IN  IF depth = 0
             THEN onComplete([f EXCEPT !.value = <<>>, !.valueDepth = 0], value)
             ELSE [f EXCEPT !.value = value, !.valueDepth = depth]

processToken(f, token) ==
    CASE f.mode = "init" ->
            IF token = StartObject
            THEN [push(f, <<StartObject>>) EXCEPT !.mode = "members"]
            ELSE Error(f)
      [] f.mode = "members" ->
            IF token[1] = "keyValue"
            THEN [f EXCEPT !.pendingKey = token[2], !.mode = "value", !.value = <<>>]
            ELSE IF token = EndObject
                 THEN [push(f, <<EndObject>>) EXCEPT !.mode = "done"]
                 ELSE Error(f)
      [] f.mode = "value" ->
            IF f.value = <<>> /\ f.pendingKey = ArrayField /\ token = StartArray
            THEN [push(pushMemberPrefix(f), <<KeyValue(f.pendingKey), StartArray>>)
                    EXCEPT !.mode = "items", !.firstItem = TRUE]
            ELSE consumeValueToken(f, token)
      [] f.mode = "items" ->
            IF f.value = <<>> /\ token = EndArray
            THEN [push(f, <<EndArray>>) EXCEPT !.mode = "members"]
            ELSE consumeValueToken(f, token)
      [] OTHER -> Error(f)

\* _flush: the end of the input is an error unless the root object is closed.
Flushed(f) == f.mode = "done"

-----------------------------------------------------------------------------
(***************************************************************************)
(* What arrives.  A document is a sequence of members, each with a key and a *)
(* value, or with the items of the array; a root that is no object is a       *)
(* single member without a key.                                             *)
(***************************************************************************)
Plain(k, value) == [key |-> k, array |-> FALSE, parts |-> <<value>>]
Array(k, items) == [key |-> k, array |-> TRUE, parts |-> items]
Root(value) == <<Plain("", value)>>
isRoot(doc) == \E m \in ToSet(doc) : m.key = ""

\* How many brackets are open after each token of v.
nesting(v) ==
    LET depth[i \in 0 .. Len(v)] ==
            IF i = 0 THEN 0
            ELSE IF v[i] \in {StartObject, StartArray} THEN depth[i - 1] + 1
            ELSE IF v[i] \in {EndObject, EndArray} THEN depth[i - 1] - 1
            ELSE depth[i - 1]
    IN  depth

\* A string, or an object or array up to the bracket that closes it.
Value ==
    {v \in Seq(Token) \ {<<>>} :
        /\ v[1][1] \in {"startObject", "startArray", "stringValue"}
        /\ \A i \in 1 .. Len(v) :
              IF i = Len(v) THEN nesting(v)[i] = 0 ELSE nesting(v)[i] > 0}

Member ==
    {m \in [key : Text \ {""}, array : BOOLEAN, parts : Seq(Value)] :
        IF m.array THEN m.key = ArrayField
        ELSE /\ Len(m.parts) = 1
             /\ m.key = ArrayField => m.parts[1][1] # StartArray}

RootValue ==
    {m \in [key : {""}, array : {FALSE}, parts : Seq(Value)] :
        Len(m.parts) = 1 /\ m.parts[1][1] # StartObject}

Document == Seq(Member) \cup {doc \in Seq(RootValue) : Len(doc) = 1}

Enclosed(open, tokens, close) == <<open>> \o tokens \o <<close>>

MemberTokens(m) ==
    <<KeyValue(m.key)>> \o
    IF m.array THEN Enclosed(StartArray, FlattenSeq(m.parts), EndArray)
    ELSE m.parts[1]

\* The tokens in which a document arrives.
Tokens(doc) ==
    IF isRoot(doc) THEN doc[1].parts[1]
    ELSE Enclosed(StartObject,
            FlattenSeq([i \in DOMAIN doc |-> MemberTokens(doc[i])]), EndObject)

-----------------------------------------------------------------------------
(***************************************************************************)
(* What should come out: the document with the items of the array filtered,  *)
(* or nothing of a root that is no object.                                   *)
(***************************************************************************)
join(done, text) ==
    IF text = <<>> THEN done
    ELSE IF done = <<>> THEN text ELSE Append(done, Comma) \o text

\* The texts that are not empty with a comma between any two.
Separated(texts) ==
    LET done[i \in 0 .. Len(texts)] ==
            IF i = 0 THEN <<>> ELSE join(done[i - 1], texts[i])
    IN  done[Len(texts)]

MemberText(m, options) ==
    <<KeyValue(m.key)>> \o
    IF m.array
    THEN Enclosed(StartArray,
            Separated([i \in DOMAIN m.parts |-> mapItem(options, m.parts[i])]), EndArray)
    ELSE m.parts[1]

Filtered(doc, options) ==
    IF isRoot(doc) THEN <<>>
    ELSE Enclosed(StartObject,
            Separated([i \in DOMAIN doc |-> MemberText(doc[i], options)]), EndObject)
=============================================================================

------------------------- MODULE StreamedReadProofs -------------------------
(***************************************************************************)
(* Proofs about StreamedRead and the LoginCache in it, for any users,        *)
(* requests, responses of CouchDB, sizes of the cache and of the buffers.    *)
(***************************************************************************)
EXTENDS StreamedRead, SubsequenceProofs

-----------------------------------------------------------------------------
(***************************************************************************)
(* The operations on the login cache                                       *)
(***************************************************************************)
\* A Map: no key twice.
Distinct(cache) == \A i, j \in DOMAIN cache : cache[i].key = cache[j].key => i = j

IsCache(cache) == cache \in Seq(Entry) /\ Distinct(cache)

\* Deleting entries gives a cache with the entries that are left.
LEMMA Deleted ==
    ASSUME NEW cache, IsCache(cache), NEW S
    PROVE  /\ IsCache(Only(cache, S)) /\ Len(Only(cache, S)) <= Len(cache)
           /\ \A i \in DOMAIN cache : cache[i] \in S => cache[i].key \in Keys(Only(cache, S))
           /\ ToSet(Only(cache, S)) \subseteq ToSet(cache) \cap S
<1> DEFINE t == Only(cache, S)
<1>1. cache \in Seq(Entry)
  BY DEF IsCache
<1>2. t \in Seq(Entry) /\ Len(t) <= Len(cache) /\ Selected(cache, S, Len(cache), t)
  BY <1>1, OnlySelects
<1> HIDE DEF t
<1>3. PICK m \in [1 .. Len(t) -> 1 .. Len(cache)] :
         /\ \A j, k \in 1 .. Len(t) : j < k => m[j] < m[k]
         /\ \A j \in 1 .. Len(t) : t[j] = cache[m[j]] /\ t[j] \in S
         /\ \A l \in 1 .. Len(cache) : cache[l] \in S => \E j \in 1 .. Len(t) : m[j] = l
  BY <1>2 DEF Selected
<1>4. /\ DOMAIN t = 1 .. Len(t) /\ DOMAIN cache = 1 .. Len(cache)
      /\ Len(t) \in Nat /\ Len(cache) \in Nat
  BY <1>1, <1>2
<1>5. Distinct(t)
  <2>1. SUFFICES ASSUME NEW i \in 1 .. Len(t), NEW j \in 1 .. Len(t),
                        t[i].key = t[j].key, i # j
                 PROVE  FALSE
    BY <1>4 DEF Distinct
  <2>2. m[i] = m[j]
    <3>1. m[i] \in DOMAIN cache /\ m[j] \in DOMAIN cache
      BY <1>4, <2>1
    <3>2. cache[m[i]].key = cache[m[j]].key
      BY <1>3, <2>1
    <3> QED
      BY <3>1, <3>2 DEF IsCache, Distinct
  <2>3. m[i] < m[j] \/ m[j] < m[i]
    BY <1>3, <1>4, <2>1
  <2>4. m[i] \in Nat
    BY <1>3, <1>4, <2>1
  <2> QED
    BY <2>2, <2>3, <2>4
<1>6. \A i \in DOMAIN cache : cache[i] \in S => cache[i].key \in Keys(t)
  BY <1>3, <1>4 DEF Keys
<1>7. ToSet(t) \subseteq ToSet(cache) \cap S
  BY <1>3, <1>4 DEF ToSet
<1> QED
  BY <1>2, <1>5, <1>6, <1>7 DEF IsCache, t

\* After evictIfNeeded there is room for an entry.
LEMMA Evicted ==
    ASSUME NEW cache, IsCache(cache)
    PROVE  /\ IsCache(evictIfNeeded(cache))
           /\ Len(evictIfNeeded(cache)) < LOGIN_CACHE_MAX_ENTRIES
           /\ ToSet(evictIfNeeded(cache)) \subseteq ToSet(cache)
<1> DEFINE live == Only(cache, Live(cache))
           excess == Len(live) - LOGIN_CACHE_MAX_ENTRIES + 1
           rest == SubSeq(live, excess + 1, Len(live))
<1>1. /\ IsCache(live) /\ live \in Seq(Entry) /\ Len(live) \in Nat
      /\ ToSet(live) \subseteq ToSet(cache)
  BY Deleted DEF IsCache
<1>2. LOGIN_CACHE_MAX_ENTRIES \in Nat \ {0}
  BY LoginAssumption
<1>3. CASE Len(cache) < LOGIN_CACHE_MAX_ENTRIES
  BY <1>3 DEF evictIfNeeded
<1>4. CASE ~ (Len(cache) < LOGIN_CACHE_MAX_ENTRIES) /\ excess <= 0
  <2>1. evictIfNeeded(cache) = live
    BY <1>4 DEF evictIfNeeded
  <2> HIDE DEF live
  <2> QED
    BY <1>1, <1>2, <1>4, <2>1
<1>5. CASE ~ (Len(cache) < LOGIN_CACHE_MAX_ENTRIES) /\ ~ (excess <= 0)
  <2>1. evictIfNeeded(cache) = rest
    BY <1>5 DEF evictIfNeeded
  <2> HIDE DEF live
  <2>2. excess \in 1 .. Len(live) /\ Len(live) - excess = LOGIN_CACHE_MAX_ENTRIES - 1
    BY <1>1, <1>2, <1>5
  <2> HIDE DEF excess
  <2>3. /\ rest \in Seq(Entry) /\ Len(rest) = Len(live) - excess
        /\ \A i \in 1 .. Len(rest) : rest[i] = live[excess + i] /\ excess + i \in 1 .. Len(live)
    BY <1>1, <2>2
  <2> HIDE DEF rest
  <2>4. DOMAIN rest = 1 .. Len(rest) /\ DOMAIN live = 1 .. Len(live)
    BY <1>1, <2>3
  <2>5. Distinct(rest)
    BY <1>1, <2>2, <2>3, <2>4 DEF IsCache, Distinct
  <2>6. ToSet(rest) \subseteq ToSet(live)
    BY <2>3, <2>4 DEF ToSet
  <2>7. Len(rest) < LOGIN_CACHE_MAX_ENTRIES
    BY <1>2, <2>2, <2>3
  <2> QED
    BY <1>1, <2>1, <2>3, <2>5, <2>6, <2>7 DEF IsCache
<1> QED
  BY <1>3, <1>4, <1>5

\* Which live entry evictIfNeeded gives up.
LEMMA EvictedLive ==
    ASSUME NEW cache, IsCache(cache), Len(cache) <= LOGIN_CACHE_MAX_ENTRIES,
           NEW i \in DOMAIN cache, isLive(cache[i]),
           cache[i].key \notin Keys(evictIfNeeded(cache))
    PROVE  /\ Len(cache) >= LOGIN_CACHE_MAX_ENTRIES
           /\ \A entry \in ToSet(evictIfNeeded(cache)) : isLive(entry)
           /\ \A j \in DOMAIN cache : j # i /\ isLive(cache[j]) =>
                 cache[j].key \in Keys(evictIfNeeded(cache))
           /\ \A j \in 1 .. i - 1 : ~ isLive(cache[j])
<1> DEFINE S == Live(cache)
           t == Only(cache, S)
           excess == Len(t) - LOGIN_CACHE_MAX_ENTRIES + 1
<1>1. /\ cache \in Seq(Entry) /\ Len(cache) \in Nat /\ DOMAIN cache = 1 .. Len(cache)
      /\ LOGIN_CACHE_MAX_ENTRIES \in Nat \ {0}
  BY LoginAssumption DEF IsCache
<1>2. Len(cache) >= LOGIN_CACHE_MAX_ENTRIES
  BY <1>1 DEF evictIfNeeded, Keys
<1>3. evictIfNeeded(cache) = IF excess <= 0 THEN t ELSE SubSeq(t, excess + 1, Len(t))
  BY <1>1, <1>2 DEF evictIfNeeded
<1>4. /\ t \in Seq(Entry) /\ Len(t) \in Nat /\ DOMAIN t = 1 .. Len(t)
      /\ Len(t) <= Len(cache) /\ Selected(cache, S, Len(cache), t)
  BY <1>1, OnlySelects
<1>5. \A j \in DOMAIN cache : isLive(cache[j]) <=> cache[j] \in S
  BY DEF Live, ToSet
<1>6. \A j \in DOMAIN cache : isLive(cache[j]) => cache[j].key \in Keys(t)
  BY <1>5, Deleted
<1> HIDE DEF t, S
<1>7. PICK m \in [1 .. Len(t) -> 1 .. Len(cache)] :
         /\ \A j, k \in 1 .. Len(t) : j < k => m[j] < m[k]
         /\ \A j \in 1 .. Len(t) : t[j] = cache[m[j]] /\ t[j] \in S
         /\ \A l \in 1 .. Len(cache) : cache[l] \in S => \E j \in 1 .. Len(t) : m[j] = l
  BY <1>4 DEF Selected
<1>8. excess = 1 /\ Len(t) >= 1
  BY <1>1, <1>3, <1>4, <1>6
<1> DEFINE rest == SubSeq(t, 2, Len(t))
<1>9. evictIfNeeded(cache) = rest
  BY <1>3, <1>8
<1>10. /\ DOMAIN rest = 1 .. Len(t) - 1
       /\ \A j \in 1 .. Len(t) - 1 : rest[j] = t[j + 1]
  BY <1>4, <1>8
<1> HIDE DEF rest, excess
<1>11. ASSUME NEW j \in 1 .. Len(t), j # 1
       PROVE  cache[m[j]].key \in Keys(rest)
  <2>1. j - 1 \in 1 .. Len(t) - 1 /\ (j - 1) + 1 = j
    BY <1>4, <1>11
  <2>2. rest[j - 1] = cache[m[j]] /\ j - 1 \in DOMAIN rest
    BY <1>7, <1>10, <2>1
  <2> QED
    BY <2>2 DEF Keys
<1>12. m[1] = i
  <2>1. PICK j \in 1 .. Len(t) : m[j] = i
    BY <1>1, <1>5, <1>7
  <2> QED
    BY <1>9, <1>11, <2>1
<1>13. ASSUME NEW j \in DOMAIN cache, j # i, isLive(cache[j])
       PROVE  cache[j].key \in Keys(rest)
  <2>1. PICK k \in 1 .. Len(t) : m[k] = j
    BY <1>1, <1>5, <1>7, <1>13
  <2> QED
    BY <1>11, <1>12, <1>13, <2>1
<1>14. ASSUME NEW j \in 1 .. i - 1
       PROVE  ~ isLive(cache[j])
  <2>1. SUFFICES ASSUME isLive(cache[j]) PROVE FALSE
    OBVIOUS
  <2>2. j \in DOMAIN cache /\ j < i /\ j \in Nat /\ i \in Nat
    BY <1>1, <1>14
  <2>3. PICK k \in 1 .. Len(t) : m[k] = j
    BY <1>1, <1>5, <1>7, <2>1, <2>2
  <2>4. k = 1 \/ (1 < k /\ 1 \in 1 .. Len(t))
    BY <1>4, <2>3
  <2> QED
    BY <1>7, <1>12, <2>2, <2>3, <2>4
<1>15. \A entry \in ToSet(rest) : isLive(entry)
  <2>1. \A j \in 1 .. Len(t) - 1 : j + 1 \in 1 .. Len(t)
    BY <1>4
  <2>2. \A j \in 1 .. Len(t) - 1 : rest[j] \in S
    BY <1>7, <1>10, <2>1
  <2>3. \A x \in S : isLive(x)
    BY DEF S, Live
  <2> QED
    BY <1>10, <2>2, <2>3 DEF ToSet
<1> QED
  BY <1>2, <1>9, <1>13, <1>14, <1>15

\* Map.set on a cache with room for an entry.
LEMMA Set ==
    ASSUME NEW cache, IsCache(cache), Len(cache) < LOGIN_CACHE_MAX_ENTRIES,
           NEW key \in Credentials
    PROVE  /\ IsCache(setEntry(cache, key))
           /\ Len(setEntry(cache, key)) <= LOGIN_CACHE_MAX_ENTRIES
           /\ Keys(setEntry(cache, key)) = Keys(cache) \cup {key}
           /\ (\A entry \in ToSet(cache) : isLive(entry)) =>
                 \A entry \in ToSet(setEntry(cache, key)) : isLive(entry)
           /\ key \notin Keys(cache) => Last(setEntry(cache, key)).key = key
<1> DEFINE entry == [key |-> key, ttl |-> LOGIN_CACHE_TTL]
           c == setEntry(cache, key)
<1>1. /\ cache \in Seq(Entry) /\ Len(cache) \in Nat /\ DOMAIN cache = 1 .. Len(cache)
      /\ LOGIN_CACHE_MAX_ENTRIES \in Nat
      /\ Distinct(cache)
  BY LoginAssumption DEF IsCache
<1>2. entry \in Entry /\ entry.key = key /\ isLive(entry)
  BY LoginAssumption DEF Entry, isLive
<1> HIDE DEF entry
<1>3. CASE key \in Keys(cache)
  <2>1. c = [i \in DOMAIN cache |-> IF cache[i].key = key THEN entry ELSE cache[i]]
    BY <1>3 DEF setEntry, entry
  <2>2. /\ c \in Seq(Entry) /\ Len(c) = Len(cache) /\ DOMAIN c = DOMAIN cache
        /\ \A i \in DOMAIN cache : c[i] = IF cache[i].key = key THEN entry ELSE cache[i]
    <3>1. \A i \in 1 .. Len(cache) :
             (IF cache[i].key = key THEN entry ELSE cache[i]) \in Entry
      BY <1>1, <1>2
    <3>2. c \in Seq(Entry) /\ Len(c) = Len(cache)
      BY <1>1, <2>1, <3>1, IsASeq
    <3> QED
      BY <1>1, <2>1, <3>2
  <2> HIDE DEF c
  <2>3. \A i \in DOMAIN cache : c[i].key = cache[i].key
    BY <1>2, <2>2
  <2>4. Distinct(c)
    BY <1>1, <2>2, <2>3 DEF Distinct
  <2>5. Keys(c) = Keys(cache)
    BY <2>2, <2>3 DEF Keys
  <2>6. \A x \in ToSet(c) : x = entry \/ x \in ToSet(cache)
    BY <2>2 DEF ToSet
  <2> QED
    BY <1>1, <1>2, <1>3, <2>2, <2>4, <2>5, <2>6 DEF IsCache, c
<1>4. CASE key \notin Keys(cache)
  <2>1. c = Append(cache, entry)
    BY <1>4 DEF setEntry, entry
  <2>2. /\ c \in Seq(Entry) /\ Len(c) = Len(cache) + 1
        /\ DOMAIN c = 1 .. Len(cache) + 1
        /\ \A i \in 1 .. Len(cache) : c[i] = cache[i]
        /\ c[Len(cache) + 1] = entry
    BY <1>1, <1>2, <2>1
  <2> HIDE DEF c
  <2>3. \A i \in 1 .. Len(cache) + 1 : i \in 1 .. Len(cache) \/ i = Len(cache) + 1
    BY <1>1
  <2>4. \A i \in 1 .. Len(cache) : cache[i].key # key
    BY <1>1, <1>4 DEF Keys
  <2>5. Distinct(c)
    BY <1>1, <1>2, <2>2, <2>3, <2>4 DEF Distinct
  <2>6. Keys(c) = Keys(cache) \cup {key}
    <3>1. Len(cache) + 1 \in DOMAIN c /\ \A i \in 1 .. Len(cache) : i \in DOMAIN c
      BY <1>1, <2>2
    <3> QED
      BY <1>1, <1>2, <2>2, <2>3, <3>1 DEF Keys
  <2>7. \A x \in ToSet(c) : x = entry \/ x \in ToSet(cache)
    BY <1>1, <2>2, <2>3 DEF ToSet
  <2>8. Last(c).key = key
    BY <1>2, <2>2 DEF Last
  <2> QED
    BY <1>1, <1>2, <2>2, <2>5, <2>6, <2>7, <2>8 DEF IsCache, c
<1> QED
  BY <1>3, <1>4

-----------------------------------------------------------------------------
(***************************************************************************)
(* The transform                                                           *)
(***************************************************************************)
\* A filter with a key in hand when it waits for a value, and inside of a value
\* that is not complete.
IsFilter(f) ==
    /\ f \in Filter
    /\ f.value # <<>> => f.valueDepth > 0
    /\ f.mode = "value" => f.pendingKey \in Text

\* What is written stays, and is for the same client.
Grows(f, g) ==
    /\ g.options = f.options
    /\ Len(f.out) <= Len(g.out)
    /\ \A i \in 1 .. Len(f.out) : g.out[i] = f.out[i]

LEMMA Constants ==
    /\ StartObject \in Token /\ EndObject \in Token /\ StartArray \in Token
    /\ EndArray \in Token /\ Comma \in Token
    /\ \A k \in Text : KeyValue(k) \in Token
  BY DEF Token, StartObject, EndObject, StartArray, EndArray, Comma, KeyValue

LEMMA Written ==
    ASSUME NEW f \in Filter
    PROVE  f.out \in Seq(Token) /\ Len(f.out) \in Nat
<1>1. f.out \in Seq(Token)
  BY DEF Filter
<1> QED
  BY <1>1

LEMMA GrowsOn ==
    ASSUME NEW f \in Filter, NEW g \in Filter, NEW h, Grows(f, g), Grows(g, h)
    PROVE  Grows(f, h)
<1>1. Len(f.out) \in Nat /\ Len(g.out) \in Nat
  BY Written
<1>2. \A i \in 1 .. Len(f.out) : i \in 1 .. Len(g.out)
  BY <1>1 DEF Grows
<1> QED
  BY <1>1, <1>2 DEF Grows

\* More is written, or nothing.
LEMMA GrowsBy ==
    ASSUME NEW f \in Filter, NEW text \in Seq(Token), NEW g, g.options = f.options,
           g.out = f.out \/ g.out = f.out \o text
    PROVE  Grows(f, g)
<1>1. f.out \in Seq(Token) /\ Len(f.out) \in Nat
  BY Written
<1>2. CASE g.out = f.out
  BY <1>1, <1>2 DEF Grows
<1>3. CASE g.out = f.out \o text
  <2>1. Len(g.out) = Len(f.out) + Len(text) /\ Len(text) \in Nat
    BY <1>1, <1>3
  <2>2. \A i \in 1 .. Len(f.out) : g.out[i] = f.out[i]
    BY <1>1, <1>3
  <2> QED
    BY <1>1, <2>1, <2>2 DEF Grows
<1> QED
  BY <1>2, <1>3

LEMMA Pushes ==
    ASSUME NEW f \in Filter, NEW text \in Seq(Token)
    PROVE  /\ push(f, text) \in Filter /\ Grows(f, push(f, text))
           /\ push(f, text).value = f.value /\ push(f, text).mode = f.mode
           /\ push(f, text).pendingKey = f.pendingKey
           /\ push(f, text).valueDepth = f.valueDepth
<1>1. f.out \in Seq(Token)
  BY DEF Filter
<1>2. f.out \o text \in Seq(Token)
  BY <1>1
<1>3. push(f, text) = [f EXCEPT !.out = f.out \o text]
  BY DEF push, Filter
<1>4. push(f, text).out = f.out \o text /\ push(f, text).options = f.options
  BY <1>3 DEF Filter
<1>5. Grows(f, push(f, text))
  BY <1>4, GrowsBy
<1> QED
  BY <1>2, <1>3, <1>5 DEF Filter

LEMMA MemberPrefix ==
    ASSUME NEW f \in Filter, NEW g, g = pushMemberPrefix(f)
    PROVE  /\ g \in Filter /\ Grows(f, g)
           /\ g.value = f.value /\ g.mode = f.mode
           /\ g.pendingKey = f.pendingKey /\ g.valueDepth = f.valueDepth
<1> DEFINE out == IF f.firstMember THEN f.out ELSE Append(f.out, Comma)
<1>1. f.out \in Seq(Token)
  BY Written
<1>2. /\ out \in Seq(Token)
      /\ out = f.out \/ out = f.out \o <<Comma>>
  BY <1>1, Constants
<1>3. g = [f EXCEPT !.out = out, !.firstMember = FALSE]
  BY DEF pushMemberPrefix, Filter
<1> HIDE DEF out
<1>4. g \in Filter
  BY <1>2, <1>3 DEF Filter
<1>5. g.out = out /\ g.options = f.options
  BY <1>3 DEF Filter
<1>6. /\ g.value = f.value /\ g.mode = f.mode
      /\ g.pendingKey = f.pendingKey /\ g.valueDepth = f.valueDepth
  BY <1>3 DEF Filter
<1>7. Grows(f, g)
  <2>1. <<Comma>> \in Seq(Token)
    BY Constants
  <2> QED
    BY <1>2, <1>5, <2>1, GrowsBy
<1> QED
  BY <1>4, <1>6, <1>7

\* A change of mode.
LEMMA Modes ==
    ASSUME NEW f \in Filter,
           NEW mode \in {"init", "members", "value", "items", "done", "error"},
           NEW g, g = [f EXCEPT !.mode = mode]
    PROVE  /\ g \in Filter /\ Grows(f, g) /\ g.mode = mode
           /\ g.value = f.value /\ g.pendingKey = f.pendingKey
           /\ g.valueDepth = f.valueDepth
<1>1. g \in Filter
  BY DEF Filter
<1>2. g.out = f.out
  BY DEF Filter
<1>3. Grows(f, g)
  BY <1>2, Written DEF Grows
<1>4. /\ g.mode = mode /\ g.value = f.value /\ g.pendingKey = f.pendingKey
      /\ g.valueDepth = f.valueDepth
  BY DEF Filter
<1> QED
  BY <1>1, <1>3, <1>4

LEMMA Mapped ==
    ASSUME NEW options \in [endpoint : Endpoint, user : Reader], NEW item \in Seq(Token)
    PROVE  mapItem(options, item) \in Seq(Token)
<1>1. bulkGetResultMapper(options.user, item) \in Seq(Token)
  <2> DEFINE S == {t \in Token : isDoc(t) => isPermittedBulkGetDoc(options.user, t[2])}
  <2>1. Only(item, S) \in Seq(Token)
    BY OnlySelects
  <2> QED
    BY <2>1 DEF bulkGetResultMapper
<1> QED
  BY <1>1 DEF mapItem

\* A complete value goes to the client or, filtered, nowhere.
LEMMA Completes ==
    ASSUME NEW f, IsFilter(f), NEW value \in Seq(Token),
           f.mode \in {"value", "items"}, f.value = <<>>
    PROVE  IsFilter(onComplete(f, value)) /\ Grows(f, onComplete(f, value))
<1>1. f \in Filter /\ Len(f.out) \in Nat
  BY Written DEF IsFilter
<1>2. CASE f.mode = "items"
  <2> DEFINE mapped == mapItem(f.options, value)
             text == (IF f.firstItem THEN <<>> ELSE <<Comma>>) \o mapped
             g == push(f, text)
  <2>1. mapped \in Seq(Token)
    BY <1>1, Mapped DEF Filter
  <2>2. text \in Seq(Token)
    BY <2>1, Constants
  <2> HIDE DEF text
  <2>3. /\ g \in Filter /\ Grows(f, g) /\ g.value = <<>> /\ g.mode = "items"
    BY <1>1, <1>2, <2>2, Pushes
  <2> HIDE DEF g
  <2>4. CASE mapped = <<>>
    BY <1>1, <1>2, <2>4 DEF onComplete, itemComplete, Grows
  <2>5. CASE mapped # <<>>
    <3>1. onComplete(f, value) = [g EXCEPT !.firstItem = FALSE]
      BY <1>2, <2>5 DEF onComplete, itemComplete, g, text
    <3>2. [g EXCEPT !.firstItem = FALSE] \in Filter
      BY <2>3 DEF Filter
    <3>3. /\ [g EXCEPT !.firstItem = FALSE].value = <<>>
          /\ [g EXCEPT !.firstItem = FALSE].mode = "items"
          /\ [g EXCEPT !.firstItem = FALSE].out = g.out
      BY <2>3 DEF Filter
    <3> QED
      BY <2>3, <3>1, <3>2, <3>3 DEF IsFilter, Grows
  <2> QED
    BY <2>4, <2>5
<1>3. CASE f.mode = "value"
  <2> DEFINE g == pushMemberPrefix(f)
             text == <<KeyValue(f.pendingKey)>> \o value
             h == push(g, text)
  <2>1. g \in Filter /\ Grows(f, g) /\ g.value = <<>>
    <3>1. g = pushMemberPrefix(f)
      OBVIOUS
    <3> HIDE DEF g
    <3> QED
      BY <1>1, <3>1, MemberPrefix
  <2>2. text \in Seq(Token)
    BY <1>3, Constants DEF IsFilter
  <2> HIDE DEF g, text
  <2>3. h \in Filter /\ Grows(g, h) /\ h.value = <<>>
    BY <2>1, <2>2, Pushes
  <2>4. onComplete(f, value) = [h EXCEPT !.mode = "members"]
    BY <1>3 DEF onComplete, memberComplete, g, text
  <2> HIDE DEF h
  <2>5. /\ onComplete(f, value) \in Filter /\ Grows(h, onComplete(f, value))
        /\ onComplete(f, value).value = <<>> /\ onComplete(f, value).mode = "members"
    BY <2>3, <2>4, Modes
  <2>6. Grows(f, onComplete(f, value))
    BY <1>1, <2>1, <2>3, <2>5, GrowsOn
  <2> QED
    BY <2>5, <2>6 DEF IsFilter
<1> QED
  BY <1>2, <1>3

LEMMA Consumes ==
    ASSUME NEW f, IsFilter(f), NEW token \in Token, f.mode \in {"value", "items"}
    PROVE  /\ IsFilter(consumeValueToken(f, token))
           /\ Grows(f, consumeValueToken(f, token))
<1> DEFINE value == Append(f.value, token)
           depth == depthChange(f, token)
           r == consumeValueToken(f, token)
<1>1. f \in Filter /\ f.value \in Seq(Token) /\ f.valueDepth \in Nat
  BY DEF IsFilter, Filter
<1>2. value \in Seq(Token) /\ value # <<>>
  BY <1>1
<1>3. CASE f.value = <<>> /\ token[1] \notin {"startObject", "startArray", "stringValue"}
  <2>1. r = [f EXCEPT !.mode = "error"]
    BY <1>3 DEF consumeValueToken, Error
  <2> HIDE DEF r
  <2>2. /\ r \in Filter /\ Grows(f, r) /\ r.mode = "error" /\ r.value = f.value
        /\ r.valueDepth = f.valueDepth
    BY <1>1, <2>1, Modes
  <2> QED
    BY <2>2 DEF IsFilter, r
<1>4. CASE ~ (f.value = <<>> /\ token[1] \notin {"startObject", "startArray", "stringValue"})
  <2>1. depth \in Nat
    <3>1. CASE token \in {StartObject, StartArray}
      BY <1>1, <3>1 DEF depthChange
    <3>2. CASE token \notin {StartObject, StartArray} /\ token \in {EndObject, EndArray}
      <4>1. f.valueDepth > 0
        <5>1. token[1] \in {"endObject", "endArray"}
          <6>1. EndObject[1] = "endObject" /\ EndArray[1] = "endArray"
            BY DEF EndObject, EndArray
          <6> QED
            BY <3>2, <6>1
        <5>2. f.value # <<>>
          BY <1>4, <5>1
        <5> QED
          BY <5>2 DEF IsFilter
      <4> QED
        BY <1>1, <3>2, <4>1 DEF depthChange
    <3>3. CASE token \notin {StartObject, StartArray, EndObject, EndArray}
      BY <1>1, <3>3 DEF depthChange
    <3> QED
      BY <3>1, <3>2, <3>3
  <2>2. CASE depth = 0
    <3> DEFINE g == [f EXCEPT !.value = <<>>, !.valueDepth = 0]
    <3>1. r = onComplete(g, value)
      BY <1>4, <2>2 DEF consumeValueToken
    <3>2. <<>> \in Seq(Token)
      OBVIOUS
    <3>3. g \in Filter
      BY <1>1, <3>2 DEF Filter
    <3>4. /\ g.value = <<>> /\ g.mode = f.mode /\ g.pendingKey = f.pendingKey
          /\ g.out = f.out /\ g.options = f.options
      BY <1>1 DEF Filter
    <3> HIDE DEF g, value, depth
    <3>5. IsFilter(g)
      BY <3>3, <3>4 DEF IsFilter
    <3>6. IsFilter(onComplete(g, value)) /\ Grows(g, onComplete(g, value))
      BY <1>2, <3>4, <3>5, Completes
    <3> QED
      BY <3>1, <3>4, <3>6 DEF Grows
  <2>3. CASE depth # 0
    <3>1. r = [f EXCEPT !.value = value, !.valueDepth = depth]
      BY <1>4, <2>3 DEF consumeValueToken
    <3> HIDE DEF r, value, depth
    <3>2. r \in Filter
      BY <1>1, <1>2, <2>1, <3>1 DEF Filter
    <3>3. /\ r.valueDepth = depth /\ r.mode = f.mode /\ r.pendingKey = f.pendingKey
          /\ r.out = f.out /\ r.options = f.options
      BY <1>1, <3>1 DEF Filter
    <3>4. Grows(f, r)
      BY <1>1, <1>2, <3>3, GrowsBy
    <3>5. IsFilter(r)
      BY <2>1, <2>3, <3>2, <3>3 DEF IsFilter
    <3> QED
      BY <3>4, <3>5 DEF r
  <2> QED
    BY <2>2, <2>3
<1> QED
  BY <1>3, <1>4

\* Some tokens written, with a change of mode.
LEMMA PushesMode ==
    ASSUME NEW f, IsFilter(f), NEW text \in Seq(Token),
           NEW mode \in {"members", "items", "done"},
           NEW g, g = [push(f, text) EXCEPT !.mode = mode]
    PROVE  IsFilter(g) /\ Grows(f, g)
<1> DEFINE h == push(f, text)
<1>1. /\ h \in Filter /\ Grows(f, h) /\ h.value = f.value
      /\ h.valueDepth = f.valueDepth
  BY Pushes DEF IsFilter
<1>2. /\ g = [h EXCEPT !.mode = mode]
      /\ mode \in {"init", "members", "value", "items", "done", "error"}
  OBVIOUS
<1> HIDE DEF h
<1>3. g \in Filter
  BY <1>1, <1>2 DEF Filter
<1>4. /\ g.out = h.out /\ g.options = h.options /\ g.mode = mode
      /\ g.value = h.value /\ g.valueDepth = h.valueDepth
  BY <1>1, <1>2 DEF Filter
<1>5. Grows(f, g)
  BY <1>1, <1>4 DEF Grows
<1>6. IsFilter(g)
  BY <1>1, <1>3, <1>4 DEF IsFilter
<1> QED
  BY <1>5, <1>6

\* processToken keeps the transform well-formed, whatever the token.
LEMMA Processes ==
    ASSUME NEW f, IsFilter(f), NEW token \in Token
    PROVE  IsFilter(processToken(f, token)) /\ Grows(f, processToken(f, token))
<1> DEFINE r == processToken(f, token)
<1>1. f \in Filter
  BY DEF IsFilter
<1>2. ASSUME r = Error(f)
      PROVE  IsFilter(r) /\ Grows(f, r)
  <2>1. r = [f EXCEPT !.mode = "error"]
    BY <1>2 DEF Error
  <2> HIDE DEF r
  <2>2. /\ r \in Filter /\ Grows(f, r) /\ r.mode = "error" /\ r.value = f.value
        /\ r.valueDepth = f.valueDepth
    BY <1>1, <2>1, Modes
  <2> QED
    BY <2>2 DEF IsFilter
<1>3. \A t \in Token : <<t>> \in Seq(Token)
  OBVIOUS
<1>4. CASE f.mode = "init"
  <2>1. CASE token = StartObject
    <3>1. r = [push(f, <<StartObject>>) EXCEPT !.mode = "members"]
      BY <1>4, <2>1 DEF processToken
    <3> HIDE DEF r
    <3>2. IsFilter(r) /\ Grows(f, r)
      BY <1>3, <3>1, Constants, PushesMode
    <3> QED
      BY <3>2 DEF r
  <2>2. CASE token # StartObject
    BY <1>2, <1>4, <2>2 DEF processToken
  <2> QED
    BY <2>1, <2>2
<1>5. CASE f.mode = "members"
  <2>1. CASE token[1] = "keyValue"
    <3>1. r = [f EXCEPT !.pendingKey = token[2], !.mode = "value", !.value = <<>>]
      BY <1>5, <2>1 DEF processToken
    <3>2. token[2] \in Text /\ <<>> \in Seq(Token)
      <4>1. token \in {"keyValue", "stringValue"} \X Text
        <5>1. SUFFICES ASSUME NEW name \in {"startObject", "endObject", "startArray",
                                            "endArray", "comma"},
                              token = <<name, "">>
                       PROVE  FALSE
          BY DEF Token
        <5>2. token[1] = name
          BY <5>1
        <5> QED
          BY <2>1, <5>2
      <4>2. token[2] \in Text
        BY <4>1
      <4> QED
        BY <4>2
    <3> HIDE DEF r
    <3>3. r \in Filter
      BY <1>1, <3>1, <3>2 DEF Filter
    <3>4. /\ r.pendingKey = token[2] /\ r.value = <<>> /\ r.out = f.out
          /\ r.options = f.options
      BY <1>1, <3>1 DEF Filter
    <3>5. Grows(f, r)
      BY <1>1, <1>3, <3>4, GrowsBy
    <3> QED
      BY <3>2, <3>3, <3>4, <3>5 DEF IsFilter, r
  <2>2. CASE token[1] # "keyValue" /\ token = EndObject
    <3>1. r = [push(f, <<EndObject>>) EXCEPT !.mode = "done"]
      BY <1>5, <2>2 DEF processToken
    <3> HIDE DEF r
    <3>2. IsFilter(r) /\ Grows(f, r)
      BY <1>3, <3>1, Constants, PushesMode
    <3> QED
      BY <3>2 DEF r
  <2>3. CASE token[1] # "keyValue" /\ token # EndObject
    BY <1>2, <1>5, <2>3 DEF processToken
  <2> QED
    BY <2>1, <2>2, <2>3
<1>6. CASE f.mode = "value"
  <2>1. CASE f.value = <<>> /\ f.pendingKey = ArrayField /\ token = StartArray
    <3> DEFINE g == pushMemberPrefix(f)
               text == <<KeyValue(f.pendingKey), StartArray>>
               h == push(g, text)
    <3>1. r = [h EXCEPT !.mode = "items", !.firstItem = TRUE]
      BY <1>6, <2>1 DEF processToken
    <3>2. g \in Filter /\ Grows(f, g) /\ g.value = <<>>
      <4>1. g = pushMemberPrefix(f)
        OBVIOUS
      <4> HIDE DEF g
      <4> QED
        BY <1>1, <2>1, <4>1, MemberPrefix
    <3>3. text \in Seq(Token)
      BY <2>1, FilterAssumption, Constants
    <3> HIDE DEF g, text
    <3>4. h \in Filter /\ Grows(g, h) /\ h.value = <<>>
      BY <3>2, <3>3, Pushes
    <3> HIDE DEF h, r
    <3>5. r \in Filter
      BY <3>1, <3>4 DEF Filter
    <3>6. /\ r.mode = "items" /\ r.value = <<>> /\ r.out = h.out
          /\ r.options = h.options
      BY <3>1, <3>4 DEF Filter
    <3>7. Grows(f, r)
      <4>1. Grows(h, r)
        BY <3>3, <3>4, <3>6, GrowsBy
      <4> QED
        BY <1>1, <3>2, <3>4, <4>1, GrowsOn
    <3> QED
      BY <3>5, <3>6, <3>7 DEF IsFilter, r
  <2>2. CASE ~ (f.value = <<>> /\ f.pendingKey = ArrayField /\ token = StartArray)
    <3>1. r = consumeValueToken(f, token)
      BY <1>6, <2>2 DEF processToken
    <3> QED
      BY <1>6, <3>1, Consumes
  <2> QED
    BY <2>1, <2>2
<1>7. CASE f.mode = "items"
  <2>1. CASE f.value = <<>> /\ token = EndArray
    <3>1. r = [push(f, <<EndArray>>) EXCEPT !.mode = "members"]
      BY <1>7, <2>1 DEF processToken
    <3> HIDE DEF r
    <3>2. IsFilter(r) /\ Grows(f, r)
      BY <1>3, <3>1, Constants, PushesMode
    <3> QED
      BY <3>2 DEF r
  <2>2. CASE ~ (f.value = <<>> /\ token = EndArray)
    <3>1. r = consumeValueToken(f, token)
      BY <1>7, <2>2 DEF processToken
    <3> QED
      BY <1>7, <3>1, Consumes
  <2> QED
    BY <2>1, <2>2
<1>8. CASE f.mode \notin {"init", "members", "value", "items"}
  BY <1>2, <1>8 DEF processToken
<1> QED
  BY <1>4, <1>5, <1>6, <1>7, <1>8

\* A new filter is well-formed.
LEMMA FilterStarts ==
    ASSUME NEW endpoint \in Endpoint, NEW user \in Reader
    PROVE  /\ IsFilter(NewFilter(endpoint, user))
           /\ NewFilter(endpoint, user).out = <<>>
<1>1. <<>> \in Seq(Token)
  OBVIOUS
<1>2. NewFilter(endpoint, user) \in Filter
  BY <1>1 DEF NewFilter, Filter
<1> QED
  BY <1>2 DEF NewFilter, IsFilter

-----------------------------------------------------------------------------
(***************************************************************************)
(* The loops behind FlattenSeq, Separated and nesting                      *)
(***************************************************************************)
\* FlattenSeq is a loop that appends.
LEMMA Flattens ==
    ASSUME NEW S, NEW seqs \in Seq(Seq(S))
    PROVE  \E f : /\ f[0] = <<>>
                  /\ \A i \in 1 .. Len(seqs) : f[i] = f[i - 1] \o seqs[i]
                  /\ FlattenSeq(seqs) = f[Len(seqs)]
<1> DEFINE n == Len(seqs)
           V == Seq(S)
<1>1. /\ n \in Nat /\ <<>> \in V
      /\ \A i \in 1 .. n : seqs[i] \in V
      /\ \A i \in 1 .. n, t \in V : t \o seqs[i] \in V
  OBVIOUS
<1>2. CASE n = 0
  <2> DEFINE g == [i \in 0 .. 0 |-> <<>>]
  <2>1. seqs = <<>>
    BY <1>2
  <2>2. FlattenSeq(seqs) = seqs
    BY <1>2 DEF FlattenSeq
  <2>3. g[0] = <<>> /\ \A i \in 1 .. 0 : FALSE
    OBVIOUS
  <2>4. g[n] = FlattenSeq(seqs)
    BY <1>2, <2>1, <2>2, <2>3
  <2> HIDE DEF g
  <2> QED
    BY <1>2, <2>3, <2>4
<1>3. CASE n # 0
  <2> DEFINE Body(f) == [i \in 1 .. n |-> IF i = 1 THEN seqs[i] ELSE f[i - 1] \o seqs[i]]
             flat == CHOOSE f : f = Body(f)
             h == [i \in 1 .. n |-> [t \in V |-> t \o seqs[i]]]
             empty == <<>>
  <2>1. FlattenSeq(seqs) = flat[n]
    BY <1>3 DEF FlattenSeq
  <2>2. empty \in V /\ \A t \in V : empty \o t = t
    BY <1>1, ConcatEmptySeq DEF V
  <2> HIDE DEF empty, n, V, flat
  <2>3. h \in [1 .. n -> [V -> V]] /\ \A i \in 1 .. n, t \in V : h[i][t] = t \o seqs[i]
    BY <1>1
  <2> HIDE DEF h
  <2>4. PICK f \in [0 .. n -> V] : f[0] = empty /\ \A i \in 1 .. n : f[i] = h[i][f[i - 1]]
    <3>1. Computed(V, empty, n, h)
      BY <1>1, <2>2, <2>3, Recursion
    <3> QED
      BY <3>1 DEF Computed
  <2>5. \A i \in 1 .. n : i - 1 \in 0 .. n
    BY <1>1
  <2>6. \A i \in 1 .. n : f[i] = f[i - 1] \o seqs[i]
    BY <2>3, <2>4, <2>5
  <2> DEFINE g == [i \in 1 .. n |-> f[i]]
  <2>7. ASSUME NEW i \in 1 .. n
        PROVE  g[i] = IF i = 1 THEN seqs[i] ELSE g[i - 1] \o seqs[i]
    <3>1. CASE i = 1
      <4>1. f[i] = f[i - 1] \o seqs[i] /\ seqs[i] \in V /\ f[i - 1] = empty
        <5>1. i - 1 = 0
          BY <3>1
        <5> QED
          BY <1>1, <2>4, <2>6, <5>1
      <4>2. f[i] = seqs[i]
        BY <2>2, <4>1
      <4> QED
        BY <3>1, <4>2
    <3>2. CASE i # 1
      <4>1. i - 1 \in 1 .. n
        BY <1>1, <3>2
      <4> QED
        BY <2>6, <3>2, <4>1
    <3> QED
      BY <3>1, <3>2
  <2>8. g = Body(g)
    BY <2>7
  <2>9. flat = Body(flat)
    BY <2>8 DEF flat
  <2> DEFINE k == [i \in 0 .. n |-> IF i = 0 THEN empty ELSE flat[i]]
  <2>10. ASSUME NEW i \in 1 .. n
         PROVE  k[i] = k[i - 1] \o seqs[i]
    <3>1. flat[i] = IF i = 1 THEN seqs[i] ELSE flat[i - 1] \o seqs[i]
      BY <2>9
    <3>2. i - 1 \in 0 .. n /\ i \in 0 .. n /\ i # 0 /\ (i - 1 = 0 <=> i = 1)
      BY <1>1
    <3> QED
      BY <1>1, <2>2, <3>1, <3>2
  <2>11. k[0] = empty /\ k[n] = flat[n]
    BY <1>1, <1>3
  <2> HIDE DEF k
  <2> QED
    BY <2>1, <2>10, <2>11 DEF empty, n
<1> QED
  BY <1>2, <1>3

\* The loop of Separated.
LEMMA Separates ==
    ASSUME NEW texts \in Seq(Seq(Token))
    PROVE  \E f : /\ f[0] = <<>>
                  /\ \A i \in 1 .. Len(texts) : f[i] = join(f[i - 1], texts[i])
                  /\ Separated(texts) = f[Len(texts)]
<1> DEFINE n == Len(texts)
           V == Seq(Token)
           Body(f) == [i \in 0 .. n |->
                          IF i = 0 THEN <<>> ELSE join(f[i - 1], texts[i])]
           done == CHOOSE f : f = Body(f)
           h == [i \in 1 .. n |-> [t \in V |-> join(t, texts[i])]]
           empty == <<>>
<1>1. Separated(texts) = done[n]
  BY DEF Separated
<1>2. n \in Nat /\ empty \in V /\ \A i \in 1 .. n : texts[i] \in V
  OBVIOUS
<1>3. \A t, u \in V : join(t, u) \in V
  <2>1. Comma \in Token
    BY DEF Comma, Token
  <2> QED
    BY <2>1 DEF join
<1> HIDE DEF empty, n, V, done
<1>4. h \in [1 .. n -> [V -> V]] /\ \A i \in 1 .. n, t \in V : h[i][t] = join(t, texts[i])
  BY <1>2, <1>3
<1> HIDE DEF h
<1>5. PICK f \in [0 .. n -> V] : f[0] = empty /\ \A i \in 1 .. n : f[i] = h[i][f[i - 1]]
  <2>1. Computed(V, empty, n, h)
    BY <1>2, <1>4, Recursion
  <2> QED
    BY <2>1 DEF Computed
<1>6. \A i \in 1 .. n : i - 1 \in 0 .. n
  BY <1>2
<1>7. \A i \in 0 .. n : f[i] = IF i = 0 THEN <<>> ELSE join(f[i - 1], texts[i])
  <2>1. \A i \in 0 .. n : i # 0 => i \in 1 .. n
    BY <1>2
  <2> QED
    BY <1>4, <1>5, <1>6, <2>1 DEF empty
<1>8. f = Body(f)
  BY <1>7
<1>9. done = Body(done)
  BY <1>8 DEF done
<1>10. \A i \in 0 .. n : done[i] = IF i = 0 THEN <<>> ELSE join(done[i - 1], texts[i])
  BY <1>9
<1>11. done[0] = <<>> /\ \A i \in 1 .. n : done[i] = join(done[i - 1], texts[i])
  <2>1. 0 \in 0 .. n /\ \A i \in 1 .. n : i \in 0 .. n /\ i # 0
    BY <1>2
  <2> QED
    BY <1>10, <2>1
<1> QED
  BY <1>1, <1>11 DEF n

\* The loop of nesting.
LEMMA Nests ==
    ASSUME NEW v \in Seq(Token)
    PROVE  /\ nesting(v)[0] = 0
           /\ \A i \in 1 .. Len(v) :
                 nesting(v)[i] = IF v[i] \in {StartObject, StartArray} THEN nesting(v)[i - 1] + 1
                                 ELSE IF v[i] \in {EndObject, EndArray} THEN nesting(v)[i - 1] - 1
                                 ELSE nesting(v)[i - 1]
<1> DEFINE n == Len(v)
           After(d, t) == IF t \in {StartObject, StartArray} THEN d + 1
                          ELSE IF t \in {EndObject, EndArray} THEN d - 1 ELSE d
           Body(f) == [i \in 0 .. n |->
                          IF i = 0 THEN 0
                          ELSE IF v[i] \in {StartObject, StartArray} THEN f[i - 1] + 1
                          ELSE IF v[i] \in {EndObject, EndArray} THEN f[i - 1] - 1
                          ELSE f[i - 1]]
           depth == CHOOSE f : f = Body(f)
           h == [i \in 1 .. n |-> [d \in Int |-> After(d, v[i])]]
<1>1. nesting(v) = depth
  BY DEF nesting
<1>2. n \in Nat /\ \A d \in Int : \A t : After(d, t) \in Int
  OBVIOUS
<1> HIDE DEF n, depth, After
<1>4. h \in [1 .. n -> [Int -> Int]] /\ \A i \in 1 .. n, d \in Int : h[i][d] = After(d, v[i])
  BY <1>2
<1> HIDE DEF h
<1>5. PICK f \in [0 .. n -> Int] : f[0] = 0 /\ \A i \in 1 .. n : f[i] = h[i][f[i - 1]]
  <2>1. 0 \in Int
    OBVIOUS
  <2>2. Computed(Int, 0, n, h)
    BY <1>2, <1>4, <2>1, Recursion
  <2> QED
    BY <2>2 DEF Computed
<1>6. \A i \in 0 .. n : f[i] = IF i = 0 THEN 0 ELSE After(f[i - 1], v[i])
  <2>1. \A i \in 0 .. n : i # 0 => i \in 1 .. n /\ i - 1 \in 0 .. n
    BY <1>2
  <2> QED
    BY <1>4, <1>5, <2>1
<1>7. f = Body(f)
  BY <1>6 DEF After
<1>8. depth = Body(depth)
  BY <1>7 DEF depth
<1>9. \A i \in 0 .. n : depth[i] = IF i = 0 THEN 0 ELSE After(depth[i - 1], v[i])
  BY <1>8 DEF After
<1>10. depth[0] = 0 /\ \A i \in 1 .. n : depth[i] = After(depth[i - 1], v[i])
  <2>1. 0 \in 0 .. n /\ \A i \in 1 .. n : i \in 0 .. n /\ i # 0
    BY <1>2
  <2> QED
    BY <1>9, <2>1
<1> QED
  BY <1>1, <1>10 DEF After, n

-----------------------------------------------------------------------------
(***************************************************************************)
(* The transform over many tokens                                          *)
(***************************************************************************)
\* From its state f after the first k tokens of s, the transform gets to h.
Feeds(f, s, k, h) ==
    \E g : /\ g[k] = f /\ g[Len(s)] = h
           /\ \A i \in k + 1 .. Len(s) : g[i] = processToken(g[i - 1], s[i])

\* One token, and the tokens of s followed by those of t.
LEMMA FeedsToken ==
    ASSUME NEW f, NEW token
    PROVE  Feeds(f, <<token>>, 0, processToken(f, token))
<1> DEFINE h == processToken(f, token)
           g == [i \in 0 .. 1 |-> IF i = 0 THEN f ELSE h]
           s == <<token>>
<1>1. Len(s) = 1 /\ s[1] = token
  OBVIOUS
<1>2. g[0] = f /\ g[1] = h
  OBVIOUS
<1>3. \A i \in 0 + 1 .. 1 : g[i] = processToken(g[i - 1], s[i])
  BY <1>1, <1>2
<1> HIDE DEF g, s
<1>4. Feeds(f, s, 0, h)
  BY <1>1, <1>2, <1>3 DEF Feeds
<1> QED
  BY <1>4 DEF s

LEMMA FeedsBoth ==
    ASSUME NEW f, NEW g, NEW h, NEW s \in Seq(Token), NEW t \in Seq(Token),
           Feeds(f, s, 0, g), Feeds(g, t, 0, h)
    PROVE  Feeds(f, s \o t, 0, h)
<1>1. PICK a : /\ a[0] = f /\ a[Len(s)] = g
               /\ \A i \in 0 + 1 .. Len(s) : a[i] = processToken(a[i - 1], s[i])
  BY DEF Feeds
<1>2. PICK b : /\ b[0] = g /\ b[Len(t)] = h
               /\ \A i \in 0 + 1 .. Len(t) : b[i] = processToken(b[i - 1], t[i])
  BY DEF Feeds
<1> DEFINE n == Len(s)
           m == Len(t)
           u == s \o t
           c == [i \in 0 .. n + m |-> IF i <= n THEN a[i] ELSE b[i - n]]
<1>3. /\ n \in Nat /\ m \in Nat /\ Len(u) = n + m
      /\ \A i \in 1 .. n : u[i] = s[i]
      /\ \A i \in 1 .. n + m : i > n => u[i] = t[i - n]
  OBVIOUS
<1> HIDE DEF n, m, u
<1>4. \A i \in 0 .. n : c[i] = a[i]
  BY <1>3
<1>5. \A i \in 0 .. n + m : i >= n => c[i] = b[i - n]
  BY <1>1, <1>2, <1>3 DEF n
<1> HIDE DEF c
<1>6. c[0] = f /\ c[n + m] = h
  <2>1. 0 \in 0 .. n /\ n + m \in 0 .. n + m /\ n + m >= n /\ (n + m) - n = m
    BY <1>3
  <2> QED
    BY <1>1, <1>2, <1>4, <1>5, <2>1 DEF m
<1>7. ASSUME NEW i \in 0 + 1 .. n + m
      PROVE  c[i] = processToken(c[i - 1], u[i])
  <2>1. CASE i <= n
    <3>1. i \in 1 .. n /\ i - 1 \in 0 .. n /\ i \in 0 .. n
      BY <1>3, <2>1
    <3>2. a[i] = processToken(a[i - 1], s[i])
      BY <1>1, <3>1 DEF n
    <3> QED
      BY <1>3, <1>4, <3>1, <3>2
  <2>2. CASE ~ (i <= n)
    <3>1. /\ i \in 0 .. n + m /\ i >= n /\ i > n
          /\ i - 1 \in 0 .. n + m /\ i - 1 >= n
          /\ i - n \in 1 .. m /\ (i - 1) - n = (i - n) - 1
      BY <1>3, <2>2
    <3>2. b[i - n] = processToken(b[(i - n) - 1], t[i - n])
      BY <1>2, <3>1 DEF m
    <3>3. c[i] = b[i - n] /\ c[i - 1] = b[(i - n) - 1] /\ u[i] = t[i - n]
      BY <1>3, <1>5, <3>1
    <3> QED
      BY <3>2, <3>3
  <2> QED
    BY <2>1, <2>2
<1>8. Feeds(f, u, 0, h)
  BY <1>3, <1>6, <1>7 DEF Feeds
<1> QED
  BY <1>8 DEF u

\* What is left to do after one more token.
LEMMA FeedsOn ==
    ASSUME NEW f, NEW s \in Seq(Token), NEW k \in Nat, k < Len(s), NEW h, Feeds(f, s, k, h)
    PROVE  Feeds(processToken(f, s[k + 1]), s, k + 1, h)
<1>1. PICK g : /\ g[k] = f /\ g[Len(s)] = h
               /\ \A i \in k + 1 .. Len(s) : g[i] = processToken(g[i - 1], s[i])
  BY DEF Feeds
<1>2. k + 1 \in k + 1 .. Len(s) /\ (k + 1) - 1 = k
  OBVIOUS
<1>3. g[k + 1] = processToken(f, s[k + 1])
  BY <1>1, <1>2
<1>4. \A i \in (k + 1) + 1 .. Len(s) : i \in k + 1 .. Len(s)
  OBVIOUS
<1> QED
  BY <1>1, <1>3, <1>4 DEF Feeds

\* On the way nothing is taken back, and nothing leads out of the end of the
\* document or an error but an error.
LEMMA FeedsGrows ==
    ASSUME NEW f, IsFilter(f), NEW s \in Seq(Token), NEW k \in 0 .. Len(s), NEW h,
           Feeds(f, s, k, h)
    PROVE  /\ IsFilter(h) /\ Grows(f, h)
           /\ f.mode \in {"done", "error"} /\ k < Len(s) => h.mode = "error"
<1>1. PICK g : /\ g[k] = f /\ g[Len(s)] = h
               /\ \A i \in k + 1 .. Len(s) : g[i] = processToken(g[i - 1], s[i])
  BY DEF Feeds
<1> DEFINE ends == f.mode \in {"done", "error"}
           P == {i \in 0 .. Len(s) :
                    i >= k => /\ IsFilter(g[i]) /\ Grows(f, g[i])
                              /\ ends => g[i].mode \in {"done", "error"}
                              /\ ends /\ i > k => g[i].mode = "error"}
<1>2. Len(s) \in Nat /\ k \in Nat
  OBVIOUS
<1>3. Grows(f, f)
  <2>1. f.out \in Seq(Token) /\ f \in Filter
    BY Written DEF IsFilter
  <2> QED
    BY <2>1, GrowsBy
<1>4. ASSUME NEW i \in 0 .. Len(s), i = k
      PROVE  i \in P
  BY <1>1, <1>2, <1>3, <1>4
<1>5. 0 \in P
  BY <1>2, <1>4
<1>6. ASSUME NEW i \in 0 .. Len(s), i \in P, i < Len(s)
      PROVE  i + 1 \in P
  <2>1. CASE i < k
    <3>1. i + 1 \in 0 .. Len(s) /\ (i + 1 < k \/ i + 1 = k)
      BY <1>2, <1>6, <2>1
    <3>2. CASE i + 1 = k
      BY <1>4, <3>1, <3>2
    <3>3. CASE i + 1 < k
      BY <1>2, <3>1, <3>3
    <3> QED
      BY <3>1, <3>2, <3>3
  <2>2. CASE i >= k
    <3> DEFINE a == g[i]
               b == g[i + 1]
    <3>1. /\ i + 1 \in k + 1 .. Len(s) /\ (i + 1) - 1 = i /\ s[i + 1] \in Token
          /\ i + 1 \in 0 .. Len(s)
      BY <1>2, <1>6, <2>2
    <3>2. b = processToken(a, s[i + 1])
      BY <1>1, <3>1
    <3>3. IsFilter(a) /\ Grows(f, a) /\ (ends => a.mode \in {"done", "error"})
      BY <1>6, <2>2
    <3> HIDE DEF a, b
    <3>4. IsFilter(b) /\ Grows(a, b)
      BY <3>1, <3>2, <3>3, Processes
    <3>5. Grows(f, b)
      BY <3>3, <3>4, GrowsOn DEF IsFilter
    <3>6. ASSUME ends PROVE b.mode = "error"
      <4>1. b = [a EXCEPT !.mode = "error"]
        BY <3>2, <3>3, <3>6 DEF processToken, Error
      <4> QED
        BY <3>3, <4>1 DEF IsFilter, Filter
    <3> QED
      BY <3>1, <3>4, <3>5, <3>6 DEF b
  <2> QED
    BY <1>2, <2>1, <2>2
<1>7. Len(s) \in P
  <2> HIDE DEF P
  <2>1. \A i \in 0 .. Len(s) : i \in P
    BY <1>2, <1>5, <1>6, UpTo
  <2> QED
    BY <1>2, <2>1
<1> QED
  BY <1>1, <1>2, <1>7

\* A loop over parts of the document, with R between the transform and what is
\* written of the loop: every part takes the transform on in R.
LEMMA FeedsAll ==
    ASSUME NEW toks \in Seq(Seq(Token)), NEW texts \in Seq(Seq(Token)),
           Len(toks) = Len(texts), NEW R, NEW f, <<f, <<>>>> \in R,
           \A a, done, i : <<a, done>> \in R /\ i \in 1 .. Len(toks) =>
              \E b : Feeds(a, toks[i], 0, b) /\ <<b, join(done, texts[i])>> \in R
    PROVE  /\ FlattenSeq(toks) \in Seq(Token)
           /\ \E b : Feeds(f, FlattenSeq(toks), 0, b) /\ <<b, Separated(texts)>> \in R
<1> DEFINE n == Len(toks)
<1>1. PICK F : /\ F[0] = <<>>
               /\ \A i \in 1 .. n : F[i] = F[i - 1] \o toks[i]
               /\ FlattenSeq(toks) = F[n]
  BY Flattens
<1>2. PICK D : /\ D[0] = <<>>
               /\ \A i \in 1 .. n : D[i] = join(D[i - 1], texts[i])
               /\ Separated(texts) = D[n]
  BY Separates
<1>3. n \in Nat /\ \A i \in 1 .. n : toks[i] \in Seq(Token)
  OBVIOUS
<1> DEFINE P == {i \in 0 .. n : /\ F[i] \in Seq(Token)
                                /\ \E b : Feeds(f, F[i], 0, b) /\ <<b, D[i]>> \in R}
<1>4. 0 \in P
  <2> DEFINE none == F[0]
             g == [i \in 0 .. 0 |-> f]
  <2>1. none \in Seq(Token) /\ Len(none) = 0
    BY <1>1
  <2>2. g[0] = f /\ \A i \in 0 + 1 .. 0 : FALSE
    OBVIOUS
  <2> HIDE DEF none, g
  <2>3. Feeds(f, none, 0, f)
    BY <2>1, <2>2 DEF Feeds
  <2>4. <<f, D[0]>> \in R
    BY <1>2
  <2>5. 0 \in 0 .. n
    BY <1>3
  <2> QED
    BY <2>1, <2>3, <2>4, <2>5 DEF none
<1>5. ASSUME NEW i \in 0 .. n, i \in P, i < n
      PROVE  i + 1 \in P
  <2>1. /\ i + 1 \in 1 .. n /\ i + 1 \in 0 .. n /\ (i + 1) - 1 = i
        /\ toks[i + 1] \in Seq(Token)
    BY <1>3, <1>5
  <2>2. PICK a : Feeds(f, F[i], 0, a) /\ <<a, D[i]>> \in R
    BY <1>5
  <2>3. PICK b : Feeds(a, toks[i + 1], 0, b) /\ <<b, join(D[i], texts[i + 1])>> \in R
    BY <2>1, <2>2
  <2>4. F[i + 1] = F[i] \o toks[i + 1] /\ D[i + 1] = join(D[i], texts[i + 1])
    BY <1>1, <1>2, <2>1
  <2>5. F[i] \in Seq(Token)
    BY <1>5
  <2>6. F[i] \o toks[i + 1] \in Seq(Token)
    BY <2>1, <2>5
  <2>7. Feeds(f, F[i] \o toks[i + 1], 0, b)
    BY <2>1, <2>2, <2>3, <2>5, FeedsBoth
  <2> QED
    BY <2>1, <2>3, <2>4, <2>6, <2>7
<1>6. n \in P
  <2> HIDE DEF P
  <2>1. \A i \in 0 .. n : i \in P
    BY <1>3, <1>4, <1>5, UpTo
  <2> QED
    BY <1>3, <2>1
<1> QED
  BY <1>1, <1>2, <1>6

\* The filter while it reads the value v: the assembler has the first i tokens.
Reading(f, v, i) ==
    [f EXCEPT !.value = SubSeq(v, 1, i), !.valueDepth = nesting(v)[i]]

\* What a value is, by the names of its parts.
LEMMA ValueFacts ==
    ASSUME NEW v \in Value
    PROVE  /\ v \in Seq(Token) /\ Len(v) \in Nat \ {0}
           /\ v[1][1] \in {"startObject", "startArray", "stringValue"}
           /\ \A i \in 1 .. Len(v) :
                 IF i = Len(v) THEN nesting(v)[i] = 0 ELSE nesting(v)[i] > 0
  BY DEF Value

\* A value is read up to its last token and then goes to its place.
LEMMA FeedsValue ==
    ASSUME NEW f \in Filter, NEW v \in Value, f.value = <<>>, f.valueDepth = 0,
           \/ f.mode = "items"
           \/ f.mode = "value" /\ ~ (f.pendingKey = ArrayField /\ v[1] = StartArray)
    PROVE  Feeds(f, v, 0, onComplete(f, v))
<1> DEFINE n == Len(v)
           h == onComplete(f, v)
           g == [i \in 0 .. n |-> IF i = n THEN h ELSE Reading(f, v, i)]
<1>1. /\ v \in Seq(Token) /\ n \in Nat /\ n # 0
      /\ v[1][1] \in {"startObject", "startArray", "stringValue"}
      /\ \A i \in 1 .. n : IF i = n THEN nesting(v)[i] = 0 ELSE nesting(v)[i] > 0
  BY ValueFacts
<1>2. Reading(f, v, 0) = f
  <2>1. SubSeq(v, 1, 0) = <<>> /\ nesting(v)[0] = 0
    BY <1>1, Nests, SubSeqEmpty
  <2>2. [f EXCEPT !.value = f.value, !.valueDepth = f.valueDepth] = f
    BY DEF Filter
  <2> QED
    BY <2>1, <2>2 DEF Reading
<1>3. ASSUME NEW i \in 0 .. n, i < n
      PROVE  processToken(Reading(f, v, i), v[i + 1]) =
               IF i + 1 = n THEN h ELSE Reading(f, v, i + 1)
  <2> DEFINE a == Reading(f, v, i)
             token == v[i + 1]
             value == SubSeq(v, 1, i + 1)
             depth == nesting(v)[i + 1]
  <2>1. i \in Nat /\ i + 1 \in 1 .. n /\ token \in Token /\ (i + 1) - 1 = i
    BY <1>1, <1>3
  <2>2. /\ SubSeq(v, 1, i) \in Seq(Token) /\ Len(SubSeq(v, 1, i)) = i
        /\ Append(SubSeq(v, 1, i), token) = value
    BY <1>1, <1>3, <2>1
  <2>3. /\ a.value = SubSeq(v, 1, i) /\ a.valueDepth = nesting(v)[i]
        /\ a.mode = f.mode /\ a.pendingKey = f.pendingKey
    BY DEF Reading, Filter
  <2>4. a.value = <<>> <=> i = 0
    BY <2>1, <2>2, <2>3
  <2>5. depthChange(a, token) = depth
    BY <1>1, <2>1, <2>3, Nests DEF depthChange
  <2>6. [a EXCEPT !.value = value, !.valueDepth = depth] = Reading(f, v, i + 1)
    BY DEF Reading, Filter
  <2>7. [a EXCEPT !.value = <<>>, !.valueDepth = 0] = f
    <3>1. [a EXCEPT !.value = f.value, !.valueDepth = f.valueDepth] = f
      BY DEF Reading, Filter
    <3> QED
      BY <3>1
  <2>8. depth = 0 <=> i + 1 = n
    BY <1>1, <2>1
  <2>9. i + 1 = n => value = v
    BY <1>1, SubSeqFull
  <2>10. i = 0 => token[1] \in {"startObject", "startArray", "stringValue"}
    BY <1>1
  <2>11. processToken(a, token) = consumeValueToken(a, token)
    <3>1. i = 0 => token # EndArray
      <4>1. EndArray[1] = "endArray"
        BY DEF EndArray
      <4> QED
        BY <2>10, <4>1
    <3>2. i = 0 => token = v[1]
      OBVIOUS
    <3> HIDE DEF a, token
    <3> QED
      BY <2>3, <2>4, <3>1, <3>2 DEF processToken
  <2> HIDE DEF a, token, value, depth, h
  <2>12. consumeValueToken(a, token) =
           IF depth = 0
           THEN onComplete([a EXCEPT !.value = <<>>, !.valueDepth = 0], value)
           ELSE [a EXCEPT !.value = value, !.valueDepth = depth]
    BY <2>2, <2>3, <2>4, <2>5, <2>10 DEF consumeValueToken
  <2> QED
    BY <2>6, <2>7, <2>8, <2>9, <2>11, <2>12 DEF a, token, h
<1> HIDE DEF h
<1>4. g[0] = f /\ g[n] = h
  BY <1>1, <1>2
<1>5. ASSUME NEW i \in 0 + 1 .. n
      PROVE  g[i] = processToken(g[i - 1], v[i])
  <2>1. i - 1 \in 0 .. n /\ i - 1 < n /\ (i - 1) + 1 = i /\ i - 1 # n
    BY <1>1
  <2>2. processToken(Reading(f, v, i - 1), v[i]) = IF i = n THEN h ELSE Reading(f, v, i)
    BY <1>3, <2>1
  <2> QED
    BY <2>1, <2>2
<1> HIDE DEF g
<1> QED
  BY <1>4, <1>5 DEF Feeds, n, h

-----------------------------------------------------------------------------
(***************************************************************************)
(* The text of a document                                                  *)
(*                                                                         *)
(* What is written follows what the document is filtered to: items of the  *)
(* array, members, and the document.                                       *)
(***************************************************************************)
\* Concatenation, by a name that the provers do not look into.
Cat(s, t) == s \o t

\* What the proofs use of it.
LEMMA Cats ==
    ASSUME NEW s \in Seq(Token), NEW t \in Seq(Token)
    PROVE  /\ Cat(s, t) \in Seq(Token)
           /\ Cat(s, <<>>) = s /\ Cat(<<>>, s) = s
           /\ t # <<>> \/ s # <<>> => Cat(s, t) # <<>>
<1>1. s \o t \in Seq(Token)
  OBVIOUS
<1>2. s \o <<>> = s /\ <<>> \o s = s
  BY ConcatEmptySeq
<1>3. t # <<>> \/ s # <<>> => s \o t # <<>>
  BY ConcatEqualIffEmpty
<1> QED
  BY <1>1, <1>2, <1>3 DEF Cat

LEMMA CatsOfThree ==
    ASSUME NEW s \in Seq(Token), NEW t \in Seq(Token), NEW u \in Seq(Token)
    PROVE  Cat(Cat(s, t), u) = Cat(s, Cat(t, u))
  BY ConcatAssociative DEF Cat

LEMMA FeedsCat ==
    ASSUME NEW f, NEW g, NEW h, NEW s \in Seq(Token), NEW t \in Seq(Token),
           Feeds(f, s, 0, g), Feeds(g, t, 0, h)
    PROVE  Feeds(f, Cat(s, t), 0, h)
  BY FeedsBoth DEF Cat

\* What join gives.
LEMMA Joins ==
    ASSUME NEW done \in Seq(Token), NEW text \in Seq(Token)
    PROVE  /\ join(done, text) \in Seq(Token)
           /\ text = <<>> => join(done, text) = done
           /\ text # <<>> => join(done, text) # <<>>
           /\ done = <<>> => join(done, text) = text
           /\ text # <<>> /\ done # <<>> =>
                 join(done, text) = Cat(Cat(done, <<Comma>>), text)
<1>1. Comma \in Token
  BY Constants
<1>2. CASE text = <<>> \/ done = <<>>
  BY <1>2 DEF join
<1>3. CASE text # <<>> /\ done # <<>>
  <2> DEFINE c == <<Comma>>
  <2>1. c \in Seq(Token) /\ Append(done, Comma) = done \o c
    BY <1>1
  <2>2. join(done, text) = Cat(Cat(done, c), text)
    BY <1>3, <2>1, Zenon DEF join, Cat
  <2> HIDE DEF c
  <2>3. Cat(Cat(done, c), text) \in Seq(Token) /\ Cat(Cat(done, c), text) # <<>>
    BY <1>3, <2>1, Cats
  <2> QED
    BY <1>3, <2>2, <2>3 DEF c
<1> QED
  BY <1>2, <1>3

\* The same after the text that comes before the joined ones.
LEMMA JoinsAfter ==
    ASSUME NEW pre \in Seq(Token), NEW done \in Seq(Token), NEW text \in Seq(Token),
           text # <<>>
    PROVE  Cat(pre, join(done, text))
             = IF done = <<>> THEN Cat(Cat(pre, done), text)
               ELSE Cat(Cat(pre, done), Cat(<<Comma>>, text))
<1>1. CASE done = <<>>
  BY <1>1, Joins, Cats
<1>2. CASE done # <<>>
  <2> DEFINE c == <<Comma>>
  <2>1. c \in Seq(Token)
    BY Constants
  <2>2. join(done, text) = Cat(Cat(done, c), text)
    BY <1>2, Joins
  <2> HIDE DEF c
  <2>3. Cat(Cat(done, c), text) = Cat(done, Cat(c, text)) /\ Cat(c, text) \in Seq(Token)
    BY <2>1, Cats, CatsOfThree
  <2>4. Cat(pre, Cat(done, Cat(c, text))) = Cat(Cat(pre, done), Cat(c, text))
    BY <2>3, CatsOfThree
  <2> QED
    BY <1>2, <2>2, <2>3, <2>4 DEF c
<1> QED
  BY <1>1, <1>2

\* More of a text that is joined.
LEMMA JoinsMore ==
    ASSUME NEW done \in Seq(Token), NEW text \in Seq(Token), NEW more \in Seq(Token),
           text # <<>>
    PROVE  Cat(join(done, text), more) = join(done, Cat(text, more))
<1>1. Cat(text, more) \in Seq(Token) /\ Cat(text, more) # <<>>
  BY Cats
<1>2. CASE done = <<>>
  BY <1>1, <1>2, Joins
<1>3. CASE done # <<>>
  <2> DEFINE c == Cat(done, <<Comma>>)
  <2>1. c \in Seq(Token)
    <3>1. <<Comma>> \in Seq(Token)
      BY Constants
    <3> QED
      BY <3>1, Cats
  <2>2. join(done, text) = Cat(c, text) /\ join(done, Cat(text, more)) = Cat(c, Cat(text, more))
    BY <1>1, <1>3, Joins
  <2> HIDE DEF c
  <2> QED
    BY <2>1, <2>2, CatsOfThree
<1> QED
  BY <1>2, <1>3

Options == [endpoint : Endpoint, user : Reader]

\* Between two items of the array: done is written of them, after pre.
InItems(f, options, pre, done) ==
    /\ f \in Filter /\ f.options = options /\ f.mode = "items"
    /\ f.value = <<>> /\ f.valueDepth = 0
    /\ f.firstMember = FALSE /\ f.firstItem = (done = <<>>) /\ f.out = Cat(pre, done)

\* An item of the array is written as mapItem says.
LEMMA FeedsItem ==
    ASSUME NEW options \in Options, NEW pre \in Seq(Token), NEW done \in Seq(Token),
           NEW f, InItems(f, options, pre, done), NEW v \in Value
    PROVE  /\ Feeds(f, v, 0, onComplete(f, v))
           /\ InItems(onComplete(f, v), options, pre, join(done, mapItem(options, v)))
<1> DEFINE mapped == mapItem(options, v)
           h == onComplete(f, v)
<1>1. /\ f \in Filter /\ f.options = options /\ f.mode = "items" /\ f.value = <<>>
      /\ f.firstItem = (done = <<>>) /\ f.out = Cat(pre, done)
  BY DEF InItems
<1>2. Feeds(f, v, 0, h)
  BY FeedsValue DEF InItems
<1>3. v \in Seq(Token)
  BY ValueFacts
<1>4. mapped \in Seq(Token)
  BY <1>3, Mapped DEF Options
<1>5. h \in Filter
  BY <1>1, <1>3, Completes DEF IsFilter
<1>6. CASE mapped = <<>>
  <2>1. h = f
    BY <1>1, <1>6 DEF onComplete, itemComplete
  <2>2. join(done, mapped) = done
    BY <1>6 DEF join
  <2> HIDE DEF h, mapped
  <2> QED
    BY <1>2, <2>1, <2>2 DEF h, mapped
<1>7. CASE mapped # <<>>
  <2> DEFINE text == (IF f.firstItem THEN <<>> ELSE <<Comma>>) \o mapped
  <2>1. h = [push(f, text) EXCEPT !.firstItem = FALSE]
    BY <1>1, <1>7 DEF onComplete, itemComplete
  <2> HIDE DEF mapped
  <2>2. text = IF done = <<>> THEN mapped ELSE Cat(<<Comma>>, mapped)
    <3>1. CASE done = <<>>
      BY <1>1, <1>4, <3>1, ConcatEmptySeq
    <3>2. CASE done # <<>>
      BY <1>1, <3>2 DEF Cat
    <3> QED
      BY <3>1, <3>2
  <2> HIDE DEF h, text
  <2>3. Cat(pre, join(done, mapped)) = Cat(f.out, text)
    BY <1>1, <1>4, <1>7, <2>2, JoinsAfter
  <2>4. /\ h.options = f.options /\ h.mode = f.mode /\ h.value = f.value
        /\ h.valueDepth = f.valueDepth /\ h.firstMember = f.firstMember
        /\ h.firstItem = FALSE /\ h.out = f.out \o text
    BY <1>1, <2>1 DEF push, Filter
  <2>5. h.out = Cat(pre, join(done, mapped))
    BY <2>3, <2>4, Zenon DEF Cat
  <2>6. join(done, mapped) # <<>>
    BY <1>4, <1>7, Joins
  <2>7. InItems(h, options, pre, join(done, mapped))
    BY <1>5, <2>4, <2>5, <2>6 DEF InItems
  <2> QED
    BY <1>2, <2>7 DEF h, mapped
<1> QED
  BY <1>6, <1>7

\* The text of an array's items.
ItemTexts(items, options) == [i \in DOMAIN items |-> mapItem(options, items[i])]

\* All its items: what is written is what Separated makes of the mapped ones.
LEMMA FeedsItems ==
    ASSUME NEW options \in Options, NEW pre \in Seq(Token), NEW f,
           InItems(f, options, pre, <<>>), NEW items \in Seq(Value)
    PROVE  /\ FlattenSeq(items) \in Seq(Token)
           /\ Separated(ItemTexts(items, options)) \in Seq(Token)
           /\ \E h : /\ Feeds(f, FlattenSeq(items), 0, h)
                     /\ InItems(h, options, pre, Separated(ItemTexts(items, options)))
<1> DEFINE texts == ItemTexts(items, options)
           R == {p \in Filter \X Seq(Token) : InItems(p[1], options, pre, p[2])}
<1>1. /\ Len(items) \in Nat /\ DOMAIN items = 1 .. Len(items)
      /\ \A i \in 1 .. Len(items) : items[i] \in Value
  OBVIOUS
<1>2. \A v \in Value : v \in Seq(Token) /\ mapItem(options, v) \in Seq(Token)
  BY ValueFacts, Mapped DEF Options
<1>3. items \in Seq(Seq(Token))
  <2>1. Value \subseteq Seq(Token)
    BY <1>2
  <2> QED
    BY <2>1, SeqMonotonic
<1>4. texts \in Seq(Seq(Token)) /\ Len(texts) = Len(items)
  <2>1. texts = [i \in 1 .. Len(items) |-> mapItem(options, items[i])]
    BY <1>1 DEF ItemTexts
  <2>2. \A i \in 1 .. Len(items) : mapItem(options, items[i]) \in Seq(Token)
    BY <1>1, <1>2
  <2> QED
    BY <1>1, <2>1, <2>2, IsASeq
<1>5. \A i \in 1 .. Len(items) : texts[i] = mapItem(options, items[i])
  BY <1>1 DEF ItemTexts
<1> HIDE DEF texts
<1>6. \A a, d : <<a, d>> \in R <=> d \in Seq(Token) /\ InItems(a, options, pre, d)
  BY DEF InItems
<1> HIDE DEF R
<1>7. <<f, <<>>>> \in R
  <2>1. <<>> \in Seq(Token)
    OBVIOUS
  <2> QED
    BY <1>6, <2>1
<1>8. ASSUME NEW a, NEW d, NEW i, <<a, d>> \in R, i \in 1 .. Len(items)
      PROVE  \E b : Feeds(a, items[i], 0, b) /\ <<b, join(d, texts[i])>> \in R
  <2> DEFINE b == onComplete(a, items[i])
  <2>1. d \in Seq(Token) /\ InItems(a, options, pre, d) /\ items[i] \in Value
    BY <1>1, <1>6, <1>8
  <2>2. Feeds(a, items[i], 0, b) /\ InItems(b, options, pre, join(d, texts[i]))
    BY <1>5, <1>8, <2>1, FeedsItem
  <2>3. texts[i] \in Seq(Token)
    BY <1>2, <1>5, <1>8, <2>1
  <2>4. join(d, texts[i]) \in Seq(Token)
    BY <2>1, <2>3, Joins
  <2> HIDE DEF b
  <2> QED
    BY <1>6, <2>2, <2>4
<1>9. /\ FlattenSeq(items) \in Seq(Token)
      /\ \E b : Feeds(f, FlattenSeq(items), 0, b) /\ <<b, Separated(texts)>> \in R
  BY <1>3, <1>4, <1>7, <1>8, FeedsAll
<1> QED
  BY <1>6, <1>9 DEF texts

\* A member's separator and its text.
LEMMA PutsMember ==
    ASSUME NEW f \in Filter, NEW pre \in Seq(Token), NEW done \in Seq(Token),
           f.firstMember = (done = <<>>), f.out = Cat(pre, done),
           NEW text \in Seq(Token), text # <<>>
    PROVE  LET p == push(pushMemberPrefix(f), text)
           IN  /\ p \in Filter /\ p.options = f.options
               /\ p.value = f.value /\ p.valueDepth = f.valueDepth
               /\ p.firstMember = FALSE /\ p.out = Cat(pre, join(done, text))
<1> DEFINE out == IF f.firstMember THEN f.out ELSE Append(f.out, Comma)
           joined == Cat(pre, join(done, text))
<1>1. Cat(out, text) = joined
  <2>1. CASE done = <<>>
    <3>1. joined = Cat(Cat(pre, done), text)
      BY <2>1, JoinsAfter
    <3>2. out = f.out
      BY <2>1
    <3> HIDE DEF joined, out
    <3> QED
      BY <3>1, <3>2
  <2>2. CASE done # <<>>
    <3> DEFINE c == <<Comma>>
    <3>1. joined = Cat(f.out, Cat(c, text))
      BY <2>2, JoinsAfter
    <3>2. /\ c \in Seq(Token) /\ f.out \in Seq(Token)
          /\ out = Cat(f.out, c)
      <4>1. f.out \in Seq(Token) /\ Comma \in Token
        BY Constants, Written
      <4>2. \A s \in Seq(Token) : Append(s, Comma) = s \o c
        BY <4>1
      <4>3. out = Append(f.out, Comma)
        BY <2>2
      <4> QED
        BY <4>1, <4>2, <4>3 DEF Cat
    <3> HIDE DEF c, joined, out
    <3> QED
      BY <3>1, <3>2, CatsOfThree
  <2> QED
    BY <2>1, <2>2
<1>2. pushMemberPrefix(f) = [f EXCEPT !.out = out, !.firstMember = FALSE]
  BY DEF pushMemberPrefix, Filter
<1>3. joined \in Seq(Token)
  <2>1. join(done, text) \in Seq(Token)
    BY Joins
  <2> QED
    BY <2>1, Cats
<1> DEFINE p == push(pushMemberPrefix(f), text)
<1> HIDE DEF out, joined
<1>4. p = [f EXCEPT !.firstMember = FALSE, !.out = joined]
  <2>1. out \o text = joined
    BY <1>1 DEF Cat
  <2> QED
    BY <1>2, <2>1 DEF push, Filter
<1> HIDE DEF p
<1>5. p \in Filter
  BY <1>3, <1>4 DEF Filter
<1>6. /\ p.options = f.options /\ p.value = f.value /\ p.valueDepth = f.valueDepth
      /\ p.firstMember = FALSE /\ p.out = joined
  BY <1>4 DEF Filter
<1> QED
  BY <1>5, <1>6 DEF joined, p

\* Between two members: done is written of them.
Ready(f, options, done) ==
    /\ f \in Filter /\ f.options = options /\ f.mode = "members"
    /\ f.value = <<>> /\ f.valueDepth = 0
    /\ f.firstMember = (done = <<>>) /\ f.out = Cat(<<StartObject>>, done)

\* What a member is, by the names of its parts.
LEMMA MemberFacts ==
    ASSUME NEW m \in Member
    PROVE  /\ m.key \in Text \ {""} /\ m.parts \in Seq(Value)
           /\ m.array => m.key = ArrayField
           /\ ~ m.array => /\ m.parts[1] \in Value
                           /\ ~ (m.key = ArrayField /\ m.parts[1][1] = StartArray)
           /\ m.array \in BOOLEAN
<1>1. /\ m.key \in Text \ {""} /\ m.parts \in Seq(Value) /\ m.array \in BOOLEAN
      /\ IF m.array THEN m.key = ArrayField
         ELSE /\ Len(m.parts) = 1
              /\ m.key = ArrayField => m.parts[1][1] # StartArray
  BY DEF Member
<1>2. Len(m.parts) = 1 => m.parts[1] \in Value
  <2> DEFINE parts == m.parts
  <2>1. parts \in Seq(Value)
    BY <1>1
  <2> HIDE DEF parts
  <2>2. Len(parts) = 1 => parts[1] \in Value
    BY <2>1
  <2> QED
    BY <2>2 DEF parts
<1> QED
  BY <1>1, <1>2

\* A member whose key has been read.
Keyed(g, options, key, done) ==
    /\ g \in Filter /\ g.options = options /\ g.mode = "value" /\ g.pendingKey = key
    /\ g.value = <<>> /\ g.valueDepth = 0
    /\ g.firstMember = (done = <<>>) /\ g.out = Cat(<<StartObject>>, done)

\* Its key is kept until the value is there.
LEMMA FeedsKey ==
    ASSUME NEW options \in Options, NEW done \in Seq(Token), NEW f,
           Ready(f, options, done), NEW key \in Text
    PROVE  \E g : Feeds(f, <<KeyValue(key)>>, 0, g) /\ Keyed(g, options, key, done)
<1> DEFINE g == [f EXCEPT !.pendingKey = key, !.mode = "value", !.value = <<>>]
           token == KeyValue(key)
<1>1. token[1] = "keyValue" /\ token[2] = key
  BY DEF KeyValue
<1> HIDE DEF token
<1>2. processToken(f, token) = g
  BY <1>1 DEF processToken, Ready
<1>3. <<>> \in Seq(Token) /\ f \in Filter
  BY DEF Ready
<1>4. g \in Filter
  BY <1>3 DEF Filter
<1>5. /\ g.options = options /\ g.mode = "value" /\ g.pendingKey = key
      /\ g.value = <<>> /\ g.valueDepth = 0
      /\ g.firstMember = (done = <<>>) /\ g.out = Cat(<<StartObject>>, done)
  BY DEF Ready, Filter
<1> HIDE DEF g
<1>6. Feeds(f, <<token>>, 0, g)
  BY <1>2, FeedsToken
<1>7. Keyed(g, options, key, done)
  BY <1>4, <1>5 DEF Keyed
<1> QED
  BY <1>6, <1>7 DEF token

\* A member with its value is passed on.
LEMMA FeedsPlain ==
    ASSUME NEW options \in Options, NEW done \in Seq(Token), NEW f,
           Ready(f, options, done), NEW m \in Member, ~ m.array
    PROVE  /\ MemberTokens(m) \in Seq(Token)
           /\ MemberText(m, options) \in Seq(Token) \ {<<>>}
           /\ \E h : /\ Feeds(f, MemberTokens(m), 0, h)
                     /\ Ready(h, options, join(done, MemberText(m, options)))
<1> DEFINE key == <<KeyValue(m.key)>>
           v == m.parts[1]
           text == Cat(key, v)
           pre == <<StartObject>>
           joined == join(done, text)
<1>1. /\ m.key \in Text /\ v \in Value /\ ~ (m.key = ArrayField /\ v[1] = StartArray)
      /\ v \in Seq(Token)
  BY MemberFacts, ValueFacts
<1>2. MemberTokens(m) = text /\ MemberText(m, options) = text
  BY DEF MemberTokens, MemberText, Cat
<1>3. key \in Seq(Token) /\ key # <<>> /\ pre \in Seq(Token)
  BY <1>1, Constants
<1>4. PICK g : Feeds(f, key, 0, g) /\ Keyed(g, options, m.key, done)
  BY <1>1, FeedsKey
<1>5. /\ g \in Filter /\ g.options = options /\ g.mode = "value" /\ g.pendingKey = m.key
      /\ g.value = <<>> /\ g.valueDepth = 0
      /\ g.firstMember = (done = <<>>) /\ g.out = Cat(pre, done)
  BY <1>4 DEF Keyed
<1> DEFINE h == onComplete(g, v)
           put == push(pushMemberPrefix(g), text)
<1>6. h = [put EXCEPT !.mode = "members"]
  BY <1>5 DEF onComplete, memberComplete, Cat
<1> HIDE DEF key, v, pre
<1>7. text \in Seq(Token) /\ text # <<>>
  BY <1>1, <1>3, Cats
<1> HIDE DEF h
<1>8. Feeds(g, v, 0, h)
  BY <1>1, <1>5, FeedsValue DEF h
<1>9. Feeds(f, text, 0, h)
  BY <1>1, <1>3, <1>4, <1>8, FeedsCat
<1> HIDE DEF text
<1>10. /\ put \in Filter /\ put.options = options /\ put.value = <<>>
       /\ put.valueDepth = 0 /\ put.firstMember = FALSE /\ put.out = Cat(pre, joined)
  <2>1. g \in Filter /\ g.firstMember = (done = <<>>) /\ g.out = Cat(pre, done)
    BY <1>5
  <2>2. pre \in Seq(Token)
    BY <1>3
  <2>3. LET p == push(pushMemberPrefix(g), text)
        IN  /\ p \in Filter /\ p.options = g.options
            /\ p.value = g.value /\ p.valueDepth = g.valueDepth
            /\ p.firstMember = FALSE /\ p.out = Cat(pre, join(done, text))
    BY <1>7, <2>1, <2>2, PutsMember
  <2> QED
    BY <1>5, <2>3
<1>11. joined # <<>>
  BY <1>7, Joins
<1> HIDE DEF put, joined
<1>12. Ready(h, options, joined)
  <2>1. h \in Filter
    BY <1>6, <1>10 DEF Filter
  <2>2. /\ h.options = options /\ h.mode = "members" /\ h.value = <<>>
        /\ h.valueDepth = 0 /\ h.firstMember = FALSE /\ h.out = Cat(pre, joined)
    BY <1>6, <1>10 DEF Filter
  <2> QED
    BY <1>11, <2>1, <2>2 DEF Ready, pre
<1> QED
  BY <1>2, <1>7, <1>9, <1>12 DEF joined

\* The text of an array from its parts.
LEMMA ArrayText ==
    ASSUME NEW pre \in Seq(Token), NEW done \in Seq(Token), NEW key \in Seq(Token),
           NEW open \in Seq(Token), NEW items \in Seq(Token), NEW close \in Seq(Token),
           key # <<>>
    PROVE  Cat(Cat(Cat(pre, join(done, Cat(key, open))), items), close)
             = Cat(pre, join(done, Cat(key, Cat(Cat(open, items), close))))
<1> DEFINE start == Cat(key, open)
           joined == join(done, start)
           more == Cat(items, close)
           text == Cat(start, more)
<1>1. start \in Seq(Token) /\ start # <<>> /\ more \in Seq(Token)
  BY Cats
<1>2. text = Cat(key, Cat(Cat(open, items), close))
  <2>1. Cat(Cat(open, items), close) = Cat(open, more)
    BY CatsOfThree
  <2>2. Cat(start, more) = Cat(key, Cat(open, more))
    BY <1>1, CatsOfThree
  <2> QED
    BY <2>1, <2>2
<1> HIDE DEF start
<1>3. joined \in Seq(Token) /\ Cat(joined, more) = join(done, text)
  BY <1>1, Joins, JoinsMore
<1> HIDE DEF joined, text
<1>4. Cat(pre, joined) \in Seq(Token) /\ Cat(Cat(pre, joined), more) = Cat(pre, Cat(joined, more))
  BY <1>1, <1>3, Cats, CatsOfThree
<1> DEFINE begun == Cat(pre, joined)
<1>5. Cat(Cat(begun, items), close) = Cat(begun, more)
  BY <1>4, CatsOfThree
<1> HIDE DEF more, begun
<1> QED
  BY <1>2, <1>3, <1>4, <1>5 DEF joined, begun, start

\* The array is opened.
LEMMA FeedsOpen ==
    ASSUME NEW options \in Options, NEW done \in Seq(Token), NEW g,
           Keyed(g, options, ArrayField, done)
    PROVE  /\ Cat(<<StartObject>>, join(done, Cat(<<KeyValue(ArrayField)>>, <<StartArray>>)))
                \in Seq(Token)
           /\ \E h : /\ Feeds(g, <<StartArray>>, 0, h)
                     /\ InItems(h, options,
                           Cat(<<StartObject>>,
                               join(done, Cat(<<KeyValue(ArrayField)>>, <<StartArray>>))),
                           <<>>)
<1> DEFINE start == <<KeyValue(ArrayField), StartArray>>
           pre == <<StartObject>>
           before == Cat(pre, join(done, start))
           a == processToken(g, StartArray)
           put == push(pushMemberPrefix(g), start)
<1>1. ArrayField \in Text
  BY FilterAssumption
<1>2. start \in Seq(Token) /\ start # <<>> /\ pre \in Seq(Token)
  BY <1>1, Constants
<1>3. start = Cat(<<KeyValue(ArrayField)>>, <<StartArray>>)
  BY DEF Cat
<1>4. /\ g \in Filter /\ g.options = options /\ g.mode = "value" /\ g.pendingKey = ArrayField
      /\ g.value = <<>> /\ g.valueDepth = 0
      /\ g.firstMember = (done = <<>>) /\ g.out = Cat(pre, done)
  BY DEF Keyed
<1>5. Feeds(g, <<StartArray>>, 0, a)
  BY FeedsToken
<1>6. a = [put EXCEPT !.mode = "items", !.firstItem = TRUE]
  BY <1>4 DEF processToken
<1> HIDE DEF start, pre
<1>7. /\ put \in Filter /\ put.options = options /\ put.value = <<>>
      /\ put.valueDepth = 0 /\ put.firstMember = FALSE /\ put.out = before
  <2>1. g \in Filter /\ g.firstMember = (done = <<>>) /\ g.out = Cat(pre, done)
    BY <1>4
  <2>2. pre \in Seq(Token) /\ start \in Seq(Token) /\ start # <<>>
    BY <1>2
  <2>3. LET p == push(pushMemberPrefix(g), start)
        IN  /\ p \in Filter /\ p.options = g.options
            /\ p.value = g.value /\ p.valueDepth = g.valueDepth
            /\ p.firstMember = FALSE /\ p.out = Cat(pre, join(done, start))
    BY <2>1, <2>2, PutsMember
  <2> QED
    BY <1>4, <2>3
<1>8. before \in Seq(Token) /\ Cat(before, <<>>) = before
  <2>1. before \in Seq(Token)
    BY <1>2, Joins, Cats
  <2> HIDE DEF before
  <2> QED
    BY <2>1, Cats
<1> HIDE DEF before, a, put
<1>9. a \in Filter
  BY <1>6, <1>7 DEF Filter
<1>10. /\ a.options = options /\ a.mode = "items" /\ a.value = <<>> /\ a.valueDepth = 0
       /\ a.firstMember = FALSE /\ a.firstItem = TRUE /\ a.out = before
  BY <1>6, <1>7 DEF Filter
<1>11. InItems(a, options, before, <<>>)
  BY <1>8, <1>9, <1>10 DEF InItems
<1> QED
  BY <1>3, <1>5, <1>8, <1>11 DEF before, pre

\* The array is closed.
LEMMA FeedsClose ==
    ASSUME NEW options, NEW pre \in Seq(Token), NEW items \in Seq(Token),
           NEW b, InItems(b, options, pre, items), NEW done \in Seq(Token), done # <<>>,
           Cat(Cat(pre, items), <<EndArray>>) = Cat(<<StartObject>>, done)
    PROVE  \E h : Feeds(b, <<EndArray>>, 0, h) /\ Ready(h, options, done)
<1> DEFINE h == processToken(b, EndArray)
           out == Cat(<<StartObject>>, done)
<1>1. Feeds(b, <<EndArray>>, 0, h)
  BY FeedsToken
<1>2. /\ b \in Filter /\ b.mode = "items" /\ b.value = <<>> /\ b.valueDepth = 0
      /\ b.options = options /\ b.firstMember = FALSE /\ b.out = Cat(pre, items)
  BY DEF InItems
<1>3. h = [push(b, <<EndArray>>) EXCEPT !.mode = "members"]
  BY <1>2 DEF processToken
<1>4. push(b, <<EndArray>>) = [b EXCEPT !.out = out]
  <2> DEFINE close == <<EndArray>>
  <2>1. push(b, close) = [b EXCEPT !.out = Cat(b.out, close)]
    BY DEF push, Cat
  <2>2. Cat(b.out, close) = out
    BY <1>2
  <2> HIDE DEF close, out
  <2>3. push(b, close) = [b EXCEPT !.out = out]
    BY <2>1, <2>2
  <2> QED
    BY <2>3 DEF close
<1>5. out \in Seq(Token)
  <2>1. <<StartObject>> \in Seq(Token)
    BY Constants
  <2> QED
    BY <2>1, Cats
<1> HIDE DEF h, out
<1>6. h = [b EXCEPT !.out = out, !.mode = "members"]
  BY <1>3, <1>4 DEF Filter
<1>7. h \in Filter
  BY <1>2, <1>5, <1>6 DEF Filter
<1>8. /\ h.options = options /\ h.mode = "members" /\ h.value = <<>>
      /\ h.valueDepth = 0 /\ h.firstMember = FALSE /\ h.out = out
  BY <1>2, <1>6 DEF Filter
<1>9. Ready(h, options, done)
  BY <1>7, <1>8 DEF Ready, out
<1> QED
  BY <1>1, <1>9

\* The array is passed on with what is written of its items.
LEMMA FeedsArray ==
    ASSUME NEW options \in Options, NEW done \in Seq(Token), NEW f,
           Ready(f, options, done), NEW m \in Member, m.array
    PROVE  /\ MemberTokens(m) \in Seq(Token)
           /\ MemberText(m, options) \in Seq(Token) \ {<<>>}
           /\ \E h : /\ Feeds(f, MemberTokens(m), 0, h)
                     /\ Ready(h, options, join(done, MemberText(m, options)))
<1> DEFINE key == <<KeyValue(ArrayField)>>
           open == <<StartArray>>
           close == <<EndArray>>
           flat == FlattenSeq(m.parts)
           items == Separated(ItemTexts(m.parts, options))
           pre == <<StartObject>>
           before == Cat(pre, join(done, Cat(key, open)))
           read == Cat(key, Cat(Cat(open, flat), close))
           text == Cat(key, Cat(Cat(open, items), close))
           joined == join(done, text)
<1>1. m.key = ArrayField /\ ArrayField \in Text /\ m.parts \in Seq(Value)
  BY MemberFacts
<1>2. MemberTokens(m) = read /\ MemberText(m, options) = text
  BY <1>1 DEF MemberTokens, MemberText, Enclosed, ItemTexts, Cat
<1>3. /\ key \in Seq(Token) /\ key # <<>> /\ open \in Seq(Token) /\ close \in Seq(Token)
      /\ pre \in Seq(Token)
  BY <1>1, Constants
<1>4. PICK g : Feeds(f, key, 0, g) /\ Keyed(g, options, ArrayField, done)
  BY <1>1, FeedsKey
<1>5. before \in Seq(Token) /\ \E a : Feeds(g, open, 0, a) /\ InItems(a, options, before, <<>>)
  BY <1>4, FeedsOpen
<1> HIDE DEF key, open, close, flat, items, pre, before
<1>6. PICK a : Feeds(g, open, 0, a) /\ InItems(a, options, before, <<>>)
  BY <1>5
<1>7. /\ flat \in Seq(Token) /\ items \in Seq(Token)
      /\ \E b : Feeds(a, flat, 0, b) /\ InItems(b, options, before, items)
  BY <1>1, <1>5, <1>6, FeedsItems DEF flat, items
<1>8. PICK b : Feeds(a, flat, 0, b) /\ InItems(b, options, before, items)
  BY <1>7
<1>9. /\ Cat(open, flat) \in Seq(Token) /\ Cat(Cat(open, flat), close) \in Seq(Token)
      /\ read \in Seq(Token)
  BY <1>3, <1>7, Cats
<1>10. text \in Seq(Token) /\ text # <<>>
  <2>1. Cat(Cat(open, items), close) \in Seq(Token)
    BY <1>3, <1>7, Cats
  <2> QED
    BY <1>3, <2>1, Cats
<1>11. Cat(Cat(before, items), close) = Cat(pre, joined)
  <2>1. /\ pre \in Seq(Token) /\ key \in Seq(Token) /\ key # <<>> /\ open \in Seq(Token)
        /\ items \in Seq(Token) /\ close \in Seq(Token)
    BY <1>3, <1>7
  <2>2. Cat(Cat(Cat(pre, join(done, Cat(key, open))), items), close) = Cat(pre, joined)
    BY <2>1, ArrayText
  <2> QED
    BY <2>2 DEF before
<1>12. joined \in Seq(Token) /\ joined # <<>>
  <2> HIDE DEF text
  <2> QED
    BY <1>10, Joins
<1> HIDE DEF joined, text
<1>13. PICK h : Feeds(b, close, 0, h) /\ Ready(h, options, joined)
  <2>1. \E h : Feeds(b, <<EndArray>>, 0, h) /\ Ready(h, options, joined)
    BY <1>5, <1>7, <1>8, <1>11, <1>12, FeedsClose DEF close, pre
  <2> QED
    BY <2>1 DEF close
<1>14. Feeds(f, read, 0, h)
  <2>1. Feeds(g, Cat(open, flat), 0, b)
    BY <1>3, <1>6, <1>7, <1>8, FeedsCat
  <2>2. Feeds(g, Cat(Cat(open, flat), close), 0, h)
    BY <1>3, <1>9, <1>13, <2>1, FeedsCat
  <2> QED
    BY <1>3, <1>4, <1>9, <2>2, FeedsCat
<1> HIDE DEF read
<1> QED
  BY <1>2, <1>9, <1>10, <1>13, <1>14 DEF joined

\* The text of the members.
MemberTexts(doc, options) == [i \in DOMAIN doc |-> MemberText(doc[i], options)]

\* All members: what is written is what Separated makes of their texts.
LEMMA FeedsMembers ==
    ASSUME NEW options \in Options, NEW f, Ready(f, options, <<>>), NEW doc \in Seq(Member)
    PROVE  LET toks == [i \in DOMAIN doc |-> MemberTokens(doc[i])]
           IN  /\ FlattenSeq(toks) \in Seq(Token)
               /\ Separated(MemberTexts(doc, options)) \in Seq(Token)
               /\ \E h : /\ Feeds(f, FlattenSeq(toks), 0, h)
                         /\ Ready(h, options, Separated(MemberTexts(doc, options)))
<1> DEFINE toks == [i \in DOMAIN doc |-> MemberTokens(doc[i])]
           texts == MemberTexts(doc, options)
           R == {p \in Filter \X Seq(Token) : Ready(p[1], options, p[2])}
<1>1. /\ Len(doc) \in Nat /\ DOMAIN doc = 1 .. Len(doc)
      /\ \A i \in 1 .. Len(doc) : doc[i] \in Member
  OBVIOUS
<1>2. ASSUME NEW a, NEW d \in Seq(Token), Ready(a, options, d), NEW m \in Member
      PROVE  /\ MemberTokens(m) \in Seq(Token) /\ MemberText(m, options) \in Seq(Token)
             /\ \E b : /\ Feeds(a, MemberTokens(m), 0, b)
                       /\ Ready(b, options, join(d, MemberText(m, options)))
  <2>1. CASE m.array
    BY <1>2, <2>1, FeedsArray, Zenon
  <2>2. CASE ~ m.array
    BY <1>2, <2>2, FeedsPlain, Zenon
  <2> QED
    BY <2>1, <2>2
<1>3. <<>> \in Seq(Token)
  OBVIOUS
<1>4. \A m \in Member : MemberTokens(m) \in Seq(Token) /\ MemberText(m, options) \in Seq(Token)
  BY <1>2, <1>3
<1>5. toks \in Seq(Seq(Token)) /\ Len(toks) = Len(doc)
  <2>1. toks = [i \in 1 .. Len(doc) |-> MemberTokens(doc[i])]
    BY <1>1
  <2>2. \A i \in 1 .. Len(doc) : MemberTokens(doc[i]) \in Seq(Token)
    BY <1>1, <1>4
  <2> QED
    BY <1>1, <2>1, <2>2, IsASeq
<1>6. texts \in Seq(Seq(Token)) /\ Len(texts) = Len(doc)
  <2>1. texts = [i \in 1 .. Len(doc) |-> MemberText(doc[i], options)]
    BY <1>1 DEF MemberTexts
  <2>2. \A i \in 1 .. Len(doc) : MemberText(doc[i], options) \in Seq(Token)
    BY <1>1, <1>4
  <2> QED
    BY <1>1, <2>1, <2>2, IsASeq
<1>7. \A i \in 1 .. Len(doc) :
         toks[i] = MemberTokens(doc[i]) /\ texts[i] = MemberText(doc[i], options)
  BY <1>1 DEF MemberTexts
<1> HIDE DEF toks, texts
<1>8. \A a, d : <<a, d>> \in R <=> d \in Seq(Token) /\ Ready(a, options, d)
  BY DEF Ready
<1> HIDE DEF R
<1>9. <<f, <<>>>> \in R
  BY <1>3, <1>8
<1>10. ASSUME NEW a, NEW d, NEW i, <<a, d>> \in R, i \in 1 .. Len(toks)
       PROVE  \E b : Feeds(a, toks[i], 0, b) /\ <<b, join(d, texts[i])>> \in R
  <2>1. d \in Seq(Token) /\ Ready(a, options, d) /\ i \in 1 .. Len(doc) /\ doc[i] \in Member
    BY <1>1, <1>5, <1>8, <1>10
  <2>2. /\ texts[i] \in Seq(Token)
        /\ \E b : Feeds(a, toks[i], 0, b) /\ Ready(b, options, join(d, texts[i]))
    BY <1>2, <1>7, <2>1
  <2>3. join(d, texts[i]) \in Seq(Token)
    BY <2>1, <2>2, Joins
  <2> QED
    BY <1>8, <2>2, <2>3
<1>11. /\ FlattenSeq(toks) \in Seq(Token)
       /\ \E b : Feeds(f, FlattenSeq(toks), 0, b) /\ <<b, Separated(texts)>> \in R
  BY <1>5, <1>6, <1>9, <1>10, FeedsAll
<1> QED
  BY <1>8, <1>11 DEF texts, toks

\* A root that is not an object has one member, and the others none without key.
LEMMA Roots ==
    ASSUME NEW doc \in Document
    PROVE  /\ ~ isRoot(doc) => doc \in Seq(Member)
           /\ isRoot(doc) => /\ Tokens(doc) \in Value
                             /\ Tokens(doc)[1] # StartObject
<1>1. CASE doc \in Seq(Member)
  <2>1. \A i \in DOMAIN doc : doc[i] \in Member
    BY <1>1
  <2>2. \A m \in Member : m.key # ""
    BY MemberFacts
  <2>3. \A m \in ToSet(doc) : m.key # ""
    BY <2>1, <2>2, Zenon DEF ToSet
  <2> QED
    BY <1>1, <2>3 DEF isRoot
<1>2. CASE doc \in Seq(RootValue) /\ Len(doc) = 1
  <2>1. doc[1] \in RootValue
    BY <1>2
  <2>2. /\ doc[1].key = "" /\ doc[1].parts \in Seq(Value) /\ Len(doc[1].parts) = 1
        /\ doc[1].parts[1][1] # StartObject
    BY <2>1 DEF RootValue
  <2>3. doc[1].parts[1] \in Value
    <3> DEFINE parts == doc[1].parts
    <3>1. parts \in Seq(Value) /\ Len(parts) = 1
      BY <2>2
    <3> HIDE DEF parts
    <3>2. parts[1] \in Value
      BY <3>1
    <3> QED
      BY <3>2 DEF parts
  <2>4. isRoot(doc)
    <3>1. doc[1] \in ToSet(doc)
      BY <1>2 DEF ToSet
    <3> QED
      BY <2>2, <3>1 DEF isRoot
  <2> QED
    BY <2>2, <2>3, <2>4 DEF Tokens
<1> QED
  BY <1>1, <1>2 DEF Document

\* The root object is opened and closed.
LEMMA FeedsStart ==
    ASSUME NEW endpoint \in Endpoint, NEW user \in Reader
    PROVE  \E f : /\ Feeds(NewFilter(endpoint, user), <<StartObject>>, 0, f)
                  /\ Ready(f, [endpoint |-> endpoint, user |-> user], <<>>)
<1> DEFINE new == NewFilter(endpoint, user)
           options == [endpoint |-> endpoint, user |-> user]
           f == processToken(new, StartObject)
           pre == <<StartObject>>
<1>1. Feeds(new, pre, 0, f)
  BY FeedsToken
<1>2. /\ new \in Filter /\ new.options = options /\ new.mode = "init" /\ new.value = <<>>
      /\ new.valueDepth = 0 /\ new.firstMember = TRUE /\ new.out = <<>>
  BY FilterStarts DEF NewFilter, IsFilter
<1>3. f = [push(new, pre) EXCEPT !.mode = "members"]
  BY <1>2 DEF processToken
<1>4. pre \in Seq(Token) /\ Cat(<<>>, pre) = pre /\ Cat(pre, <<>>) = pre
  <2>1. pre \in Seq(Token)
    BY Constants
  <2> HIDE DEF pre
  <2> QED
    BY <2>1, Cats
<1> HIDE DEF new, f, pre, options
<1>5. f = [new EXCEPT !.out = pre, !.mode = "members"]
  <2>1. push(new, pre) = [new EXCEPT !.out = pre]
    <3>1. new.out \o pre = pre
      BY <1>2, <1>4, Zenon DEF Cat
    <3> QED
      BY <3>1 DEF push
  <2> QED
    BY <1>3, <2>1 DEF Filter
<1>6. f \in Filter
  BY <1>2, <1>4, <1>5 DEF Filter
<1>7. /\ f.options = options /\ f.mode = "members" /\ f.value = <<>>
      /\ f.valueDepth = 0 /\ f.firstMember = TRUE /\ f.out = pre
  BY <1>2, <1>5 DEF Filter
<1>8. Ready(f, options, <<>>)
  BY <1>4, <1>6, <1>7 DEF Ready, pre
<1> QED
  BY <1>1, <1>8 DEF new, pre, options

\* The bracket that closes the root.
LEMMA FeedsEnd ==
    ASSUME NEW options, NEW done, NEW f, Ready(f, options, done)
    PROVE  \E h : /\ Feeds(f, <<EndObject>>, 0, h)
                  /\ h.mode = "done" /\ h.options = options
                  /\ h.out = Cat(Cat(<<StartObject>>, done), <<EndObject>>)
<1> DEFINE h == processToken(f, EndObject)
           close == <<EndObject>>
<1>1. Feeds(f, close, 0, h)
  BY FeedsToken
<1>2. /\ f \in Filter /\ f.mode = "members" /\ f.options = options
      /\ f.out = Cat(<<StartObject>>, done)
  BY DEF Ready
<1>3. h = [push(f, close) EXCEPT !.mode = "done"]
  <2>1. EndObject[1] # "keyValue"
    BY DEF EndObject
  <2> QED
    BY <1>2, <2>1 DEF processToken
<1> HIDE DEF h, close
<1>4. /\ h.mode = "done" /\ h.options = options /\ h.out = Cat(f.out, close)
  BY <1>2, <1>3 DEF push, Filter, Cat
<1> QED
  BY <1>1, <1>2, <1>4 DEF close

\* processToken, from a new transform over the tokens of any document that is an
\* object, ends with the root closed, and has written the document with the
\* items of the array filtered.
THEOREM FeedsDocument ==
    ASSUME NEW endpoint \in Endpoint, NEW user \in Reader, NEW doc \in Document,
           ~ isRoot(doc)
    PROVE  LET options == [endpoint |-> endpoint, user |-> user]
           IN  /\ Tokens(doc) \in Seq(Token)
               /\ Filtered(doc, options) \in Seq(Token)
               /\ \E h : /\ Feeds(NewFilter(endpoint, user), Tokens(doc), 0, h)
                         /\ h.mode = "done" /\ h.options = options
                         /\ h.out = Filtered(doc, options)
<1> DEFINE options == [endpoint |-> endpoint, user |-> user]
           open == <<StartObject>>
           close == <<EndObject>>
           flat == FlattenSeq([i \in DOMAIN doc |-> MemberTokens(doc[i])])
           shown == Separated(MemberTexts(doc, options))
           read == Cat(Cat(open, flat), close)
           text == Cat(Cat(open, shown), close)
           new == NewFilter(endpoint, user)
<1>1. options \in Options /\ doc \in Seq(Member)
  BY Roots DEF Options
<1>2. Tokens(doc) = read /\ Filtered(doc, options) = text
  BY DEF Tokens, Filtered, Enclosed, MemberTexts, Cat
<1>3. open \in Seq(Token) /\ close \in Seq(Token)
  BY Constants
<1>4. PICK f : Feeds(new, open, 0, f) /\ Ready(f, options, <<>>)
  BY FeedsStart
<1> HIDE DEF options, new
<1>5. /\ flat \in Seq(Token) /\ shown \in Seq(Token)
      /\ \E b : Feeds(f, flat, 0, b) /\ Ready(b, options, shown)
  BY <1>1, <1>4, FeedsMembers
<1> HIDE DEF flat, shown
<1>6. PICK b : Feeds(f, flat, 0, b) /\ Ready(b, options, shown)
  BY <1>5
<1>7. PICK h : /\ Feeds(b, close, 0, h) /\ h.mode = "done" /\ h.options = options
               /\ h.out = text
  BY <1>6, FeedsEnd
<1> HIDE DEF open, close
<1>8. Cat(open, flat) \in Seq(Token) /\ read \in Seq(Token) /\ text \in Seq(Token)
  BY <1>3, <1>5, Cats
<1>9. Feeds(new, Cat(open, flat), 0, b)
  BY <1>3, <1>4, <1>5, <1>6, FeedsCat
<1>10. Feeds(new, read, 0, h)
  BY <1>3, <1>7, <1>8, <1>9, FeedsCat
<1> HIDE DEF read, text
<1> QED
  BY <1>2, <1>7, <1>8, <1>10 DEF options, new

\* What arrives are tokens, of an object or not.
LEMMA TokensTyped ==
    ASSUME NEW doc \in Document
    PROVE  Tokens(doc) \in Seq(Token)
<1>1. CASE isRoot(doc)
  BY <1>1, Roots, ValueFacts
<1>2. CASE ~ isRoot(doc)
  <2>1. "_find" \in Endpoint /\ Anonymous \in Reader
    BY StreamAssumption DEF Endpoint
  <2> QED
    BY <1>2, <2>1, FeedsDocument
<1> QED
  BY <1>1, <1>2

-----------------------------------------------------------------------------
(***************************************************************************)
(* The inductive invariant                                                 *)
(***************************************************************************)
\* The records of the type invariant by name.
Requests ==
    [pc : {"none", "login", "verified", "refused", "granted", "over"},
     endpoint : {""} \cup UNION {w.endpoints : w \in Workloads},
     credentials : Credentials \cup {NoCredentials},
     token : User \cup {Anonymous}, user : User \cup {Anonymous},
     by : {"nobody", "login", "token"}]
Sources ==
    [state : {"none", "asked", "errorBody", "open", "ended", "destroyed"},
     doc : {<<>>} \cup UNION {Documents[e] : e \in Endpoint}, read : Nat]
Responses ==
    [state : {"open", "status", "complete", "aborted"}, sent : Nat, left : BOOLEAN]

\* One slot: x is its request, s CouchDB's response, f the transform, r the
\* response to the client.  CouchDB's response is under way only while the
\* request is, and nothing is sent before it is there.
SlotInv(x, s, f, r) ==
    /\ x \in Requests /\ s \in Sources /\ IsFilter(f) /\ r \in Responses
    /\ r.sent \in 0 .. Len(f.out)
    /\ x.pc \in {"login", "verified"} => x.credentials \in Credentials
    /\ s.state \in {"asked", "errorBody", "open"} =>
          x.pc = "granted" /\ x.endpoint \in Endpoint
    /\ s.state \in {"none", "asked", "errorBody"} => r.sent = 0
    /\ s.state = "open" => Tokens(s.doc) \in Seq(Token)

CacheInv ==
    /\ workload \in Workloads /\ password \in [User -> 0 .. MaxPassword]
    /\ IsCache(loginCache) /\ CacheBounded

ReadInv ==
    /\ CacheInv
    /\ request \in [Slot -> Requests] /\ source \in [Slot -> Sources]
    /\ filtered \in [Slot -> Filter] /\ res \in [Slot -> Responses]
    /\ \A q \in Slot : SlotInv(request[q], source[q], filtered[q], res[q])

\* A slot that is not used.
LEMMA SlotStarts == SlotInv(NoRequest, NoSource, NoFilter, NoResponse)
<1>1. NoRequest \in Requests /\ NoRequest.pc = "none"
  BY DEF NoRequest, Requests
<1>2. NoSource \in Sources /\ NoSource.state = "none"
  BY DEF NoSource, Sources
<1>3. NoResponse \in Responses /\ NoResponse.sent = 0
  BY DEF NoResponse, Responses
<1>4. IsFilter(NoFilter) /\ NoFilter.out = <<>>
  BY FilterStarts, StreamAssumption DEF NoFilter, Endpoint
<1>5. NoResponse.sent \in 0 .. Len(NoFilter.out)
  BY <1>3, <1>4
<1> QED
  BY <1>1, <1>2, <1>3, <1>4, <1>5 DEF SlotInv

LEMMA ReadInit == Init => ReadInv
<1> SUFFICES ASSUME Init PROVE ReadInv
  OBVIOUS
<1>1. CacheInv
  <2>1. workload \in Workloads /\ password \in [User -> 0 .. MaxPassword]
    BY LoginAssumption DEF Init, LoginInit
  <2>2. loginCache = <<>>
    BY DEF Init, LoginInit
  <2>3. IsCache(loginCache) /\ CacheBounded
    BY <2>2, LoginAssumption DEF IsCache, Distinct, CacheBounded
  <2> QED
    BY <2>1, <2>3 DEF CacheInv
<1>2. /\ NoRequest \in Requests /\ NoSource \in Sources /\ NoFilter \in Filter
      /\ NoResponse \in Responses
  BY SlotStarts DEF SlotInv, IsFilter
<1>3. /\ request = [q \in Slot |-> NoRequest] /\ source = [q \in Slot |-> NoSource]
      /\ filtered = [q \in Slot |-> NoFilter] /\ res = [q \in Slot |-> NoResponse]
  BY DEF Init, LoginInit
<1> QED
  BY <1>1, <1>2, <1>3, SlotStarts DEF ReadInv

\* A step at one slot.
LEMMA AtSlot ==
    ASSUME ReadInv, NEW q \in Slot, CacheInv',
           NEW x, NEW s, NEW f, NEW r, SlotInv(x, s, f, r),
           request' = [request EXCEPT ![q] = x], source' = [source EXCEPT ![q] = s],
           filtered' = [filtered EXCEPT ![q] = f], res' = [res EXCEPT ![q] = r]
    PROVE  ReadInv'
<1>1. x \in Requests /\ s \in Sources /\ f \in Filter /\ r \in Responses
  BY DEF SlotInv, IsFilter
<1>2. /\ request' \in [Slot -> Requests] /\ source' \in [Slot -> Sources]
      /\ filtered' \in [Slot -> Filter] /\ res' \in [Slot -> Responses]
  BY <1>1 DEF ReadInv
<1>3. \A p \in Slot : SlotInv(request'[p], source'[p], filtered'[p], res'[p])
  <2>1. /\ request'[q] = x /\ source'[q] = s /\ filtered'[q] = f /\ res'[q] = r
        /\ \A p \in Slot \ {q} : /\ request'[p] = request[p] /\ source'[p] = source[p]
                                 /\ filtered'[p] = filtered[p] /\ res'[p] = res[p]
    BY DEF ReadInv
  <2>2. ASSUME NEW p \in Slot
        PROVE  SlotInv(request'[p], source'[p], filtered'[p], res'[p])
    <3>1. CASE p = q
      BY <2>1, <3>1
    <3>2. CASE p # q
      <4>1. SlotInv(request[p], source[p], filtered[p], res[p])
        BY DEF ReadInv
      <4> QED
        BY <2>1, <3>2, <4>1
    <3> QED
      BY <3>1, <3>2
  <2> QED
    BY <2>2
<1> QED
  BY <1>2, <1>3 DEF ReadInv

\* What is not changed at a slot.
LEMMA Unchanged ==
    ASSUME ReadInv, NEW q \in Slot
    PROVE  /\ request = [request EXCEPT ![q] = request[q]]
           /\ source = [source EXCEPT ![q] = source[q]]
           /\ filtered = [filtered EXCEPT ![q] = filtered[q]]
           /\ res = [res EXCEPT ![q] = res[q]]
  BY DEF ReadInv

\* Steps at one slot that leave the cache alone.
LEMMA CacheKept ==
    ASSUME ReadInv, UNCHANGED <<workload, password, loginCache>>
    PROVE  CacheInv'
  BY DEF ReadInv, CacheInv, CacheBounded

-----------------------------------------------------------------------------
(***************************************************************************)
(* Logins                                                                  *)
(***************************************************************************)
\* What a step does to a request that is not granted yet.
LEMMA AtLogin ==
    ASSUME ReadInv, NEW q \in Slot, CacheInv', UNCHANGED streamVars,
           request[q].pc # "granted", NEW x \in Requests,
           request' = [request EXCEPT ![q] = x],
           x.pc \in {"login", "verified"} => x.credentials \in Credentials
    PROVE  ReadInv'
<1>1. SlotInv(request[q], source[q], filtered[q], res[q])
  BY DEF ReadInv
<1>2. SlotInv(x, source[q], filtered[q], res[q])
  BY <1>1 DEF SlotInv
<1>3. /\ source' = [source EXCEPT ![q] = source[q]]
      /\ filtered' = [filtered EXCEPT ![q] = filtered[q]]
      /\ res' = [res EXCEPT ![q] = res[q]]
  BY Unchanged DEF streamVars
<1> QED
  BY <1>2, <1>3, AtSlot

\* What grant and the other guards make of a request.
LEMMA Granted ==
    ASSUME ReadInv, NEW q \in Slot, CacheInv', UNCHANGED streamVars,
           request[q].pc # "granted", NEW x \in Requests,
           \/ authenticateViaGuards(q, x)
           \/ \E user \in User : grant(q, x, user, "login")
    PROVE  ReadInv'
<1>1. ASSUME NEW user \in User \cup {Anonymous}, NEW by \in {"nobody", "login", "token"},
             grant(q, x, user, by)
      PROVE  ReadInv'
  <2> DEFINE y == [x EXCEPT !.pc = "granted", !.user = user, !.by = by]
  <2>1. y \in Requests /\ y.pc = "granted"
    BY DEF Requests
  <2>2. request' = [request EXCEPT ![q] = y]
    BY <1>1 DEF grant
  <2> HIDE DEF y
  <2> QED
    BY <2>1, <2>2, AtLogin
<1>2. ASSUME request' = [request EXCEPT ![q] = [x EXCEPT !.pc = "over"]]
      PROVE  ReadInv'
  <2> DEFINE y == [x EXCEPT !.pc = "over"]
  <2>1. y \in Requests /\ y.pc = "over"
    BY DEF Requests
  <2>2. request' = [request EXCEPT ![q] = y]
    BY <1>2
  <2> HIDE DEF y
  <2> QED
    BY <2>1, <2>2, AtLogin
<1>3. x.token \in User \cup {Anonymous}
  BY DEF Requests
<1> QED
  BY <1>1, <1>2, <1>3 DEF authenticateViaGuards

\* The entry of expired credentials is deleted.
LEMMA EntryDeleted ==
    ASSUME CacheInv, NEW key
    PROVE  /\ IsCache(Without(loginCache, key))
           /\ Len(Without(loginCache, key)) <= LOGIN_CACHE_MAX_ENTRIES
           /\ \A i \in DOMAIN loginCache :
                 loginCache[i].key # key =>
                     loginCache[i].key \in Keys(Without(loginCache, key))
<1> DEFINE S == {entry \in ToSet(loginCache) : entry.key # key}
<1>1. Without(loginCache, key) = Only(loginCache, S)
  BY DEF Without
<1>2. IsCache(loginCache) /\ Len(loginCache) <= LOGIN_CACHE_MAX_ENTRIES
  BY DEF CacheInv, CacheBounded
<1>3. \A i \in DOMAIN loginCache : loginCache[i].key # key => loginCache[i] \in S
  BY DEF ToSet
<1> HIDE DEF S
<1>4. /\ IsCache(Only(loginCache, S)) /\ Len(Only(loginCache, S)) <= Len(loginCache)
      /\ \A i \in DOMAIN loginCache : loginCache[i] \in S =>
            loginCache[i].key \in Keys(Only(loginCache, S))
  BY <1>2, Deleted
<1>5. /\ Len(loginCache) \in Nat /\ Len(Only(loginCache, S)) \in Nat
      /\ LOGIN_CACHE_MAX_ENTRIES \in Nat
  BY <1>2, <1>4, LoginAssumption DEF IsCache
<1> QED
  BY <1>1, <1>2, <1>3, <1>4, <1>5

LEMMA StepValidate ==
    ASSUME ReadInv, NEW q \in Slot, validate(q), UNCHANGED streamVars
    PROVE  ReadInv'
<1>1. PICK endpoint \in workload.endpoints,
           credentials \in workload.credentials \cup {NoCredentials},
           token \in workload.tokens \cup {Anonymous} :
          LET r == [NoRequest EXCEPT !.endpoint = endpoint,
                        !.credentials = credentials, !.token = token]
          IN  \/ /\ credentials = NoCredentials
                 /\ authenticateViaGuards(q, r)
                 /\ UNCHANGED loginCache
              \/ /\ cachedLogin(credentials)
                 /\ grant(q, r, credentials[1], "login")
                 /\ UNCHANGED loginCache
              \/ /\ credentials # NoCredentials
                 /\ ~ cachedLogin(credentials)
                 /\ loginCache' = Without(loginCache, credentials)
                 /\ request' = [request EXCEPT ![q] = [r EXCEPT !.pc = "login"]]
  BY Zenon DEF validate
<1> DEFINE r == [NoRequest EXCEPT !.endpoint = endpoint,
                    !.credentials = credentials, !.token = token]
<1>2. /\ credentials \in Credentials \cup {NoCredentials}
      /\ token \in User \cup {Anonymous}
      /\ endpoint \in UNION {w.endpoints : w \in Workloads}
  BY LoginAssumption DEF ReadInv, CacheInv, Credentials
<1>3. r \in Requests
  BY <1>2 DEF NoRequest, Requests
<1>4. request[q].pc = "none" /\ UNCHANGED <<workload, password>>
  <2>1. request[q] = NoRequest /\ UNCHANGED <<workload, password>>
    BY DEF validate
  <2>2. NoRequest.pc = "none"
    BY DEF NoRequest
  <2> QED
    BY <2>1, <2>2
<1>5. CASE credentials = NoCredentials /\ authenticateViaGuards(q, r) /\ UNCHANGED loginCache
  <2> HIDE DEF r
  <2> QED
    BY <1>3, <1>4, <1>5, CacheKept, Granted
<1>6. CASE /\ cachedLogin(credentials)
           /\ grant(q, r, credentials[1], "login")
           /\ UNCHANGED loginCache
  <2>1. credentials \in Credentials
    <3>1. PICK entry \in Live(loginCache) : entry.key = credentials
      BY <1>6 DEF cachedLogin
    <3>2. PICK i \in DOMAIN loginCache : entry = loginCache[i]
      BY <3>1 DEF Live, ToSet
    <3>3. loginCache[i] \in Entry
      BY <3>2 DEF ReadInv, CacheInv, IsCache
    <3> QED
      BY <3>1, <3>2, <3>3 DEF Entry
  <2>2. credentials[1] \in User
    BY <2>1 DEF Credentials
  <2> HIDE DEF r
  <2> QED
    BY <1>3, <1>4, <1>6, <2>2, CacheKept, Granted
<1>7. CASE /\ credentials # NoCredentials
           /\ loginCache' = Without(loginCache, credentials)
           /\ request' = [request EXCEPT ![q] = [r EXCEPT !.pc = "login"]]
  <2> DEFINE y == [r EXCEPT !.pc = "login"]
  <2>1. y \in Requests /\ y.credentials = credentials /\ credentials \in Credentials
    BY <1>2, <1>7 DEF NoRequest, Requests
  <2>2. CacheInv'
    BY <1>4, <1>7, EntryDeleted DEF ReadInv, CacheInv, CacheBounded
  <2>3. request' = [request EXCEPT ![q] = y]
    BY <1>7
  <2> HIDE DEF y, r
  <2> QED
    BY <1>4, <2>1, <2>2, <2>3, AtLogin
<1> QED
  BY <1>1, <1>5, <1>6, <1>7

LEMMA StepLogin ==
    ASSUME ReadInv, NEW q \in Slot, UNCHANGED streamVars,
           decideLogin(q) \/ LoginFail(q) \/ storeLogin(q) \/ loginRefused(q)
    PROVE  ReadInv'
<1>1. request \in [Slot -> Requests] /\ request[q] \in Requests
  BY DEF ReadInv
<1>2. request[q].pc \in {"login", "verified"} => request[q].credentials \in Credentials
  BY DEF ReadInv, SlotInv
<1>3. ASSUME NEW pc \in {"verified", "refused"}, request[q].pc \in {"login", "verified"},
             request' = [request EXCEPT ![q].pc = pc],
             UNCHANGED <<workload, password, loginCache>>
      PROVE  ReadInv'
  <2> DEFINE x == [request[q] EXCEPT !.pc = pc]
  <2>1. x \in Requests /\ x.credentials = request[q].credentials
    BY <1>1 DEF Requests
  <2>2. request' = [request EXCEPT ![q] = x]
    BY <1>1, <1>3
  <2>3. CacheInv'
    BY <1>3, CacheKept
  <2> HIDE DEF x
  <2> QED
    BY <1>2, <1>3, <2>1, <2>2, <2>3, AtLogin
<1>4. CASE decideLogin(q)
  <2> DEFINE c == request[q].credentials
             pc == IF password[c[1]] = c[2] THEN "verified" ELSE "refused"
  <2>1. /\ request[q].pc = "login" /\ request' = [request EXCEPT ![q].pc = pc]
        /\ UNCHANGED <<workload, password, loginCache>>
    BY <1>4 DEF decideLogin
  <2>2. pc \in {"verified", "refused"}
    OBVIOUS
  <2> HIDE DEF pc
  <2> QED
    BY <1>3, <2>1, <2>2
<1>5. CASE LoginFail(q)
  BY <1>3, <1>5 DEF LoginFail
<1>6. CASE storeLogin(q)
  <2> DEFINE key == request[q].credentials
             room == evictIfNeeded(loginCache)
  <2>1. /\ request[q].pc = "verified" /\ loginCache' = setEntry(room, key)
        /\ grant(q, request[q], key[1], "login") /\ UNCHANGED <<workload, password>>
    BY <1>6 DEF storeLogin
  <2>2. key \in Credentials /\ key[1] \in User
    BY <1>2, <2>1 DEF Credentials
  <2>3. IsCache(room) /\ Len(room) < LOGIN_CACHE_MAX_ENTRIES
    BY Evicted DEF ReadInv, CacheInv
  <2> HIDE DEF room
  <2>4. IsCache(loginCache') /\ Len(loginCache') <= LOGIN_CACHE_MAX_ENTRIES
    BY <2>1, <2>2, <2>3, Set
  <2>5. CacheInv'
    BY <2>1, <2>4 DEF ReadInv, CacheInv, CacheBounded
  <2> QED
    BY <1>1, <2>1, <2>2, <2>5, Granted
<1>7. CASE loginRefused(q)
  BY <1>1, <1>7, CacheKept, Granted DEF loginRefused
<1> QED
  BY <1>4, <1>5, <1>6, <1>7

\* Passwords change and entries expire.
LEMMA StepTime ==
    ASSUME ReadInv, UNCHANGED streamVars, ChangePassword \/ Tick
    PROVE  ReadInv'
<1>1. CacheInv' /\ request' = request
  <2>1. CASE ChangePassword
    <3>1. password' \in [User -> 0 .. MaxPassword]
      BY <2>1, LoginAssumption DEF ChangePassword, ReadInv, CacheInv
    <3> QED
      BY <2>1, <3>1 DEF ChangePassword, ReadInv, CacheInv, CacheBounded
  <2>2. CASE Tick
    <3> DEFINE after(i) == [loginCache[i] EXCEPT !.ttl = IF @ > 0 THEN @ - 1 ELSE 0]
    <3>1. loginCache \in Seq(Entry) /\ Len(loginCache) \in Nat
          /\ DOMAIN loginCache = 1 .. Len(loginCache) /\ Distinct(loginCache)
      BY DEF ReadInv, CacheInv, IsCache
    <3>2. \A i \in 1 .. Len(loginCache) :
             after(i) \in Entry /\ after(i).key = loginCache[i].key
      <4>1. ASSUME NEW e \in Entry
            PROVE  LET d == [e EXCEPT !.ttl = IF @ > 0 THEN @ - 1 ELSE 0]
                   IN  d \in Entry /\ d.key = e.key
        BY LoginAssumption DEF Entry
      <4>2. \A i \in 1 .. Len(loginCache) : loginCache[i] \in Entry
        BY <3>1
      <4> QED
        BY <4>1, <4>2
    <3>3. loginCache' = [i \in 1 .. Len(loginCache) |-> after(i)]
      BY <2>2, <3>1 DEF Tick
    <3> HIDE DEF after
    <3>4. /\ loginCache' \in Seq(Entry) /\ Len(loginCache') = Len(loginCache)
          /\ DOMAIN loginCache' = DOMAIN loginCache
          /\ \A i \in DOMAIN loginCache : loginCache'[i].key = loginCache[i].key
      <4>1. loginCache' \in Seq(Entry) /\ Len(loginCache') = Len(loginCache)
        BY <3>1, <3>2, <3>3, IsASeq
      <4> QED
        BY <3>1, <3>2, <3>3, <4>1
    <3>5. Distinct(loginCache')
      BY <3>1, <3>4 DEF Distinct
    <3> QED
      BY <2>2, <3>4, <3>5 DEF Tick, ReadInv, CacheInv, CacheBounded, IsCache
  <2> QED
    BY <2>1, <2>2 DEF ChangePassword, Tick
<1> QED
  BY <1>1 DEF ReadInv, streamVars

-----------------------------------------------------------------------------
(***************************************************************************)
(* Reads                                                                   *)
(***************************************************************************)
\* A step at a slot whose request goes on.
LEMMA AtRead ==
    ASSUME ReadInv, NEW q \in Slot, UNCHANGED loginVars,
           NEW s, NEW f, NEW r, SlotInv(request[q], s, f, r),
           source' = [source EXCEPT ![q] = s],
           filtered' = [filtered EXCEPT ![q] = f], res' = [res EXCEPT ![q] = r]
    PROVE  ReadInv'
<1>1. request' = [request EXCEPT ![q] = request[q]]
  BY Unchanged DEF loginVars
<1>2. CacheInv'
  BY CacheKept DEF loginVars
<1> QED
  BY <1>1, <1>2, AtSlot

\* A request that ends releases CouchDB's response.
LEMMA AtEnd ==
    ASSUME ReadInv, NEW q \in Slot, over(q),
           UNCHANGED <<workload, password, loginCache, filtered>>,
           NEW state \in {"ended", "destroyed"}, NEW answered, NEW left \in BOOLEAN,
           answered \in {"status", "complete", "aborted"},
           source' = [source EXCEPT ![q] = [source[q] EXCEPT !.state = state]],
           res' = [res EXCEPT ![q] = [res[q] EXCEPT !.state = answered, !.left = left]]
    PROVE  ReadInv'
<1> DEFINE x == [request[q] EXCEPT !.pc = "over"]
           s == [source[q] EXCEPT !.state = state]
           r == [res[q] EXCEPT !.state = answered, !.left = left]
<1>1. SlotInv(request[q], source[q], filtered[q], res[q])
  BY DEF ReadInv
<1>2. /\ request[q] \in Requests /\ source[q] \in Sources /\ res[q] \in Responses
      /\ IsFilter(filtered[q]) /\ res[q].sent \in 0 .. Len(filtered[q].out)
  BY <1>1 DEF SlotInv
<1>3. x \in Requests /\ x.pc = "over"
  BY <1>2 DEF Requests
<1>4. s \in Sources /\ s.state = state
  BY <1>2 DEF Sources
<1>5. r \in Responses
  BY <1>2 DEF Responses
<1>6. r.sent = res[q].sent
  BY <1>2 DEF Responses
<1>7. request' = [request EXCEPT ![q] = x]
  BY DEF over, ReadInv
<1>8. filtered' = [filtered EXCEPT ![q] = filtered[q]]
  BY Unchanged
<1>9. CacheInv'
  BY CacheKept
<1>10. source' = [source EXCEPT ![q] = s] /\ res' = [res EXCEPT ![q] = r]
  OBVIOUS
<1> HIDE DEF x, s, r
<1>11. SlotInv(x, s, filtered[q], r)
  BY <1>2, <1>3, <1>4, <1>5, <1>6 DEF SlotInv
<1> QED
  BY <1>7, <1>8, <1>9, <1>10, <1>11, AtSlot

LEMMA StepFail ==
    ASSUME ReadInv, NEW q \in Slot, NEW state \in {"ended", "destroyed"},
           failRead(q, state)
    PROVE  ReadInv'
<1> DEFINE answered == IF res[q].sent = 0 /\ ~ res[q].left THEN "status" ELSE "aborted"
<1>1. source \in [Slot -> Sources] /\ res \in [Slot -> Responses]
  BY DEF ReadInv
<1>2. /\ over(q) /\ UNCHANGED <<workload, password, loginCache, filtered>>
      /\ source' = [source EXCEPT ![q].state = state]
      /\ res' = [res EXCEPT ![q].state = answered]
  BY DEF failRead
<1>3. answered \in {"status", "complete", "aborted"}
  OBVIOUS
<1> HIDE DEF answered
<1>4. source' = [source EXCEPT ![q] = [source[q] EXCEPT !.state = state]]
  BY <1>1, <1>2
<1>5. res[q].left \in BOOLEAN
  BY <1>1 DEF Responses
<1>6. [res[q] EXCEPT !.state = answered]
        = [res[q] EXCEPT !.state = answered, !.left = res[q].left]
  BY <1>1 DEF Responses
<1>7. res' = [res EXCEPT ![q] = [res[q] EXCEPT !.state = answered, !.left = res[q].left]]
  BY <1>1, <1>2, <1>6
<1> QED
  BY <1>2, <1>3, <1>4, <1>5, <1>7, AtEnd

\* CouchDB's response changes and nothing is sent.
LEMMA AtSource ==
    ASSUME ReadInv, NEW q \in Slot, UNCHANGED <<loginVars, filtered, res>>,
           NEW s \in Sources, source' = [source EXCEPT ![q] = s],
           s.state \in {"asked", "errorBody", "open"} => isRead(q),
           s.state \in {"none", "asked", "errorBody"} => res[q].sent = 0,
           s.state = "open" => Tokens(s.doc) \in Seq(Token)
    PROVE  ReadInv'
<1> DEFINE f == filtered[q]
           r == res[q]
<1>1. SlotInv(request[q], source[q], f, r)
  BY DEF ReadInv
<1>2. SlotInv(request[q], s, f, r)
  BY <1>1 DEF SlotInv, isRead
<1>3. filtered' = [filtered EXCEPT ![q] = f] /\ res' = [res EXCEPT ![q] = r]
  BY Unchanged
<1>4. UNCHANGED loginVars
  BY DEF loginVars
<1> HIDE DEF f, r
<1> QED
  BY <1>2, <1>3, <1>4, AtRead

LEMMA StepSource ==
    ASSUME ReadInv, NEW q \in Slot,
           \/ requestStream(q) \/ streamFiltered(q) \/ toBufferedError(q)
           \/ RequestFail(q) \/ readErrorChunk(q) \/ errorBodyEnd(q)
           \/ errorBodyTimeout(q) \/ sourceEnd(q) \/ SourceFail(q)
    PROVE  ReadInv'
<1>1. /\ source \in [Slot -> Sources] /\ source[q] \in Sources
      /\ SlotInv(request[q], source[q], filtered[q], res[q])
  BY DEF ReadInv
<1>2. /\ source[q].state \in {"asked", "errorBody", "open"} => isRead(q)
      /\ source[q].state \in {"none", "asked", "errorBody"} => res[q].sent = 0
  BY <1>1 DEF SlotInv, isRead
<1>3. ASSUME NEW state \in {"asked", "errorBody", "ended"},
             source' = [source EXCEPT ![q].state = state],
             UNCHANGED <<loginVars, filtered, res>>,
             state # "ended" => isRead(q) /\ res[q].sent = 0
      PROVE  ReadInv'
  <2> DEFINE s == [source[q] EXCEPT !.state = state]
  <2>1. s \in Sources /\ s.state = state
    BY <1>1 DEF Sources
  <2>2. source' = [source EXCEPT ![q] = s]
    BY <1>1, <1>3
  <2> HIDE DEF s
  <2> QED
    BY <1>3, <2>1, <2>2, AtSource
<1>4. CASE requestStream(q)
  BY <1>2, <1>3, <1>4 DEF requestStream
<1>5. CASE toBufferedError(q)
  BY <1>2, <1>3, <1>5 DEF toBufferedError
<1>6. CASE streamFiltered(q)
  <2>1. PICK doc \in Documents[request[q].endpoint] :
           source' = [source EXCEPT ![q] = [state |-> "open", doc |-> doc, read |-> 0]]
    BY <1>6 DEF streamFiltered
  <2> DEFINE s == [state |-> "open", doc |-> doc, read |-> 0]
             f == NewFilter(request[q].endpoint, request[q].user)
  <2>2. /\ source[q].state = "asked" /\ UNCHANGED <<loginVars, res>>
        /\ filtered' = [filtered EXCEPT ![q] = f]
    BY <1>6 DEF streamFiltered
  <2>3. /\ request[q].endpoint \in Endpoint /\ request[q].pc = "granted"
        /\ request[q] \in Requests /\ res[q] \in Responses /\ res[q].sent = 0
    BY <1>1, <2>2 DEF SlotInv
  <2>4. Tokens(doc) \in Seq(Token)
    BY <2>1, <2>3, StreamAssumption, TokensTyped
  <2>5. s \in Sources
    BY <2>1, <2>3 DEF Sources
  <2>6. request[q].user \in Reader
    BY <2>3, StreamAssumption DEF Requests
  <2>7. IsFilter(f) /\ f.out = <<>>
    BY <2>3, <2>6, FilterStarts
  <2>8. s.state = "open" /\ s.doc = doc
    OBVIOUS
  <2>9. source' = [source EXCEPT ![q] = s]
    BY <2>1
  <2> HIDE DEF s, f
  <2>10. res[q].sent \in 0 .. Len(f.out)
    BY <2>3, <2>7
  <2>11. SlotInv(request[q], s, f, res[q])
    BY <2>3, <2>4, <2>5, <2>7, <2>8, <2>10 DEF SlotInv
  <2>12. res' = [res EXCEPT ![q] = res[q]]
    BY <2>2, Unchanged
  <2> QED
    BY <2>2, <2>9, <2>11, <2>12, AtRead
<1>7. CASE RequestFail(q) \/ errorBodyEnd(q) \/ errorBodyTimeout(q) \/ SourceFail(q)
  BY <1>7, StepFail DEF RequestFail, errorBodyEnd, errorBodyTimeout, SourceFail
<1>8. CASE sourceEnd(q)
  BY <1>3, <1>8, StepFail DEF sourceEnd
<1>9. CASE readErrorChunk(q)
  <2>1. CASE failRead(q, "destroyed")
    BY <2>1, StepFail
  <2>2. CASE source' = [source EXCEPT ![q].read = @ + 1]
             /\ UNCHANGED <<loginVars, filtered, res>>
    <3> DEFINE s == [source[q] EXCEPT !.read = @ + 1]
    <3>1. s \in Sources /\ s.state = source[q].state
      BY <1>1 DEF Sources
    <3>2. source' = [source EXCEPT ![q] = s]
      BY <1>1, <2>2
    <3>3. source[q].state = "errorBody"
      BY <1>9 DEF readErrorChunk
    <3> HIDE DEF s
    <3> QED
      BY <1>2, <2>2, <3>1, <3>2, <3>3, AtSource
  <2> QED
    BY <1>9, <2>1, <2>2 DEF readErrorChunk
<1> QED
  BY <1>4, <1>5, <1>6, <1>7, <1>8, <1>9

LEMMA StepTransform ==
    ASSUME ReadInv, NEW q \in Slot, transform(q)
    PROVE  ReadInv'
<1> DEFINE tokens == Tokens(source[q].doc)
           token == tokens[source[q].read + 1]
           f == processToken(filtered[q], token)
           s == [source[q] EXCEPT !.read = @ + 1]
<1>1. /\ source \in [Slot -> Sources]
      /\ SlotInv(request[q], source[q], filtered[q], res[q])
  BY DEF ReadInv
<1>2. /\ source[q] \in Sources /\ IsFilter(filtered[q]) /\ res[q] \in Responses
      /\ res[q].sent \in 0 .. Len(filtered[q].out)
  BY <1>1 DEF SlotInv
<1>3. CASE failRead(q, "destroyed")
  BY <1>3, StepFail
<1>4. CASE /\ filtered' = [filtered EXCEPT ![q] = f]
           /\ source' = [source EXCEPT ![q].read = @ + 1]
           /\ UNCHANGED <<loginVars, res>>
  <2>1. source[q].state = "open" /\ source[q].read < Len(tokens)
    BY DEF transform
  <2>2. tokens \in Seq(Token) /\ source[q].read \in Nat
    BY <1>1, <1>2, <2>1 DEF SlotInv, Sources
  <2>3. token \in Token
    BY <2>1, <2>2
  <2> HIDE DEF tokens, token
  <2>4. IsFilter(f) /\ Grows(filtered[q], f)
    BY <1>2, <2>3, Processes
  <2>5. s \in Sources /\ s.state = source[q].state /\ s.doc = source[q].doc
    BY <1>2 DEF Sources
  <2>6. source' = [source EXCEPT ![q] = s]
    BY <1>1, <1>4
  <2>7. res' = [res EXCEPT ![q] = res[q]]
    BY <1>4, Unchanged
  <2> HIDE DEF s, f
  <2>8. res[q].sent \in 0 .. Len(f.out)
    <3>1. Len(f.out) \in Nat /\ Len(filtered[q].out) \in Nat
      BY <1>2, <2>4, Written DEF IsFilter
    <3> QED
      BY <1>2, <2>4, <3>1 DEF Grows
  <2>9. SlotInv(request[q], s, f, res[q])
    BY <1>1, <2>4, <2>5, <2>8 DEF SlotInv
  <2> QED
    BY <1>4, <2>6, <2>7, <2>9, AtRead
<1> QED
  BY <1>3, <1>4 DEF transform

LEMMA StepResponse ==
    ASSUME ReadInv, NEW q \in Slot,
           \/ forwardToResponse(q) \/ onFinish(q) \/ onClose(q)
           \/ ClientLeaves(q) \/ answer(q)
    PROVE  ReadInv'
<1>1. /\ source \in [Slot -> Sources] /\ res \in [Slot -> Responses]
      /\ SlotInv(request[q], source[q], filtered[q], res[q])
  BY DEF ReadInv
<1>2. /\ source[q] \in Sources /\ IsFilter(filtered[q]) /\ res[q] \in Responses
      /\ res[q].sent \in 0 .. Len(filtered[q].out)
  BY <1>1 DEF SlotInv
<1>3. Len(filtered[q].out) \in Nat /\ res[q].left \in BOOLEAN
  BY <1>2, Written DEF IsFilter, Responses
<1>4. ASSUME NEW r \in Responses, res' = [res EXCEPT ![q] = r],
             UNCHANGED <<loginVars, source, filtered>>,
             r.sent \in 0 .. Len(filtered[q].out),
             source[q].state \in {"none", "asked", "errorBody"} => r.sent = 0
      PROVE  ReadInv'
  <2>1. SlotInv(request[q], source[q], filtered[q], r)
    BY <1>1, <1>4 DEF SlotInv
  <2>2. /\ source' = [source EXCEPT ![q] = source[q]]
        /\ filtered' = [filtered EXCEPT ![q] = filtered[q]]
    BY <1>4, Unchanged
  <2> QED
    BY <1>4, <2>1, <2>2, AtRead
<1>5. CASE forwardToResponse(q)
  <2> DEFINE r == [res[q] EXCEPT !.sent = @ + 1]
  <2>1. r \in Responses /\ r.sent = res[q].sent + 1
    BY <1>2 DEF Responses
  <2>2. res' = [res EXCEPT ![q] = r] /\ UNCHANGED <<loginVars, source, filtered>>
    BY <1>1, <1>5 DEF forwardToResponse
  <2>3. res[q].sent + 1 \in 0 .. Len(filtered[q].out)
    BY <1>2, <1>3, <1>5 DEF forwardToResponse
  <2>4. source[q].state \in {"open", "ended"}
    BY <1>5 DEF forwardToResponse, isStreaming
  <2> HIDE DEF r
  <2> QED
    BY <1>4, <2>1, <2>2, <2>3, <2>4
<1>6. CASE ClientLeaves(q)
  <2> DEFINE r == [res[q] EXCEPT !.left = TRUE]
  <2>1. r \in Responses
    BY <1>2 DEF Responses
  <2>2. r.sent = res[q].sent
    BY <1>2 DEF Responses
  <2>3. res' = [res EXCEPT ![q] = r] /\ UNCHANGED <<loginVars, source, filtered>>
    BY <1>1, <1>6 DEF ClientLeaves
  <2>4. source[q].state \in {"none", "asked", "errorBody"} => res[q].sent = 0
    BY <1>1 DEF SlotInv
  <2> HIDE DEF r
  <2> QED
    BY <1>2, <1>4, <2>1, <2>2, <2>3, <2>4
<1>7. CASE onFinish(q)
  <2>1. /\ source[q].state = "ended" /\ over(q)
        /\ UNCHANGED <<workload, password, loginCache, source, filtered>>
        /\ res' = [res EXCEPT ![q].state = "complete"]
    BY <1>7 DEF onFinish
  <2>2. source[q] = [source[q] EXCEPT !.state = "ended"]
    BY <1>2, <2>1 DEF Sources
  <2>3. source' = [source EXCEPT ![q] = [source[q] EXCEPT !.state = "ended"]]
    BY <2>1, <2>2, Unchanged
  <2>4. [res[q] EXCEPT !.state = "complete"]
          = [res[q] EXCEPT !.state = "complete", !.left = res[q].left]
    BY <1>2 DEF Responses
  <2>5. res' = [res EXCEPT ![q] = [res[q] EXCEPT !.state = "complete", !.left = res[q].left]]
    BY <1>1, <2>1, <2>4
  <2> QED
    BY <1>3, <2>1, <2>3, <2>5, AtEnd
<1>8. CASE onClose(q)
  <2> DEFINE state == IF source[q].state = "open" THEN "destroyed" ELSE source[q].state
  <2>1. /\ over(q) /\ UNCHANGED <<workload, password, loginCache, filtered>>
        /\ source' = [source EXCEPT ![q].state = IF @ = "open" THEN "destroyed" ELSE @]
        /\ res' = [res EXCEPT ![q].state = "aborted", ![q].left = TRUE]
    BY <1>8 DEF onClose
  <2>2. state \in {"ended", "destroyed"}
    BY <1>8 DEF onClose, isStreaming
  <2>3. source' = [source EXCEPT ![q] = [source[q] EXCEPT !.state = state]]
    BY <1>1, <2>1
  <2>4. res' = [res EXCEPT ![q] = [res[q] EXCEPT !.state = "aborted", !.left = TRUE]]
    BY <1>1, <2>1
  <2> HIDE DEF state
  <2> QED
    BY <2>1, <2>2, <2>3, <2>4, AtEnd
<1>9. CASE answer(q)
  <2>1. CacheInv'
    BY <1>9, CacheKept DEF answer
  <2> QED
    BY <1>9, <2>1, SlotStarts, AtSlot DEF answer
<1> QED
  BY <1>5, <1>6, <1>7, <1>8, <1>9

LEMMA ReadStep == ReadInv /\ [Next]_vars => ReadInv'
<1> SUFFICES ASSUME ReadInv, [Next]_vars PROVE ReadInv'
  OBVIOUS
<1>1. CASE UNCHANGED vars
  BY <1>1, CacheKept DEF vars, loginVars, streamVars, ReadInv
<1>2. CASE (ChangePassword \/ Tick) /\ UNCHANGED streamVars
  BY <1>2, StepTime
<1>3. ASSUME NEW q \in Slot, LoginStep(q), UNCHANGED streamVars
      PROVE  ReadInv'
  BY <1>3, StepValidate, StepLogin DEF LoginStep
<1>4. ASSUME NEW q \in Slot, Read(q)
      PROVE  ReadInv'
  BY <1>4, StepSource, StepTransform, StepResponse DEF Read
<1> QED
  BY <1>1, <1>2, <1>3, <1>4 DEF Next

-----------------------------------------------------------------------------
(***************************************************************************)
(* The theorems                                                            *)
(***************************************************************************)
LEMMA ReadAlways == Spec => []ReadInv
<1>1. Init => ReadInv
  BY ReadInit
<1>2. ReadInv /\ [Next]_vars => ReadInv'
  BY ReadStep
<1> QED
  BY <1>1, <1>2, PTL DEF Spec

\* The cache, the requests, CouchDB's responses, the transforms and what was
\* sent have their types: the cache has no key twice and no client was sent
\* more than the transform has written.
THEOREM TypeCorrect == Spec => []ReadTypeOK
<1>1. ReadInv => ReadTypeOK
  <2>1. SUFFICES ASSUME ReadInv PROVE ReadTypeOK
    OBVIOUS
  <2>2. LoginTypeOK
    BY <2>1 DEF ReadInv, CacheInv, IsCache, Distinct, LoginTypeOK, Requests
  <2>3. \A q \in Slot : res[q].sent \in 0 .. Len(filtered[q].out)
    BY <2>1 DEF ReadInv, SlotInv
  <2> QED
    BY <2>1, <2>2, <2>3 DEF ReadTypeOK, ReadInv, Sources, Responses
<1> QED
  BY <1>1, ReadAlways, PTL

\* The login cache stays within LOGIN_CACHE_MAX_ENTRIES, however many logins
\* are under way when it is full.
THEOREM CacheStaysBounded == Spec => []CacheBounded
<1>1. ReadInv => CacheBounded
  BY DEF ReadInv, CacheInv
<1> QED
  BY <1>1, ReadAlways, PTL

\* No request ends with CouchDB's response still open.
THEOREM SourcesReleased == Spec => []SourceReleased
<1>1. ReadInv => SourceReleased
  <2>1. SUFFICES ASSUME ReadInv, NEW q \in Slot, request[q].pc = "over"
                 PROVE  source[q].state \in {"none", "ended", "destroyed"}
    BY DEF SourceReleased
  <2>2. SlotInv(request[q], source[q], filtered[q], res[q])
    BY <2>1 DEF ReadInv
  <2> QED
    BY <2>1, <2>2 DEF SlotInv, Sources
<1> QED
  BY <1>1, ReadAlways, PTL

\* What a step drops from the cache: nothing but expired entries, or the oldest
\* live entry when the cache is full of live ones.
Spares ==
    \A i \in DOMAIN loginCache :
        isLive(loginCache[i]) /\ loginCache[i].key \notin Keys(loginCache') =>
            /\ Len(loginCache) >= LOGIN_CACHE_MAX_ENTRIES
            /\ \A entry \in ToSet(loginCache') : isLive(entry)
            /\ \A j \in DOMAIN loginCache \ {i} :
                  ~ (isLive(loginCache[j]) /\ loginCache[j].key \notin Keys(loginCache'))
            /\ \A j \in 1 .. i - 1 :
                  \/ loginCache[j].key \notin Keys(loginCache')
                  \/ loginCache[j].key = Last(loginCache').key

LEMMA StoreSpares ==
    ASSUME ReadInv, NEW q \in Slot, storeLogin(q)
    PROVE  Spares
<1> DEFINE key == request[q].credentials
           room == evictIfNeeded(loginCache)
<1>1. request[q].pc = "verified" /\ loginCache' = setEntry(room, key)
  BY DEF storeLogin
<1>2. key \in Credentials
  BY <1>1 DEF ReadInv, SlotInv
<1>3. /\ IsCache(loginCache) /\ Distinct(loginCache)
      /\ Len(loginCache) <= LOGIN_CACHE_MAX_ENTRIES
  BY DEF ReadInv, CacheInv, CacheBounded, IsCache
<1>4. /\ IsCache(room) /\ Len(room) < LOGIN_CACHE_MAX_ENTRIES
      /\ ToSet(room) \subseteq ToSet(loginCache)
  BY <1>3, Evicted
<1>5. SUFFICES ASSUME NEW i \in DOMAIN loginCache, isLive(loginCache[i]),
                      loginCache[i].key \notin Keys(loginCache')
               PROVE  /\ Len(loginCache) >= LOGIN_CACHE_MAX_ENTRIES
                      /\ \A entry \in ToSet(loginCache') : isLive(entry)
                      /\ \A j \in DOMAIN loginCache \ {i} :
                            isLive(loginCache[j]) => loginCache[j].key \in Keys(loginCache')
                      /\ \A j \in 1 .. i - 1 :
                            \/ loginCache[j].key \notin Keys(loginCache')
                            \/ loginCache[j].key = Last(loginCache').key
  BY DEF Spares
<1> HIDE DEF room
<1>6. /\ Keys(loginCache') = Keys(room) \cup {key}
      /\ (\A entry \in ToSet(room) : isLive(entry)) =>
            \A entry \in ToSet(loginCache') : isLive(entry)
      /\ key \notin Keys(room) => Last(loginCache').key = key
  BY <1>1, <1>2, <1>4, Set
<1>7. /\ Len(loginCache) >= LOGIN_CACHE_MAX_ENTRIES
      /\ \A entry \in ToSet(room) : isLive(entry)
      /\ \A j \in DOMAIN loginCache : j # i /\ isLive(loginCache[j]) =>
            loginCache[j].key \in Keys(room)
      /\ \A j \in 1 .. i - 1 : ~ isLive(loginCache[j])
  <2>1. loginCache[i].key \notin Keys(room)
    BY <1>5, <1>6
  <2> QED
    BY <1>3, <1>5, <2>1, EvictedLive DEF room
<1>8. ASSUME NEW j \in 1 .. i - 1
      PROVE  loginCache[j].key \notin Keys(room)
  <2>1. SUFFICES ASSUME loginCache[j].key \in Keys(room) PROVE FALSE
    OBVIOUS
  <2>2. PICK k \in DOMAIN room : room[k].key = loginCache[j].key
    BY <2>1 DEF Keys
  <2>3. room[k] \in ToSet(room)
    BY DEF ToSet
  <2>4. PICK l \in DOMAIN loginCache : room[k] = loginCache[l]
    BY <1>4, <2>3 DEF ToSet
  <2>5. j \in DOMAIN loginCache
    BY <1>3, <1>5 DEF IsCache
  <2>6. l = j
    BY <1>3, <2>2, <2>4, <2>5 DEF Distinct
  <2> QED
    BY <1>7, <2>3, <2>4, <2>6
<1> QED
  BY <1>6, <1>7, <1>8

LEMMA NextSpares ==
    ASSUME ReadInv, Next
    PROVE  Spares
<1>1. ASSUME \A i \in DOMAIN loginCache :
                isLive(loginCache[i]) => loginCache[i].key \in Keys(loginCache')
      PROVE  Spares
  BY <1>1 DEF Spares
<1>2. CASE UNCHANGED loginCache
  BY <1>1, <1>2 DEF Keys
<1>3. CASE Tick
  <2>1. DOMAIN loginCache' = DOMAIN loginCache
    BY <1>3 DEF Tick
  <2>2. \A i \in DOMAIN loginCache : loginCache[i] \in Entry
    BY DEF ReadInv, CacheInv, IsCache
  <2>3. \A i \in DOMAIN loginCache : loginCache'[i].key = loginCache[i].key
    BY <1>3, <2>2 DEF Tick, Entry
  <2> QED
    BY <1>1, <2>1, <2>3 DEF Keys
<1>4. ASSUME NEW q \in Slot, storeLogin(q)
      PROVE  Spares
  BY <1>4, StoreSpares
<1>5. ASSUME NEW q \in Slot, validate(q), ~ UNCHANGED loginCache
      PROVE  Spares
  <2>1. PICK credentials : /\ ~ cachedLogin(credentials)
                           /\ loginCache' = Without(loginCache, credentials)
    BY <1>5 DEF validate
  <2>2. \A i \in DOMAIN loginCache :
           isLive(loginCache[i]) => loginCache[i].key # credentials
    BY <2>1 DEF cachedLogin, Live, ToSet
  <2>3. \A i \in DOMAIN loginCache :
           loginCache[i].key # credentials => loginCache[i].key \in Keys(loginCache')
    BY <2>1, EntryDeleted DEF ReadInv
  <2> QED
    BY <1>1, <2>2, <2>3
<1>6. ASSUME NEW q \in Slot,
             (LoginStep(q) /\ ~ validate(q) /\ ~ storeLogin(q)) \/ Read(q)
      PROVE  UNCHANGED loginCache
  BY <1>6 DEF LoginStep, decideLogin, LoginFail, loginRefused, Read, requestStream,
     streamFiltered, toBufferedError, RequestFail, readErrorChunk, errorBodyEnd,
     errorBodyTimeout, transform, sourceEnd, SourceFail, forwardToResponse, onFinish,
     onClose, ClientLeaves, answer, failRead, loginVars
<1>7. CASE ChangePassword
  BY <1>2, <1>7 DEF ChangePassword
<1> QED
  BY <1>2, <1>3, <1>4, <1>5, <1>6, <1>7 DEF Next, LoginStep

\* A live login leaves the cache only when the cache is full, and then it is
\* the oldest one and the only one, however logins overlap.
THEOREM EvictionAlwaysSparesLive == Spec => EvictionSparesLive
<1>1. ReadInv /\ [Next]_vars => [Spares]_loginVars
  BY NextSpares DEF vars
<1>2. [Spares]_loginVars =>
         [LET Before == DOMAIN loginCache
              dropped(i) == loginCache[i].key \notin Keys(loginCache')
              lost(i) == isLive(loginCache[i]) /\ dropped(i)
          IN  \A i \in Before : lost(i) =>
                /\ Len(loginCache) >= LOGIN_CACHE_MAX_ENTRIES
                /\ \A entry \in ToSet(loginCache') : isLive(entry)
                /\ \A j \in Before \ {i} : ~ lost(j)
                /\ \A j \in 1 .. i - 1 :
                      dropped(j) \/ loginCache[j].key = Last(loginCache').key]_loginVars
  BY DEF Spares
<1> QED
  BY <1>1, <1>2, ReadAlways, PTL DEF Spec, EvictionSparesLive

-----------------------------------------------------------------------------
(***************************************************************************)
(* What was sent                                                           *)
(***************************************************************************)
\* What should be written of CouchDB's response s, for whom the filter f is.
Expected(s, f) == Filtered(s.doc, f.options)

\* t is the first part of u.
Begins(t, u) ==
    /\ t \in Seq(Token) /\ u \in Seq(Token)
    /\ Len(t) <= Len(u) /\ \A i \in 1 .. Len(t) : t[i] = u[i]

\* The rest of CouchDB's response takes the transform to the end of what it
\* should write; of a root that is no object nothing has been read.
Rest(s, f) ==
    /\ s.doc \in Document /\ s.read \in 0 .. Len(Tokens(s.doc))
    /\ IF isRoot(s.doc) THEN s.read = 0 /\ f.mode = "init" /\ f.value = <<>>
       ELSE \E h : /\ Feeds(f, Tokens(s.doc), s.read, h)
                   /\ h.mode = "done" /\ h.options = f.options /\ h.out = Expected(s, f)

\* One slot: what is written is the first part of what it should be, all of it
\* when the response has ended while the request goes on, and what was answered
\* goes with what was sent.  The first two say that nothing is asked before the
\* request is granted and nothing answered before it is over: else a later step
\* could break the others.
Follows(x, s, f, r) ==
    /\ x.pc \notin {"granted", "over"} => s.state = "none"
    /\ x.pc # "over" => r.state = "open"
    /\ Begins(f.out, Expected(s, f))
    /\ s.state = "open" => Rest(s, f)
    /\ s.state = "ended" /\ x.pc = "granted" => f.out = Expected(s, f)
    /\ r.state = "complete" => r.sent = Len(f.out) /\ f.out = Expected(s, f)
    /\ r.state = "status" => r.sent = 0

AnswerInv == \A q \in Slot : Follows(request[q], source[q], filtered[q], res[q])

\* Nothing is written of an empty document, that of a slot without response.
LEMMA Nothing ==
    ASSUME NEW s, s.doc = <<>>, NEW f, f.out = <<>>
    PROVE  Begins(f.out, Expected(s, f))
<1> DEFINE none == <<>>
           flat == Separated([i \in DOMAIN none |-> MemberText(none[i], f.options)])
<1>1. ~ isRoot(none)
  <2>1. ToSet(none) = {}
    BY DEF ToSet
  <2> QED
    BY <2>1 DEF isRoot
<1>2. [i \in DOMAIN none |-> MemberText(none[i], f.options)] \in Seq(Seq(Token))
  <2>1. DOMAIN none = 1 .. 0
    OBVIOUS
  <2>2. [i \in DOMAIN none |-> MemberText(none[i], f.options)] = none
    BY <2>1
  <2>3. none \in Seq(Seq(Token))
    OBVIOUS
  <2> QED
    BY <2>2, <2>3
<1>3. flat = <<>>
  <2> DEFINE texts == [i \in DOMAIN none |-> MemberText(none[i], f.options)]
  <2>1. Len(texts) = 0
    OBVIOUS
  <2> HIDE DEF texts
  <2>2. PICK D : D[0] = <<>> /\ Separated(texts) = D[Len(texts)]
    BY <1>2, Separates DEF texts
  <2> QED
    BY <2>1, <2>2 DEF texts
<1>4. Expected(s, f) = <<StartObject>> \o flat \o <<EndObject>>
  BY <1>1 DEF Expected, Filtered, Enclosed
<1> HIDE DEF flat
<1>5. Expected(s, f) \in Seq(Token)
  BY <1>3, <1>4, Constants
<1> QED
  BY <1>5 DEF Begins

\* A slot that is not used.
LEMMA AnswerStarts == Follows(NoRequest, NoSource, NoFilter, NoResponse)
<1>1. NoRequest.pc = "none"
  BY DEF NoRequest
<1>2. NoSource.state = "none" /\ NoSource.doc = <<>>
  BY DEF NoSource
<1>3. NoResponse.state = "open"
  BY DEF NoResponse
<1>4. NoFilter.out = <<>>
  BY DEF NoFilter, NewFilter
<1>5. Begins(NoFilter.out, Expected(NoSource, NoFilter))
  BY <1>2, <1>4, Nothing
<1> QED
  BY <1>1, <1>2, <1>3, <1>5 DEF Follows

\* The transform at the beginning of a response.
LEMMA RestStarts ==
    ASSUME NEW endpoint \in Endpoint, NEW user \in Reader, NEW s, s.doc \in Document,
           s.read = 0, NEW f, f = NewFilter(endpoint, user)
    PROVE  Rest(s, f) /\ Begins(f.out, Expected(s, f))
<1> DEFINE options == [endpoint |-> endpoint, user |-> user]
<1>1. /\ f.options = options /\ f.out = <<>> /\ f.mode = "init" /\ f.value = <<>>
  BY DEF NewFilter
<1>2. s.read \in 0 .. Len(Tokens(s.doc))
  <2>1. Tokens(s.doc) \in Seq(Token)
    BY TokensTyped
  <2> QED
    BY <2>1
<1> HIDE DEF options
<1>3. CASE isRoot(s.doc)
  <2>1. Expected(s, f) = <<>>
    BY <1>3 DEF Expected, Filtered
  <2> QED
    BY <1>1, <1>2, <1>3, <2>1 DEF Rest, Begins
<1>4. CASE ~ isRoot(s.doc)
  <2>1. /\ Filtered(s.doc, options) \in Seq(Token)
        /\ \E h : /\ Feeds(f, Tokens(s.doc), 0, h) /\ h.mode = "done"
                  /\ h.options = options /\ h.out = Filtered(s.doc, options)
    BY <1>4, FeedsDocument DEF options
  <2> DEFINE text == Filtered(s.doc, options)
  <2>2. Expected(s, f) = text
    BY <1>1 DEF Expected
  <2> HIDE DEF text
  <2>3. Begins(f.out, text)
    BY <1>1, <2>1 DEF Begins, text
  <2> QED
    BY <1>1, <1>2, <1>4, <2>1, <2>2, <2>3 DEF Rest, text
<1> QED
  BY <1>3, <1>4

\* The transform after one more token.
LEMMA RestRead ==
    ASSUME NEW s, NEW f, IsFilter(f), Rest(s, f), s.read < Len(Tokens(s.doc)),
           NEW t, t.doc = s.doc, t.read = s.read + 1,
           NEW g, g = processToken(f, Tokens(s.doc)[s.read + 1]), g.mode # "error"
    PROVE  Rest(t, g) /\ Begins(g.out, Expected(t, g))
<1> DEFINE tokens == Tokens(s.doc)
           k == s.read
<1>1. /\ s.doc \in Document /\ k \in 0 .. Len(tokens) /\ k < Len(tokens)
  BY DEF Rest
<1>2. tokens \in Seq(Token)
  BY <1>1, TokensTyped
<1>3. k \in Nat /\ k + 1 \in 0 .. Len(tokens) /\ tokens[k + 1] \in Token
  BY <1>1, <1>2
<1>4. ~ isRoot(s.doc)
  <2>1. ASSUME isRoot(s.doc) PROVE FALSE
    <3>1. k = 0 /\ f.mode = "init" /\ tokens[1] # StartObject
      BY <1>1, <2>1, Roots DEF Rest
    <3>2. g = [f EXCEPT !.mode = "error"]
      BY <3>1 DEF processToken, Error
    <3> QED
      BY <3>2 DEF IsFilter, Filter
  <2> QED
    BY <2>1
<1>5. PICK h : /\ Feeds(f, tokens, k, h) /\ h.mode = "done" /\ h.options = f.options
               /\ h.out = Expected(s, f)
  BY <1>4 DEF Rest
<1>6. IsFilter(g) /\ Grows(f, g)
  BY <1>3, Processes
<1> HIDE DEF tokens
<1>7. Feeds(g, tokens, k + 1, h)
  BY <1>1, <1>2, <1>3, <1>5, FeedsOn DEF tokens, k
<1>8. IsFilter(h) /\ Grows(g, h)
  BY <1>2, <1>3, <1>6, <1>7, FeedsGrows
<1>9. g.options = f.options /\ Expected(t, g) = Expected(s, f)
  BY <1>6 DEF Grows, Expected
<1>10. Rest(t, g)
  BY <1>1, <1>3, <1>4, <1>5, <1>7, <1>9 DEF Rest, tokens, k
<1>11. g.out \in Seq(Token) /\ h.out \in Seq(Token)
  BY <1>6, <1>8, Written DEF IsFilter
<1>12. Begins(g.out, h.out)
  BY <1>8, <1>11 DEF Begins, Grows
<1> QED
  BY <1>5, <1>9, <1>10, <1>12

\* A transform that is done has read and written everything.
LEMMA RestEnds ==
    ASSUME NEW s, NEW f, IsFilter(f), Rest(s, f), f.mode = "done"
    PROVE  f.out = Expected(s, f)
<1> DEFINE tokens == Tokens(s.doc)
           k == s.read
<1>1. s.doc \in Document /\ k \in 0 .. Len(tokens) /\ ~ isRoot(s.doc)
  BY DEF Rest
<1>2. tokens \in Seq(Token)
  BY <1>1, TokensTyped
<1>3. PICK h : Feeds(f, tokens, k, h) /\ h.mode = "done" /\ h.out = Expected(s, f)
  BY <1>1 DEF Rest
<1> HIDE DEF tokens, k
<1>4. k = Len(tokens)
  <2>1. k \in 0 .. Len(tokens) /\ Len(tokens) \in Nat
    BY <1>1, <1>2 DEF tokens, k
  <2>2. k < Len(tokens) => h.mode = "error"
    BY <1>2, <1>3, <2>1, FeedsGrows
  <2> QED
    BY <1>3, <2>1, <2>2
<1>5. h = f
  BY <1>3, <1>4 DEF Feeds
<1> QED
  BY <1>3, <1>5

\* A step at one slot.
LEMMA AtAnswer ==
    ASSUME ReadInv, AnswerInv, NEW q \in Slot,
           NEW x, NEW s, NEW f, NEW r, Follows(x, s, f, r),
           request' = [request EXCEPT ![q] = x], source' = [source EXCEPT ![q] = s],
           filtered' = [filtered EXCEPT ![q] = f], res' = [res EXCEPT ![q] = r]
    PROVE  AnswerInv'
<1>1. /\ request'[q] = x /\ source'[q] = s /\ filtered'[q] = f /\ res'[q] = r
      /\ \A p \in Slot \ {q} : /\ request'[p] = request[p] /\ source'[p] = source[p]
                               /\ filtered'[p] = filtered[p] /\ res'[p] = res[p]
  BY DEF ReadInv
<1>2. ASSUME NEW p \in Slot
      PROVE  Follows(request'[p], source'[p], filtered'[p], res'[p])
  <2>1. CASE p = q
    BY <1>1, <2>1
  <2>2. CASE p # q
    <3>1. Follows(request[p], source[p], filtered[p], res[p])
      BY DEF AnswerInv
    <3> QED
      BY <1>1, <2>2, <3>1
  <2> QED
    BY <2>1, <2>2
<1> QED
  BY <1>2 DEF AnswerInv

\* The initial states.
LEMMA AnswerInit == Init => AnswerInv
<1> SUFFICES ASSUME Init, NEW q \in Slot
             PROVE  Follows(request[q], source[q], filtered[q], res[q])
  BY DEF AnswerInv
<1>1. /\ request[q] = NoRequest /\ source[q] = NoSource /\ filtered[q] = NoFilter
      /\ res[q] = NoResponse
  BY DEF Init, LoginInit
<1> QED
  BY <1>1, AnswerStarts

\* A login: nothing was asked of CouchDB yet.
LEMMA AnswerLogin ==
    ASSUME ReadInv, AnswerInv, NEW q \in Slot, LoginStep(q), UNCHANGED streamVars
    PROVE  AnswerInv'
<1>1. request[q].pc \notin {"granted", "over"}
  <2>1. CASE validate(q)
    <3>1. request[q] = NoRequest
      BY <2>1 DEF validate
    <3>2. NoRequest.pc = "none"
      BY DEF NoRequest
    <3> QED
      BY <3>1, <3>2
  <2>2. CASE ~ validate(q)
    BY <2>2 DEF LoginStep, decideLogin, LoginFail, storeLogin, loginRefused
  <2> QED
    BY <2>1, <2>2
<1>2. \E y : request' = [request EXCEPT ![q] = y]
  <2>1. ASSUME NEW x, authenticateViaGuards(q, x) \/ \E u : grant(q, x, u, "login")
        PROVE  \E y : request' = [request EXCEPT ![q] = y]
    BY <2>1 DEF authenticateViaGuards, grant
  <2>2. CASE validate(q)
    BY <2>1, <2>2, Zenon DEF validate
  <2>3. CASE storeLogin(q) \/ loginRefused(q)
    BY <2>1, <2>3 DEF storeLogin, loginRefused
  <2>4. ASSUME NEW pc, request' = [request EXCEPT ![q].pc = pc]
        PROVE  \E y : request' = [request EXCEPT ![q] = y]
    <3>1. request' = [request EXCEPT ![q] = [request[q] EXCEPT !.pc = pc]]
      BY <2>4 DEF ReadInv
    <3> QED
      BY <3>1
  <2>5. CASE decideLogin(q) \/ LoginFail(q)
    BY <2>4, <2>5 DEF decideLogin, LoginFail
  <2> QED
    BY <2>2, <2>3, <2>5 DEF LoginStep
<1>3. PICK y : request' = [request EXCEPT ![q] = y]
  BY <1>2
<1>4. Follows(request[q], source[q], filtered[q], res[q])
  BY DEF AnswerInv
<1>5. Follows(y, source[q], filtered[q], res[q])
  BY <1>1, <1>4 DEF Follows
<1>6. /\ source' = [source EXCEPT ![q] = source[q]]
      /\ filtered' = [filtered EXCEPT ![q] = filtered[q]]
      /\ res' = [res EXCEPT ![q] = res[q]]
  BY Unchanged DEF streamVars
<1> QED
  BY <1>3, <1>5, <1>6, AtAnswer

\* A slot at which the request goes on.
LEMMA AnswerRead ==
    ASSUME ReadInv, AnswerInv, NEW q \in Slot, UNCHANGED request,
           NEW s, NEW f, NEW r, Follows(request[q], s, f, r),
           source' = [source EXCEPT ![q] = s],
           filtered' = [filtered EXCEPT ![q] = f], res' = [res EXCEPT ![q] = r]
    PROVE  AnswerInv'
<1>1. request' = [request EXCEPT ![q] = request[q]]
  BY Unchanged
<1> QED
  BY <1>1, AtAnswer

\* A slot at which it ends.
LEMMA AnswerEnd ==
    ASSUME ReadInv, AnswerInv, NEW q \in Slot, over(q), UNCHANGED filtered,
           NEW state \in {"ended", "destroyed"}, NEW answered, NEW left \in BOOLEAN,
           answered \in {"status", "complete", "aborted"},
           answered = "status" => res[q].sent = 0,
           answered = "complete" => /\ res[q].sent = Len(filtered[q].out)
                                    /\ filtered[q].out = Expected(source[q], filtered[q]),
           source' = [source EXCEPT ![q] = [source[q] EXCEPT !.state = state]],
           res' = [res EXCEPT ![q] = [res[q] EXCEPT !.state = answered, !.left = left]]
    PROVE  AnswerInv'
<1> DEFINE x == [request[q] EXCEPT !.pc = "over"]
           s == [source[q] EXCEPT !.state = state]
           r == [res[q] EXCEPT !.state = answered, !.left = left]
           f == filtered[q]
<1>1. Follows(request[q], source[q], f, res[q])
  BY DEF AnswerInv
<1>2. request[q] \in Requests /\ source[q] \in Sources /\ res[q] \in Responses
  BY DEF ReadInv
<1>3. /\ x.pc = "over" /\ s.state = state /\ s.doc = source[q].doc
      /\ r.state = answered /\ r.sent = res[q].sent
  BY <1>2 DEF Requests, Sources, Responses
<1>4. request' = [request EXCEPT ![q] = x]
  BY DEF over, ReadInv
<1>5. filtered' = [filtered EXCEPT ![q] = f]
  BY Unchanged
<1>6. source' = [source EXCEPT ![q] = s] /\ res' = [res EXCEPT ![q] = r]
  OBVIOUS
<1> HIDE DEF x, s, r
<1>7. Expected(s, f) = Expected(source[q], f)
  BY <1>3 DEF Expected
<1>8. Follows(x, s, f, r)
  <2>1. Begins(f.out, Expected(s, f))
    BY <1>1, <1>7 DEF Follows
  <2>2. r.state = "complete" => r.sent = Len(f.out) /\ f.out = Expected(s, f)
    BY <1>3, <1>7
  <2>3. r.state = "status" => r.sent = 0
    BY <1>3
  <2> QED
    BY <1>3, <2>1, <2>2, <2>3 DEF Follows
<1> HIDE DEF f
<1> QED
  BY <1>4, <1>5, <1>6, <1>8, AtAnswer

\* It ends with an error: a status only if nothing was sent.
LEMMA AnswerFail ==
    ASSUME ReadInv, AnswerInv, NEW q \in Slot, NEW state \in {"ended", "destroyed"},
           failRead(q, state)
    PROVE  AnswerInv'
<1> DEFINE answered == IF res[q].sent = 0 /\ ~ res[q].left THEN "status" ELSE "aborted"
<1>1. source \in [Slot -> Sources] /\ res \in [Slot -> Responses]
  BY DEF ReadInv
<1>2. /\ over(q) /\ UNCHANGED filtered
      /\ source' = [source EXCEPT ![q].state = state]
      /\ res' = [res EXCEPT ![q].state = answered]
  BY DEF failRead
<1>3. /\ answered \in {"status", "complete", "aborted"} /\ res[q].left \in BOOLEAN
      /\ (answered = "status" => res[q].sent = 0) /\ answered # "complete"
  BY <1>1 DEF Responses
<1> HIDE DEF answered
<1>4. source' = [source EXCEPT ![q] = [source[q] EXCEPT !.state = state]]
  BY <1>1, <1>2
<1>5. [res[q] EXCEPT !.state = answered]
        = [res[q] EXCEPT !.state = answered, !.left = res[q].left]
  BY <1>1 DEF Responses
<1>6. res' = [res EXCEPT ![q] = [res[q] EXCEPT !.state = answered, !.left = res[q].left]]
  BY <1>1, <1>2, <1>5
<1> QED
  BY <1>2, <1>3, <1>4, <1>6, AnswerEnd

\* CouchDB is asked, answers with an error or ends.
LEMMA AnswerSource ==
    ASSUME ReadInv, AnswerInv, NEW q \in Slot,
           \/ requestStream(q) \/ toBufferedError(q) \/ RequestFail(q)
           \/ readErrorChunk(q) \/ errorBodyEnd(q) \/ errorBodyTimeout(q)
           \/ sourceEnd(q) \/ SourceFail(q)
    PROVE  AnswerInv'
<1>1. /\ source \in [Slot -> Sources] /\ source[q] \in Sources
      /\ Follows(request[q], source[q], filtered[q], res[q])
      /\ IsFilter(filtered[q])
  BY DEF ReadInv, SlotInv, AnswerInv
<1>2. ASSUME NEW s, source' = [source EXCEPT ![q] = s], s.doc = source[q].doc,
             s.state \in {"asked", "errorBody", "ended"},
             isRead(q), UNCHANGED <<loginVars, filtered, res>>,
             s.state = "ended" => filtered[q].out = Expected(source[q], filtered[q])
      PROVE  AnswerInv'
  <2>1. Expected(s, filtered[q]) = Expected(source[q], filtered[q])
    BY <1>2 DEF Expected
  <2>2. request[q].pc = "granted"
    BY <1>2 DEF isRead
  <2>3. Follows(request[q], s, filtered[q], res[q])
    BY <1>1, <1>2, <2>1, <2>2 DEF Follows
  <2>4. /\ UNCHANGED request
        /\ filtered' = [filtered EXCEPT ![q] = filtered[q]] /\ res' = [res EXCEPT ![q] = res[q]]
    BY <1>2, Unchanged DEF loginVars
  <2>5. source' = [source EXCEPT ![q] = s]
    BY <1>2
  <2> DEFINE f == filtered[q]
             r == res[q]
  <2> HIDE DEF f, r
  <2> QED
    BY <2>3, <2>4, <2>5, AnswerRead DEF f, r
<1>3. ASSUME NEW state \in {"asked", "errorBody", "ended"},
             source' = [source EXCEPT ![q].state = state], isRead(q),
             UNCHANGED <<loginVars, filtered, res>>,
             state = "ended" => filtered[q].out = Expected(source[q], filtered[q])
      PROVE  AnswerInv'
  <2> DEFINE s == [source[q] EXCEPT !.state = state]
  <2>1. s.state = state /\ s.doc = source[q].doc
    BY <1>1 DEF Sources
  <2>2. source' = [source EXCEPT ![q] = s]
    BY <1>1, <1>3
  <2> HIDE DEF s
  <2> QED
    BY <1>2, <1>3, <2>1, <2>2
<1>4. source[q].state \in {"asked", "errorBody"} => isRead(q)
  BY DEF ReadInv, SlotInv, isRead
<1>5. CASE requestStream(q)
  BY <1>3, <1>5 DEF requestStream
<1>6. CASE toBufferedError(q)
  BY <1>3, <1>4, <1>6 DEF toBufferedError
<1>7. CASE RequestFail(q) \/ errorBodyEnd(q) \/ errorBodyTimeout(q) \/ SourceFail(q)
  BY <1>7, AnswerFail DEF RequestFail, errorBodyEnd, errorBodyTimeout, SourceFail
<1>8. CASE sourceEnd(q)
  <2>1. CASE failRead(q, "ended")
    BY <2>1, AnswerFail
  <2>2. CASE /\ Flushed(filtered[q]) /\ source' = [source EXCEPT ![q].state = "ended"]
             /\ UNCHANGED <<loginVars, filtered, res>>
    <3>1. source[q].state = "open" /\ isRead(q)
      BY <1>8 DEF sourceEnd, isStreaming
    <3>2. filtered[q].out = Expected(source[q], filtered[q])
      BY <1>1, <2>2, <3>1, RestEnds DEF Follows, Flushed
    <3> QED
      BY <1>3, <2>2, <3>1, <3>2
  <2> QED
    BY <1>8, <2>1, <2>2 DEF sourceEnd
<1>9. CASE readErrorChunk(q)
  <2>1. CASE failRead(q, "destroyed")
    BY <2>1, AnswerFail
  <2>2. CASE source' = [source EXCEPT ![q].read = @ + 1]
             /\ UNCHANGED <<loginVars, filtered, res>>
    <3> DEFINE s == [source[q] EXCEPT !.read = @ + 1]
    <3>1. s.state = source[q].state /\ s.doc = source[q].doc
      BY <1>1 DEF Sources
    <3>2. source' = [source EXCEPT ![q] = s]
      BY <1>1, <2>2
    <3>3. source[q].state = "errorBody"
      BY <1>9 DEF readErrorChunk
    <3> HIDE DEF s
    <3> QED
      BY <1>2, <1>4, <2>2, <3>1, <3>2, <3>3
  <2> QED
    BY <1>9, <2>1, <2>2 DEF readErrorChunk
<1> QED
  BY <1>5, <1>6, <1>7, <1>8, <1>9

\* The response of CouchDB begins.
LEMMA AnswerBegins ==
    ASSUME ReadInv, AnswerInv, NEW q \in Slot, streamFiltered(q)
    PROVE  AnswerInv'
<1>1. PICK doc \in Documents[request[q].endpoint] :
         source' = [source EXCEPT ![q] = [state |-> "open", doc |-> doc, read |-> 0]]
  BY DEF streamFiltered
<1> DEFINE s == [state |-> "open", doc |-> doc, read |-> 0]
           f == NewFilter(request[q].endpoint, request[q].user)
<1>2. /\ source[q].state = "asked" /\ UNCHANGED <<loginVars, res>>
      /\ filtered' = [filtered EXCEPT ![q] = f]
  BY DEF streamFiltered
<1>3. /\ request[q].endpoint \in Endpoint /\ request[q].pc = "granted"
      /\ request[q] \in Requests
  BY <1>2 DEF ReadInv, SlotInv
<1>4. request[q].user \in Reader
  BY <1>3, StreamAssumption DEF Requests
<1>5. s.doc \in Document
  BY <1>1, <1>3, StreamAssumption
<1>6. s.read = 0 /\ s.state = "open" /\ source' = [source EXCEPT ![q] = s]
  BY <1>1
<1> HIDE DEF s
<1>7. Rest(s, f) /\ Begins(f.out, Expected(s, f))
  BY <1>3, <1>4, <1>5, <1>6, RestStarts
<1> HIDE DEF f
<1>8. Follows(request[q], source[q], filtered[q], res[q])
  BY DEF AnswerInv
<1>9. Follows(request[q], s, f, res[q])
  BY <1>3, <1>6, <1>7, <1>8 DEF Follows
<1>10. UNCHANGED request /\ res' = [res EXCEPT ![q] = res[q]]
  BY <1>2, Unchanged DEF loginVars
<1> QED
  BY <1>2, <1>6, <1>9, <1>10, AnswerRead

\* A token is filtered.
LEMMA AnswerTransform ==
    ASSUME ReadInv, AnswerInv, NEW q \in Slot, transform(q)
    PROVE  AnswerInv'
<1> DEFINE f == processToken(filtered[q], Tokens(source[q].doc)[source[q].read + 1])
           s == [source[q] EXCEPT !.read = @ + 1]
<1>1. /\ source \in [Slot -> Sources] /\ source[q] \in Sources /\ IsFilter(filtered[q])
      /\ Follows(request[q], source[q], filtered[q], res[q])
  BY DEF ReadInv, SlotInv, AnswerInv
<1>2. /\ source[q].state = "open" /\ source[q].read < Len(Tokens(source[q].doc))
      /\ request[q].pc = "granted"
  BY DEF transform, isStreaming, isRead
<1>3. CASE failRead(q, "destroyed")
  BY <1>3, AnswerFail
<1>4. CASE /\ f.mode # "error"
           /\ filtered' = [filtered EXCEPT ![q] = f]
           /\ source' = [source EXCEPT ![q].read = @ + 1]
           /\ UNCHANGED <<loginVars, res>>
  <2>1. s.state = "open" /\ s.doc = source[q].doc /\ s.read = source[q].read + 1
    BY <1>1, <1>2 DEF Sources
  <2>2. source' = [source EXCEPT ![q] = s]
    BY <1>1, <1>4
  <2> HIDE DEF s
  <2>3. Rest(source[q], filtered[q])
    BY <1>1, <1>2 DEF Follows
  <2>4. Rest(s, f) /\ Begins(f.out, Expected(s, f))
    BY <1>1, <1>2, <1>4, <2>1, <2>3, RestRead
  <2> HIDE DEF f
  <2>5. Follows(request[q], s, f, res[q])
    BY <1>1, <1>2, <2>1, <2>4 DEF Follows
  <2>6. UNCHANGED request /\ res' = [res EXCEPT ![q] = res[q]]
    BY <1>4, Unchanged DEF loginVars
  <2> QED
    BY <1>4, <2>2, <2>5, <2>6, AnswerRead
<1> QED
  BY <1>3, <1>4 DEF transform

\* The client gets a piece, is done or leaves.
LEMMA AnswerResponse ==
    ASSUME ReadInv, AnswerInv, NEW q \in Slot,
           \/ forwardToResponse(q) \/ onFinish(q) \/ onClose(q)
           \/ ClientLeaves(q) \/ answer(q)
    PROVE  AnswerInv'
<1>1. /\ source \in [Slot -> Sources] /\ res \in [Slot -> Responses]
      /\ source[q] \in Sources /\ res[q] \in Responses
      /\ Follows(request[q], source[q], filtered[q], res[q])
  BY DEF ReadInv, AnswerInv
<1>2. ASSUME NEW r, res' = [res EXCEPT ![q] = r], r.state = res[q].state, isRead(q),
             UNCHANGED <<loginVars, source, filtered>>
      PROVE  AnswerInv'
  <2>1. request[q].pc = "granted"
    BY <1>2 DEF isRead
  <2>2. Follows(request[q], source[q], filtered[q], r)
    BY <1>1, <1>2, <2>1 DEF Follows
  <2>3. /\ UNCHANGED request /\ source' = [source EXCEPT ![q] = source[q]]
        /\ filtered' = [filtered EXCEPT ![q] = filtered[q]]
    BY <1>2, Unchanged DEF loginVars
  <2> QED
    BY <1>2, <2>2, <2>3, AnswerRead
<1>3. CASE forwardToResponse(q)
  <2> DEFINE r == [res[q] EXCEPT !.sent = @ + 1]
  <2>1. r.state = res[q].state /\ res' = [res EXCEPT ![q] = r]
    BY <1>1, <1>3 DEF forwardToResponse, Responses
  <2> HIDE DEF r
  <2> QED
    BY <1>2, <1>3, <2>1 DEF forwardToResponse, isStreaming
<1>4. CASE ClientLeaves(q)
  <2> DEFINE r == [res[q] EXCEPT !.left = TRUE]
  <2>1. r.state = res[q].state /\ res' = [res EXCEPT ![q] = r]
    BY <1>1, <1>4 DEF ClientLeaves, Responses
  <2> HIDE DEF r
  <2> QED
    BY <1>2, <1>4, <2>1 DEF ClientLeaves
<1>5. CASE onFinish(q)
  <2>1. /\ source[q].state = "ended" /\ request[q].pc = "granted" /\ over(q)
        /\ UNCHANGED <<source, filtered>> /\ res[q].sent = Len(filtered[q].out)
        /\ res' = [res EXCEPT ![q].state = "complete"]
    BY <1>5 DEF onFinish, isStreaming, isRead
  <2>2. filtered[q].out = Expected(source[q], filtered[q])
    BY <1>1, <2>1 DEF Follows
  <2>3. source[q] = [source[q] EXCEPT !.state = "ended"]
    BY <1>1, <2>1 DEF Sources
  <2>4. source' = [source EXCEPT ![q] = [source[q] EXCEPT !.state = "ended"]]
    BY <2>1, <2>3, Unchanged
  <2>5. [res[q] EXCEPT !.state = "complete"]
          = [res[q] EXCEPT !.state = "complete", !.left = res[q].left]
    BY <1>1 DEF Responses
  <2>6. res' = [res EXCEPT ![q] = [res[q] EXCEPT !.state = "complete", !.left = res[q].left]]
    BY <1>1, <2>1, <2>5
  <2>7. res[q].left \in BOOLEAN
    BY <1>1 DEF Responses
  <2> QED
    BY <2>1, <2>2, <2>4, <2>6, <2>7, AnswerEnd
<1>6. CASE onClose(q)
  <2> DEFINE state == IF source[q].state = "open" THEN "destroyed" ELSE source[q].state
  <2>1. /\ over(q) /\ UNCHANGED filtered
        /\ source' = [source EXCEPT ![q].state = IF @ = "open" THEN "destroyed" ELSE @]
        /\ res' = [res EXCEPT ![q].state = "aborted", ![q].left = TRUE]
    BY <1>6 DEF onClose
  <2>2. state \in {"ended", "destroyed"}
    BY <1>6 DEF onClose, isStreaming
  <2>3. source' = [source EXCEPT ![q] = [source[q] EXCEPT !.state = state]]
    BY <1>1, <2>1
  <2>4. res' = [res EXCEPT ![q] = [res[q] EXCEPT !.state = "aborted", !.left = TRUE]]
    BY <1>1, <2>1
  <2> HIDE DEF state
  <2> QED
    BY <2>1, <2>2, <2>3, <2>4, AnswerEnd
<1>7. CASE answer(q)
  BY <1>7, AnswerStarts, AtAnswer DEF answer
<1> QED
  BY <1>3, <1>4, <1>5, <1>6, <1>7

\* All steps.
LEMMA AnswerStep == ReadInv /\ AnswerInv /\ [Next]_vars => AnswerInv'
<1> SUFFICES ASSUME ReadInv, AnswerInv, [Next]_vars PROVE AnswerInv'
  OBVIOUS
<1>1. CASE UNCHANGED <<request, streamVars>>
  BY <1>1 DEF streamVars, AnswerInv
<1>2. CASE (ChangePassword \/ Tick) /\ UNCHANGED streamVars
  BY <1>1, <1>2 DEF ChangePassword, Tick
<1>3. ASSUME NEW q \in Slot, LoginStep(q), UNCHANGED streamVars
      PROVE  AnswerInv'
  BY <1>3, AnswerLogin
<1>4. ASSUME NEW q \in Slot, Read(q)
      PROVE  AnswerInv'
  BY <1>4, AnswerSource, AnswerBegins, AnswerTransform, AnswerResponse DEF Read
<1>5. CASE UNCHANGED vars
  BY <1>1, <1>5 DEF vars, loginVars, streamVars
<1> QED
  BY <1>2, <1>3, <1>4, <1>5 DEF Next

LEMMA AnswerAlways == Spec => [](ReadInv /\ AnswerInv)
<1>1. Init => ReadInv /\ AnswerInv
  BY ReadInit, AnswerInit
<1>2. (ReadInv /\ AnswerInv) /\ [Next]_vars => (ReadInv /\ AnswerInv)'
  BY ReadStep, AnswerStep
<1> QED
  BY <1>1, <1>2, PTL DEF Spec

\* What a client has is the first part of the response that it may have.
LEMMA SentBegins ==
    ASSUME NEW out, NEW text, Begins(out, text), NEW n \in 0 .. Len(out)
    PROVE  /\ IsPrefix(SubSeq(out, 1, n), text)
           /\ n = Len(out) => SubSeq(out, 1, n) = out
<1> DEFINE sent == SubSeq(out, 1, n)
<1>1. /\ out \in Seq(Token) /\ text \in Seq(Token) /\ Len(out) <= Len(text)
      /\ \A i \in 1 .. Len(out) : out[i] = text[i]
  BY DEF Begins
<1>2. /\ n \in Nat /\ n <= Len(out) /\ n <= Len(text)
      /\ \A i \in 1 .. n : i \in 1 .. Len(out) /\ i \in 1 .. Len(text)
  BY <1>1
<1>3. sent \in Seq(Token) /\ Len(sent) = n /\ \A i \in 1 .. n : sent[i] = out[i]
  BY <1>1, <1>2
<1>4. /\ SubSeq(text, 1, n) \in Seq(Token) /\ Len(SubSeq(text, 1, n)) = n
      /\ \A i \in 1 .. n : SubSeq(text, 1, n)[i] = text[i]
  BY <1>1, <1>2
<1> HIDE DEF sent
<1>5. SubSeq(sent, 1, Len(sent)) = sent
  BY <1>3, SubSeqFull
<1>6. sent = SubSeq(text, 1, n)
  <2> DEFINE first == SubSeq(text, 1, n)
  <2>1. first \in Seq(Token) /\ Len(first) = n /\ \A i \in 1 .. n : first[i] = text[i]
    BY <1>4
  <2> HIDE DEF first
  <2>2. \A i \in 1 .. n : sent[i] = first[i]
    BY <1>1, <1>2, <1>3, <2>1
  <2>3. sent = first
    BY <1>3, <2>1, <2>2, SeqEqual
  <2> QED
    BY <2>3 DEF first
<1>7. IsPrefix(sent, text)
  BY <1>2, <1>3, <1>5, <1>6 DEF IsPrefix
<1>8. n = Len(out) => sent = out
  BY <1>1, SubSeqFull DEF sent
<1> QED
  BY <1>7, <1>8 DEF sent

\* At any moment a client has the first part of CouchDB's response without what
\* the user may not read; a response that ends properly is the whole of it, and
\* one that fails does so with a status only while nothing was sent.
THEOREM AnswersAreFiltered == Spec => []FilteredAnswer
<1>1. ReadInv /\ AnswerInv => FilteredAnswer
  <2>1. SUFFICES ASSUME ReadInv, AnswerInv, NEW q \in Slot
                 PROVE  LET expected == Filtered(source[q].doc, filtered[q].options)
                            sent == SubSeq(filtered[q].out, 1, res[q].sent)
                        IN  /\ res[q].sent > 0 => IsPrefix(sent, expected)
                            /\ res[q].state = "complete" => sent = expected
                            /\ res[q].state = "status" => res[q].sent = 0
    BY DEF FilteredAnswer
  <2>2. /\ res[q].sent \in 0 .. Len(filtered[q].out)
        /\ Follows(request[q], source[q], filtered[q], res[q])
    BY <2>1 DEF ReadInv, SlotInv, AnswerInv
  <2> DEFINE expected == Expected(source[q], filtered[q])
             sent == SubSeq(filtered[q].out, 1, res[q].sent)
  <2>3. /\ Begins(filtered[q].out, expected)
        /\ res[q].state = "complete" =>
              res[q].sent = Len(filtered[q].out) /\ filtered[q].out = expected
        /\ res[q].state = "status" => res[q].sent = 0
    BY <2>2 DEF Follows
  <2> HIDE DEF expected
  <2>4. /\ IsPrefix(sent, expected)
        /\ res[q].sent = Len(filtered[q].out) => sent = filtered[q].out
    BY <2>2, <2>3, SentBegins
  <2> HIDE DEF sent
  <2>5. /\ res[q].sent > 0 => IsPrefix(sent, expected)
        /\ res[q].state = "complete" => sent = expected
        /\ res[q].state = "status" => res[q].sent = 0
    BY <2>3, <2>4
  <2> QED
    BY <2>5 DEF sent, expected, Expected
<1> QED
  BY <1>1, AnswerAlways, PTL
=============================================================================

------------------------- MODULE SubsequenceProofs -------------------------
(***************************************************************************)
(* What Only returns, for every sequence: by induction over its length.      *)
(***************************************************************************)
EXTENDS Subsequence, NaturalsInduction, WellFoundedInduction, SequenceTheorems, TLAPS

-----------------------------------------------------------------------------
(***************************************************************************)
(* Induction over the natural numbers as facts about sets, which the provers *)
(* can instantiate: the set of the numbers for which a statement holds takes *)
(* the place of the statement.                                              *)
(***************************************************************************)
\* Every set of natural numbers has a least element.
LEMMA LeastNat ==
    ASSUME NEW S \in SUBSET Nat, S # {}
    PROVE  \E n \in S : \A m \in S : n <= m
<1> DEFINE R == {ss \in Nat \X Nat : ss[1] < ss[2]}
<1>1. IsWellFoundedOn(R, Nat)
  BY NatLessThanWellFounded DEF OpToRel
<1> HIDE DEF R
<1>2. \E x \in S : \A y \in S : <<y, x>> \notin R
  BY <1>1, WFMin
<1>3. \A x, y \in Nat : <<y, x>> \notin R => x <= y
  BY DEF R
<1> QED
  BY <1>2, <1>3

\* A set that has 0 and, with every number below n, its successor, has the
\* numbers up to n.
LEMMA UpTo ==
    ASSUME NEW n \in Nat, NEW S, 0 \in S, \A i \in 0 .. n : i \in S /\ i < n => i + 1 \in S
    PROVE  \A i \in 0 .. n : i \in S
<1> DEFINE missing == {i \in 0 .. n : i \notin S}
<1>1. SUFFICES ASSUME missing # {} PROVE FALSE
  OBVIOUS
<1>2. missing \in SUBSET Nat
  OBVIOUS
<1>3. PICK m \in missing : \A i \in missing : m <= i
  BY <1>1, <1>2, LeastNat
<1>4. m \in 1 .. n /\ m - 1 \in 0 .. n /\ m - 1 < n /\ (m - 1) + 1 = m
  OBVIOUS
<1>5. m - 1 \in S
  BY <1>3, <1>4
<1> QED
  BY <1>3, <1>4, <1>5

\* There is a function with the value base at 0 whose value at i is h[i] of the
\* one before.
Computed(V, base, n, h) ==
    \E f \in [0 .. n -> V] : f[0] = base /\ \A i \in 1 .. n : f[i] = h[i][f[i - 1]]

\* A function can be defined by recursion.
LEMMA Recursion ==
    ASSUME NEW V, NEW base \in V, NEW n \in Nat, NEW h \in [1 .. n -> [V -> V]]
    PROVE  Computed(V, base, n, h)
<1> DEFINE Does(k, f) == f[0] = base /\ \A i \in 1 .. k : f[i] = h[i][f[i - 1]]
           P == {k \in 0 .. n : \E f \in [0 .. k -> V] : Does(k, f)}
<1>1. 0 \in P
  <2> DEFINE f == [i \in 0 .. 0 |-> base]
  <2>1. f \in [0 .. 0 -> V] /\ Does(0, f)
    OBVIOUS
  <2> HIDE DEF f, Does
  <2> QED
    BY <2>1
<1>2. ASSUME NEW k \in 0 .. n, k \in P, k < n
      PROVE  k + 1 \in P
  <2>1. PICK f \in [0 .. k -> V] : Does(k, f)
    BY <1>2
  <2> DEFINE last == h[k + 1][f[k]]
             g == [i \in 0 .. k + 1 |-> IF i = k + 1 THEN last ELSE f[i]]
  <2>2. k \in Nat /\ k + 1 \in 1 .. n /\ k + 1 \in 0 .. n /\ k \in 0 .. k /\ 0 # k + 1
    BY <1>2
  <2>3. last \in V
    BY <2>2
  <2> HIDE DEF last
  <2>4. g \in [0 .. k + 1 -> V]
    <3>1. ASSUME NEW i \in 0 .. k + 1, i # k + 1
          PROVE  f[i] \in V
      BY <2>2, <3>1
    <3> QED
      BY <2>3, <3>1
  <2>5. g[0] = base
    BY <2>1, <2>2
  <2>6. ASSUME NEW i \in 1 .. k + 1
        PROVE  g[i] = h[i][g[i - 1]]
    <3>1. CASE i = k + 1
      <4>1. g[i] = last /\ g[i - 1] = f[k]
        BY <2>2, <3>1
      <4> QED
        BY <3>1, <4>1 DEF last
    <3>2. CASE i # k + 1
      <4>1. i \in 1 .. k /\ g[i] = f[i] /\ g[i - 1] = f[i - 1]
        BY <2>2, <2>6, <3>2
      <4> QED
        BY <2>1, <4>1
    <3> QED
      BY <3>1, <3>2
  <2> HIDE DEF g
  <2>7. Does(k + 1, g)
    BY <2>5, <2>6
  <2> HIDE DEF Does
  <2> QED
    BY <2>2, <2>4, <2>7
<1>3. n \in P
  <2> HIDE DEF P
  <2>1. \A i \in 0 .. n : i \in P
    BY <1>1, <1>2, UpTo
  <2> QED
    BY <2>1
<1> QED
  BY <1>3 DEF Computed

-----------------------------------------------------------------------------
(***************************************************************************)
(* The loop                                                                *)
(***************************************************************************)
\* One step of the loop.
Step(s, S, i, before) == IF s[i] \in S THEN Append(before, s[i]) ELSE before

\* t has the elements of S among the first i of s, in their order: m says where
\* they were.
Selected(s, S, i, t) ==
    \E m \in [1 .. Len(t) -> 1 .. i] :
        /\ \A j, k \in 1 .. Len(t) : j < k => m[j] < m[k]
        /\ \A j \in 1 .. Len(t) : t[j] = s[m[j]] /\ t[j] \in S
        /\ \A l \in 1 .. i : s[l] \in S => \E j \in 1 .. Len(t) : m[j] = l

\* f has the results of the loop after each of the first n elements.
Loops(s, S, n, f) ==
    /\ f[0] = <<>>
    /\ \A i \in 1 .. n : f[i] = Step(s, S, i, f[i - 1])

\* A function that does the loop exists for every length.
LEMMA LoopExists ==
    ASSUME NEW T, NEW s \in Seq(T), NEW S
    PROVE  \E f \in [0 .. Len(s) -> Seq(T)] : Loops(s, S, Len(s), f)
<1> DEFINE n == Len(s)
           V == Seq(T)
           h == [i \in 1 .. n |-> [t \in V |-> Step(s, S, i, t)]]
           empty == <<>>
<1>1. /\ n \in Nat /\ empty \in V
      /\ \A i \in 1 .. n, t \in V : Step(s, S, i, t) \in V
  BY DEF Step
<1> HIDE DEF n, V, empty
<1>2. /\ h \in [1 .. n -> [V -> V]]
      /\ \A i \in 1 .. n, t \in V : h[i][t] = Step(s, S, i, t)
  BY <1>1
<1> HIDE DEF h
<1>3. Computed(V, empty, n, h)
  BY <1>1, <1>2, Recursion
<1>4. PICK f \in [0 .. n -> V] : f[0] = empty /\ \A i \in 1 .. n : f[i] = h[i][f[i - 1]]
  BY <1>3 DEF Computed
<1>5. \A i \in 1 .. n : i - 1 \in 0 .. n
  BY <1>1
<1>6. Loops(s, S, n, f)
  BY <1>2, <1>4, <1>5 DEF Loops, empty
<1> QED
  BY <1>6 DEF n, V

\* Only does the loop.
LEMMA OnlyLoops ==
    ASSUME NEW T, NEW s \in Seq(T), NEW S
    PROVE  \E f : Loops(s, S, Len(s), f) /\ Only(s, S) = f[Len(s)]
<1> DEFINE Body(f) == [i \in 0 .. Len(s) |->
                IF i = 0 THEN <<>>
                ELSE IF s[i] \in S THEN Append(f[i - 1], s[i]) ELSE f[i - 1]]
           kept == CHOOSE f : f = Body(f)
<1>1. PICK f \in [0 .. Len(s) -> Seq(T)] : Loops(s, S, Len(s), f)
  BY LoopExists
<1>2. f = Body(f)
  <2>1. Len(s) \in Nat
    OBVIOUS
  <2>2. \A i \in 0 .. Len(s) : f[i] = Body(f)[i]
    <3>1. ASSUME NEW i \in 0 .. Len(s), i # 0
          PROVE  f[i] = IF s[i] \in S THEN Append(f[i - 1], s[i]) ELSE f[i - 1]
      <4>1. i \in 1 .. Len(s)
        BY <2>1, <3>1
      <4> QED
        BY <1>1, <4>1 DEF Loops, Step
    <3>2. f[0] = <<>>
      BY <1>1 DEF Loops
    <3> QED
      BY <3>1, <3>2
  <2> QED
    BY <2>2
<1>3. kept = Body(kept)
  BY <1>2
<1>4. Only(s, S) = kept[Len(s)]
  BY DEF Only
<1> HIDE DEF kept
<1>5. Loops(s, S, Len(s), kept)
  <2>1. Len(s) \in Nat
    OBVIOUS
  <2>2. \A i \in 0 .. Len(s) : kept[i] = Body(kept)[i]
    BY <1>3
  <2> QED
    BY <2>1, <2>2 DEF Loops, Step
<1> QED
  BY <1>4, <1>5

\* Only returns the elements of S in s, once for each place, in their order.
LEMMA OnlySelects ==
    ASSUME NEW T, NEW s \in Seq(T), NEW S
    PROVE  /\ Only(s, S) \in Seq(T) /\ Len(Only(s, S)) <= Len(s)
           /\ Selected(s, S, Len(s), Only(s, S))
<1>1. PICK f : Loops(s, S, Len(s), f) /\ Only(s, S) = f[Len(s)]
  BY OnlyLoops
<1>2. Len(s) \in Nat /\ \A i \in 1 .. Len(s) : s[i] \in T
  OBVIOUS
<1> DEFINE P == {i \in 0 .. Len(s) : /\ f[i] \in Seq(T) /\ Len(f[i]) <= i
                                     /\ Selected(s, S, i, f[i])}
<1>3. 0 \in P
  <2>1. f[0] = <<>>
    BY <1>1 DEF Loops
  <2> DEFINE t == f[0]
             m == [j \in 1 .. 0 |-> 0]
  <2>2. t \in Seq(T) /\ Len(t) = 0
    BY <2>1
  <2>3. m \in [1 .. 0 -> 1 .. 0] /\ \A j \in 1 .. 0 : FALSE
    OBVIOUS
  <2> HIDE DEF t, m
  <2>4. Selected(s, S, 0, t)
    BY <2>2, <2>3 DEF Selected
  <2> QED
    BY <1>2, <2>2, <2>4 DEF t
<1>4. ASSUME NEW i \in 0 .. Len(s), i \in P, i < Len(s)
      PROVE  i + 1 \in P
  <2>1. /\ i \in Nat /\ i + 1 \in 1 .. Len(s) /\ i + 1 \in 0 .. Len(s)
        /\ (i + 1) - 1 = i /\ s[i + 1] \in T
    BY <1>2, <1>4
  <2>2. f[i + 1] = Step(s, S, i + 1, f[i])
    BY <1>1, <2>1 DEF Loops
  <2> DEFINE t == f[i]
  <2>3. t \in Seq(T) /\ Len(t) \in Nat /\ Len(t) <= i
    BY <1>4
  <2>4. PICK m \in [1 .. Len(t) -> 1 .. i] :
           /\ \A j, k \in 1 .. Len(t) : j < k => m[j] < m[k]
           /\ \A j \in 1 .. Len(t) : t[j] = s[m[j]] /\ t[j] \in S
           /\ \A l \in 1 .. i : s[l] \in S => \E j \in 1 .. Len(t) : m[j] = l
    BY <1>4 DEF Selected
  <2> HIDE DEF t
  <2>5. CASE s[i + 1] \notin S
    <3>1. f[i + 1] = t
      BY <2>2, <2>5 DEF Step, t
    <3>2. m \in [1 .. Len(t) -> 1 .. i + 1]
      BY <2>1, <2>4
    <3>3. \A l \in 1 .. i + 1 : s[l] \in S => \E j \in 1 .. Len(t) : m[j] = l
      BY <2>1, <2>4, <2>5
    <3>4. Selected(s, S, i + 1, t)
      BY <2>4, <3>2, <3>3 DEF Selected
    <3> QED
      BY <2>1, <2>3, <3>1, <3>4
  <2>6. CASE s[i + 1] \in S
    <3> DEFINE u == Append(t, s[i + 1])
               p == [j \in 1 .. Len(t) + 1 |-> IF j = Len(t) + 1 THEN i + 1 ELSE m[j]]
    <3>1. f[i + 1] = u
      BY <2>2, <2>6 DEF Step, t
    <3>2. /\ u \in Seq(T) /\ Len(u) = Len(t) + 1
          /\ \A j \in 1 .. Len(t) : u[j] = t[j]
          /\ u[Len(t) + 1] = s[i + 1]
      BY <2>1, <2>3
    <3>3. /\ \A j \in 1 .. Len(t) : p[j] = m[j] /\ p[j] \in 1 .. i
          /\ p[Len(t) + 1] = i + 1
          /\ \A j \in 1 .. Len(t) + 1 : j \in 1 .. Len(t) \/ j = Len(t) + 1
      BY <2>3, <2>4
    <3>4. p \in [1 .. Len(t) + 1 -> 1 .. i + 1]
      BY <2>1, <2>3, <2>4
    <3> HIDE DEF u, p
    <3>5. ASSUME NEW j \in 1 .. Len(t) + 1, NEW k \in 1 .. Len(t) + 1, j < k
          PROVE  p[j] < p[k]
      <4>1. j \in 1 .. Len(t) /\ p[j] = m[j] /\ p[j] \in 1 .. i
        BY <2>3, <3>3, <3>5
      <4>2. CASE k = Len(t) + 1
        BY <2>1, <3>3, <4>1, <4>2
      <4>3. CASE k \in 1 .. Len(t)
        BY <2>4, <3>3, <3>5, <4>1, <4>3
      <4> QED
        BY <3>3, <4>2, <4>3
    <3>6. \A j \in 1 .. Len(t) + 1 : u[j] = s[p[j]] /\ u[j] \in S
      BY <2>4, <2>6, <3>2, <3>3
    <3>7. ASSUME NEW l \in 1 .. i + 1, s[l] \in S
          PROVE  \E j \in 1 .. Len(t) + 1 : p[j] = l
      <4>1. CASE l = i + 1
        <5>1. Len(t) + 1 \in 1 .. Len(t) + 1
          BY <2>3
        <5> QED
          BY <3>3, <4>1, <5>1
      <4>2. CASE l \in 1 .. i
        <5>1. PICK j \in 1 .. Len(t) : m[j] = l
          BY <2>4, <3>7, <4>2
        <5>2. j \in 1 .. Len(t) + 1
          BY <2>3
        <5> QED
          BY <3>3, <5>1, <5>2
      <4> QED
        BY <2>1, <4>1, <4>2
    <3>8. Selected(s, S, i + 1, u)
      <4>1. p \in [1 .. Len(u) -> 1 .. i + 1]
        BY <3>2, <3>4
      <4>2. \A j, k \in 1 .. Len(u) : j < k => p[j] < p[k]
        BY <3>2, <3>5
      <4>3. \A j \in 1 .. Len(u) : u[j] = s[p[j]] /\ u[j] \in S
        BY <3>2, <3>6
      <4>4. \A l \in 1 .. i + 1 : s[l] \in S => \E j \in 1 .. Len(u) : p[j] = l
        BY <3>2, <3>7
      <4> QED
        BY <4>1, <4>2, <4>3, <4>4 DEF Selected
    <3>9. Len(u) <= i + 1
      BY <2>1, <2>3, <3>2
    <3> QED
      BY <2>1, <3>1, <3>2, <3>8, <3>9
  <2> QED
    BY <2>5, <2>6
<1>5. Len(s) \in P
  <2> HIDE DEF P
  <2>1. \A i \in 0 .. Len(s) : i \in P
    BY <1>2, <1>3, <1>4, UpTo
  <2> QED
    BY <1>2, <2>1
<1> QED
  BY <1>1, <1>5

\* Of a prefix with nothing in S and a rest that is in S, the rest is kept.
LEMMA OnlyKeepsRest ==
    ASSUME NEW T, NEW p \in Seq(T), NEW t \in Seq(T), NEW S,
           \A i \in 1 .. Len(p) : p[i] \notin S, \A i \in 1 .. Len(t) : t[i] \in S
    PROVE  Only(p \o t, S) = t
<1> DEFINE s == p \o t
           a == Len(p)
           k(i) == IF i <= a THEN 0 ELSE i - a
<1>1. /\ s \in Seq(T) /\ a \in Nat /\ Len(t) \in Nat /\ Len(s) = a + Len(t)
      /\ \A i \in 1 .. a : s[i] = p[i]
      /\ \A i \in 1 .. Len(s) : i > a => s[i] = t[i - a]
  OBVIOUS
<1>2. /\ \A i \in 1 .. a : s[i] \notin S
      /\ \A i \in 1 .. Len(s) : i > a => i - a \in 1 .. Len(t) /\ s[i] \in S /\ s[i] \in T
  BY <1>1
<1> HIDE DEF s, a
<1>3. PICK f : Loops(s, S, Len(s), f) /\ Only(s, S) = f[Len(s)]
  BY <1>1, OnlyLoops
<1> DEFINE P == {i \in 0 .. Len(s) : /\ f[i] \in Seq(T) /\ Len(f[i]) = k(i)
                                     /\ \A j \in 1 .. k(i) : f[i][j] = t[j]}
<1>4. 0 \in P
  <2>1. f[0] = <<>>
    BY <1>3 DEF Loops
  <2>2. k(0) = 0 /\ 0 \in 0 .. Len(s)
    BY <1>1
  <2> DEFINE u == f[0]
  <2>3. u \in Seq(T) /\ Len(u) = 0 /\ \A j \in 1 .. 0 : u[j] = t[j]
    BY <2>1
  <2> HIDE DEF u, k
  <2> QED
    BY <2>2, <2>3 DEF u
<1>5. ASSUME NEW i \in 0 .. Len(s), i \in P, i < Len(s)
      PROVE  i + 1 \in P
  <2>1. /\ i \in Nat /\ i + 1 \in 1 .. Len(s) /\ i + 1 \in 0 .. Len(s) /\ (i + 1) - 1 = i
    BY <1>1, <1>5
  <2>2. f[i + 1] = Step(s, S, i + 1, f[i])
    BY <1>3, <2>1 DEF Loops
  <2> DEFINE u == f[i]
  <2>3. u \in Seq(T) /\ Len(u) = k(i) /\ \A j \in 1 .. k(i) : u[j] = t[j]
    BY <1>5
  <2> HIDE DEF u
  <2>4. CASE i + 1 <= a
    <3>1. k(i) = 0 /\ k(i + 1) = 0 /\ i + 1 \in 1 .. a
      BY <1>1, <2>1, <2>4
    <3>2. f[i + 1] = u
      BY <1>2, <2>2, <3>1 DEF Step, u
    <3> QED
      BY <2>1, <2>3, <3>1, <3>2
  <2>5. CASE ~ (i + 1 <= a)
    <3>1. /\ k(i + 1) = k(i) + 1 /\ k(i) \in Nat /\ (i + 1) - a = k(i) + 1
      BY <1>1, <2>1, <2>5
    <3>2. s[i + 1] \in S /\ s[i + 1] \in T /\ s[i + 1] = t[k(i) + 1]
      BY <1>1, <1>2, <2>1, <2>5, <3>1
    <3>3. f[i + 1] = Append(u, s[i + 1])
      BY <2>2, <3>2 DEF Step, u
    <3> HIDE DEF k
    <3>4. /\ Append(u, s[i + 1]) \in Seq(T) /\ Len(Append(u, s[i + 1])) = k(i) + 1
          /\ \A j \in 1 .. k(i) : Append(u, s[i + 1])[j] = u[j]
          /\ Append(u, s[i + 1])[k(i) + 1] = s[i + 1]
      BY <2>3, <3>1, <3>2
    <3>5. \A j \in 1 .. k(i) + 1 : f[i + 1][j] = t[j]
      BY <2>3, <3>1, <3>2, <3>3, <3>4
    <3> QED
      BY <2>1, <3>1, <3>3, <3>4, <3>5
  <2> QED
    BY <2>4, <2>5
<1>6. Len(s) \in P
  <2> HIDE DEF P
  <2>1. Len(s) \in Nat
    BY <1>1
  <2>2. \A i \in 0 .. Len(s) : i \in P
    BY <2>1, <1>4, <1>5, UpTo
  <2> QED
    BY <2>1, <2>2
<1>7. k(Len(s)) = Len(t)
  BY <1>1
<1> HIDE DEF k
<1>8. f[Len(s)] = t
  BY <1>6, <1>7, SeqEqual
<1> QED
  BY <1>3, <1>8 DEF s

\* What Only returns has nothing but elements of S.
LEMMA OnlyInside ==
    ASSUME NEW T, NEW s \in Seq(T), NEW S
    PROVE  \A i \in 1 .. Len(Only(s, S)) : Only(s, S)[i] \in S
  BY OnlySelects DEF Selected
=============================================================================

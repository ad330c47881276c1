----------------------------- MODULE SequenceLemmas -----------------------------
(***************************************************************************)
(* What the proofs about several modules need of natural numbers, sequences  *)
(* and Selection.  That there is a least number of any kind stands for        *)
(* induction.                                                                *)
(***************************************************************************)
EXTENDS Selection, FiniteSetTheorems, WellFoundedInduction, TLAPS

(* Every nonempty set of natural numbers has a least element. *)
LEMMA LeastNatural ==
  ASSUME NEW T, T \subseteq Nat, T # {}
  PROVE  \E x \in T : \A y \in T : x <= y
<1>1. PICK n \in T : TRUE
  OBVIOUS
<1> DEFINE R == StrictSubsetOrdering(1 .. n)
           Below == {1 .. i : i \in T \cap (0 .. n)}
<1>2. IsWellFoundedOn(R, SUBSET (1 .. n))
  <2>1. IsFiniteSet(1 .. n)
    BY FS_Interval
  <2>2. FiniteSubsetsOf(1 .. n) = SUBSET (1 .. n)
    BY <2>1, FS_FiniteSubsetsOfFinite
  <2>3. IsWellFoundedOn(R, FiniteSubsetsOf(1 .. n))
    BY FS_StrictSubsetOrderingWellFounded
  <2> QED BY <2>2, <2>3
<1>3. Below \subseteq SUBSET (1 .. n) /\ Below # {}
  BY <1>1
<1>4. PICK X \in Below : \A Y \in Below : ~(<<Y, X>> \in R)
  <2> HIDE DEF R, Below
  <2> QED BY <1>2, <1>3, WFMin
<1>5. PICK x \in T : x \in 0 .. n /\ X = 1 .. x
  BY <1>4
<1>6. ASSUME NEW y \in T, y < x
      PROVE  FALSE
  <2>1. 1 .. y \in Below
    BY <1>5, <1>6
  <2>2. x \in 1 .. x /\ x \notin 1 .. y /\ 1 .. y \subseteq 1 .. x
    BY <1>5, <1>6
  <2>3. <<1 .. y, X>> \in R
    BY <2>1, <2>2, <1>3, <1>4, <1>5 DEF StrictSubsetOrdering
  <2> QED BY <2>1, <2>3, <1>4
<1> QED BY <1>5, <1>6

(* Induction up to n, with a set for the property. *)
LEMMA Upwards ==
  ASSUME NEW n \in Nat, NEW G, 0 \in G, \A i \in 1 .. n : i - 1 \in G => i \in G
  PROVE  n \in G
<1> DEFINE N == {i \in 0 .. n : i \notin G}
<1>1. N = {}
  <2> SUFFICES ASSUME N # {} PROVE FALSE
    OBVIOUS
  <2>1. PICK i \in N : \A j \in N : i <= j
    <3>1. N \subseteq Nat
      OBVIOUS
    <3> HIDE DEF N
    <3> QED BY <3>1, LeastNatural
  <2>2. i \in 1 .. n /\ i - 1 \in 0 .. n /\ ~(i <= i - 1)
    BY <2>1
  <2>3. i - 1 \in G
    BY <2>1, <2>2
  <2> QED BY <2>1, <2>2, <2>3
<1> QED BY <1>1

(* g starts with a, and step k is taken by F[k]. *)
MadeUpTo(g, A, a, n, F) ==
  /\ g \in [0 .. n -> A] /\ g[0] = a
  /\ \A k \in 1 .. n : g[k] = F[k][g[k - 1]]

(* A function defined step by step up to n exists, if every step F leads from
   A to A. *)
LEMMA StepByStep ==
  ASSUME NEW A, NEW a \in A, NEW n \in Nat, NEW F,
         \A k \in 1 .. n : F[k] \in [A -> A]
  PROVE  \E g : MadeUpTo(g, A, a, n, F)
<1> DEFINE G == {m \in 0 .. n : \E g : MadeUpTo(g, A, a, m, F)}
<1>1. 0 \in G
  <2> DEFINE g == [k \in 0 .. 0 |-> a]
  <2>1. MadeUpTo(g, A, a, 0, F)
    BY DEF MadeUpTo
  <2> HIDE DEF g
  <2> QED BY <2>1
<1>2. ASSUME NEW m \in 1 .. n, m - 1 \in G
      PROVE  m \in G
  <2>1. PICK g : MadeUpTo(g, A, a, m - 1, F)
    BY <1>2
  <2>2. /\ g \in [0 .. m - 1 -> A] /\ g[0] = a
        /\ \A k \in 1 .. m - 1 : g[k] = F[k][g[k - 1]]
    BY <2>1 DEF MadeUpTo
  <2> DEFINE h == [k \in 0 .. m |-> IF k = m THEN F[m][g[m - 1]] ELSE g[k]]
  <2>3. m - 1 \in 0 .. m - 1 /\ g[m - 1] \in A /\ F[m][g[m - 1]] \in A
    BY <2>2
  <2>4. h \in [0 .. m -> A]
    BY <2>2, <2>3
  <2>5. h[0] = a
    BY <2>2
  <2>6. ASSUME NEW k \in 1 .. m
        PROVE  h[k] = F[k][h[k - 1]]
    <3>1. k - 1 \in 0 .. m - 1 /\ h[k - 1] = g[k - 1]
      OBVIOUS
    <3>2. CASE k = m
      BY <3>1, <3>2
    <3>3. CASE k # m
      <4>1. h[k] = g[k] /\ k \in 1 .. m - 1
        BY <3>3
      <4> QED BY <2>2, <3>1, <4>1
    <3> QED BY <3>2, <3>3
  <2> HIDE DEF h
  <2>7. MadeUpTo(h, A, a, m, F)
    BY <2>4, <2>5, <2>6 DEF MadeUpTo
  <2> QED BY <2>7
<1>3. n \in G
  <2> HIDE DEF G
  <2> QED BY <1>1, <1>2, Upwards
<1>4. PICK g : MadeUpTo(g, A, a, n, F)
  BY <1>3
<1> QED BY <1>4

(* A sequence is what it has at its places. *)
LEMMA SamePlaces ==
  ASSUME NEW T, NEW s \in Seq(T), NEW t \in Seq(T), Len(s) = Len(t),
         \A i \in 1 .. Len(s) : s[i] = t[i]
  PROVE  s = t
  OBVIOUS

-----------------------------------------------------------------------------
(* Only(). *)

(* What is kept of a sequence up to its place i, if i \in 0 .. n. *)
KeptUpTo(g, s, S, n) ==
  /\ g[0] = <<>>
  /\ \A i \in 1 .. n : g[i] = IF s[i] \in S THEN Append(g[i - 1], s[i]) ELSE g[i - 1]

(* The function that Only() defines exists. *)
LEMMA KeptExists ==
  ASSUME NEW T, NEW s \in Seq(T), NEW S
  PROVE  \E g : KeptUpTo(g, s, S, Len(s)) /\ Only(s, S) = g[Len(s)]
<1> DEFINE Step(x, i) == IF s[i] \in S THEN Append(x, s[i]) ELSE x
           Whole(g, n) == g = [i \in 0 .. n |-> IF i = 0 THEN <<>> ELSE
                                 IF s[i] \in S THEN Append(g[i - 1], s[i]) ELSE g[i - 1]]
           N == {n \in Nat : ~ \E g : Whole(g, n)}
<1>1. N = {}
  <2> SUFFICES ASSUME N # {} PROVE FALSE
    OBVIOUS
  <2>1. PICK n \in N : \A m \in N : n <= m
    <3>1. N \subseteq Nat
      OBVIOUS
    <3> HIDE DEF N
    <3> QED BY <3>1, LeastNatural
  <2>2. CASE n = 0
    <3> DEFINE f == [i \in 0 .. 0 |-> <<>>]
    <3>1. f = [i \in 0 .. 0 |-> IF i = 0 THEN <<>> ELSE
                 IF s[i] \in S THEN Append(f[i - 1], s[i]) ELSE f[i - 1]]
      OBVIOUS
    <3> QED BY <2>1, <2>2, <3>1
  <2>3. CASE n # 0
    <3>1. n \in Nat /\ n - 1 \in Nat /\ n - 1 \notin N
      <4>1. n \in Nat /\ n - 1 \in Nat /\ ~(n <= n - 1)
        BY <2>1, <2>3
      <4> HIDE DEF N
      <4> QED BY <2>1, <4>1
    <3>2. PICK g : Whole(g, n - 1)
      BY <3>1
    <3> DEFINE f == [i \in 0 .. n |-> IF i = n THEN Step(g[n - 1], n) ELSE g[i]]
    <3>3. ASSUME NEW i \in 0 .. n
          PROVE  f[i] = IF i = 0 THEN <<>> ELSE Step(f[i - 1], i)
      <4>1. CASE i = n
        <5>1. f[i - 1] = g[n - 1]
          BY <3>1, <4>1
        <5> QED BY <2>3, <4>1, <5>1
      <4>2. CASE i # n /\ i = 0
        BY <3>1, <3>2, <4>2
      <4>3. CASE i # n /\ i # 0
        <5>1. i \in 0 .. n - 1 /\ i - 1 \in 0 .. n - 1 /\ i - 1 # n
          BY <3>1, <4>3
        <5>2. f[i - 1] = g[i - 1] /\ f[i] = g[i]
          BY <3>1, <4>3, <5>1
        <5>3. g[i] = Step(g[i - 1], i)
          BY <3>2, <4>3, <5>1
        <5> HIDE DEF f
        <5> QED BY <4>3, <5>2, <5>3
      <4> QED BY <4>1, <4>2, <4>3
    <3>4. f = [i \in 0 .. n |-> f[i]]
      OBVIOUS
    <3>5. Whole(f, n)
      <4> HIDE DEF f
      <4> QED BY <3>3, <3>4
    <3> QED BY <2>1, <3>5
  <2> QED BY <2>2, <2>3
<1> DEFINE kept == CHOOSE g : Whole(g, Len(s))
<1>2. Whole(kept, Len(s))
  <2>1. \E g : Whole(g, Len(s))
    BY <1>1
  <2> HIDE DEF Whole
  <2> QED BY <2>1
<1>3. Only(s, S) = kept[Len(s)]
  BY DEF Only
<1>4. KeptUpTo(kept, s, S, Len(s))
  <2> HIDE DEF kept
  <2>1. Len(s) \in Nat /\ 0 \in 0 .. Len(s) /\ \A i \in 1 .. Len(s) : i \in 0 .. Len(s) /\ i # 0
    OBVIOUS
  <2>2. kept[0] = <<>>
    BY <1>2, <2>1
  <2>3. ASSUME NEW i \in 1 .. Len(s)
        PROVE  kept[i] = IF s[i] \in S THEN Append(kept[i - 1], s[i]) ELSE kept[i - 1]
    BY <1>2, <2>1
  <2> QED BY <2>2, <2>3 DEF KeptUpTo
<1> HIDE DEF kept
<1> QED BY <1>3, <1>4

(* There is only one. *)
LEMMA KeptUnique ==
  ASSUME NEW s, NEW S, NEW n \in Nat, NEW g, NEW h,
         KeptUpTo(g, s, S, n), KeptUpTo(h, s, S, n)
  PROVE  g[n] = h[n]
<1> DEFINE G == {i \in 0 .. n : g[i] = h[i]}
<1>1. 0 \in G /\ \A i \in 1 .. n : i - 1 \in G => i \in G
  BY DEF KeptUpTo
<1> HIDE DEF G
<1>2. n \in G
  BY <1>1, Upwards
<1> QED BY <1>2 DEF G

(* Nothing is kept of nothing. *)
LEMMA OnlyOfNone == ASSUME NEW S PROVE Only(<<>>, S) = <<>>
<1>1. <<>> \in Seq({}) /\ Len(<<>>) = 0
  OBVIOUS
<1>2. PICK g : KeptUpTo(g, <<>>, S, Len(<<>>)) /\ Only(<<>>, S) = g[Len(<<>>)]
  BY <1>1, KeptExists
<1> QED BY <1>1, <1>2 DEF KeptUpTo

(* What is appended is kept if it is in S. *)
LEMMA OnlyAppend ==
  ASSUME NEW T, NEW s \in Seq(T), NEW x \in T, NEW S
  PROVE  Only(Append(s, x), S) = IF x \in S THEN Append(Only(s, S), x) ELSE Only(s, S)
<1> DEFINE t == Append(s, x)
           n == Len(s)
<1>1. n \in Nat /\ t \in Seq(T) /\ Len(t) = n + 1 /\ t[n + 1] = x
      /\ \A i \in 1 .. n : t[i] = s[i]
  OBVIOUS
<1>2. PICK g : KeptUpTo(g, t, S, n + 1) /\ Only(t, S) = g[n + 1]
  BY <1>1, KeptExists
<1>3. PICK h : KeptUpTo(h, s, S, n) /\ Only(s, S) = h[n]
  BY KeptExists
<1> HIDE DEF t, n
<1>4. KeptUpTo(g, s, S, n)
  BY <1>1, <1>2 DEF KeptUpTo
<1>5. g[n] = h[n]
  BY <1>1, <1>3, <1>4, KeptUnique
<1>6. g[n + 1] = IF x \in S THEN Append(g[n], x) ELSE g[n]
  <2>1. n + 1 \in 1 .. n + 1 /\ (n + 1) - 1 = n
    BY <1>1
  <2> QED BY <1>1, <1>2, <2>1 DEF KeptUpTo
<1> QED BY <1>2, <1>3, <1>5, <1>6 DEF t

(* The prefixes of a sequence. *)
LEMMA PrefixFacts ==
  ASSUME NEW T, NEW s \in Seq(T)
  PROVE  /\ SubSeq(s, 1, 0) = <<>> /\ SubSeq(s, 1, Len(s)) = s
         /\ \A n \in 0 .. Len(s) : SubSeq(s, 1, n) \in Seq(T) /\ Len(SubSeq(s, 1, n)) = n
         /\ \A n \in 1 .. Len(s) : /\ s[n] \in T
                                   /\ SubSeq(s, 1, n) = Append(SubSeq(s, 1, n - 1), s[n])
<1>1. SubSeq(s, 1, 0) = <<>> /\ SubSeq(s, 1, Len(s)) = s
  OBVIOUS
<1>2. ASSUME NEW n \in 0 .. Len(s)
      PROVE  SubSeq(s, 1, n) \in Seq(T) /\ Len(SubSeq(s, 1, n)) = n
  OBVIOUS
<1>3. ASSUME NEW n \in 1 .. Len(s)
      PROVE  s[n] \in T /\ SubSeq(s, 1, n) = Append(SubSeq(s, 1, n - 1), s[n])
  <2> DEFINE a == SubSeq(s, 1, n)
             b == Append(SubSeq(s, 1, n - 1), s[n])
  <2>1. n \in 0 .. Len(s) /\ n - 1 \in 0 .. Len(s) /\ s[n] \in T
    OBVIOUS
  <2>2. /\ a \in Seq(T) /\ b \in Seq(T) /\ Len(a) = n /\ Len(b) = n
        /\ \A i \in 1 .. n : a[i] = b[i]
    BY <1>2, <2>1
  <2> HIDE DEF a, b
  <2>3. a = b
    BY <2>2, SamePlaces
  <2> QED BY <2>1, <2>3 DEF a, b
<1> QED BY <1>1, <1>2, <1>3

(* What is kept of a sequence is a sequence of the same things. *)
LEMMA OnlyType ==
  ASSUME NEW T, NEW s \in Seq(T), NEW S
  PROVE  Only(s, S) \in Seq(T)
<1> DEFINE Good(n) == Only(SubSeq(s, 1, n), S) \in Seq(T)
           G == {n \in 0 .. Len(s) : Good(n)}
<1>1. Good(0)
  <2>1. <<>> \in Seq(T)
    OBVIOUS
  <2> QED BY <2>1, PrefixFacts, OnlyOfNone
<1>2. ASSUME NEW n \in 1 .. Len(s), Good(n - 1)
      PROVE  Good(n)
  <2> DEFINE front == SubSeq(s, 1, n - 1)
  <2>1. front \in Seq(T) /\ s[n] \in T /\ SubSeq(s, 1, n) = Append(front, s[n])
    <3>1. n - 1 \in 0 .. Len(s)
      OBVIOUS
    <3> QED BY <3>1, PrefixFacts
  <2>2. Only(front, S) \in Seq(T)
    BY <1>2
  <2> HIDE DEF front
  <2>3. Append(Only(front, S), s[n]) \in Seq(T)
    BY <2>1, <2>2
  <2>4. Only(Append(front, s[n]), S) \in Seq(T)
    BY <2>1, <2>2, <2>3, OnlyAppend, ZenonT(20)
  <2> QED BY <2>1, <2>4
<1>3. 0 \in G /\ (\A n \in 1 .. Len(s) : n - 1 \in G => n \in G) /\ Len(s) \in Nat
  <2> HIDE DEF Good
  <2> QED BY <1>1, <1>2
<1>4. Len(s) \in G
  <2> HIDE DEF G
  <2> QED BY <1>3, Upwards
<1> QED BY <1>4, PrefixFacts

(* Places of two sequences one behind the other. *)
LEMMA ConcatPlaces ==
  ASSUME NEW T, NEW s \in Seq(T), NEW t \in Seq(T)
  PROVE  /\ s \o t \in Seq(T)
         /\ Len(s \o t) = Len(s) + Len(t)
         /\ \A i \in 1 .. Len(s) : (s \o t)[i] = s[i]
         /\ \A i \in 1 .. Len(t) : (s \o t)[Len(s) + i] = t[i]
<1>1. s \o t \in Seq(T)
  OBVIOUS
<1>2. Len(s \o t) = Len(s) + Len(t)
  OBVIOUS
<1>3. \A i \in 1 .. Len(s) : (s \o t)[i] = s[i]
  OBVIOUS
<1>4. \A i \in 1 .. Len(t) : (s \o t)[Len(s) + i] = t[i]
  OBVIOUS
<1> QED BY <1>1, <1>2, <1>3, <1>4

(* Appending behind another sequence. *)
LEMMA ConcatAppend ==
  ASSUME NEW T, NEW s \in Seq(T), NEW t \in Seq(T), NEW x \in T
  PROVE  s \o Append(t, x) = Append(s \o t, x)
<1> DEFINE a == s \o Append(t, x)
           b == Append(s \o t, x)
<1>1. /\ Append(t, x) \in Seq(T) /\ Len(Append(t, x)) = Len(t) + 1
      /\ Append(t, x)[Len(t) + 1] = x /\ \A i \in 1 .. Len(t) : Append(t, x)[i] = t[i]
  OBVIOUS
<1>2. /\ a \in Seq(T) /\ Len(a) = Len(s) + (Len(t) + 1)
      /\ \A i \in 1 .. Len(s) : a[i] = s[i]
      /\ \A i \in 1 .. Len(t) + 1 : a[Len(s) + i] = Append(t, x)[i]
  <2> HIDE DEF a
  <2>1. a = s \o Append(t, x)
    BY DEF a
  <2> QED BY <1>1, <2>1, ConcatPlaces
<1>3. /\ b \in Seq(T) /\ Len(b) = (Len(s) + Len(t)) + 1 /\ b[(Len(s) + Len(t)) + 1] = x
      /\ \A i \in 1 .. Len(s) : b[i] = s[i]
      /\ \A i \in 1 .. Len(t) : b[Len(s) + i] = t[i]
  <2>1. /\ s \o t \in Seq(T) /\ Len(s \o t) = Len(s) + Len(t)
        /\ \A i \in 1 .. Len(s) : (s \o t)[i] = s[i]
        /\ \A i \in 1 .. Len(t) : (s \o t)[Len(s) + i] = t[i]
    BY ConcatPlaces
  <2> DEFINE st == s \o t
  <2> HIDE DEF st
  <2>2. /\ Append(st, x) \in Seq(T) /\ Len(Append(st, x)) = Len(st) + 1
        /\ Append(st, x)[Len(st) + 1] = x
        /\ \A i \in 1 .. Len(st) : Append(st, x)[i] = st[i]
    BY <2>1 DEF st
  <2>3. Len(s) \in Nat /\ Len(t) \in Nat
    OBVIOUS
  <2>4. \A i \in 1 .. Len(s) : i \in 1 .. Len(s) + Len(t)
    BY <2>3
  <2>5. \A i \in 1 .. Len(t) : Len(s) + i \in 1 .. Len(s) + Len(t)
    BY <2>3
  <2> QED BY <2>1, <2>2, <2>4, <2>5 DEF st
<1> HIDE DEF a, b
<1>4. ASSUME NEW i \in 1 .. Len(a)
      PROVE  a[i] = b[i]
  <2>1. Len(s) \in Nat /\ Len(t) \in Nat
    OBVIOUS
  <2>2. CASE i <= Len(s)
    BY <1>2, <1>3, <2>1, <2>2
  <2>3. CASE i = Len(s) + (Len(t) + 1)
    <3>1. Len(t) + 1 \in 1 .. Len(t) + 1 /\ i = (Len(s) + Len(t)) + 1
      BY <2>1, <2>3
    <3> QED BY <1>1, <1>2, <1>3, <2>3, <3>1
  <2>4. CASE i > Len(s) /\ i # Len(s) + (Len(t) + 1)
    <3>1. i \in 1 .. Len(s) + (Len(t) + 1)
      BY <1>2
    <3>2. /\ i - Len(s) \in 1 .. Len(t) /\ i - Len(s) \in 1 .. Len(t) + 1
          /\ Len(s) + (i - Len(s)) = i
      BY <2>1, <2>4, <3>1
    <3>3. a[i] = Append(t, x)[i - Len(s)] /\ b[i] = t[i - Len(s)]
      BY <1>2, <1>3, <3>2
    <3> QED BY <1>1, <3>2, <3>3
  <2> QED BY <1>2, <2>1, <2>2, <2>3, <2>4
<1>5. Len(a) = Len(b)
  <2>1. Len(s) \in Nat /\ Len(t) \in Nat
    OBVIOUS
  <2> QED BY <1>2, <1>3, <2>1
<1>6. a = b
  BY <1>2, <1>3, <1>4, <1>5, SamePlaces
<1> QED BY <1>6 DEF a, b

(* What is kept of two sequences is what is kept of each. *)
LEMMA OnlyConcat ==
  ASSUME NEW T, NEW s \in Seq(T), NEW t \in Seq(T), NEW S
  PROVE  Only(s \o t, S) = Only(s, S) \o Only(t, S)
<1> DEFINE Both(u) == Only(s \o u, S) = Only(s, S) \o Only(u, S)
           Good(n) == Both(SubSeq(t, 1, n))
           G == {n \in 0 .. Len(t) : Good(n)}
<1>1. Both(<<>>)
  <2>1. Only(s, S) \in Seq(T)
    BY OnlyType
  <2>2. s \o <<>> = s /\ Only(s, S) \o <<>> = Only(s, S)
    BY <2>1
  <2> QED BY <2>2, OnlyOfNone
<1>2. ASSUME NEW u \in Seq(T), NEW x \in T, Both(u)
      PROVE  Both(Append(u, x))
  <2>1. s \o Append(u, x) = Append(s \o u, x) /\ s \o u \in Seq(T)
    BY ConcatAppend, ConcatPlaces
  <2>2. Only(s, S) \in Seq(T) /\ Only(u, S) \in Seq(T)
    BY OnlyType
  <2>3. CASE x \in S
    <3>1. Only(s \o Append(u, x), S) = Append(Only(s, S) \o Only(u, S), x)
      BY <1>2, <2>1, <2>3, OnlyAppend
    <3>2. Only(Append(u, x), S) = Append(Only(u, S), x)
      BY <2>3, OnlyAppend
    <3>3. Append(Only(s, S) \o Only(u, S), x) = Only(s, S) \o Append(Only(u, S), x)
      <4> DEFINE p == Only(s, S)
                 q == Only(u, S)
      <4> HIDE DEF p, q
      <4>1. p \in Seq(T) /\ q \in Seq(T)
        BY <2>2 DEF p, q
      <4>2. p \o Append(q, x) = Append(p \o q, x)
        BY <4>1, ConcatAppend
      <4> QED BY <4>2 DEF p, q
    <3> QED BY <3>1, <3>2, <3>3
  <2>4. CASE x \notin S
    <3>1. Only(s \o Append(u, x), S) = Only(s, S) \o Only(u, S)
      <4> DEFINE v == s \o u
      <4>1. v \in Seq(T) /\ s \o Append(u, x) = Append(v, x)
        BY <2>1
      <4> HIDE DEF v
      <4>2. Only(Append(v, x), S) = Only(v, S)
        BY <2>4, <4>1, OnlyAppend
      <4> QED BY <1>2, <4>1, <4>2 DEF v
    <3>2. Only(Append(u, x), S) = Only(u, S)
      BY <2>4, OnlyAppend
    <3> QED BY <3>1, <3>2
  <2> QED BY <2>3, <2>4
<1> HIDE DEF Both
<1>3. Good(0)
  BY <1>1, PrefixFacts
<1>4. ASSUME NEW n \in 1 .. Len(t), Good(n - 1)
      PROVE  Good(n)
  <2>1. n - 1 \in 0 .. Len(t)
    OBVIOUS
  <2>2. SubSeq(t, 1, n - 1) \in Seq(T) /\ t[n] \in T
        /\ SubSeq(t, 1, n) = Append(SubSeq(t, 1, n - 1), t[n])
    BY <2>1, PrefixFacts
  <2> QED BY <1>2, <1>4, <2>2
<1>5. 0 \in G /\ (\A n \in 1 .. Len(t) : n - 1 \in G => n \in G) /\ Len(t) \in Nat
  <2> HIDE DEF Good
  <2> QED BY <1>3, <1>4
<1>6. Len(t) \in G
  <2> HIDE DEF G
  <2> QED BY <1>5, Upwards
<1>7. Both(t)
  BY <1>6, PrefixFacts
<1> QED BY <1>7 DEF Both

(* All of a sequence is kept, or none of it. *)
LEMMA OnlyAllOrNone ==
  ASSUME NEW T, NEW s \in Seq(T), NEW S
  PROVE  /\ (\A i \in 1 .. Len(s) : s[i] \in S) => Only(s, S) = s
         /\ (\A i \in 1 .. Len(s) : s[i] \notin S) => Only(s, S) = <<>>
<1>1. ASSUME NEW n \in 1 .. Len(s)
      PROVE  /\ SubSeq(s, 1, n - 1) \in Seq(T) /\ s[n] \in T
             /\ SubSeq(s, 1, n) = Append(SubSeq(s, 1, n - 1), s[n])
  <2>1. n - 1 \in 0 .. Len(s)
    OBVIOUS
  <2> QED BY <2>1, PrefixFacts
<1>2. ASSUME \A i \in 1 .. Len(s) : s[i] \in S
      PROVE  Only(s, S) = s
  <2> DEFINE Good(n) == Only(SubSeq(s, 1, n), S) = SubSeq(s, 1, n)
             G == {n \in 0 .. Len(s) : Good(n)}
  <2>1. Good(0)
    BY PrefixFacts, OnlyOfNone
  <2>2. ASSUME NEW n \in 1 .. Len(s), Good(n - 1)
        PROVE  Good(n)
    <3> DEFINE front == SubSeq(s, 1, n - 1)
    <3>1. front \in Seq(T) /\ s[n] \in T /\ SubSeq(s, 1, n) = Append(front, s[n])
      BY <1>1
    <3>2. Only(front, S) = front
      BY <2>2
    <3>3. s[n] \in S
      BY <1>2
    <3> HIDE DEF front
    <3>4. Only(Append(front, s[n]), S) = Append(front, s[n])
      BY <3>1, <3>2, <3>3, OnlyAppend
    <3> QED BY <3>1, <3>4
  <2>3. 0 \in G /\ (\A n \in 1 .. Len(s) : n - 1 \in G => n \in G) /\ Len(s) \in Nat
    <3> HIDE DEF Good
    <3> QED BY <2>1, <2>2
  <2>4. Len(s) \in G
    <3> HIDE DEF G
    <3> QED BY <2>3, Upwards
  <2> QED BY <2>4, PrefixFacts
<1>3. ASSUME \A i \in 1 .. Len(s) : s[i] \notin S
      PROVE  Only(s, S) = <<>>
  <2> DEFINE Good(n) == Only(SubSeq(s, 1, n), S) = <<>>
             G == {n \in 0 .. Len(s) : Good(n)}
  <2>1. Good(0)
    BY PrefixFacts, OnlyOfNone
  <2>2. ASSUME NEW n \in 1 .. Len(s), Good(n - 1)
        PROVE  Good(n)
    <3> DEFINE front == SubSeq(s, 1, n - 1)
    <3>1. front \in Seq(T) /\ s[n] \in T /\ SubSeq(s, 1, n) = Append(front, s[n])
      BY <1>1
    <3>2. Only(front, S) = <<>>
      BY <2>2
    <3>3. s[n] \notin S
      BY <1>3
    <3> HIDE DEF front
    <3>4. Only(Append(front, s[n]), S) = <<>>
      BY <3>1, <3>2, <3>3, OnlyAppend
    <3> QED BY <3>1, <3>4
  <2>3. 0 \in G /\ (\A n \in 1 .. Len(s) : n - 1 \in G => n \in G) /\ Len(s) \in Nat
    <3> HIDE DEF Good
    <3> QED BY <2>1, <2>2
  <2>4. Len(s) \in G
    <3> HIDE DEF G
    <3> QED BY <2>3, Upwards
  <2> QED BY <2>4, PrefixFacts
<1> QED BY <1>2, <1>3

(* Sets that agree on the elements of a sequence keep the same of it. *)
LEMMA OnlySame ==
  ASSUME NEW T, NEW s \in Seq(T), NEW S, NEW R,
         \A i \in 1 .. Len(s) : s[i] \in S <=> s[i] \in R
  PROVE  Only(s, S) = Only(s, R)
<1> DEFINE Good(n) == Only(SubSeq(s, 1, n), S) = Only(SubSeq(s, 1, n), R)
           G == {n \in 0 .. Len(s) : Good(n)}
<1>1. Good(0)
  BY PrefixFacts, OnlyOfNone
<1>2. ASSUME NEW n \in 1 .. Len(s), Good(n - 1)
      PROVE  Good(n)
  <2> DEFINE front == SubSeq(s, 1, n - 1)
  <2>1. front \in Seq(T) /\ s[n] \in T /\ SubSeq(s, 1, n) = Append(front, s[n])
    <3>1. n - 1 \in 0 .. Len(s)
      OBVIOUS
    <3> QED BY <3>1, PrefixFacts
  <2>2. Only(front, S) = Only(front, R)
    BY <1>2
  <2> HIDE DEF front
  <2>3. Only(Append(front, s[n]), S) = IF s[n] \in S THEN Append(Only(front, S), s[n]) ELSE Only(front, S)
    BY <2>1, OnlyAppend
  <2>4. Only(Append(front, s[n]), R) = IF s[n] \in R THEN Append(Only(front, R), s[n]) ELSE Only(front, R)
    BY <2>1, OnlyAppend
  <2>5. s[n] \in S <=> s[n] \in R
    OBVIOUS
  <2> QED BY <2>1, <2>2, <2>3, <2>4, <2>5
<1>3. 0 \in G /\ (\A n \in 1 .. Len(s) : n - 1 \in G => n \in G) /\ Len(s) \in Nat
  <2> HIDE DEF Good
  <2> QED BY <1>1, <1>2
<1>4. Len(s) \in G
  <2> HIDE DEF G
  <2> QED BY <1>3, Upwards
<1> QED BY <1>4, PrefixFacts

(* A sequence is its front and what is behind it. *)
LEMMA FrontAndRest ==
  ASSUME NEW T, NEW s \in Seq(T), NEW n \in 0 .. Len(s)
  PROVE  /\ SubSeq(s, 1, n) \in Seq(T) /\ Len(SubSeq(s, 1, n)) = n
         /\ \A i \in 1 .. n : SubSeq(s, 1, n)[i] = s[i]
         /\ SubSeq(s, n + 1, Len(s)) \in Seq(T) /\ Len(SubSeq(s, n + 1, Len(s))) = Len(s) - n
         /\ \A i \in 1 .. Len(s) - n : SubSeq(s, n + 1, Len(s))[i] = s[n + i]
         /\ SubSeq(s, 1, n) \o SubSeq(s, n + 1, Len(s)) = s
<1> DEFINE a == SubSeq(s, 1, n)
           b == SubSeq(s, n + 1, Len(s))
<1>1. a \in Seq(T) /\ Len(a) = n /\ \A i \in 1 .. n : a[i] = s[i]
  OBVIOUS
<1>2. b \in Seq(T) /\ Len(b) = Len(s) - n /\ \A i \in 1 .. Len(s) - n : b[i] = s[n + i]
  OBVIOUS
<1> HIDE DEF a, b
<1>3. /\ a \o b \in Seq(T) /\ Len(a \o b) = Len(s)
      /\ \A i \in 1 .. n : (a \o b)[i] = s[i]
      /\ \A i \in 1 .. Len(s) - n : (a \o b)[n + i] = s[n + i]
  <2>1. Len(s) \in Nat
    OBVIOUS
  <2> QED BY <1>1, <1>2, <2>1, ConcatPlaces
<1>4. ASSUME NEW i \in 1 .. Len(s)
      PROVE  (a \o b)[i] = s[i]
  <2>1. CASE i <= n
    BY <1>3, <2>1
  <2>2. CASE i > n
    <3>1. i - n \in 1 .. Len(s) - n /\ n + (i - n) = i
      BY <2>2
    <3> QED BY <1>3, <3>1
  <2>3. i <= n \/ i > n
    OBVIOUS
  <2> QED BY <2>1, <2>2, <2>3
<1>5. a \o b = s
  BY <1>3, <1>4, SamePlaces
<1> QED BY <1>1, <1>2, <1>5 DEF a, b

(* What is added behind a sequence leaves its fronts. *)
LEMMA FrontOfConcat ==
  ASSUME NEW T, NEW s \in Seq(T), NEW t \in Seq(T), NEW n \in 0 .. Len(s)
  PROVE  SubSeq(s \o t, 1, n) = SubSeq(s, 1, n)
<1> DEFINE u == s \o t
           a == SubSeq(u, 1, n)
           b == SubSeq(s, 1, n)
<1>1. /\ u \in Seq(T) /\ Len(s) \in Nat /\ n \in 0 .. Len(u)
      /\ \A i \in 1 .. Len(s) : u[i] = s[i]
  <2>1. Len(s) \in Nat /\ Len(t) \in Nat
    OBVIOUS
  <2>2. u \in Seq(T) /\ Len(u) = Len(s) + Len(t) /\ \A i \in 1 .. Len(s) : u[i] = s[i]
    BY ConcatPlaces
  <2> HIDE DEF u
  <2> QED BY <2>1, <2>2
<1> HIDE DEF u
<1>2. b \in Seq(T) /\ Len(b) = n /\ \A i \in 1 .. n : b[i] = s[i]
  BY FrontAndRest
<1>3. a \in Seq(T) /\ Len(a) = n /\ \A i \in 1 .. n : a[i] = u[i]
  BY <1>1, FrontAndRest
<1> HIDE DEF a, b
<1>4. a = b
  BY <1>1, <1>2, <1>3, SamePlaces
<1> QED BY <1>4 DEF a, b, u

(* Of a sequence whose places in S are all behind those that are not, what is
   kept is a tail. *)
LEMMA OnlyTail ==
  ASSUME NEW T, NEW s \in Seq(T), NEW S,
         \A i, j \in 1 .. Len(s) : i <= j /\ s[i] \in S => s[j] \in S
  PROVE  \E k \in 0 .. Len(s) :
           /\ Only(s, S) = SubSeq(s, k + 1, Len(s))
           /\ \A i \in 1 .. k : s[i] \notin S
           /\ \A i \in k + 1 .. Len(s) : s[i] \in S
<1> DEFINE K == {k \in 0 .. Len(s) : \A i \in k + 1 .. Len(s) : s[i] \in S}
<1>1. PICK k \in K : \A m \in K : k <= m
  <2>1. Len(s) \in K /\ K \subseteq Nat
    OBVIOUS
  <2> HIDE DEF K
  <2> QED BY <2>1, LeastNatural
<1>2. k \in 0 .. Len(s) /\ \A i \in k + 1 .. Len(s) : s[i] \in S
  BY <1>1
<1>3. ASSUME NEW i \in 1 .. k
      PROVE  s[i] \notin S
  <2> SUFFICES ASSUME s[i] \in S PROVE FALSE
    OBVIOUS
  <2>1. i - 1 \in 0 .. Len(s) /\ ~(k <= i - 1) /\ i \in 1 .. Len(s)
    BY <1>2
  <2>2. \A j \in (i - 1) + 1 .. Len(s) : j \in 1 .. Len(s) /\ i <= j
    BY <2>1
  <2>3. \A j \in (i - 1) + 1 .. Len(s) : s[j] \in S
    BY <2>1, <2>2
  <2> QED BY <1>1, <2>1, <2>3
<1> DEFINE a == SubSeq(s, 1, k)
           b == SubSeq(s, k + 1, Len(s))
<1>4. /\ a \in Seq(T) /\ Len(a) = k /\ \A i \in 1 .. k : a[i] = s[i]
  BY <1>2, PrefixFacts
<1>5. /\ b \in Seq(T) /\ Len(b) = Len(s) - k
      /\ \A i \in 1 .. Len(s) - k : b[i] = s[k + i]
  BY <1>2
<1> HIDE DEF a, b, K
<1>6. s = a \o b
  <2>1. /\ a \o b \in Seq(T) /\ Len(a \o b) = Len(s)
        /\ \A i \in 1 .. k : (a \o b)[i] = a[i]
        /\ \A i \in 1 .. Len(s) - k : (a \o b)[k + i] = b[i]
    <3>1. Len(a) + Len(b) = Len(s)
      BY <1>2, <1>4, <1>5
    <3>2. /\ a \o b \in Seq(T) /\ Len(a \o b) = Len(a) + Len(b)
          /\ \A i \in 1 .. Len(a) : (a \o b)[i] = a[i]
          /\ \A i \in 1 .. Len(b) : (a \o b)[Len(a) + i] = b[i]
      BY <1>4, <1>5, ConcatPlaces
    <3> QED BY <1>4, <1>5, <3>1, <3>2
  <2>2. ASSUME NEW i \in 1 .. Len(s)
        PROVE  s[i] = (a \o b)[i]
    <3>1. CASE i <= k
      BY <1>2, <1>4, <2>1, <3>1
    <3>2. CASE i > k
      <4>1. i - k \in 1 .. Len(s) - k /\ k + (i - k) = i
        BY <1>2, <3>2
      <4>2. (a \o b)[k + (i - k)] = b[i - k] /\ b[i - k] = s[k + (i - k)]
        BY <1>5, <2>1, <4>1
      <4> QED BY <4>1, <4>2
    <3>3. i <= k \/ i > k
      BY <1>2
    <3> QED BY <3>1, <3>2, <3>3
  <2> QED BY <2>1, <2>2, SamePlaces
<1>7. Only(a, S) = <<>>
  BY <1>3, <1>4, OnlyAllOrNone
<1>8. Only(b, S) = b
  <2>1. \A i \in 1 .. Len(b) : b[i] \in S
    <3> SUFFICES ASSUME NEW i \in 1 .. Len(b) PROVE b[i] \in S
      OBVIOUS
    <3>1. i \in 1 .. Len(s) - k /\ k + i \in k + 1 .. Len(s)
      BY <1>2, <1>5
    <3> QED BY <1>2, <1>5, <3>1
  <2> QED BY <1>5, <2>1, OnlyAllOrNone
<1>9. Only(s, S) = b
  <2>1. Only(s, S) = <<>> \o b
    <3>1. Only(a \o b, S) = Only(a, S) \o Only(b, S)
      BY <1>4, <1>5, OnlyConcat
    <3> QED BY <1>6, <1>7, <1>8, <3>1
  <2> QED BY <1>5, <2>1
<1> QED BY <1>2, <1>3, <1>9 DEF b

-----------------------------------------------------------------------------
(* Sequences one behind the other. *)

(* The empty sequence adds nothing. *)
LEMMA ConcatNone ==
  ASSUME NEW T, NEW s \in Seq(T)
  PROVE  s \o <<>> = s /\ <<>> \o s = s
  OBVIOUS

(* Putting together is associative. *)
LEMMA ConcatAssociates ==
  ASSUME NEW T, NEW s \in Seq(T), NEW t \in Seq(T), NEW u \in Seq(T)
  PROVE  (s \o t) \o u = s \o (t \o u)
<1> DEFINE Both(v) == (s \o t) \o v = s \o (t \o v)
           Good(n) == Both(SubSeq(u, 1, n))
           G == {n \in 0 .. Len(u) : Good(n)}
<1>1. s \o t \in Seq(T)
  BY ConcatPlaces
<1>2. Both(<<>>)
  BY <1>1, ConcatNone
<1>3. ASSUME NEW v \in Seq(T), NEW x \in T, Both(v)
      PROVE  Both(Append(v, x))
  <2>1. t \o v \in Seq(T)
    BY ConcatPlaces
  <2>2. (s \o t) \o Append(v, x) = Append((s \o t) \o v, x)
    <3> DEFINE st == s \o t
    <3>1. st \in Seq(T)
      BY <1>1
    <3> HIDE DEF st
    <3>2. st \o Append(v, x) = Append(st \o v, x)
      BY <3>1, ConcatAppend
    <3> QED BY <3>2 DEF st
  <2>3. t \o Append(v, x) = Append(t \o v, x)
    BY ConcatAppend
  <2>4. s \o Append(t \o v, x) = Append(s \o (t \o v), x)
    <3> DEFINE tv == t \o v
    <3>1. tv \in Seq(T)
      BY <2>1
    <3> HIDE DEF tv
    <3>2. s \o Append(tv, x) = Append(s \o tv, x)
      BY <3>1, ConcatAppend
    <3> QED BY <3>2 DEF tv
  <2> QED BY <1>3, <2>2, <2>3, <2>4
<1> HIDE DEF Both
<1>4. Good(0)
  BY <1>2, PrefixFacts
<1>5. ASSUME NEW n \in 1 .. Len(u), Good(n - 1)
      PROVE  Good(n)
  <2>1. n - 1 \in 0 .. Len(u)
    OBVIOUS
  <2>2. SubSeq(u, 1, n - 1) \in Seq(T) /\ u[n] \in T
        /\ SubSeq(u, 1, n) = Append(SubSeq(u, 1, n - 1), u[n])
    BY <2>1, PrefixFacts
  <2> QED BY <1>3, <1>5, <2>2
<1>6. 0 \in G /\ (\A n \in 1 .. Len(u) : n - 1 \in G => n \in G) /\ Len(u) \in Nat
  <2> HIDE DEF Good
  <2> QED BY <1>4, <1>5
<1>7. Len(u) \in G
  <2> HIDE DEF G
  <2> QED BY <1>6, Upwards
<1>8. Both(u)
  BY <1>7, PrefixFacts
<1> QED BY <1>8 DEF Both

(* The head of the one behind may as well be the last of the one before. *)
LEMMA HeadMoves ==
  ASSUME NEW T, NEW s \in Seq(T), NEW t \in Seq(T), t # <<>>
  PROVE  /\ Head(t) \in T /\ Tail(t) \in Seq(T)
         /\ Append(s, Head(t)) \o Tail(t) = s \o t
<1>1. /\ Head(t) \in T /\ Tail(t) \in Seq(T) /\ Len(t) >= 1
      /\ Len(Tail(t)) = Len(t) - 1 /\ Head(t) = t[1]
      /\ \A i \in 1 .. Len(t) - 1 : Tail(t)[i] = t[i + 1]
  OBVIOUS
<1> DEFINE x == Head(t)
           r == Tail(t)
           one == Append(<<>>, x)
<1> HIDE DEF x, r
<1>2. one \in Seq(T) /\ Len(one) = 1 /\ one[1] = x
  BY <1>1 DEF x
<1> HIDE DEF one
<1>3. one \o r = t
  <2>1. /\ one \o r \in Seq(T) /\ Len(one \o r) = Len(t)
        /\ (one \o r)[1] = x /\ \A i \in 1 .. Len(r) : (one \o r)[1 + i] = r[i]
    <3>1. one \in Seq(T) /\ r \in Seq(T)
      BY <1>1, <1>2 DEF r
    <3>3. Len(one) = 1 /\ Len(r) = Len(t) - 1 /\ Len(t) \in Nat
      BY <1>1, <1>2 DEF r
    <3>2. /\ one \o r \in Seq(T) /\ Len(one \o r) = Len(one) + Len(r)
          /\ \A i \in 1 .. Len(one) : (one \o r)[i] = one[i]
          /\ \A i \in 1 .. Len(r) : (one \o r)[Len(one) + i] = r[i]
      BY <3>1, ConcatPlaces
    <3> QED BY <1>2, <3>2, <3>3
  <2>2. ASSUME NEW i \in 1 .. Len(t)
        PROVE  (one \o r)[i] = t[i]
    <3>1. CASE i = 1
      BY <1>1, <2>1, <3>1 DEF x
    <3>2. CASE i # 1
      <4>1. i - 1 \in 1 .. Len(t) - 1 /\ 1 + (i - 1) = i /\ (i - 1) + 1 = i
        BY <3>2
      <4>2. (one \o r)[1 + (i - 1)] = r[i - 1] /\ r[i - 1] = t[(i - 1) + 1]
        BY <1>1, <2>1, <4>1 DEF r
      <4> QED BY <4>1, <4>2
    <3> QED BY <3>1, <3>2
  <2> QED BY <2>1, <2>2, SamePlaces
<1>4. s \o one = Append(s, x)
  <2>1. <<>> \in Seq(T) /\ x \in T
    BY <1>1 DEF x
  <2>2. s \o Append(<<>>, x) = Append(s \o <<>>, x)
    BY <2>1, ConcatAppend
  <2> QED BY <2>2, ConcatNone DEF one
<1>5. (s \o one) \o r = s \o (one \o r)
  BY <1>1, <1>2, ConcatAssociates, SMTT(20) DEF r
<1> QED BY <1>1, <1>3, <1>4, <1>5 DEF x, r

(* A sequence without its place i. *)
LEMMA PlaceTakenOut ==
  ASSUME NEW T, NEW s \in Seq(T), NEW i \in 1 .. Len(s)
  PROVE  LET before == SubSeq(s, 1, i - 1)
             behind == SubSeq(s, i + 1, Len(s)) IN
         /\ before \in Seq(T) /\ behind \in Seq(T) /\ s[i] \in T
         /\ s = Append(before, s[i]) \o behind
<1> DEFINE before == SubSeq(s, 1, i - 1)
           behind == SubSeq(s, i + 1, Len(s))
           upto == Append(before, s[i])
<1>1. before \in Seq(T) /\ s[i] \in T /\ upto = SubSeq(s, 1, i)
  <2>1. i - 1 \in 0 .. Len(s)
    OBVIOUS
  <2> QED BY <2>1, PrefixFacts
<1>2. upto \in Seq(T) /\ Len(upto) = i /\ \A j \in 1 .. i : upto[j] = s[j]
  BY <1>1
<1>3. /\ behind \in Seq(T) /\ Len(behind) = Len(s) - i
      /\ \A j \in 1 .. Len(s) - i : behind[j] = s[i + j]
  OBVIOUS
<1> HIDE DEF before, behind, upto
<1>4. /\ upto \o behind \in Seq(T) /\ Len(upto \o behind) = Len(s)
      /\ \A j \in 1 .. i : (upto \o behind)[j] = upto[j]
      /\ \A j \in 1 .. Len(s) - i : (upto \o behind)[i + j] = behind[j]
  <2>1. Len(upto) + Len(behind) = Len(s)
    BY <1>2, <1>3
  <2>2. /\ upto \o behind \in Seq(T) /\ Len(upto \o behind) = Len(upto) + Len(behind)
        /\ \A j \in 1 .. Len(upto) : (upto \o behind)[j] = upto[j]
        /\ \A j \in 1 .. Len(behind) : (upto \o behind)[Len(upto) + j] = behind[j]
    <3>1. upto \in Seq(T) /\ behind \in Seq(T)
      BY <1>2, <1>3
    <3> QED BY <3>1, ConcatPlaces
  <2> QED BY <1>2, <1>3, <2>1, <2>2
<1>5. ASSUME NEW j \in 1 .. Len(s)
      PROVE  (upto \o behind)[j] = s[j]
  <2>1. CASE j <= i
    BY <1>2, <1>4, <2>1
  <2>2. CASE j > i
    <3>1. j - i \in 1 .. Len(s) - i /\ i + (j - i) = j
      BY <2>2
    <3>2. (upto \o behind)[i + (j - i)] = behind[j - i] /\ behind[j - i] = s[i + (j - i)]
      BY <1>3, <1>4, <3>1
    <3> QED BY <3>1, <3>2
  <2>3. j <= i \/ j > i
    OBVIOUS
  <2> QED BY <2>1, <2>2, <2>3
<1>6. upto \o behind = s
  BY <1>4, <1>5, SamePlaces
<1> QED BY <1>1, <1>3, <1>6 DEF before, behind, upto

-----------------------------------------------------------------------------
(* What is in a sequence, and whether each of it is there once. *)
Elems(s) == {s[i] : i \in 1 .. Len(s)}
OneEach(s) == \A i, j \in 1 .. Len(s) : s[i] = s[j] => i = j

(* The empty sequence has no elements. *)
LEMMA ElemsOfNone == Elems(<<>>) = {} /\ OneEach(<<>>)
  BY DEF Elems, OneEach

(* An element is added at the end. *)
LEMMA ElemsAppend ==
  ASSUME NEW T, NEW s \in Seq(T), NEW x \in T
  PROVE  /\ Elems(Append(s, x)) = Elems(s) \cup {x}
         /\ OneEach(Append(s, x)) <=> OneEach(s) /\ x \notin Elems(s)
<1> DEFINE t == Append(s, x)
           n == Len(s)
<1>1. n \in Nat /\ Len(t) = n + 1 /\ t[n + 1] = x /\ \A i \in 1 .. n : t[i] = s[i]
  OBVIOUS
<1> HIDE DEF t, n
<1>2. 1 .. n + 1 = (1 .. n) \cup {n + 1} /\ n + 1 \notin 1 .. n
  BY <1>1
<1>3. Elems(t) = Elems(s) \cup {x}
  BY <1>1, <1>2 DEF Elems, n
<1>4. ASSUME OneEach(s), x \notin Elems(s)
      PROVE  OneEach(t)
  <2>1. \A i \in 1 .. n : s[i] # x
    BY <1>4 DEF Elems, n
  <2> QED BY <1>1, <1>2, <1>4, <2>1 DEF OneEach, n
<1>5. ASSUME OneEach(t)
      PROVE  OneEach(s) /\ x \notin Elems(s)
  <2>1. OneEach(s)
    BY <1>1, <1>2, <1>5 DEF OneEach, n
  <2>2. ASSUME NEW i \in 1 .. n, s[i] = x
        PROVE  FALSE
    BY <1>1, <1>2, <1>5, <2>2 DEF OneEach
  <2> QED BY <2>1, <2>2 DEF Elems, n
<1> QED BY <1>3, <1>4, <1>5 DEF t

(* Two sequences share no element exactly if none is twice in both together. *)
LEMMA ElemsConcat ==
  ASSUME NEW T, NEW s \in Seq(T), NEW t \in Seq(T)
  PROVE  /\ Elems(s \o t) = Elems(s) \cup Elems(t)
         /\ OneEach(s) /\ OneEach(t) /\ Elems(s) \cap Elems(t) = {} => OneEach(s \o t)
         /\ OneEach(s \o t) => /\ OneEach(s) /\ OneEach(t)
                               /\ Elems(s) \cap Elems(t) = {}
<1> DEFINE u == s \o t
           m == Len(s)
           n == Len(t)
<1>1. /\ m \in Nat /\ n \in Nat /\ Len(u) = m + n
      /\ \A i \in 1 .. m : u[i] = s[i]
      /\ \A i \in 1 .. n : u[m + i] = t[i]
  BY ConcatPlaces
<1> HIDE DEF u
<1>2. \A i \in 1 .. m + n : i \in 1 .. m \/ \E j \in 1 .. n : i = m + j
  <2> HIDE DEF m, n
  <2> SUFFICES ASSUME NEW i \in 1 .. m + n, i \notin 1 .. m
               PROVE  \E j \in 1 .. n : i = m + j
    OBVIOUS
  <2>1. i - m \in 1 .. n /\ i = m + (i - m)
    BY <1>1
  <2> QED BY <2>1
<1>3. \A i \in 1 .. m, j \in 1 .. n : i \in 1 .. m + n /\ m + j \in 1 .. m + n /\ i # m + j
  BY <1>1
<1>4. Elems(u) = Elems(s) \cup Elems(t)
  <2>1. ASSUME NEW x \in Elems(u)
        PROVE  x \in Elems(s) \cup Elems(t)
    <3>1. PICK i \in 1 .. m + n : x = u[i]
      BY <1>1 DEF Elems
    <3> QED BY <1>1, <1>2, <3>1 DEF Elems
  <2>2. ASSUME NEW x \in Elems(s) \cup Elems(t)
        PROVE  x \in Elems(u)
    <3>1. CASE x \in Elems(s)
      <4>1. PICK i \in 1 .. m : x = s[i]
        BY <3>1 DEF Elems
      <4> QED BY <1>1, <1>3, <4>1 DEF Elems
    <3>2. CASE x \in Elems(t)
      <4>1. PICK i \in 1 .. n : x = t[i]
        BY <3>2 DEF Elems
      <4>2. m + i \in 1 .. m + n
        BY <1>1
      <4> QED BY <1>1, <4>1, <4>2 DEF Elems
    <3> QED BY <3>1, <3>2
  <2> QED BY <2>1, <2>2
<1>5. ASSUME OneEach(s), OneEach(t), Elems(s) \cap Elems(t) = {}
      PROVE  OneEach(u)
  <2> SUFFICES ASSUME NEW i \in 1 .. m + n, NEW j \in 1 .. m + n, u[i] = u[j]
               PROVE  i = j
    BY <1>1 DEF OneEach
  <2>1. CASE i \in 1 .. m /\ j \in 1 .. m
    BY <1>1, <1>5, <2>1 DEF OneEach
  <2>2. ASSUME NEW k \in 1 .. n, NEW l \in 1 .. n, i = m + k, j = m + l
        PROVE  i = j
    BY <1>1, <1>5, <2>2 DEF OneEach
  <2>3. \A k \in 1 .. m, l \in 1 .. n : s[k] # t[l]
    BY <1>5 DEF Elems
  <2> QED BY <1>1, <1>2, <2>1, <2>2, <2>3, SMTT(20)
<1>6. ASSUME OneEach(u)
      PROVE  OneEach(s) /\ OneEach(t) /\ Elems(s) \cap Elems(t) = {}
  <2>1. OneEach(s)
    BY <1>1, <1>3, <1>6 DEF OneEach
  <2>2. OneEach(t)
    <3> SUFFICES ASSUME NEW i \in 1 .. n, NEW j \in 1 .. n, t[i] = t[j]
                 PROVE  i = j
      BY DEF OneEach
    <3>1. m + i \in 1 .. m + n /\ m + j \in 1 .. m + n
      BY <1>1
    <3>2. m + i = m + j
      BY <1>1, <1>6, <3>1 DEF OneEach
    <3> QED BY <1>1, <3>2
  <2>3. ASSUME NEW x \in Elems(s), x \in Elems(t)
        PROVE  FALSE
    <3>1. PICK i \in 1 .. m : x = s[i]
      BY DEF Elems
    <3>2. PICK j \in 1 .. n : x = t[j]
      BY <2>3 DEF Elems
    <3>3. i \in 1 .. m + n /\ m + j \in 1 .. m + n /\ i # m + j /\ u[i] = u[m + j]
      BY <1>1, <1>3, <3>1, <3>2
    <3> QED BY <1>1, <1>6, <3>3 DEF OneEach
  <2> QED BY <2>1, <2>2, <2>3
<1> QED BY <1>4, <1>5, <1>6 DEF u

(* What is taken out of a sequence, from its head or from a place, is gone. *)
LEMMA ElemsTail ==
  ASSUME NEW T, NEW s \in Seq(T), s # <<>>, OneEach(s)
  PROVE  /\ OneEach(Tail(s)) /\ Elems(Tail(s)) = Elems(s) \ {Head(s)}
         /\ Head(s) \in Elems(s)
<1> DEFINE x == Head(s)
           r == Tail(s)
           one == Append(<<>>, x)
<1>1. x \in T /\ r \in Seq(T) /\ one \o r = <<>> \o s
  <2>1. <<>> \in Seq(T)
    OBVIOUS
  <2> QED BY <2>1, HeadMoves
<1> HIDE DEF x, r
<1>2. /\ one \in Seq(T) /\ Elems(one) = {x} /\ OneEach(one)
  <2> one \in Seq(T) /\ Len(one) = 1 /\ one[1] = x
    BY <1>1
  <2> HIDE DEF one
  <2> QED BY DEF Elems, OneEach
<1> HIDE DEF one
<1>3. one \o r = s
  BY <1>1, ConcatNone
<1>4. Elems(one \o r) = Elems(one) \cup Elems(r)
  BY <1>1, <1>2, ElemsConcat
<1>5. OneEach(one \o r) => OneEach(one) /\ OneEach(r) /\ Elems(one) \cap Elems(r) = {}
  BY <1>1, <1>2, ElemsConcat
<1> QED BY <1>2, <1>3, <1>4, <1>5 DEF x, r

(* What is taken out of its place is gone. *)
LEMMA ElemsTakenOut ==
  ASSUME NEW T, NEW s \in Seq(T), NEW i \in 1 .. Len(s), OneEach(s)
  PROVE  LET rest == SubSeq(s, 1, i - 1) \o SubSeq(s, i + 1, Len(s)) IN
         OneEach(rest) /\ Elems(rest) = Elems(s) \ {s[i]} /\ s[i] \in Elems(s)
<1> DEFINE before == SubSeq(s, 1, i - 1)
           behind == SubSeq(s, i + 1, Len(s))
           x == s[i]
           upto == Append(before, x)
<1>1. before \in Seq(T) /\ behind \in Seq(T) /\ x \in T /\ s = upto \o behind
  BY PlaceTakenOut
<1> HIDE DEF before, behind, x
<1>2. /\ upto \in Seq(T) /\ Elems(upto) = Elems(before) \cup {x}
      /\ OneEach(upto) <=> OneEach(before) /\ x \notin Elems(before)
  <2>1. Elems(Append(before, x)) = Elems(before) \cup {x}
    BY <1>1, ElemsAppend
  <2>2. OneEach(Append(before, x)) <=> OneEach(before) /\ x \notin Elems(before)
    BY <1>1, ElemsAppend
  <2>3. upto \in Seq(T)
    BY <1>1
  <2> QED BY <2>1, <2>2, <2>3
<1> HIDE DEF upto
<1>3. Elems(upto \o behind) = Elems(upto) \cup Elems(behind)
  BY <1>1, <1>2, ElemsConcat
<1>4. OneEach(upto \o behind) => OneEach(upto) /\ OneEach(behind) /\ Elems(upto) \cap Elems(behind) = {}
  BY <1>1, <1>2, ElemsConcat
<1>5. Elems(before \o behind) = Elems(before) \cup Elems(behind)
  BY <1>1, ElemsConcat
<1>6. OneEach(before) /\ OneEach(behind) /\ Elems(before) \cap Elems(behind) = {}
        => OneEach(before \o behind)
  BY <1>1, ElemsConcat
<1>7. OneEach(before \o behind) /\ Elems(before \o behind) = Elems(s) \ {x} /\ x \in Elems(s)
  BY <1>1, <1>2, <1>3, <1>4, <1>5, <1>6
<1> QED BY <1>7 DEF before, behind, x

(* What is kept of a sequence is in S, and still there once. *)
LEMMA ElemsOnly ==
  ASSUME NEW T, NEW s \in Seq(T), NEW S
  PROVE  /\ Elems(Only(s, S)) = Elems(s) \cap S
         /\ OneEach(s) => OneEach(Only(s, S))
<1> DEFINE Kept(u) == /\ Elems(Only(u, S)) = Elems(u) \cap S
                      /\ OneEach(u) => OneEach(Only(u, S))
           Good(n) == Kept(SubSeq(s, 1, n))
           G == {n \in 0 .. Len(s) : Good(n)}
<1>1. Good(0)
  <2>1. SubSeq(s, 1, 0) = <<>> /\ Only(<<>>, S) = <<>>
    BY PrefixFacts, OnlyOfNone
  <2>2. Kept(<<>>)
    BY <2>1, ElemsOfNone
  <2> HIDE DEF Kept
  <2> QED BY <2>1, <2>2
<1>2. ASSUME NEW u \in Seq(T), NEW x \in T, Kept(u)
      PROVE  Kept(Append(u, x))
  <2> DEFINE v == Only(u, S)
  <2>1. v \in Seq(T)
    BY OnlyType
  <2>2. Elems(Append(u, x)) = Elems(u) \cup {x}
        /\ (OneEach(Append(u, x)) <=> OneEach(u) /\ x \notin Elems(u))
    BY ElemsAppend
  <2>3. Only(Append(u, x), S) = IF x \in S THEN Append(v, x) ELSE v
    BY OnlyAppend
  <2>4. Elems(v) = Elems(u) \cap S /\ (OneEach(u) => OneEach(v))
    BY <1>2
  <2> HIDE DEF v
  <2>5. Elems(Append(v, x)) = Elems(v) \cup {x}
        /\ (OneEach(Append(v, x)) <=> OneEach(v) /\ x \notin Elems(v))
    BY <2>1, ElemsAppend
  <2>6. CASE x \in S
    BY <2>2, <2>3, <2>4, <2>5, <2>6
  <2>7. CASE x \notin S
    BY <2>2, <2>3, <2>4, <2>7
  <2> QED BY <2>6, <2>7
<1> HIDE DEF Kept
<1>3. ASSUME NEW n \in 1 .. Len(s), Good(n - 1)
      PROVE  Good(n)
  <2>1. n - 1 \in 0 .. Len(s)
    OBVIOUS
  <2>2. SubSeq(s, 1, n - 1) \in Seq(T) /\ s[n] \in T
        /\ SubSeq(s, 1, n) = Append(SubSeq(s, 1, n - 1), s[n])
    BY <2>1, PrefixFacts
  <2> QED BY <1>2, <1>3, <2>2
<1>4. 0 \in G /\ (\A n \in 1 .. Len(s) : n - 1 \in G => n \in G) /\ Len(s) \in Nat
  <2> HIDE DEF Good
  <2> QED BY <1>1, <1>3
<1>5. Len(s) \in G
  <2> HIDE DEF G
  <2> QED BY <1>4, Upwards
<1> QED BY <1>5, PrefixFacts DEF Kept

(* If nothing is in a sequence twice, it has as many places for S as elements
   in S. *)
LEMMA PlacesOfEach ==
  ASSUME NEW T, NEW s \in Seq(T), OneEach(s), NEW S
  PROVE  Cardinality({i \in 1 .. Len(s) : s[i] \in S}) = Cardinality(Elems(s) \cap S)
<1> DEFINE A == {i \in 1 .. Len(s) : s[i] \in S}
           B == Elems(s) \cap S
           f == [i \in A |-> s[i]]
<1>1. IsFiniteSet(A)
  <2>1. IsFiniteSet(1 .. Len(s))
    BY FS_Interval
  <2> QED BY <2>1, FS_Subset
<1>2. f \in [A -> B] /\ (\A i, j \in A : f[i] = f[j] => i = j) /\ \A b \in B : \E i \in A : f[i] = b
  BY DEF Elems, OneEach
<1>3. f \in Bijection(A, B)
  <2> HIDE DEF A, B, f
  <2> QED BY <1>2 DEF Bijection, Injection, Surjection, IsInjective
<1>4. ExistsBijection(A, B)
  <2> HIDE DEF A, B, f
  <2> QED BY <1>3 DEF ExistsBijection
<1> HIDE DEF A, B, f
<1>5. Cardinality(A) = Cardinality(B)
  BY <1>1, <1>4, FS_Bijection
<1> QED BY <1>5 DEF A, B

(* What a queue loses or gains leaves it a queue. *)
LEMMA QueueType ==
  ASSUME NEW T, NEW s \in Seq(T)
  PROVE  /\ s # <<>> => Head(s) \in T /\ Tail(s) \in Seq(T)
         /\ \A x \in T : Append(s, x) \in Seq(T)
  OBVIOUS

(* The elements of a queue that loses its head or gains a last one. *)
LEMMA ElemsOfQueue ==
  ASSUME NEW T, NEW s \in Seq(T)
  PROVE  /\ s # <<>> => (Head(s) \in Elems(s) /\ Elems(Tail(s)) \subseteq Elems(s))
         /\ \A x \in T : Elems(Append(s, x)) = Elems(s) \cup {x}
         /\ Elems(s) \subseteq T
<1>1. ASSUME s # <<>>
      PROVE  Head(s) \in Elems(s) /\ Elems(Tail(s)) \subseteq Elems(s)
  <2>1. /\ Head(s) = s[1] /\ 1 \in 1 .. Len(s) /\ Len(Tail(s)) = Len(s) - 1
        /\ \A i \in 1 .. Len(s) - 1 : Tail(s)[i] = s[i + 1] /\ i + 1 \in 1 .. Len(s)
    BY <1>1
  <2> QED
    BY <2>1 DEF Elems
<1>2. ASSUME NEW x \in T
      PROVE  Elems(Append(s, x)) = Elems(s) \cup {x}
  <2>1. /\ Len(Append(s, x)) = Len(s) + 1 /\ Len(s) \in Nat
        /\ \A i \in 1 .. Len(s) : Append(s, x)[i] = s[i]
        /\ Append(s, x)[Len(s) + 1] = x
    OBVIOUS
  <2>2. \A i \in 1 .. Len(s) + 1 : i \in 1 .. Len(s) \/ i = Len(s) + 1
    BY <2>1
  <2>3. /\ Len(s) + 1 \in 1 .. Len(s) + 1
        /\ \A i \in 1 .. Len(s) : i \in 1 .. Len(s) + 1
    BY <2>1
  <2>4. Elems(Append(s, x)) = {Append(s, x)[i] : i \in 1 .. Len(s) + 1}
    BY <2>1 DEF Elems
  <2> QED
    BY <2>1, <2>2, <2>3, <2>4 DEF Elems
<1>3. Elems(s) \subseteq T
  BY DEF Elems
<1> QED
  BY <1>1, <1>2, <1>3

(* A queue that holds everything once. *)
LEMMA OneEachOfQueue ==
  ASSUME NEW T, NEW s \in Seq(T), OneEach(s)
  PROVE  /\ s # <<>> => (Head(s) \notin Elems(Tail(s)) /\ OneEach(Tail(s)))
         /\ \A x \in T : x \notin Elems(s) => OneEach(Append(s, x))
<1>1. ASSUME s # <<>>
      PROVE  Head(s) \notin Elems(Tail(s)) /\ OneEach(Tail(s))
  BY <1>1, ElemsTail
<1>2. ASSUME NEW x \in T, x \notin Elems(s)
      PROVE  OneEach(Append(s, x))
  BY <1>2, ElemsAppend
<1> QED
  BY <1>1, <1>2
=============================================================================

----------------------------- MODULE BackendProofs ------------------------------
(***************************************************************************)
(* Proofs about the backend.  ContentStore: for any files, headings,        *)
(* relationships and number of compilations, what is compiled and served.   *)
(* BackendAccess and the limiter it implements: for any visitors, requests, *)
(* tiers and limits, and any clock of the pages that is behind by the       *)
(* margin at most.                                                          *)
(***************************************************************************)
EXTENDS BackendAccess, ContentStore, SequenceLemmas, TLAPS

-----------------------------------------------------------------------------
(* Compilation *)

(* A set of numbers up to n that is not empty has a greatest one. *)
LEMMA GreatestOf ==
  ASSUME NEW n \in Nat, NEW S, S \subseteq 0 .. n, S # {}
  PROVE  Max(S) \in S /\ \A i \in S : i <= Max(S)
<1> DEFINE D == {n - i : i \in S}
<1>1. D \subseteq Nat /\ D # {}
  <2>1. \A i \in S : n - i \in Nat
    OBVIOUS
  <2> QED BY <2>1
<1>2. PICK d \in D : \A e \in D : d <= e
  <2> HIDE DEF D
  <2> QED BY <1>1, LeastNatural
<1>3. PICK m \in S : d = n - m
  BY <1>2
<1>4. \A i \in S : m >= i
  <2> SUFFICES ASSUME NEW i \in S PROVE m >= i
    OBVIOUS
  <2>1. n - m <= n - i
    BY <1>2, <1>3
  <2> QED BY <2>1
<1>5. Max(S) \in S /\ \A i \in S : Max(S) >= i
  BY <1>4 DEF Max
<1> QED BY <1>5

(* The loop that pops the stack leaves the places up to the last of a smaller
   level. *)
LastBelow(stack, n, level) ==
  /\ n \in 0 .. Len(stack)
  /\ n # 0 => stack[n].level < level
  /\ \A k \in n + 1 .. Len(stack) : ~(stack[k].level < level)

(* Ancestors() cuts the stack behind the last level that is smaller. *)
LEMMA AncestorsAre ==
  ASSUME NEW T, NEW stack \in Seq(T), NEW level
  PROVE  \E n \in 0 .. Len(stack) :
           Ancestors(stack, level) = SubSeq(stack, 1, n) /\ LastBelow(stack, n, level)
<1> DEFINE smaller == {n \in DOMAIN stack : stack[n].level < level}
           S == {0} \union smaller
           n == Max(S)
<1>1. DOMAIN stack = 1 .. Len(stack) /\ Len(stack) \in Nat
  OBVIOUS
<1>2. S \subseteq 0 .. Len(stack) /\ S # {}
  BY <1>1
<1>3. n \in S /\ \A i \in S : i <= n
  <2> HIDE DEF S
  <2> QED BY <1>1, <1>2, GreatestOf
<1>4. Ancestors(stack, level) = SubSeq(stack, 1, n)
  BY DEF Ancestors
<1>5. n \in 0 .. Len(stack)
  BY <1>2, <1>3
<1>6. n # 0 => stack[n].level < level
  BY <1>3
<1>7. ASSUME NEW k \in n + 1 .. Len(stack), stack[k].level < level
      PROVE  FALSE
  <2>1. k \in 1 .. Len(stack)
    BY <1>1, <1>5
  <2>2. k \in S
    BY <1>1, <1>7, <2>1
  <2>3. k <= n /\ n + 1 <= k
    BY <1>1, <1>3, <1>5, <2>2
  <2> HIDE DEF n
  <2> QED BY <1>1, <1>5, <2>1, <2>3
<1>8. LastBelow(stack, n, level)
  <2> HIDE DEF n
  <2> QED BY <1>5, <1>6, <1>7 DEF LastBelow
<1> QED BY <1>4, <1>5, <1>8

(* What the loop over the headings has after each of them. *)
FirstAcc == [sections |-> <<>>, stack |-> <<>>, counters |-> [x \in {<<>>} |-> 0]]
OpenedUpTo(g, headings, n) ==
  g[0] = FirstAcc /\ \A k \in 1 .. n : g[k] = Opened(g[k - 1], headings[k])

(* The function that collectSections() defines exists. *)
LEMMA AccExists ==
  ASSUME NEW headings, Len(headings) \in Nat
  PROVE  \E g : /\ OpenedUpTo(g, headings, Len(headings))
                /\ collectSections(headings) = g[Len(headings)].sections
<1> DEFINE Step(x, i) == Opened(x, headings[i])
           Whole(g, n) == g = [i \in 0 .. n |-> IF i = 0 THEN FirstAcc ELSE Opened(g[i - 1], headings[i])]
           N == {n \in Nat : ~ \E g : Whole(g, n)}
<1>1. N = {}
  <2> SUFFICES ASSUME N # {} PROVE FALSE
    OBVIOUS
  <2>1. PICK n \in N : \A m \in N : n <= m
    <3>1. N \subseteq Nat
      OBVIOUS
    <3> HIDE DEF N
    <3> QED BY <3>1, LeastNatural
  <2>2. CASE n = 0
    <3> DEFINE f == [i \in 0 .. 0 |-> FirstAcc]
    <3>1. f = [i \in 0 .. 0 |-> IF i = 0 THEN FirstAcc ELSE Opened(f[i - 1], headings[i])]
      OBVIOUS
    <3> QED BY <2>1, <2>2, <3>1
  <2>3. CASE n # 0
    <3>1. n \in Nat /\ n - 1 \in Nat /\ n - 1 \notin N
      <4>1. n \in Nat /\ n - 1 \in Nat /\ ~(n <= n - 1)
        BY <2>1, <2>3
      <4> HIDE DEF N
      <4> QED BY <2>1, <4>1
    <3>2. PICK g : Whole(g, n - 1)
      BY <3>1
    <3> DEFINE f == [i \in 0 .. n |-> IF i = n THEN Step(g[n - 1], n) ELSE g[i]]
    <3>3. ASSUME NEW i \in 0 .. n
          PROVE  f[i] = IF i = 0 THEN FirstAcc ELSE Step(f[i - 1], i)
      <4>1. CASE i = n
        <5>1. f[i - 1] = g[n - 1]
          BY <3>1, <4>1
        <5> QED BY <2>3, <4>1, <5>1
      <4>2. CASE i # n /\ i = 0
        BY <3>1, <3>2, <4>2
      <4>3. CASE i # n /\ i # 0
        <5>1. i \in 0 .. n - 1 /\ i - 1 \in 0 .. n - 1 /\ i - 1 # n
          BY <3>1, <4>3
        <5>2. f[i - 1] = g[i - 1] /\ f[i] = g[i]
          BY <3>1, <4>3, <5>1
        <5>3. g[i] = Step(g[i - 1], i)
          BY <3>2, <4>3, <5>1
        <5> HIDE DEF f
        <5> QED BY <4>3, <5>2, <5>3
      <4> QED BY <4>1, <4>2, <4>3
    <3>4. f = [i \in 0 .. n |-> f[i]]
      OBVIOUS
    <3>5. Whole(f, n)
      <4> HIDE DEF f
      <4> QED BY <3>3, <3>4
    <3> QED BY <2>1, <3>5
  <2> QED BY <2>2, <2>3
<1> DEFINE acc == CHOOSE g : Whole(g, Len(headings))
<1>2. Whole(acc, Len(headings))
  <2>1. \E g : Whole(g, Len(headings))
    BY <1>1
  <2> HIDE DEF Whole
  <2> QED BY <2>1
<1>3. collectSections(headings) = acc[Len(headings)].sections
  BY DEF collectSections, FirstAcc
<1>4. OpenedUpTo(acc, headings, Len(headings))
  <2> HIDE DEF acc
  <2>1. /\ 0 \in 0 .. Len(headings)
        /\ \A i \in 1 .. Len(headings) : i \in 0 .. Len(headings) /\ i # 0
    OBVIOUS
  <2>2. acc[0] = FirstAcc
    BY <1>2, <2>1
  <2>3. ASSUME NEW i \in 1 .. Len(headings)
        PROVE  acc[i] = Opened(acc[i - 1], headings[i])
    BY <1>2, <2>1
  <2> QED BY <2>2, <2>3 DEF OpenedUpTo
<1> HIDE DEF acc
<1> QED BY <1>3, <1>4

(* The sections and the stack after the first n headings. *)
Levels == [level : Nat, path : Seq(Nat)]
Section == [title : Title, path : Seq(Nat), parent : Seq(Nat)]
AccType(a, n) ==
  /\ a = [sections |-> a.sections, stack |-> a.stack, counters |-> a.counters]
  /\ a.sections \in Seq(Section) /\ Len(a.sections) = n
  /\ a.stack \in Seq(Levels)

(* Each level of the stack is an earlier heading, in their order, and whatever
   heading is not there, one that is there came after it with a level no greater. *)
StackOf(h, a, headings, n) ==
  /\ h \in Seq(1 .. n) /\ Len(h) = Len(a.stack)
  /\ \A i, k \in 1 .. Len(h) : i < k => h[i] < h[k]
  /\ \A i \in 1 .. Len(h) : /\ a.stack[i].level = headings[h[i]].level
                            /\ a.stack[i].path = a.sections[h[i]].path
  /\ \A k \in 1 .. n : \E i \in 1 .. Len(h) : k <= h[i] /\ headings[h[i]].level <= headings[k].level

PathOf(sections, k) == IF k = 0 THEN <<>> ELSE sections[k].path

(* The counters know every path, and how far the paths below it have been
   counted. *)
CountersOf(a, n) ==
  /\ DOMAIN a.counters = {<<>>} \union {a.sections[k].path : k \in 1 .. n}
  /\ \A x \in DOMAIN a.counters : a.counters[x] \in Nat
  /\ \A k \in 1 .. n : \E c \in Nat :
       /\ a.sections[k].path = Append(a.sections[k].parent, c)
       /\ a.sections[k].parent \in DOMAIN a.counters
       /\ c <= a.counters[a.sections[k].parent]

SectionsOf(sections, headings, n) ==
  /\ \A k \in 1 .. n : /\ sections[k].title = headings[k].title
                       /\ sections[k].parent = PathOf(sections, Above(headings, k))
                       /\ sections[k].path # <<>>
  /\ \A i, k \in 1 .. n : sections[i].path = sections[k].path => i = k

AccInv(a, headings, n) ==
  /\ AccType(a, n) /\ CountersOf(a, n) /\ SectionsOf(a.sections, headings, n)
  /\ \E h : StackOf(h, a, headings, n)

Headings == Seq([level : Nat, title : Title])

(* The heading above is the nearest earlier one of a smaller level. *)
LEMMA AboveFacts ==
  ASSUME NEW headings \in Headings, NEW n \in 1 .. Len(headings)
  PROVE  /\ Above(headings, n) \in 0 .. n - 1
         /\ Above(headings, n) # 0 => headings[Above(headings, n)].level < headings[n].level
         /\ \A k \in 1 .. n - 1 : headings[k].level < headings[n].level => k <= Above(headings, n)
<1> DEFINE S == {0} \union {k \in 1 .. n - 1 : headings[k].level < headings[n].level}
<1>1. n \in Nat /\ n - 1 \in Nat /\ S \subseteq 0 .. n - 1 /\ S # {}
  OBVIOUS
<1>2. Max(S) \in S /\ \A i \in S : i <= Max(S)
  <2> HIDE DEF S
  <2> QED BY <1>1, GreatestOf
<1>3. Above(headings, n) = Max(S)
  BY DEF Above
<1> DEFINE m == Max(S)
<1> HIDE DEF m
<1>4. m \in S /\ (\A i \in S : i <= m) /\ Above(headings, n) = m
  BY <1>2, <1>3 DEF m
<1> QED BY <1>1, <1>4

(* What a heading consists of. *)
LEMMA LevelsAreNumbers ==
  ASSUME NEW headings \in Headings
  PROVE  /\ Len(headings) \in Nat
         /\ \A k \in 1 .. Len(headings) : /\ headings[k] \in [level : Nat, title : Title]
                                          /\ headings[k].level \in Nat
                                          /\ headings[k].title \in Title
<1> DEFINE T == [level : Nat, title : Title]
<1>1. headings \in Seq(T)
  BY DEF Headings
<1>2. \A x \in T : x.level \in Nat /\ x.title \in Title
  OBVIOUS
<1>3. Len(headings) \in Nat /\ \A k \in 1 .. Len(headings) : headings[k] \in T
  <2> HIDE DEF T
  <2> QED BY <1>1
<1> QED BY <1>2, <1>3

(* The heading above is found on the stack. *)
LEMMA AboveOnStack ==
  ASSUME NEW headings \in Headings, NEW n \in 1 .. Len(headings),
         NEW a, AccType(a, n - 1), NEW h, StackOf(h, a, headings, n - 1),
         NEW m, LastBelow(a.stack, m, headings[n].level)
  PROVE  Above(headings, n) = IF m = 0 THEN 0 ELSE h[m]
<1> DEFINE above == Above(headings, n)
<1>1. /\ above \in 0 .. n - 1
      /\ above # 0 => headings[above].level < headings[n].level
      /\ \A k \in 1 .. n - 1 : headings[k].level < headings[n].level => k <= above
  BY AboveFacts
<1>2. /\ Len(h) = Len(a.stack) /\ Len(h) \in Nat
      /\ \A i \in 1 .. Len(h) : h[i] \in 1 .. n - 1 /\ a.stack[i].level = headings[h[i]].level
      /\ \A i, k \in 1 .. Len(h) : i < k => h[i] < h[k]
      /\ \A k \in 1 .. n - 1 : \E i \in 1 .. Len(h) : k <= h[i] /\ headings[h[i]].level <= headings[k].level
  <2>1. h \in Seq(1 .. n - 1)
    BY DEF StackOf
  <2>2. Len(h) \in Nat /\ \A i \in 1 .. Len(h) : h[i] \in 1 .. n - 1
    BY <2>1
  <2>3. \A i \in 1 .. Len(h) : a.stack[i].level = headings[h[i]].level
    BY DEF StackOf
  <2>4. \A i, k \in 1 .. Len(h) : i < k => h[i] < h[k]
    BY DEF StackOf
  <2>5. \A k \in 1 .. n - 1 : \E i \in 1 .. Len(h) : k <= h[i] /\ headings[h[i]].level <= headings[k].level
    BY DEF StackOf
  <2>6. Len(h) = Len(a.stack)
    BY DEF StackOf
  <2> QED BY <2>2, <2>3, <2>4, <2>5, <2>6
<1>3. /\ Len(headings) \in Nat /\ n \in Nat
      /\ \A k \in 1 .. Len(headings) : headings[k].level \in Nat
  BY LevelsAreNumbers
<1>4. \A i \in 1 .. Len(h) : /\ h[i] \in 1 .. Len(headings) /\ h[i] \in Nat
                            /\ headings[h[i]].level \in Nat
  <2> SUFFICES ASSUME NEW i \in 1 .. Len(h)
               PROVE  h[i] \in 1 .. Len(headings) /\ h[i] \in Nat /\ headings[h[i]].level \in Nat
    OBVIOUS
  <2>1. h[i] \in 1 .. n - 1
    BY <1>2
  <2>2. h[i] \in 1 .. Len(headings) /\ h[i] \in Nat
    BY <1>3, <2>1
  <2> QED BY <1>3, <2>2
<1>7. /\ m \in 0 .. Len(h)
      /\ m # 0 => a.stack[m].level < headings[n].level
      /\ \A k \in m + 1 .. Len(h) : ~(headings[h[k]].level < headings[n].level)
  <2>1. /\ m \in 0 .. Len(a.stack)
        /\ m # 0 => a.stack[m].level < headings[n].level
        /\ \A k \in m + 1 .. Len(a.stack) : ~(a.stack[k].level < headings[n].level)
    BY DEF LastBelow
  <2>2. \A k \in m + 1 .. Len(h) : k \in 1 .. Len(h)
    BY <1>2, <2>1
  <2> QED BY <1>2, <2>1, <2>2
<1> HIDE DEF above
<1>5. CASE m = 0
  <2>1. ASSUME above # 0 PROVE FALSE
    <3>1. PICK i \in 1 .. Len(h) : above <= h[i] /\ headings[h[i]].level <= headings[above].level
      BY <1>1, <1>2, <2>1
    <3>2. headings[h[i]].level < headings[n].level
      <4>1. above \in 1 .. Len(headings) /\ headings[above].level < headings[n].level
        BY <1>1, <1>3, <2>1
      <4>2. headings[h[i]].level \in Nat /\ headings[above].level \in Nat /\ headings[n].level \in Nat
        BY <1>3, <1>4, <4>1
      <4> QED BY <3>1, <4>1, <4>2
    <3>3. i \in m + 1 .. Len(h)
      BY <1>2, <1>5
    <3> QED BY <1>7, <3>2, <3>3
  <2> QED BY <1>5, <2>1 DEF above
<1>6. CASE m # 0
  <2>1. m \in 1 .. Len(h) /\ h[m] \in 1 .. n - 1 /\ headings[h[m]].level < headings[n].level
    <3>1. m \in 1 .. Len(h)
      BY <1>2, <1>6, <1>7
    <3>2. a.stack[m].level < headings[n].level
      BY <1>6, <1>7
    <3> QED BY <1>2, <3>1, <3>2
  <2>2. h[m] <= above /\ above \in 1 .. n - 1
    BY <1>1, <2>1
  <2>3. ASSUME h[m] # above PROVE FALSE
    <3>1. PICK i \in 1 .. Len(h) : above <= h[i] /\ headings[h[i]].level <= headings[above].level
      BY <1>2, <2>2
    <3>2. headings[h[i]].level < headings[n].level
      <4>1. above \in 1 .. Len(headings) /\ headings[above].level < headings[n].level
        BY <1>1, <1>3, <2>2
      <4>2. headings[h[i]].level \in Nat /\ headings[above].level \in Nat /\ headings[n].level \in Nat
        BY <1>3, <1>4, <4>1
      <4> QED BY <3>1, <4>1, <4>2
    <3>3. h[m] < h[i] /\ i # m
      <4>1. h[i] \in Nat /\ h[m] \in Nat /\ above \in Nat
        BY <1>4, <2>1, <2>2
      <4>2. h[m] < h[i]
        BY <2>2, <2>3, <3>1, <4>1
      <4> QED BY <4>1, <4>2
    <3>4. i \in m + 1 .. Len(h)
      <4>1. ~(i < m)
        <5>1. i < m => h[i] < h[m]
          BY <1>2, <2>1
        <5> QED BY <1>4, <2>1, <3>3, <5>1
      <4> QED BY <1>2, <2>1, <3>3, <4>1
    <3> QED BY <1>7, <3>2, <3>4
  <2> QED BY <1>6, <2>3 DEF above
<1> QED BY <1>5, <1>6

(* Facts of a sequence that gets one more. *)
LEMMA AppendPlaces ==
  ASSUME NEW T, NEW s \in Seq(T), NEW x \in T
  PROVE  /\ Append(s, x) \in Seq(T) /\ Len(Append(s, x)) = Len(s) + 1
         /\ \A i \in 1 .. Len(s) : Append(s, x)[i] = s[i]
         /\ Append(s, x)[Len(s) + 1] = x
  OBVIOUS

(* What has been appended can be taken apart again. *)
LEMMA AppendInjective ==
  ASSUME NEW T, NEW s \in Seq(T), NEW t \in Seq(T), NEW x \in T, NEW y \in T,
         Append(s, x) = Append(t, y)
  PROVE  s = t /\ x = y
<1>1. Len(s) + 1 = Len(t) + 1
  BY AppendPlaces
<1>2. Len(s) = Len(t) /\ Len(s) \in Nat
  BY <1>1
<1>3. x = y
  BY <1>2, AppendPlaces
<1>4. \A i \in 1 .. Len(s) : s[i] = t[i]
  BY <1>2, AppendPlaces
<1> QED BY <1>2, <1>3, <1>4, SamePlaces

(* One heading. *)
LEMMA OpenedKeeps ==
  ASSUME NEW headings \in Headings, NEW n \in 1 .. Len(headings),
         NEW a, AccInv(a, headings, n - 1)
  PROVE  AccInv(Opened(a, headings[n]), headings, n)
<1> DEFINE heading == headings[n]
           stack == Ancestors(a.stack, heading.level)
           parent == IF stack = <<>> THEN <<>> ELSE Last(stack).path
           count == a.counters[parent] + 1
           path == Append(parent, count)
           section == [title |-> heading.title, path |-> path, parent |-> parent]
           top == [level |-> heading.level, path |-> path]
           b == Opened(a, headings[n])
<1>1. /\ Len(headings) \in Nat /\ n \in Nat /\ n - 1 \in Nat
      /\ heading.level \in Nat /\ heading.title \in Title
      /\ \A k \in 1 .. Len(headings) : headings[k].level \in Nat
  BY LevelsAreNumbers
<1>2. /\ a.sections \in Seq(Section) /\ Len(a.sections) = n - 1
      /\ a.stack \in Seq(Levels)
  BY DEF AccInv, AccType
<1>3. PICK h : StackOf(h, a, headings, n - 1)
  BY DEF AccInv
<1>4. PICK m \in 0 .. Len(a.stack) :
        stack = SubSeq(a.stack, 1, m) /\ LastBelow(a.stack, m, heading.level)
  BY <1>2, AncestorsAre
<1> HIDE DEF stack
<1>5. Above(headings, n) = IF m = 0 THEN 0 ELSE h[m]
  <2>1. AccType(a, n - 1)
    BY DEF AccInv
  <2>2. LastBelow(a.stack, m, headings[n].level)
    BY <1>4
  <2> QED BY <1>3, <2>1, <2>2, AboveOnStack
<1>6. /\ h \in Seq(1 .. n - 1) /\ Len(h) = Len(a.stack) /\ Len(h) \in Nat
      /\ \A i \in 1 .. Len(h) : h[i] \in 1 .. n - 1
  <2>1. h \in Seq(1 .. n - 1) /\ Len(h) = Len(a.stack)
    BY <1>3 DEF StackOf
  <2> QED BY <2>1
<1>7. parent = PathOf(a.sections, Above(headings, n))
  <2>1. CASE m = 0
    <3>1. stack = <<>>
      BY <1>2, <1>4, <2>1, PrefixFacts
    <3> QED BY <1>5, <2>1, <3>1 DEF PathOf
  <2>2. CASE m # 0
    <3>1. /\ stack \in Seq(Levels) /\ Len(stack) = m
          /\ \A i \in 1 .. m : stack[i] = a.stack[i]
      BY <1>2, <1>4, FrontAndRest
    <3>2. m \in 1 .. Len(h) /\ m \in 1 .. m
      BY <1>6, <2>2
    <3>3. stack # <<>> /\ Last(stack) = a.stack[m]
      BY <3>1, <3>2, <2>2 DEF Last
    <3>4. a.stack[m].path = a.sections[h[m]].path
      BY <1>3, <3>2 DEF StackOf
    <3>5. h[m] # 0
      BY <1>6, <3>2
    <3> QED BY <1>5, <2>2, <3>3, <3>4, <3>5 DEF PathOf
  <2> QED BY <2>1, <2>2
<1>8. parent \in Seq(Nat) /\ parent \in DOMAIN a.counters /\ a.counters[parent] \in Nat
  <2>1. Above(headings, n) \in 0 .. n - 1
    BY AboveFacts
  <2>2. parent = <<>> \/ \E k \in 1 .. n - 1 : parent = a.sections[k].path
    BY <1>1, <1>7, <2>1 DEF PathOf
  <2>3. \A k \in 1 .. n - 1 : a.sections[k].path \in Seq(Nat)
    <3>1. \A k \in 1 .. n - 1 : a.sections[k] \in Section
      BY <1>2
    <3> QED BY <3>1 DEF Section
  <2>4. <<>> \in Seq(Nat)
    OBVIOUS
  <2>5. /\ DOMAIN a.counters = {<<>>} \union {a.sections[k].path : k \in 1 .. n - 1}
        /\ \A x \in DOMAIN a.counters : a.counters[x] \in Nat
    BY DEF AccInv, CountersOf
  <2> HIDE DEF parent
  <2>6. parent \in DOMAIN a.counters
    BY <2>2, <2>5
  <2> QED BY <2>2, <2>3, <2>4, <2>5, <2>6
<1> HIDE DEF parent
<1>9. count \in Nat /\ count = a.counters[parent] + 1 /\ path \in Seq(Nat) /\ path # <<>>
      /\ path = Append(parent, count)
  <2>1. count \in Nat
    BY <1>8
  <2> HIDE DEF count
  <2>2. path \in Seq(Nat) /\ Len(path) = Len(parent) + 1 /\ Len(parent) \in Nat
    BY <1>8, <2>1, AppendPlaces
  <2>3. path # <<>>
    <3> HIDE DEF path
    <3>1. path = <<>> => Len(path) = 0
      OBVIOUS
    <3> QED BY <2>2, <3>1
  <2> QED BY <2>1, <2>2, <2>3 DEF count
<1> HIDE DEF count, path
<1>10. b = [sections |-> Append(a.sections, section), stack |-> Append(stack, top),
            counters |-> [x \in DOMAIN a.counters \union {path} |->
                            IF x = path THEN 0 ELSE IF x = parent THEN count ELSE a.counters[x]]]
  BY DEF Opened, parent, count, path, stack
<1>11. section \in Section /\ top \in Levels
  BY <1>1, <1>8, <1>9 DEF Section, Levels
<1>12. /\ section.title = heading.title /\ section.path = path /\ section.parent = parent
       /\ top.level = heading.level /\ top.path = path
  OBVIOUS
<1> HIDE DEF b, section, top
<1> DEFINE ss == b.sections
<1>13. /\ ss \in Seq(Section) /\ Len(ss) = n
       /\ \A k \in 1 .. n - 1 : ss[k] = a.sections[k]
       /\ ss[n] = section
  <2>1. ss = Append(a.sections, section)
    BY <1>10
  <2> QED BY <1>1, <1>2, <1>11, <2>1, AppendPlaces
<1>14. /\ stack \in Seq(Levels) /\ Len(stack) = m /\ m \in Nat
       /\ \A i \in 1 .. m : stack[i] = a.stack[i]
  <2>1. stack = SubSeq(a.stack, 1, m) /\ m \in 0 .. Len(a.stack) /\ a.stack \in Seq(Levels)
    BY <1>2, <1>4
  <2>2. m \in Nat
    BY <1>2
  <2> QED BY <2>1, <2>2, FrontAndRest
<1>15. /\ b.stack \in Seq(Levels) /\ Len(b.stack) = m + 1
       /\ \A i \in 1 .. m : b.stack[i] = a.stack[i]
       /\ b.stack[m + 1] = top
  <2>1. b.stack = Append(stack, top)
    BY <1>10
  <2> QED BY <1>11, <1>14, <2>1, AppendPlaces
<1>16. AccType(b, n)
  <2>1. b = [sections |-> b.sections, stack |-> b.stack, counters |-> b.counters]
    BY <1>10
  <2> QED BY <1>13, <1>15, <2>1 DEF AccType
<1>17. /\ DOMAIN a.counters = {<<>>} \union {a.sections[k].path : k \in 1 .. n - 1}
       /\ \A x \in DOMAIN a.counters : a.counters[x] \in Nat
       /\ \A k \in 1 .. n - 1 : \E c \in Nat :
            /\ a.sections[k].path = Append(a.sections[k].parent, c)
            /\ a.sections[k].parent \in DOMAIN a.counters
            /\ c <= a.counters[a.sections[k].parent]
  BY DEF AccInv, CountersOf
<1>18. \A k \in 1 .. n - 1 : a.sections[k].path \in Seq(Nat) /\ a.sections[k].parent \in Seq(Nat)
  <2>1. \A k \in 1 .. n - 1 : a.sections[k] \in Section
    BY <1>2
  <2> QED BY <2>1 DEF Section
<1>19. ASSUME NEW k \in 1 .. n - 1
       PROVE  a.sections[k].path # path
  <2> SUFFICES ASSUME a.sections[k].path = path PROVE FALSE
    OBVIOUS
  <2>1. PICK c \in Nat : /\ a.sections[k].path = Append(a.sections[k].parent, c)
                        /\ a.sections[k].parent \in DOMAIN a.counters
                        /\ c <= a.counters[a.sections[k].parent]
    BY <1>17
  <2>2. a.sections[k].parent = parent /\ c = count
    <3> DEFINE q == a.sections[k].parent
    <3>1. q \in Seq(Nat) /\ parent \in Seq(Nat) /\ count \in Nat /\ Append(q, c) = Append(parent, count)
      BY <1>8, <1>9, <1>18, <2>1
    <3> HIDE DEF q
    <3>2. q = parent /\ c = count
      BY <3>1, AppendInjective, SMTT(30)
    <3> QED BY <3>2 DEF q
  <2> QED BY <1>8, <1>9, <2>1, <2>2
<1>20. path \notin DOMAIN a.counters
  BY <1>9, <1>17, <1>19
<1> DEFINE cs == b.counters
<1>21. /\ DOMAIN cs = DOMAIN a.counters \union {path}
       /\ \A x \in DOMAIN a.counters : cs[x] = IF x = parent THEN count ELSE a.counters[x]
       /\ cs[path] = 0
  <2>1. cs = [x \in DOMAIN a.counters \union {path} |->
                IF x = path THEN 0 ELSE IF x = parent THEN count ELSE a.counters[x]]
    BY <1>10
  <2> HIDE DEF cs
  <2> QED BY <1>20, <2>1
<1>22. CountersOf(b, n)
  <2>1. DOMAIN cs = {<<>>} \union {ss[k].path : k \in 1 .. n}
    <3>1. {ss[k].path : k \in 1 .. n} = {a.sections[k].path : k \in 1 .. n - 1} \union {path}
      <4> HIDE DEF ss
      <4>1. \A k \in 1 .. n : k \in 1 .. n - 1 \/ k = n
        BY <1>1
      <4>2. n \in 1 .. n /\ \A k \in 1 .. n - 1 : k \in 1 .. n
        BY <1>1
      <4> QED BY <1>12, <1>13, <4>1, <4>2
    <3> HIDE DEF ss, cs
    <3> QED BY <1>17, <1>21, <3>1
  <2>2. \A x \in DOMAIN cs : cs[x] \in Nat
    <3> HIDE DEF cs
    <3> SUFFICES ASSUME NEW x \in DOMAIN cs PROVE cs[x] \in Nat
      OBVIOUS
    <3>1. CASE x = path
      BY <1>21, <3>1
    <3>2. CASE x # path
      <4>1. x \in DOMAIN a.counters
        BY <1>21, <3>2
      <4> QED BY <1>9, <1>17, <1>21, <4>1
    <3> QED BY <3>1, <3>2
  <2>3. ASSUME NEW k \in 1 .. n
        PROVE  \E c \in Nat : /\ ss[k].path = Append(ss[k].parent, c)
                              /\ ss[k].parent \in DOMAIN cs
                              /\ c <= cs[ss[k].parent]
    <3> HIDE DEF ss, cs
    <3>1. CASE k = n
      <4>1. parent \in DOMAIN cs /\ cs[parent] = count
        BY <1>8, <1>21
      <4>2. ss[k].path = path /\ ss[k].parent = parent
        BY <1>12, <1>13, <3>1
      <4>3. count \in Nat /\ count <= count /\ path = Append(parent, count)
        BY <1>9
      <4>4. /\ ss[k].path = Append(ss[k].parent, count) /\ ss[k].parent \in DOMAIN cs
            /\ count <= cs[ss[k].parent]
        BY <4>1, <4>2, <4>3
      <4> QED BY <4>3, <4>4
    <3>2. CASE k # n
      <4>1. k \in 1 .. n - 1
        BY <1>1, <3>2
      <4>2. ss[k] = a.sections[k]
        BY <1>13, <4>1
      <4>3. PICK c \in Nat : /\ a.sections[k].path = Append(a.sections[k].parent, c)
                            /\ a.sections[k].parent \in DOMAIN a.counters
                            /\ c <= a.counters[a.sections[k].parent]
        BY <1>17, <4>1
      <4>4. c <= cs[ss[k].parent]
        <5>1. CASE ss[k].parent = parent
          <6>1. cs[ss[k].parent] = a.counters[parent] + 1
            BY <1>8, <1>9, <1>21, <5>1
          <6> QED BY <1>8, <4>2, <4>3, <5>1, <6>1
        <5>2. CASE ss[k].parent # parent
          BY <1>21, <4>2, <4>3, <5>2
        <5> QED BY <5>1, <5>2
      <4> QED BY <1>21, <4>2, <4>3, <4>4
    <3> QED BY <3>1, <3>2
  <2> QED BY <2>1, <2>2, <2>3 DEF CountersOf
<1>23. SectionsOf(ss, headings, n)
  <2>1. /\ \A k \in 1 .. n - 1 : /\ a.sections[k].title = headings[k].title
                                /\ a.sections[k].parent = PathOf(a.sections, Above(headings, k))
                                /\ a.sections[k].path # <<>>
        /\ \A i, k \in 1 .. n - 1 : a.sections[i].path = a.sections[k].path => i = k
    BY DEF AccInv, SectionsOf
  <2> HIDE DEF ss
  <2>2. ASSUME NEW k \in 1 .. n
        PROVE  PathOf(ss, Above(headings, k)) = PathOf(a.sections, Above(headings, k))
    <3>1. k \in 1 .. Len(headings)
      BY <1>1
    <3>2. Above(headings, k) \in 0 .. k - 1
      BY <3>1, AboveFacts
    <3>3. Above(headings, k) = 0 \/ Above(headings, k) \in 1 .. n - 1
      BY <1>1, <3>2
    <3> QED BY <1>13, <3>3 DEF PathOf
  <2>3. ASSUME NEW k \in 1 .. n
        PROVE  /\ ss[k].title = headings[k].title
               /\ ss[k].parent = PathOf(ss, Above(headings, k))
               /\ ss[k].path # <<>>
    <3>1. CASE k = n
      <4>1. ss[k].title = headings[k].title
        BY <1>12, <1>13, <3>1
      <4>2. ss[k].parent = PathOf(ss, Above(headings, k))
        BY <1>7, <1>12, <1>13, <2>2, <3>1
      <4>3. ss[k].path # <<>>
        BY <1>9, <1>12, <1>13, <3>1
      <4> QED BY <4>1, <4>2, <4>3
    <3>2. CASE k # n
      <4>1. k \in 1 .. n - 1
        BY <1>1, <3>2
      <4> QED BY <1>13, <2>1, <2>2, <4>1
    <3> QED BY <3>1, <3>2
  <2>4. ASSUME NEW i \in 1 .. n, NEW k \in 1 .. n, ss[i].path = ss[k].path
        PROVE  i = k
    <3>1. \A l \in 1 .. n : l = n \/ l \in 1 .. n - 1
      BY <1>1
    <3>2. ss[n].path = path /\ \A l \in 1 .. n - 1 : ss[l].path = a.sections[l].path
      BY <1>12, <1>13
    <3> QED BY <1>19, <2>1, <2>4, <3>1, <3>2
  <2> QED BY <2>3, <2>4 DEF SectionsOf
<1> DEFINE j == Append(SubSeq(h, 1, m), n)
<1>24. /\ j \in Seq(1 .. n) /\ Len(j) = m + 1
       /\ \A i \in 1 .. m : j[i] = h[i]
       /\ j[m + 1] = n
  <2> DEFINE f == SubSeq(h, 1, m)
  <2>1. m \in 0 .. Len(h)
    BY <1>6
  <2>2. h \in Seq(1 .. n)
    BY <1>1, <1>6
  <2>3. f \in Seq(1 .. n) /\ Len(f) = m /\ \A i \in 1 .. m : f[i] = h[i]
    BY <2>1, <2>2, FrontAndRest
  <2> HIDE DEF f
  <2>4. n \in 1 .. n
    BY <1>1
  <2>5. /\ Append(f, n) \in Seq(1 .. n) /\ Len(Append(f, n)) = m + 1
        /\ \A i \in 1 .. m : Append(f, n)[i] = f[i]
        /\ Append(f, n)[m + 1] = n
    BY <2>3, <2>4, AppendPlaces
  <2> QED BY <2>3, <2>5 DEF f
<1> HIDE DEF j
<1>25. \A i \in 1 .. m + 1 : i = m + 1 \/ i \in 1 .. m
  BY <1>14
<1>26. m \in 0 .. Len(h) /\ \A i \in 1 .. m : i \in 1 .. Len(h) /\ h[i] \in 1 .. n - 1
  BY <1>6
<1>27. StackOf(j, b, headings, n)
  <2>1. \A i, k \in 1 .. Len(j) : i < k => j[i] < j[k]
    <3> SUFFICES ASSUME NEW i \in 1 .. m + 1, NEW k \in 1 .. m + 1, i < k
                 PROVE  j[i] < j[k]
      BY <1>24
    <3>1. i \in 1 .. m
      BY <1>14
    <3>2. CASE k = m + 1
      BY <1>1, <1>24, <1>26, <3>1, <3>2
    <3>3. CASE k \in 1 .. m
      BY <1>3, <1>24, <1>26, <3>1, <3>3 DEF StackOf
    <3> QED BY <1>25, <3>2, <3>3
  <2>2. ASSUME NEW i \in 1 .. Len(j)
        PROVE  b.stack[i].level = headings[j[i]].level /\ b.stack[i].path = ss[j[i]].path
    <3>1. CASE i = m + 1
      BY <1>12, <1>13, <1>15, <1>24, <3>1
    <3>2. CASE i \in 1 .. m
      <4>1. a.stack[i].level = headings[h[i]].level /\ a.stack[i].path = a.sections[h[i]].path
        BY <1>3, <1>26, <3>2 DEF StackOf
      <4> QED BY <1>13, <1>15, <1>24, <1>26, <3>2, <4>1
    <3> QED BY <1>24, <1>25, <3>1, <3>2
  <2>3. ASSUME NEW k \in 1 .. n
        PROVE  \E i \in 1 .. Len(j) : k <= j[i] /\ headings[j[i]].level <= headings[k].level
    <3>1. m + 1 \in 1 .. Len(j) /\ j[m + 1] = n /\ k <= n
      BY <1>1, <1>14, <1>24
    <3>2. CASE k = n
      BY <1>1, <3>1, <3>2
    <3>3. CASE k # n
      <4>1. k \in 1 .. n - 1
        BY <1>1, <3>3
      <4>2. PICK i \in 1 .. Len(h) : k <= h[i] /\ headings[h[i]].level <= headings[k].level
        BY <1>3, <4>1 DEF StackOf
      <4>3. CASE i \in 1 .. m
        <5>1. i \in 1 .. Len(j)
          BY <1>14, <1>24, <4>3
        <5> QED BY <1>24, <4>2, <4>3, <5>1
      <4>4. CASE i \notin 1 .. m
        <5>1. i \in m + 1 .. Len(a.stack)
          BY <1>6, <1>14, <4>4
        <5>2. ~(headings[h[i]].level < headings[n].level)
          <6>1. ~(a.stack[i].level < headings[n].level)
            BY <1>4, <5>1 DEF LastBelow
          <6> QED BY <1>3, <4>2, <6>1 DEF StackOf
        <5>3. /\ h[i] \in 1 .. Len(headings) /\ k \in 1 .. Len(headings)
          <6>1. h[i] \in 1 .. n - 1
            BY <1>6, <4>2
          <6> QED BY <1>1, <4>1, <6>1
        <5>4. headings[n].level <= headings[k].level
          <6>1. headings[h[i]].level \in Nat /\ headings[n].level \in Nat /\ headings[k].level \in Nat
            BY <1>1, <5>3
          <6> QED BY <4>2, <5>2, <6>1
        <5> QED BY <3>1, <5>4
      <4> QED BY <4>3, <4>4
    <3> QED BY <3>2, <3>3
  <2> QED BY <1>15, <1>24, <2>1, <2>2, <2>3 DEF StackOf
<1> QED BY <1>16, <1>22, <1>23, <1>27 DEF AccInv, b

(* What the sections of a file are. *)
LEMMA SectionsAre ==
  ASSUME NEW headings \in Headings
  PROVE  /\ collectSections(headings) \in Seq(Section)
         /\ Len(collectSections(headings)) = Len(headings)
         /\ SectionsOf(collectSections(headings), headings, Len(headings))
<1> DEFINE n == Len(headings)
<1>1. n \in Nat
  BY LevelsAreNumbers
<1>2. PICK g : /\ OpenedUpTo(g, headings, n)
               /\ collectSections(headings) = g[n].sections
  BY <1>1, AccExists
<1>3. g[0] = FirstAcc /\ \A k \in 1 .. n : g[k] = Opened(g[k - 1], headings[k])
  BY <1>2 DEF OpenedUpTo
<1> DEFINE G == {k \in 0 .. n : AccInv(g[k], headings, k)}
<1>4. AccInv(FirstAcc, headings, 0)
  <2> DEFINE a == FirstAcc
  <2>1. a.sections = <<>> /\ a.stack = <<>> /\ a.counters = [x \in {<<>>} |-> 0]
    BY DEF FirstAcc
  <2>2. a = [sections |-> a.sections, stack |-> a.stack, counters |-> a.counters]
    BY DEF FirstAcc
  <2> HIDE DEF a
  <2>3. AccType(a, 0)
    BY <2>1, <2>2 DEF AccType
  <2>4. CountersOf(a, 0)
    <3>1. 1 .. 0 = {}
      OBVIOUS
    <3>2. DOMAIN a.counters = {<<>>} /\ a.counters[<<>>] = 0
      BY <2>1
    <3> QED BY <3>1, <3>2 DEF CountersOf
  <2>5. SectionsOf(a.sections, headings, 0)
    BY DEF SectionsOf
  <2>6. StackOf(<<>>, a, headings, 0)
    <3>1. <<>> \in Seq(1 .. 0) /\ Len(<<>>) = 0
      OBVIOUS
    <3> QED BY <2>1, <3>1 DEF StackOf
  <2> QED BY <2>3, <2>4, <2>5, <2>6 DEF AccInv, a
<1>5. \A k \in 1 .. n : k - 1 \in G => k \in G
  <2> SUFFICES ASSUME NEW k \in 1 .. n, k - 1 \in G PROVE k \in G
    BY DEF G
  <2>1. AccInv(Opened(g[k - 1], headings[k]), headings, k)
    BY OpenedKeeps
  <2> QED BY <1>1, <1>3, <2>1
<1>6. 0 \in G
  BY <1>1, <1>3, <1>4
<1>7. n \in G
  <2> HIDE DEF G, n
  <2> QED BY <1>1, <1>5, <1>6, Upwards
<1>8. AccInv(g[n], headings, n)
  BY <1>7
<1> QED BY <1>2, <1>8 DEF AccInv, AccType

(* Two names for the elements of a sequence. *)
LEMMA ToSetIsElems ==
  ASSUME NEW T, NEW s \in Seq(T)
  PROVE  ToSet(s) = Elems(s) /\ DOMAIN s = 1 .. Len(s) /\ Len(s) \in Nat
  BY DEF ToSet, Elems

(* The blocks of a file with n sections. *)
GoodBlocks(blocks, sections, document, n) ==
  /\ blocks = [i \in 1 .. n |-> BlockOf(sections[i], sections, document)]
  /\ Len(blocks) = n
  /\ \A i \in 1 .. n :
       /\ blocks[i].id = <<document, sections[i].path>>
       /\ blocks[i].title = sections[i].title
       /\ blocks[i].document = document
       /\ blocks[i].parent = IF sections[i].parent = <<>> THEN Null
                             ELSE <<document, sections[i].parent>>
       /\ ToSet(blocks[i].children)
            = {<<document, sections[k].path>> :
                 k \in {l \in 1 .. n : sections[l].parent = sections[i].path}}

(* compileFile() makes a block of every section. *)
LEMMA BlocksAre ==
  ASSUME NEW path \in Path, NEW file, file.headings \in Headings
  PROVE  GoodBlocks(compileFile(path, file).blocks, collectSections(file.headings),
                    deriveDocumentId[path], Len(file.headings))
<1> DEFINE headings == file.headings
           sections == collectSections(headings)
           document == deriveDocumentId[path]
           blocks == compileFile(path, file).blocks
<1>1. /\ sections \in Seq(Section) /\ Len(sections) = Len(headings)
      /\ Len(headings) \in Nat
  BY SectionsAre, LevelsAreNumbers
<1>2. blocks = [i \in DOMAIN sections |-> BlockOf(sections[i], sections, document)]
  BY DEF compileFile
<1> HIDE DEF sections, blocks
<1>3. DOMAIN sections = 1 .. Len(headings)
  BY <1>1
<1>4. blocks = [i \in 1 .. Len(headings) |-> BlockOf(sections[i], sections, document)]
  BY <1>2, <1>3
<1>5. Len(blocks) = Len(headings)
  BY <1>1, <1>4
<1>6. ASSUME NEW i \in 1 .. Len(headings)
      PROVE  /\ blocks[i].id = <<document, sections[i].path>>
             /\ blocks[i].title = sections[i].title
             /\ blocks[i].document = document
             /\ blocks[i].parent = IF sections[i].parent = <<>> THEN Null
                                   ELSE <<document, sections[i].parent>>
  <2>1. blocks[i] = BlockOf(sections[i], sections, document)
    BY <1>4
  <2> QED BY <2>1 DEF BlockOf, deriveBlockId
<1>7. ASSUME NEW i \in 1 .. Len(headings)
      PROVE  ToSet(blocks[i].children)
               = {<<document, sections[k].path>> :
                    k \in {n \in 1 .. Len(headings) : sections[n].parent = sections[i].path}}
  <2> DEFINE S == {s \in ToSet(sections) : s.parent = sections[i].path}
             below == Only(sections, S)
  <2>1. blocks[i].children = [k \in DOMAIN below |-> <<document, below[k].path>>]
    <3>1. blocks[i] = BlockOf(sections[i], sections, document)
      BY <1>4
    <3> QED BY <3>1 DEF BlockOf, deriveBlockId
  <2>2. ToSet(sections) = {sections[k] : k \in 1 .. Len(headings)}
    BY <1>3 DEF ToSet
  <2>3. below \in Seq(Section) /\ Elems(below) = Elems(sections) \cap S
    BY <1>1, OnlyType, ElemsOnly
  <2>4. Elems(sections) = ToSet(sections)
    BY <1>1, ToSetIsElems
  <2>5. Elems(below) = {sections[k] : k \in {n \in 1 .. Len(headings) : sections[n].parent = sections[i].path}}
    <3> HIDE DEF below
    <3> QED BY <2>2, <2>3, <2>4
  <2> HIDE DEF below
  <2>6. DOMAIN below = 1 .. Len(below)
    BY <2>3
  <2>7. ToSet(blocks[i].children) = {<<document, s.path>> : s \in Elems(below)}
    <3>1. ToSet(blocks[i].children) = {<<document, below[k].path>> : k \in DOMAIN below}
      BY <2>1 DEF ToSet
    <3> QED BY <2>6, <3>1 DEF Elems
  <2> QED BY <2>5, <2>7
<1> QED BY <1>1, <1>4, <1>5, <1>6, <1>7 DEF GoodBlocks, sections, blocks

-----------------------------------------------------------------------------
(* The source and the jobs *)

(* What a file consists of. *)
LEMMA FilesHaveHeadings ==
  ASSUME NEW file \in File
  PROVE  file.headings \in Headings /\ file.relationships \in Seq(ToSet(file.relationships))
  BY StoreAssumption DEF StoreAssumption, Headings

SourceType == source \in [Path -> File \union {Null}]

(* Every heading of the source has its place. *)
LEMMA Contained ==
  ASSUME SourceType
  PROVE  HeadingsContained
<1> SUFFICES ASSUME NEW p \in Path, source[p] # Null
             PROVE  LET headings == source[p].headings
                        blocks == compileFile(p, source[p]).blocks
                    IN  /\ Len(blocks) = Len(headings)
                        /\ \A i, k \in DOMAIN blocks : blocks[i].id = blocks[k].id => i = k
                        /\ \A i \in DOMAIN blocks :
                             /\ blocks[i].parent = IF Above(headings, i) = 0 THEN Null
                                                   ELSE blocks[Above(headings, i)].id
                             /\ ToSet(blocks[i].children)
                                  = {blocks[k].id : k \in {n \in DOMAIN blocks : Above(headings, n) = i}}
  BY DEF HeadingsContained
<1> DEFINE headings == source[p].headings
           blocks == compileFile(p, source[p]).blocks
           sections == collectSections(headings)
           document == deriveDocumentId[p]
           N == Len(headings)
<1>1. source[p] \in File /\ headings \in Headings
  BY FilesHaveHeadings DEF SourceType
<1>2. /\ blocks = [i \in 1 .. N |-> BlockOf(sections[i], sections, document)]
      /\ Len(blocks) = N /\ N \in Nat
      /\ \A i \in 1 .. N :
           /\ blocks[i].id = <<document, sections[i].path>>
           /\ blocks[i].parent = IF sections[i].parent = <<>> THEN Null
                                 ELSE <<document, sections[i].parent>>
           /\ ToSet(blocks[i].children)
                = {<<document, sections[k].path>> :
                     k \in {n \in 1 .. N : sections[n].parent = sections[i].path}}
  <2>1. GoodBlocks(blocks, sections, document, N) /\ N \in Nat
    BY <1>1, BlocksAre, LevelsAreNumbers
  <2> HIDE DEF blocks, sections, document, N
  <2> QED BY <2>1 DEF GoodBlocks
<1>3. /\ \A k \in 1 .. N : /\ sections[k].parent = PathOf(sections, Above(headings, k))
                           /\ sections[k].path # <<>>
      /\ \A i, k \in 1 .. N : sections[i].path = sections[k].path => i = k
  <2>1. SectionsOf(sections, headings, N)
    BY <1>1, SectionsAre
  <2> HIDE DEF sections, N
  <2> QED BY <2>1 DEF SectionsOf
<1>4. DOMAIN blocks = 1 .. N
  BY <1>2
<1>5. \A k \in 1 .. N : Above(headings, k) \in 0 .. k - 1
  BY <1>1, AboveFacts
<1> HIDE DEF headings, blocks, sections, document, N
<1>6. ASSUME NEW k \in 1 .. N
      PROVE  /\ Above(headings, k) = 0 => sections[k].parent = <<>>
             /\ Above(headings, k) # 0 => /\ Above(headings, k) \in 1 .. N
                                          /\ sections[k].parent = sections[Above(headings, k)].path
  <2>1. Above(headings, k) # 0 => Above(headings, k) \in 1 .. N
    BY <1>2, <1>5
  <2> QED BY <1>3, <2>1 DEF PathOf
<1>7. ASSUME NEW i \in 1 .. N
      PROVE  blocks[i].parent = IF Above(headings, i) = 0 THEN Null ELSE blocks[Above(headings, i)].id
  <2>1. CASE Above(headings, i) = 0
    BY <1>2, <1>6, <2>1
  <2>2. CASE Above(headings, i) # 0
    <3>1. /\ Above(headings, i) \in 1 .. N
          /\ sections[i].parent = sections[Above(headings, i)].path
          /\ sections[i].parent # <<>>
      BY <1>3, <1>6, <2>2
    <3> QED BY <1>2, <2>2, <3>1
  <2> QED BY <2>1, <2>2
<1>8. ASSUME NEW i \in 1 .. N
      PROVE  ToSet(blocks[i].children) = {blocks[k].id : k \in {n \in 1 .. N : Above(headings, n) = i}}
  <2>1. \A n \in 1 .. N : sections[n].parent = sections[i].path <=> Above(headings, n) = i
    <3> SUFFICES ASSUME NEW n \in 1 .. N
                 PROVE  sections[n].parent = sections[i].path <=> Above(headings, n) = i
      OBVIOUS
    <3>1. CASE Above(headings, n) = 0
      BY <1>2, <1>3, <1>6, <3>1
    <3>2. CASE Above(headings, n) # 0
      BY <1>3, <1>6, <3>2
    <3> QED BY <3>1, <3>2
  <2>2. {n \in 1 .. N : sections[n].parent = sections[i].path} = {n \in 1 .. N : Above(headings, n) = i}
    BY <2>1
  <2>3. \A k \in {n \in 1 .. N : Above(headings, n) = i} : blocks[k].id = <<document, sections[k].path>>
    BY <1>2
  <2>4. ToSet(blocks[i].children)
          = {<<document, sections[k].path>> : k \in {n \in 1 .. N : Above(headings, n) = i}}
    BY <1>2, <2>2
  <2> QED BY <2>3, <2>4
<1>9. ASSUME NEW i \in 1 .. N, NEW k \in 1 .. N, blocks[i].id = blocks[k].id
      PROVE  i = k
  <2>1. sections[i].path = sections[k].path
    <3>1. <<document, sections[i].path>> = <<document, sections[k].path>>
      BY <1>2, <1>9
    <3> QED BY <3>1
  <2> QED BY <1>3, <2>1
<1> QED BY <1>2, <1>4, <1>7, <1>8, <1>9 DEF headings, blocks, N

FileRead == [path : Path, file : File]
JobState == [phase : {"idle", "reading"}, todo : Seq(Path), read : Seq(FileRead)]

JobInv ==
  /\ SourceType /\ edits \in 0 .. MaxEdits
  /\ job \in [Job -> JobState]
  /\ \A j \in Job : (job[j].phase = "reading") = (job[j].todo # <<>>)
  /\ undisturbed \subseteq Job /\ fresh \in BOOLEAN

(* The source as it is now. *)
Listed == [i \in DOMAIN Listing |-> [path |-> Listing[i], file |-> source[Listing[i]]]]

(* A job that has read files, and has others to read, has them as they are. *)
Reads(files, todo) ==
  /\ Len(files) + Len(todo) = Len(Listing)
  /\ \A i \in 1 .. Len(files) : files[i] = [path |-> Listing[i], file |-> source[Listing[i]]]
  /\ \A i \in 1 .. Len(todo) : todo[i] = Listing[Len(files) + i]

QuietInv ==
  /\ \A j \in undisturbed \cap Reading : Reading = {j} /\ Reads(job[j].read, job[j].todo)
  /\ fresh => model = Compile(Listed)

(* A listing is a sequence of paths. *)
LEMMA ListingType ==
  Listing \in Seq(Path) /\ Len(Listing) \in Nat /\ DOMAIN Listing = 1 .. Len(Listing)
<1>1. PathOrder \in Seq(Path)
  BY StoreAssumption DEF StoreAssumption
<1>2. Listing \in Seq(Path)
  BY <1>1, OnlyType DEF Listing
<1> QED BY <1>2

(* The source as it is has a place for each listed path. *)
LEMMA ListedIs ==
  /\ Len(Listed) = Len(Listing) /\ DOMAIN Listed = 1 .. Len(Listing)
  /\ Listed = [i \in 1 .. Len(Listing) |-> [path |-> Listing[i], file |-> source[Listing[i]]]]
  BY ListingType DEF Listed

(* While the source is not edited, it is listed in the same way. *)
LEMMA ListingStays ==
  ASSUME UNCHANGED source
  PROVE  Listing' = Listing /\ Listed' = Listed
<1>1. Listing' = Listing
  BY DEF Listing
<1> QED BY <1>1 DEF Listed

(* What a job consists of. *)
LEMMA JobType ==
  ASSUME JobInv, NEW j \in Job
  PROVE  /\ job[j] = [phase |-> job[j].phase, todo |-> job[j].todo, read |-> job[j].read]
         /\ job[j].phase \in {"idle", "reading"}
         /\ job[j].todo \in Seq(Path)
         /\ job[j].read \in Seq(FileRead)
         /\ j \in Reading <=> job[j].todo # <<>>
<1>1. job[j] \in JobState
  BY DEF JobInv
<1> DEFINE P == Seq(Path)
           R == Seq(FileRead)
<1>2. /\ job[j] = [phase |-> job[j].phase, todo |-> job[j].todo, read |-> job[j].read]
      /\ job[j].phase \in {"idle", "reading"}
      /\ job[j].todo \in P
      /\ job[j].read \in R
  <2>1. job[j] \in [phase : {"idle", "reading"}, todo : P, read : R]
    BY <1>1 DEF JobState
  <2> HIDE DEF P, R
  <2> QED BY <2>1
<1>3. j \in Reading <=> job[j].phase = "reading"
  BY DEF Reading
<1> QED BY <1>2, <1>3 DEF JobInv

(* A job that has ended is a job. *)
IdleType == IdleJob \in JobState /\ IdleJob.todo = <<>> /\ IdleJob.phase = "idle"

(* It is one that has nothing to read. *)
LEMMA IdleTypes == IdleType
<1> DEFINE P == Seq(Path)
           R == Seq(FileRead)
<1>1. <<>> \in P /\ <<>> \in R
  OBVIOUS
<1> HIDE DEF P, R
<1>2. IdleJob \in [phase : {"idle", "reading"}, todo : P, read : R]
  BY <1>1 DEF IdleJob
<1>3. IdleJob \in JobState
  BY <1>2 DEF P, R, JobState
<1> QED BY <1>3 DEF IdleJob, IdleType

(* A job that is given another state. *)
LEMMA JobStep ==
  ASSUME JobInv, NEW j \in Job, NEW s \in JobState, job' = [job EXCEPT ![j] = s],
         (s.phase = "reading") = (s.todo # <<>>),
         UNCHANGED <<source, edits>>, undisturbed' \subseteq Job, fresh' \in BOOLEAN
  PROVE  /\ JobInv'
         /\ job'[j] = s /\ \A k \in Job \ {j} : job'[k] = job[k]
         /\ Reading' = IF s.phase = "reading" THEN Reading \union {j} ELSE Reading \ {j}
<1>1. job \in [Job -> JobState]
  BY DEF JobInv
<1>2. /\ job' \in [Job -> JobState]
      /\ job'[j] = s /\ \A k \in Job \ {j} : job'[k] = job[k]
  <2> HIDE DEF JobState
  <2> QED BY <1>1
<1>3. SourceType' /\ edits' \in 0 .. MaxEdits
  BY DEF JobInv, SourceType
<1>4. \A k \in Job : (job'[k].phase = "reading") = (job'[k].todo # <<>>)
  BY <1>2 DEF JobInv
<1>5. Reading' = IF s.phase = "reading" THEN Reading \union {j} ELSE Reading \ {j}
  BY <1>2 DEF Reading
<1> QED BY <1>2, <1>3, <1>4, <1>5 DEF JobInv

(* After an edit no job is undisturbed. *)
LEMMA EditQuiet ==
  ASSUME JobInv, QuietInv, NEW p \in Path, NEW f \in File \union {Null}, Edit(p, f)
  PROVE  JobInv' /\ QuietInv'
<1>1. /\ source' = [source EXCEPT ![p] = f] /\ edits' = edits + 1 /\ edits < MaxEdits
      /\ undisturbed' = {} /\ fresh' = FALSE /\ UNCHANGED job
  BY DEF Edit
<1>2. SourceType'
  BY <1>1 DEF JobInv, SourceType
<1>3. edits' \in 0 .. MaxEdits
  BY <1>1, StoreAssumption DEF JobInv, StoreAssumption
<1>4. JobInv'
  BY <1>1, <1>2, <1>3 DEF JobInv
<1>5. QuietInv'
  BY <1>1 DEF QuietInv
<1> QED BY <1>4, <1>5

(* Nothing that has been listed is read yet. *)
LEMMA WebhookQuiet ==
  ASSUME JobInv, QuietInv, NEW j \in Job, Webhook(j)
  PROVE  JobInv' /\ QuietInv'
<1>1. /\ j \notin Reading /\ undisturbed' = IF Reading = {} THEN {j} ELSE {}
      /\ UNCHANGED <<source, edits, seen>>
  BY DEF Webhook
<1>2. undisturbed' \subseteq Job
  BY <1>1
<1>3. Listing' = Listing /\ Listed' = Listed
  BY <1>1, ListingStays
<1>4. CASE Listing = <<>>
  <2>1. /\ Load(Compile(<<>>)) /\ job' = [job EXCEPT ![j] = IdleJob] /\ fresh' = (Reading = {})
    BY <1>4 DEF Webhook
  <2>2. JobInv' /\ Reading' = Reading \ {j}
    BY <1>1, <1>2, <2>1, JobStep, IdleTypes DEF IdleType
  <2>3. undisturbed' \cap Reading' = {}
    BY <1>1, <2>2
  <2>4. model' = Compile(<<>>)
    BY <2>1 DEF Load
  <2>5. Listed = <<>>
    <3>1. Len(Listing) = 0 /\ 1 .. 0 = {}
      BY <1>4
    <3> QED BY <1>4, <3>1, ListedIs
  <2> QED BY <1>3, <2>2, <2>3, <2>4, <2>5 DEF QuietInv
<1>5. CASE Listing # <<>>
  <2> DEFINE s == [phase |-> "reading", todo |-> Listing, read |-> <<>>]
  <2>1. /\ job' = [job EXCEPT ![j] = s] /\ UNCHANGED <<model, fresh>>
    BY <1>5 DEF Webhook, storeVars
  <2>2. s \in JobState /\ s.phase = "reading" /\ s.todo = Listing /\ s.read = <<>>
    <3> DEFINE P == Seq(Path)
               R == Seq(FileRead)
    <3>1. Listing \in P /\ <<>> \in R
      BY ListingType
    <3> HIDE DEF P, R
    <3>2. s \in [phase : {"idle", "reading"}, todo : P, read : R]
      BY <3>1
    <3> QED BY <3>2 DEF P, R, JobState
  <2> HIDE DEF s
  <2>3. fresh' \in BOOLEAN
    BY <2>1 DEF JobInv
  <2>4. JobInv' /\ job'[j] = s /\ Reading' = Reading \union {j}
    BY <1>1, <1>2, <1>5, <2>1, <2>2, <2>3, JobStep
  <2>5. Reads(s.read, s.todo)
    <3>1. Len(<<>>) = 0 /\ 1 .. 0 = {}
      OBVIOUS
    <3> QED BY <2>2, <3>1, ListingType DEF Reads
  <2>6. ASSUME NEW k \in undisturbed' \cap Reading'
        PROVE  Reading' = {k} /\ Reads(job[k].read, job[k].todo)'
    <3>1. Reading = {} /\ k = j
      BY <1>1, <2>6
    <3>2. Reads(job'[k].read, job'[k].todo)
      BY <2>4, <2>5, <3>1
    <3> QED BY <1>1, <1>3, <2>4, <3>1, <3>2 DEF Reads
  <2>7. fresh' => model' = Compile(Listed')
    BY <1>3, <2>1 DEF QuietInv
  <2> QED BY <2>4, <2>6, <2>7 DEF QuietInv
<1> QED BY <1>4, <1>5

(* What a reading job reads next is as it is listed, unless it has gone. *)
LEMMA ReadFileQuiet ==
  ASSUME JobInv, QuietInv, NEW j \in Job, ReadFile(j)
  PROVE  JobInv' /\ QuietInv'
<1> DEFINE path == Head(job[j].todo)
           file == source[path]
           read == Append(job[j].read, [path |-> path, file |-> source[path]])
           rest == Tail(job[j].todo)
<1>1. /\ j \in Reading /\ UNCHANGED <<source, edits, seen, undisturbed>>
  BY DEF ReadFile
<1>2. /\ job[j].todo \in Seq(Path) /\ job[j].todo # <<>> /\ job[j].read \in Seq(FileRead)
  BY <1>1, JobType
<1>3. undisturbed' \subseteq Job /\ Listing' = Listing /\ Listed' = Listed
  BY <1>1, ListingStays DEF JobInv
<1>4. /\ path \in Path /\ rest \in Seq(Path) /\ Len(rest) = Len(job[j].todo) - 1
      /\ path = job[j].todo[1]
      /\ \A i \in 1 .. Len(rest) : rest[i] = job[j].todo[i + 1]
      /\ Len(job[j].todo) \in Nat \ {0} /\ Len(job[j].read) \in Nat
  BY <1>2
<1> DEFINE item == [path |-> path, file |-> source[path]]
<1>5. CASE source[path] = Null
  <2>1. job' = [job EXCEPT ![j] = IdleJob] /\ UNCHANGED <<model, fresh>>
    BY <1>5 DEF ReadFile, storeVars
  <2>2. fresh' \in BOOLEAN
    BY <2>1 DEF JobInv
  <2>3. /\ JobInv' /\ Reading' = Reading \ {j}
        /\ \A k \in Job \ {j} : job'[k] = job[k]
    BY <1>1, <1>3, <2>1, <2>2, JobStep, IdleTypes DEF IdleType
  <2>4. ASSUME NEW k \in undisturbed' \cap Reading'
        PROVE  FALSE
    <3>1. k \in undisturbed \cap Reading /\ k # j
      BY <1>1, <2>3
    <3> QED BY <1>1, <3>1 DEF QuietInv
  <2>5. fresh' => model' = Compile(Listed')
    BY <1>3, <2>1 DEF QuietInv
  <2> QED BY <2>3, <2>4, <2>5 DEF QuietInv
<1>6. ASSUME source[path] # Null
      PROVE  /\ read \in Seq(FileRead) /\ Len(read) = Len(job[j].read) + 1
             /\ \A i \in 1 .. Len(job[j].read) : read[i] = job[j].read[i]
             /\ read[Len(job[j].read) + 1] = item
             /\ Reads(job[j].read, job[j].todo) => Reads(read, rest)
  <2>1. item \in FileRead
    BY <1>4, <1>6 DEF FileRead, JobInv, SourceType
  <2> HIDE DEF item
  <2>2. read = Append(job[j].read, item)
    BY DEF item
  <2> HIDE DEF read, path, rest
  <2>3. /\ read \in Seq(FileRead) /\ Len(read) = Len(job[j].read) + 1
        /\ \A i \in 1 .. Len(job[j].read) : read[i] = job[j].read[i]
        /\ read[Len(job[j].read) + 1] = item
    BY <1>2, <2>1, <2>2, AppendPlaces
  <2>4. ASSUME Reads(job[j].read, job[j].todo)
        PROVE  Reads(read, rest)
    <3> DEFINE n == Len(job[j].read)
               m == Len(job[j].todo)
    <3>1. n \in Nat /\ m \in Nat \ {0} /\ Len(read) = n + 1 /\ Len(rest) = m - 1
      BY <1>4, <2>3
    <3>2. /\ n + m = Len(Listing)
          /\ \A i \in 1 .. n : job[j].read[i] = [path |-> Listing[i], file |-> source[Listing[i]]]
          /\ \A i \in 1 .. m : job[j].todo[i] = Listing[n + i]
      BY <2>4 DEF Reads
    <3>3. item = [path |-> Listing[n + 1], file |-> source[Listing[n + 1]]]
      <4>1. 1 \in 1 .. m
        BY <3>1
      <4>2. path = Listing[n + 1]
        BY <1>4, <3>2, <4>1
      <4> QED BY <4>2 DEF item
    <3> HIDE DEF n, m
    <3>4. ASSUME NEW i \in 1 .. Len(read)
          PROVE  read[i] = [path |-> Listing[i], file |-> source[Listing[i]]]
      <4>1. i = n + 1 \/ i \in 1 .. n
        BY <3>1
      <4>2. /\ \A k \in 1 .. n : read[k] = job[j].read[k]
            /\ read[n + 1] = item
        BY <2>3 DEF n
      <4>3. CASE i = n + 1
        BY <3>3, <4>2, <4>3
      <4>4. CASE i \in 1 .. n
        BY <3>2, <4>2, <4>4
      <4> QED BY <4>1, <4>3, <4>4
    <3>5. ASSUME NEW i \in 1 .. Len(rest)
          PROVE  rest[i] = Listing[Len(read) + i]
      <4>1. i + 1 \in 1 .. m /\ n + (i + 1) = Len(read) + i
        BY <3>1
      <4>2. rest[i] = job[j].todo[i + 1]
        BY <1>4
      <4> QED BY <3>2, <4>1, <4>2
    <3>6. Len(read) + Len(rest) = Len(Listing)
      BY <3>1, <3>2
    <3> QED BY <3>4, <3>5, <3>6 DEF Reads
  <2> QED BY <2>3, <2>4
<1> HIDE DEF item
<1>7. CASE source[path] # Null /\ rest # <<>>
  <2> DEFINE s == [phase |-> "reading", todo |-> rest, read |-> read]
  <2>1. /\ job' = [job EXCEPT ![j] = s] /\ UNCHANGED <<model, fresh>>
    BY <1>7 DEF ReadFile, storeVars
  <2>2. s \in JobState /\ s.phase = "reading" /\ s.todo = rest /\ s.read = read
    <3> DEFINE P == Seq(Path)
               R == Seq(FileRead)
    <3>1. rest \in P /\ read \in R
      BY <1>4, <1>6, <1>7
    <3> HIDE DEF P, R, rest, read
    <3>2. s \in [phase : {"idle", "reading"}, todo : P, read : R]
      BY <3>1
    <3> QED BY <3>2 DEF P, R, JobState
  <2> HIDE DEF s, read, rest
  <2>3. fresh' \in BOOLEAN
    BY <2>1 DEF JobInv
  <2>4. /\ JobInv' /\ job'[j] = s /\ Reading' = Reading \union {j}
        /\ \A k \in Job \ {j} : job'[k] = job[k]
    BY <1>1, <1>3, <1>7, <2>1, <2>2, <2>3, JobStep
  <2>5. ASSUME NEW k \in undisturbed' \cap Reading'
        PROVE  Reading' = {k} /\ Reads(job[k].read, job[k].todo)'
    <3>1. k \in undisturbed /\ k \in Reading
      BY <1>1, <2>4
    <3>2. Reading = {k} /\ Reads(job[k].read, job[k].todo)
      BY <3>1 DEF QuietInv
    <3>3. k = j /\ Reading' = {k}
      BY <1>1, <2>4, <3>2
    <3>4. Reads(job'[k].read, job'[k].todo)
      BY <1>6, <1>7, <2>2, <2>4, <3>2, <3>3
    <3> QED BY <1>1, <1>3, <3>3, <3>4 DEF Reads
  <2>6. fresh' => model' = Compile(Listed')
    BY <1>3, <2>1 DEF QuietInv
  <2> QED BY <2>4, <2>5, <2>6 DEF QuietInv
<1>8. CASE source[path] # Null /\ rest = <<>>
  <2>1. Load(Compile(read)) /\ job' = [job EXCEPT ![j] = IdleJob] /\ fresh' = (j \in undisturbed)
    BY <1>8 DEF ReadFile
  <2>2. model' = Compile(read)
    BY <2>1 DEF Load
  <2> HIDE DEF read, rest
  <2>3. /\ JobInv' /\ Reading' = Reading \ {j}
    <3>1. fresh' \in BOOLEAN
      BY <2>1
    <3> QED BY <1>1, <1>3, <2>1, <3>1, JobStep, IdleTypes DEF IdleType
  <2>4. ASSUME NEW k \in undisturbed' \cap Reading'
        PROVE  FALSE
    <3>1. k \in undisturbed \cap Reading /\ k # j
      BY <1>1, <2>3
    <3> QED BY <1>1, <3>1 DEF QuietInv
  <2>5. ASSUME j \in undisturbed
        PROVE  read = Listed
    <3>1. Reads(read, rest)
      BY <1>1, <1>6, <1>8, <2>5 DEF QuietInv
    <3>2. Len(rest) = 0
      BY <1>8
    <3>3. read \in Seq(FileRead) /\ Len(read) \in Nat
      BY <1>6, <1>8
    <3>4. Len(read) = Len(Listing)
      BY <3>1, <3>2, <3>3, ListingType DEF Reads
    <3>5. read = [i \in 1 .. Len(read) |-> read[i]]
      BY <3>3
    <3>6. \A i \in 1 .. Len(Listing) : read[i] = [path |-> Listing[i], file |-> source[Listing[i]]]
      BY <3>1, <3>4 DEF Reads
    <3> HIDE DEF Listed
    <3> QED BY <3>4, <3>5, <3>6, ListedIs
  <2> QED BY <1>3, <2>1, <2>2, <2>3, <2>4, <2>5 DEF QuietInv
<1>9. source[path] = Null \/ (source[path] # Null /\ rest # <<>>) \/ (source[path] # Null /\ rest = <<>>)
  OBVIOUS
<1> QED BY <1>5, <1>7, <1>8, <1>9

-----------------------------------------------------------------------------
(* The times of loads *)

DocumentIds(m) == {d.id : d \in Documents(m)}
BlockIds(m) == {b.id : b \in Blocks(m)}

(* Everything in the model is from the last load. *)
TimesInv ==
  /\ lastLoadAt \in 0 .. MaxLoadTime /\ seen.asOf \in 0 .. lastLoadAt
  /\ documentModified \in [DocumentIds(model) -> 1 .. lastLoadAt]
  /\ blockModified \in [BlockIds(model) -> 1 .. lastLoadAt]
  /\ \A d \in DOMAIN documentModified : documentModified[d] = lastLoadAt
  /\ \A b \in DOMAIN blockModified : blockModified[b] = lastLoadAt

(* A load gives everything its time. *)
LEMMA LoadTimes ==
  ASSUME TimesInv, NEW m, Load(m), UNCHANGED seen
  PROVE  TimesInv'
<1>1. /\ model' = m
      /\ lastLoadAt' \in {lastLoadAt, lastLoadAt + 1} \cap (1 .. MaxLoadTime)
      /\ documentModified' = [d \in DocumentIds(m) |-> lastLoadAt']
      /\ blockModified' = [b \in BlockIds(m) |-> lastLoadAt']
  BY DEF Load, Stamped, DocumentIds, BlockIds, Documents, Blocks
<1>2. MaxLoadTime \in Nat /\ lastLoadAt \in Nat /\ lastLoadAt' \in Nat \ {0}
  BY <1>1, StoreAssumption DEF TimesInv, StoreAssumption
<1>3. lastLoadAt' \in 0 .. MaxLoadTime /\ seen'.asOf \in 0 .. lastLoadAt' /\ lastLoadAt' \in 1 .. lastLoadAt'
  BY <1>1, <1>2 DEF TimesInv
<1>4. DocumentIds(model)' = DocumentIds(m) /\ BlockIds(model)' = BlockIds(m)
  BY <1>1 DEF DocumentIds, BlockIds, Documents, Blocks
<1> QED BY <1>1, <1>3, <1>4 DEF TimesInv

(* Nothing but a load and a response touches the times. *)
LEMMA TimesStay ==
  ASSUME TimesInv, UNCHANGED <<model, documentModified, blockModified, lastLoadAt>>,
         seen'.asOf \in 0 .. lastLoadAt
  PROVE  TimesInv'
<1>1. DocumentIds(model)' = DocumentIds(model) /\ BlockIds(model)' = BlockIds(model)
  BY DEF DocumentIds, BlockIds, Documents, Blocks
<1> QED BY <1>1 DEF TimesInv

StoreInv == JobInv /\ QuietInv /\ TimesInv

(* StoreInv holds at first. *)
LEMMA StoreInit == ContentInit => StoreInv
<1> SUFFICES ASSUME ContentInit PROVE StoreInv
  OBVIOUS
<1>1. /\ source \in [Path -> File \union {Null}] /\ edits = 0
      /\ job = [j \in Job |-> IdleJob]
      /\ model = Empty /\ documentModified = <<>> /\ blockModified = <<>> /\ lastLoadAt = 0
      /\ seen = [asOf |-> 0, model |-> Empty] /\ undisturbed = {} /\ fresh = FALSE
  BY DEF ContentInit
<1>2. MaxEdits \in Nat /\ MaxLoadTime \in Nat
  BY StoreAssumption DEF StoreAssumption
<1>3. JobInv
  <2>1. IdleJob \in JobState /\ IdleJob.todo = <<>> /\ IdleJob.phase = "idle"
    BY IdleTypes DEF IdleType
  <2>2. job \in [Job -> JobState] /\ \A j \in Job : job[j] = IdleJob
    <3> HIDE DEF JobState, IdleJob
    <3> QED BY <1>1, <2>1
  <2>3. \A j \in Job : (job[j].phase = "reading") = (job[j].todo # <<>>)
    <3> HIDE DEF IdleJob
    <3> QED BY <2>1, <2>2
  <2>4. SourceType /\ edits \in 0 .. MaxEdits /\ undisturbed \subseteq Job /\ fresh \in BOOLEAN
    <3>1. edits \in 0 .. MaxEdits /\ undisturbed \subseteq Job
      BY <1>1, <1>2
    <3>2. fresh \in BOOLEAN
      BY <1>1
    <3> QED BY <1>1, <3>1, <3>2 DEF SourceType
  <2> QED BY <2>2, <2>3, <2>4 DEF JobInv
<1>4. QuietInv
  BY <1>1 DEF QuietInv
<1>5. DocumentIds(model) = {} /\ BlockIds(model) = {}
  <2>1. DOMAIN <<>> = {}
    OBVIOUS
  <2> QED BY <1>1, <2>1 DEF DocumentIds, BlockIds, Documents, Blocks, Empty, ToSet
<1>6. <<>> \in [{} -> 1 .. 0] /\ DOMAIN <<>> = {}
  OBVIOUS
<1>7. TimesInv
  BY <1>1, <1>2, <1>5, <1>6 DEF TimesInv
<1> QED BY <1>3, <1>4, <1>7 DEF StoreInv

(* StoreInv is inductive. *)
LEMMA StoreStep ==
  ASSUME StoreInv, [ContentNext]_contentVars
  PROVE  StoreInv'
<1>1. CASE UNCHANGED contentVars
  <2>1. UNCHANGED <<source, edits, job, model, documentModified, blockModified, lastLoadAt,
                    seen, undisturbed, fresh>>
    BY <1>1 DEF contentVars, storeVars
  <2>2. JobInv'
    BY <2>1 DEF StoreInv, JobInv, SourceType
  <2>3. QuietInv'
    <3>1. Reading' = Reading /\ Listing' = Listing /\ Listed' = Listed
      BY <2>1, ListingStays DEF Reading
    <3> QED BY <2>1, <3>1 DEF StoreInv, QuietInv, Reads
  <2>4. TimesInv'
    BY <2>1, TimesStay DEF StoreInv, TimesInv
  <2> QED BY <2>2, <2>3, <2>4 DEF StoreInv
<1>2. ASSUME NEW p \in Path, NEW f \in File \union {Null}, Edit(p, f)
      PROVE  StoreInv'
  <2>1. JobInv' /\ QuietInv'
    BY <1>2, EditQuiet DEF StoreInv
  <2>2. UNCHANGED <<model, documentModified, blockModified, lastLoadAt, seen>>
    BY <1>2 DEF Edit, storeVars
  <2> QED BY <2>1, <2>2, TimesStay DEF StoreInv, TimesInv
<1>3. ASSUME NEW j \in Job, Webhook(j)
      PROVE  StoreInv'
  <2>1. JobInv' /\ QuietInv'
    BY <1>3, WebhookQuiet DEF StoreInv
  <2>2. UNCHANGED seen
    BY <1>3 DEF Webhook
  <2>3. CASE Listing = <<>>
    <3>1. Load(Compile(<<>>))
      BY <1>3, <2>3 DEF Webhook
    <3>2. TimesInv'
      BY <2>2, <3>1, LoadTimes DEF StoreInv
    <3> QED BY <2>1, <3>2 DEF StoreInv
  <2>4. CASE Listing # <<>>
    <3>1. UNCHANGED <<model, documentModified, blockModified, lastLoadAt>>
      BY <1>3, <2>4 DEF Webhook, storeVars
    <3>2. TimesInv'
      BY <2>2, <3>1, TimesStay DEF StoreInv, TimesInv
    <3> QED BY <2>1, <3>2 DEF StoreInv
  <2> QED BY <2>3, <2>4
<1>4. ASSUME NEW j \in Job, ReadFile(j)
      PROVE  StoreInv'
  <2>1. JobInv' /\ QuietInv'
    BY <1>4, ReadFileQuiet DEF StoreInv
  <2>2. UNCHANGED seen
    BY <1>4 DEF ReadFile
  <2>3. \/ UNCHANGED <<model, documentModified, blockModified, lastLoadAt>>
        \/ \E m : Load(m)
    BY <1>4 DEF ReadFile, storeVars
  <2>4. TimesInv'
    BY <2>2, <2>3, LoadTimes, TimesStay DEF StoreInv, TimesInv
  <2> QED BY <2>1, <2>4 DEF StoreInv
<1>5. ASSUME UNCHANGED <<source, edits, job, storeVars, undisturbed, fresh>>,
             seen'.asOf \in 0 .. lastLoadAt
      PROVE  StoreInv'
  <2>1. UNCHANGED <<source, edits, job, model, documentModified, blockModified, lastLoadAt,
                    undisturbed, fresh>>
    BY <1>5 DEF storeVars
  <2>2. JobInv'
    BY <2>1 DEF StoreInv, JobInv, SourceType
  <2>3. QuietInv'
    <3>1. Reading' = Reading /\ Listing' = Listing /\ Listed' = Listed
      BY <2>1, ListingStays DEF Reading
    <3> QED BY <2>1, <3>1 DEF StoreInv, QuietInv, Reads
  <2>4. TimesInv'
    BY <1>5, <2>1, TimesStay DEF StoreInv
  <2> QED BY <2>2, <2>3, <2>4 DEF StoreInv
<1>6. CASE Respond
  <2>1. seen'.asOf \in 0 .. lastLoadAt
    BY <1>6 DEF Respond, StoreInv, TimesInv
  <2> QED BY <1>5, <1>6, <2>1 DEF Respond
<1>7. ASSUME NEW limit \in PageLimit, QueryPage(limit)
      PROVE  StoreInv'
  <2>1. seen'.asOf \in 0 .. lastLoadAt
    BY <1>7 DEF QueryPage, StoreInv, TimesInv
  <2> QED BY <1>5, <1>7, <2>1 DEF QueryPage
<1> QED BY <1>1, <1>2, <1>3, <1>4, <1>6, <1>7 DEF ContentNext

(* What has changed since a response is listed as invalid for its asOf. *)
THEOREM InvalidationsNameChanges == ContentSpec => []ModifiedListed
<1>1. StoreInv => ModifiedListed
  <2> SUFFICES ASSUME StoreInv, seen.asOf < lastLoadAt
               PROVE  /\ \A d \in Documents(model) : d.id \in invalidationsSince(seen.asOf).documents
                      /\ \A b \in Blocks(model) : b.id \in invalidationsSince(seen.asOf).blocks
    BY DEF ModifiedListed
  <2>1. /\ DOMAIN documentModified = DocumentIds(model) /\ DOMAIN blockModified = BlockIds(model)
        /\ \A d \in DOMAIN documentModified : documentModified[d] > seen.asOf
        /\ \A b \in DOMAIN blockModified : blockModified[b] > seen.asOf
    BY DEF StoreInv, TimesInv
  <2> QED BY <2>1 DEF invalidationsSince, DocumentIds, BlockIds
<1> QED BY <1>1, StoreInit, StoreStep, PTL DEF ContentSpec

(* A compilation that nothing disturbed leaves the indexes as the source is,
   and every heading has its place. *)
THEOREM QuietCompilesAreCurrent == ContentSpec => []QuietCompileCurrent
<1>1. StoreInv => QuietCompileCurrent
  BY Contained DEF StoreInv, JobInv, QuietInv, QuietCompileCurrent, Listed
<1> QED BY <1>1, StoreInit, StoreStep, PTL DEF ContentSpec

-----------------------------------------------------------------------------
(* What is compiled *)

(* The function of Flat(). *)
LEMMA FlatIs ==
  ASSUME NEW T, NEW seqs \in Seq(Seq(T))
  PROVE  Flat(seqs) \in Seq(T) /\ Elems(Flat(seqs)) = UNION {Elems(seqs[i]) : i \in 1 .. Len(seqs)}
<1> DEFINE n == Len(seqs)
           A == Seq(T)
           F == [k \in 1 .. n |-> [x \in A |-> x \o seqs[k]]]
<1>1. n \in Nat /\ \A k \in 1 .. n : seqs[k] \in A
  <2>1. seqs \in Seq(A)
    OBVIOUS
  <2> HIDE DEF A
  <2> QED BY <2>1
<1>2. \A k \in 1 .. n : F[k] \in [A -> A] /\ \A x \in A : F[k][x] = x \o seqs[k]
  <2>1. \A k \in 1 .. n, x \in A : x \o seqs[k] \in A
    BY <1>1, ConcatPlaces
  <2> HIDE DEF A
  <2> QED BY <2>1
<1>3. <<>> \in A
  OBVIOUS
<1>4. PICK g : MadeUpTo(g, A, <<>>, n, F)
  <2> HIDE DEF A, F, n
  <2> QED BY <1>1, <1>2, <1>3, StepByStep
<1>5. /\ g \in [0 .. n -> A] /\ g[0] = <<>>
      /\ \A k \in 1 .. n : g[k] = g[k - 1] \o seqs[k] /\ g[k] \in A /\ g[k - 1] \in A
  <2> HIDE DEF A, F
  <2>1. g \in [0 .. n -> A] /\ g[0] = <<>> /\ \A k \in 1 .. n : g[k] = F[k][g[k - 1]]
    BY <1>4 DEF MadeUpTo
  <2>2. \A k \in 1 .. n : k - 1 \in 0 .. n /\ k \in 0 .. n
    BY <1>1
  <2>3. \A k \in 1 .. n : g[k - 1] \in A /\ g[k] \in A
    BY <2>1, <2>2
  <2> QED BY <1>2, <2>1, <2>3
<1> DEFINE Whole(f) == f = [k \in 0 .. n |-> IF k = 0 THEN <<>> ELSE f[k - 1] \o seqs[k]]
           flat == CHOOSE f : Whole(f)
<1>6. Whole(g)
  <2>1. \A k \in 0 .. n : g[k] = IF k = 0 THEN <<>> ELSE g[k - 1] \o seqs[k]
    <3> SUFFICES ASSUME NEW k \in 0 .. n, k # 0 PROVE g[k] = g[k - 1] \o seqs[k]
      BY <1>5
    <3>1. k \in 1 .. n
      BY <1>1
    <3> QED BY <1>5, <3>1
  <2>2. g = [k \in 0 .. n |-> g[k]]
    BY <1>5
  <2> HIDE DEF n
  <2> QED BY <2>1, <2>2
<1>7. Whole(flat)
  <2> HIDE DEF Whole
  <2> QED BY <1>6
<1>8. Flat(seqs) = flat[n]
  BY DEF Flat
<1> HIDE DEF flat
<1>9. flat[0] = <<>> /\ \A k \in 1 .. n : flat[k] = flat[k - 1] \o seqs[k]
  <2>1. 0 \in 0 .. n /\ \A k \in 1 .. n : k \in 0 .. n /\ k # 0
    BY <1>1
  <2> HIDE DEF n
  <2> QED BY <1>7, <2>1
<1> DEFINE G == {k \in 0 .. n : /\ flat[k] \in A
                               /\ Elems(flat[k]) = UNION {Elems(seqs[i]) : i \in 1 .. k}}
<1>10. 0 \in G
  <2>1. 1 .. 0 = {} /\ 0 \in 0 .. n
    BY <1>1
  <2> QED BY <1>3, <1>9, <2>1, ElemsOfNone
<1>11. ASSUME NEW k \in 1 .. n, k - 1 \in G
       PROVE  k \in G
  <2>1. flat[k - 1] \in A /\ Elems(flat[k - 1]) = UNION {Elems(seqs[i]) : i \in 1 .. k - 1}
    BY <1>11
  <2>2. flat[k] = flat[k - 1] \o seqs[k]
    BY <1>9
  <2>3. flat[k] \in A
    BY <1>1, <2>1, <2>2, ConcatPlaces
  <2>4. Elems(flat[k]) = Elems(flat[k - 1]) \cup Elems(seqs[k])
    BY <1>1, <2>1, <2>2, ElemsConcat
  <2>5. \A i \in 1 .. k : i \in 1 .. k - 1 \/ i = k
    BY <1>1
  <2>6. k \in 1 .. k /\ k \in 0 .. n /\ \A i \in 1 .. k - 1 : i \in 1 .. k
    BY <1>1
  <2>7. UNION {Elems(seqs[i]) : i \in 1 .. k} = (UNION {Elems(seqs[i]) : i \in 1 .. k - 1}) \cup Elems(seqs[k])
    <3> HIDE DEF G
    <3> QED BY <2>5, <2>6
  <2> QED BY <2>1, <2>3, <2>4, <2>6, <2>7
<1>12. n \in G
  <2> HIDE DEF G, n
  <2> QED BY <1>1, <1>10, <1>11, Upwards
<1> QED BY <1>8, <1>12

(* The files read, and the block of the heading k of file i with what Compile()
   admits of its relationships. *)
Files(read) == [i \in DOMAIN read |-> compileFile(read[i].path, read[i].file)]
Known(read) == UNION {{b.id : b \in ToSet(Files(read)[i].blocks)} : i \in DOMAIN Files(read)}
Compiled(read, i, k) ==
  LET block == Files(read)[i].blocks[k]
      taken == Admitted(block, Files(read)[i].relationships, Known(read))
  IN  [block EXCEPT !.relationships =
         [l \in DOMAIN taken |-> [type |-> taken[l].type, target |-> taken[l].target]]]

SectionsIn(item) == collectSections(item.file.headings)
SizeOf(item) == Len(item.file.headings)
PathIn(item, k) == SectionsIn(item)[k].path
DocumentOf(item) == deriveDocumentId[item.path]

GoodDocument(document, item) ==
  /\ document.id = DocumentOf(item)
  /\ document.rootBlock = IF SizeOf(item) = 0 THEN Null ELSE <<DocumentOf(item), PathIn(item, 1)>>

GoodCompile(m, read) ==
  /\ Len(m.documents) = Len(read) /\ m.documents \in Seq(ToSet(m.documents))
  /\ \A i \in 1 .. Len(read) : GoodDocument(m.documents[i], read[i])
  /\ m.blocks \in Seq(ToSet(m.blocks))
  /\ ToSet(m.blocks) = UNION {{Compiled(read, i, k) : k \in 1 .. SizeOf(read[i])} : i \in 1 .. Len(read)}

(* What is known of a file that was read. *)
LEMMA ReadFacts ==
  ASSUME NEW item \in FileRead
  PROVE  /\ item.path \in Path /\ item.file \in File /\ item.file.headings \in Headings
         /\ SizeOf(item) \in Nat
         /\ SectionsIn(item) \in Seq(Section) /\ Len(SectionsIn(item)) = SizeOf(item)
         /\ \A k \in 1 .. SizeOf(item) : PathIn(item, k) \in Seq(Nat)
         /\ \A i, k \in 1 .. SizeOf(item) : PathIn(item, i) = PathIn(item, k) => i = k
         /\ DocumentOf(item) \in Nat
<1>1. item.path \in Path /\ item.file \in File
  BY DEF FileRead
<1>2. item.file.headings \in Headings
  BY <1>1, FilesHaveHeadings
<1>3. SizeOf(item) \in Nat
  BY <1>2, LevelsAreNumbers DEF SizeOf
<1>4. SectionsIn(item) \in Seq(Section) /\ Len(SectionsIn(item)) = SizeOf(item)
  BY <1>2, SectionsAre DEF SectionsIn, SizeOf
<1>5. \A i, k \in 1 .. SizeOf(item) : PathIn(item, i) = PathIn(item, k) => i = k
  <2>1. SectionsOf(collectSections(item.file.headings), item.file.headings, Len(item.file.headings))
    BY <1>2, SectionsAre
  <2> QED BY <2>1 DEF SectionsOf, SectionsIn, SizeOf, PathIn
<1>6. \A k \in 1 .. SizeOf(item) : PathIn(item, k) \in Seq(Nat)
  <2>1. \A k \in 1 .. SizeOf(item) : SectionsIn(item)[k] \in Section
    BY <1>4
  <2>2. \A s \in Section : s.path \in Seq(Nat)
    BY DEF Section
  <2> QED BY <2>1, <2>2 DEF PathIn
<1>7. DocumentOf(item) \in Nat
  BY <1>1, StoreAssumption DEF StoreAssumption, DocumentOf
<1> QED BY <1>1, <1>2, <1>3, <1>4, <1>5, <1>6, <1>7

(* One file of a compilation. *)
LEMMA FileBlocks ==
  ASSUME NEW read \in Seq(FileRead), NEW i \in 1 .. Len(read)
  PROVE  /\ Files(read)[i] = compileFile(read[i].path, read[i].file)
         /\ GoodBlocks(Files(read)[i].blocks, SectionsIn(read[i]), DocumentOf(read[i]), SizeOf(read[i]))
         /\ DOMAIN Files(read)[i].blocks = 1 .. SizeOf(read[i])
         /\ Files(read)[i].relationships \in Seq(ToSet(Files(read)[i].relationships))
<1>1. read[i] \in FileRead /\ i \in DOMAIN read
  OBVIOUS
<1>2. Files(read)[i] = compileFile(read[i].path, read[i].file)
  BY <1>1 DEF Files
<1>3. read[i].path \in Path /\ read[i].file \in File /\ read[i].file.headings \in Headings
      /\ SizeOf(read[i]) \in Nat
  BY <1>1, ReadFacts
<1>4. GoodBlocks(Files(read)[i].blocks, SectionsIn(read[i]), DocumentOf(read[i]), SizeOf(read[i]))
  BY <1>2, <1>3, BlocksAre DEF SectionsIn, DocumentOf, SizeOf
<1>5. DOMAIN Files(read)[i].blocks = 1 .. SizeOf(read[i])
  BY <1>4 DEF GoodBlocks
<1>6. Files(read)[i].relationships \in Seq(ToSet(Files(read)[i].relationships))
  <2> DEFINE raw == read[i].file.relationships
             rs == Files(read)[i].relationships
  <2>1. raw \in Seq(ToSet(raw))
    BY <1>3, FilesHaveHeadings
  <2> DEFINE sections == collectSections(read[i].file.headings)
             sourced(r) == [source |-> resolveRelationshipSource(r.from, sections, DocumentOf(read[i])),
                            type |-> r.type, target |-> r.to]
  <2>2. rs = [l \in DOMAIN raw |-> sourced(raw[l])]
    <3>1. compileFile(read[i].path, read[i].file).relationships = [l \in DOMAIN raw |-> sourced(raw[l])]
      BY DEF compileFile, DocumentOf
    <3> HIDE DEF sourced, raw
    <3> QED BY <1>2, <3>1
  <2> HIDE DEF sourced
  <2> HIDE DEF raw, rs
  <2>3. DOMAIN raw = 1 .. Len(raw) /\ Len(raw) \in Nat
    BY <2>1
  <2>4. \A l \in 1 .. Len(raw) : rs[l] \in ToSet(rs)
    BY <2>2, <2>3 DEF ToSet
  <2> DEFINE R == ToSet(rs)
  <2> HIDE DEF R
  <2>5. rs \in Seq(R)
    <3>1. \A l \in 1 .. Len(raw) : rs[l] \in R
      BY <2>4 DEF R
    <3>2. rs = [l \in 1 .. Len(raw) |-> rs[l]]
      BY <2>2, <2>3
    <3> QED BY <2>3, <3>1, <3>2
  <2> QED BY <2>5 DEF rs, R
<1> QED BY <1>2, <1>4, <1>5, <1>6

(* The ids that Compile() knows are those of all sections. *)
LEMMA KnownAre ==
  ASSUME NEW read \in Seq(FileRead)
  PROVE  Known(read) = UNION {{<<DocumentOf(read[i]), PathIn(read[i], k)>> :
                                 k \in 1 .. SizeOf(read[i])} : i \in 1 .. Len(read)}
<1>1. DOMAIN Files(read) = 1 .. Len(read)
  BY DEF Files
<1>2. ASSUME NEW i \in 1 .. Len(read)
      PROVE  {b.id : b \in ToSet(Files(read)[i].blocks)}
               = {<<DocumentOf(read[i]), PathIn(read[i], k)>> : k \in 1 .. SizeOf(read[i])}
  <2>1. DOMAIN Files(read)[i].blocks = 1 .. SizeOf(read[i])
    BY FileBlocks
  <2>2. \A k \in 1 .. SizeOf(read[i]) :
          Files(read)[i].blocks[k].id = <<DocumentOf(read[i]), PathIn(read[i], k)>>
    BY FileBlocks DEF GoodBlocks, PathIn
  <2> QED BY <2>1, <2>2 DEF ToSet
<1> DEFINE known(i) == {b.id : b \in ToSet(Files(read)[i].blocks)}
           ids(i) == {<<DocumentOf(read[i]), PathIn(read[i], k)>> : k \in 1 .. SizeOf(read[i])}
<1>3. Known(read) = UNION {known(i) : i \in 1 .. Len(read)}
  BY <1>1 DEF Known
<1>4. \A i \in 1 .. Len(read) : known(i) = ids(i)
  BY <1>2
<1>5. Known(read) = UNION {ids(i) : i \in 1 .. Len(read)}
  <2> HIDE DEF known, ids
  <2> QED BY <1>3, <1>4
<1> QED BY <1>5

GoodCompiled(b, read, i, k) ==
  /\ b.id = <<DocumentOf(read[i]), PathIn(read[i], k)>>
  /\ b.document = DocumentOf(read[i])
  /\ \A r \in ToSet(b.relationships) : r.target \in Known(read)

(* Only relationships that lead to a known block are admitted. *)
LEMMA CompiledIs ==
  ASSUME NEW read \in Seq(FileRead), NEW i \in 1 .. Len(read), NEW k \in 1 .. SizeOf(read[i])
  PROVE  GoodCompiled(Compiled(read, i, k), read, i, k)
<1> DEFINE block == Files(read)[i].blocks[k]
           raw == Files(read)[i].relationships
           S == {r \in ToSet(raw) : /\ r.source = block.id
                                    /\ r.type \in Vocabulary
                                    /\ r.target \in Known(read)}
           taken == Only(raw, S)
           rs == [l \in DOMAIN taken |-> [type |-> taken[l].type, target |-> taken[l].target]]
           b == [block EXCEPT !.relationships = rs]
<1>1. Compiled(read, i, k) = b
  BY DEF Compiled, Admitted
<1>2. /\ block = BlockOf(SectionsIn(read[i])[k], SectionsIn(read[i]), DocumentOf(read[i]))
      /\ block.id = <<DocumentOf(read[i]), PathIn(read[i], k)>>
      /\ block.document = DocumentOf(read[i])
  <2>1. GoodBlocks(Files(read)[i].blocks, SectionsIn(read[i]), DocumentOf(read[i]), SizeOf(read[i]))
    BY FileBlocks
  <2> QED BY <2>1 DEF GoodBlocks, PathIn
<1>3. b.id = block.id /\ b.document = block.document /\ b.relationships = rs
  <2>1. {"id", "document", "relationships"} \subseteq DOMAIN block
    BY <1>2 DEF BlockOf
  <2> HIDE DEF block, rs
  <2> QED BY <2>1
<1>4. ASSUME NEW r \in ToSet(rs)
      PROVE  r.target \in Known(read)
  <2>1. raw \in Seq(ToSet(raw))
    BY FileBlocks
  <2>2. Elems(taken) = Elems(raw) \cap S /\ taken \in Seq(ToSet(raw))
    BY <2>1, ElemsOnly, OnlyType
  <2> HIDE DEF taken
  <2>3. PICK l \in DOMAIN taken : r.target = taken[l].target
    BY <1>4 DEF ToSet
  <2>4. taken[l] \in Elems(taken)
    BY <2>2, <2>3 DEF Elems
  <2> QED BY <2>2, <2>3, <2>4
<1> QED BY <1>1, <1>2, <1>3, <1>4 DEF GoodCompiled

(* What Compile() makes of the files. *)
LEMMA CompileIs ==
  ASSUME NEW read \in Seq(FileRead)
  PROVE  GoodCompile(Compile(read), read)
<1> DEFINE m == Compile(read)
           files == Files(read)
           documents == [i \in DOMAIN files |-> files[i].document]
           slugs == resolveSlugCollisions(documents)
           seqs == [i \in DOMAIN files |-> [k \in DOMAIN files[i].blocks |-> Compiled(read, i, k)]]
<1>1. DOMAIN files = 1 .. Len(read) /\ Len(read) \in Nat
  BY DEF Files
<1>2. m.documents = [i \in DOMAIN files |-> [documents[i] EXCEPT !.slug = slugs[i]]]
  BY DEF Compile, Files
<1>3. m.blocks = Flat(seqs)
  BY DEF Compile, Files, Compiled, Known
<1> HIDE DEF m, slugs
<1>4. ASSUME NEW i \in 1 .. Len(read)
      PROVE  GoodDocument(m.documents[i], read[i])
  <2>1. read[i] \in FileRead
    OBVIOUS
  <2>2. files[i] = compileFile(read[i].path, read[i].file)
    BY FileBlocks
  <2>3. /\ SectionsIn(read[i]) \in Seq(Section) /\ Len(SectionsIn(read[i])) = SizeOf(read[i])
        /\ SizeOf(read[i]) \in Nat
    BY <2>1, ReadFacts
  <2> DEFINE sections == SectionsIn(read[i])
  <2>4. /\ files[i].document.id = DocumentOf(read[i])
        /\ files[i].document.rootBlock = IF sections = <<>> THEN Null
                                          ELSE <<DocumentOf(read[i]), Head(sections).path>>
        /\ {"id", "slug", "rootBlock"} \subseteq DOMAIN files[i].document
    <3> DEFINE document == DocumentOf(read[i])
               slug == IF sections = <<>> THEN <<>> ELSE slugify[Head(sections).title]
               root == IF sections = <<>> THEN Null ELSE <<document, Head(sections).path>>
    <3>1. files[i].document = [id |-> document, slug |-> slug, rootBlock |-> root]
      BY <2>2 DEF compileFile, deriveBlockId, SectionsIn, DocumentOf
    <3> HIDE DEF files, document, slug, root
    <3>2. /\ files[i].document.id = document /\ files[i].document.rootBlock = root
          /\ {"id", "slug", "rootBlock"} \subseteq DOMAIN files[i].document
      BY <3>1
    <3> QED BY <3>2 DEF document, root
  <2>5. m.documents[i] = [files[i].document EXCEPT !.slug = slugs[i]]
    BY <1>1, <1>2
  <2> HIDE DEF files, sections
  <2>6. m.documents[i].id = files[i].document.id /\ m.documents[i].rootBlock = files[i].document.rootBlock
    BY <2>4, <2>5
  <2>7. sections = <<>> <=> SizeOf(read[i]) = 0
    BY <2>3 DEF sections
  <2>8. sections # <<>> => Head(sections).path = PathIn(read[i], 1)
    BY <2>3 DEF PathIn, sections
  <2> QED BY <2>4, <2>6, <2>7, <2>8 DEF GoodDocument
<1>5. Len(m.documents) = Len(read) /\ m.documents \in Seq(ToSet(m.documents))
  <2>1. m.documents = [i \in 1 .. Len(read) |-> m.documents[i]]
    BY <1>1, <1>2
  <2>2. \A i \in 1 .. Len(read) : m.documents[i] \in ToSet(m.documents)
    BY <2>1 DEF ToSet
  <2> DEFINE ds == m.documents
             D == ToSet(ds)
  <2> HIDE DEF ds, D
  <2>3. ds = [i \in 1 .. Len(read) |-> ds[i]] /\ \A i \in 1 .. Len(read) : ds[i] \in D
    BY <2>1, <2>2 DEF ds, D
  <2>4. Len(ds) = Len(read) /\ ds \in Seq(D)
    BY <1>1, <2>3
  <2> QED BY <2>4 DEF ds, D
<1> DEFINE U == UNION {{Compiled(read, i, k) : k \in 1 .. SizeOf(read[i])} : i \in 1 .. Len(read)}
<1>6. \A i \in 1 .. Len(read) : DOMAIN files[i].blocks = 1 .. SizeOf(read[i]) /\ SizeOf(read[i]) \in Nat
  <2>1. \A i \in 1 .. Len(read) : read[i] \in FileRead
    OBVIOUS
  <2> QED BY <2>1, FileBlocks, ReadFacts
<1> HIDE DEF files
<1>7. seqs = [i \in 1 .. Len(read) |-> [k \in 1 .. SizeOf(read[i]) |-> Compiled(read, i, k)]]
  BY <1>1, <1>6
<1> HIDE DEF seqs
<1>8. ASSUME NEW i \in 1 .. Len(read)
      PROVE  seqs[i] \in Seq(U) /\ Elems(seqs[i]) = {Compiled(read, i, k) : k \in 1 .. SizeOf(read[i])}
  <2>1. seqs[i] = [k \in 1 .. SizeOf(read[i]) |-> Compiled(read, i, k)]
    BY <1>7
  <2>2. \A k \in 1 .. SizeOf(read[i]) : Compiled(read, i, k) \in U
    OBVIOUS
  <2> HIDE DEF U
  <2>3. seqs[i] \in Seq(U) /\ Len(seqs[i]) = SizeOf(read[i])
    BY <1>6, <2>1, <2>2
  <2> QED BY <2>1, <2>3 DEF Elems
<1>9. seqs \in Seq(Seq(U)) /\ Len(seqs) = Len(read)
  <2> DEFINE V == Seq(U)
  <2>1. seqs = [i \in 1 .. Len(read) |-> seqs[i]] /\ \A i \in 1 .. Len(read) : seqs[i] \in V
    BY <1>7, <1>8
  <2> HIDE DEF V, U
  <2>2. seqs \in Seq(V) /\ Len(seqs) = Len(read)
    BY <1>1, <2>1
  <2> QED BY <2>2 DEF V
<1>10. m.blocks \in Seq(U) /\ Elems(m.blocks) = UNION {Elems(seqs[i]) : i \in 1 .. Len(seqs)}
  <2> HIDE DEF U
  <2> QED BY <1>3, <1>9, FlatIs
<1>11. Elems(m.blocks) = U
  <2> DEFINE of(i) == {Compiled(read, i, k) : k \in 1 .. SizeOf(read[i])}
  <2>1. \A i \in 1 .. Len(read) : Elems(seqs[i]) = of(i)
    BY <1>8
  <2>2. UNION {Elems(seqs[i]) : i \in 1 .. Len(read)} = UNION {of(i) : i \in 1 .. Len(read)}
    <3> HIDE DEF of
    <3> QED BY <2>1
  <2> QED BY <1>9, <1>10, <2>2
<1>12. ToSet(m.blocks) = U
  <2> HIDE DEF U
  <2> QED BY <1>10, <1>11, ToSetIsElems
<1> QED BY <1>4, <1>5, <1>10, <1>12 DEF GoodCompile, m

-----------------------------------------------------------------------------
(* What is retrieved *)

(* No path is listed twice, and so none is read twice. *)
PathsDiffer(files, todo) ==
  /\ \A i, k \in 1 .. Len(files) : files[i].path = files[k].path => i = k
  /\ OneEach(todo)
  /\ \A i \in 1 .. Len(files), k \in 1 .. Len(todo) : files[i].path # todo[k]

(* What the retrieval relies on: an id names one block or document, and what
   a relationship or a document refers to is there. *)
GoodModel(m) ==
  /\ m.documents \in Seq(Documents(m)) /\ m.blocks \in Seq(Blocks(m))
  /\ BlockIds(m) \subseteq Nat \X Seq(Nat)
  /\ \A a, b \in Blocks(m) : a.id = b.id => a = b
  /\ \A d, e \in Documents(m) : d.id = e.id => d = e
  /\ \A b \in Blocks(m) : \A r \in ToSet(b.relationships) : r.target \in BlockIds(m)
  /\ \A d \in Documents(m) : d.rootBlock # Null =>
       \E b \in Blocks(m) : b.id = d.rootBlock /\ b.document = d.id

(* A compiled model is closed, if no path was read twice and ids tell paths apart. *)
LEMMA CompilesGood ==
  ASSUME IsInjective(deriveDocumentId),
         NEW read \in Seq(FileRead), PathsDiffer(read, <<>>)
  PROVE  GoodModel(Compile(read))
<1> DEFINE m == Compile(read)
<1>1. GoodCompile(m, read)
  BY CompileIs
<1> HIDE DEF m
<1>2. Len(read) \in Nat /\ \A i \in 1 .. Len(read) : read[i] \in FileRead
  OBVIOUS
<1>3. ASSUME NEW i \in 1 .. Len(read), NEW k \in 1 .. Len(read),
             DocumentOf(read[i]) = DocumentOf(read[k])
      PROVE  i = k
  <2>1. read[i].path \in Path /\ read[k].path \in Path
    BY <1>2, ReadFacts
  <2>2. DOMAIN deriveDocumentId = Path
    BY StoreAssumption DEF StoreAssumption
  <2>3. read[i].path = read[k].path
    BY <1>3, <2>1, <2>2 DEF DocumentOf, IsInjective
  <2> QED BY <2>3 DEF PathsDiffer
<1>4. ASSUME NEW b \in Blocks(m)
      PROVE  \E i \in 1 .. Len(read) : \E k \in 1 .. SizeOf(read[i]) :
               b = Compiled(read, i, k) /\ GoodCompiled(b, read, i, k)
  <2>1. b \in UNION {{Compiled(read, i, k) : k \in 1 .. SizeOf(read[i])} : i \in 1 .. Len(read)}
    BY <1>1, <1>4 DEF GoodCompile, Blocks
  <2>2. PICK i \in 1 .. Len(read) : \E k \in 1 .. SizeOf(read[i]) : b = Compiled(read, i, k)
    BY <2>1
  <2>3. PICK k \in 1 .. SizeOf(read[i]) : b = Compiled(read, i, k)
    BY <2>2
  <2>4. GoodCompiled(b, read, i, k)
    BY <2>3, CompiledIs
  <2> QED BY <2>3, <2>4
<1>5. ASSUME NEW i \in 1 .. Len(read), NEW k \in 1 .. SizeOf(read[i])
      PROVE  Compiled(read, i, k) \in Blocks(m) /\ GoodCompiled(Compiled(read, i, k), read, i, k)
  <2>1. Compiled(read, i, k)
          \in UNION {{Compiled(read, j, l) : l \in 1 .. SizeOf(read[j])} : j \in 1 .. Len(read)}
    OBVIOUS
  <2>2. GoodCompiled(Compiled(read, i, k), read, i, k)
    BY CompiledIs
  <2> QED BY <1>1, <2>1, <2>2 DEF GoodCompile, Blocks
<1>6. BlockIds(m) = Known(read)
  <2>1. ASSUME NEW b \in Blocks(m)
        PROVE  b.id \in Known(read)
    <3>1a. PICK i \in 1 .. Len(read) : \E k \in 1 .. SizeOf(read[i]) : GoodCompiled(b, read, i, k)
      BY <1>4
    <3>1. PICK k \in 1 .. SizeOf(read[i]) : GoodCompiled(b, read, i, k)
      BY <3>1a
    <3> QED BY <3>1, KnownAre DEF GoodCompiled
  <2>2. ASSUME NEW x \in Known(read)
        PROVE  x \in BlockIds(m)
    <3>1a. PICK i \in 1 .. Len(read) : \E k \in 1 .. SizeOf(read[i]) :
             x = <<DocumentOf(read[i]), PathIn(read[i], k)>>
      BY KnownAre
    <3>1. PICK k \in 1 .. SizeOf(read[i]) : x = <<DocumentOf(read[i]), PathIn(read[i], k)>>
      BY <3>1a
    <3>2. Compiled(read, i, k) \in Blocks(m) /\ Compiled(read, i, k).id = x
      BY <1>5, <3>1 DEF GoodCompiled
    <3> QED BY <3>2 DEF BlockIds
  <2> QED BY <2>1, <2>2 DEF BlockIds
<1>7. BlockIds(m) \subseteq Nat \X Seq(Nat)
  <2> SUFFICES ASSUME NEW b \in Blocks(m) PROVE b.id \in Nat \X Seq(Nat)
    BY DEF BlockIds
  <2>1a. PICK i \in 1 .. Len(read) : \E k \in 1 .. SizeOf(read[i]) : GoodCompiled(b, read, i, k)
    BY <1>4
  <2>1. PICK k \in 1 .. SizeOf(read[i]) : GoodCompiled(b, read, i, k)
    BY <2>1a
  <2>2. DocumentOf(read[i]) \in Nat /\ PathIn(read[i], k) \in Seq(Nat)
    BY <1>2, ReadFacts
  <2> QED BY <2>1, <2>2 DEF GoodCompiled
<1>8. ASSUME NEW a \in Blocks(m), NEW b \in Blocks(m), a.id = b.id
      PROVE  a = b
  <2>1a. PICK i \in 1 .. Len(read) : \E k \in 1 .. SizeOf(read[i]) :
           a = Compiled(read, i, k) /\ GoodCompiled(a, read, i, k)
    BY <1>4
  <2>1. PICK k \in 1 .. SizeOf(read[i]) : a = Compiled(read, i, k) /\ GoodCompiled(a, read, i, k)
    BY <2>1a
  <2>2a. PICK j \in 1 .. Len(read) : \E l \in 1 .. SizeOf(read[j]) :
           b = Compiled(read, j, l) /\ GoodCompiled(b, read, j, l)
    BY <1>4
  <2>2. PICK l \in 1 .. SizeOf(read[j]) : b = Compiled(read, j, l) /\ GoodCompiled(b, read, j, l)
    BY <2>2a
  <2>3. <<DocumentOf(read[i]), PathIn(read[i], k)>> = <<DocumentOf(read[j]), PathIn(read[j], l)>>
    BY <1>8, <2>1, <2>2 DEF GoodCompiled
  <2>4. DocumentOf(read[i]) = DocumentOf(read[j]) /\ PathIn(read[i], k) = PathIn(read[j], l)
    BY <2>3
  <2>5. i = j
    BY <1>3, <2>4
  <2>6. k = l
    BY <1>2, <2>4, <2>5, ReadFacts
  <2> QED BY <2>1, <2>2, <2>5, <2>6
<1>9. ASSUME NEW d \in Documents(m)
      PROVE  \E i \in 1 .. Len(read) : d = m.documents[i] /\ GoodDocument(d, read[i])
  <2>1. DOMAIN m.documents = 1 .. Len(read)
    BY <1>1 DEF GoodCompile
  <2> QED BY <1>1, <1>9, <2>1 DEF GoodCompile, Documents, ToSet
<1>10. ASSUME NEW d \in Documents(m), NEW e \in Documents(m), d.id = e.id
       PROVE  d = e
  <2>1. PICK i \in 1 .. Len(read) : d = m.documents[i] /\ GoodDocument(d, read[i])
    BY <1>9
  <2>2. PICK k \in 1 .. Len(read) : e = m.documents[k] /\ GoodDocument(e, read[k])
    BY <1>9
  <2>3. i = k
    BY <1>3, <1>10, <2>1, <2>2 DEF GoodDocument
  <2> QED BY <2>1, <2>2, <2>3
<1>11. ASSUME NEW b \in Blocks(m), NEW r \in ToSet(b.relationships)
       PROVE  r.target \in BlockIds(m)
  BY <1>4, <1>6 DEF GoodCompiled
<1>12. ASSUME NEW d \in Documents(m), d.rootBlock # Null
       PROVE  \E b \in Blocks(m) : b.id = d.rootBlock /\ b.document = d.id
  <2>1. PICK i \in 1 .. Len(read) : GoodDocument(d, read[i])
    BY <1>9
  <2>2. SizeOf(read[i]) # 0 /\ d.rootBlock = <<DocumentOf(read[i]), PathIn(read[i], 1)>>
        /\ d.id = DocumentOf(read[i])
    BY <1>12, <2>1 DEF GoodDocument
  <2>3. 1 \in 1 .. SizeOf(read[i])
    BY <1>2, <2>2, ReadFacts
  <2> QED BY <1>5, <2>2, <2>3 DEF GoodCompiled
<1>13. m.documents \in Seq(Documents(m)) /\ m.blocks \in Seq(Blocks(m))
  BY <1>1 DEF GoodCompile, Documents, Blocks
<1> QED BY <1>7, <1>8, <1>10, <1>11, <1>12, <1>13 DEF GoodModel, m

(* A Map has the last entry of each key. *)
LEMMA MapOfIs ==
  ASSUME NEW T, NEW entries \in Seq(T), NEW keys, DOMAIN keys = DOMAIN entries
  PROVE  /\ DOMAIN MapOf(keys, entries) = ToSet(keys)
         /\ \A k \in ToSet(keys) : \E i \in DOMAIN entries :
              keys[i] = k /\ MapOf(keys, entries)[k] = entries[i]
<1> DEFINE places(k) == {i \in DOMAIN keys : keys[i] = k}
<1>1. /\ DOMAIN MapOf(keys, entries) = ToSet(keys)
      /\ \A k \in ToSet(keys) : MapOf(keys, entries)[k] = entries[Max(places(k))]
  BY DEF MapOf
<1>2. ASSUME NEW k \in ToSet(keys)
      PROVE  Max(places(k)) \in places(k)
  <2>1. PICK i \in DOMAIN keys : k = keys[i]
    BY <1>2 DEF ToSet
  <2>2. places(k) # {} /\ places(k) \subseteq 0 .. Len(entries) /\ Len(entries) \in Nat
    BY <2>1
  <2> HIDE DEF places
  <2> QED BY <2>2, GreatestOf
<1> QED BY <1>1, <1>2

(* The block store serves what is in the last model as it is there. *)
ServedInv ==
  /\ GoodModel(model)
  /\ DOMAIN blocksById \subseteq Nat \X Seq(Nat)
  /\ \A b \in Blocks(model) : b.id \in DOMAIN blocksById /\ blocksById[b.id] = b
  /\ \A d \in Documents(model) : d.id \in DOMAIN documentsById /\ documentsById[d.id] = d
  /\ \A d \in Documents(model) :
       documentsBySlug[d.slug] \in Documents(model) /\ documentsBySlug[d.slug].slug = d.slug

(* A load makes the block store serve the new model, whatever it had. *)
LEMMA LoadServes ==
  ASSUME ServedInv, NEW m, GoodModel(m), BulkLoad(m), model' = m
  PROVE  ServedInv'
<1> DEFINE documentKeys == Ids(m.documents)
           slugKeys == Slugs(m.documents)
           blockKeys == Ids(m.blocks)
           ds == MapOf(documentKeys, m.documents)
           ss == MapOf(slugKeys, m.documents)
           bs == MapOf(blockKeys, m.blocks)
<1>1. m.documents \in Seq(Documents(m)) /\ m.blocks \in Seq(Blocks(m))
  BY DEF GoodModel
<1>2. /\ DOMAIN documentKeys = DOMAIN m.documents /\ DOMAIN slugKeys = DOMAIN m.documents
      /\ DOMAIN blockKeys = DOMAIN m.blocks
      /\ \A i \in DOMAIN m.documents : /\ documentKeys[i] = m.documents[i].id
                                       /\ slugKeys[i] = m.documents[i].slug
      /\ \A i \in DOMAIN m.blocks : blockKeys[i] = m.blocks[i].id
  BY DEF Ids, Slugs
<1>3. /\ documentsById' = Overlaid(documentsById, ds)
      /\ documentsBySlug' = Overlaid(documentsBySlug, ss)
      /\ blocksById' = Overlaid(blocksById, bs)
  BY DEF BulkLoad
<1> HIDE DEF documentKeys, slugKeys, blockKeys
<1>4. /\ DOMAIN ds = ToSet(documentKeys) /\ DOMAIN ss = ToSet(slugKeys) /\ DOMAIN bs = ToSet(blockKeys)
      /\ \A k \in ToSet(documentKeys) : \E i \in DOMAIN m.documents :
           documentKeys[i] = k /\ ds[k] = m.documents[i]
      /\ \A k \in ToSet(slugKeys) : \E i \in DOMAIN m.documents :
           slugKeys[i] = k /\ ss[k] = m.documents[i]
      /\ \A k \in ToSet(blockKeys) : \E i \in DOMAIN m.blocks :
           blockKeys[i] = k /\ bs[k] = m.blocks[i]
  BY <1>1, <1>2, MapOfIs
<1> HIDE DEF ds, ss, bs
<1>5. ASSUME NEW b \in Blocks(m)
      PROVE  b.id \in DOMAIN blocksById' /\ blocksById'[b.id] = b
  <2>1. PICK i \in DOMAIN m.blocks : b = m.blocks[i]
    BY <1>5 DEF Blocks, ToSet
  <2>2. b.id \in ToSet(blockKeys)
    BY <1>2, <2>1 DEF ToSet
  <2>3. PICK k \in DOMAIN m.blocks : blockKeys[k] = b.id /\ bs[b.id] = m.blocks[k]
    BY <1>4, <2>2
  <2>4. m.blocks[k] \in Blocks(m) /\ m.blocks[k].id = b.id
    BY <1>2, <2>3 DEF Blocks, ToSet
  <2>5. bs[b.id] = b
    BY <2>3, <2>4 DEF GoodModel
  <2> QED BY <1>3, <1>4, <2>2, <2>5 DEF Overlaid
<1>6. ASSUME NEW d \in Documents(m)
      PROVE  d.id \in DOMAIN documentsById' /\ documentsById'[d.id] = d
  <2>1. PICK i \in DOMAIN m.documents : d = m.documents[i]
    BY <1>6 DEF Documents, ToSet
  <2>2. d.id \in ToSet(documentKeys)
    BY <1>2, <2>1 DEF ToSet
  <2>3. PICK k \in DOMAIN m.documents : documentKeys[k] = d.id /\ ds[d.id] = m.documents[k]
    BY <1>4, <2>2
  <2>4. m.documents[k] \in Documents(m) /\ m.documents[k].id = d.id
    BY <1>2, <2>3 DEF Documents, ToSet
  <2>5. ds[d.id] = d
    BY <2>3, <2>4 DEF GoodModel
  <2> QED BY <1>3, <1>4, <2>2, <2>5 DEF Overlaid
<1>7. ASSUME NEW d \in Documents(m)
      PROVE  documentsBySlug'[d.slug] \in Documents(m) /\ documentsBySlug'[d.slug].slug = d.slug
  <2>1. PICK i \in DOMAIN m.documents : d = m.documents[i]
    BY <1>7 DEF Documents, ToSet
  <2>2. d.slug \in ToSet(slugKeys)
    BY <1>2, <2>1 DEF ToSet
  <2>3. PICK k \in DOMAIN m.documents : slugKeys[k] = d.slug /\ ss[d.slug] = m.documents[k]
    BY <1>4, <2>2
  <2>4. m.documents[k] \in Documents(m) /\ m.documents[k].slug = d.slug
    BY <1>2, <2>3 DEF Documents, ToSet
  <2>5. documentsBySlug'[d.slug] = ss[d.slug]
    BY <1>3, <1>4, <2>2 DEF Overlaid
  <2> QED BY <2>3, <2>4, <2>5
<1>8. DOMAIN blocksById' \subseteq Nat \X Seq(Nat)
  <2> DEFINE I == Nat \X Seq(Nat)
  <2>1. \A k \in ToSet(blockKeys) : k \in BlockIds(m)
    BY <1>2 DEF ToSet, BlockIds, Blocks
  <2>2. BlockIds(m) \subseteq I /\ DOMAIN blocksById \subseteq I
    BY DEF GoodModel, ServedInv
  <2> HIDE DEF I
  <2>3. DOMAIN blocksById' = DOMAIN blocksById \union DOMAIN bs
    BY <1>3 DEF Overlaid
  <2>4. DOMAIN blocksById' \subseteq I
    BY <1>4, <2>1, <2>2, <2>3
  <2> QED BY <2>4 DEF I
<1>9. GoodModel(model)' /\ Blocks(model)' = Blocks(m) /\ Documents(model)' = Documents(m)
  BY DEF GoodModel, Blocks, Documents, BlockIds
<1> QED BY <1>5, <1>6, <1>7, <1>8, <1>9 DEF ServedInv

(* The smaller of two numbers. *)
LEMMA MinOfTwo ==
  ASSUME NEW a \in Nat, NEW b \in Nat
  PROVE  Min({a, b}) = IF a <= b THEN a ELSE b
<1> DEFINE x == IF a <= b THEN a ELSE b
<1>1. \A y \in {a, b} : x <= y
  OBVIOUS
<1>2. \E z \in {a, b} : \A y \in {a, b} : z <= y
  BY <1>1
<1>3. Min({a, b}) \in {a, b} /\ \A y \in {a, b} : Min({a, b}) <= y
  BY <1>2 DEF Min
<1> QED BY <1>3

(* A part of a sequence. *)
LEMMA PartOf ==
  ASSUME NEW T, NEW s \in Seq(T), NEW n \in Nat, NEW k \in 0 .. Len(s)
  PROVE  /\ SubSeq(s, n + 1, k) \in Seq(T)
         /\ Len(SubSeq(s, n + 1, k)) = IF n <= k THEN k - n ELSE 0
         /\ \A i \in 1 .. Len(SubSeq(s, n + 1, k)) : SubSeq(s, n + 1, k)[i] = s[n + i]
  OBVIOUS

(* Two parts that follow each other. *)
LEMMA PartsJoin ==
  ASSUME NEW T, NEW s \in Seq(T), NEW n \in Nat, NEW k \in 0 .. Len(s), n <= k
  PROVE  SubSeq(s, 1, n) \o SubSeq(s, n + 1, k) = SubSeq(s, 1, k)
<1> DEFINE a == SubSeq(s, 1, n)
           b == SubSeq(s, n + 1, k)
           c == SubSeq(s, 1, k)
<1>1. n \in 0 .. Len(s) /\ Len(s) \in Nat /\ k \in Nat
  OBVIOUS
<1>2. /\ a \in Seq(T) /\ Len(a) = n /\ \A i \in 1 .. n : a[i] = s[i]
      /\ c \in Seq(T) /\ Len(c) = k /\ \A i \in 1 .. k : c[i] = s[i]
  BY <1>1, FrontAndRest
<1>3. b \in Seq(T) /\ Len(b) = k - n /\ \A i \in 1 .. Len(b) : b[i] = s[n + i]
  BY PartOf
<1> HIDE DEF a, b, c
<1>4. /\ a \o b \in Seq(T) /\ Len(a \o b) = k
      /\ \A i \in 1 .. n : (a \o b)[i] = a[i]
      /\ \A i \in 1 .. k - n : (a \o b)[n + i] = b[i]
  <2>1. /\ a \o b \in Seq(T) /\ Len(a \o b) = Len(a) + Len(b)
        /\ \A i \in 1 .. Len(a) : (a \o b)[i] = a[i]
        /\ \A i \in 1 .. Len(b) : (a \o b)[Len(a) + i] = b[i]
    <3>1. a \in Seq(T) /\ b \in Seq(T)
      BY <1>2, <1>3
    <3> QED BY <3>1, ConcatPlaces
  <2>2. Len(a) = n /\ Len(b) = k - n /\ Len(a) + Len(b) = k
    BY <1>1, <1>2, <1>3
  <2> QED BY <2>1, <2>2
<1> DEFINE w == a \o b
<1>5. ASSUME NEW i \in 1 .. k
      PROVE  w[i] = c[i]
  <2>1. CASE i <= n
    <3>1. i \in 1 .. n
      BY <1>1, <2>1
    <3>2. w[i] = a[i] /\ a[i] = s[i] /\ c[i] = s[i]
      BY <1>2, <1>4, <3>1
    <3> HIDE DEF w
    <3> QED BY <3>2
  <2>2. CASE i > n
    <3> DEFINE x == i - n
    <3>1. x \in 1 .. k - n /\ n + x = i
      BY <1>1, <2>2
    <3> HIDE DEF x
    <3>2. w[n + x] = b[x] /\ b[x] = s[n + x]
      BY <1>3, <1>4, <3>1
    <3>3. c[i] = s[i]
      BY <1>2
    <3> HIDE DEF w
    <3> QED BY <3>1, <3>2, <3>3
  <2>3. i <= n \/ i > n
    BY <1>1
  <2> QED BY <2>1, <2>2, <2>3, Zenon
<1>6. a \o b = c
  BY <1>2, <1>4, <1>5, SamePlaces
<1> QED BY <1>6 DEF a, b, c

(* A page that starts within the items, or after them. *)
LEMMA PageIs ==
  ASSUME NEW T, NEW items \in Seq(T), NEW offset \in Nat, NEW limit \in Nat \ {0}
  PROVE  /\ Page(items, offset, limit).nextCursor \in Nat \union {Null}
         /\ offset <= Len(items) =>
              \E n \in offset .. Len(items) :
                /\ Page(items, offset, limit).items = SubSeq(items, offset + 1, n)
                /\ Page(items, offset, limit).nextCursor = IF n < Len(items) THEN n ELSE Null
<1> DEFINE n == Min({offset + limit, Len(items)})
           slice == SubSeq(items, offset + 1, n)
<1>1. Len(items) \in Nat /\ offset + limit \in Nat
  OBVIOUS
<1>2. n = IF offset + limit <= Len(items) THEN offset + limit ELSE Len(items)
  BY <1>1, MinOfTwo
<1>3. n \in 0 .. Len(items)
  BY <1>1, <1>2
<1> HIDE DEF n
<1>4. Len(slice) = IF offset <= n THEN n - offset ELSE 0
  BY <1>3, PartOf
<1>5. /\ Page(items, offset, limit).items = slice
      /\ Page(items, offset, limit).nextCursor
           = IF offset + Len(slice) < Len(items) THEN offset + Len(slice) ELSE Null
  BY DEF Page, n
<1>6. offset + Len(slice) \in Nat
  BY <1>3, <1>4
<1>7. ASSUME offset <= Len(items)
      PROVE  n \in offset .. Len(items) /\ offset + Len(slice) = n
  BY <1>1, <1>2, <1>3, <1>4, <1>7
<1> QED BY <1>5, <1>6, <1>7

(* A consumer whose blocks stay the same has the first of them, and its cursor
   says how many, until it has all. *)
PageInv ==
  /\ pager = [cursor |-> pager.cursor, got |-> pager.got, steady |-> pager.steady]
  /\ pager.steady \in BOOLEAN
  /\ pager.cursor \in Nat \union {Null}
  /\ pager.steady => \E n \in 0 .. Len(Queried(model)) :
       /\ pager.got = SubSeq(Queried(model), 1, n)
       /\ pager.cursor = IF n < Len(Queried(model)) THEN n ELSE Null

(* A query returns a sequence. *)
LEMMA QueriedIs ==
  ASSUME NEW T, NEW m, m.blocks \in Seq(T)
  PROVE  Queried(m) \in Seq(ToSet(Queried(m))) /\ Len(Queried(m)) \in Nat
<1> DEFINE q == Queried(m)
           S == ToSet(q)
<1>1. DOMAIN m.blocks = 1 .. Len(m.blocks) /\ Len(m.blocks) \in Nat
  OBVIOUS
<1>2. q = [n \in 1 .. Len(m.blocks) |-> q[n]]
  BY <1>1 DEF Queried
<1> HIDE DEF q
<1>3. \A n \in 1 .. Len(m.blocks) : q[n] \in S
  BY <1>2 DEF ToSet
<1> HIDE DEF S
<1>4. q \in Seq(S)
  BY <1>1, <1>2, <1>3
<1> QED BY <1>4 DEF q, S

(* A page goes on where the pages before it ended. *)
LEMMA QueryPages ==
  ASSUME GoodModel(model), PageInv, NEW limit \in PageLimit, QueryPage(limit)
  PROVE  PageInv'
<1> DEFINE Q == Queried(model)
           first == pager.cursor = Null
           offset == IF first THEN 0 ELSE pager.cursor
           page == Page(Q, offset, limit)
           got == IF first THEN page.items ELSE pager.got \o page.items
<1>1. /\ pager' = [cursor |-> page.nextCursor, got |-> got, steady |-> first \/ pager.steady]
      /\ UNCHANGED model
  BY DEF QueryPage, storeVars
<1>2. limit \in Nat \ {0} /\ Null \notin Nat
  BY StoreAssumption, NullAssumption DEF StoreAssumption
<1>3. Q \in Seq(ToSet(Q)) /\ Len(Q) \in Nat
  BY QueriedIs DEF GoodModel
<1>4. offset \in Nat
  BY DEF PageInv
<1>5. Queried(model)' = Q
  BY <1>1
<1> HIDE DEF Q
<1>6. /\ page.nextCursor \in Nat \union {Null}
      /\ offset <= Len(Q) =>
           \E n \in offset .. Len(Q) : /\ page.items = SubSeq(Q, offset + 1, n)
                                       /\ page.nextCursor = IF n < Len(Q) THEN n ELSE Null
  BY <1>2, <1>3, <1>4, PageIs
<1> HIDE DEF page
<1>7. ASSUME first \/ pager.steady
      PROVE  \E n \in 0 .. Len(Q) : /\ got = SubSeq(Q, 1, n)
                                    /\ page.nextCursor = IF n < Len(Q) THEN n ELSE Null
  <2>1. CASE first
    <3>1. offset = 0
      BY <2>1
    <3>2. 0 <= Len(Q) /\ 0 + 1 = 1
      BY <1>3
    <3>3. PICK n \in 0 .. Len(Q) : /\ page.items = SubSeq(Q, 1, n)
                                   /\ page.nextCursor = IF n < Len(Q) THEN n ELSE Null
      BY <1>6, <3>1, <3>2
    <3>4. got = page.items
      BY <2>1
    <3> QED BY <3>3, <3>4
  <2>2. CASE ~first /\ pager.steady
    <3>1. PICK k \in 0 .. Len(Q) : /\ pager.got = SubSeq(Q, 1, k)
                                   /\ pager.cursor = IF k < Len(Q) THEN k ELSE Null
      BY <2>2 DEF PageInv, Q
    <3>2. offset = k /\ k < Len(Q)
      BY <2>2, <3>1
    <3>3. PICK n \in k .. Len(Q) : /\ page.items = SubSeq(Q, k + 1, n)
                                   /\ page.nextCursor = IF n < Len(Q) THEN n ELSE Null
      BY <1>3, <1>6, <3>2
    <3>4. k \in Nat /\ n \in 0 .. Len(Q) /\ k <= n
      BY <1>3, <3>1, <3>3
    <3>5. SubSeq(Q, 1, k) \o SubSeq(Q, k + 1, n) = SubSeq(Q, 1, n)
      BY <1>3, <3>4, PartsJoin
    <3>6. got = pager.got \o page.items
      BY <2>2
    <3> QED BY <3>1, <3>3, <3>4, <3>5, <3>6
  <2> QED BY <1>7, <2>1, <2>2
<1> HIDE DEF got, first
<1>8. (first \/ pager.steady) \in BOOLEAN
  OBVIOUS
<1> QED BY <1>1, <1>5, <1>6, <1>7, <1>8 DEF PageInv

(* What is loaded is served; who has begun a query goes on in it only if it
   finds the same. *)
LEMMA LoadRetrieves ==
  ASSUME ServedInv, PageInv, NEW m, GoodModel(m), Load(m)
  PROVE  ServedInv' /\ PageInv'
<1>1. BulkLoad(m) /\ model' = m /\ pager' = [pager EXCEPT !.steady = @ /\ Queried(m) = Queried(model)]
  BY DEF Load
<1>2. ServedInv'
  BY <1>1, LoadServes
<1> DEFINE steady == pager.steady /\ Queried(m) = Queried(model)
<1>3. pager' = [cursor |-> pager.cursor, got |-> pager.got, steady |-> steady]
  BY <1>1 DEF PageInv
<1>4. steady \in BOOLEAN
  OBVIOUS
<1>5. Queried(model)' = Queried(m)
  BY <1>1
<1> HIDE DEF steady
<1>6. pager'.cursor = pager.cursor /\ pager'.got = pager.got /\ pager'.steady = steady
  BY <1>3
<1>7. steady => pager.steady /\ Queried(m) = Queried(model)
  BY DEF steady
<1>8. PageInv'
  BY <1>3, <1>4, <1>5, <1>6, <1>7 DEF PageInv
<1> QED BY <1>2, <1>8

(* Without a load the same is served. *)
LEMMA RetrievalStays ==
  ASSUME ServedInv, PageInv, UNCHANGED <<blockStoreVars, model>>
  PROVE  ServedInv' /\ (UNCHANGED pager => PageInv')
<1>1. UNCHANGED <<documentsById, documentsBySlug, blocksById>>
  BY DEF blockStoreVars
<1>2. ServedInv'
  BY <1>1 DEF ServedInv, GoodModel, Blocks, Documents, BlockIds
<1>3. Queried(model)' = Queried(model)
  OBVIOUS
<1> QED BY <1>2, <1>3 DEF PageInv

PathsInv == \A j \in Job : PathsDiffer(job[j].read, job[j].todo)

(* No path is listed twice. *)
LEMMA PathsListed == PathsDiffer(<<>>, Listing) /\ PathsDiffer(<<>>, <<>>)
<1>1. PathOrder \in Seq(Path) /\ IsInjective(PathOrder)
  BY StoreAssumption DEF StoreAssumption
<1>2. OneEach(PathOrder)
  BY <1>1 DEF OneEach, IsInjective
<1>3. OneEach(Listing)
  BY <1>1, <1>2, ElemsOnly DEF Listing
<1>4. Len(<<>>) = 0 /\ 1 .. 0 = {}
  OBVIOUS
<1> QED BY <1>3, <1>4, ElemsOfNone DEF PathsDiffer

(* The next path has been read by no one before. *)
LEMMA PathsRead ==
  ASSUME NEW files \in Seq(FileRead), NEW todo \in Seq(Path), todo # <<>>, PathsDiffer(files, todo),
         NEW item \in FileRead, item.path = Head(todo)
  PROVE  PathsDiffer(Append(files, item), Tail(todo))
<1> DEFINE read == Append(files, item)
           rest == Tail(todo)
           n == Len(files)
<1>1. /\ n \in Nat /\ Len(read) = n + 1 /\ \A i \in 1 .. n : read[i] = files[i]
      /\ read[n + 1] = item
  BY AppendPlaces
<1>2. /\ Len(todo) \in Nat \ {0} /\ Len(rest) = Len(todo) - 1 /\ Head(todo) = todo[1]
      /\ \A k \in 1 .. Len(rest) : rest[k] = todo[k + 1]
  OBVIOUS
<1>3. OneEach(rest)
  BY ElemsTail DEF PathsDiffer
<1>4. /\ \A i, k \in 1 .. n : files[i].path = files[k].path => i = k
      /\ \A i \in 1 .. n, k \in 1 .. Len(todo) : files[i].path # todo[k]
      /\ \A i, k \in 1 .. Len(todo) : todo[i] = todo[k] => i = k
  BY DEF PathsDiffer, OneEach
<1> HIDE DEF read, rest, n
<1>5. 1 \in 1 .. Len(todo) /\ item.path = todo[1]
  BY <1>2
<1>6. \A i \in 1 .. n : read[i].path # read[n + 1].path
  BY <1>1, <1>4, <1>5
<1>7. ASSUME NEW i \in 1 .. Len(read), NEW k \in 1 .. Len(read), read[i].path = read[k].path
      PROVE  i = k
  <2>1. (i = n + 1 \/ i \in 1 .. n) /\ (k = n + 1 \/ k \in 1 .. n)
    BY <1>1
  <2>2. CASE i \in 1 .. n /\ k \in 1 .. n
    BY <1>1, <1>4, <1>7, <2>2
  <2>3. CASE i = n + 1 /\ k \in 1 .. n
    BY <1>6, <1>7, <2>3
  <2>4. CASE i \in 1 .. n /\ k = n + 1
    BY <1>6, <1>7, <2>4
  <2> QED BY <2>1, <2>2, <2>3, <2>4
<1>8. ASSUME NEW i \in 1 .. Len(read), NEW k \in 1 .. Len(rest)
      PROVE  read[i].path # rest[k]
  <2>1. rest[k] = todo[k + 1] /\ k + 1 \in 1 .. Len(todo) /\ k + 1 # 1
    BY <1>2
  <2>2. CASE i = n + 1
    BY <1>1, <1>4, <1>5, <2>1, <2>2
  <2>3. CASE i \in 1 .. n
    BY <1>1, <1>4, <2>1, <2>3
  <2> QED BY <1>1, <2>2, <2>3
<1>9. PathsDiffer(read, rest)
  BY <1>3, <1>7, <1>8 DEF PathsDiffer
<1> QED BY <1>9 DEF read, rest

(* A job that is given another state keeps PathsInv if its own paths differ. *)
LEMMA JobPaths ==
  ASSUME JobInv, PathsInv, NEW j \in Job, NEW s, PathsDiffer(s.read, s.todo),
         job' = [job EXCEPT ![j] = s]
  PROVE  PathsInv'
<1>1. DOMAIN job = Job
  <2> HIDE DEF JobState
  <2> QED BY DEF JobInv
<1>2. ASSUME NEW k \in Job
      PROVE  PathsDiffer(job[k].read, job[k].todo)'
  <2>1. job'[k] = IF k = j THEN s ELSE job[k]
    BY <1>1
  <2>2. PathsDiffer(job'[k].read, job'[k].todo)
    BY <2>1 DEF PathsInv
  <2> QED BY <2>2 DEF PathsDiffer, OneEach
<1> QED BY <1>2 DEF PathsInv

RetrievalInv == StoreInv /\ ServedInv /\ PathsInv /\ PageInv

(* The empty model is closed. *)
LEMMA EmptyServed == GoodModel(Empty)
<1>1. DOMAIN <<>> = {}
  OBVIOUS
<1>2. Documents(Empty) = {} /\ Blocks(Empty) = {}
  BY <1>1 DEF Documents, Blocks, Empty, ToSet
<1>3. Empty.documents \in Seq({}) /\ Empty.blocks \in Seq({})
  BY DEF Empty
<1> QED BY <1>2, <1>3 DEF GoodModel, BlockIds

(* RetrievalInv holds at first. *)
LEMMA RetrievalInit == ContentInit => RetrievalInv
<1> SUFFICES ASSUME ContentInit PROVE RetrievalInv
  OBVIOUS
<1>1. /\ job = [j \in Job |-> IdleJob] /\ model = Empty /\ blocksById = <<>>
      /\ pager = [cursor |-> Null, got |-> <<>>, steady |-> FALSE]
  BY DEF ContentInit
<1>2. PathsInv
  <2>1. \A j \in Job : job[j].read = <<>> /\ job[j].todo = <<>>
    BY <1>1 DEF IdleJob
  <2> QED BY <2>1, PathsListed DEF PathsInv
<1>3. ServedInv
  <2>1. DOMAIN <<>> = {}
    OBVIOUS
  <2>2. Documents(Empty) = {} /\ Blocks(Empty) = {}
    BY <2>1 DEF Documents, Blocks, Empty, ToSet
  <2> QED BY <1>1, <2>1, <2>2, EmptyServed DEF ServedInv
<1>4. PageInv
  BY <1>1 DEF PageInv
<1> QED BY <1>2, <1>3, <1>4, StoreInit DEF RetrievalInv

(* RetrievalInv is inductive. *)
LEMMA RetrievalStep ==
  ASSUME IsInjective(deriveDocumentId), RetrievalInv, [ContentNext]_contentVars
  PROVE  RetrievalInv'
<1> USE DEF RetrievalInv
<1>1. StoreInv' /\ JobInv
  BY StoreStep DEF StoreInv
<1>2. CASE UNCHANGED contentVars
  <2>1. UNCHANGED <<blockStoreVars, model, pager, job>>
    BY <1>2 DEF contentVars, storeVars
  <2>2. PathsInv'
    BY <2>1 DEF PathsInv, PathsDiffer, OneEach
  <2> QED BY <1>1, <2>1, <2>2, RetrievalStays
<1>3. ASSUME NEW p \in Path, NEW f \in File \union {Null}, Edit(p, f)
      PROVE  RetrievalInv'
  <2>1. UNCHANGED <<blockStoreVars, model, pager, job>>
    BY <1>3 DEF Edit, storeVars
  <2>2. PathsInv'
    BY <2>1 DEF PathsInv, PathsDiffer, OneEach
  <2> QED BY <1>1, <2>1, <2>2, RetrievalStays
<1>4. ASSUME NEW j \in Job, Webhook(j)
      PROVE  RetrievalInv'
  <2>1. CASE Listing = <<>>
    <3>1. Load(Compile(<<>>)) /\ job' = [job EXCEPT ![j] = IdleJob]
      BY <1>4, <2>1 DEF Webhook
    <3>2. <<>> \in Seq(FileRead)
      OBVIOUS
    <3>3. GoodModel(Compile(<<>>))
      BY <3>2, CompilesGood, PathsListed
    <3>4. ServedInv' /\ PageInv'
      BY <3>1, <3>3, LoadRetrieves
    <3>5. PathsDiffer(IdleJob.read, IdleJob.todo)
      BY PathsListed DEF IdleJob
    <3>6. PathsInv'
      BY <1>1, <3>1, <3>5, JobPaths
    <3> QED BY <1>1, <3>4, <3>6
  <2>2. CASE Listing # <<>>
    <3> DEFINE s == [phase |-> "reading", todo |-> Listing, read |-> <<>>]
    <3>1. job' = [job EXCEPT ![j] = s] /\ UNCHANGED <<blockStoreVars, model, pager>>
      BY <1>4, <2>2 DEF Webhook, storeVars
    <3>2. PathsDiffer(s.read, s.todo)
      BY PathsListed
    <3> HIDE DEF s
    <3>3. PathsInv'
      BY <1>1, <3>1, <3>2, JobPaths
    <3> QED BY <1>1, <3>1, <3>3, RetrievalStays
  <2> QED BY <2>1, <2>2
<1>5. ASSUME NEW j \in Job, ReadFile(j)
      PROVE  RetrievalInv'
  <2> DEFINE path == Head(job[j].todo)
             item == [path |-> path, file |-> source[path]]
             read == Append(job[j].read, item)
             rest == Tail(job[j].todo)
  <2>1. j \in Reading
    BY <1>5 DEF ReadFile
  <2>2. /\ job[j].todo \in Seq(Path) /\ job[j].todo # <<>> /\ job[j].read \in Seq(FileRead)
        /\ path \in Path
    <3>1. job[j].todo \in Seq(Path) /\ job[j].todo # <<>> /\ job[j].read \in Seq(FileRead)
      BY <1>1, <2>1, JobType
    <3> QED BY <3>1
  <2>3. ASSUME source[path] # Null
        PROVE  PathsDiffer(read, rest) /\ read \in Seq(FileRead)
    <3>1. item \in FileRead /\ item.path = path
      BY <1>1, <2>2, <2>3 DEF FileRead, JobInv, SourceType
    <3>2. PathsDiffer(job[j].read, job[j].todo)
      BY DEF PathsInv
    <3> HIDE DEF item
    <3> QED BY <2>2, <3>1, <3>2, PathsRead, AppendPlaces
  <2>4. CASE source[path] = Null
    <3>1. job' = [job EXCEPT ![j] = IdleJob] /\ UNCHANGED <<blockStoreVars, model, pager>>
      BY <1>5, <2>4 DEF ReadFile, storeVars
    <3>2. PathsDiffer(IdleJob.read, IdleJob.todo)
      BY PathsListed DEF IdleJob
    <3>3. PathsInv'
      BY <1>1, <3>1, <3>2, JobPaths
    <3> QED BY <1>1, <3>1, <3>3, RetrievalStays
  <2>5. CASE source[path] # Null /\ rest # <<>>
    <3> DEFINE s == [phase |-> "reading", todo |-> rest, read |-> read]
    <3>1. job' = [job EXCEPT ![j] = s] /\ UNCHANGED <<blockStoreVars, model, pager>>
      BY <1>5, <2>5 DEF ReadFile, storeVars
    <3> HIDE DEF read, rest, path
    <3>2. PathsDiffer(s.read, s.todo)
      BY <2>3, <2>5
    <3> HIDE DEF s
    <3>3. PathsInv'
      BY <1>1, <3>1, <3>2, JobPaths
    <3> QED BY <1>1, <3>1, <3>3, RetrievalStays
  <2>6. CASE source[path] # Null /\ rest = <<>>
    <3>1. Load(Compile(read)) /\ job' = [job EXCEPT ![j] = IdleJob]
      BY <1>5, <2>6 DEF ReadFile
    <3> HIDE DEF read, rest, path
    <3>2. read \in Seq(FileRead) /\ PathsDiffer(read, <<>>)
      BY <2>3, <2>6
    <3>3. GoodModel(Compile(read))
      BY <3>2, CompilesGood
    <3>4. ServedInv' /\ PageInv'
      BY <3>1, <3>3, LoadRetrieves
    <3>5. PathsDiffer(IdleJob.read, IdleJob.todo)
      BY PathsListed DEF IdleJob
    <3>6. PathsInv'
      BY <1>1, <3>1, <3>5, JobPaths
    <3> QED BY <1>1, <3>4, <3>6
  <2> QED BY <2>4, <2>5, <2>6
<1>6. CASE Respond
  <2>1. UNCHANGED <<blockStoreVars, model, pager, job>>
    BY <1>6 DEF Respond, storeVars
  <2>2. PathsInv'
    BY <2>1 DEF PathsInv, PathsDiffer, OneEach
  <2> QED BY <1>1, <2>1, <2>2, RetrievalStays
<1>7. ASSUME NEW limit \in PageLimit, QueryPage(limit)
      PROVE  RetrievalInv'
  <2>1. UNCHANGED <<blockStoreVars, model, job>>
    BY <1>7 DEF QueryPage, storeVars
  <2>2. PathsInv'
    BY <2>1 DEF PathsInv, PathsDiffer, OneEach
  <2>3. PageInv'
    BY <1>7, QueryPages DEF ServedInv
  <2> QED BY <1>1, <2>1, <2>2, <2>3, RetrievalStays
<1> QED BY <1>2, <1>3, <1>4, <1>5, <1>6, <1>7 DEF ContentNext

(* The types follow from the parts of the invariant. *)
LEMMA TypesKept == RetrievalInv => ContentTypeOK
<1> SUFFICES ASSUME RetrievalInv PROVE ContentTypeOK
  OBVIOUS
<1>1. JobInv /\ TimesInv /\ PageInv
  BY DEF RetrievalInv, StoreInv
<1>2. job \in [Job -> [phase : {"idle", "reading"}, todo : Seq(Path),
                       read : Seq([path : Path, file : File])]]
  BY <1>1 DEF JobInv, JobState, FileRead
<1>3. /\ documentModified \in [{d.id : d \in Documents(model)} -> 1 .. lastLoadAt]
      /\ blockModified \in [{b.id : b \in Blocks(model)} -> 1 .. lastLoadAt]
      /\ lastLoadAt \in 0 .. MaxLoadTime /\ seen.asOf \in 0 .. lastLoadAt
  BY <1>1 DEF TimesInv, DocumentIds, BlockIds
<1>4. /\ source \in [Path -> File \union {Null}] /\ edits \in 0 .. MaxEdits
      /\ \A j \in Job : (job[j].phase = "reading") = (job[j].todo # <<>>)
      /\ undisturbed \subseteq Job
  BY <1>1 DEF JobInv, SourceType
<1>5. fresh \in BOOLEAN
  BY <1>1 DEF JobInv
<1>6. pager.cursor \in Nat \union {Null}
  BY <1>1 DEF PageInv
<1> QED BY <1>2, <1>3, <1>4, <1>5, <1>6 DEF ContentTypeOK

(* What an index finds the block store serves. *)
LEMMA IndexesAreServed == ServedInv => IndexesServed
<1> SUFFICES ASSUME ServedInv PROVE IndexesServed
  OBVIOUS
<1> DEFINE I == Nat \X Seq(Nat)
<1>1. /\ \A b \in Blocks(model) : b.id \in DOMAIN blocksById /\ blocksById[b.id] = b
      /\ \A d \in Documents(model) : d.id \in DOMAIN documentsById /\ documentsById[d.id] = d
      /\ DOMAIN blocksById \subseteq I
  BY DEF ServedInv
<1>2. /\ \A d \in Documents(model) : d.rootBlock # Null =>
           \E b \in Blocks(model) : b.id = d.rootBlock /\ b.document = d.id
      /\ \A a, b \in Blocks(model) : a.id = b.id => a = b
  BY DEF ServedInv, GoodModel
<1>3. Null \notin I
  BY NullAssumption
<1> HIDE DEF I
<1>4. ASSUME NEW d \in Documents(model), NEW t \in DOMAIN TitlesWith
      PROVE  LET titled == queryBlocks({Criterion("title", t), Criterion("document", d.id)})
                 found == queryDocuments({Criterion("slug", d.slug), Criterion("title", t)})
             IN  /\ d \in found <=> \E b \in titled : b.id = d.rootBlock
                 /\ d \in found => toDocumentResult(d).title \in TitlesWith[t]
  <2> DEFINE titled == queryBlocks({Criterion("title", t), Criterion("document", d.id)})
             found == queryDocuments({Criterion("slug", d.slug), Criterion("title", t)})
  <2>1. titled = {b \in Blocks(model) : b.title \in TitlesWith[t] /\ b.document = d.id}
    <3>1. ASSUME NEW b
          PROVE  (\A c \in {Criterion("title", t), Criterion("document", d.id)} : blockMatchesCriterion(b, c))
                   <=> b.title \in TitlesWith[t] /\ b.document = d.id
      BY DEF blockMatchesCriterion, Criterion
    <3> QED BY <3>1 DEF queryBlocks, Blocks
  <2>2. d \in found <=> d.id \in DOMAIN documentTitles /\ documentTitles[d.id] \in TitlesWith[t]
    <3>1. (\A c \in {Criterion("slug", d.slug), Criterion("title", t)} : documentMatchesCriterion(d, c))
            <=> d.id \in DOMAIN documentTitles /\ documentTitles[d.id] \in TitlesWith[t]
      <4> HIDE DEF documentTitles
      <4> QED BY DEF documentMatchesCriterion, Criterion
    <3> QED BY <3>1 DEF queryDocuments, Documents
  <2>3. d.id \in DOMAIN documentTitles <=> d.rootBlock \in DOMAIN blocksById
    BY <1>1 DEF documentTitles
  <2>4. d.rootBlock \in DOMAIN blocksById =>
          /\ documentTitles[d.id] = blocksById[d.rootBlock].title
          /\ toDocumentResult(d).title = blocksById[d.rootBlock].title
    BY <1>1 DEF documentTitles, toDocumentResult
  <2>5. d.rootBlock \in DOMAIN blocksById =>
          \E b \in Blocks(model) : /\ b.id = d.rootBlock /\ b.document = d.id
                                   /\ blocksById[d.rootBlock] = b
    BY <1>1, <1>2, <1>3
  <2> HIDE DEF titled, found
  <2>6. d \in found => \E b \in titled : b.id = d.rootBlock
    BY <2>1, <2>2, <2>3, <2>4, <2>5
  <2>7. (\E b \in titled : b.id = d.rootBlock) => d \in found
    BY <1>1, <2>1, <2>2, <2>3, <2>4
  <2>8. d \in found => toDocumentResult(d).title \in TitlesWith[t]
    BY <2>2, <2>3, <2>4
  <2> QED BY <2>6, <2>7, <2>8 DEF titled, found
<1>5. ASSUME NEW d \in Documents(model), d.rootBlock # Null
      PROVE  blocksById[d.rootBlock].document = d.id
  BY <1>1, <1>2, <1>5
<1> QED BY <1>1, <1>4, <1>5 DEF IndexesServed

(* Both ends of a relationship are served. *)
LEMMA TraversalsAreSymmetric == ServedInv => TraversalSymmetric
<1> SUFFICES ASSUME ServedInv, NEW b \in Blocks(model), NEW r \in ToSet(b.relationships)
             PROVE  /\ [type |-> r.type, blockId |-> r.target] \in traverseOutbound(b.id)
                    /\ [type |-> r.type, blockId |-> b.id] \in traverseInbound(r.target)
  BY DEF TraversalSymmetric
<1>1. b.id \in DOMAIN blocksById /\ r.target \in DOMAIN blocksById
  <2>1. \A a \in Blocks(model) : a.id \in DOMAIN blocksById
    BY DEF ServedInv
  <2>2. r.target \in BlockIds(model)
    BY DEF ServedInv, GoodModel
  <2> QED BY <2>1, <2>2 DEF BlockIds
<1>2. b \in ToSet(model.blocks)
  BY DEF Blocks
<1>3. [type |-> r.type, blockId |-> r.target] \in traverseOutbound(b.id)
  <2>1. r \in UNION {ToSet(x.relationships) : x \in {y \in ToSet(model.blocks) : y.id = b.id}}
    BY <1>2
  <2> QED BY <1>1, <2>1 DEF traverseOutbound, Served
<1>4. [type |-> r.type, blockId |-> b.id] \in traverseInbound(r.target)
  <2> DEFINE back(c) == {[type |-> q.type, blockId |-> c.id] :
                           q \in {x \in ToSet(c.relationships) : x.target = r.target}}
             hit == [type |-> r.type, blockId |-> b.id]
  <2>1. hit \in back(b)
    OBVIOUS
  <2>2. traverseInbound(r.target) = Served(UNION {back(c) : c \in ToSet(model.blocks)})
    BY DEF traverseInbound
  <2>3. hit.blockId \in DOMAIN blocksById
    BY <1>1
  <2> HIDE DEF back, hit
  <2>4. hit \in UNION {back(c) : c \in ToSet(model.blocks)}
    BY <1>2, <2>1
  <2>5. hit \in traverseInbound(r.target)
    BY <2>2, <2>3, <2>4 DEF Served
  <2> QED BY <2>5 DEF hit
<1> QED BY <1>3, <1>4

(* A slug of one document leads to it. *)
LEMMA SlugsFind == ServedInv => SlugFinds
<1> SUFFICES ASSUME ServedInv, NEW d \in Documents(model),
                    \A other \in Documents(model) : other.slug = d.slug => other = d
             PROVE  documentsBySlug[d.slug] = d
  BY DEF SlugFinds
<1> QED BY DEF ServedInv

(* A cursor that has come to its end has gone through everything. *)
LEMMA PagesAreComplete == GoodModel(model) /\ PageInv => PagesComplete
<1> SUFFICES ASSUME GoodModel(model), PageInv, pager.steady
             PROVE  /\ pager.cursor = Null => pager.got = Queried(model)
                    /\ IsPrefix(pager.got, Queried(model))
  BY DEF PagesComplete
<1> DEFINE Q == Queried(model)
<1>1. Q \in Seq(ToSet(Q)) /\ Len(Q) \in Nat
  BY QueriedIs DEF GoodModel
<1>2. PICK n \in 0 .. Len(Q) : /\ pager.got = SubSeq(Q, 1, n)
                               /\ pager.cursor = IF n < Len(Q) THEN n ELSE Null
  BY DEF PageInv
<1> HIDE DEF Q
<1>3. Len(SubSeq(Q, 1, n)) = n /\ SubSeq(Q, 1, n) \in Seq(ToSet(Q)) /\ SubSeq(Q, 1, Len(Q)) = Q
  BY <1>1, PrefixFacts
<1>4. ASSUME pager.cursor = Null
      PROVE  pager.got = Q
  <2>1. n \in Nat /\ Null \notin Nat
    BY <1>1, NullAssumption
  <2>2. n = Len(Q)
    BY <1>1, <1>2, <1>4, <2>1
  <2> QED BY <1>2, <1>3, <2>2
<1>5. IsPrefix(pager.got, Q)
  <2> DEFINE front == SubSeq(Q, 1, n)
  <2>1. Len(front) = n /\ front \in Seq(ToSet(Q)) /\ n <= Len(Q)
    BY <1>1, <1>3
  <2>2. SubSeq(front, 1, Len(front)) = front
    BY <2>1, PrefixFacts
  <2>3. Len(front) <= Len(Q) /\ SubSeq(front, 1, Len(front)) = SubSeq(Q, 1, Len(front))
    BY <2>1, <2>2
  <2> HIDE DEF front
  <2>4. IsPrefix(front, Q)
    BY <2>3 DEF IsPrefix
  <2> QED BY <1>2, <2>4 DEF front
<1> QED BY <1>4, <1>5 DEF Q

(* All ways into the last model lead to the same blocks and documents, if no
   two paths have the same document id. *)
THEOREM RetrievalIsSound ==
  ASSUME IsInjective(deriveDocumentId)
  PROVE  ContentSpec => []RetrievalSound
<1>1. RetrievalInv /\ [ContentNext]_contentVars => RetrievalInv'
  BY RetrievalStep
<1>2. RetrievalInv => RetrievalSound
  BY TypesKept, IndexesAreServed, TraversalsAreSymmetric, SlugsFind, PagesAreComplete
     DEF RetrievalInv, RetrievalSound, ServedInv
<1> QED BY <1>1, <1>2, RetrievalInit, PTL DEF ContentSpec

-----------------------------------------------------------------------------
(* Access *)

USE AccessAssumption DEF AccessAssumption

Shape ==
  /\ clock \in Nat
  /\ DOMAIN cached = Visitor /\ DOMAIN fetching = Visitor /\ DOMAIN exchange = Request
  /\ \A v \in Visitor : cached[v] # None => cached[v].exp \in Nat

(* Whoever is fetching a token is the one who fetches for his visitor, whose
   own token is not good. *)
FetchesForAll ==
  \A r \in Request : exchange[r] # None => fetching[Owner[r]] = r /\ ~Valid(Owner[r])

IInv == Shape /\ FetchesForAll

(* A token is good under the same clock if it has not been changed. *)
LEMMA ValidStays ==
  ASSUME NEW v \in Visitor, UNCHANGED clock, cached'[v] = cached[v]
  PROVE  Valid(v)' = Valid(v)
  BY DEF Valid

(* The clock makes no token good. *)
LEMMA TickStep ==
  ASSUME IInv, Tick
  PROVE  IInv'
<1>1. clock' = clock + 1 /\ UNCHANGED <<cached, fetching, exchange>>
  BY DEF Tick, workerVars
<1>2. ASSUME NEW v \in Visitor, ~Valid(v)
      PROVE  ~Valid(v)'
  <2>1. CASE cached[v] = None
    BY <1>1, <2>1 DEF Valid
  <2>2. CASE cached[v] # None
    BY <1>1, <1>2, <2>2 DEF Valid, IInv, Shape
  <2> QED
    BY <2>1, <2>2
<1>3. Shape'
  BY <1>1 DEF IInv, Shape
<1> QED
  BY <1>1, <1>2, <1>3 DEF IInv, FetchesForAll

(* A request that finds another fetching waits; else it is the only one. *)
LEMMA AwaitingStep ==
  ASSUME IInv, NEW r \in Request, FetchAwaiting(r)
  PROVE  IInv'
<1>1. UNCHANGED <<clock, cached>> /\ ~Valid(Owner[r])
  BY DEF FetchAwaiting
<1>2. \A v \in Visitor : Valid(v)' = Valid(v)
  BY <1>1, ValidStays
<1>3. CASE fetching[Owner[r]] # None
  <2>1. UNCHANGED <<exchange, fetching>>
    BY <1>3 DEF FetchAwaiting
  <2> QED
    BY <1>1, <1>2, <2>1 DEF IInv, Shape, FetchesForAll
<1>4. CASE fetching[Owner[r]] = None
  <2>1. FetchToken(r)
    BY <1>4 DEF FetchAwaiting
  <2>2. /\ \A q \in Request : q # r => exchange'[q] = exchange[q]
        /\ \A v \in Visitor : fetching'[v] = IF v = Owner[r] THEN r ELSE fetching[v]
        /\ DOMAIN exchange' = Request /\ DOMAIN fetching' = Visitor
    BY <2>1 DEF FetchToken, IInv, Shape
  <2>3. ASSUME NEW q \in Request, exchange'[q] # None
        PROVE  fetching'[Owner[q]] = q /\ ~Valid(Owner[q])'
    <3>1. CASE q = r
      BY <1>1, <1>2, <2>2, <3>1
    <3>2. CASE q # r
      <4>1. fetching[Owner[q]] = q /\ ~Valid(Owner[q])
        BY <2>2, <2>3, <3>2 DEF IInv, FetchesForAll
      <4>2. Owner[q] # Owner[r]
        BY <1>4, <4>1
      <4> QED
        BY <1>2, <2>2, <4>1, <4>2
    <3> QED
      BY <3>1, <3>2
  <2> QED
    BY <1>1, <2>2, <2>3 DEF IInv, Shape, FetchesForAll
<1> QED
  BY <1>3, <1>4

(* When the one who fetches is done, no other of his visitor is fetching. *)
LEMMA ResumeStep ==
  ASSUME IInv, NEW r \in Request, NEW token, Fetches(r), Resume(r, token),
         UNCHANGED clock, DOMAIN cached' = Visitor,
         \A v \in Visitor : v # Owner[r] => cached'[v] = cached[v],
         cached'[Owner[r]] # None => cached'[Owner[r]].exp \in Nat
  PROVE  IInv'
<1>1. /\ \A q \in Request : exchange'[q] = IF q = r THEN None ELSE exchange[q]
      /\ \A v \in Visitor : fetching'[v] = IF v = Owner[r] THEN None ELSE fetching[v]
      /\ DOMAIN exchange' = Request /\ DOMAIN fetching' = Visitor
  BY DEF Resume, IInv, Shape
<1>2. fetching[Owner[r]] = r
  BY DEF Fetches, IInv, FetchesForAll
<1>3. ASSUME NEW q \in Request, exchange'[q] # None
      PROVE  fetching'[Owner[q]] = q /\ ~Valid(Owner[q])'
  <2>1. q # r /\ fetching[Owner[q]] = q /\ ~Valid(Owner[q])
    BY <1>1, <1>3 DEF IInv, FetchesForAll
  <2>2. Owner[q] # Owner[r]
    BY <1>2, <2>1
  <2>3. Valid(Owner[q])' = Valid(Owner[q])
    BY <2>2, ValidStays
  <2> QED
    BY <1>1, <2>1, <2>2, <2>3
<1>4. Shape'
  BY <1>1 DEF IInv, Shape
<1> QED
  BY <1>3, <1>4 DEF IInv, FetchesForAll

(* A worker that is terminated loses its token, which is none to be replaced. *)
LEMMA TerminateStep ==
  ASSUME IInv, NEW v \in Visitor, Terminate(v)
  PROVE  IInv'
<1>1. /\ UNCHANGED <<clock, fetching, exchange>>
      /\ DOMAIN cached' = Visitor
      /\ \A w \in Visitor : cached'[w] = IF w = v THEN None ELSE cached[w]
  BY DEF Terminate, IInv, Shape
<1>2. \A w \in Visitor : ~Valid(w) => ~Valid(w)'
  <2> SUFFICES ASSUME NEW w \in Visitor, ~Valid(w) PROVE ~Valid(w)'
    OBVIOUS
  <2>1. CASE w = v
    BY <1>1, <2>1 DEF Valid
  <2>2. CASE w # v
    BY <1>1, <2>2, ValidStays
  <2> QED
    BY <2>1, <2>2
<1> QED
  BY <1>1, <1>2 DEF IInv, Shape, FetchesForAll

(* The backend's answer to an exchange leaves the worker as it is. *)
LEMMA ExchangeStep ==
  ASSUME IInv, NEW r \in Request, Exchange(r)
  PROVE  IInv'
<1>1. /\ UNCHANGED <<clock, cached, fetching>> /\ exchange[r] # None
      /\ DOMAIN exchange' = Request
      /\ \A q \in Request : q # r => exchange'[q] = exchange[q]
  BY DEF Exchange, Fetches, IInv, Shape
<1>2. \A v \in Visitor : Valid(v)' = Valid(v)
  BY <1>1, ValidStays
<1> QED
  BY <1>1, <1>2 DEF IInv, Shape, FetchesForAll

(* Any other step leaves the clock, tokens and exchanges as they are. *)
LEMMA OtherStep ==
  ASSUME IInv, UNCHANGED <<clock, cached, fetching, exchange>>
  PROVE  IInv'
<1>1. \A v \in Visitor : Valid(v)' = Valid(v)
  BY ValidStays
<1> QED
  BY <1>1 DEF IInv, Shape, FetchesForAll

(* One step keeps the invariant, and replaces no good token. *)
LEMMA Step ==
  ASSUME IInv, [Next]_vars
  PROVE  /\ IInv'
         /\ \A v \in Visitor : Valid(v) => cached'[v] \in {cached[v], None}
<1>1. ASSUME Tick PROVE IInv' /\ cached' = cached
  BY <1>1, TickStep DEF Tick, workerVars
<1>2. ASSUME NEW v \in Visitor, Activate(v) PROVE IInv' /\ cached' = cached
  BY <1>2, OtherStep DEF Activate
<1>3. ASSUME NEW v \in Visitor, Terminate(v)
      PROVE  IInv' /\ \A w \in Visitor : cached'[w] \in {cached[w], None}
  BY <1>3, TerminateStep DEF Terminate, IInv, Shape
<1>4. ASSUME NEW r \in Request, FetchDirectly(r) \/ FetchWithCached(r)
      PROVE  IInv' /\ cached' = cached
  BY <1>4, OtherStep DEF FetchDirectly, FetchWithCached, workerVars
<1>5. ASSUME NEW r \in Request, FetchAwaiting(r) PROVE IInv' /\ cached' = cached
  BY <1>5, AwaitingStep DEF FetchAwaiting
<1>6. ASSUME NEW r \in Request, Exchange(r) PROVE IInv' /\ cached' = cached
  BY <1>6, ExchangeStep DEF Exchange
<1>7. ASSUME NEW r \in Request, ExchangeArrives(r)
      PROVE  IInv' /\ \A v \in Visitor : Valid(v) => cached'[v] = cached[v]
  <2>1. /\ Fetches(r) /\ Resume(r, exchange[r]) /\ UNCHANGED clock
        /\ exchange[r].exp \in Nat
        /\ cached' = [cached EXCEPT ![Owner[r]] = exchange[r]]
    BY <1>7 DEF ExchangeArrives, Token
  <2>2. /\ DOMAIN cached' = Visitor
        /\ cached'[Owner[r]] = exchange[r]
        /\ \A v \in Visitor : v # Owner[r] => cached'[v] = cached[v]
    BY <2>1 DEF IInv, Shape
  <2>3. ~Valid(Owner[r])
    BY <2>1 DEF Fetches, IInv, FetchesForAll
  <2>4. IInv'
    BY <2>1, <2>2, ResumeStep
  <2> QED
    BY <2>2, <2>3, <2>4
<1>8. ASSUME NEW r \in Request, ExchangeFails(r) PROVE IInv' /\ cached' = cached
  <2>1. Fetches(r) /\ Resume(r, None) /\ UNCHANGED <<clock, cached>>
    BY <1>8 DEF ExchangeFails
  <2>2. DOMAIN cached' = Visitor /\ (cached'[Owner[r]] # None => cached'[Owner[r]].exp \in Nat)
    BY <2>1 DEF IInv, Shape
  <2> QED
    BY <2>1, <2>2, ResumeStep
<1>9. ASSUME NEW r \in Request,
             Unauthorised(r) \/ Retrieve(r) \/ BeginTurn(r) \/ EndTurn(r) \/ Lost(r)
      PROVE  IInv' /\ cached' = cached
  BY <1>9, OtherStep DEF Unauthorised, Retrieve, BeginTurn, EndTurn, Lost, workerVars
<1>10. CASE UNCHANGED vars
  BY <1>10, OtherStep DEF vars, workerVars
<1> QED
  BY <1>1, <1>2, <1>3, <1>4, <1>5, <1>6, <1>7, <1>8, <1>9, <1>10 DEF Next

(* SessionStable for every value of the constants: however many requests come
   together, one exchange is made for them, and no token that is good is
   replaced (sw.ts, lines 51-65). *)
THEOREM TokensAreKept == Spec => SessionStable
<1>1. Init => IInv
  <2> SUFFICES ASSUME Init PROVE IInv
    OBVIOUS
  <2>1. Shape
    BY DEF Init, Shape
  <2>2. \A r \in Request : exchange[r] = None
    BY DEF Init
  <2> QED
    BY <2>1, <2>2 DEF IInv, FetchesForAll
<1>2. IInv /\ [Next]_vars => IInv'
  BY Step
<1>3. IInv /\ [Next]_vars =>
        [\A v \in Visitor : Valid(v) => cached'[v] \in {cached[v], None}]_vars
  BY Step
<1> QED
  BY <1>1, <1>2, <1>3, PTL DEF Spec, SessionStable
-----------------------------------------------------------------------------
(* Tokens.  A worker that is not activated knows nothing.  While a visitor is
   owed the tier of his secret, that tier is what his token, his requests and
   the exchange under way have or will have; before the first exchange, the
   secret is still with the worker. *)
Idle ==
  \A v \in Visitor : ~active[v] =>
    /\ owed[v] = None /\ cached[v] = None /\ fetching[v] = None
    /\ \A r \in Request : Owner[r] = v => bearer[r] = None
GivesTier(s, t) == s \in DOMAIN Granted /\ Granted[s] = t
Promises(e, t) == IF e \in Token THEN e.tier = t ELSE GivesTier(e.secret, t)
OwedComes ==
  \A v \in Visitor : owed[v] # None =>
    /\ cached[v] # None => cached[v].tier = owed[v]
    /\ cached[v] = None /\ fetching[v] = None => GivesTier(pending[v], owed[v])
    /\ \A r \in Request : Owner[r] = v =>
         /\ bearer[r] # None => bearer[r].tier = owed[v]
         /\ exchange[r] # None => Promises(exchange[r], owed[v])

(* What a request got from the cache, it got with the margin to spare. *)
FreshWhenCached ==
  \A r \in Request :
    /\ phase[r] \in {"new", "awaiting"} => cachedAt[r] = None
    /\ cachedAt[r] # None =>
         bearer[r] # None /\ bearer[r].exp + Behind > cachedAt[r] + Margin

TokenInv == TypeOK /\ FetchesForAll /\ Idle /\ OwedComes /\ FreshWhenCached

(* Limits.  The backend keeps the last of the calls of a tier that it has
   admitted; those before are out of the window. *)
TailFrom(kept, all, k) ==
  /\ kept \in Seq(Nat) /\ Len(kept) = Len(all) - k
  /\ \A i \in 1 .. Len(kept) : kept[i] = all[k + i]
KeepsRecent ==
  \A t \in Tier : \E k \in 0 .. Len(admitted[t]) :
    /\ TailFrom(callTimestamps[t], admitted[t], k)
    /\ \A i \in 1 .. k : admitted[t][i] + Window < clock

-----------------------------------------------------------------------------
(* What the requests are left with when they end, and in a turn. *)
LEMMA EndsType ==
  ASSUME TypeOK, NEW r \in Request, Ends(r)
  PROVE  /\ phase' \in [Request -> {"new", "awaiting", "sent", "turn", "done"}]
         /\ bearer' \in [Request -> Token \cup {None}]
         /\ cachedAt' \in [Request -> Nat \cup {None}]
  BY DEF Ends, TypeOK

(* What is sent carries a token, or none. *)
LEMMA SendType ==
  ASSUME TypeOK, NEW rs, NEW token \in Token \cup {None}, Send(rs, token)
  PROVE  /\ phase' \in [Request -> {"new", "awaiting", "sent", "turn", "done"}]
         /\ bearer' \in [Request -> Token \cup {None}]
  BY DEF Send, TypeOK

(* What the backend keeps of a tier's calls is a sequence of their times. *)
LEMMA RecentType ==
  ASSUME TypeOK, NEW t \in Tier
  PROVE  Recent(t) \in Seq(Nat)
<1> DEFINE c == callTimestamps[t]
           S == {at \in Nat : at + Window >= clock}
<1>1. c \in Seq(Nat)
  BY DEF TypeOK
<1>2. Only(c, S) \in Seq(Nat)
  <2> HIDE DEF c, S
  <2> QED BY <1>1, OnlyType
<1> QED BY <1>2 DEF Recent

(* A call that is admitted or refused keeps the types. *)
LEMMA ControlsType ==
  ASSUME TypeOK, NEW r \in Request, NEW t \in Tier, EnforceCostControls(r, t)
  PROVE  /\ callTimestamps' \in [Tier -> Seq(Nat)]
         /\ phase' \in [Request -> {"new", "awaiting", "sent", "turn", "done"}]
         /\ bearer' \in [Request -> Token \cup {None}]
         /\ cachedAt' \in [Request -> Nat \cup {None}]
<1> DEFINE kept == IF Limit[t] = Unlimited THEN callTimestamps[t] ELSE Recent(t)
<1>1. kept \in Seq(Nat)
  BY RecentType DEF TypeOK
<1>2. Append(kept, clock) \in Seq(Nat)
  BY <1>1 DEF TypeOK
<1>3. \/ callTimestamps' = [callTimestamps EXCEPT ![t] = kept] /\ Ends(r)
      \/ /\ callTimestamps' = [callTimestamps EXCEPT ![t] = Append(kept, clock)]
         /\ phase' = [phase EXCEPT ![r] = "turn"] /\ UNCHANGED <<bearer, cachedAt>>
  BY DEF EnforceCostControls
<1> HIDE DEF kept
<1>4. CASE callTimestamps' = [callTimestamps EXCEPT ![t] = kept] /\ Ends(r)
  BY <1>1, <1>4, EndsType DEF TypeOK
<1>5. CASE /\ callTimestamps' = [callTimestamps EXCEPT ![t] = Append(kept, clock)]
           /\ phase' = [phase EXCEPT ![r] = "turn"] /\ UNCHANGED <<bearer, cachedAt>>
  BY <1>2, <1>5 DEF TypeOK
<1> QED BY <1>3, <1>4, <1>5

(* The token of a request that is authorised names a tier. *)
LEMMA BearersTier ==
  ASSUME TypeOK, NEW r \in Request, Authorised(r)
  PROVE  bearer[r].tier \in Tier
  BY DEF Authorised, TypeOK, Token

(* Every variable keeps the type that sw.ts and the backend declare for it. *)
LEMMA TypeStep ==
  ASSUME TypeOK, [Next]_vars
  PROVE  TypeOK'
<1> USE DEF workerVars, requestVars, usageVars
<1>1. ASSUME Tick PROVE TypeOK'
  BY <1>1 DEF Tick, TypeOK
<1>2. ASSUME NEW v \in Visitor, Activate(v) PROVE TypeOK'
  <2>1. (IF link[v] \in DOMAIN Granted THEN Granted[link[v]] ELSE None) \in Tier \cup {None}
    OBVIOUS
  <2>2. active' \in [Visitor -> BOOLEAN]
    BY <1>2, Zenon DEF Activate, TypeOK
  <2> QED BY <1>2, <2>1, <2>2 DEF Activate, TypeOK
<1>3. ASSUME NEW v \in Visitor, Terminate(v) PROVE TypeOK'
  BY <1>3 DEF Terminate, TypeOK
<1>4. ASSUME NEW r \in Request, FetchDirectly(r) PROVE TypeOK'
  BY <1>4, SendType DEF FetchDirectly, TypeOK
<1>5. ASSUME NEW r \in Request, FetchWithCached(r) PROVE TypeOK'
  <2>1. cached[Owner[r]] \in Token \cup {None}
    BY DEF TypeOK
  <2>2. /\ phase' \in [Request -> {"new", "awaiting", "sent", "turn", "done"}]
        /\ bearer' \in [Request -> Token \cup {None}]
    BY <1>5, <2>1, SendType DEF FetchWithCached
  <2> QED BY <1>5, <2>2 DEF FetchWithCached, TypeOK
<1>6. ASSUME NEW r \in Request, FetchAwaiting(r) PROVE TypeOK'
  <2>1. phase' \in [Request -> {"new", "awaiting", "sent", "turn", "done"}]
    BY <1>6 DEF FetchAwaiting, TypeOK
  <2>2. CASE UNCHANGED <<exchange, pending, fetching, owed>>
    BY <1>6, <2>1, <2>2 DEF FetchAwaiting, TypeOK
  <2>3. CASE FetchToken(r)
    <3>1. [secret |-> pending[Owner[r]]] \in [secret : Secret \cup {None}]
      BY DEF TypeOK
    <3>2. exchange' \in [Request -> Token \cup {None} \cup [secret : Secret \cup {None}]]
      BY <2>3, <3>1 DEF FetchToken, TypeOK
    <3> QED BY <1>6, <2>1, <2>3, <3>2 DEF FetchToken, FetchAwaiting, TypeOK
  <2> QED BY <1>6, <2>2, <2>3 DEF FetchAwaiting
<1>7. ASSUME NEW r \in Request, NEW token \in Token \cup {None}, Resume(r, token)
      PROVE  /\ exchange' \in [Request -> Token \cup {None} \cup [secret : Secret \cup {None}]]
             /\ fetching' \in [Visitor -> Request \cup {None}]
             /\ phase' \in [Request -> {"new", "awaiting", "sent", "turn", "done"}]
             /\ bearer' \in [Request -> Token \cup {None}]
  <2>1. /\ phase' \in [Request -> {"new", "awaiting", "sent", "turn", "done"}]
        /\ bearer' \in [Request -> Token \cup {None}]
    BY <1>7, SendType DEF Resume
  <2>2. /\ exchange' = [exchange EXCEPT ![r] = None]
        /\ fetching' = [fetching EXCEPT ![Owner[r]] = None]
    BY <1>7 DEF Resume
  <2> QED BY <2>1, <2>2 DEF TypeOK
<1>8. ASSUME NEW r \in Request, ExchangeArrives(r) PROVE TypeOK'
  <2>1. exchange[r] \in Token /\ Resume(r, exchange[r])
    BY <1>8 DEF ExchangeArrives
  <2> QED BY <1>7, <1>8, <2>1 DEF ExchangeArrives, TypeOK
<1>9. ASSUME NEW r \in Request, ExchangeFails(r) PROVE TypeOK'
  BY <1>7, <1>9 DEF ExchangeFails, TypeOK
<1>10. ASSUME NEW r \in Request, Exchange(r) PROVE TypeOK'
  <2> DEFINE tier == IF exchange[r].secret = None THEN Anonymous ELSE Granted[exchange[r].secret]
             new == [tier |-> tier, session |-> r, exp |-> clock + Ttl]
  <2>1. tier \in Tier
    BY <1>10 DEF Exchange
  <2>2. clock + Ttl \in Nat
    BY DEF TypeOK
  <2>3. exchange' = [exchange EXCEPT ![r] = new]
    BY <1>10 DEF Exchange
  <2> HIDE DEF tier
  <2>4. new \in Token
    BY <2>1, <2>2 DEF Token
  <2> HIDE DEF new
  <2> QED BY <1>10, <2>3, <2>4 DEF Exchange, TypeOK
<1>11. ASSUME NEW r \in Request,
              Unauthorised(r) \/ Retrieve(r) \/ EndTurn(r) \/ Lost(r)
       PROVE  TypeOK'
  <2>1. Ends(r) /\ UNCHANGED <<clock, workerVars, usageVars, owed, stops>>
    BY <1>11 DEF Unauthorised, Retrieve, EndTurn, Lost
  <2> QED BY <2>1, EndsType DEF TypeOK
<1>12. ASSUME NEW r \in Request, BeginTurn(r) PROVE TypeOK'
  <2>1. bearer[r].tier \in Tier
    BY <1>12, BearersTier DEF BeginTurn
  <2> QED BY <1>12, <2>1, ControlsType DEF BeginTurn, TypeOK
<1>13. CASE UNCHANGED vars
  BY <1>13 DEF vars, TypeOK
<1> QED
  BY <1>1, <1>2, <1>3, <1>4, <1>5, <1>6, <1>8, <1>9, <1>10, <1>11, <1>12, <1>13 DEF Next

-----------------------------------------------------------------------------
(* A step that leaves the worker and its tokens alone takes tokens from
   requests at most. *)
LEMMA TokensLeft ==
  ASSUME Idle, OwedComes, UNCHANGED <<workerVars, owed>>,
         \A q \in Request : bearer'[q] \in {bearer[q], None}
  PROVE  Idle' /\ OwedComes'
  BY DEF Idle, OwedComes, Promises, GivesTier, workerVars

(* A request that waits is sent by the exchange of its own visitor. *)
LEMMA ResumedOwed ==
  ASSUME TypeOK, FetchesForAll, Idle, OwedComes,
         NEW r \in Request, NEW token \in Token \cup {None}, Fetches(r), Resume(r, token),
         UNCHANGED <<active, pending>>,
         \A v \in Visitor : v # Owner[r] => cached'[v] = cached[v] /\ owed'[v] = owed[v],
         owed'[Owner[r]] # None =>
           /\ token # None /\ cached'[Owner[r]] = token /\ owed'[Owner[r]] = owed[Owner[r]]
           /\ token.tier = owed[Owner[r]]
  PROVE  Idle' /\ OwedComes'
<1> DEFINE v == Owner[r]
<1>1. v \in Visitor /\ fetching[v] = r /\ r # None
  BY DEF Fetches, FetchesForAll
<1>2. /\ \A q \in Request : exchange'[q] = IF q = r THEN None ELSE exchange[q]
      /\ \A w \in Visitor : fetching'[w] = IF w = v THEN None ELSE fetching[w]
  BY DEF Resume, TypeOK
<1>3. \A q \in Request : bearer'[q] = bearer[q] \/ (Owner[q] = v /\ bearer'[q] = token)
  BY DEF Resume, Send
<1>4. active[v]
  BY <1>1 DEF Idle
<1>5. Idle'
  <2> SUFFICES ASSUME NEW w \in Visitor, ~active[w]
               PROVE  /\ owed'[w] = None /\ cached'[w] = None /\ fetching'[w] = None
                      /\ \A q \in Request : Owner[q] = w => bearer'[q] = None
    BY DEF Idle
  <2>1. w # v
    BY <1>4
  <2> QED BY <1>2, <1>3, <2>1 DEF Idle
<1>6. OwedComes'
  <2> SUFFICES ASSUME NEW w \in Visitor, owed'[w] # None
               PROVE  /\ cached'[w] # None => cached'[w].tier = owed'[w]
                      /\ cached'[w] = None /\ fetching'[w] = None => GivesTier(pending[w], owed'[w])
                      /\ \A q \in Request : Owner[q] = w =>
                           /\ bearer'[q] # None => bearer'[q].tier = owed'[w]
                           /\ exchange'[q] # None => Promises(exchange'[q], owed'[w])
    BY DEF OwedComes, Promises, GivesTier
  <2>1. CASE w = v
    BY <1>1, <1>2, <1>3, <2>1 DEF OwedComes
  <2>2. CASE w # v
    BY <1>1, <1>2, <1>3, <2>2 DEF OwedComes
  <2> QED BY <2>1, <2>2
<1> QED BY <1>5, <1>6

(* Every step leaves a visitor with what he is owed, or owes him nothing. *)
LEMMA OwedStep ==
  ASSUME TypeOK, FetchesForAll, Idle, OwedComes, [Next]_vars
  PROVE  Idle' /\ OwedComes'
<1> USE DEF requestVars, usageVars
<1>1. ASSUME NEW r \in Request,
             \/ FetchDirectly(r) \/ Unauthorised(r) \/ Retrieve(r)
             \/ BeginTurn(r) \/ EndTurn(r) \/ Lost(r)
      PROVE  Idle' /\ OwedComes'
  <2>1. UNCHANGED <<workerVars, owed>>
    BY <1>1 DEF FetchDirectly, Unauthorised, Retrieve, BeginTurn, EndTurn, Lost
  <2>2. Send({r}, None) \/ Ends(r) \/ bearer' = bearer
    BY <1>1 DEF FetchDirectly, Unauthorised, Retrieve, BeginTurn, EndTurn, Lost,
                EnforceCostControls
  <2>3. \A q \in Request : bearer'[q] \in {bearer[q], None}
    BY <2>2 DEF Send, Ends, TypeOK
  <2> QED BY <2>1, <2>3, TokensLeft
<1>2. ASSUME Tick \/ UNCHANGED vars PROVE Idle' /\ OwedComes'
  <2>1. UNCHANGED <<workerVars, owed>> /\ \A q \in Request : bearer'[q] \in {bearer[q], None}
    BY <1>2 DEF Tick, vars
  <2> QED BY <2>1, TokensLeft
<1>3. ASSUME NEW v \in Visitor, Activate(v) PROVE Idle' /\ OwedComes'
  <2>1. /\ ~active[v] /\ UNCHANGED <<cached, fetching, exchange, bearer>>
        /\ \A w \in Visitor : w # v => /\ active'[w] = active[w] /\ pending'[w] = pending[w]
                                       /\ owed'[w] = owed[w]
        /\ active'[v] /\ pending'[v] = link[v]
        /\ owed'[v] # None => GivesTier(link[v], owed'[v])
    <3>1. active'[v] /\ \A w \in Visitor : w # v => active'[w] = active[w]
      BY <1>3, Zenon DEF Activate, TypeOK
    <3> QED BY <1>3, <3>1 DEF Activate, TypeOK, GivesTier
  <2>2. \A r \in Request : Owner[r] = v => bearer[r] = None /\ exchange[r] = None
    BY <2>1 DEF Idle, FetchesForAll
  <2>3. cached[v] = None /\ fetching[v] = None
    BY <2>1 DEF Idle
  <2>4. Idle'
    BY <2>1 DEF Idle
  <2>5. OwedComes'
    <3> SUFFICES ASSUME NEW w \in Visitor, owed'[w] # None
                 PROVE  /\ cached[w] # None => cached[w].tier = owed'[w]
                        /\ cached[w] = None /\ fetching[w] = None => GivesTier(pending'[w], owed'[w])
                        /\ \A q \in Request : Owner[q] = w =>
                             /\ bearer[q] # None => bearer[q].tier = owed'[w]
                             /\ exchange[q] # None => Promises(exchange[q], owed'[w])
      BY <2>1 DEF OwedComes, Promises, GivesTier
    <3>1. CASE w = v
      BY <2>1, <2>2, <2>3, <3>1
    <3>2. CASE w # v
      BY <2>1, <3>2 DEF OwedComes
    <3> QED BY <3>1, <3>2
  <2> QED BY <2>4, <2>5
<1>4. ASSUME NEW v \in Visitor, Terminate(v) PROVE Idle' /\ OwedComes'
  <2>1. /\ active[v] /\ UNCHANGED <<active, fetching, exchange, bearer>>
        /\ \A w \in Visitor : w # v => /\ cached'[w] = cached[w] /\ pending'[w] = pending[w]
                                       /\ owed'[w] = owed[w]
        /\ owed'[v] = None
    BY <1>4 DEF Terminate, TypeOK
  <2> QED BY <2>1 DEF Idle, OwedComes, Promises, GivesTier
<1>5. ASSUME NEW r \in Request, FetchWithCached(r) PROVE Idle' /\ OwedComes'
  <2> DEFINE v == Owner[r]
  <2>1. /\ active[v] /\ cached[v] # None /\ UNCHANGED <<workerVars, owed>>
        /\ \A q \in Request : bearer'[q] = IF q = r THEN cached[v] ELSE bearer[q]
    BY <1>5 DEF FetchWithCached, Valid, Send
  <2> QED BY <2>1 DEF Idle, OwedComes, Promises, GivesTier, workerVars
<1>6. ASSUME NEW r \in Request, FetchAwaiting(r) PROVE Idle' /\ OwedComes'
  <2> DEFINE v == Owner[r]
  <2>1. active[v] /\ UNCHANGED <<active, cached, bearer>>
    BY <1>6 DEF FetchAwaiting
  <2>2. CASE UNCHANGED <<exchange, pending, fetching, owed>>
    BY <2>1, <2>2 DEF Idle, OwedComes, Promises, GivesTier
  <2>3. CASE fetching[v] = None /\ FetchToken(r)
    <3>1. /\ \A q \in Request : exchange'[q] = IF q = r THEN [secret |-> pending[v]] ELSE exchange[q]
          /\ \A w \in Visitor : /\ pending'[w] = IF w = v THEN None ELSE pending[w]
                                /\ fetching'[w] = IF w = v THEN r ELSE fetching[w]
                                /\ w # v => owed'[w] = owed[w]
          /\ owed'[v] # None => cached[v] = None /\ owed'[v] = owed[v]
      BY <2>3 DEF FetchToken, TypeOK
    <3>2. Idle'
      BY <2>1, <3>1 DEF Idle
    <3>3. \A q \in Request : Owner[q] = v => exchange[q] = None
      BY <2>3 DEF FetchesForAll
    <3>4. OwedComes'
      <4> SUFFICES ASSUME NEW w \in Visitor, owed'[w] # None
                   PROVE  /\ cached[w] # None => cached[w].tier = owed'[w]
                          /\ cached[w] = None /\ fetching'[w] = None => GivesTier(pending'[w], owed'[w])
                          /\ \A q \in Request : Owner[q] = w =>
                               /\ bearer[q] # None => bearer[q].tier = owed'[w]
                               /\ exchange'[q] # None => Promises(exchange'[q], owed'[w])
        BY <2>1 DEF OwedComes, Promises, GivesTier
      <4>1. CASE w = v
        <5>1. GivesTier(pending[v], owed'[v])
          BY <2>3, <3>1, <4>1 DEF OwedComes
        <5>2. [secret |-> pending[v]] \notin Token /\ [secret |-> pending[v]].secret = pending[v]
          BY DEF Token
        <5>3. Promises([secret |-> pending[v]], owed'[v])
          BY <5>1, <5>2 DEF Promises
        <5> QED BY <3>1, <3>3, <4>1, <5>3 DEF OwedComes
      <4>2. CASE w # v
        BY <3>1, <4>2 DEF OwedComes
      <4> QED BY <4>1, <4>2
    <3> QED BY <3>2, <3>4
  <2> QED BY <1>6, <2>2, <2>3 DEF FetchAwaiting
<1>7. ASSUME NEW r \in Request, Exchange(r) PROVE Idle' /\ OwedComes'
  <2> DEFINE e == exchange[r]
             new == [tier |-> IF e.secret = None THEN Anonymous ELSE Granted[e.secret],
                     session |-> r, exp |-> clock + Ttl]
  <2>1. /\ e # None /\ e \notin Token /\ UNCHANGED <<active, pending, cached, fetching, bearer, owed>>
        /\ \A q \in Request : exchange'[q] = IF q = r THEN new ELSE exchange[q]
    BY <1>7 DEF Exchange, Fetches, TypeOK
  <2>2. ASSUME NEW t, Promises(e, t)
        PROVE  Promises(new, t)
    <3>1. GivesTier(e.secret, t) /\ e.secret # None
      BY <2>1, <2>2 DEF Promises, GivesTier
    <3>2. new.tier = t
      BY <3>1 DEF GivesTier
    <3>3. new \in Token
      <4>1. t \in Tier
        BY <3>1 DEF GivesTier
      <4> QED BY <3>2, <4>1 DEF Token, TypeOK
    <3> QED BY <3>2, <3>3 DEF Promises
  <2> HIDE DEF new
  <2>3. Idle'
    BY <2>1 DEF Idle
  <2>4. OwedComes'
    <3> SUFFICES ASSUME NEW w \in Visitor, owed[w] # None
                 PROVE  /\ cached[w] # None => cached[w].tier = owed[w]
                        /\ cached[w] = None /\ fetching[w] = None => GivesTier(pending[w], owed[w])
                        /\ \A q \in Request : Owner[q] = w =>
                             /\ bearer[q] # None => bearer[q].tier = owed[w]
                             /\ exchange'[q] # None => Promises(exchange'[q], owed[w])
      BY <2>1 DEF OwedComes, Promises, GivesTier
    <3> QED BY <2>1, <2>2 DEF OwedComes
  <2> QED BY <2>3, <2>4
<1>8. ASSUME NEW r \in Request, ExchangeArrives(r) PROVE Idle' /\ OwedComes'
  <2> DEFINE v == Owner[r]
             token == exchange[r]
  <2>1. /\ Fetches(r) /\ token # None /\ token \in Token /\ Resume(r, token)
        /\ UNCHANGED <<active, pending, owed>>
        /\ cached' = [cached EXCEPT ![v] = token]
    BY <1>8 DEF ExchangeArrives, Fetches
  <2>2. cached'[v] = token /\ \A w \in Visitor : w # v => cached'[w] = cached[w]
    BY <2>1 DEF TypeOK
  <2>3. owed[v] # None => token.tier = owed[v]
    BY <2>1 DEF OwedComes, Promises
  <2> HIDE DEF token
  <2> QED BY <2>1, <2>2, <2>3, ResumedOwed
<1>9. ASSUME NEW r \in Request, ExchangeFails(r) PROVE Idle' /\ OwedComes'
  <2>1. /\ Fetches(r) /\ Resume(r, None) /\ UNCHANGED <<active, pending, cached>>
        /\ owed' = [owed EXCEPT ![Owner[r]] = None]
    BY <1>9 DEF ExchangeFails
  <2>2. owed'[Owner[r]] = None /\ \A w \in Visitor : w # Owner[r] => owed'[w] = owed[w]
    BY <2>1 DEF TypeOK
  <2> QED BY <2>1, <2>2, ResumedOwed
<1> QED
  BY <1>1, <1>2, <1>3, <1>4, <1>5, <1>6, <1>7, <1>8, <1>9 DEF Next

-----------------------------------------------------------------------------
(* The token of a request is as good as when it was taken from the cache. *)
LEMMA FreshStep ==
  ASSUME TypeOK, FreshWhenCached, [Next]_vars
  PROVE  FreshWhenCached'
<1> USE DEF requestVars
<1>1. ASSUME NEW r \in Request, Ends(r) PROVE FreshWhenCached'
  <2>1. \A q \in Request : IF q = r THEN phase'[q] = "done" /\ cachedAt'[q] = None
          ELSE phase'[q] = phase[q] /\ cachedAt'[q] = cachedAt[q] /\ bearer'[q] = bearer[q]
    BY <1>1 DEF Ends, TypeOK
  <2> QED BY <2>1 DEF FreshWhenCached
<1>2. ASSUME UNCHANGED requestVars PROVE FreshWhenCached'
  BY <1>2 DEF FreshWhenCached
<1>3. ASSUME NEW rs, NEW token, Send(rs, token), UNCHANGED cachedAt,
             \A q \in Request : q \in rs => phase[q] \in {"new", "awaiting"}
      PROVE  FreshWhenCached'
  BY <1>3 DEF Send, FreshWhenCached
<1>4. ASSUME NEW r \in Request, FetchWithCached(r) PROVE FreshWhenCached'
  <2> DEFINE token == cached[Owner[r]]
  <2>1. /\ token # None /\ token.exp + Behind > clock + Margin
        /\ \A q \in Request :
             /\ phase'[q] = IF q = r THEN "sent" ELSE phase[q]
             /\ bearer'[q] = IF q = r THEN token ELSE bearer[q]
             /\ cachedAt'[q] = IF q = r THEN clock ELSE cachedAt[q]
    BY <1>4 DEF FetchWithCached, Send, Valid, TypeOK
  <2> HIDE DEF token
  <2> QED BY <2>1 DEF FreshWhenCached
<1>5. ASSUME NEW r \in Request, phase' = [phase EXCEPT ![r] = "awaiting"], phase[r] = "new",
             UNCHANGED <<bearer, cachedAt>>
      PROVE  FreshWhenCached'
  BY <1>5 DEF FreshWhenCached, TypeOK
<1>6. ASSUME NEW r \in Request, phase' = [phase EXCEPT ![r] = "turn"],
             UNCHANGED <<bearer, cachedAt>>
      PROVE  FreshWhenCached'
  BY <1>6 DEF FreshWhenCached, TypeOK
<1>7. ASSUME NEW r \in Request, FetchDirectly(r) PROVE FreshWhenCached'
  BY <1>3, <1>7 DEF FetchDirectly
<1>8. ASSUME NEW r \in Request, FetchAwaiting(r) PROVE FreshWhenCached'
  BY <1>5, <1>8 DEF FetchAwaiting
<1>9. ASSUME NEW r \in Request, NEW token, Resume(r, token), UNCHANGED cachedAt
      PROVE  FreshWhenCached'
  BY <1>3, <1>9 DEF Resume
<1>10. ASSUME NEW r \in Request, ExchangeArrives(r) \/ ExchangeFails(r)
       PROVE  FreshWhenCached'
  BY <1>9, <1>10 DEF ExchangeArrives, ExchangeFails
<1>11. ASSUME NEW r \in Request,
              Unauthorised(r) \/ Retrieve(r) \/ EndTurn(r) \/ Lost(r) \/ BeginTurn(r)
       PROVE  FreshWhenCached'
  BY <1>1, <1>6, <1>11 DEF Unauthorised, Retrieve, EndTurn, Lost, BeginTurn, EnforceCostControls
<1>12. ASSUME NEW r \in Request, Exchange(r) PROVE FreshWhenCached'
  BY <1>2, <1>12 DEF Exchange
<1>13. ASSUME NEW v \in Visitor, Activate(v) \/ Terminate(v) PROVE FreshWhenCached'
  BY <1>2, <1>13 DEF Activate, Terminate
<1>14. ASSUME Tick \/ UNCHANGED vars PROVE FreshWhenCached'
  BY <1>2, <1>14 DEF Tick, vars
<1> QED
  BY <1>4, <1>7, <1>8, <1>10, <1>11, <1>12, <1>13, <1>14 DEF Next
-----------------------------------------------------------------------------
(* The limiter itself, for any tiers, limits and window: calls are admitted in
   the order of time, and any two with Limit - 1 others or more between them
   are spread over more than the window. *)
AdmittedInOrder ==
  \A t \in Tier :
    /\ \A i \in DOMAIN admitted[t] : admitted[t][i] <= clock
    /\ \A i, j \in DOMAIN admitted[t] : i <= j => admitted[t][i] <= admitted[t][j]
Spread ==
  \A t \in Tier : Limit[t] # Unlimited =>
    \A i, j \in DOMAIN admitted[t] :
      i + Limit[t] <= j => admitted[t][j] > admitted[t][i] + Window
WindowInv == Limiter!TypeOK /\ AdmittedInOrder /\ Spread

(* What is appended is admitted now, and everything else is as before. *)
LEMMA Appended ==
  ASSUME NEW s \in Seq(Nat), NEW at \in Nat
  PROVE  /\ Append(s, at) \in Seq(Nat)
         /\ DOMAIN Append(s, at) = DOMAIN s \cup {Len(s) + 1}
         /\ DOMAIN s = 1 .. Len(s) /\ Len(s) \in Nat
         /\ \A i \in DOMAIN s : Append(s, at)[i] = s[i] /\ s[i] \in Nat
         /\ Append(s, at)[Len(s) + 1] = at
  OBVIOUS

(* The limits are as the backend's configuration has them. *)
LEMMA Limits ==
  /\ Unlimited \notin Nat /\ Window \in Nat
  /\ \A t \in Tier : Limit[t] # Unlimited => Limit[t] \in Nat \ {0}
  BY LimitAssumption DEF Limiter!WindowAssumption

(* A call is admitted only when the Limit-th last is out of the window, and so
   is every one before that. *)
LEMMA AdmitStep ==
  ASSUME WindowInv, NEW t \in Tier, Limiter!Admit(t)
  PROVE  WindowInv'
<1> DEFINE old == admitted[t]
           new == Append(old, clock)
<1>1. old \in Seq(Nat) /\ clock \in Nat /\ clock' = clock /\ Window \in Nat
  BY Limits DEF WindowInv, Limiter!TypeOK, Limiter!Admit
<1>2. \A u \in Tier : admitted'[u] = IF u = t THEN new ELSE admitted[u]
  BY DEF Limiter!Admit, WindowInv, Limiter!TypeOK
<1>3. /\ new \in Seq(Nat)
      /\ DOMAIN new = DOMAIN old \cup {Len(old) + 1}
      /\ DOMAIN old = 1 .. Len(old) /\ Len(old) \in Nat
      /\ \A i \in DOMAIN old : new[i] = old[i] /\ old[i] \in Nat
      /\ new[Len(old) + 1] = clock
  BY <1>1, Appended
<1>4. /\ \A i \in DOMAIN old : old[i] <= clock
      /\ \A i, j \in DOMAIN old : i <= j => old[i] <= old[j]
  BY DEF WindowInv, AdmittedInOrder
<1>5. Limiter!TypeOK'
  BY <1>1, <1>3 DEF Limiter!Admit, WindowInv, Limiter!TypeOK
<1>6. Limit[t] # Unlimited => Limit[t] \in Nat \ {0}
  BY Limits
<1>7. (Limit[t] # Unlimited /\ Len(old) >= Limit[t]) =>
        ~(old[Len(old) - Limit[t] + 1] + Window >= clock)
  BY DEF Limiter!Admit, Limiter!Full
<1> HIDE DEF old, new
<1>8. ASSUME Limit[t] # Unlimited, NEW i \in DOMAIN old, i + Limit[t] <= Len(old) + 1
      PROVE  clock > old[i] + Window
  <2> DEFINE edge == Len(old) - Limit[t] + 1
  <2>1. Limit[t] \in Nat \ {0} /\ i \in 1 .. Len(old) /\ Len(old) \in Nat
    BY <1>3, <1>6, <1>8
  <2>2. edge \in 1 .. Len(old) /\ i <= edge /\ Len(old) >= Limit[t]
    BY <1>8, <2>1
  <2>3. edge \in DOMAIN old
    BY <1>3, <2>2
  <2>4. ~(old[edge] + Window >= clock)
    BY <1>7, <1>8, <2>2
  <2> HIDE DEF edge
  <2>5. old[i] <= old[edge]
    BY <1>4, <2>2, <2>3
  <2>6. old[edge] \in Nat /\ old[i] \in Nat
    BY <1>3, <2>3
  <2> QED
    BY <1>1, <2>4, <2>5, <2>6
<1>9. ASSUME Limit[t] # Unlimited, NEW i \in DOMAIN new, NEW j \in DOMAIN new,
             i + Limit[t] <= j
      PROVE  new[j] > new[i] + Window
  <2>1. i \in DOMAIN old
    BY <1>3, <1>6, <1>9
  <2>2. CASE j \in DOMAIN old
    <3>1. old[j] > old[i] + Window
      BY <1>9, <2>1, <2>2 DEF WindowInv, Spread, old
    <3> QED
      BY <1>3, <2>1, <2>2, <3>1
  <2>3. CASE j = Len(old) + 1
    BY <1>3, <1>9, <1>8, <2>1, <2>3
  <2> QED
    BY <1>3, <2>2, <2>3
<1>10. Spread'
  <2> SUFFICES ASSUME NEW u \in Tier, Limit[u] # Unlimited,
                      NEW i \in DOMAIN admitted'[u], NEW j \in DOMAIN admitted'[u],
                      i + Limit[u] <= j
               PROVE  admitted'[u][j] > admitted'[u][i] + Window
    BY DEF Spread
  <2>1. CASE u = t
    BY <1>2, <1>9, <2>1
  <2>2. CASE u # t
    BY <1>2, <2>2 DEF WindowInv, Spread
  <2> QED
    BY <2>1, <2>2
<1>11. AdmittedInOrder'
  <2> SUFFICES ASSUME NEW u \in Tier
               PROVE  /\ \A i \in DOMAIN admitted'[u] : admitted'[u][i] <= clock'
                      /\ \A i, j \in DOMAIN admitted'[u] :
                           i <= j => admitted'[u][i] <= admitted'[u][j]
    BY DEF AdmittedInOrder
  <2>1. CASE u = t
    <3>1. \A i \in DOMAIN new : new[i] <= clock
      BY <1>1, <1>3, <1>4
    <3>2. ASSUME NEW i \in DOMAIN new, NEW j \in DOMAIN new, i <= j
          PROVE  new[i] <= new[j]
      <4>1. CASE j \in DOMAIN old
        BY <1>3, <1>4, <3>2, <4>1
      <4>2. CASE j = Len(old) + 1
        BY <1>3, <3>1, <4>2
      <4> QED
        BY <1>3, <4>1, <4>2
    <3> QED
      BY <1>1, <1>2, <2>1, <3>1, <3>2
  <2>2. CASE u # t
    BY <1>1, <1>2, <2>2 DEF WindowInv, AdmittedInOrder
  <2> QED
    BY <2>1, <2>2
<1> QED
  BY <1>5, <1>10, <1>11 DEF WindowInv

(* A limiter starts with nothing admitted. *)
LEMMA WindowInit == Limiter!Init => WindowInv
<1> SUFFICES ASSUME Limiter!Init PROVE WindowInv
  OBVIOUS
<1>1. \A t \in Tier : admitted[t] = <<>>
  BY DEF Limiter!Init
<1>2. \A t \in Tier : DOMAIN admitted[t] = {}
  <2>1. DOMAIN <<>> = {}
    OBVIOUS
  <2> QED
    BY <1>1, <2>1, Zenon
<1>3. Limiter!TypeOK
  BY DEF Limiter!Init, Limiter!TypeOK
<1> QED
  BY <1>2, <1>3 DEF WindowInv, AdmittedInOrder, Spread

(* Each step of a limiter keeps the calls in order and spread. *)
LEMMA WindowStep ==
  ASSUME WindowInv, [Limiter!Next]_Limiter!vars
  PROVE  WindowInv'
<1>1. ASSUME NEW t \in Tier, Limiter!Admit(t) PROVE WindowInv'
  BY <1>1, AdmitStep
<1>2. ASSUME NEW t \in Tier, Limiter!Refuse(t) PROVE WindowInv'
  BY <1>2 DEF Limiter!Refuse, WindowInv, Limiter!TypeOK, AdmittedInOrder, Spread
<1>3. ASSUME Limiter!Tick PROVE WindowInv'
  <3>1. clock' = clock + 1 /\ UNCHANGED <<admitted, refusals>> /\ clock \in Nat
    BY <1>3 DEF Limiter!Tick, WindowInv, Limiter!TypeOK
  <3>2. \A t \in Tier, i \in Nat : i \in DOMAIN admitted[t] => admitted[t][i] \in Nat
    BY DEF WindowInv, Limiter!TypeOK
  <3>3. \A t \in Tier : DOMAIN admitted[t] \subseteq Nat
    BY DEF WindowInv, Limiter!TypeOK
  <3>4. AdmittedInOrder'
    BY <3>1, <3>2, <3>3 DEF WindowInv, AdmittedInOrder
  <3> QED
    BY <3>1, <3>4 DEF WindowInv, Limiter!TypeOK, Spread
<1>4. CASE UNCHANGED Limiter!vars
  BY <1>4 DEF Limiter!vars, WindowInv, Limiter!TypeOK, AdmittedInOrder, Spread
<1> QED
  BY <1>1, <1>2, <1>3, <1>4 DEF Limiter!Next

(* Spread calls are what RateLimited promises. *)
LEMMA WindowBound == WindowInv => Limiter!RateLimited
<1> SUFFICES ASSUME WindowInv, NEW t \in Tier, Limit[t] # Unlimited,
                    NEW i \in DOMAIN admitted[t], i + Limit[t] \in DOMAIN admitted[t]
             PROVE  admitted[t][i + Limit[t]] > admitted[t][i] + Window
  BY DEF Limiter!RateLimited
<1>1. i + Limit[t] <= i + Limit[t]
  BY Limits DEF WindowInv, Limiter!TypeOK
<1> QED
  BY <1>1 DEF WindowInv, Spread

(* What is recent is the last part of what was admitted, and what is not is out
   of the window. *)
LEMMA RecentTail ==
  ASSUME TypeOK, WindowInv, KeepsRecent, NEW t \in Tier
  PROVE  \E k \in 0 .. Len(admitted[t]) :
           /\ TailFrom(Recent(t), admitted[t], k)
           /\ \A i \in 1 .. k : admitted[t][i] + Window < clock
           /\ \A i \in k + 1 .. Len(admitted[t]) : admitted[t][i] + Window >= clock
<1> DEFINE a == admitted[t]
           c == callTimestamps[t]
           n == Len(a)
           S == {at \in Nat : at + Window >= clock}
<1>1. /\ a \in Seq(Nat) /\ c \in Seq(Nat) /\ n \in Nat /\ clock \in Nat /\ Window \in Nat
      /\ DOMAIN a = 1 .. n /\ \A i \in 1 .. n : a[i] \in Nat
  BY Limits DEF WindowInv, Limiter!TypeOK, TypeOK
<1>2. \A i, j \in 1 .. n : i <= j => a[i] <= a[j]
  BY <1>1 DEF WindowInv, AdmittedInOrder
<1>3. PICK k \in 0 .. n : TailFrom(c, a, k) /\ \A i \in 1 .. k : a[i] + Window < clock
  BY DEF KeepsRecent
<1>4. \A x \in Nat : x \in S <=> x + Window >= clock
  OBVIOUS
<1>5. Recent(t) = Only(c, S)
  BY DEF Recent
<1> HIDE DEF a, c, n, S
<1>6. /\ Len(c) = n - k /\ Len(c) \in Nat
      /\ \A i \in 1 .. Len(c) : c[i] = a[k + i] /\ k + i \in 1 .. n /\ c[i] \in Nat
  BY <1>1, <1>3 DEF TailFrom, n
<1>7. \A i, j \in 1 .. Len(c) : i <= j /\ c[i] \in S => c[j] \in S
  <2> SUFFICES ASSUME NEW i \in 1 .. Len(c), NEW j \in 1 .. Len(c), i <= j, c[i] \in S
               PROVE  c[j] \in S
    OBVIOUS
  <2>1. k + i <= k + j
    BY <1>6
  <2>2. c[i] <= c[j]
    BY <1>2, <1>6, <2>1
  <2>3. c[i] \in Nat /\ c[j] \in Nat
    BY <1>6
  <2>4. c[i] + Window >= clock
    BY <1>4, <2>3
  <2>5. c[j] + Window >= clock
    BY <1>1, <2>2, <2>3, <2>4, SMTT(30)
  <2> QED BY <1>4, <2>3, <2>5
<1>8. PICK j \in 0 .. Len(c) :
        /\ Only(c, S) = SubSeq(c, j + 1, Len(c))
        /\ \A i \in 1 .. j : c[i] \notin S
        /\ \A i \in j + 1 .. Len(c) : c[i] \in S
  BY <1>1, <1>7, OnlyTail
<1> DEFINE w == SubSeq(c, j + 1, Len(c))
<1>9. /\ w \in Seq(Nat) /\ Len(w) = Len(c) - j
      /\ \A i \in 1 .. Len(w) : w[i] = c[j + i]
  BY <1>1, <1>6, <1>8
<1>10. k + j \in 0 .. n
  BY <1>6
<1> HIDE DEF w
<1>11. TailFrom(w, a, k + j)
  <2>1. Len(w) = n - (k + j)
    BY <1>1, <1>6, <1>9
  <2>2. ASSUME NEW i \in 1 .. Len(w)
        PROVE  w[i] = a[(k + j) + i]
    <3>1. j + i \in 1 .. Len(c) /\ k + (j + i) = (k + j) + i
      BY <1>6, <1>9
    <3> QED BY <1>6, <1>9, <3>1
  <2> QED BY <1>9, <2>1, <2>2 DEF TailFrom, n
<1>12. ASSUME NEW i \in 1 .. k + j
       PROVE  a[i] + Window < clock
  <2>1. CASE i <= k
    BY <1>3, <2>1
  <2>2. CASE i > k
    <3>1. i - k \in 1 .. j /\ k + (i - k) = i /\ i - k \in 1 .. Len(c)
      BY <1>6, <2>2
    <3>2. c[i - k] = a[i] /\ c[i - k] \notin S /\ c[i - k] \in Nat
      BY <1>6, <1>8, <3>1
    <3> QED BY <1>1, <1>4, <3>2
  <2> QED BY <2>1, <2>2
<1>13. ASSUME NEW i \in k + j + 1 .. n
       PROVE  a[i] + Window >= clock
  <2>1. i - k \in j + 1 .. Len(c) /\ k + (i - k) = i /\ i - k \in 1 .. Len(c)
    BY <1>1, <1>6
  <2>2. c[i - k] = a[i] /\ c[i - k] \in S /\ c[i - k] \in Nat
    BY <1>6, <1>8, <2>1
  <2> QED BY <1>4, <2>2
<1>14. /\ TailFrom(Recent(t), a, k + j)
       /\ \A i \in 1 .. k + j : a[i] + Window < clock
       /\ \A i \in k + j + 1 .. n : a[i] + Window >= clock
  BY <1>5, <1>8, <1>11, <1>12, <1>13 DEF w
<1> QED BY <1>10, <1>14 DEF a, n

(* The backend finds the window full exactly when it is. *)
LEMMA RecentFull ==
  ASSUME TypeOK, WindowInv, KeepsRecent, NEW t \in Tier, Limit[t] # Unlimited
  PROVE  Limiter!Full(t) <=> Len(Recent(t)) >= Limit[t]
<1> DEFINE a == admitted[t]
           n == Len(a)
           l == Limit[t]
           m == Len(Recent(t))
<1>1. PICK k \in 0 .. n :
        /\ TailFrom(Recent(t), a, k)
        /\ \A i \in 1 .. k : a[i] + Window < clock
        /\ \A i \in k + 1 .. n : a[i] + Window >= clock
  BY RecentTail
<1>2. n \in Nat /\ l \in Nat \ {0} /\ m = n - k /\ clock \in Nat /\ Window \in Nat
      /\ \A i \in 1 .. n : a[i] \in Nat
  BY <1>1, Limits DEF WindowInv, Limiter!TypeOK, TypeOK, TailFrom
<1>3. Limiter!Full(t) <=> n >= l /\ a[n - l + 1] + Window >= clock
  BY DEF Limiter!Full
<1> HIDE DEF a, n, l, m
<1>4. CASE m >= l
  <2>1. n >= l /\ n - l + 1 \in k + 1 .. n
    BY <1>2, <1>4
  <2> QED BY <1>1, <1>3, <1>4, <2>1 DEF m, l
<1>5. CASE ~(m >= l)
  <2>1. n >= l => n - l + 1 \in 1 .. k /\ n - l + 1 \in 1 .. n
    BY <1>2, <1>5
  <2>2. n >= l => ~(a[n - l + 1] + Window >= clock)
    BY <1>1, <1>2, <2>1
  <2> QED BY <1>3, <1>5, <2>2 DEF m, l
<1> QED BY <1>4, <1>5

(* A call that is recorded is the last of both. *)
LEMMA TailGrows ==
  ASSUME NEW kept, NEW all \in Seq(Nat), NEW k \in 0 .. Len(all), NEW at \in Nat,
         TailFrom(kept, all, k)
  PROVE  TailFrom(Append(kept, at), Append(all, at), k)
<1> DEFINE m == Len(kept)
           n == Len(all)
           kept1 == Append(kept, at)
           all1 == Append(all, at)
<1>1. kept \in Seq(Nat) /\ m \in Nat /\ n \in Nat /\ m = n - k
      /\ \A i \in 1 .. m : kept[i] = all[k + i]
  BY DEF TailFrom
<1>2. /\ kept1 \in Seq(Nat) /\ Len(kept1) = m + 1 /\ kept1[m + 1] = at
      /\ \A i \in 1 .. m : kept1[i] = kept[i]
  BY <1>1
<1>3. Len(all1) = n + 1 /\ all1[n + 1] = at /\ \A i \in 1 .. n : all1[i] = all[i]
  BY <1>1
<1> HIDE DEF m, n, kept1, all1
<1>4. ASSUME NEW i \in 1 .. m + 1
      PROVE  kept1[i] = all1[k + i]
  <2>1. CASE i = m + 1
    <3>1. k + i = n + 1
      BY <1>1, <2>1
    <3> QED BY <1>2, <1>3, <2>1, <3>1
  <2>2. CASE i # m + 1
    <3>1. i \in 1 .. m /\ k + i \in 1 .. n
      BY <1>1, <2>2
    <3> QED BY <1>1, <1>2, <1>3, <3>1
  <2> QED BY <2>1, <2>2
<1>5. m + 1 = (n + 1) - k
  BY <1>1
<1> QED BY <1>2, <1>3, <1>4, <1>5 DEF TailFrom, kept1, all1

(* enforceCostControls() is the limiter, or nothing to it. *)
LEMMA ControlsStep ==
  ASSUME TypeOK, WindowInv, KeepsRecent, NEW r \in Request, NEW t \in Tier,
         EnforceCostControls(r, t), UNCHANGED clock
  PROVE  [Limiter!Next]_Limiter!vars /\ KeepsRecent'
<1> DEFINE kept == IF Limit[t] = Unlimited THEN callTimestamps[t] ELSE Recent(t)
           full == Limit[t] # Unlimited /\ Len(kept) >= Limit[t]
<1>1. PICK k \in 0 .. Len(admitted[t]) :
        TailFrom(kept, admitted[t], k) /\ \A i \in 1 .. k : admitted[t][i] + Window < clock
  <2>1. CASE Limit[t] = Unlimited
    BY <2>1 DEF KeepsRecent
  <2>2. CASE Limit[t] # Unlimited
    BY <2>2, RecentTail
  <2> QED BY <2>1, <2>2
<1>2. full <=> Limiter!Full(t)
  <2>1. CASE Limit[t] = Unlimited
    BY <2>1 DEF Limiter!Full
  <2>2. CASE Limit[t] # Unlimited
    BY <2>2, RecentFull
  <2> QED BY <2>1, <2>2
<1>3. \/ /\ full /\ callTimestamps' = [callTimestamps EXCEPT ![t] = kept]
         /\ refusals' = [refusals EXCEPT ![t] = @ + 1] /\ UNCHANGED admitted
      \/ /\ ~full /\ callTimestamps' = [callTimestamps EXCEPT ![t] = kept]
         /\ UNCHANGED <<admitted, refusals>>
      \/ /\ ~full /\ callTimestamps' = [callTimestamps EXCEPT ![t] = Append(kept, clock)]
         /\ admitted' = [admitted EXCEPT ![t] = Append(@, clock)] /\ UNCHANGED refusals
  BY DEF EnforceCostControls
<1>4. admitted[t] \in Seq(Nat) /\ clock \in Nat /\ clock' = clock
  BY DEF WindowInv, Limiter!TypeOK, TypeOK
<1> HIDE DEF kept, full
<1>5. CASE callTimestamps' = [callTimestamps EXCEPT ![t] = kept] /\ UNCHANGED admitted
  <2>1. KeepsRecent'
    <3> SUFFICES ASSUME NEW u \in Tier
                 PROVE  \E j \in 0 .. Len(admitted[u]) :
                          /\ TailFrom(callTimestamps'[u], admitted[u], j)
                          /\ \A i \in 1 .. j : admitted[u][i] + Window < clock
      BY <1>4, <1>5 DEF KeepsRecent
    <3>1. callTimestamps'[u] = IF u = t THEN kept ELSE callTimestamps[u]
      BY <1>5 DEF TypeOK
    <3>2. CASE u = t
      BY <1>1, <3>1, <3>2
    <3>3. CASE u # t
      BY <3>1, <3>3 DEF KeepsRecent
    <3> QED BY <3>2, <3>3
  <2>2. (full /\ refusals' = [refusals EXCEPT ![t] = @ + 1]) => Limiter!Refuse(t)
    BY <1>2, <1>4, <1>5 DEF Limiter!Refuse
  <2>3. UNCHANGED refusals => UNCHANGED Limiter!vars
    BY <1>4, <1>5 DEF Limiter!vars
  <2>4. [Limiter!Next]_Limiter!vars \/ ~(full \/ UNCHANGED refusals)
    BY <1>3, <2>2, <2>3 DEF Limiter!Next
  <2>5. full \/ UNCHANGED refusals
    BY <1>3
  <2> QED BY <2>1, <2>4, <2>5
<1>6. CASE /\ ~full /\ callTimestamps' = [callTimestamps EXCEPT ![t] = Append(kept, clock)]
           /\ admitted' = [admitted EXCEPT ![t] = Append(@, clock)] /\ UNCHANGED refusals
  <2>1. Limiter!Admit(t)
    BY <1>2, <1>4, <1>6 DEF Limiter!Admit
  <2>2. TailFrom(Append(kept, clock), Append(admitted[t], clock), k)
    BY <1>1, <1>4, TailGrows
  <2>3. /\ Len(Append(admitted[t], clock)) = Len(admitted[t]) + 1 /\ Len(admitted[t]) \in Nat
        /\ \A i \in 1 .. Len(admitted[t]) : Append(admitted[t], clock)[i] = admitted[t][i]
    BY <1>4
  <2>4. \A u \in Tier :
          /\ callTimestamps'[u] = IF u = t THEN Append(kept, clock) ELSE callTimestamps[u]
          /\ admitted'[u] = IF u = t THEN Append(admitted[t], clock) ELSE admitted[u]
    BY <1>6 DEF TypeOK, WindowInv, Limiter!TypeOK
  <2>5. KeepsRecent'
    <3> SUFFICES ASSUME NEW u \in Tier
                 PROVE  \E j \in 0 .. Len(admitted'[u]) :
                          /\ TailFrom(callTimestamps'[u], admitted'[u], j)
                          /\ \A i \in 1 .. j : admitted'[u][i] + Window < clock
      BY <1>4 DEF KeepsRecent
    <3>1. CASE u = t
      <4>1. k \in 0 .. Len(admitted'[u]) /\ \A i \in 1 .. k : admitted'[u][i] = admitted[t][i]
        <5>1. admitted'[u] = Append(admitted[t], clock)
          BY <2>4, <3>1
        <5>2. k \in 0 .. Len(admitted[t]) + 1 /\ \A i \in 1 .. k : i \in 1 .. Len(admitted[t])
          BY <2>3
        <5> QED BY <2>3, <5>1, <5>2
      <4>2. TailFrom(callTimestamps'[u], admitted'[u], k)
        BY <2>2, <2>4, <3>1
      <4>3. \A i \in 1 .. k : admitted'[u][i] + Window < clock
        BY <1>1, <4>1
      <4> QED BY <4>1, <4>2, <4>3
    <3>2. CASE u # t
      BY <2>4, <3>2 DEF KeepsRecent
    <3> QED BY <3>1, <3>2
  <2> QED BY <2>1, <2>5 DEF Limiter!Next
<1> QED BY <1>3, <1>5, <1>6

(* Every step of the backend is one of the limiter or nothing to it. *)
LEMMA LimiterStep ==
  ASSUME TypeOK, WindowInv, KeepsRecent, [Next]_vars
  PROVE  [Limiter!Next]_Limiter!vars /\ KeepsRecent'
<1>1. ASSUME UNCHANGED <<clock, usageVars>>
      PROVE  [Limiter!Next]_Limiter!vars /\ KeepsRecent'
  BY <1>1 DEF usageVars, Limiter!vars, KeepsRecent
<1>2. ASSUME NEW r \in Request, BeginTurn(r)
      PROVE  [Limiter!Next]_Limiter!vars /\ KeepsRecent'
  <2>1. bearer[r].tier \in Tier
    BY <1>2, BearersTier DEF BeginTurn
  <2> QED BY <1>2, <2>1, ControlsStep DEF BeginTurn
<1>3. ASSUME Tick
      PROVE  [Limiter!Next]_Limiter!vars /\ KeepsRecent'
  <2>1. clock' = clock + 1 /\ UNCHANGED <<callTimestamps, admitted, refusals>>
    BY <1>3 DEF Tick, usageVars
  <2>2. Limiter!Tick
    BY <2>1 DEF Limiter!Tick
  <2>3. KeepsRecent'
    <3> SUFFICES ASSUME NEW t \in Tier
                 PROVE  \E k \in 0 .. Len(admitted[t]) :
                          /\ TailFrom(callTimestamps[t], admitted[t], k)
                          /\ \A i \in 1 .. k : admitted[t][i] + Window < clock + 1
      BY <2>1 DEF KeepsRecent
    <3>1. PICK k \in 0 .. Len(admitted[t]) :
            /\ TailFrom(callTimestamps[t], admitted[t], k)
            /\ \A i \in 1 .. k : admitted[t][i] + Window < clock
      BY DEF KeepsRecent
    <3>2. /\ clock \in Nat /\ Window \in Nat
          /\ \A i \in 1 .. Len(admitted[t]) : admitted[t][i] \in Nat
      BY Limits DEF WindowInv, Limiter!TypeOK, TypeOK
    <3>3. \A i \in 1 .. k : i \in 1 .. Len(admitted[t])
      OBVIOUS
    <3> QED BY <3>1, <3>2, <3>3
  <2> QED BY <2>2, <2>3 DEF Limiter!Next
<1>4. ASSUME NEW v \in Visitor, Activate(v) \/ Terminate(v)
      PROVE  UNCHANGED <<clock, usageVars>>
  BY <1>4 DEF Activate, Terminate
<1>5. ASSUME NEW r \in Request,
             \/ FetchDirectly(r) \/ FetchWithCached(r) \/ FetchAwaiting(r)
             \/ Exchange(r) \/ ExchangeArrives(r) \/ ExchangeFails(r)
             \/ Unauthorised(r) \/ Retrieve(r) \/ EndTurn(r) \/ Lost(r)
      PROVE  UNCHANGED <<clock, usageVars>>
  BY <1>5 DEF FetchDirectly, FetchWithCached, FetchAwaiting, Exchange, ExchangeArrives,
              ExchangeFails, Unauthorised, Retrieve, EndTurn, Lost
<1>6. CASE UNCHANGED vars
  BY <1>1, <1>6 DEF vars
<1> QED
  BY <1>1, <1>2, <1>3, <1>4, <1>5, <1>6 DEF Next

-----------------------------------------------------------------------------
(* TokensHonoured for every value of the constants: the secret of a visitor is
   what his requests are authorised by, and none that carries a token of the
   worker's cache is refused within the margin (sw.ts, lines 25-65; auth.ts). *)
THEOREM TokensCount == Spec => []TokensHonoured
<1>1. Init => TokenInv
  <2> SUFFICES ASSUME Init PROVE TokenInv
    OBVIOUS
  <2>1. TypeOK
    <3>1. active \in [Visitor -> BOOLEAN]
      BY Zenon DEF Init
    <3> QED BY <3>1 DEF Init, TypeOK
  <2>2. FetchesForAll
    BY DEF Init, FetchesForAll
  <2> QED BY <2>1, <2>2 DEF Init, TokenInv, Idle, OwedComes, FreshWhenCached
<1>2. TokenInv /\ [Next]_vars => TokenInv'
  <2> SUFFICES ASSUME TokenInv, [Next]_vars PROVE TokenInv'
    OBVIOUS
  <2>1. Shape
    BY DEF TokenInv, TypeOK, Shape, Token
  <2>2. FetchesForAll'
    BY <2>1, Step DEF TokenInv, IInv
  <2> QED BY <2>2, TypeStep, OwedStep, FreshStep DEF TokenInv
<1>3. TokenInv => TokensHonoured
  <2> SUFFICES ASSUME TokenInv PROVE TokensHonoured
    OBVIOUS
  <2>1. SecretHonoured
    BY DEF TokenInv, OwedComes, SecretHonoured
  <2>2. ASSUME NEW r \in Request, cachedAt[r] # None, ~Authorised(r)
        PROVE  clock + Behind > cachedAt[r] + Margin
    <3>1. bearer[r] # None /\ bearer[r].exp + Behind > cachedAt[r] + Margin
      BY <2>2 DEF TokenInv, FreshWhenCached
    <3>2. bearer[r].exp \in Nat /\ cachedAt[r] \in Nat /\ clock \in Nat
      BY <2>2, <3>1 DEF TokenInv, TypeOK, Token
    <3>3. ~(bearer[r].exp >= clock)
      BY <2>2, <3>1 DEF Authorised
    <3> QED BY <3>1, <3>2, <3>3
  <2> QED BY <2>1, <2>2 DEF TokenInv, TokensHonoured, TokenAccepted
<1> QED
  BY <1>1, <1>2, <1>3, PTL DEF Spec

(* The backend admits and refuses the calls of /llm/turn as the limiter does,
   although it forgets what is out of the window, and only when a call comes
   (cost-controls.ts, lines 54-60 and 83-88; usage-store.ts). *)
THEOREM BackendLimits == Spec => LimitsCalls
<1> DEFINE LimitInv == TypeOK /\ WindowInv /\ KeepsRecent
<1>1. Init => Limiter!Init
  BY DEF Init, Limiter!Init
<1>2. Init => LimitInv
  <2> SUFFICES ASSUME Init PROVE LimitInv
    OBVIOUS
  <2>1. TypeOK
    <3>1. active \in [Visitor -> BOOLEAN]
      BY Zenon DEF Init
    <3> QED BY <3>1 DEF Init, TypeOK
  <2>2. KeepsRecent
    <3> SUFFICES ASSUME NEW t \in Tier
                 PROVE  \E k \in 0 .. Len(admitted[t]) :
                          /\ TailFrom(callTimestamps[t], admitted[t], k)
                          /\ \A i \in 1 .. k : admitted[t][i] + Window < clock
      BY DEF KeepsRecent
    <3>1. callTimestamps[t] = <<>> /\ admitted[t] = <<>> /\ Len(<<>>) = 0 /\ <<>> \in Seq(Nat)
      BY DEF Init
    <3>2. TailFrom(<<>>, <<>>, 0)
      BY DEF TailFrom
    <3> QED BY <3>1, <3>2
  <2> QED BY <1>1, <2>1, <2>2, WindowInit
<1>3. LimitInv /\ [Next]_vars => LimitInv' /\ [Limiter!Next]_Limiter!vars
  BY TypeStep, LimiterStep, WindowStep
<1> HIDE DEF LimitInv
<1> QED
  BY <1>1, <1>2, <1>3, PTL DEF Spec, LimitsCalls, Limiter!Spec

(* RateLimited for every value of the constants: however the calls of all
   visitors interleave, no window lets more calls of a tier through than its
   limit. *)
THEOREM WindowHolds == Spec => []RateLimited
<1>1. LimitsCalls => []WindowInv
  BY WindowInit, WindowStep, PTL DEF LimitsCalls, Limiter!Spec
<1>2. WindowInv => RateLimited
  BY WindowBound DEF RateLimited
<1> QED
  BY <1>1, <1>2, BackendLimits, PTL
=============================================================================

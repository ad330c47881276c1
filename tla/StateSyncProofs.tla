---------------------------- MODULE StateSyncProofs ----------------------------
(***************************************************************************)
(* Proofs about StateSync, for any threads and mutations, any normalising    *)
(* schema, and any of the faults.                                            *)
(***************************************************************************)
EXTENDS StateSync, SequenceLemmas, TLAPS

USE SyncAssumption DEF SyncAssumption

-----------------------------------------------------------------------------
(* The invariant.  What it says of patches, copies and snapshots it says of
   them and a state a of the authority, since all of it stays true as the
   authority accepts more. *)

GoodAuthority(a) ==
  /\ a \in [value : Value, seq : Nat]
  /\ Len(a.value) = a.seq
  /\ \A i \in 1 .. a.seq : a.value[i].parsed

Grows(a, b) == a.seq <= b.seq /\ \A i \in 1 .. a.seq : b.value[i] = a.value[i]

(* The first s mutations of a value are those that the authority accepted. *)
Agrees(a, value, s) ==
  /\ value \in Value /\ s \in 0 .. a.seq /\ Len(value) = s
  /\ \A i \in 1 .. s : value[i].by = a.value[i].by

(* A patch carries what the transition made of the mutation of its number. *)
Accepted(a, p) == p.seq \in 1 .. a.seq /\ p.change = Raw(a.value[p.seq].by)
GoodBuffer(a, s) == s \in Seq(Patch) /\ \A i \in 1 .. Len(s) : Accepted(a, s[i])

Local == [value : Value \cup {None}, seq : Nat, initialised : BOOLEAN,
          pending : Seq(Patch), refetching : BOOLEAN]

GoodCopy(a, k) ==
  /\ k \in Local
  /\ GoodBuffer(a, k.pending)
  /\ IF k.initialised
       THEN /\ Agrees(a, k.value, k.seq)
            /\ \A i \in 1 .. k.seq : k.value[i].parsed \/ k.value[i].by \in Normalised
       ELSE k.value = None /\ k.seq = 0 /\ ~k.refetching

(* A snapshot is not older than the copy that has asked for it. *)
GoodSnapshot(a, k, e) ==
  /\ Agrees(a, e.value, e.seq) /\ k.seq <= e.seq
  /\ \A i \in 1 .. e.seq : e.value[i].parsed

(* What a thread holds, and what has been posted and sent to it. *)
GoodThread(a, k, posted, looped, answers) ==
  /\ GoodCopy(a, k) /\ GoodBuffer(a, posted) /\ GoodBuffer(a, looped)
  /\ \A i \in 1 .. Len(answers) : IsSnapshot(answers[i]) => GoodSnapshot(a, k, answers[i])
Data ==
  /\ GoodAuthority(authority)
  /\ \A c \in Copy : GoodThread(authority, copy[c], patches[c], replay[c], replies[c])

(* One snapshot at most is under way, for a copy that stands still until then. *)
AtMostOne(seq) == \A i, j \in Snapshots(seq) : i = j
NoSnapshot(seq) == Snapshots(seq) = {}
GoodFetch(k, begun, asked, answers) ==
  /\ AtMostOne(asked) /\ AtMostOne(answers)
  /\ NoSnapshot(asked) \/ NoSnapshot(answers)
  /\ k.initialised => begun
  /\ ~NoSnapshot(asked) \/ ~NoSnapshot(answers) => begun /\ (k.initialised => k.refetching)
Fetch == \A c \in Copy : GoodFetch(copy[c], called[c], requests[c], replies[c])

(* A mutation is sent once and answered by what has become of it. *)
Decided(a, m) == \E i \in 1 .. a.seq : a.value[i].by = m
Asks(e, m) == e.type = "mutate" /\ e.id = m
Calls ==
  /\ \A c \in Copy, m \in Mutation : \A i \in 1 .. Len(requests[c]) :
       Asks(requests[c][i], m) =>
         /\ Owner[m] = c /\ outcome[m] \in {"asked", "timeout"} /\ ~Decided(authority, m)
         /\ \A j \in 1 .. Len(requests[c]) : Asks(requests[c][j], m) => i = j
  /\ \A c \in Copy : \A i \in 1 .. Len(replies[c]) :
       LET e == replies[c][i] IN
       ~IsSnapshot(e) =>
         /\ outcome[e.id] # "idle"
         /\ e.type = "ack" <=> Decided(authority, e.id)
         /\ \A d \in Copy : \A j \in 1 .. Len(requests[d]) : ~Asks(requests[d][j], e.id)

(* What a mutation was sent with is what its caller showed, and what it was
   accepted on. *)
Drifts(v, s) == \A i \in 1 .. s : v[i].parsed \/ v[i].by \in Normalised
Saw(a, v, s) == IF v = None THEN s = 0 ELSE Agrees(a, v, s) /\ Drifts(v, s)
Bases ==
  /\ \A m \in Mutation : Saw(authority, seen[m], basis[m])
  /\ \A i \in 1 .. authority.seq :
       LET m == authority.value[i].by IN basis[m] = i - 1 /\ outcome[m] # "idle"

IInv == TypeOK /\ Data /\ Fetch /\ Calls /\ Bases

-----------------------------------------------------------------------------
(* Sequences, element by element. *)

LEMMA AppendFacts ==
  ASSUME NEW S, NEW s \in Seq(S), NEW e \in S
  PROVE  /\ Append(s, e) \in Seq(S)
         /\ Len(s) \in Nat /\ Len(Append(s, e)) = Len(s) + 1
         /\ \A i \in 1 .. Len(s) : Append(s, e)[i] = s[i]
         /\ Append(s, e)[Len(s) + 1] = e
  OBVIOUS

(* What remains of a sequence without its head. *)
LEMMA TailFacts ==
  ASSUME NEW S, NEW s \in Seq(S), s # <<>>
  PROVE  /\ Head(s) = s[1] /\ Head(s) \in S
         /\ Tail(s) \in Seq(S)
         /\ Len(s) \in Nat /\ 1 <= Len(s) /\ Len(Tail(s)) = Len(s) - 1
         /\ \A i \in 1 .. Len(s) - 1 : Tail(s)[i] = s[i + 1]
  OBVIOUS

(* Where the elements of a concatenation come from. *)
LEMMA ConcatFacts ==
  ASSUME NEW S, NEW s \in Seq(S), NEW t \in Seq(S)
  PROVE  /\ s \o t \in Seq(S)
         /\ Len(s) \in Nat /\ Len(t) \in Nat /\ Len(s \o t) = Len(s) + Len(t)
         /\ \A i \in 1 .. Len(s) : (s \o t)[i] = s[i]
         /\ \A i \in Len(s) + 1 .. Len(s) + Len(t) : (s \o t)[i] = t[i - Len(s)]
  OBVIOUS

(* What remains of a sequence without its n-th element. *)
LEMMA RemoveFacts ==
  ASSUME NEW S, NEW s \in Seq(S), NEW n \in 1 .. Len(s)
  PROVE  /\ RemoveAt(s, n) \in Seq(S)
         /\ Len(s) \in Nat /\ Len(RemoveAt(s, n)) = Len(s) - 1
         /\ \A i \in 1 .. Len(s) - 1 :
              RemoveAt(s, n)[i] = s[IF i < n THEN i ELSE i + 1]
<1> DEFINE left == SubSeq(s, 1, n - 1)
           right == SubSeq(s, n + 1, Len(s))
<1>1. /\ left \in Seq(S) /\ Len(left) = n - 1
      /\ \A i \in 1 .. n - 1 : left[i] = s[i]
  OBVIOUS
<1>2. /\ right \in Seq(S) /\ Len(right) = Len(s) - n
      /\ \A i \in 1 .. Len(s) - n : right[i] = s[n + i]
  OBVIOUS
<1>3. RemoveAt(s, n) = left \o right
  BY DEF RemoveAt
<1> HIDE DEF left, right
<1>4. /\ left \o right \in Seq(S) /\ Len(left \o right) = Len(s) - 1
      /\ \A i \in 1 .. n - 1 : (left \o right)[i] = left[i]
      /\ \A i \in n .. Len(s) - 1 : (left \o right)[i] = right[i - (n - 1)]
  <2>1. Len(s) \in Nat /\ n \in Nat /\ n <= Len(s) /\ 1 <= n
    OBVIOUS
  <2>2. /\ left \o right \in Seq(S) /\ Len(left \o right) = Len(left) + Len(right)
        /\ \A i \in 1 .. Len(left) : (left \o right)[i] = left[i]
        /\ \A i \in Len(left) + 1 .. Len(left) + Len(right) :
             (left \o right)[i] = right[i - Len(left)]
    BY <1>1, <1>2, ConcatFacts, ZenonT(20)
  <2> QED BY <1>1, <1>2, <2>1, <2>2
<1>5. ASSUME NEW i \in 1 .. Len(s) - 1
      PROVE  RemoveAt(s, n)[i] = s[IF i < n THEN i ELSE i + 1]
  <2>1. CASE i < n
    BY <1>1, <1>3, <1>4, <2>1
  <2>2. CASE i >= n
    <3>1. i - (n - 1) \in 1 .. Len(s) - n /\ n + (i - (n - 1)) = i + 1
      BY <2>2
    <3> QED BY <1>2, <1>3, <1>4, <2>2, <3>1
  <2> QED BY <2>1, <2>2
<1> QED BY <1>3, <1>4, <1>5

(* A place in a sequence that has grown by one is an old one or the last. *)
LEMMA LastPlace ==
  ASSUME NEW n \in Nat
  PROVE  \A i \in 1 .. n + 1 : i \in 1 .. n \/ i = n + 1
  OBVIOUS

-----------------------------------------------------------------------------
(* What holds of a state of the authority holds of any later one. *)
LEMMA GrowsFacts ==
  ASSUME NEW a, NEW b, GoodAuthority(a), GoodAuthority(b), Grows(a, b)
  PROVE  /\ \A v, s : Agrees(a, v, s) => Agrees(b, v, s)
         /\ \A s : GoodBuffer(a, s) => GoodBuffer(b, s)
         /\ \A k : GoodCopy(a, k) => GoodCopy(b, k)
         /\ \A k, e : GoodSnapshot(a, k, e) => GoodSnapshot(b, k, e)
<1>1. a.seq \in Nat /\ b.seq \in Nat /\ a.seq <= b.seq
  BY DEF GoodAuthority, Grows
<1>2. \A v, s : Agrees(a, v, s) => Agrees(b, v, s)
  BY <1>1 DEF Agrees, Grows
<1>3. \A s : GoodBuffer(a, s) => GoodBuffer(b, s)
  BY <1>1 DEF GoodBuffer, Accepted, Grows
<1>4. \A k : GoodCopy(a, k) => GoodCopy(b, k)
  BY <1>2, <1>3 DEF GoodCopy
<1>5. \A k, e : GoodSnapshot(a, k, e) => GoodSnapshot(b, k, e)
  BY <1>2 DEF GoodSnapshot
<1> QED BY <1>2, <1>3, <1>4, <1>5

(* How a copy comes on: it is as good as it was, it never goes back, it only
   changes its value with its number, and it waits for what it has asked for. *)
ComesOn(a, k, l) ==
  /\ GoodCopy(a, l) /\ l.seq >= k.seq
  /\ l.initialised = k.initialised
  /\ l.seq = k.seq => l.value = k.value
  /\ k.refetching => l.refetching /\ l.seq = k.seq
  /\ l.refetching => l.initialised
  /\ Released(k) => Released(l)

(* A copy that comes on twice has come on. *)
LEMMA ComesOnTransitive ==
  ASSUME NEW a, NEW k, NEW l, NEW m, k.seq \in Nat, ComesOn(a, k, l), ComesOn(a, l, m)
  PROVE  ComesOn(a, k, m)
  BY DEF ComesOn, GoodCopy, Local

(* A raw value is by its mutation, and differs from the parsed one if that is normalised. *)
LEMMA RawFacts ==
  ASSUME NEW m
  PROVE  Raw(m).by = m /\ (Raw(m).parsed \/ m \in Normalised)
<1>1. Raw(m).by = m
  BY DEF Raw
<1>2. Raw(m).parsed = (m \notin Normalised)
  BY DEF Raw
<1> QED BY <1>1, <1>2, Zenon

(* A copy that receives an accepted patch comes on: it stays true and never goes back. *)
LEMMA ReceivesFacts ==
  ASSUME NEW a, GoodAuthority(a), NEW k, GoodCopy(a, k),
         NEW p \in Patch, Accepted(a, p), NEW breaks
  PROVE  ComesOn(a, k, Receives(k, p, breaks))
<1> DEFINE r == Receives(k, p, breaks)
<1> SUFFICES ComesOn(a, k, r)
  OBVIOUS
<1>1. /\ k \in Local /\ k.seq \in Nat /\ p.seq \in Nat /\ a.seq \in Nat
      /\ k.refetching => k.initialised
  BY DEF GoodCopy, Local, Patch, GoodAuthority
<1>2. GoodBuffer(a, Append(k.pending, p))
  <2>1. k.pending \in Seq(Patch) /\ \A i \in 1 .. Len(k.pending) : Accepted(a, k.pending[i])
    BY DEF GoodCopy, GoodBuffer
  <2> QED BY <2>1, AppendFacts DEF GoodBuffer
<1>3. GoodCopy(a, Buffered(k, p))
  BY <1>1, <1>2 DEF GoodCopy, Buffered, Local, GoodBuffer
<1>4. CASE r = k
  BY <1>1, <1>4 DEF ComesOn
<1>5. CASE (~k.initialised \/ k.refetching) /\ r = Buffered(k, p)
  <2>1. /\ r.value = k.value /\ r.seq = k.seq /\ r.initialised = k.initialised
        /\ r.refetching = k.refetching
    BY <1>1, <1>5 DEF Buffered, Local
  <2>2. Released(r)
    BY <1>5, <2>1 DEF Released
  <2>3. r.seq >= k.seq /\ GoodCopy(a, r)
    BY <1>1, <1>3, <1>5, <2>1
  <2> HIDE DEF r
  <2> QED BY <1>1, <2>1, <2>2, <2>3, Zenon DEF ComesOn
<1>6. CASE k.initialised /\ r = [Buffered(k, p) EXCEPT !.refetching = TRUE]
  <2>1. /\ r \in Local /\ r.value = k.value /\ r.seq = k.seq /\ r.initialised
        /\ r.refetching /\ r.pending = Append(k.pending, p)
    BY <1>1, <1>2, <1>6 DEF Buffered, Local, GoodBuffer
  <2> HIDE DEF r
  <2>2. GoodCopy(a, r)
    BY <1>2, <1>6, <2>1 DEF GoodCopy
  <2>3. r.initialised = k.initialised
    BY <1>1, <1>6, <2>1 DEF Local
  <2>4. r.seq >= k.seq /\ Released(r)
    BY <1>1, <2>1 DEF Released
  <2> QED BY <2>1, <2>2, <2>3, <2>4, Zenon DEF ComesOn
<1>7. CASE k.initialised /\ r = [k EXCEPT !.refetching = TRUE]
  <2>1. /\ r \in Local /\ r.value = k.value /\ r.seq = k.seq /\ r.initialised
        /\ r.refetching /\ r.pending = k.pending
    BY <1>1, <1>7 DEF Local
  <2> HIDE DEF r
  <2>2. GoodCopy(a, r)
    BY <1>7, <2>1 DEF GoodCopy
  <2>3. r.initialised = k.initialised
    BY <1>1, <1>7, <2>1 DEF Local
  <2>4. r.seq >= k.seq /\ Released(r)
    BY <1>1, <2>1 DEF Released
  <2> QED BY <2>1, <2>2, <2>3, <2>4, Zenon DEF ComesOn
<1>8. CASE k.initialised /\ ~k.refetching /\ p.seq = k.seq + 1 /\ r = Applied(k, p)
  <2>1. Agrees(a, k.value, k.seq)
    BY <1>8 DEF GoodCopy
  <2>2. p.change \in Token /\ p.change = Raw(a.value[p.seq].by) /\ p.seq \in 1 .. a.seq
    BY DEF Accepted, Patch
  <2>3. p.change.by = a.value[p.seq].by /\ (p.change.parsed \/ p.change.by \in Normalised)
    BY <2>2, RawFacts
  <2> DEFINE v == Append(k.value, p.change)
  <2>4. /\ v \in Value /\ Len(v) = p.seq
        /\ \A i \in 1 .. k.seq : v[i] = k.value[i]
        /\ v[p.seq] = p.change
    BY <1>8, <2>1, <2>2, AppendFacts DEF Agrees, Value
  <2>5. r = [k EXCEPT !.value = v, !.seq = p.seq]
    BY <1>8 DEF Applied
  <2> HIDE DEF v, r
  <2>6. r \in Local /\ r.value = v /\ r.seq = p.seq /\ r.initialised
        /\ r.pending = k.pending /\ r.refetching = k.refetching
    BY <1>1, <1>8, <2>4, <2>5 DEF Local
  <2>7. Agrees(a, v, p.seq)
    <3>1. k.seq + 1 = p.seq /\ p.seq \in 0 .. a.seq
      BY <1>1, <1>8, <2>2
    <3>2. ASSUME NEW i \in 1 .. p.seq
          PROVE  v[i].by = a.value[i].by
      <4>1. i \in 1 .. k.seq \/ i = p.seq
        BY <1>1, <3>1
      <4> QED BY <2>1, <2>3, <2>4, <4>1 DEF Agrees
    <3> QED BY <2>4, <3>1, <3>2 DEF Agrees
  <2>8. \A i \in 1 .. p.seq : v[i].parsed \/ v[i].by \in Normalised
    <3>1. \A i \in 1 .. k.seq : k.value[i].parsed \/ k.value[i].by \in Normalised
      BY <1>8 DEF GoodCopy
    <3>2. \A i \in 1 .. p.seq : i \in 1 .. k.seq \/ i = p.seq
      BY <1>1, <1>8
    <3> QED BY <2>3, <2>4, <3>1, <3>2
  <2>9. GoodCopy(a, r)
    BY <2>6, <2>7, <2>8 DEF GoodCopy
  <2>10. Released(k) => Released(r)
    BY <1>1, <1>8, <2>6 DEF Released
  <2> QED BY <1>1, <1>8, <2>6, <2>9, <2>10 DEF ComesOn
<1> QED
  BY <1>1, <1>4, <1>5, <1>6, <1>7, <1>8 DEF Receives

(* The copies that HandedOver() goes through. *)
HandsOver(g, k, buffer, broken) ==
  /\ g[0] = k
  /\ \A i \in 1 .. Len(buffer) : g[i] = Receives(g[i - 1], buffer[i], i \in broken)
  /\ HandedOver(k, buffer, broken) = g[Len(buffer)]

(* The function that HandedOver() defines exists: there is no least buffer
   length for which it does not. *)
LEMMA HandedOverDefined ==
  ASSUME NEW k, NEW buffer, Len(buffer) \in Nat, NEW broken
  PROVE  \E g : HandsOver(g, k, buffer, broken)
<1> DEFINE Next1(x, i) == Receives(x, buffer[i], i \in broken)
           After(g, n) == g = [i \in 0 .. n |-> IF i = 0 THEN k ELSE Next1(g[i - 1], i)]
           T == {n \in Nat : ~ \E g : After(g, n)}
<1>1. T = {}
  <2> SUFFICES ASSUME T # {} PROVE FALSE
    OBVIOUS
  <2>1. PICK n \in T : \A m \in T : n <= m
    <3>1. T \subseteq Nat
      OBVIOUS
    <3> HIDE DEF T
    <3> QED BY <3>1, LeastNatural
  <2> HIDE DEF Next1
  <2>2. CASE n = 0
    <3> DEFINE f == [i \in 0 .. 0 |-> k]
    <3>1. f = [i \in 0 .. 0 |-> IF i = 0 THEN k ELSE Next1(f[i - 1], i)]
      OBVIOUS
    <3> QED BY <2>1, <2>2, <3>1
  <2>3. CASE n # 0
    <3>1. n \in Nat /\ n - 1 \in Nat /\ n - 1 \notin T
      <4>1. n \in Nat /\ n - 1 \in Nat /\ ~(n <= n - 1)
        BY <2>1, <2>3
      <4> HIDE DEF T
      <4> QED BY <2>1, <4>1
    <3>2. PICK g : After(g, n - 1)
      BY <3>1
    <3> DEFINE f == [i \in 0 .. n |-> IF i = n THEN Next1(g[n - 1], n) ELSE g[i]]
    <3>3. ASSUME NEW i \in 0 .. n
          PROVE  f[i] = IF i = 0 THEN k ELSE Next1(f[i - 1], i)
      <4>1. CASE i = n
        <5>1. f[i - 1] = g[n - 1]
          BY <3>1, <4>1
        <5> QED BY <2>3, <4>1, <5>1
      <4>2. CASE i # n /\ i = 0
        BY <3>1, <3>2, <4>2
      <4>3. CASE i # n /\ i # 0
        <5>1. i \in 0 .. n - 1 /\ i - 1 \in 0 .. n - 1 /\ i - 1 # n
          BY <3>1, <4>3
        <5>2. f[i - 1] = g[i - 1] /\ f[i] = g[i]
          BY <3>1, <4>3, <5>1
        <5> HIDE DEF f
        <5> QED BY <3>2, <4>3, <5>1, <5>2
      <4> QED BY <4>1, <4>2, <4>3
    <3>4. f = [i \in 0 .. n |-> f[i]]
      OBVIOUS
    <3>5. After(f, n)
      <4> HIDE DEF f
      <4> QED BY <3>3, <3>4
    <3> QED BY <2>1, <3>5
  <2> QED BY <2>2, <2>3
<1> DEFINE after == CHOOSE g : After(g, Len(buffer))
<1>2. After(after, Len(buffer))
  <2>1. \E g : After(g, Len(buffer))
    BY <1>1
  <2> HIDE DEF After
  <2> QED BY <2>1
<1>3. HandedOver(k, buffer, broken) = after[Len(buffer)]
  BY DEF HandedOver
<1> HIDE DEF after, Next1
<1>4. after[0] = k /\ \A i \in 1 .. Len(buffer) : after[i] = Next1(after[i - 1], i)
  BY <1>2
<1> QED BY <1>3, <1>4 DEF Next1, HandsOver

(* Whatever is in the buffer and does not apply, a copy comes on by it. *)
LEMMA HandedOverFacts ==
  ASSUME NEW a, GoodAuthority(a), NEW k, GoodCopy(a, k),
         NEW buffer, GoodBuffer(a, buffer), NEW broken
  PROVE  ComesOn(a, k, HandedOver(k, buffer, broken))
<1>1. Len(buffer) \in Nat /\ \A i \in 1 .. Len(buffer) : buffer[i] \in Patch /\ Accepted(a, buffer[i])
  BY DEF GoodBuffer
<1>2. PICK g : HandsOver(g, k, buffer, broken)
  BY <1>1, HandedOverDefined
<1> DEFINE T == {n \in 0 .. Len(buffer) : ~ ComesOn(a, k, g[n])}
<1>3. T = {}
  <2> SUFFICES ASSUME T # {} PROVE FALSE
    OBVIOUS
  <2>1. PICK n \in T : \A m \in T : n <= m
    <3>1. T \subseteq Nat
      OBVIOUS
    <3> HIDE DEF T
    <3> QED BY <3>1, LeastNatural
  <2>2. n # 0
    <3>1. ComesOn(a, k, k)
      BY DEF ComesOn, GoodCopy, Local
    <3> QED BY <1>2, <2>1, <3>1 DEF HandsOver
  <2>3. n \in 1 .. Len(buffer) /\ n - 1 \in 0 .. Len(buffer) /\ n - 1 \notin T
    BY <1>1, <2>1, <2>2
  <2>4. ComesOn(a, k, g[n - 1])
    BY <2>3
  <2>5. ComesOn(a, g[n - 1], Receives(g[n - 1], buffer[n], n \in broken))
    <3>1. GoodCopy(a, g[n - 1])
      BY <2>4 DEF ComesOn
    <3> QED BY <1>1, <2>3, <3>1, ReceivesFacts
  <2>6. ComesOn(a, g[n - 1], g[n])
    BY <1>2, <2>3, <2>5 DEF HandsOver
  <2>7. ComesOn(a, k, g[n])
    <3>1. k.seq \in Nat
      BY DEF GoodCopy, Local
    <3> QED BY <2>4, <2>6, <3>1, ComesOnTransitive
  <2> QED BY <2>1, <2>7
<1>4. Len(buffer) \in 0 .. Len(buffer)
  BY <1>1
<1> QED BY <1>2, <1>3, <1>4 DEF HandsOver

-----------------------------------------------------------------------------
(* Channels: what is left of them, and what comes in. *)

Requested == [type : {"snapshot"}] \cup [type : {"mutate"}, id : Mutation]
Replied == [type : {"snapshot"}, value : Value, seq : Nat]
             \cup [type : {"ack", "stale", "invalid"}, id : Mutation]

(* Every message of t is one of s, and no two are the same one. *)
Thins(s, t) ==
  \E f : /\ \A i \in 1 .. Len(t) : f[i] \in 1 .. Len(s) /\ s[f[i]] = t[i]
        /\ \A i, j \in 1 .. Len(t) : f[i] = f[j] => i = j

(* A sequence is thinned by nothing, by taking its head, and by taking any element. *)
LEMMA ThinsFacts ==
  ASSUME NEW S, NEW s \in Seq(S)
  PROVE  /\ Thins(s, s)
         /\ s # <<>> => Thins(s, Tail(s))
         /\ \A n \in 1 .. Len(s) : Thins(s, RemoveAt(s, n))
<1>1. Thins(s, s)
  <2> DEFINE f == [i \in 1 .. Len(s) |-> i]
  <2>1. /\ \A i \in 1 .. Len(s) : f[i] \in 1 .. Len(s) /\ s[f[i]] = s[i]
        /\ \A i, j \in 1 .. Len(s) : f[i] = f[j] => i = j
    OBVIOUS
  <2> QED BY <2>1 DEF Thins
<1>2. ASSUME s # <<>> PROVE Thins(s, Tail(s))
  <2> DEFINE f == [i \in 1 .. Len(s) - 1 |-> i + 1]
  <2>1. Len(s) \in Nat /\ Len(Tail(s)) = Len(s) - 1
        /\ \A i \in 1 .. Len(s) - 1 : Tail(s)[i] = s[i + 1]
    BY <1>2, TailFacts
  <2>2. /\ \A i \in 1 .. Len(s) - 1 : f[i] \in 1 .. Len(s) /\ s[f[i]] = Tail(s)[i]
        /\ \A i, j \in 1 .. Len(s) - 1 : f[i] = f[j] => i = j
    BY <2>1
  <2> QED BY <2>1, <2>2 DEF Thins
<1>3. ASSUME NEW n \in 1 .. Len(s) PROVE Thins(s, RemoveAt(s, n))
  <2> DEFINE f == [i \in 1 .. Len(s) - 1 |-> IF i < n THEN i ELSE i + 1]
  <2>1. Len(s) \in Nat /\ Len(RemoveAt(s, n)) = Len(s) - 1
        /\ \A i \in 1 .. Len(s) - 1 : RemoveAt(s, n)[i] = s[f[i]]
    BY RemoveFacts
  <2>2. /\ \A i \in 1 .. Len(s) - 1 : f[i] \in 1 .. Len(s)
        /\ \A i, j \in 1 .. Len(s) - 1 : f[i] = f[j] => i = j
    BY <2>1
  <2> HIDE DEF f
  <2> QED BY <2>1, <2>2 DEF Thins
<1> QED BY <1>1, <1>2, <1>3

(* A thinned sequence holds nothing new. *)
LEMMA ThinMembers ==
  ASSUME NEW s, NEW t, Thins(s, t)
  PROVE  \A i \in 1 .. Len(t) : \E j \in 1 .. Len(s) : s[j] = t[i]
  BY DEF Thins

(* A thinned sequence has no more snapshots than before. *)
LEMMA ThinSnapshots ==
  ASSUME NEW S, NEW s \in Seq(S), NEW T, NEW t \in Seq(T), Thins(s, t)
  PROVE  /\ AtMostOne(s) => AtMostOne(t)
         /\ NoSnapshot(s) => NoSnapshot(t)
<1>1. PICK f : /\ \A i \in 1 .. Len(t) : f[i] \in 1 .. Len(s) /\ s[f[i]] = t[i]
               /\ \A i, j \in 1 .. Len(t) : f[i] = f[j] => i = j
  BY DEF Thins
<1>2. \A i \in Snapshots(t) : i \in 1 .. Len(t) /\ f[i] \in Snapshots(s)
  BY <1>1 DEF Snapshots
<1> QED BY <1>1, <1>2 DEF AtMostOne, NoSnapshot

(* Of what is appended only a snapshot counts as one. *)
LEMMA AppendSnapshots ==
  ASSUME NEW S, NEW s \in Seq(S), NEW e \in S
  PROVE  /\ ~IsSnapshot(e) => Snapshots(Append(s, e)) = Snapshots(s)
         /\ NoSnapshot(s) => AtMostOne(Append(s, e))
<1>1. DOMAIN s = 1 .. Len(s) /\ DOMAIN Append(s, e) = 1 .. Len(s) + 1 /\ Len(s) \in Nat
  OBVIOUS
<1>2. /\ \A i \in 1 .. Len(s) : Append(s, e)[i] = s[i]
      /\ Append(s, e)[Len(s) + 1] = e
  BY AppendFacts
<1>3. \A i \in 1 .. Len(s) + 1 : i \in 1 .. Len(s) \/ i = Len(s) + 1
  BY <1>1
<1>4. \A i \in Snapshots(Append(s, e)) : i \in Snapshots(s) \/ (i = Len(s) + 1 /\ IsSnapshot(e))
  BY <1>1, <1>2, <1>3 DEF Snapshots
<1>5. \A i \in Snapshots(s) : i \in Snapshots(Append(s, e))
  BY <1>1, <1>2 DEF Snapshots
<1> QED BY <1>4, <1>5 DEF AtMostOne, NoSnapshot

(* The only snapshot of a channel is taken from it. *)
LEMMA TakenSnapshots ==
  ASSUME NEW S, NEW s \in Seq(S), AtMostOne(s)
  PROVE  /\ s # <<>> /\ IsSnapshot(Head(s)) => NoSnapshot(Tail(s))
         /\ \A n \in Snapshots(s) : NoSnapshot(RemoveAt(s, n))
<1>1. ASSUME s # <<>>, IsSnapshot(Head(s)), NEW i \in Snapshots(Tail(s))
      PROVE  FALSE
  <2>1. /\ Len(s) \in Nat /\ 1 <= Len(s) /\ Head(s) = s[1] /\ Len(Tail(s)) = Len(s) - 1
        /\ \A j \in 1 .. Len(s) - 1 : Tail(s)[j] = s[j + 1]
        /\ Tail(s) \in Seq(S)
    BY <1>1, TailFacts
  <2>2. i \in 1 .. Len(s) - 1
    BY <1>1, <2>1 DEF Snapshots
  <2>3. 1 \in Snapshots(s) /\ i + 1 \in Snapshots(s) /\ i + 1 # 1
    BY <1>1, <2>1, <2>2 DEF Snapshots
  <2> QED BY <2>3 DEF AtMostOne
<1>2. ASSUME NEW n \in Snapshots(s), NEW i \in Snapshots(RemoveAt(s, n))
      PROVE  FALSE
  <2>1. n \in 1 .. Len(s)
    BY <1>2 DEF Snapshots
  <2>2. /\ Len(s) \in Nat /\ Len(RemoveAt(s, n)) = Len(s) - 1 /\ RemoveAt(s, n) \in Seq(S)
        /\ \A j \in 1 .. Len(s) - 1 : RemoveAt(s, n)[j] = s[IF j < n THEN j ELSE j + 1]
    BY <2>1, RemoveFacts
  <2>3. i \in 1 .. Len(s) - 1
    BY <1>2, <2>2 DEF Snapshots
  <2> DEFINE k == IF i < n THEN i ELSE i + 1
  <2>4. k \in 1 .. Len(s) /\ k # n
    BY <2>1, <2>2, <2>3
  <2>5. RemoveAt(s, n)[i] = s[k]
    BY <2>2, <2>3
  <2> HIDE DEF k
  <2>6. k \in Snapshots(s)
    BY <1>2, <2>4, <2>5 DEF Snapshots
  <2> QED BY <1>2, <2>4, <2>6 DEF AtMostOne
<1> QED BY <1>1, <1>2 DEF NoSnapshot

-----------------------------------------------------------------------------
(* The types. *)

LEMMA ChannelTypes ==
  ASSUME TypeOK, NEW c \in Copy
  PROVE  /\ requests[c] \in Seq(Requested) /\ replies[c] \in Seq(Replied)
         /\ patches[c] \in Seq(Patch) /\ replay[c] \in Seq(Patch)
         /\ copy[c] \in Local
  BY DEF TypeOK, Requested, Replied, Local

(* What the head of a channel is, if there is one. *)
LEMMA Heads ==
  ASSUME TypeOK, NEW c \in Copy
  PROVE  /\ requests[c] # <<>> =>
              /\ Head(requests[c]) \in Requested /\ Tail(requests[c]) \in Seq(Requested)
              /\ IsSnapshot(Head(requests[c])) \/ (Head(requests[c]).type = "mutate"
                                                   /\ Head(requests[c]).id \in Mutation)
         /\ replies[c] # <<>> =>
              /\ Head(replies[c]) \in Replied /\ Tail(replies[c]) \in Seq(Replied)
              /\ IF IsSnapshot(Head(replies[c]))
                   THEN Head(replies[c]).value \in Value /\ Head(replies[c]).seq \in Nat
                   ELSE /\ Head(replies[c]).type \in {"ack", "stale", "invalid"}
                        /\ Head(replies[c]).id \in Mutation
         /\ patches[c] # <<>> => Head(patches[c]) \in Patch /\ Tail(patches[c]) \in Seq(Patch)
         /\ replay[c] # <<>> => Head(replay[c]) \in Patch /\ Tail(replay[c]) \in Seq(Patch)
<1>1. requests[c] \in Seq(Requested) /\ replies[c] \in Seq(Replied)
      /\ patches[c] \in Seq(Patch) /\ replay[c] \in Seq(Patch)
  BY ChannelTypes
<1>2. \A e \in Requested : IsSnapshot(e) \/ (e.type = "mutate" /\ e.id \in Mutation)
  BY DEF Requested, IsSnapshot
<1>3. \A e \in Replied : IF IsSnapshot(e) THEN e.value \in Value /\ e.seq \in Nat
                          ELSE e.type \in {"ack", "stale", "invalid"} /\ e.id \in Mutation
  BY DEF Replied, IsSnapshot
<1> HIDE DEF Requested, Replied
<1>4. /\ requests[c] # <<>> => Head(requests[c]) \in Requested /\ Tail(requests[c]) \in Seq(Requested)
      /\ replies[c] # <<>> => Head(replies[c]) \in Replied /\ Tail(replies[c]) \in Seq(Replied)
      /\ patches[c] # <<>> => Head(patches[c]) \in Patch /\ Tail(patches[c]) \in Seq(Patch)
      /\ replay[c] # <<>> => Head(replay[c]) \in Patch /\ Tail(replay[c]) \in Seq(Patch)
  BY <1>1, TailFacts
<1> QED BY <1>2, <1>3, <1>4

(* A copy that becomes another, and perhaps asks for a snapshot. *)
LEMMA BecomesFacts ==
  ASSUME TypeOK, NEW c \in Copy, NEW next \in Local, Becomes(c, next)
  PROVE  /\ copy' \in [Copy -> Local] /\ requests' \in [Copy -> Seq(Requested)]
         /\ \A d \in Copy : copy'[d] = IF d = c THEN next ELSE copy[d]
         /\ \A d \in Copy : requests'[d] = IF d = c /\ next.refetching /\ ~copy[c].refetching
                                            THEN Append(requests[c], GetSnapshot) ELSE requests[d]
<1>1. copy \in [Copy -> Local] /\ requests \in [Copy -> Seq(Requested)]
  BY DEF TypeOK, Local, Requested
<1>2. GetSnapshot \in Requested
  BY DEF GetSnapshot, Requested
<1>3. Append(requests[c], GetSnapshot) \in Seq(Requested)
  BY <1>1, <1>2, AppendFacts
<1> HIDE DEF Local, Requested
<1> QED BY <1>1, <1>3 DEF Becomes, Request

ChannelsTyped ==
  /\ requests \in [Copy -> Seq(Requested)] /\ replies \in [Copy -> Seq(Replied)]
  /\ patches \in [Copy -> Seq(Patch)]
CopiesTyped == copy \in [Copy -> Local] /\ replay \in [Copy -> Seq(Patch)] /\ heard \in [Copy -> Nat]
LivesTyped == subscribed \in [Copy -> BOOLEAN] /\ called \in [Copy -> BOOLEAN]
CallsTyped ==
  /\ outcome \in [Mutation -> Outcomes] /\ basis \in [Mutation -> Nat]
  /\ seen \in [Mutation -> Value \cup {None}]

(* The type invariant by its parts. *)
LEMMA TypeParts ==
  TypeOK <=> /\ authority \in [value : Value, seq : Nat]
             /\ CopiesTyped /\ LivesTyped /\ ChannelsTyped /\ CallsTyped
             /\ lost \in 0 .. MaxLost
  BY DEF TypeOK, CopiesTyped, LivesTyped, ChannelsTyped, CallsTyped, Local, Requested, Replied

(* The type invariant after a step, from its parts. *)
LEMMA TypeNext ==
  ASSUME authority' \in [value : Value, seq : Nat],
         CopiesTyped', LivesTyped', ChannelsTyped', CallsTyped', lost' \in 0 .. MaxLost
  PROVE  TypeOK'
  BY DEF TypeOK, CopiesTyped, LivesTyped, ChannelsTyped, CallsTyped, Local, Requested, Replied

-----------------------------------------------------------------------------
(* What a step leaves of each part. *)

LEMMA AuthorsAre ==
  ASSUME NEW a, GoodAuthority(a), NEW i \in 1 .. a.seq
  PROVE  a.value[i] \in Token /\ a.value[i].by \in Mutation
<1>1. a.value \in Seq(Token) /\ i \in 1 .. Len(a.value)
  BY DEF GoodAuthority, Value
<1>2. a.value[i] \in Token
  BY <1>1
<1> QED BY <1>2 DEF Token

(* Steps that leave the authority and what was seen alone keep the bases true. *)
LEMMA BasesStay ==
  ASSUME Bases, UNCHANGED <<authority, basis, seen>>,
         \A m \in Mutation : outcome[m] # "idle" => outcome'[m] # "idle",
         GoodAuthority(authority)
  PROVE  Bases'
<1>1. \A i \in 1 .. authority.seq : authority.value[i].by \in Mutation
  BY AuthorsAre
<1> QED BY <1>1 DEF Bases

(* The mutations asked for in t are asked for in s, at the places f. *)
Follows(f, s, t) ==
  \A i \in 1 .. Len(t), m \in Mutation :
    Asks(t[i], m) =>
      /\ f[i] \in 1 .. Len(s) /\ Asks(s[f[i]], m)
      /\ \A j \in 1 .. Len(t) : Asks(t[j], m) /\ f[i] = f[j] => i = j

(* Calls are not sent, and answered only with what was on its way. *)
LEMMA CallsStay ==
  ASSUME TypeOK, TypeOK', Calls, UNCHANGED authority,
         \A c \in Copy : \E t \in Seq(Requested) :
           /\ Thins(requests[c], t)
           /\ requests'[c] = t \/ requests'[c] = Append(t, GetSnapshot),
         \A c \in Copy : \A i \in 1 .. Len(replies'[c]) :
           ~IsSnapshot(replies'[c][i]) =>
             \E j \in 1 .. Len(replies[c]) : replies[c][j] = replies'[c][i],
         \A m \in Mutation :
           \/ outcome'[m] = outcome[m]
           \/ outcome[m] = "asked" /\ outcome'[m] = "timeout"
           \/ /\ outcome'[m] # "idle"
              /\ \A c \in Copy : \A i \in 1 .. Len(requests[c]) : ~Asks(requests[c][i], m)
  PROVE  Calls'
<1>1. \A m : Decided(authority', m) = Decided(authority, m)
  BY DEF Decided
<1>2. ASSUME NEW c \in Copy
      PROVE  \E f : Follows(f, requests[c], requests'[c])
  <2>1. PICK t \in Seq(Requested) :
          /\ Thins(requests[c], t)
          /\ requests'[c] = t \/ requests'[c] = Append(t, GetSnapshot)
    OBVIOUS
  <2>2. PICK f : /\ \A i \in 1 .. Len(t) : f[i] \in 1 .. Len(requests[c]) /\ requests[c][f[i]] = t[i]
                 /\ \A i, j \in 1 .. Len(t) : f[i] = f[j] => i = j
    BY <2>1 DEF Thins
  <2>3. \A i \in 1 .. Len(requests'[c]) : \A m :
          Asks(requests'[c][i], m) => i \in 1 .. Len(t) /\ requests'[c][i] = t[i]
    <3>1. CASE requests'[c] = t
      BY <3>1
    <3>2. CASE requests'[c] = Append(t, GetSnapshot)
      <4>1. GetSnapshot \in Requested /\ \A m : ~Asks(GetSnapshot, m)
        BY DEF GetSnapshot, Requested, Asks
      <4>2. /\ Len(t) \in Nat /\ Len(requests'[c]) = Len(t) + 1
            /\ \A i \in 1 .. Len(t) : requests'[c][i] = t[i]
            /\ requests'[c][Len(t) + 1] = GetSnapshot
        BY <2>1, <3>2, <4>1, AppendFacts
      <4>3. \A i \in 1 .. Len(requests'[c]) : i \in 1 .. Len(t) \/ i = Len(t) + 1
        BY <4>2
      <4> QED BY <4>1, <4>2, <4>3
    <3> QED BY <2>1, <3>1, <3>2
  <2>4. Follows(f, requests[c], requests'[c])
    BY <2>2, <2>3 DEF Follows
  <2> QED BY <2>4
<1>3. ASSUME NEW c \in Copy, NEW m \in Mutation, NEW i \in 1 .. Len(requests'[c]),
             Asks(requests'[c][i], m)
      PROVE  /\ Owner[m] = c /\ outcome'[m] \in {"asked", "timeout"} /\ ~Decided(authority, m)
             /\ \A j \in 1 .. Len(requests'[c]) : Asks(requests'[c][j], m) => i = j
  <2>1. PICK f : Follows(f, requests[c], requests'[c])
    BY <1>2
  <2>2. /\ Owner[m] = c /\ outcome[m] \in {"asked", "timeout"} /\ ~Decided(authority, m)
        /\ \A j \in 1 .. Len(requests[c]) : Asks(requests[c][j], m) => f[i] = j
    <3>1. f[i] \in 1 .. Len(requests[c]) /\ Asks(requests[c][f[i]], m)
      BY <1>3, <2>1 DEF Follows
    <3> QED BY <3>1 DEF Calls
  <2>3. outcome'[m] = outcome[m] \/ outcome'[m] = "timeout"
    BY <1>3, <2>1, <2>2 DEF Follows
  <2>4. outcome'[m] \in {"asked", "timeout"}
    BY <2>2, <2>3
  <2>5. \A j \in 1 .. Len(requests'[c]) : Asks(requests'[c][j], m) => i = j
    <3>1. ASSUME NEW j \in 1 .. Len(requests'[c]), Asks(requests'[c][j], m)
          PROVE  i = j
      <4>1. f[j] \in 1 .. Len(requests[c]) /\ Asks(requests[c][f[j]], m)
        BY <2>1, <3>1 DEF Follows
      <4>2. f[i] = f[j]
        BY <2>2, <4>1
      <4> QED BY <1>3, <2>1, <3>1, <4>2 DEF Follows
    <3> QED BY <3>1
  <2> QED BY <2>2, <2>4, <2>5
<1>4. ASSUME NEW c \in Copy, NEW i \in 1 .. Len(replies'[c]), ~IsSnapshot(replies'[c][i])
      PROVE  LET e == replies'[c][i] IN
             /\ outcome'[e.id] # "idle"
             /\ e.type = "ack" <=> Decided(authority, e.id)
             /\ \A d \in Copy : \A j \in 1 .. Len(requests'[d]) : ~Asks(requests'[d][j], e.id)
  <2> DEFINE e == replies'[c][i]
  <2>1. PICK j \in 1 .. Len(replies[c]) : replies[c][j] = e
    BY <1>4
  <2>2. e.id \in Mutation
    <3>1. e \in Replied
      BY <2>1, ChannelTypes
    <3> QED BY <1>4, <3>1 DEF Replied, IsSnapshot
  <2>3. /\ outcome[e.id] # "idle"
        /\ e.type = "ack" <=> Decided(authority, e.id)
        /\ \A d \in Copy : \A k \in 1 .. Len(requests[d]) : ~Asks(requests[d][k], e.id)
    BY <1>4, <2>1 DEF Calls
  <2> HIDE DEF e
  <2>4. outcome'[e.id] # "idle"
    BY <2>2, <2>3
  <2>5. \A d \in Copy : \A k \in 1 .. Len(requests'[d]) : ~Asks(requests'[d][k], e.id)
    <3> SUFFICES ASSUME NEW d \in Copy, NEW k \in 1 .. Len(requests'[d]),
                        Asks(requests'[d][k], e.id)
                 PROVE  FALSE
      OBVIOUS
    <3>1. PICK f : Follows(f, requests[d], requests'[d])
      BY <1>2
    <3>2. f[k] \in 1 .. Len(requests[d]) /\ Asks(requests[d][f[k]], e.id)
      BY <2>2, <3>1 DEF Follows
    <3> QED BY <2>3, <3>2
  <2> QED BY <2>3, <2>4, <2>5 DEF e
<1> QED BY <1>1, <1>3, <1>4 DEF Calls

(* Steps that leave the authority, copies, patches and answers alone keep the data true. *)
LEMMA DataStays ==
  ASSUME Data, UNCHANGED <<authority, copy, patches, replay, replies>>
  PROVE  Data'
  BY DEF Data

(* Steps that leave copies, requests and answers alone keep one snapshot under way. *)
LEMMA FetchStays ==
  ASSUME Fetch, UNCHANGED <<copy, called, requests, replies>>
  PROVE  Fetch'
  BY DEF Fetch

(* Channels that have not changed hold what they held. *)
LEMMA SameMessages ==
  ASSUME TypeOK
  PROVE  /\ \A c \in Copy : Thins(requests[c], requests[c])
         /\ \A c \in Copy : \A i \in 1 .. Len(replies[c]) :
              \E j \in 1 .. Len(replies[c]) : replies[c][j] = replies[c][i]
  BY ChannelTypes, ThinsFacts

-----------------------------------------------------------------------------
(* Steps of a LocalCopy. *)

LEMMA InitCopyStep ==
  ASSUME IInv, NEW c \in Copy, InitCopy(c)
  PROVE  IInv'
<1>1. TypeOK /\ Data /\ Fetch /\ Calls /\ Bases /\ GoodAuthority(authority)
  BY DEF IInv, Data
<1>2. /\ ~called[c] /\ called' = [called EXCEPT ![c] = TRUE]
      /\ requests' = [requests EXCEPT ![c] = Append(@, GetSnapshot)]
      /\ UNCHANGED <<authority, copy, replay, heard, subscribed, patches, replies, outcome,
                     basis, seen, lost>>
  BY DEF InitCopy, Request, copyVars, callVars
<1>3. GetSnapshot \in Requested /\ requests[c] \in Seq(Requested)
  BY <1>1, ChannelTypes DEF GetSnapshot, Requested
<1>4. Append(requests[c], GetSnapshot) \in Seq(Requested)
  BY <1>3, AppendFacts
<1> HIDE DEF Requested
<1>5. /\ requests' \in [Copy -> Seq(Requested)] /\ called' \in [Copy -> BOOLEAN]
      /\ \A d \in Copy : requests'[d] = IF d = c THEN Append(requests[c], GetSnapshot) ELSE requests[d]
      /\ \A d \in Copy : called'[d] = IF d = c THEN TRUE ELSE called[d]
  BY <1>1, <1>2, <1>4, TypeParts DEF ChannelsTyped, LivesTyped
<1>6. TypeOK'
  BY <1>1, <1>2, <1>5, TypeParts, TypeNext
     DEF CopiesTyped, ChannelsTyped, LivesTyped, CallsTyped
<1>7. Data'
  BY <1>1, <1>2, DataStays
<1>8. Fetch'
  <2>1. ASSUME NEW d \in Copy PROVE GoodFetch(copy'[d], called'[d], requests'[d], replies'[d])
    <3>1. GoodFetch(copy[d], called[d], requests[d], replies[d])
      BY <1>1 DEF Fetch
    <3>2. CASE d = c
      <4>1. ~copy[c].initialised /\ NoSnapshot(requests[c]) /\ NoSnapshot(replies[c])
            /\ AtMostOne(replies[c])
        BY <1>2, <3>1, <3>2 DEF GoodFetch
      <4>2. AtMostOne(Append(requests[c], GetSnapshot))
        BY <1>3, <4>1, AppendSnapshots
      <4> QED BY <1>2, <1>5, <3>2, <4>1, <4>2 DEF GoodFetch
    <3>3. CASE d # c
      BY <1>2, <1>5, <3>1, <3>3
    <3> QED BY <3>2, <3>3
  <2> QED BY <2>1 DEF Fetch
<1>9. Calls'
  <2>1. \A d \in Copy : \E t \in Seq(Requested) :
          Thins(requests[d], t) /\ (requests'[d] = t \/ requests'[d] = Append(t, GetSnapshot))
    BY <1>1, <1>5, SameMessages, ChannelTypes
  <2> QED BY <1>1, <1>2, <1>6, <2>1, SameMessages, CallsStay
<1>10. Bases'
  BY <1>1, <1>2, BasesStay
<1> QED BY <1>6, <1>7, <1>8, <1>9, <1>10 DEF IInv

(* Steps that neither send nor receive, and lose nothing but patches. *)
LEMMA QuietStep ==
  ASSUME IInv, TypeOK', UNCHANGED <<authority, copy, replay, called, requests, replies,
                                    outcome, basis, seen>>,
         \A c \in Copy : GoodBuffer(authority, patches'[c])
  PROVE  IInv'
<1>1. TypeOK /\ Data /\ Fetch /\ Calls /\ Bases /\ GoodAuthority(authority)
  BY DEF IInv, Data
<1>2. Data'
  BY <1>1 DEF Data, GoodThread
<1>3. Fetch' /\ Bases'
  BY <1>1, FetchStays, BasesStay
<1>4. Calls'
  BY <1>1 DEF Calls, Decided
<1> QED BY <1>2, <1>3, <1>4 DEF IInv

(* The patches behind a patch are as good. *)
LEMMA TailBuffer ==
  ASSUME NEW a, NEW s, GoodBuffer(a, s), s # <<>>
  PROVE  /\ Head(s) \in Patch /\ Accepted(a, Head(s)) /\ GoodBuffer(a, Tail(s))
<1>1. s \in Seq(Patch) /\ \A i \in 1 .. Len(s) : Accepted(a, s[i])
  BY DEF GoodBuffer
<1>2. /\ Head(s) = s[1] /\ Head(s) \in Patch /\ Tail(s) \in Seq(Patch)
      /\ Len(s) \in Nat /\ 1 <= Len(s) /\ Len(Tail(s)) = Len(s) - 1
      /\ \A i \in 1 .. Len(s) - 1 : Tail(s)[i] = s[i + 1]
  BY <1>1, TailFacts
<1>3. 1 \in 1 .. Len(s) /\ \A i \in 1 .. Len(s) - 1 : i + 1 \in 1 .. Len(s)
  BY <1>2
<1> QED BY <1>1, <1>2, <1>3 DEF GoodBuffer

(* Making or disposing a copy, or losing a patch, keeps the invariant. *)
LEMMA LossStep ==
  ASSUME IInv, NEW c \in Copy, CreateLocalCopy(c) \/ DisposeCopy(c) \/ LosePatch(c)
  PROVE  IInv'
<1>1. TypeOK /\ \A d \in Copy : GoodBuffer(authority, patches[d])
  BY DEF IInv, Data, GoodThread
<1>2. CASE CreateLocalCopy(c)
  <2>1. /\ subscribed' = [subscribed EXCEPT ![c] = TRUE]
        /\ UNCHANGED <<authority, copy, replay, heard, called, patches, requests, replies,
                       outcome, basis, seen, lost>>
    BY <1>2 DEF CreateLocalCopy, copyVars, channels, callVars
  <2>2. TypeOK'
    BY <1>1, <2>1, TypeParts, TypeNext
     DEF CopiesTyped, ChannelsTyped, LivesTyped, CallsTyped
  <2> QED BY <1>1, <2>1, <2>2, QuietStep
<1>3. CASE DisposeCopy(c)
  <2>1. /\ subscribed' = [subscribed EXCEPT ![c] = FALSE]
        /\ patches' = [patches EXCEPT ![c] = <<>>]
        /\ UNCHANGED <<authority, copy, replay, heard, called, requests, replies,
                       outcome, basis, seen, lost>>
    BY <1>3 DEF DisposeCopy, copyVars, callVars
  <2>2. TypeOK'
    BY <1>1, <2>1, TypeParts, TypeNext
     DEF CopiesTyped, ChannelsTyped, LivesTyped, CallsTyped
  <2>3. \A d \in Copy : patches'[d] = IF d = c THEN <<>> ELSE patches[d]
    BY <1>1, <2>1, TypeParts DEF ChannelsTyped
  <2>4. GoodBuffer(authority, <<>>)
    BY DEF GoodBuffer
  <2> QED BY <1>1, <2>1, <2>2, <2>3, <2>4, QuietStep
<1>4. CASE LosePatch(c)
  <2>1. /\ patches[c] # <<>> /\ lost < MaxLost
        /\ patches' = [patches EXCEPT ![c] = Tail(@)] /\ lost' = lost + 1
        /\ UNCHANGED <<authority, copy, replay, heard, subscribed, called, requests, replies,
                       outcome, basis, seen>>
    BY <1>4 DEF LosePatch, copyVars, lifeVars, callVars
  <2>2. Tail(patches[c]) \in Seq(Patch) /\ GoodBuffer(authority, Tail(patches[c]))
    BY <1>1, <2>1, TailBuffer DEF GoodBuffer
  <2>3. /\ patches' \in [Copy -> Seq(Patch)]
        /\ \A d \in Copy : patches'[d] = IF d = c THEN Tail(patches[c]) ELSE patches[d]
    BY <1>1, <2>1, <2>2, TypeParts DEF ChannelsTyped
  <2>4. lost' \in 0 .. MaxLost
    BY <1>1, <2>1, TypeParts
  <2>5. TypeOK'
    BY <1>1, <2>1, <2>3, <2>4, TypeParts, TypeNext
     DEF CopiesTyped, ChannelsTyped, LivesTyped, CallsTyped
  <2> QED BY <1>1, <2>1, <2>2, <2>3, <2>5, QuietStep
<1> QED BY <1>2, <1>3, <1>4

(* A copy that comes on by patches: it asks for a snapshot only if none is
   under way, and stands still if one is. *)
LEMMA ComingOnStep ==
  ASSUME IInv, NEW c \in Copy, NEW next, Becomes(c, next), ComesOn(authority, copy[c], next),
         UNCHANGED <<authority, replies, subscribed, called, outcome, basis, seen, lost>>,
         patches' \in [Copy -> Seq(Patch)], replay' \in [Copy -> Seq(Patch)],
         heard' \in [Copy -> Nat],
         \A d \in Copy : GoodBuffer(authority, patches'[d]) /\ GoodBuffer(authority, replay'[d])
  PROVE  IInv'
<1>1. TypeOK /\ Data /\ Fetch /\ Calls /\ Bases /\ GoodAuthority(authority)
  BY DEF IInv, Data
<1> DEFINE k == copy[c]
           asks == next.refetching /\ ~k.refetching
<1>2. /\ k \in Local /\ next \in Local /\ GoodCopy(authority, next)
      /\ k.initialised \in BOOLEAN /\ next.initialised \in BOOLEAN
      /\ k.refetching \in BOOLEAN /\ next.refetching \in BOOLEAN
      /\ k.seq \in Nat /\ next.seq \in Nat
  BY <1>1, ChannelTypes DEF ComesOn, GoodCopy, Local
<1>3. /\ copy' \in [Copy -> Local] /\ requests' \in [Copy -> Seq(Requested)]
      /\ \A d \in Copy : copy'[d] = IF d = c THEN next ELSE copy[d]
      /\ \A d \in Copy : requests'[d] = IF d = c /\ asks
                                         THEN Append(requests[c], GetSnapshot) ELSE requests[d]
  BY <1>1, <1>2, BecomesFacts
<1>4. TypeOK'
  BY <1>1, <1>3, TypeParts, TypeNext DEF CopiesTyped, ChannelsTyped, LivesTyped, CallsTyped
<1>5. GoodThread(authority, k, patches[c], replay[c], replies[c])
      /\ GoodFetch(k, called[c], requests[c], replies[c])
  BY <1>1 DEF Data, Fetch
<1>6. requests[c] \in Seq(Requested) /\ replies[c] \in Seq(Replied) /\ GetSnapshot \in Requested
  BY <1>1, ChannelTypes DEF GetSnapshot, Requested
<1>7. /\ next.initialised = k.initialised
      /\ k.refetching => next.refetching /\ next.seq = k.seq
      /\ next.refetching => next.initialised
  BY DEF ComesOn
<1> HIDE DEF k, asks
<1>8. GoodFetch(next, called[c], IF asks THEN Append(requests[c], GetSnapshot) ELSE requests[c],
                replies[c])
  <2>1. CASE asks
    <3>1. k.initialised /\ ~k.refetching
      BY <1>2, <1>7, <2>1 DEF asks
    <3>2. NoSnapshot(requests[c]) /\ NoSnapshot(replies[c]) /\ called[c] /\ AtMostOne(replies[c])
      BY <1>5, <3>1 DEF GoodFetch
    <3>3. AtMostOne(Append(requests[c], GetSnapshot))
      BY <1>6, <3>2, AppendSnapshots
    <3> QED BY <2>1, <3>2, <3>3 DEF GoodFetch, asks
  <2>2. CASE ~asks
    BY <1>2, <1>5, <1>7, <2>2 DEF GoodFetch
  <2> QED BY <2>1, <2>2
<1>9. Fetch'
  <2>1. ASSUME NEW d \in Copy PROVE GoodFetch(copy'[d], called'[d], requests'[d], replies'[d])
    <3>1. CASE d = c
      BY <1>3, <1>8, <3>1
    <3>2. CASE d # c
      BY <1>1, <1>3, <3>2 DEF Fetch
    <3> QED BY <3>1, <3>2
  <2> QED BY <2>1 DEF Fetch
<1>10. ASSUME NEW i \in 1 .. Len(replies[c]), IsSnapshot(replies[c][i])
       PROVE  GoodSnapshot(authority, next, replies[c][i])
  <2>1. i \in Snapshots(replies[c])
    BY <1>6, <1>10 DEF Snapshots
  <2>2. k.initialised => k.refetching
    BY <1>5, <2>1 DEF GoodFetch, NoSnapshot
  <2>3. GoodSnapshot(authority, k, replies[c][i])
    BY <1>5, <1>10 DEF GoodThread
  <2>4. next.seq = k.seq
    <3>1. CASE k.initialised
      BY <1>7, <2>2, <3>1
    <3>2. CASE ~k.initialised
      <4>1. ~next.initialised
        BY <1>7, <3>2
      <4>2. next.seq = 0
        BY <1>2, <4>1 DEF GoodCopy
      <4>3. k.seq = 0
        BY <1>5, <3>2 DEF GoodThread, GoodCopy
      <4> QED BY <4>2, <4>3
    <3> QED BY <3>1, <3>2
  <2> QED BY <2>3, <2>4 DEF GoodSnapshot
<1>11. Data'
  <2>1. ASSUME NEW d \in Copy
        PROVE  GoodThread(authority, copy'[d], patches'[d], replay'[d], replies'[d])
    <3>1. CASE d = c
      BY <1>2, <1>3, <1>10, <3>1 DEF GoodThread
    <3>2. CASE d # c
      BY <1>1, <1>3, <3>2 DEF Data, GoodThread
    <3> QED BY <3>1, <3>2
  <2> QED BY <1>1, <2>1 DEF Data
<1>12. Calls'
  <2>1. \A d \in Copy : \E t \in Seq(Requested) :
          Thins(requests[d], t) /\ (requests'[d] = t \/ requests'[d] = Append(t, GetSnapshot))
    BY <1>1, <1>3, SameMessages, ChannelTypes
  <2> QED BY <1>1, <1>4, <2>1, SameMessages, CallsStay
<1>13. Bases'
  BY <1>1, BasesStay
<1> QED BY <1>4, <1>9, <1>11, <1>12, <1>13 DEF IInv

(* A patch that is received or replayed keeps the invariant. *)
LEMMA PatchStep ==
  ASSUME IInv, NEW c \in Copy, ReceivePatch(c) \/ ReplayPatch(c)
  PROVE  IInv'
<1>1. /\ TypeOK /\ GoodAuthority(authority)
      /\ \A d \in Copy : /\ GoodCopy(authority, copy[d]) /\ GoodBuffer(authority, patches[d])
                          /\ GoodBuffer(authority, replay[d])
      /\ patches \in [Copy -> Seq(Patch)] /\ replay \in [Copy -> Seq(Patch)]
      /\ heard \in [Copy -> Nat]
  BY DEF IInv, Data, GoodThread, TypeOK
<1>2. CASE ReceivePatch(c)
  <2>1. PICK breaks \in BOOLEAN : Becomes(c, Receives(copy[c], Head(patches[c]), breaks))
    BY <1>2 DEF ReceivePatch
  <2>2. /\ patches[c] # <<>> /\ patches' = [patches EXCEPT ![c] = Tail(@)]
        /\ heard' = [heard EXCEPT ![c] = Head(patches[c]).seq]
        /\ UNCHANGED <<authority, replay, subscribed, called, replies, outcome, basis, seen, lost>>
    BY <1>2 DEF ReceivePatch, lifeVars, callVars
  <2>3. Head(patches[c]) \in Patch /\ Accepted(authority, Head(patches[c]))
        /\ GoodBuffer(authority, Tail(patches[c]))
    BY <1>1, <2>2, TailBuffer
  <2>4. ComesOn(authority, copy[c], Receives(copy[c], Head(patches[c]), breaks))
    BY <1>1, <2>3, ReceivesFacts
  <2>5. Tail(patches[c]) \in Seq(Patch) /\ Head(patches[c]).seq \in Nat
    BY <2>3 DEF GoodBuffer, Patch
  <2>6. /\ patches' \in [Copy -> Seq(Patch)] /\ heard' \in [Copy -> Nat]
        /\ \A d \in Copy : patches'[d] = IF d = c THEN Tail(patches[c]) ELSE patches[d]
    BY <1>1, <2>2, <2>5
  <2>7. \A d \in Copy : GoodBuffer(authority, patches'[d]) /\ GoodBuffer(authority, replay'[d])
    BY <1>1, <2>2, <2>3, <2>6
  <2> HIDE DEF IInv
  <2> QED BY <1>1, <2>1, <2>2, <2>4, <2>6, <2>7, ComingOnStep
<1>3. CASE ReplayPatch(c)
  <2>1. PICK breaks \in BOOLEAN : Becomes(c, Receives(copy[c], Head(replay[c]), breaks))
    BY <1>3 DEF ReplayPatch
  <2>2. /\ replay[c] # <<>> /\ replay' = [replay EXCEPT ![c] = Tail(@)]
        /\ UNCHANGED <<authority, heard, subscribed, called, patches, replies, outcome, basis,
                       seen, lost>>
    BY <1>3 DEF ReplayPatch, lifeVars, callVars
  <2>3. Head(replay[c]) \in Patch /\ Accepted(authority, Head(replay[c]))
        /\ GoodBuffer(authority, Tail(replay[c]))
    BY <1>1, <2>2, TailBuffer
  <2>4. ComesOn(authority, copy[c], Receives(copy[c], Head(replay[c]), breaks))
    BY <1>1, <2>3, ReceivesFacts
  <2>5. Tail(replay[c]) \in Seq(Patch)
    BY <2>3 DEF GoodBuffer
  <2>6. /\ replay' \in [Copy -> Seq(Patch)]
        /\ \A d \in Copy : replay'[d] = IF d = c THEN Tail(replay[c]) ELSE replay[d]
    BY <1>1, <2>2, <2>5
  <2>7. \A d \in Copy : GoodBuffer(authority, patches'[d]) /\ GoodBuffer(authority, replay'[d])
    BY <1>1, <2>2, <2>3, <2>6
  <2> QED BY <1>1, <2>1, <2>2, <2>4, <2>6, <2>7, ComingOnStep
<1> QED BY <1>2, <1>3

(* A copy that is given its snapshot, and what it makes of its buffer. *)
LEMMA SnapshotGiven ==
  ASSUME IInv, NEW c \in Copy, NEW next, Becomes(c, next),
         replies[c] # <<>>, IsSnapshot(Head(replies[c])),
         GoodCopy(authority, next), next.initialised, next.refetching => ~copy[c].refetching,
         replies' = [replies EXCEPT ![c] = Tail(@)],
         replay' \in [Copy -> Seq(Patch)], \A d \in Copy : GoodBuffer(authority, replay'[d]),
         UNCHANGED <<authority, heard, subscribed, called, patches, outcome, basis, seen, lost>>
  PROVE  IInv'
<1>1. TypeOK /\ Data /\ Fetch /\ Calls /\ Bases /\ GoodAuthority(authority)
  BY DEF IInv, Data
<1> DEFINE asks == next.refetching /\ ~copy[c].refetching
<1>2. next \in Local
  BY DEF GoodCopy
<1>3. /\ copy' \in [Copy -> Local] /\ requests' \in [Copy -> Seq(Requested)]
      /\ \A d \in Copy : copy'[d] = IF d = c THEN next ELSE copy[d]
      /\ \A d \in Copy : requests'[d] = IF d = c /\ asks
                                         THEN Append(requests[c], GetSnapshot) ELSE requests[d]
  BY <1>1, <1>2, BecomesFacts
<1>4. requests[c] \in Seq(Requested) /\ replies[c] \in Seq(Replied) /\ GetSnapshot \in Requested
      /\ Tail(replies[c]) \in Seq(Replied) /\ replies \in [Copy -> Seq(Replied)]
  BY <1>1, ChannelTypes, Heads, TypeParts DEF GetSnapshot, Requested, ChannelsTyped
<1> HIDE DEF Replied
<1>5. /\ replies' \in [Copy -> Seq(Replied)]
      /\ \A d \in Copy : replies'[d] = IF d = c THEN Tail(replies[c]) ELSE replies[d]
  BY <1>4
<1>6. TypeOK'
  BY <1>1, <1>3, <1>5, TypeParts, TypeNext
     DEF CopiesTyped, ChannelsTyped, LivesTyped, CallsTyped
<1>7. GoodFetch(copy[c], called[c], requests[c], replies[c])
  BY <1>1 DEF Fetch
<1>8. NoSnapshot(requests[c]) /\ NoSnapshot(Tail(replies[c])) /\ called[c]
  <2>1. AtMostOne(replies[c])
    BY <1>7 DEF GoodFetch
  <2>2. 1 \in Snapshots(replies[c])
    BY <1>4, TailFacts DEF Snapshots
  <2> QED BY <1>4, <1>7, <2>1, <2>2, TakenSnapshots DEF GoodFetch, NoSnapshot
<1>9. Fetch'
  <2>1. ASSUME NEW d \in Copy PROVE GoodFetch(copy'[d], called'[d], requests'[d], replies'[d])
    <3>1. CASE d = c
      <4>1. AtMostOne(requests'[c]) /\ (~asks => NoSnapshot(requests'[c]))
        <5>1. CASE asks
          <6>1. AtMostOne(Append(requests[c], GetSnapshot))
            BY <1>4, <1>8, AppendSnapshots
          <6> QED BY <1>3, <5>1, <6>1
        <5>2. CASE ~asks
          <6>1. requests'[c] = requests[c]
            BY <1>3, <5>2
          <6> QED BY <1>8, <6>1 DEF AtMostOne, NoSnapshot
        <5> QED BY <5>1, <5>2
      <4>2. AtMostOne(Tail(replies[c]))
        BY <1>8 DEF AtMostOne, NoSnapshot
      <4> QED BY <1>3, <1>5, <1>8, <3>1, <4>1, <4>2 DEF GoodFetch
    <3>2. CASE d # c
      BY <1>1, <1>3, <1>5, <3>2 DEF Fetch
    <3> QED BY <3>1, <3>2
  <2> QED BY <2>1 DEF Fetch
<1>10. Data'
  <2>1. ASSUME NEW d \in Copy
        PROVE  GoodThread(authority, copy'[d], patches'[d], replay'[d], replies'[d])
    <3>1. CASE d = c
      <4>1. \A i \in 1 .. Len(Tail(replies[c])) : ~IsSnapshot(Tail(replies[c])[i])
        <5>1. DOMAIN Tail(replies[c]) = 1 .. Len(Tail(replies[c]))
          BY <1>4
        <5> QED BY <1>8, <5>1 DEF NoSnapshot, Snapshots
      <4> QED BY <1>1, <1>3, <1>5, <3>1, <4>1 DEF Data, GoodThread
    <3>2. CASE d # c
      BY <1>1, <1>3, <1>5, <3>2 DEF Data, GoodThread
    <3> QED BY <3>1, <3>2
  <2> QED BY <1>1, <2>1 DEF Data
<1>11. Calls'
  <2>1. \A d \in Copy : \E t \in Seq(Requested) :
          Thins(requests[d], t) /\ (requests'[d] = t \/ requests'[d] = Append(t, GetSnapshot))
    BY <1>1, <1>3, SameMessages, ChannelTypes
  <2>2. \A d \in Copy : \A i \in 1 .. Len(replies'[d]) :
          \E j \in 1 .. Len(replies[d]) : replies[d][j] = replies'[d][i]
    <3>1. Thins(replies[c], Tail(replies[c]))
      BY <1>4, ThinsFacts
    <3>2. \A i \in 1 .. Len(Tail(replies[c])) :
            \E j \in 1 .. Len(replies[c]) : replies[c][j] = Tail(replies[c])[i]
      BY <3>1, ThinMembers
    <3> QED BY <1>1, <1>5, <3>2, SameMessages
  <2> QED BY <1>1, <1>6, <2>1, <2>2, CallsStay
<1>12. Bases'
  BY <1>1, BasesStay
<1> QED BY <1>6, <1>9, <1>10, <1>11, <1>12 DEF IInv

(* A snapshot is a copy with nothing to go through. *)
LEMMA RestoredGood ==
  ASSUME NEW a, NEW k, NEW e, GoodAuthority(a), GoodSnapshot(a, k, e)
  PROVE  GoodCopy(a, Restored(k, e))
<1> DEFINE r == Restored(k, e)
<1>1. /\ r.value = e.value /\ r.seq = e.seq /\ r.initialised /\ r.pending = <<>>
      /\ ~r.refetching
  BY DEF Restored
<1>2. e.value \in Value /\ e.seq \in Nat
  BY DEF GoodSnapshot, Agrees, GoodAuthority
<1>3. r \in Local
  BY <1>2 DEF Restored, Local
<1>4. GoodBuffer(a, <<>>)
  BY DEF GoodBuffer
<1> HIDE DEF r
<1>5. GoodCopy(a, r)
  BY <1>1, <1>3, <1>4 DEF GoodCopy, GoodSnapshot
<1> QED BY <1>5 DEF r

(* Two good buffers one after the other are a good buffer. *)
LEMMA ConcatBuffer ==
  ASSUME NEW a, NEW s, NEW t, GoodBuffer(a, s), GoodBuffer(a, t)
  PROVE  GoodBuffer(a, s \o t)
<1>1. /\ s \in Seq(Patch) /\ t \in Seq(Patch)
      /\ \A i \in 1 .. Len(s) : Accepted(a, s[i])
      /\ \A i \in 1 .. Len(t) : Accepted(a, t[i])
  BY DEF GoodBuffer
<1>2. /\ s \o t \in Seq(Patch)
      /\ Len(s) \in Nat /\ Len(t) \in Nat /\ Len(s \o t) = Len(s) + Len(t)
      /\ \A i \in 1 .. Len(s) : (s \o t)[i] = s[i]
      /\ \A i \in Len(s) + 1 .. Len(s) + Len(t) : (s \o t)[i] = t[i - Len(s)]
  BY <1>1, ConcatFacts
<1>3. \A i \in 1 .. Len(s) + Len(t) :
        i \in 1 .. Len(s) \/ (i \in Len(s) + 1 .. Len(s) + Len(t) /\ i - Len(s) \in 1 .. Len(t))
  BY <1>2
<1> QED BY <1>1, <1>2, <1>3 DEF GoodBuffer

(* What the copy becomes, by either way of going through its buffer. *)
SnapshotMade(c, next) ==
  /\ Becomes(c, next) /\ GoodCopy(authority, next) /\ Released(next)
  /\ next.initialised /\ next.seq >= copy[c].seq
  /\ next.refetching => ~copy[c].refetching

(* A snapshot that arrives makes a good copy which has not gone back. *)
LEMMA SnapshotMakes ==
  ASSUME TypeOK, GoodAuthority(authority), NEW c \in Copy, ReceiveSnapshot(c),
         GoodThread(authority, copy[c], patches[c], replay[c], replies[c])
  PROVE  \E next : SnapshotMade(c, next)
<1> DEFINE e == Head(replies[c])
           base == Restored(copy[c], e)
<1>1. replies[c] # <<>> /\ IsSnapshot(e)
  BY DEF ReceiveSnapshot
<1>2. GoodCopy(authority, copy[c]) /\ GoodBuffer(authority, copy[c].pending)
      /\ copy[c].seq \in Nat
  BY DEF GoodThread, GoodCopy, Local
<1>3. GoodSnapshot(authority, copy[c], e)
  <2>1. e = replies[c][1] /\ 1 \in 1 .. Len(replies[c])
    BY <1>1, ChannelTypes, TailFacts
  <2> QED BY <1>1, <2>1 DEF GoodThread
<1>4. /\ GoodCopy(authority, base) /\ base.initialised /\ ~base.refetching
      /\ Released(base) /\ base.seq >= copy[c].seq /\ base.seq \in Nat
  <2>1. base.seq = e.seq /\ base.pending = <<>> /\ base.initialised /\ ~base.refetching
    BY DEF Restored
  <2>2. e.seq >= copy[c].seq /\ e.seq \in Nat
    BY <1>2, <1>3 DEF GoodSnapshot, Agrees, GoodAuthority
  <2>3. GoodCopy(authority, base)
    BY <1>3, RestoredGood
  <2> HIDE DEF base
  <2> QED BY <2>1, <2>2, <2>3 DEF Released
<1> HIDE DEF e, base
<1>5. CASE Becomes(c, base)
  BY <1>4, <1>5 DEF SnapshotMade
<1>6. CASE /\ ~copy[c].initialised
           /\ \E broken \in SUBSET DOMAIN copy[c].pending :
                Becomes(c, HandedOver(base, copy[c].pending, broken))
  <2>1. PICK broken : Becomes(c, HandedOver(base, copy[c].pending, broken))
    BY <1>6
  <2> DEFINE next == HandedOver(base, copy[c].pending, broken)
  <2>2. ComesOn(authority, base, next)
    BY <1>2, <1>4, HandedOverFacts
  <2>3. Becomes(c, next)
    BY <2>1
  <2> HIDE DEF next
  <2>4. ~copy[c].refetching
    BY <1>2, <1>6 DEF GoodCopy
  <2>5. next.seq \in Nat /\ next.seq >= base.seq
    BY <2>2 DEF ComesOn, GoodCopy, Local
  <2>6. next.seq >= copy[c].seq
    BY <1>2, <1>4, <2>5
  <2> QED BY <1>4, <2>2, <2>3, <2>4, <2>6 DEF ComesOn, SnapshotMade
<1> QED BY <1>5, <1>6 DEF ReceiveSnapshot, e, base

(* The arrival of a snapshot keeps the invariant. *)
LEMMA ReceiveSnapshotStep ==
  ASSUME IInv, NEW c \in Copy, ReceiveSnapshot(c)
  PROVE  IInv'
<1>1. /\ replies[c] # <<>> /\ IsSnapshot(Head(replies[c]))
      /\ replies' = [replies EXCEPT ![c] = Tail(@)]
      /\ UNCHANGED <<authority, heard, subscribed, called, patches, outcome, basis, seen, lost>>
  BY DEF ReceiveSnapshot, lifeVars, callVars
<1>2. /\ TypeOK /\ GoodAuthority(authority)
      /\ \A d \in Copy : GoodThread(authority, copy[d], patches[d], replay[d], replies[d])
      /\ replay \in [Copy -> Seq(Patch)]
  BY DEF IInv, Data, TypeOK
<1>3. PICK next : SnapshotMade(c, next)
  BY <1>2, SnapshotMakes
<1>4. replay' = [replay EXCEPT ![c] = copy[c].pending \o @] \/ UNCHANGED replay
  BY DEF ReceiveSnapshot
<1>5. \A d \in Copy : GoodBuffer(authority, replay[d])
  BY <1>2 DEF GoodThread
<1>6. replay' \in [Copy -> Seq(Patch)] /\ \A d \in Copy : GoodBuffer(authority, replay'[d])
  <2>1. CASE UNCHANGED replay
    BY <1>2, <1>5, <2>1
  <2>2. CASE replay' = [replay EXCEPT ![c] = copy[c].pending \o @]
    <3>1. GoodBuffer(authority, copy[c].pending \o replay[c])
      BY <1>2, <1>5, ConcatBuffer DEF GoodThread, GoodCopy
    <3>2. /\ replay' \in [Copy -> Seq(Patch)]
          /\ \A d \in Copy : replay'[d] = IF d = c THEN copy[c].pending \o replay[c] ELSE replay[d]
      BY <1>2, <2>2, <3>1 DEF GoodBuffer
    <3> QED BY <1>5, <3>1, <3>2
  <2> QED BY <1>4, <2>1, <2>2
<1> QED BY <1>1, <1>3, <1>6, SnapshotGiven DEF SnapshotMade

(* A fetch that fails keeps the invariant. *)
LEMMA FetchFailsStep ==
  ASSUME IInv, NEW c \in Copy, FetchFails(c)
  PROVE  IInv'
<1>1. TypeOK /\ Data /\ Fetch /\ Calls /\ Bases /\ GoodAuthority(authority)
  BY DEF IInv, Data
<1>2. /\ copy' = [copy EXCEPT ![c].refetching = FALSE] /\ replay' = [replay EXCEPT ![c] = <<>>]
      /\ UNCHANGED <<authority, heard, subscribed, called, patches, outcome, basis, seen, lost>>
  BY DEF FetchFails, lifeVars, callVars
<1> DEFINE k == copy[c]
           next == [k EXCEPT !.refetching = FALSE]
<1>3. k \in Local /\ GoodCopy(authority, k)
      /\ copy \in [Copy -> Local] /\ replay \in [Copy -> Seq(Patch)]
      /\ requests \in [Copy -> Seq(Requested)] /\ replies \in [Copy -> Seq(Replied)]
  BY <1>1, ChannelTypes, TypeParts DEF Data, GoodThread, CopiesTyped, ChannelsTyped
<1>4. /\ next \in Local /\ next.value = k.value /\ next.seq = k.seq
      /\ next.initialised = k.initialised /\ next.pending = k.pending /\ next.refetching = FALSE
  BY <1>3 DEF Local
<1>5. /\ copy' \in [Copy -> Local] /\ replay' \in [Copy -> Seq(Patch)]
      /\ \A d \in Copy : copy'[d] = IF d = c THEN next ELSE copy[d]
      /\ \A d \in Copy : replay'[d] = IF d = c THEN <<>> ELSE replay[d]
  <2> HIDE DEF Local
  <2>1. \A d \in Copy : copy'[d] = IF d = c THEN next ELSE copy[d]
    BY <1>2, <1>3
  <2>2. copy' \in [Copy -> Local]
    BY <1>2, <1>3, <1>4
  <2> QED BY <1>2, <1>3, <2>1, <2>2
<1> HIDE DEF next, k
<1>6. GoodCopy(authority, next)
  BY <1>3, <1>4 DEF GoodCopy
<1>7. GoodFetch(k, called[c], requests[c], replies[c])
  BY <1>1 DEF Fetch, k
<1>8. /\ requests' \in [Copy -> Seq(Requested)] /\ replies' \in [Copy -> Seq(Replied)]
      /\ \A d \in Copy : d # c => requests'[d] = requests[d] /\ replies'[d] = replies[d]
      /\ Thins(requests[c], requests'[c]) /\ Thins(replies[c], replies'[c])
      /\ NoSnapshot(requests'[c]) /\ NoSnapshot(replies'[c])
  <2> HIDE DEF Requested, Replied
  <2>1. requests[c] \in Seq(Requested) /\ replies[c] \in Seq(Replied)
        /\ Thins(requests[c], requests[c]) /\ Thins(replies[c], replies[c])
        /\ AtMostOne(requests[c]) /\ AtMostOne(replies[c])
    BY <1>3, <1>7, ThinsFacts DEF GoodFetch
  <2>2. ASSUME NEW n \in Snapshots(requests[c]),
               requests' = [requests EXCEPT ![c] = RemoveAt(@, n)], UNCHANGED replies
        PROVE  <1>8!:
    <3>1. n \in 1 .. Len(requests[c]) /\ NoSnapshot(replies[c])
      BY <1>7, <2>1, <2>2 DEF Snapshots, GoodFetch, NoSnapshot
    <3>2. /\ RemoveAt(requests[c], n) \in Seq(Requested)
          /\ Thins(requests[c], RemoveAt(requests[c], n))
          /\ NoSnapshot(RemoveAt(requests[c], n))
      BY <2>1, <2>2, <3>1, RemoveFacts, ThinsFacts, TakenSnapshots
    <3>3. /\ requests' \in [Copy -> Seq(Requested)] /\ requests'[c] = RemoveAt(requests[c], n)
          /\ \A d \in Copy : d # c => requests'[d] = requests[d]
      BY <1>3, <2>2, <3>2
    <3> QED BY <1>3, <2>1, <2>2, <3>1, <3>2, <3>3
  <2>3. ASSUME NEW n \in Snapshots(replies[c]),
               replies' = [replies EXCEPT ![c] = RemoveAt(@, n)], UNCHANGED requests
        PROVE  <1>8!:
    <3>1. n \in 1 .. Len(replies[c]) /\ NoSnapshot(requests[c])
      BY <1>7, <2>1, <2>3 DEF Snapshots, GoodFetch, NoSnapshot
    <3>2. /\ RemoveAt(replies[c], n) \in Seq(Replied)
          /\ Thins(replies[c], RemoveAt(replies[c], n))
          /\ NoSnapshot(RemoveAt(replies[c], n))
      BY <2>1, <2>3, <3>1, RemoveFacts, ThinsFacts, TakenSnapshots
    <3>3. /\ replies' \in [Copy -> Seq(Replied)] /\ replies'[c] = RemoveAt(replies[c], n)
          /\ \A d \in Copy : d # c => replies'[d] = replies[d]
      BY <1>3, <2>3, <3>2
    <3> QED BY <1>3, <2>1, <2>3, <3>1, <3>2, <3>3
  <2> QED BY <2>2, <2>3 DEF FetchFails
<1>9. TypeOK'
  BY <1>1, <1>2, <1>5, <1>8, TypeParts, TypeNext
     DEF CopiesTyped, ChannelsTyped, LivesTyped, CallsTyped
<1>10. Fetch'
  <2>1. ASSUME NEW d \in Copy PROVE GoodFetch(copy'[d], called'[d], requests'[d], replies'[d])
    <3>1. CASE d = c
      BY <1>2, <1>4, <1>5, <1>7, <1>8, <3>1 DEF GoodFetch, AtMostOne, NoSnapshot
    <3>2. CASE d # c
      BY <1>1, <1>2, <1>5, <1>8, <3>2 DEF Fetch
    <3> QED BY <3>1, <3>2
  <2> QED BY <2>1 DEF Fetch
<1>11. Data'
  <2>1. ASSUME NEW d \in Copy
        PROVE  GoodThread(authority, copy'[d], patches'[d], replay'[d], replies'[d])
    <3>1. CASE d = c
      <4>1. \A i \in 1 .. Len(replies'[c]) : ~IsSnapshot(replies'[c][i])
        BY <1>8 DEF NoSnapshot, Snapshots
      <4>2. GoodBuffer(authority, <<>>)
        BY DEF GoodBuffer
      <4> QED BY <1>1, <1>2, <1>5, <1>6, <3>1, <4>1, <4>2 DEF Data, GoodThread
    <3>2. CASE d # c
      BY <1>1, <1>2, <1>5, <1>8, <3>2 DEF Data, GoodThread
    <3> QED BY <3>1, <3>2
  <2> QED BY <1>1, <1>2, <2>1 DEF Data
<1>12. Calls'
  <2>1. \A d \in Copy : \E t \in Seq(Requested) :
          Thins(requests[d], t) /\ (requests'[d] = t \/ requests'[d] = Append(t, GetSnapshot))
    BY <1>1, <1>8, SameMessages, ChannelTypes
  <2>2. \A d \in Copy : \A i \in 1 .. Len(replies'[d]) :
          \E j \in 1 .. Len(replies[d]) : replies[d][j] = replies'[d][i]
    <3>1. \A i \in 1 .. Len(replies'[c]) :
            \E j \in 1 .. Len(replies[c]) : replies[c][j] = replies'[c][i]
      BY <1>8, ThinMembers
    <3>2. \A d \in Copy : d = c \/ replies'[d] = replies[d]
      BY <1>8
    <3> QED BY <1>1, <3>1, <3>2, SameMessages, ZenonT(20)
  <2> QED BY <1>1, <1>2, <1>9, <2>1, <2>2, CallsStay
<1>13. Bases'
  BY <1>1, <1>2, BasesStay
<1> QED BY <1>9, <1>10, <1>11, <1>12, <1>13 DEF IInv

-----------------------------------------------------------------------------
(* Steps of a store's calls. *)

(* A call that has not been sent is nowhere: not asked for, not answered and
   not accepted. *)
LEMMA IdleUnknown ==
  ASSUME IInv, NEW m \in Mutation, outcome[m] = "idle"
  PROVE  /\ ~Decided(authority, m)
         /\ \A c \in Copy : \A i \in 1 .. Len(requests[c]) : ~Asks(requests[c][i], m)
         /\ \A c \in Copy : \A i \in 1 .. Len(replies[c]) :
              ~IsSnapshot(replies[c][i]) => replies[c][i].id # m
  BY DEF IInv, Calls, Bases, Decided

(* A mutation that is submitted keeps the invariant: its basis is what its caller sees. *)
LEMMA SubmitStep ==
  ASSUME IInv, NEW m \in Mutation, Submit(m)
  PROVE  IInv'
<1>1. TypeOK /\ Data /\ Fetch /\ Calls /\ Bases /\ GoodAuthority(authority)
  BY DEF IInv, Data
<1> DEFINE c == Owner[m]
           e == [type |-> "mutate", id |-> m]
<1>2. /\ c \in Copy /\ outcome[m] = "idle"
      /\ outcome' = [outcome EXCEPT ![m] = "asked"]
      /\ basis' = [basis EXCEPT ![m] = copy[c].seq]
      /\ seen' = [seen EXCEPT ![m] = copy[c].value]
      /\ requests' = [requests EXCEPT ![c] = Append(@, e)]
      /\ UNCHANGED <<authority, copy, replay, heard, subscribed, called, patches, replies, lost>>
  BY DEF Submit, Request, copyVars, lifeVars
<1>3. /\ e \in Requested /\ ~IsSnapshot(e)
      /\ Asks(e, m) /\ \A n \in Mutation : Asks(e, n) => n = m
  BY DEF Requested, IsSnapshot, Asks
<1>4. /\ copy[c] \in Local /\ copy[c].seq \in Nat /\ copy[c].value \in Value \cup {None}
      /\ requests[c] \in Seq(Requested) /\ GoodCopy(authority, copy[c])
  BY <1>1, <1>2, ChannelTypes DEF Local, Data, GoodThread
<1> HIDE DEF c, e
<1> HIDE DEF Requested
<1>5. /\ Append(requests[c], e) \in Seq(Requested)
      /\ Len(requests[c]) \in Nat /\ Len(Append(requests[c], e)) = Len(requests[c]) + 1
      /\ \A i \in 1 .. Len(requests[c]) : Append(requests[c], e)[i] = requests[c][i]
      /\ Append(requests[c], e)[Len(requests[c]) + 1] = e
  BY <1>3, <1>4, AppendFacts
<1>6. /\ requests' \in [Copy -> Seq(Requested)] /\ outcome' \in [Mutation -> Outcomes]
      /\ basis' \in [Mutation -> Nat] /\ seen' \in [Mutation -> Value \cup {None}]
      /\ \A d \in Copy : requests'[d] = IF d = c THEN Append(requests[c], e) ELSE requests[d]
      /\ \A n \in Mutation : outcome'[n] = IF n = m THEN "asked" ELSE outcome[n]
      /\ \A n \in Mutation : basis'[n] = IF n = m THEN copy[c].seq ELSE basis[n]
      /\ \A n \in Mutation : seen'[n] = IF n = m THEN copy[c].value ELSE seen[n]
  BY <1>1, <1>2, <1>4, <1>5, TypeParts DEF ChannelsTyped, CallsTyped, Outcomes
<1>7. TypeOK'
  BY <1>1, <1>2, <1>6, TypeParts, TypeNext
     DEF CopiesTyped, ChannelsTyped, LivesTyped, CallsTyped
<1>8. Data'
  BY <1>1, <1>2, DataStays
<1>9. Fetch'
  <2>1. Snapshots(Append(requests[c], e)) = Snapshots(requests[c])
    BY <1>3, <1>4, AppendSnapshots
  <2>2. \A d \in Copy : Snapshots(requests'[d]) = Snapshots(requests[d])
    BY <1>6, <2>1
  <2> QED BY <1>1, <1>2, <2>2 DEF Fetch, GoodFetch, AtMostOne, NoSnapshot
<1>10. Calls'
  <2>1. /\ ~Decided(authority, m)
        /\ \A d \in Copy : \A i \in 1 .. Len(requests[d]) : ~Asks(requests[d][i], m)
        /\ \A d \in Copy : \A i \in 1 .. Len(replies[d]) :
             ~IsSnapshot(replies[d][i]) => replies[d][i].id # m
    BY <1>2, IdleUnknown
  <2>2. \A n : Decided(authority', n) = Decided(authority, n)
    BY <1>2 DEF Decided
  <2>3. ASSUME NEW d \in Copy, NEW n \in Mutation, NEW i \in 1 .. Len(requests'[d]),
               Asks(requests'[d][i], n)
        PROVE  \/ n = m /\ d = c /\ i = Len(requests[c]) + 1
               \/ n # m /\ i \in 1 .. Len(requests[d]) /\ Asks(requests[d][i], n)
    <3>1. CASE d = c
      <4>1. i \in 1 .. Len(requests[c]) \/ i = Len(requests[c]) + 1
        BY <1>5, <1>6, <3>1
      <4>2. requests'[d] = Append(requests[c], e)
        BY <1>6, <3>1
      <4>3. CASE i \in 1 .. Len(requests[c])
        <5>1. Asks(requests[d][i], n)
          BY <1>5, <2>3, <3>1, <4>2, <4>3
        <5> QED BY <2>1, <3>1, <4>3, <5>1
      <4>4. CASE i = Len(requests[c]) + 1
        <5>1. Asks(e, n)
          BY <1>5, <2>3, <4>2, <4>4
        <5> QED BY <1>3, <3>1, <4>4, <5>1
      <4> QED BY <4>1, <4>3, <4>4
    <3>2. CASE d # c
      BY <1>6, <2>1, <2>3, <3>2
    <3> QED BY <3>1, <3>2
  <2>4. ASSUME NEW d \in Copy, NEW n \in Mutation, NEW i \in 1 .. Len(requests'[d]),
               Asks(requests'[d][i], n)
        PROVE  /\ Owner[n] = d /\ outcome'[n] \in {"asked", "timeout"} /\ ~Decided(authority, n)
               /\ \A j \in 1 .. Len(requests'[d]) : Asks(requests'[d][j], n) => i = j
    <3>1. CASE n = m
      BY <1>6, <2>1, <2>3, <2>4, <3>1 DEF c
    <3>2. CASE n # m
      <4>1. i \in 1 .. Len(requests[d]) /\ Asks(requests[d][i], n)
        BY <2>3, <2>4, <3>2
      <4>2. /\ Owner[n] = d /\ outcome[n] \in {"asked", "timeout"} /\ ~Decided(authority, n)
            /\ \A j \in 1 .. Len(requests[d]) : Asks(requests[d][j], n) => i = j
        BY <1>1, <4>1 DEF Calls
      <4> QED BY <1>6, <2>3, <3>2, <4>2
    <3> QED BY <3>1, <3>2
  <2>5. ASSUME NEW d \in Copy, NEW i \in 1 .. Len(replies[d]), ~IsSnapshot(replies[d][i])
        PROVE  LET r == replies[d][i] IN
               /\ outcome'[r.id] # "idle"
               /\ r.type = "ack" <=> Decided(authority, r.id)
               /\ \A x \in Copy : \A j \in 1 .. Len(requests'[x]) : ~Asks(requests'[x][j], r.id)
    <3> DEFINE r == replies[d][i]
    <3>1. r.id \in Mutation
      <4>1. r \in Replied
        BY <1>1, ChannelTypes
      <4> QED BY <2>5, <4>1 DEF Replied, IsSnapshot
    <3>2. /\ outcome[r.id] # "idle"
          /\ r.type = "ack" <=> Decided(authority, r.id)
          /\ \A x \in Copy : \A j \in 1 .. Len(requests[x]) : ~Asks(requests[x][j], r.id)
      BY <1>1, <2>5 DEF Calls
    <3>3. r.id # m
      BY <2>1, <2>5
    <3> HIDE DEF r
    <3>4. outcome'[r.id] # "idle"
      BY <1>6, <3>1, <3>2, <3>3
    <3>5. \A x \in Copy : \A j \in 1 .. Len(requests'[x]) : ~Asks(requests'[x][j], r.id)
      BY <2>3, <3>1, <3>2, <3>3
    <3> QED BY <3>2, <3>4, <3>5 DEF r
  <2> QED BY <1>2, <2>2, <2>4, <2>5 DEF Calls
<1>11. Bases'
  <2>1. ASSUME NEW n \in Mutation
        PROVE  Saw(authority, seen'[n], basis'[n])
    <3>1. CASE n = m
      <4>1. Saw(authority, copy[c].value, copy[c].seq)
        BY <1>4, NoneAssumption DEF GoodCopy, Saw, Agrees, Drifts
      <4> QED BY <1>6, <3>1, <4>1
    <3>2. CASE n # m
      BY <1>1, <1>6, <3>2 DEF Bases
    <3> QED BY <3>1, <3>2
  <2>2. ASSUME NEW i \in 1 .. authority.seq
        PROVE  LET n == authority.value[i].by IN basis'[n] = i - 1 /\ outcome'[n] # "idle"
    <3>1. authority.value[i].by \in Mutation
      BY <1>1, AuthorsAre
    <3>2. authority.value[i].by # m
      BY <1>2, IdleUnknown DEF Decided
    <3> QED BY <1>1, <1>6, <3>1, <3>2 DEF Bases
  <2> QED BY <1>2, <2>1, <2>2 DEF Bases
<1> QED BY <1>7, <1>8, <1>9, <1>10, <1>11 DEF IInv

(* A mutation whose timer fires keeps the invariant. *)
LEMMA MutationTimesOutStep ==
  ASSUME IInv, NEW m \in Mutation, MutationTimesOut(m)
  PROVE  IInv'
<1>1. TypeOK /\ Data /\ Fetch /\ Calls /\ Bases /\ GoodAuthority(authority)
  BY DEF IInv, Data
<1>2. /\ outcome[m] = "asked" /\ outcome' = [outcome EXCEPT ![m] = "timeout"]
      /\ UNCHANGED <<authority, copy, replay, heard, subscribed, called, patches, requests,
                     replies, basis, seen, lost>>
  BY DEF MutationTimesOut, copyVars, lifeVars, channels
<1>3. /\ outcome' \in [Mutation -> Outcomes]
      /\ \A n \in Mutation : outcome'[n] = IF n = m THEN "timeout" ELSE outcome[n]
  BY <1>1, <1>2, TypeParts DEF CallsTyped, Outcomes
<1>4. TypeOK'
  BY <1>1, <1>2, <1>3, TypeParts, TypeNext
     DEF CopiesTyped, ChannelsTyped, LivesTyped, CallsTyped
<1>5. Calls'
  <2>1. \A d \in Copy : \E t \in Seq(Requested) :
          Thins(requests[d], t) /\ (requests'[d] = t \/ requests'[d] = Append(t, GetSnapshot))
    BY <1>1, <1>2, SameMessages, ChannelTypes
  <2> QED BY <1>1, <1>2, <1>3, <1>4, <2>1, SameMessages, CallsStay
<1>6. Bases'
  BY <1>1, <1>2, <1>3, BasesStay
<1> QED BY <1>1, <1>2, <1>4, <1>5, <1>6, DataStays, FetchStays DEF IInv

(* The answer to a mutation keeps the invariant. *)
LEMMA ReceiveAnswerStep ==
  ASSUME IInv, NEW c \in Copy, ReceiveAnswer(c)
  PROVE  IInv'
<1>1. TypeOK /\ Data /\ Fetch /\ Calls /\ Bases /\ GoodAuthority(authority)
  BY DEF IInv, Data
<1> DEFINE e == Head(replies[c])
<1>2. /\ replies[c] # <<>> /\ ~IsSnapshot(e) /\ replies' = [replies EXCEPT ![c] = Tail(@)]
      /\ outcome' = [outcome EXCEPT ![e.id] = IF @ = "asked" THEN e.type ELSE @]
      /\ UNCHANGED <<authority, copy, replay, heard, subscribed, called, patches, requests,
                     basis, seen, lost>>
  BY DEF ReceiveAnswer, copyVars, lifeVars
<1>3. /\ e.type \in {"ack", "stale", "invalid"} /\ e.id \in Mutation
      /\ replies[c] \in Seq(Replied) /\ Tail(replies[c]) \in Seq(Replied)
      /\ replies \in [Copy -> Seq(Replied)] /\ outcome \in [Mutation -> Outcomes]
  BY <1>1, <1>2, ChannelTypes, Heads, TypeParts DEF ChannelsTyped, CallsTyped
<1> HIDE DEF Replied
<1>4. /\ e = replies[c][1] /\ 1 \in 1 .. Len(replies[c])
      /\ Len(replies[c]) \in Nat /\ Len(Tail(replies[c])) = Len(replies[c]) - 1
      /\ \A i \in 1 .. Len(replies[c]) - 1 : Tail(replies[c])[i] = replies[c][i + 1]
  BY <1>2, <1>3, TailFacts
<1>5. outcome[e.id] # "idle"
      /\ \A d \in Copy : \A j \in 1 .. Len(requests[d]) : ~Asks(requests[d][j], e.id)
  BY <1>1, <1>2, <1>4 DEF Calls
<1> HIDE DEF e
<1>6. /\ replies' \in [Copy -> Seq(Replied)]
      /\ \A d \in Copy : replies'[d] = IF d = c THEN Tail(replies[c]) ELSE replies[d]
      /\ outcome' \in [Mutation -> Outcomes]
      /\ \A n \in Mutation : outcome'[n] = outcome[n] \/ (n = e.id /\ outcome'[n] # "idle")
  BY <1>2, <1>3 DEF Outcomes
<1>7. TypeOK'
  BY <1>1, <1>2, <1>6, TypeParts, TypeNext
     DEF CopiesTyped, ChannelsTyped, LivesTyped, CallsTyped
<1>8. Thins(replies[c], Tail(replies[c]))
  BY <1>2, <1>3, ThinsFacts
<1>9. \A i \in 1 .. Len(Tail(replies[c])) :
        \E j \in 1 .. Len(replies[c]) : replies[c][j] = Tail(replies[c])[i]
  BY <1>8, ThinMembers
<1>10. Data'
  <2>1. ASSUME NEW d \in Copy
        PROVE  GoodThread(authority, copy[d], patches[d], replay[d], replies'[d])
    <3>1. GoodThread(authority, copy[d], patches[d], replay[d], replies[d])
      BY <1>1 DEF Data
    <3>2. CASE d = c
      <4>1. \A i \in 1 .. Len(Tail(replies[c])) : IsSnapshot(Tail(replies[c])[i])
              => GoodSnapshot(authority, copy[c], Tail(replies[c])[i])
        BY <1>9, <3>1, <3>2 DEF GoodThread
      <4> QED BY <1>6, <3>1, <3>2, <4>1 DEF GoodThread
    <3>3. CASE d # c
      BY <1>6, <3>1, <3>3
    <3> QED BY <3>2, <3>3
  <2> QED BY <1>1, <1>2, <2>1 DEF Data
<1>11. Fetch'
  <2>1. /\ AtMostOne(replies[c]) => AtMostOne(Tail(replies[c]))
        /\ NoSnapshot(replies[c]) => NoSnapshot(Tail(replies[c]))
    BY <1>3, <1>8, ThinSnapshots
  <2>2. ASSUME NEW d \in Copy
        PROVE  GoodFetch(copy[d], called[d], requests[d], replies'[d])
    <3>1. GoodFetch(copy[d], called[d], requests[d], replies[d])
      BY <1>1 DEF Fetch
    <3>2. CASE d = c
      BY <1>6, <2>1, <3>1, <3>2 DEF GoodFetch
    <3>3. CASE d # c
      BY <1>6, <3>1, <3>3
    <3> QED BY <3>2, <3>3
  <2> QED BY <1>2, <2>2 DEF Fetch
<1>12. Calls'
  <2>1. \A d \in Copy : \E t \in Seq(Requested) :
          Thins(requests[d], t) /\ (requests'[d] = t \/ requests'[d] = Append(t, GetSnapshot))
    BY <1>1, <1>2, SameMessages, ChannelTypes
  <2>2. \A d \in Copy : \A i \in 1 .. Len(replies'[d]) :
          \E j \in 1 .. Len(replies[d]) : replies[d][j] = replies'[d][i]
    BY <1>1, <1>6, <1>9, SameMessages, ZenonT(20)
  <2>3. \A n \in Mutation :
           \/ outcome'[n] = outcome[n]
           \/ /\ outcome'[n] # "idle"
              /\ \A d \in Copy : \A i \in 1 .. Len(requests[d]) : ~Asks(requests[d][i], n)
    BY <1>5, <1>6
  <2> QED BY <1>1, <1>2, <1>7, <2>1, <2>2, <2>3, CallsStay
<1>13. Bases'
  BY <1>1, <1>2, <1>6, BasesStay
<1> QED BY <1>7, <1>10, <1>11, <1>12, <1>13 DEF IInv

-----------------------------------------------------------------------------
(* Steps of the authority. *)

LEMMA TakesFacts ==
  ASSUME TypeOK, NEW c \in Copy, requests[c] # <<>>, NEW e \in Replied, Takes(c, e)
  PROVE  /\ requests' \in [Copy -> Seq(Requested)] /\ replies' \in [Copy -> Seq(Replied)]
         /\ \A d \in Copy : requests'[d] = IF d = c THEN Tail(requests[c]) ELSE requests[d]
         /\ \A d \in Copy : replies'[d] = IF d = c THEN Append(replies[c], e) ELSE replies[d]
         /\ Thins(requests[c], Tail(requests[c]))
         /\ Len(replies[c]) \in Nat /\ Len(Append(replies[c], e)) = Len(replies[c]) + 1
         /\ \A i \in 1 .. Len(replies[c]) : Append(replies[c], e)[i] = replies[c][i]
         /\ Append(replies[c], e)[Len(replies[c]) + 1] = e
<1>1. /\ requests \in [Copy -> Seq(Requested)] /\ replies \in [Copy -> Seq(Replied)]
      /\ requests[c] \in Seq(Requested) /\ replies[c] \in Seq(Replied)
  BY TypeParts DEF ChannelsTyped
<1> HIDE DEF Requested, Replied
<1>2. Tail(requests[c]) \in Seq(Requested) /\ Thins(requests[c], Tail(requests[c]))
  BY <1>1, TailFacts, ThinsFacts
<1>3. /\ Append(replies[c], e) \in Seq(Replied)
      /\ Len(replies[c]) \in Nat /\ Len(Append(replies[c], e)) = Len(replies[c]) + 1
      /\ \A i \in 1 .. Len(replies[c]) : Append(replies[c], e)[i] = replies[c][i]
      /\ Append(replies[c], e)[Len(replies[c]) + 1] = e
  BY <1>1, AppendFacts
<1>4. /\ requests' = [requests EXCEPT ![c] = Tail(@)]
      /\ replies' = [replies EXCEPT ![c] = Append(@, e)]
  BY DEF Takes
<1>5. /\ requests' \in [Copy -> Seq(Requested)]
      /\ \A d \in Copy : requests'[d] = IF d = c THEN Tail(requests[c]) ELSE requests[d]
  BY <1>1, <1>2, <1>4
<1>6. /\ replies' \in [Copy -> Seq(Replied)]
      /\ \A d \in Copy : replies'[d] = IF d = c THEN Append(replies[c], e) ELSE replies[d]
  BY <1>1, <1>3, <1>4
<1> QED BY <1>2, <1>3, <1>5, <1>6

(* The authority serving a snapshot keeps the invariant. *)
LEMMA ServeSnapshotStep ==
  ASSUME IInv, NEW c \in Copy, ServeSnapshot(c)
  PROVE  IInv'
<1>1. TypeOK /\ Data /\ Fetch /\ Calls /\ Bases /\ GoodAuthority(authority)
  BY DEF IInv, Data
<1> DEFINE e == [type |-> "snapshot", value |-> authority.value, seq |-> authority.seq]
<1>2. /\ requests[c] # <<>> /\ IsSnapshot(Head(requests[c])) /\ Takes(c, e)
      /\ UNCHANGED <<authority, copy, replay, heard, subscribed, called, patches,
                     outcome, basis, seen, lost>>
  BY DEF ServeSnapshot, copyVars, lifeVars, callVars
<1>3. e \in Replied /\ IsSnapshot(e) /\ e.value = authority.value /\ e.seq = authority.seq
  BY <1>1 DEF GoodAuthority, Replied, IsSnapshot
<1> HIDE DEF e
<1>4. /\ requests' \in [Copy -> Seq(Requested)] /\ replies' \in [Copy -> Seq(Replied)]
      /\ \A d \in Copy : requests'[d] = IF d = c THEN Tail(requests[c]) ELSE requests[d]
      /\ \A d \in Copy : replies'[d] = IF d = c THEN Append(replies[c], e) ELSE replies[d]
      /\ Thins(requests[c], Tail(requests[c]))
      /\ Len(replies[c]) \in Nat /\ Len(Append(replies[c], e)) = Len(replies[c]) + 1
      /\ \A i \in 1 .. Len(replies[c]) : Append(replies[c], e)[i] = replies[c][i]
      /\ Append(replies[c], e)[Len(replies[c]) + 1] = e
  BY <1>1, <1>2, <1>3, TakesFacts
<1>5. \A i \in 1 .. Len(replies[c]) + 1 : i \in 1 .. Len(replies[c]) \/ i = Len(replies[c]) + 1
  BY <1>4
<1>6. TypeOK'
  BY <1>1, <1>2, <1>4, TypeParts, TypeNext
     DEF CopiesTyped, ChannelsTyped, LivesTyped, CallsTyped
<1>7. Data'
  <2>1. ASSUME NEW d \in Copy
        PROVE  GoodThread(authority, copy[d], patches[d], replay[d], replies'[d])
    <3>1. GoodThread(authority, copy[d], patches[d], replay[d], replies[d])
      BY <1>1 DEF Data
    <3>2. CASE d = c
      <4>1. GoodSnapshot(authority, copy[c], e)
        <5>1. copy[c].seq <= authority.seq
          <6>1. GoodCopy(authority, copy[c]) /\ authority.seq \in Nat
            BY <1>1, <3>1, <3>2 DEF GoodThread, GoodAuthority
          <6>2. CASE copy[c].initialised
            BY <6>1, <6>2 DEF GoodCopy, Agrees
          <6>3. CASE ~copy[c].initialised
            BY <6>1, <6>3 DEF GoodCopy
          <6> QED BY <6>2, <6>3
        <5>2. Agrees(authority, authority.value, authority.seq)
          BY <1>1 DEF Agrees, GoodAuthority
        <5> QED BY <1>1, <1>3, <5>1, <5>2 DEF GoodSnapshot, GoodAuthority
      <4> QED BY <1>4, <1>5, <3>1, <3>2, <4>1 DEF GoodThread
    <3>3. CASE d # c
      BY <1>4, <3>1, <3>3
    <3> QED BY <3>2, <3>3
  <2> QED BY <1>1, <1>2, <2>1 DEF Data
<1>8. Fetch'
  <2>1. requests[c] \in Seq(Requested) /\ replies[c] \in Seq(Replied)
    BY <1>1, ChannelTypes
  <2>2. GoodFetch(copy[c], called[c], requests[c], replies[c])
    BY <1>1 DEF Fetch
  <2>3. 1 \in Snapshots(requests[c])
    BY <1>2, <2>1, TailFacts DEF Snapshots
  <2>4. /\ NoSnapshot(replies[c]) /\ NoSnapshot(Tail(requests[c]))
        /\ called[c] /\ (copy[c].initialised => copy[c].refetching)
    BY <1>2, <2>1, <2>2, <2>3, TakenSnapshots DEF GoodFetch, NoSnapshot
  <2>5. AtMostOne(Append(replies[c], e)) /\ AtMostOne(Tail(requests[c]))
    BY <1>3, <2>1, <2>4, AppendSnapshots DEF AtMostOne, NoSnapshot
  <2>6. GoodFetch(copy[c], called[c], Tail(requests[c]), Append(replies[c], e))
    BY <2>2, <2>4, <2>5 DEF GoodFetch
  <2>7. ASSUME NEW d \in Copy
        PROVE  GoodFetch(copy[d], called[d], requests'[d], replies'[d])
    <3>1. CASE d = c
      BY <1>4, <2>6, <3>1
    <3>2. CASE d # c
      BY <1>1, <1>4, <3>2 DEF Fetch
    <3> QED BY <3>1, <3>2
  <2> QED BY <1>2, <2>7 DEF Fetch
<1>9. Calls'
  <2>1. \A d \in Copy : \E t \in Seq(Requested) :
          Thins(requests[d], t) /\ (requests'[d] = t \/ requests'[d] = Append(t, GetSnapshot))
    <3>1. \A d \in Copy : requests'[d] \in Seq(Requested) /\ Thins(requests[d], requests'[d])
      BY <1>1, <1>4, SameMessages
    <3> QED BY <3>1
  <2>2. ASSUME NEW d \in Copy, NEW i \in 1 .. Len(replies'[d]), ~IsSnapshot(replies'[d][i])
        PROVE  \E j \in 1 .. Len(replies[d]) : replies[d][j] = replies'[d][i]
    <3>1. CASE d = c
      <4>1. replies'[d] = Append(replies[c], e)
        BY <1>4, <3>1
      <4>2. i \in 1 .. Len(replies[c])
        BY <1>3, <1>4, <1>5, <2>2, <4>1
      <4> QED BY <1>4, <3>1, <4>1, <4>2
    <3>2. CASE d # c
      BY <1>4, <3>2
    <3> QED BY <3>1, <3>2
  <2> QED BY <1>1, <1>2, <1>6, <2>1, <2>2, CallsStay
<1>10. Bases'
  BY <1>1, <1>2, BasesStay
<1> QED BY <1>6, <1>7, <1>8, <1>9, <1>10 DEF IInv

(* A mutation at the head of the queue has not been decided, and nothing else
   asks for it or answers it. *)
LEMMA HeadOfQueue ==
  ASSUME TypeOK, Calls, NEW c \in Copy, IsMutate(c)
  PROVE  LET m == Head(requests[c]).id IN
         /\ m \in Mutation /\ outcome[m] \in {"asked", "timeout"} /\ ~Decided(authority, m)
         /\ \A i \in 1 .. Len(Tail(requests[c])) : ~Asks(Tail(requests[c])[i], m)
         /\ \A d \in Copy : d # c => \A i \in 1 .. Len(requests[d]) : ~Asks(requests[d][i], m)
         /\ \A d \in Copy : \A i \in 1 .. Len(replies[d]) :
              ~IsSnapshot(replies[d][i]) => replies[d][i].id # m
<1> DEFINE m == Head(requests[c]).id
<1>1. /\ requests[c] # <<>> /\ Head(requests[c]).type = "mutate"
      /\ ~IsSnapshot(Head(requests[c]))
  BY DEF IsMutate, IsSnapshot
<1>2. m \in Mutation
  BY <1>1, Heads
<1>3. /\ Head(requests[c]) = requests[c][1] /\ 1 \in 1 .. Len(requests[c])
      /\ Len(requests[c]) \in Nat /\ Len(Tail(requests[c])) = Len(requests[c]) - 1
      /\ \A i \in 1 .. Len(requests[c]) - 1 : Tail(requests[c])[i] = requests[c][i + 1]
  BY <1>1, ChannelTypes, TailFacts
<1>4. Asks(requests[c][1], m)
  BY <1>1, <1>3 DEF Asks
<1> HIDE DEF m
<1>5. /\ Owner[m] = c /\ outcome[m] \in {"asked", "timeout"} /\ ~Decided(authority, m)
      /\ \A j \in 1 .. Len(requests[c]) : Asks(requests[c][j], m) => 1 = j
  BY <1>2, <1>3, <1>4 DEF Calls
<1>6. ASSUME NEW i \in 1 .. Len(Tail(requests[c])), Asks(Tail(requests[c])[i], m)
      PROVE  FALSE
  <2>1. i + 1 \in 1 .. Len(requests[c]) /\ Asks(requests[c][i + 1], m) /\ i + 1 # 1
    BY <1>3, <1>6
  <2> QED BY <1>5, <2>1
<1>7. ASSUME NEW d \in Copy, d # c, NEW i \in 1 .. Len(requests[d]), Asks(requests[d][i], m)
      PROVE  FALSE
  <2>1. Owner[m] = d
    BY <1>2, <1>7 DEF Calls
  <2> QED BY <1>5, <1>7, <2>1
<1>8. ASSUME NEW d \in Copy, NEW i \in 1 .. Len(replies[d]), ~IsSnapshot(replies[d][i]),
             replies[d][i].id = m
      PROVE  FALSE
  <2>1. ~Asks(requests[c][1], replies[d][i].id)
    BY <1>3, <1>8 DEF Calls
  <2> QED BY <1>4, <1>8, <2>1
<1> QED BY <1>2, <1>5, <1>6, <1>7, <1>8 DEF m

(* The answer says what has become of the mutation. *)
LEMMA AnswerKeepsCalls ==
  ASSUME TypeOK, Calls, NEW c \in Copy, IsMutate(c),
         NEW m \in Mutation, m = Head(requests[c]).id,
         NEW answer \in {"ack", "stale", "invalid"},
         Takes(c, [type |-> answer, id |-> m]), UNCHANGED outcome,
         \A n \in Mutation : n # m => (Decided(authority', n) <=> Decided(authority, n)),
         answer = "ack" <=> Decided(authority', m)
  PROVE  Calls'
<1> DEFINE e == [type |-> answer, id |-> m]
<1>1. requests[c] # <<>> /\ requests[c] \in Seq(Requested)
  BY ChannelTypes DEF IsMutate
<1>2. e \in Replied /\ ~IsSnapshot(e) /\ e.id = m /\ e.type = answer /\ Takes(c, e)
  BY DEF Replied, IsSnapshot
<1> HIDE DEF e
<1>3. /\ \A d \in Copy : requests'[d] = IF d = c THEN Tail(requests[c]) ELSE requests[d]
      /\ \A d \in Copy : replies'[d] = IF d = c THEN Append(replies[c], e) ELSE replies[d]
      /\ Len(replies[c]) \in Nat /\ Len(Append(replies[c], e)) = Len(replies[c]) + 1
      /\ \A i \in 1 .. Len(replies[c]) : Append(replies[c], e)[i] = replies[c][i]
      /\ Append(replies[c], e)[Len(replies[c]) + 1] = e
  BY <1>1, <1>2, TakesFacts
<1>4. /\ outcome[m] # "idle" /\ ~Decided(authority, m)
      /\ \A i \in 1 .. Len(Tail(requests[c])) : ~Asks(Tail(requests[c])[i], m)
      /\ \A d \in Copy : d # c => \A i \in 1 .. Len(requests[d]) : ~Asks(requests[d][i], m)
      /\ \A d \in Copy : \A i \in 1 .. Len(replies[d]) :
           ~IsSnapshot(replies[d][i]) => replies[d][i].id # m
  BY HeadOfQueue
<1>5. /\ Len(requests[c]) \in Nat /\ Len(Tail(requests[c])) = Len(requests[c]) - 1
      /\ \A i \in 1 .. Len(requests[c]) - 1 : Tail(requests[c])[i] = requests[c][i + 1]
  BY <1>1, TailFacts
<1>6. \A d \in Copy : \A i \in 1 .. Len(requests'[d]) : ~Asks(requests'[d][i], m)
  BY <1>3, <1>4
<1>7. ASSUME NEW d \in Copy, NEW n \in Mutation, NEW i \in 1 .. Len(requests'[d]),
             Asks(requests'[d][i], n)
      PROVE  /\ Owner[n] = d /\ outcome[n] \in {"asked", "timeout"} /\ ~Decided(authority', n)
             /\ \A j \in 1 .. Len(requests'[d]) : Asks(requests'[d][j], n) => i = j
  <2>1. n # m
    BY <1>6, <1>7
  <2>2. CASE d = c
    <3>1. /\ requests'[d] = Tail(requests[c])
          /\ i + 1 \in 1 .. Len(requests[c]) /\ Asks(requests[c][i + 1], n)
      <4>1. requests'[d] = Tail(requests[c])
        BY <1>3, <2>2
      <4>2. i \in 1 .. Len(requests[c]) - 1
        BY <1>5, <4>1
      <4> QED BY <1>5, <1>7, <4>1, <4>2
    <3>2. /\ Owner[n] = c /\ outcome[n] \in {"asked", "timeout"} /\ ~Decided(authority, n)
          /\ \A j \in 1 .. Len(requests[c]) : Asks(requests[c][j], n) => i + 1 = j
      BY <3>1 DEF Calls
    <3>3. ASSUME NEW j \in 1 .. Len(requests'[d]), Asks(requests'[d][j], n)
          PROVE  i = j
      <4>1. j + 1 \in 1 .. Len(requests[c]) /\ Asks(requests[c][j + 1], n)
        BY <1>5, <3>1, <3>3
      <4>2. i + 1 = j + 1
        BY <3>2, <4>1
      <4> QED BY <1>5, <3>1, <4>2
    <3> QED BY <2>1, <2>2, <3>2, <3>3
  <2>3. CASE d # c
    <3>1. requests'[d] = requests[d]
      BY <1>3, <2>3
    <3> QED BY <1>7, <2>1, <3>1 DEF Calls
  <2> QED BY <2>2, <2>3
<1>8. ASSUME NEW d \in Copy, NEW i \in 1 .. Len(replies'[d]), NEW r, r = replies'[d][i],
             ~IsSnapshot(r)
      PROVE  /\ outcome[r.id] # "idle"
             /\ r.type = "ack" <=> Decided(authority', r.id)
             /\ \A x \in Copy : \A j \in 1 .. Len(requests'[x]) : ~Asks(requests'[x][j], r.id)
  <2>1. (i \in 1 .. Len(replies[d]) /\ r = replies[d][i]) \/ r = e
    <3>1. CASE d = c
      <4>1. replies'[d] = Append(replies[c], e)
        BY <1>3, <3>1
      <4>2. i \in 1 .. Len(replies[c]) \/ i = Len(replies[c]) + 1
        BY <1>3, <4>1
      <4> QED BY <1>3, <1>8, <3>1, <4>1, <4>2
    <3>2. CASE d # c
      BY <1>3, <1>8, <3>2
    <3> QED BY <3>1, <3>2
  <2>2. CASE r = e
    <3>1. r.id = m /\ r.type = answer
      BY <1>2, <2>2
    <3> QED BY <1>4, <1>6, <3>1
  <2>3. CASE i \in 1 .. Len(replies[d]) /\ r = replies[d][i]
    <3>1. r.id \in Mutation
      <4>1. r \in Replied
        BY <2>3, ChannelTypes
      <4> QED BY <1>8, <4>1 DEF Replied, IsSnapshot
    <3>2. /\ outcome[r.id] # "idle"
          /\ r.type = "ack" <=> Decided(authority, r.id)
          /\ \A x \in Copy : \A j \in 1 .. Len(requests[x]) : ~Asks(requests[x][j], r.id)
      BY <1>8, <2>3 DEF Calls
    <3>3. r.id # m
      BY <1>4, <1>8, <2>3
    <3>4. \A x \in Copy : \A j \in 1 .. Len(requests'[x]) : ~Asks(requests'[x][j], r.id)
      <4>1. Thins(requests[c], Tail(requests[c]))
        BY <1>1, ThinsFacts
      <4>2. \A j \in 1 .. Len(Tail(requests[c])) :
              \E k \in 1 .. Len(requests[c]) : requests[c][k] = Tail(requests[c])[j]
        BY <4>1, ThinMembers
      <4>3. \A j \in 1 .. Len(Tail(requests[c])) : ~Asks(Tail(requests[c])[j], r.id)
        BY <3>2, <4>2
      <4> QED BY <1>3, <3>2, <4>3
    <3>5. Decided(authority', r.id) <=> Decided(authority, r.id)
      BY <3>1, <3>3
    <3> QED BY <3>2, <3>4, <3>5
  <2> QED BY <2>1, <2>2, <2>3
<1> QED BY <1>7, <1>8 DEF Calls

(* An answer to a mutation touches no copy, and no snapshot that is under way,
   whether or not the authority has come on. *)
LEMMA AnswerKeepsThreads ==
  ASSUME TypeOK, Data, Fetch, NEW c \in Copy, requests[c] # <<>>,
         NEW e \in Replied, ~IsSnapshot(e), Takes(c, e),
         GoodAuthority(authority'), Grows(authority, authority'),
         patches' \in [Copy -> Seq(Patch)],
         \A d \in Copy : GoodBuffer(authority', patches'[d]),
         UNCHANGED <<copy, replay, heard, subscribed, called, outcome, basis, seen, lost>>
  PROVE  TypeOK' /\ Data' /\ Fetch'
<1>1. /\ requests' \in [Copy -> Seq(Requested)] /\ replies' \in [Copy -> Seq(Replied)]
      /\ \A d \in Copy : requests'[d] = IF d = c THEN Tail(requests[c]) ELSE requests[d]
      /\ \A d \in Copy : replies'[d] = IF d = c THEN Append(replies[c], e) ELSE replies[d]
      /\ Thins(requests[c], Tail(requests[c]))
      /\ Len(replies[c]) \in Nat /\ Len(Append(replies[c], e)) = Len(replies[c]) + 1
      /\ \A i \in 1 .. Len(replies[c]) : Append(replies[c], e)[i] = replies[c][i]
      /\ Append(replies[c], e)[Len(replies[c]) + 1] = e
  BY TakesFacts
<1>2. /\ requests[c] \in Seq(Requested) /\ replies[c] \in Seq(Replied)
      /\ Tail(requests[c]) \in Seq(Requested) /\ GoodAuthority(authority)
  BY ChannelTypes, Heads DEF Data
<1>3. TypeOK'
  <2>1. authority' \in [value : Value, seq : Nat]
    BY DEF GoodAuthority
  <2> QED BY <1>1, <2>1, TypeParts, TypeNext
        DEF CopiesTyped, ChannelsTyped, LivesTyped, CallsTyped
<1> HIDE DEF Requested, Replied
<1>4. Data'
  <2>1. ASSUME NEW d \in Copy
        PROVE  GoodThread(authority', copy[d], patches'[d], replay[d], replies'[d])
    <3>1. GoodThread(authority, copy[d], patches[d], replay[d], replies[d])
      BY DEF Data
    <3>2. GoodCopy(authority', copy[d]) /\ GoodBuffer(authority', replay[d])
      BY <1>2, <3>1, GrowsFacts DEF GoodThread
    <3>3. \A i \in 1 .. Len(replies[d]) : IsSnapshot(replies[d][i])
            => GoodSnapshot(authority', copy[d], replies[d][i])
      BY <1>2, <3>1, GrowsFacts DEF GoodThread
    <3>4. \A i \in 1 .. Len(replies'[d]) : IsSnapshot(replies'[d][i])
            => GoodSnapshot(authority', copy[d], replies'[d][i])
      <4>1. CASE d = c
        <5>1. replies'[d] = Append(replies[c], e)
          BY <1>1, <4>1
        <5>2. \A i \in 1 .. Len(replies[c]) + 1 :
                i \in 1 .. Len(replies[c]) \/ i = Len(replies[c]) + 1
          BY <1>1, LastPlace
        <5> QED BY <1>1, <3>3, <4>1, <5>1, <5>2
      <4>2. CASE d # c
        BY <1>1, <3>3, <4>2
      <4> QED BY <4>1, <4>2
    <3> QED BY <3>2, <3>4 DEF GoodThread
  <2> QED BY <2>1 DEF Data
<1>5. Fetch'
  <2>1. Snapshots(Append(replies[c], e)) = Snapshots(replies[c])
    BY <1>2, AppendSnapshots
  <2>2. /\ AtMostOne(requests[c]) => AtMostOne(Tail(requests[c]))
        /\ NoSnapshot(requests[c]) => NoSnapshot(Tail(requests[c]))
    BY <1>1, <1>2, ThinSnapshots
  <2>3. GoodFetch(copy[c], called[c], requests[c], replies[c])
    BY DEF Fetch
  <2>4. /\ AtMostOne(Append(replies[c], e)) <=> AtMostOne(replies[c])
        /\ NoSnapshot(Append(replies[c], e)) <=> NoSnapshot(replies[c])
    BY <2>1 DEF AtMostOne, NoSnapshot
  <2>5. GoodFetch(copy[c], called[c], Tail(requests[c]), Append(replies[c], e))
    BY <2>2, <2>3, <2>4 DEF GoodFetch
  <2>6. ASSUME NEW d \in Copy
        PROVE  GoodFetch(copy[d], called[d], requests'[d], replies'[d])
    <3>1. CASE d = c
      BY <1>1, <2>5, <3>1
    <3>2. CASE d # c
      BY <1>1, <3>2 DEF Fetch
    <3> QED BY <3>1, <3>2
  <2> QED BY <2>6 DEF Fetch
<1> QED BY <1>3, <1>4, <1>5

(* The authority refusing a mutation keeps the invariant. *)
LEMMA RefuseMutationStep ==
  ASSUME IInv, NEW c \in Copy, NEW reason \in {"stale", "invalid"}, RefuseMutation(c, reason)
  PROVE  IInv'
<1>1. TypeOK /\ Data /\ Fetch /\ Calls /\ Bases /\ GoodAuthority(authority)
  BY DEF IInv, Data
<1> DEFINE m == Head(requests[c]).id
           e == [type |-> reason, id |-> m]
<1>2. /\ IsMutate(c) /\ Takes(c, e)
      /\ UNCHANGED <<authority, copy, replay, heard, subscribed, called, patches,
                     outcome, basis, seen, lost>>
  BY DEF RefuseMutation, copyVars, lifeVars, callVars
<1>3. m \in Mutation /\ ~Decided(authority, m)
  BY <1>1, <1>2, HeadOfQueue
<1>4. Calls'
  <2>1. reason \in {"ack", "stale", "invalid"} /\ reason # "ack"
    OBVIOUS
  <2>2. authority' = authority /\ outcome' = outcome
    BY <1>2
  <2> QED BY <1>1, <1>2, <1>3, <2>1, <2>2, AnswerKeepsCalls
<1>5. e \in Replied /\ ~IsSnapshot(e) /\ requests[c] # <<>>
  BY <1>2, <1>3 DEF Replied, IsSnapshot, IsMutate
<1> HIDE DEF e
<1>6. TypeOK' /\ Data' /\ Fetch'
  <2>1. authority' = authority /\ patches' = patches
    BY <1>2
  <2>2. GoodAuthority(authority') /\ Grows(authority, authority')
    BY <1>1, <2>1 DEF GoodAuthority, Grows
  <2>3. patches' \in [Copy -> Seq(Patch)] /\ \A d \in Copy : GoodBuffer(authority', patches'[d])
    BY <1>1, <2>1, TypeParts DEF ChannelsTyped, Data, GoodThread
  <2> QED BY <1>1, <1>2, <1>5, <2>2, <2>3, AnswerKeepsThreads
<1>7. Bases'
  BY <1>1, <1>2, BasesStay
<1> QED BY <1>4, <1>6, <1>7 DEF IInv

(* A mutation that is accepted makes the next state of the authority. *)
Accepting(a, m) == [value |-> Append(a.value, Parsed(m)), seq |-> a.seq + 1]

(* An authority that accepts has one mutation more, the accepted one, and is decided of it. *)
LEMMA AuthorityGrows ==
  ASSUME NEW a, GoodAuthority(a), NEW m \in Mutation, NEW b, b = Accepting(a, m)
  PROVE  /\ GoodAuthority(b) /\ Grows(a, b) /\ b.seq = a.seq + 1
         /\ b.value[b.seq].by = m
         /\ \A n : n # m => (Decided(b, n) <=> Decided(a, n))
         /\ Decided(b, m)
<1>1. /\ a.value \in Seq(Token) /\ a.seq \in Nat /\ Len(a.value) = a.seq
      /\ \A i \in 1 .. a.seq : a.value[i].parsed
  BY DEF GoodAuthority, Value
<1>2. Parsed(m) \in Token /\ Parsed(m).by = m /\ Parsed(m).parsed
  BY DEF Parsed, Token
<1>3. b.value = Append(a.value, Parsed(m)) /\ b.seq = a.seq + 1
      /\ b = [value |-> b.value, seq |-> b.seq]
  BY DEF Accepting
<1>4. /\ b.value \in Seq(Token) /\ Len(b.value) = b.seq
      /\ \A i \in 1 .. a.seq : b.value[i] = a.value[i]
      /\ b.value[b.seq] = Parsed(m)
  BY <1>1, <1>2, <1>3, AppendFacts
<1>5. b \in [value : Value, seq : Nat]
  <2>1. Append(a.value, Parsed(m)) \in Value /\ a.seq + 1 \in Nat
    BY <1>1, <1>3, <1>4 DEF Value
  <2> QED BY <2>1 DEF Accepting
<1>6. /\ b.seq \in Nat /\ b.seq \in 1 .. b.seq /\ a.seq <= b.seq
      /\ \A i \in 1 .. b.seq : i \in 1 .. a.seq \/ i = b.seq
      /\ \A i \in 1 .. a.seq : i \in 1 .. b.seq
  BY <1>1, <1>3
<1>7. \A i \in 1 .. b.seq : b.value[i].parsed
  BY <1>1, <1>2, <1>4, <1>6
<1>8. \A n : n # m => (Decided(b, n) <=> Decided(a, n))
  BY <1>2, <1>4, <1>6 DEF Decided
<1>9. Decided(b, m)
  BY <1>2, <1>4, <1>6 DEF Decided
<1> QED BY <1>2, <1>3, <1>4, <1>5, <1>6, <1>7, <1>8, <1>9 DEF GoodAuthority, Grows

(* The authority accepting a mutation keeps the invariant. *)
LEMMA AcceptMutationStep ==
  ASSUME IInv, NEW c \in Copy, AcceptMutation(c)
  PROVE  IInv'
<1>1. TypeOK /\ Data /\ Fetch /\ Calls /\ Bases /\ GoodAuthority(authority)
  BY DEF IInv, Data
<1> DEFINE m == Head(requests[c]).id
           e == [type |-> "ack", id |-> m]
<1>a. PICK a : a = authority'
  OBVIOUS
<1> DEFINE p == [seq |-> a.seq, change |-> Raw(m)]
<1>2. /\ IsMutate(c) /\ basis[m] = authority.seq /\ Takes(c, e)
      /\ authority' = [value |-> Append(authority.value, Parsed(m)), seq |-> authority.seq + 1]
      /\ UNCHANGED <<copy, replay, heard, subscribed, called, outcome, basis, seen, lost>>
  BY DEF AcceptMutation, copyVars, lifeVars, callVars
<1>3. m \in Mutation /\ outcome[m] # "idle" /\ ~Decided(authority, m)
  BY <1>1, <1>2, HeadOfQueue
<1>4. /\ GoodAuthority(a) /\ Grows(authority, a) /\ a.seq = authority.seq + 1
      /\ a.value[a.seq].by = m
      /\ \A n : n # m => (Decided(a, n) <=> Decided(authority, n))
      /\ Decided(a, m)
  <2> HIDE DEF m
  <2>1. a = Accepting(authority, m)
    BY <1>2, <1>a DEF Accepting
  <2> QED BY <1>1, <1>3, <2>1, AuthorityGrows
<1>5. Calls'
  BY <1>1, <1>2, <1>3, <1>4, <1>a, AnswerKeepsCalls
<1>6. e \in Replied /\ ~IsSnapshot(e) /\ requests[c] # <<>>
  BY <1>2, <1>3 DEF Replied, IsSnapshot, IsMutate
<1>7. patches' = [d \in Copy |-> IF subscribed[d] THEN Append(patches[d], p) ELSE patches[d]]
  BY <1>4, <1>a DEF AcceptMutation
<1>8. p \in Patch /\ Accepted(a, p)
  <2>1. Raw(m) \in Token
    <3>1. (m \notin Normalised) \in BOOLEAN
      OBVIOUS
    <3> QED BY <1>3, <3>1 DEF Raw, Token
  <2>2. a.seq \in Nat /\ a.seq \in 1 .. a.seq
    BY <1>1, <1>4 DEF GoodAuthority
  <2> HIDE DEF m
  <2> QED BY <1>4, <2>1, <2>2 DEF Patch, Accepted
<1> HIDE DEF e, m, p
<1>9. /\ patches' \in [Copy -> Seq(Patch)]
      /\ \A d \in Copy : GoodBuffer(a, patches'[d])
  <2>1. ASSUME NEW d \in Copy
        PROVE  GoodBuffer(a, patches[d]) /\ GoodBuffer(a, Append(patches[d], p))
    <3>1. GoodBuffer(a, patches[d])
      BY <1>1, <1>4, GrowsFacts DEF Data, GoodThread
    <3>2. patches[d] \in Seq(Patch)
      BY <1>1, ChannelTypes
    <3> QED BY <1>8, <3>1, <3>2, AppendFacts DEF GoodBuffer
  <2>2. ASSUME NEW d \in Copy
        PROVE  patches'[d] \in Seq(Patch) /\ GoodBuffer(a, patches'[d])
    BY <1>7, <2>1 DEF GoodBuffer
  <2> QED BY <1>7, <2>2
<1>10. TypeOK' /\ Data' /\ Fetch'
  BY <1>1, <1>2, <1>4, <1>6, <1>9, <1>a, AnswerKeepsThreads
<1>11. Bases'
  <2>1. \A n \in Mutation : Saw(a, seen[n], basis[n])
    <3>1. \A n \in Mutation : Agrees(authority, seen[n], basis[n]) => Agrees(a, seen[n], basis[n])
      BY <1>1, <1>4, GrowsFacts
    <3> QED BY <1>1, <3>1 DEF Bases, Saw
  <2>2. ASSUME NEW i \in 1 .. a.seq
        PROVE  LET n == a.value[i].by IN basis[n] = i - 1 /\ outcome[n] # "idle"
    <3>1. authority.seq \in Nat
      BY <1>1 DEF GoodAuthority
    <3>2. CASE i \in 1 .. authority.seq
      <4>1. a.value[i] = authority.value[i]
        BY <1>4, <3>2 DEF Grows
      <4> QED BY <1>1, <3>2, <4>1 DEF Bases
    <3>3. CASE i = a.seq
      BY <1>2, <1>3, <1>4, <3>1, <3>3 DEF m
    <3> QED BY <1>4, <3>1, <3>2, <3>3
  <2> QED BY <1>2, <1>a, <2>1, <2>2 DEF Bases
<1> QED BY <1>5, <1>10, <1>11 DEF IInv

-----------------------------------------------------------------------------
(* The invariant. *)

LEMMA InitHolds == Init => IInv
<1> SUFFICES ASSUME Init PROVE IInv
  OBVIOUS
<1>1. /\ <<>> \in Value /\ Fresh \in Local
      /\ authority = [value |-> <<>>, seq |-> 0]
  BY DEF Init, Value, Fresh, Local
<1>2. TypeOK
  BY <1>1, TypeParts
     DEF Init, CopiesTyped, LivesTyped, ChannelsTyped, CallsTyped, Outcomes
<1>3. Data
  <2>1. GoodAuthority(authority)
    BY <1>1 DEF GoodAuthority
  <2>2. GoodBuffer(authority, <<>>)
    BY DEF GoodBuffer
  <2>3. GoodCopy(authority, Fresh)
    BY <1>1, <2>2 DEF GoodCopy, Fresh
  <2>4. \A d \in Copy : GoodThread(authority, copy[d], patches[d], replay[d], replies[d])
    BY <2>2, <2>3 DEF Init, GoodThread
  <2> QED BY <2>1, <2>4 DEF Data
<1>4. Fetch
  BY DEF Init, Fetch, GoodFetch, AtMostOne, NoSnapshot, Snapshots, Fresh
<1>5. Calls
  BY DEF Init, Calls
<1>6. Bases
  BY <1>1 DEF Init, Bases, Saw
<1> QED BY <1>2, <1>3, <1>4, <1>5, <1>6 DEF IInv

(* Every step keeps the invariant. *)
LEMMA NextKeeps == IInv /\ [Next]_vars => IInv'
<1> SUFFICES ASSUME IInv, [Next]_vars PROVE IInv'
  OBVIOUS
<1>1. CASE UNCHANGED vars
  <2>1. UNCHANGED <<authority, copy, replay, heard, subscribed, called, patches, requests,
                    replies, outcome, basis, seen, lost>>
    BY <1>1 DEF vars, authorityVars, copyVars, lifeVars, channels, callVars
  <2>2. TypeOK' /\ \A c \in Copy : GoodBuffer(authority, patches'[c])
    BY <2>1 DEF IInv, TypeOK, Data, GoodThread
  <2> QED BY <2>1, <2>2, QuietStep
<1>2. ASSUME NEW c \in Copy,
             CreateLocalCopy(c) \/ InitCopy(c) \/ DisposeCopy(c) \/ ReceivePatch(c)
               \/ ReplayPatch(c) \/ LosePatch(c) \/ ReceiveSnapshot(c) \/ FetchFails(c)
               \/ ReceiveAnswer(c)
      PROVE  IInv'
  BY <1>2, LossStep, InitCopyStep, PatchStep, ReceiveSnapshotStep, FetchFailsStep,
     ReceiveAnswerStep
<1>3. ASSUME NEW c \in Copy,
             ServeSnapshot(c) \/ AcceptMutation(c) \/ RefuseMutation(c, "stale")
               \/ RefuseMutation(c, "invalid")
      PROVE  IInv'
  BY <1>3, ServeSnapshotStep, AcceptMutationStep, RefuseMutationStep
<1>4. ASSUME NEW m \in Mutation, Submit(m) \/ MutationTimesOut(m)
      PROVE  IInv'
  BY <1>4, SubmitStep, MutationTimesOutStep
<1> QED BY <1>1, <1>2, <1>3, <1>4 DEF Next

(* The invariant holds throughout. *)
LEMMA InvariantHolds == Spec => []IInv
<1>1. Init => IInv
  BY InitHolds
<1>2. IInv /\ [Next]_vars => IInv'
  BY NextKeeps
<1> QED BY <1>1, <1>2, PTL DEF Spec

(* A value that agrees with the authority has its first mutations. *)
LEMMA AgreeingAuthors ==
  ASSUME NEW a, GoodAuthority(a), NEW v, NEW s, Agrees(a, v, s)
  PROVE  /\ Authors(v) = Authors(SubSeq(a.value, 1, s))
         /\ Authors(v) = SubSeq(Authors(a.value), 1, s)
         /\ Authors(v) \in Seq(Mutation) /\ Len(Authors(v)) = s
<1>1. /\ v \in Seq(Token) /\ a.value \in Seq(Token) /\ s \in Nat /\ s <= a.seq
      /\ a.seq \in Nat /\ Len(v) = s /\ Len(a.value) = a.seq
      /\ \A i \in 1 .. s : v[i].by = a.value[i].by
  BY DEF Agrees, GoodAuthority, Value
<1>2. /\ SubSeq(a.value, 1, s) \in Seq(Token) /\ Len(SubSeq(a.value, 1, s)) = s
      /\ \A i \in 1 .. s : SubSeq(a.value, 1, s)[i] = a.value[i]
  BY <1>1
<1>3. /\ DOMAIN v = 1 .. s /\ DOMAIN SubSeq(a.value, 1, s) = 1 .. s
      /\ DOMAIN a.value = 1 .. a.seq
  BY <1>1, <1>2
<1>4. Authors(v) = [i \in 1 .. s |-> v[i].by]
  BY <1>3 DEF Authors
<1>5. Authors(SubSeq(a.value, 1, s)) = [i \in 1 .. s |-> SubSeq(a.value, 1, s)[i].by]
  BY <1>3 DEF Authors
<1>6. Authors(a.value) = [i \in 1 .. a.seq |-> a.value[i].by]
  BY <1>3 DEF Authors
<1>7. \A t \in Token : t.by \in Mutation
  BY DEF Token
<1>8. \A i \in 1 .. s : v[i] \in Token
  BY <1>1
<1>9. \A i \in 1 .. a.seq : a.value[i] \in Token
  BY <1>1
<1>10. Authors(v) \in Seq(Mutation) /\ Len(Authors(v)) = s
  BY <1>1, <1>4, <1>7, <1>8
<1>11. Authors(a.value) \in Seq(Mutation) /\ Len(Authors(a.value)) = a.seq
  BY <1>1, <1>6, <1>7, <1>9
<1>12. /\ SubSeq(Authors(a.value), 1, s) \in Seq(Mutation)
       /\ Len(SubSeq(Authors(a.value), 1, s)) = s
       /\ \A i \in 1 .. s : SubSeq(Authors(a.value), 1, s)[i] = Authors(a.value)[i]
  BY <1>1, <1>11
<1>13. Authors(v) = SubSeq(Authors(a.value), 1, s)
  <2>1. \A i \in 1 .. s : Authors(v)[i] = SubSeq(Authors(a.value), 1, s)[i]
    BY <1>1, <1>4, <1>6, <1>12
  <2> QED BY <1>10, <1>12, <2>1
<1>14. Authors(v) = Authors(SubSeq(a.value, 1, s))
  <2>1. \A i \in 1 .. s : v[i].by = SubSeq(a.value, 1, s)[i].by
    BY <1>1, <1>2
  <2> QED BY <1>4, <1>5, <2>1
<1> QED BY <1>10, <1>13, <1>14

(* A copy shows the mutations that the authority had accepted at the copy's
   number, in their order, whatever has been lost, delayed, buffered or fetched
   again on the way, and shows each as the authority has committed it unless
   the schema rewrote it (LocalCopy.applyPatchMessage(), applySnapshot()). *)
THEOREM CopiesAreFaithful == Spec => []CopyFaithful
<1>1. IInv => CopyFaithful
  <2> SUFFICES ASSUME IInv, NEW c \in Copy, copy[c].initialised
               PROVE  /\ copy[c].seq <= authority.seq
                      /\ Authors(copy[c].value) = Authors(SubSeq(authority.value, 1, copy[c].seq))
                      /\ \A i \in DOMAIN copy[c].value :
                           copy[c].value[i].parsed \/ copy[c].value[i].by \in Normalised
    BY DEF CopyFaithful
  <2>1. /\ GoodAuthority(authority) /\ Agrees(authority, copy[c].value, copy[c].seq)
        /\ \A i \in 1 .. copy[c].seq :
             copy[c].value[i].parsed \/ copy[c].value[i].by \in Normalised
    BY DEF IInv, Data, GoodThread, GoodCopy
  <2>2. DOMAIN copy[c].value = 1 .. copy[c].seq /\ copy[c].seq <= authority.seq
    BY <2>1 DEF Agrees, Value, GoodAuthority
  <2> QED BY <2>1, <2>2, AgreeingAuthors
<1> QED BY <1>1, InvariantHolds, PTL

(* A mutation is applied to what its caller's copy showed when the store sent
   it, as the authority had committed it unless the schema rewrote it: a
   basisSeq that is the authority's number stands for one value only.  A caller
   without a value sends 0, and what it sends is applied to the initial value
   if at all (Authority.mutate(), LocalCopy.getSeq(), mutateWithRetry()). *)
THEOREM NothingIsOverwrittenUnseen == Spec => []AppliedToWhatWasSeen
<1>1. IInv => AppliedToWhatWasSeen
  <2> SUFFICES ASSUME IInv, NEW i \in DOMAIN authority.value
               PROVE  LET m == authority.value[i].by
                          before == SubSeq(authority.value, 1, i - 1) IN
                      IF seen[m] = None THEN before = <<>>
                      ELSE /\ Authors(seen[m]) = Authors(before)
                           /\ \A j \in DOMAIN before :
                                seen[m][j] = before[j] \/ before[j].by \in Normalised
    BY DEF AppliedToWhatWasSeen
  <2> DEFINE m == authority.value[i].by
             before == SubSeq(authority.value, 1, i - 1)
  <2>1. GoodAuthority(authority) /\ Bases
    BY DEF IInv, Data
  <2>2. i \in 1 .. authority.seq
    <3>1. DOMAIN authority.value = 1 .. authority.seq
      BY <2>1 DEF GoodAuthority, Value
    <3> QED BY <3>1
  <2>3. m \in Mutation /\ basis[m] = i - 1 /\ Saw(authority, seen[m], i - 1)
    BY <2>1, <2>2, AuthorsAre DEF Bases
  <2>4. /\ before \in Seq(Token) /\ DOMAIN before = 1 .. i - 1
        /\ \A j \in 1 .. i - 1 : before[j] = authority.value[j]
    BY <2>1, <2>2 DEF GoodAuthority, Value
  <2> HIDE DEF m
  <2>5. CASE seen[m] = None
    <3>1. i - 1 = 0
      BY <2>3, <2>5 DEF Saw
    <3>2. before = <<>>
      BY <2>4, <3>1
    <3> QED BY <2>5, <3>2 DEF m
  <2>6. CASE seen[m] # None
    <3>1. Agrees(authority, seen[m], i - 1) /\ Drifts(seen[m], i - 1)
      BY <2>3, <2>6 DEF Saw
    <3>2. Authors(seen[m]) = Authors(before)
      BY <2>1, <3>1, AgreeingAuthors
    <3>3. ASSUME NEW j \in DOMAIN before
          PROVE  seen[m][j] = before[j] \/ before[j].by \in Normalised
      <4>1. /\ j \in 1 .. i - 1 /\ before[j] = authority.value[j]
            /\ seen[m][j].by = authority.value[j].by
        BY <2>4, <3>1 DEF Agrees
      <4>2. authority.value[j] \in Token /\ authority.value[j].parsed
        BY <2>1, <2>2, <4>1 DEF GoodAuthority, Value
      <4>3. seen[m][j] \in Token
        BY <3>1, <4>1 DEF Agrees, Value
      <4>4. seen[m][j].parsed \/ before[j].by \in Normalised
        BY <3>1, <4>1 DEF Drifts
      <4>5. ASSUME NEW x \in Token, NEW y \in Token, x.by = y.by, x.parsed, y.parsed
            PROVE  x = y
        BY <4>5 DEF Token
      <4> QED BY <4>1, <4>2, <4>3, <4>4, <4>5
    <3> QED BY <2>6, <3>2, <3>3 DEF m
  <2> QED BY <2>5, <2>6 DEF m
<1> QED BY <1>1, InvariantHolds, PTL

-----------------------------------------------------------------------------
(* While no fetch fails, a buffer is released. *)

LEMMA ReleaseKept ==
  ASSUME "fetch" \notin Faults, IInv, BufferReleased, [Next]_vars
  PROVE  BufferReleased'
<1>1. TypeOK /\ GoodAuthority(authority) /\ copy \in [Copy -> Local]
      /\ \A c \in Copy : GoodThread(authority, copy[c], patches[c], replay[c], replies[c])
  BY TypeParts DEF IInv, Data, CopiesTyped
<1>2. ASSUME NEW c \in Copy, NEW next \in Local, Becomes(c, next), Released(next)
      PROVE  BufferReleased'
  <2>1. \A d \in Copy : copy'[d] = IF d = c THEN next ELSE copy[d]
    BY <1>1, <1>2, BecomesFacts
  <2> QED BY <1>2, <2>1 DEF BufferReleased
<1>3. ASSUME NEW c \in Copy, NEW next, Becomes(c, next), ComesOn(authority, copy[c], next)
      PROVE  BufferReleased'
  <2>1. next \in Local /\ Released(next)
    BY <1>3 DEF ComesOn, GoodCopy, BufferReleased
  <2> QED BY <1>2, <1>3, <2>1
<1>4. CASE copy' = copy
  BY <1>4 DEF BufferReleased, Released
<1>5. ASSUME NEW c \in Copy, ReceivePatch(c)
      PROVE  BufferReleased'
  <2>1. PICK breaks \in BOOLEAN : Becomes(c, Receives(copy[c], Head(patches[c]), breaks))
    BY <1>5 DEF ReceivePatch
  <2>2. Head(patches[c]) \in Patch /\ Accepted(authority, Head(patches[c]))
    BY <1>1, <1>5, TailBuffer DEF ReceivePatch, GoodThread
  <2>3. ComesOn(authority, copy[c], Receives(copy[c], Head(patches[c]), breaks))
    BY <1>1, <2>2, ReceivesFacts DEF GoodThread
  <2> QED BY <1>3, <2>1, <2>3
<1>6. ASSUME NEW c \in Copy, ReplayPatch(c)
      PROVE  BufferReleased'
  <2>1. PICK breaks \in BOOLEAN : Becomes(c, Receives(copy[c], Head(replay[c]), breaks))
    BY <1>6 DEF ReplayPatch
  <2>2. Head(replay[c]) \in Patch /\ Accepted(authority, Head(replay[c]))
    BY <1>1, <1>6, TailBuffer DEF ReplayPatch, GoodThread
  <2>3. ComesOn(authority, copy[c], Receives(copy[c], Head(replay[c]), breaks))
    BY <1>1, <2>2, ReceivesFacts DEF GoodThread
  <2> QED BY <1>3, <2>1, <2>3
<1>7. ASSUME NEW c \in Copy, ReceiveSnapshot(c)
      PROVE  BufferReleased'
  <2>1. PICK next : Becomes(c, next) /\ GoodCopy(authority, next) /\ Released(next)
    BY <1>1, <1>7, SnapshotMakes DEF SnapshotMade
  <2>2. next \in Local
    BY <2>1 DEF GoodCopy
  <2> QED BY <1>2, <2>1, <2>2
<1>8. ASSUME NEW c \in Copy,
             CreateLocalCopy(c) \/ InitCopy(c) \/ DisposeCopy(c) \/ LosePatch(c)
               \/ ReceiveAnswer(c) \/ ServeSnapshot(c) \/ AcceptMutation(c)
               \/ RefuseMutation(c, "stale") \/ RefuseMutation(c, "invalid")
      PROVE  copy' = copy
  BY <1>8 DEF CreateLocalCopy, InitCopy, DisposeCopy, LosePatch, ReceiveAnswer, ServeSnapshot,
     AcceptMutation, RefuseMutation, copyVars
<1>9. ASSUME NEW m \in Mutation, Submit(m) \/ MutationTimesOut(m)
      PROVE  copy' = copy
  BY <1>9 DEF Submit, MutationTimesOut, copyVars
<1>10. ASSUME UNCHANGED vars
       PROVE  copy' = copy
  BY <1>10 DEF vars, copyVars
<1>11. \A c \in Copy : ~FetchFails(c)
  BY DEF FetchFails
<1> QED BY <1>4, <1>5, <1>6, <1>7, <1>8, <1>9, <1>10, <1>11 DEF Next

(* At most one snapshot of a copy is under way, and unless a fetch fails a copy
   holds patches back only while one is, whatever the channels lose or delay
   (LocalCopy.applyPatchMessage(), refetchAndReapply()). *)
THEOREM EveryGapIsClosed == ASSUME "fetch" \notin Faults PROVE Spec => []GapsClosed
<1>1. Init => BufferReleased
  BY DEF Init, BufferReleased, Released, Fresh
<1>2. IInv /\ BufferReleased /\ [Next]_vars => BufferReleased'
  BY ReleaseKept
<1>3. IInv /\ BufferReleased => GapsClosed
  BY DEF IInv, GapsClosed, OneFetch, Fetch, GoodFetch, AtMostOne, NoSnapshot
<1> QED BY <1>1, <1>2, <1>3, InvariantHolds, PTL DEF Spec

-----------------------------------------------------------------------------
(* The refinement: every step is one of ReplicatedSlice or shows nothing. *)

Log == Authors(authority.value)
View == [c \in Copy |-> Shown(copy[c])]
Result == [m \in Mutation |-> Standing(outcome[m])]

(* How the outcomes of a mutation appear to a caller of the abstract specification. *)
LEMMA Standings ==
  /\ Standing("idle") = "idle" /\ Standing("asked") = "asked" /\ Standing("ack") = "acked"
  /\ Standing("stale") = "refused" /\ Standing("invalid") = "refused"
  /\ Standing("timeout") = "unknown"
  BY DEF Standing

(* The abstract log has decided a mutation exactly when the authority has. *)
LEMMA LogDecides ==
  ASSUME GoodAuthority(authority), NEW m
  PROVE  Agreed!Decided(m) <=> Decided(authority, m)
<1>1. DOMAIN authority.value = 1 .. authority.seq
  BY DEF GoodAuthority, Value
<1>2. DOMAIN Log = 1 .. authority.seq /\ \A i \in 1 .. authority.seq : Log[i] = authority.value[i].by
  BY <1>1 DEF Log, Authors
<1> QED BY <1>2 DEF Agreed!Decided, Decided, Log

(* A thread that shows as much as before or more. *)
LEMMA ShownStep ==
  ASSUME IInv, NEW c \in Copy, NEW next, GoodCopy(authority, next),
         copy' = [copy EXCEPT ![c] = next], next.seq >= copy[c].seq,
         copy[c].initialised => next.initialised,
         UNCHANGED <<authority, outcome>>
  PROVE  Agreed!Show(c) \/ UNCHANGED Agreed!vars
<1>1. /\ GoodAuthority(authority) /\ GoodCopy(authority, copy[c])
      /\ copy \in [Copy -> Local]
  BY TypeParts DEF IInv, Data, GoodThread, CopiesTyped
<1>2. \A d \in Copy : copy'[d] = IF d = c THEN next ELSE copy[d]
  BY <1>1
<1>3. View' = [View EXCEPT ![c] = Shown(next)] /\ View[c] = Shown(copy[c])
  <2>1. View' = [d \in Copy |-> Shown(copy'[d])] /\ View[c] = Shown(copy[c])
    BY DEF View
  <2>2. \A d \in Copy : Shown(copy'[d]) = IF d = c THEN Shown(next) ELSE Shown(copy[d])
    BY <1>2
  <2>3. [View EXCEPT ![c] = Shown(next)]
          = [d \in Copy |-> IF d = c THEN Shown(next) ELSE Shown(copy[d])]
    BY DEF View
  <2> QED BY <2>1, <2>2, <2>3
<1>4. Log' = Log /\ Result' = Result
  BY DEF Log, Result
<1>5. CASE Shown(next) = Shown(copy[c])
  <2>1. View' = View
    BY <1>3, <1>5 DEF View
  <2> QED BY <1>4, <2>1 DEF Agreed!vars, Log, View, Result
<1>6. CASE Shown(next) # Shown(copy[c])
  <2>1. next.initialised
    BY <1>6, <1>1 DEF Shown
  <2>2. Agrees(authority, next.value, next.seq)
    BY <2>1 DEF GoodCopy
  <2>3. Shown(next) = SubSeq(Log, 1, next.seq)
    BY <1>1, <2>1, <2>2, AgreeingAuthors DEF Shown, Log
  <2>4. next.seq \in 0 .. Len(Log)
    <3>1. Agrees(authority, authority.value, authority.seq)
      BY <1>1 DEF Agrees, GoodAuthority
    <3>2. Len(Log) = authority.seq
      BY <1>1, <3>1, AgreeingAuthors DEF Log
    <3> QED BY <2>2, <3>2 DEF Agrees
  <2>5. View[c] # None => next.seq > Len(View[c])
    <3> SUFFICES ASSUME View[c] # None PROVE next.seq > Len(View[c])
      OBVIOUS
    <3>1. copy[c].initialised
      BY <1>3 DEF Shown
    <3>2. Agrees(authority, copy[c].value, copy[c].seq)
      BY <1>1, <3>1 DEF GoodCopy
    <3>3. Len(View[c]) = copy[c].seq /\ Shown(copy[c]) = SubSeq(Log, 1, copy[c].seq)
      BY <1>1, <1>3, <3>1, <3>2, AgreeingAuthors DEF Shown, Log
    <3>4. next.seq # copy[c].seq
      BY <1>6, <2>3, <3>3
    <3>5. next.seq \in Nat /\ copy[c].seq \in Nat
      BY <1>1 DEF GoodCopy, Local
    <3> QED BY <3>3, <3>4, <3>5
  <2>6. View' = [View EXCEPT ![c] = SubSeq(Log, 1, next.seq)]
    BY <1>3, <2>3
  <2> QED BY <1>4, <2>4, <2>5, <2>6 DEF Agreed!Show, Log, View, Result
<1> QED BY <1>5, <1>6

(* A call whose standing changes. *)
LEMMA ResultStep ==
  ASSUME TypeOK, NEW m \in Mutation, NEW o, outcome' = [outcome EXCEPT ![m] = o]
  PROVE  Result' = [Result EXCEPT ![m] = Standing(o)] /\ Result[m] = Standing(outcome[m])
<1>1. outcome \in [Mutation -> Outcomes]
  BY DEF TypeOK
<1>2. \A n \in Mutation : outcome'[n] = IF n = m THEN o ELSE outcome[n]
  BY <1>1
<1>3. Result' = [n \in Mutation |-> Standing(outcome'[n])] /\ Result[m] = Standing(outcome[m])
  BY DEF Result
<1>4. \A n \in Mutation :
        Standing(outcome'[n]) = IF n = m THEN Standing(o) ELSE Standing(outcome[n])
  BY <1>2
<1>5. [Result EXCEPT ![m] = Standing(o)]
        = [n \in Mutation |-> IF n = m THEN Standing(o) ELSE Standing(outcome[n])]
  BY DEF Result
<1> QED BY <1>3, <1>4, <1>5

(* Every step is one of the abstract specification, or none. *)
LEMMA StepRefines ==
  ASSUME IInv, [Next]_vars
  PROVE  [Agreed!Next]_(Agreed!vars)
<1>1. /\ TypeOK /\ GoodAuthority(authority) /\ copy \in [Copy -> Local] /\ Calls
      /\ \A c \in Copy : /\ GoodThread(authority, copy[c], patches[c], replay[c], replies[c])
                          /\ copy[c].seq \in Nat
  BY TypeParts DEF IInv, Data, CopiesTyped, Local
<1>2. ASSUME UNCHANGED <<authority, copy, outcome>>
      PROVE  UNCHANGED Agreed!vars
  BY <1>2 DEF Agreed!vars
<1>3. ASSUME UNCHANGED vars
      PROVE  UNCHANGED Agreed!vars
  BY <1>2, <1>3 DEF vars, authorityVars, copyVars, callVars
<1>4. ASSUME NEW c \in Copy,
             CreateLocalCopy(c) \/ InitCopy(c) \/ DisposeCopy(c) \/ LosePatch(c)
               \/ ServeSnapshot(c) \/ RefuseMutation(c, "stale") \/ RefuseMutation(c, "invalid")
      PROVE  UNCHANGED Agreed!vars
  BY <1>2, <1>4 DEF CreateLocalCopy, InitCopy, DisposeCopy, LosePatch, ServeSnapshot,
     RefuseMutation, copyVars, callVars
<1>5. ASSUME NEW c \in Copy, NEW next, Becomes(c, next), ComesOn(authority, copy[c], next),
             UNCHANGED <<authority, outcome>>
      PROVE  Agreed!Next \/ UNCHANGED Agreed!vars
  <2>1. GoodCopy(authority, next) /\ next.seq >= copy[c].seq
        /\ (copy[c].initialised => next.initialised)
    BY <1>5 DEF ComesOn
  <2>2. copy' = [copy EXCEPT ![c] = next]
    BY <1>5 DEF Becomes
  <2> QED BY <1>5, <2>1, <2>2, ShownStep DEF Agreed!Next
<1>6. ASSUME NEW c \in Copy, ReceivePatch(c) \/ ReplayPatch(c)
      PROVE  Agreed!Next \/ UNCHANGED Agreed!vars
  <2>1. CASE ReceivePatch(c)
    <3>1. PICK breaks \in BOOLEAN : Becomes(c, Receives(copy[c], Head(patches[c]), breaks))
      BY <2>1 DEF ReceivePatch
    <3>2. Head(patches[c]) \in Patch /\ Accepted(authority, Head(patches[c]))
      BY <1>1, <2>1, TailBuffer DEF ReceivePatch, GoodThread
    <3>3. ComesOn(authority, copy[c], Receives(copy[c], Head(patches[c]), breaks))
      BY <1>1, <3>2, ReceivesFacts DEF GoodThread
    <3>4. UNCHANGED <<authority, outcome>>
      BY <2>1 DEF ReceivePatch, callVars
    <3> QED BY <1>5, <3>1, <3>3, <3>4
  <2>2. CASE ReplayPatch(c)
    <3>1. PICK breaks \in BOOLEAN : Becomes(c, Receives(copy[c], Head(replay[c]), breaks))
      BY <2>2 DEF ReplayPatch
    <3>2. Head(replay[c]) \in Patch /\ Accepted(authority, Head(replay[c]))
      BY <1>1, <2>2, TailBuffer DEF ReplayPatch, GoodThread
    <3>3. ComesOn(authority, copy[c], Receives(copy[c], Head(replay[c]), breaks))
      BY <1>1, <3>2, ReceivesFacts DEF GoodThread
    <3>4. UNCHANGED <<authority, outcome>>
      BY <2>2 DEF ReplayPatch, callVars
    <3> QED BY <1>5, <3>1, <3>3, <3>4
  <2> QED BY <1>6, <2>1, <2>2
<1>7. ASSUME NEW c \in Copy, ReceiveSnapshot(c)
      PROVE  Agreed!Next \/ UNCHANGED Agreed!vars
  <2>1. PICK next : SnapshotMade(c, next)
    BY <1>1, <1>7, SnapshotMakes
  <2>2. UNCHANGED <<authority, outcome>> /\ copy' = [copy EXCEPT ![c] = next]
    BY <1>7, <2>1 DEF ReceiveSnapshot, SnapshotMade, Becomes, callVars
  <2> QED BY <2>1, <2>2, ShownStep DEF SnapshotMade, Agreed!Next
<1>8. ASSUME NEW c \in Copy, FetchFails(c)
      PROVE  Agreed!Next \/ UNCHANGED Agreed!vars
  <2> DEFINE next == [copy[c] EXCEPT !.refetching = FALSE]
  <2>1. copy[c] \in Local /\ GoodCopy(authority, copy[c])
    BY <1>1 DEF GoodThread
  <2>2. /\ next \in Local /\ next.value = copy[c].value /\ next.seq = copy[c].seq
        /\ next.initialised = copy[c].initialised /\ next.pending = copy[c].pending
        /\ next.refetching = FALSE
    BY <2>1 DEF Local
  <2>3. UNCHANGED <<authority, outcome>> /\ copy' = [copy EXCEPT ![c] = next]
    BY <1>8 DEF FetchFails, callVars
  <2> HIDE DEF next
  <2>4. GoodCopy(authority, next)
    BY <2>1, <2>2 DEF GoodCopy
  <2>5. next.seq >= copy[c].seq /\ (copy[c].initialised => next.initialised)
    BY <1>1, <2>2
  <2> QED BY <2>3, <2>4, <2>5, ShownStep DEF Agreed!Next
<1>9. ASSUME NEW m \in Mutation, Submit(m)
      PROVE  Agreed!Ask(m)
  <2>1. outcome[m] = "idle" /\ outcome' = [outcome EXCEPT ![m] = "asked"]
        /\ UNCHANGED <<authority, copy>>
    BY <1>9 DEF Submit, copyVars
  <2>2. Result' = [Result EXCEPT ![m] = "asked"] /\ Result[m] = "idle"
    <3>1. Result' = [Result EXCEPT ![m] = Standing("asked")] /\ Result[m] = Standing("idle")
      BY <1>1, <2>1, ResultStep
    <3> QED BY <3>1, Standings
  <2>3. Log' = Log /\ View' = View
    BY <2>1 DEF Log, View
  <2> QED BY <2>2, <2>3 DEF Agreed!Ask, Log, View, Result
<1>10. ASSUME NEW m \in Mutation, MutationTimesOut(m)
       PROVE  Agreed!GiveUp(m)
  <2>1. outcome[m] = "asked" /\ outcome' = [outcome EXCEPT ![m] = "timeout"]
        /\ UNCHANGED <<authority, copy>>
    BY <1>10 DEF MutationTimesOut, copyVars
  <2>2. Result' = [Result EXCEPT ![m] = "unknown"] /\ Result[m] = "asked"
    <3>1. Result' = [Result EXCEPT ![m] = Standing("timeout")] /\ Result[m] = Standing("asked")
      BY <1>1, <2>1, ResultStep
    <3> QED BY <3>1, Standings
  <2>3. Log' = Log /\ View' = View
    BY <2>1 DEF Log, View
  <2> QED BY <2>2, <2>3 DEF Agreed!GiveUp, Log, View, Result
<1>11. ASSUME NEW c \in Copy, ReceiveAnswer(c)
       PROVE  Agreed!Next \/ UNCHANGED Agreed!vars
  <2> DEFINE e == Head(replies[c])
             m == e.id
  <2>1. /\ replies[c] # <<>> /\ ~IsSnapshot(e)
        /\ outcome' = [outcome EXCEPT ![m] = IF @ = "asked" THEN e.type ELSE @]
        /\ UNCHANGED <<authority, copy>>
    BY <1>11 DEF ReceiveAnswer, copyVars
  <2>2. e.type \in {"ack", "stale", "invalid"} /\ m \in Mutation
    BY <1>1, <2>1, Heads
  <2>3. e = replies[c][1] /\ 1 \in 1 .. Len(replies[c])
    BY <1>1, <2>1, ChannelTypes, TailFacts
  <2>4. e.type = "ack" <=> Decided(authority, m)
    BY <1>1, <2>1, <2>3 DEF Calls
  <2>5. Agreed!Decided(m) <=> Decided(authority, m)
    BY <1>1, LogDecides
  <2>6. Log' = Log /\ View' = View
    BY <2>1 DEF Log, View
  <2>7. outcome \in [Mutation -> Outcomes]
    BY <1>1 DEF TypeOK
  <2> HIDE DEF m, e
  <2>8. CASE outcome[m] = "asked"
    <3>1. outcome' = [outcome EXCEPT ![m] = e.type]
      BY <2>1, <2>8
    <3>2. Result' = [Result EXCEPT ![m] = Standing(e.type)] /\ Result[m] = "asked"
      BY <1>1, <2>2, <2>8, <3>1, ResultStep, Standings
    <3>3. CASE e.type = "ack"
      <4>1. Agreed!Acknowledge(m)
        BY <2>4, <2>5, <2>6, <3>2, <3>3, Standings DEF Agreed!Acknowledge, Log, View, Result
      <4> QED BY <2>2, <4>1 DEF Agreed!Next
    <3>4. CASE e.type # "ack"
      <4>1. Standing(e.type) = "refused"
        BY <2>2, <3>4, Standings
      <4>2. Agreed!Refuse(m)
        BY <2>4, <2>5, <2>6, <3>2, <3>4, <4>1 DEF Agreed!Refuse, Log, View, Result
      <4> QED BY <2>2, <4>2 DEF Agreed!Next
    <3> QED BY <3>3, <3>4
  <2>9. CASE outcome[m] # "asked"
    <3>1. outcome' = outcome
      BY <2>1, <2>7, <2>9
    <3> QED BY <1>2, <2>1, <3>1
  <2> QED BY <2>8, <2>9
<1>12. ASSUME NEW c \in Copy, AcceptMutation(c)
       PROVE  Agreed!Next
  <2> DEFINE m == Head(requests[c]).id
  <2>1. /\ IsMutate(c) /\ UNCHANGED <<copy, outcome>>
        /\ authority' = [value |-> Append(authority.value, Parsed(m)), seq |-> authority.seq + 1]
    BY <1>12 DEF AcceptMutation, copyVars, callVars
  <2>2. m \in Mutation /\ outcome[m] \in {"asked", "timeout"} /\ ~Decided(authority, m)
    BY <1>1, <2>1, HeadOfQueue
  <2> HIDE DEF m
  <2>3. Log' = Append(Log, m)
    <3>1. authority' = Accepting(authority, m)
      BY <2>1 DEF Accepting
    <3>2. /\ GoodAuthority(authority') /\ Grows(authority, authority')
          /\ authority'.seq = authority.seq + 1 /\ authority'.value[authority'.seq].by = m
      BY <1>1, <2>2, <3>1, AuthorityGrows
    <3>3. /\ Agrees(authority', authority'.value, authority'.seq)
          /\ Agrees(authority, authority.value, authority.seq)
      BY <1>1, <3>2 DEF Agrees, GoodAuthority
    <3>4. /\ Log' \in Seq(Mutation) /\ Len(Log') = authority.seq + 1
          /\ Log \in Seq(Mutation) /\ Len(Log) = authority.seq
      BY <1>1, <3>2, <3>3, AgreeingAuthors DEF Log
    <3>5. DOMAIN authority.value = 1 .. authority.seq
          /\ DOMAIN authority'.value = 1 .. authority.seq + 1 /\ authority.seq \in Nat
      BY <1>1, <3>2 DEF GoodAuthority, Value
    <3>6. /\ \A i \in 1 .. authority.seq : Log[i] = authority.value[i].by
          /\ \A i \in 1 .. authority.seq + 1 : Log'[i] = authority'.value[i].by
      BY <3>5 DEF Log, Authors
    <3>7. /\ Append(Log, m) \in Seq(Mutation) /\ Len(Append(Log, m)) = authority.seq + 1
          /\ \A i \in 1 .. authority.seq : Append(Log, m)[i] = Log[i]
          /\ Append(Log, m)[authority.seq + 1] = m
      BY <2>2, <3>4, AppendFacts
    <3>8. \A i \in 1 .. authority.seq + 1 : i \in 1 .. authority.seq \/ i = authority.seq + 1
      BY <3>5, LastPlace
    <3>9. \A i \in 1 .. authority.seq + 1 : Log'[i] = Append(Log, m)[i]
      <4> SUFFICES ASSUME NEW i \in 1 .. authority.seq + 1 PROVE Log'[i] = Append(Log, m)[i]
        OBVIOUS
      <4>1. CASE i \in 1 .. authority.seq
        BY <3>2, <3>6, <3>7, <4>1 DEF Grows
      <4>2. CASE i = authority.seq + 1
        BY <3>2, <3>6, <3>7, <4>2
      <4> QED BY <3>8, <4>1, <4>2
    <3>10. Len(Log') = Len(Append(Log, m))
      BY <3>4, <3>7
    <3> QED BY <3>4, <3>7, <3>9, <3>10, SamePlaces
  <2>4. View' = View /\ Result' = Result /\ Result[m] \in {"asked", "unknown"}
    BY <2>1, <2>2, Standings DEF View, Result
  <2>5. ~Agreed!Decided(m)
    BY <1>1, <2>2, LogDecides
  <2>6. Agreed!Accept(m)
    BY <2>3, <2>4, <2>5 DEF Agreed!Accept, Log, View, Result
  <2> QED BY <2>2, <2>6 DEF Agreed!Next
<1> QED
  BY <1>3, <1>4, <1>6, <1>7, <1>8, <1>9, <1>10, <1>11, <1>12 DEF Next, Agreed!Next

(* One agreed order of mutations, and views that only move forward along it:
   what the threads may rely on without knowing of sequence numbers, patches,
   snapshots and channels (Authority, LocalCopy and the store helper). *)
THEOREM SliceIsReplicated == Spec => KeepsOrder
<1>1. Init => Agreed!Init
  <2> SUFFICES ASSUME Init PROVE Agreed!Init
    OBVIOUS
  <2>1. Authors(<<>>) = <<>>
    BY DEF Authors
  <2>2. Log = <<>>
    BY <2>1 DEF Init, Log
  <2>3. View = [c \in Copy |-> None]
    BY DEF Init, View, Shown, Fresh
  <2>4. Result = [m \in Mutation |-> "idle"]
    BY Standings DEF Init, Result
  <2> QED BY <2>2, <2>3, <2>4 DEF Agreed!Init, Log, View, Result
<1>2. IInv /\ [Next]_vars => [Agreed!Next]_(Agreed!vars)
  BY StepRefines
<1> QED BY <1>1, <1>2, InvariantHolds, PTL DEF Spec, KeepsOrder, Agreed!Spec
=============================================================================

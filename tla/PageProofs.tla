------------------------------ MODULE PageProofs ------------------------------
(***************************************************************************)
(* Proofs about what the page keeps: the copy of the interface slice        *)
(* (module StateManager), and the session of the Guide (GuideSession).       *)
(***************************************************************************)
EXTENDS GuideSession, StateManager, SequenceLemmas, FiniteSetTheorems, TLAPS

-----------------------------------------------------------------------------
(* The interface slice: the invariant. *)

InQueue(x, q) == \E i \in 1 .. Len(q) : x = q[i]

(* Of the element: a copy is there only between a connection and a
   disconnection and while there is a bus, and its channel only with it. *)
ElementInv ==
  /\ connected => consumers > 0
  /\ ~connected \/ busClient = Undefined => copy = Undefined
  /\ copy = Undefined => channel = <<>>
  /\ busClient = Undefined => current = Undefined /\ up = <<>> /\ \A a \in Authority : down[a] = <<>>

(* A request that will be heeded was made by the copy k that is there, other
   clients read, and a navigation is proposed for a value that is undefined, or
   for no number. *)
GoodRequest(r, k) ==
  /\ r.type = "fetch" /\ r.live => k \in Copies
  /\ r.type = "read" => r.id \in Opening
  /\ r.type = "propose" /\ r.id \in Navigation => r.basis \in {0, Undefined}
UnderWay(r) ==
  \/ InQueue(r, up)
  \/ \E a \in Authority :
       \/ r = launching[a]
       \/ InQueue(r, inbox[a])
       \/ \E s \in Snapshots : InQueue(s, down[a]) /\ r = s.request
RequestInv == \A r \in Request : UnderWay(r) => GoodRequest(r, copy)

(* An authority is launched by a bus that was started, begins with the initial
   value, and takes nothing in before. *)
BusInv ==
  /\ busClient # Undefined => busClient <= buses
  /\ \A a \in Authority : owner[a] # Undefined => owner[a] <= buses
LogInv ==
  /\ initial \in {Undefined, <<>>}
  /\ \A a \in Authority :
       /\ launching[a] # Undefined => log[a] = <<>> /\ owner[a] # Undefined
       /\ log[a] = <<>> => inbox[a] = <<>>
       /\ log[a] # <<>> => log[a][1] = initial /\ owner[a] # Undefined
  /\ current # Undefined => Own(current) /\ log[current] # <<>>

(* The value v had the number n in the history values. *)
Shows(values, n, v) == n < Len(values) /\ v = values[n + 1]

(* A snapshot tells what its authority has had, which is one of the bus. *)
SnapshotInv ==
  \A a \in Authority, s \in Snapshots :
    InQueue(s, down[a]) => Own(a) /\ Shows(log[a], s.seq, s.value)

(* A copy k and a channel tell what is in a history, unless an authority of an
   earlier bus has posted. *)
AllShown(values, patches) == \A m \in Patch : InQueue(m, patches) => Shows(values, m.seq, m.value)
GoodCopy(k, values) ==
  /\ k.initialised => Shows(values, k.seq, k.value)
  /\ AllShown(values, k.pending) /\ AllShown(values, k.rest)
Agrees(k, patches, befell, values) ==
  \/ "intruded" \in befell
  \/ /\ k # Undefined => GoodCopy(k, values)
     /\ AllShown(values, patches)

(* As long as the bus has launched one authority at most, it is the one requests
   are routed to, and the copy agrees with it. *)
There(a) == Own(a) /\ log[a] # <<>>
Alone(a) == There(a) /\ \A b \in Authority : There(b) => b = a
AgreeInv ==
  /\ (\A a \in Authority : ~There(a)) => current = Undefined /\ Agrees(copy, channel, mishaps, <<>>)
  /\ \A a \in Authority : Alone(a) => current = a /\ Agrees(copy, channel, mishaps, log[a])

InterfaceInv ==
  /\ InterfaceTypeOK /\ ElementInv /\ RequestInv /\ BusInv /\ LogInv /\ SnapshotInv /\ AgreeInv

-----------------------------------------------------------------------------
(* Queues *)

LEMMA QueueGrows ==
  ASSUME NEW T, NEW q \in Seq(T), NEW x \in T
  PROVE  /\ Append(q, x) \in Seq(T)
         /\ \A y : InQueue(y, Append(q, x)) <=> InQueue(y, q) \/ y = x
<1>1. /\ Append(q, x) \in Seq(T) /\ Len(Append(q, x)) = Len(q) + 1 /\ Len(q) \in Nat
      /\ Append(q, x)[Len(q) + 1] = x
      /\ \A i \in 1 .. Len(q) : Append(q, x)[i] = q[i]
  OBVIOUS
<1>2. \A i \in 1 .. Len(q) + 1 : i = Len(q) + 1 \/ i \in 1 .. Len(q)
  BY <1>1
<1>3. Len(q) + 1 \in 1 .. Len(q) + 1 /\ \A i \in 1 .. Len(q) : i \in 1 .. Len(q) + 1
  BY <1>1
<1> QED BY <1>1, <1>2, <1>3 DEF InQueue

LEMMA QueueTaken ==
  ASSUME NEW T, NEW q \in Seq(T), q # <<>>
  PROVE  /\ Tail(q) \in Seq(T) /\ Head(q) \in T /\ InQueue(Head(q), q)
         /\ \A y : InQueue(y, Tail(q)) => InQueue(y, q)
<1>1. /\ Tail(q) \in Seq(T) /\ Head(q) \in T /\ Head(q) = q[1] /\ 1 \in 1 .. Len(q)
      /\ \A i \in 1 .. Len(Tail(q)) : i + 1 \in 1 .. Len(q) /\ Tail(q)[i] = q[i + 1]
  OBVIOUS
<1> QED BY <1>1 DEF InQueue

LEMMA QueueItems ==
  /\ \A x : ~InQueue(x, <<>>)
  /\ \A T : \A q \in Seq(T) : \A x : InQueue(x, q) => x \in T
<1>1. Len(<<>>) = 0
  OBVIOUS
<1>2. ASSUME NEW T, NEW q \in Seq(T), NEW x, InQueue(x, q)
      PROVE  x \in T
  BY <1>2 DEF InQueue
<1> QED BY <1>1, <1>2 DEF InQueue

LEMMA QueueJoined ==
  ASSUME NEW T, NEW q \in Seq(T), NEW p \in Seq(T)
  PROVE  /\ q \o p \in Seq(T)
         /\ \A y : InQueue(y, q \o p) => InQueue(y, q) \/ InQueue(y, p)
<1>1. /\ q \o p \in Seq(T) /\ Len(q \o p) = Len(q) + Len(p) /\ Len(q) \in Nat /\ Len(p) \in Nat
      /\ \A i \in 1 .. Len(q) : (q \o p)[i] = q[i]
      /\ \A i \in 1 .. Len(p) : (q \o p)[Len(q) + i] = p[i]
  BY ConcatPlaces
<1>2. ASSUME NEW i \in 1 .. Len(q \o p)
      PROVE  \/ \E j \in 1 .. Len(q) : (q \o p)[i] = q[j]
             \/ \E j \in 1 .. Len(p) : (q \o p)[i] = p[j]
  <2>1. CASE i <= Len(q)
    BY <1>1, <2>1
  <2>2. CASE i > Len(q)
    <3>1. i - Len(q) \in 1 .. Len(p) /\ Len(q) + (i - Len(q)) = i
      BY <1>1, <2>2
    <3> QED BY <1>1, <3>1
  <2> QED BY <1>1, <2>1, <2>2
<1> QED BY <1>1, <1>2 DEF InQueue

-----------------------------------------------------------------------------
(* Copies *)

(* A copy that receives a patch of the history goes on agreeing with it. *)
LEMMA ReceivesGood ==
  ASSUME NEW k \in Copies, NEW m \in Patch, NEW breaks \in BOOLEAN
  PROVE  /\ Receives(k, m, breaks) \in Copies
         /\ \A values : GoodCopy(k, values) /\ Shows(values, m.seq, m.value)
                          => GoodCopy(Receives(k, m, breaks), values)
<1> DEFINE l == Receives(k, m, breaks)
           longer == Append(k.pending, m)
<1>1. /\ k.seq \in Nat /\ m.seq \in Nat /\ k.pending \in Seq(Patch) /\ m.value \in Value
      /\ k.value \in Value /\ k.initialised \in BOOLEAN /\ k.refetching \in BOOLEAN
      /\ k.rest \in Seq(Patch)
  BY DEF Copies, Patch
<1>2. longer \in Seq(Patch) /\ \A y : InQueue(y, longer) <=> InQueue(y, k.pending) \/ y = m
  BY <1>1, QueueGrows
<1> HIDE DEF longer
<1>3. \/ l = k
      \/ \E r \in BOOLEAN : l = [k EXCEPT !.pending = longer, !.refetching = r]
      \/ l = [k EXCEPT !.refetching = TRUE]
      \/ l = [k EXCEPT !.value = m.value, !.seq = m.seq]
  <2>1. [k EXCEPT !.pending = longer] = [k EXCEPT !.pending = longer, !.refetching = k.refetching]
    BY <1>1, <1>2 DEF Copies
  <2> QED BY <1>1, <2>1 DEF Receives, longer
<1> HIDE DEF l
<1>4. l \in Copies
  BY <1>1, <1>2, <1>3 DEF Copies
<1>5. /\ l.initialised = k.initialised /\ l.rest = k.rest
      /\ (l.seq = k.seq /\ l.value = k.value) \/ (l.seq = m.seq /\ l.value = m.value)
      /\ l.pending = k.pending \/ l.pending = longer
  BY <1>3 DEF Copies
<1>6. ASSUME NEW values, GoodCopy(k, values), Shows(values, m.seq, m.value)
      PROVE  GoodCopy(l, values)
  <2>1. AllShown(values, l.pending)
    BY <1>2, <1>5, <1>6 DEF GoodCopy, AllShown
  <2> QED BY <1>5, <1>6, <2>1 DEF GoodCopy
<1> QED BY <1>4, <1>6 DEF l

(* So does one whose loop over the buffer hands it a patch. *)
LEMMA HandsOverGood ==
  ASSUME NEW k \in Copies, NEW m \in Patch, NEW waits \in BOOLEAN, NEW breaks \in BOOLEAN
  PROVE  /\ HandsOver(waits, k, m, breaks) \in Copies
         /\ \A values : GoodCopy(k, values) /\ Shows(values, m.seq, m.value)
                          => GoodCopy(HandsOver(waits, k, m, breaks), values)
<1>1. CASE waits /\ k.refetching
  <2> DEFINE longer == Append(k.rest, m)
             l == [k EXCEPT !.rest = longer]
  <2>1. longer \in Seq(Patch) /\ \A y : InQueue(y, longer) <=> InQueue(y, k.rest) \/ y = m
    <3>1. k.rest \in Seq(Patch)
      BY DEF Copies
    <3> QED BY <3>1, QueueGrows
  <2>2. HandsOver(waits, k, m, breaks) = l
    BY <1>1 DEF HandsOver
  <2> HIDE DEF longer
  <2>3. /\ l \in Copies /\ l.rest = longer /\ l.pending = k.pending
        /\ l.initialised = k.initialised /\ l.seq = k.seq /\ l.value = k.value
    BY <2>1 DEF Copies
  <2> HIDE DEF l
  <2>4. ASSUME NEW values, GoodCopy(k, values), Shows(values, m.seq, m.value)
        PROVE  GoodCopy(l, values)
    <3>1. AllShown(values, l.rest)
      BY <2>1, <2>3, <2>4 DEF GoodCopy, AllShown
    <3> QED BY <2>3, <2>4, <3>1 DEF GoodCopy
  <2> QED BY <2>2, <2>3, <2>4
<1>2. CASE ~(waits /\ k.refetching)
  <2>1. HandsOver(waits, k, m, breaks) = Receives(k, m, breaks)
    BY <1>2 DEF HandsOver
  <2> QED BY <2>1, ReceivesGood
<1> QED BY <1>1, <1>2

(* So does one that takes a snapshot and goes through what it has kept. *)
LEMMA ReplayedGood ==
  ASSUME NEW k \in Copies, NEW s \in Snapshots, NEW breaks \in BOOLEAN
  PROVE  /\ Replayed(k, s, breaks) \in Copies
         /\ \A values : GoodCopy(k, values) /\ Shows(values, s.seq, s.value)
                          => GoodCopy(Replayed(k, s, breaks), values)
<1> DEFINE first == AsSnapshot(s)
           buffer == k.pending \o k.rest
           n == Len(buffer)
           Handed(c, i) == HandsOver(k.initialised, c, buffer[i], breaks)
           Whole(g) == g = [i \in 0 .. n |-> IF i = 0 THEN first ELSE Handed(g[i - 1], i)]
           copies == CHOOSE g : Whole(g)
           F == [i \in 1 .. n |-> [c \in Copies |-> Handed(c, i)]]
<1>1. /\ k.initialised \in BOOLEAN
      /\ buffer \in Seq(Patch)
      /\ \A m : InQueue(m, buffer) => InQueue(m, k.pending) \/ InQueue(m, k.rest)
  <2>1. k.pending \in Seq(Patch) /\ k.rest \in Seq(Patch) /\ k.initialised \in BOOLEAN
    BY DEF Copies
  <2> QED BY <2>1, QueueJoined
<1>2. first \in Copies /\ first.pending = <<>> /\ first.rest = <<>>
      /\ first.seq = s.seq /\ first.value = s.value
  BY DEF AsSnapshot, Copies, Snapshots
<1>3. Replayed(k, s, breaks) = copies[n]
  BY DEF Replayed
<1> HIDE DEF first, buffer
<1>4. n \in Nat /\ \A i \in 1 .. n : buffer[i] \in Patch /\ InQueue(buffer[i], buffer)
  BY <1>1 DEF InQueue
<1>5. \A c \in Copies : \A i \in 1 .. n : Handed(c, i) \in Copies
  BY <1>1, <1>4, HandsOverGood
<1> HIDE DEF n, Handed
<1>6. Whole(copies)
  <2>1. \A i \in 1 .. n : F[i] \in [Copies -> Copies]
    BY <1>5
  <2>2. PICK g : MadeUpTo(g, Copies, first, n, F)
    <3> HIDE DEF F, Whole, copies
    <3> QED BY <1>2, <1>4, <2>1, StepByStep
  <2>3. /\ g \in [0 .. n -> Copies] /\ g[0] = first
        /\ \A i \in 1 .. n : g[i] = F[i][g[i - 1]]
    <3> HIDE DEF F
    <3> QED BY <2>2 DEF MadeUpTo
  <2>4. \A i \in 1 .. n : g[i] = Handed(g[i - 1], i)
    <3>1. \A i \in 1 .. n : g[i - 1] \in Copies
      BY <1>4, <2>3
    <3> QED BY <2>3, <3>1
  <2>5. g = [i \in 0 .. n |-> g[i]]
    BY <2>3
  <2>6. \A i \in 0 .. n : g[i] = IF i = 0 THEN first ELSE Handed(g[i - 1], i)
    <3>1. \A i \in 0 .. n : i = 0 \/ i \in 1 .. n
      BY <1>4
    <3> QED BY <2>3, <2>4, <3>1
  <2> HIDE DEF F
  <2>7. Whole(g)
    BY <2>5, <2>6
  <2> HIDE DEF Whole
  <2> QED BY <2>7
<1> HIDE DEF copies
<1>7. copies[0] = first /\ \A i \in 1 .. n : copies[i] = Handed(copies[i - 1], i)
  BY <1>4, <1>6
<1>8. copies[n] \in Copies
  <2> DEFINE G == {i \in 0 .. n : copies[i] \in Copies}
  <2>1. 0 \in G
    BY <1>2, <1>4, <1>7
  <2>2. \A i \in 1 .. n : i - 1 \in G => i \in G
    BY <1>4, <1>5, <1>7
  <2>3. n \in G
    <3> HIDE DEF G
    <3> QED BY <1>4, <2>1, <2>2, Upwards
  <2> QED BY <2>3
<1>9. ASSUME NEW values, GoodCopy(k, values), Shows(values, s.seq, s.value)
      PROVE  GoodCopy(copies[n], values)
  <2> DEFINE G == {i \in 0 .. n : copies[i] \in Copies /\ GoodCopy(copies[i], values)}
  <2>1. 0 \in G
    <3>1. GoodCopy(first, values)
      BY <1>2, <1>9, QueueItems DEF GoodCopy, AllShown
    <3> QED BY <1>2, <1>4, <1>7, <3>1
  <2>2. \A i \in 1 .. n : i - 1 \in G => i \in G
    <3>1. \A i \in 1 .. n : Shows(values, buffer[i].seq, buffer[i].value)
      BY <1>1, <1>4, <1>9 DEF GoodCopy, AllShown
    <3> SUFFICES ASSUME NEW i \in 1 .. n, i - 1 \in G
                 PROVE  copies[i] \in Copies /\ GoodCopy(copies[i], values)
      BY <1>4
    <3>2. PICK c \in Copies : c = copies[i - 1] /\ GoodCopy(c, values)
      OBVIOUS
    <3>3. PICK m \in Patch : m = buffer[i] /\ Shows(values, m.seq, m.value)
      BY <1>4, <3>1
    <3>4. copies[i] = HandsOver(k.initialised, c, m, breaks)
      BY <1>7, <3>2, <3>3 DEF Handed
    <3> QED BY <1>1, <3>2, <3>3, <3>4, HandsOverGood
  <2>3. n \in G
    <3> HIDE DEF G
    <3> QED BY <1>4, <2>1, <2>2, Upwards
  <2> QED BY <2>3
<1> QED BY <1>3, <1>8, <1>9

(* What a history shows it shows when it is longer. *)
LEMMA LaterAgrees ==
  ASSUME NEW values \in Seq(Value), NEW v \in Value, NEW k \in Copies \cup {Undefined},
         NEW patches, NEW befell
  PROVE  /\ \A n \in Nat : \A w : Shows(values, n, w) => Shows(Append(values, v), n, w)
         /\ AllShown(values, patches) => AllShown(Append(values, v), patches)
         /\ Agrees(k, patches, befell, values) => Agrees(k, patches, befell, Append(values, v))
<1>1. \A n \in Nat : \A w : Shows(values, n, w) => Shows(Append(values, v), n, w)
  BY DEF Shows
<1>2. \A q : AllShown(values, q) => AllShown(Append(values, v), q)
  BY <1>1 DEF AllShown, Patch
<1>3. ASSUME k # Undefined, GoodCopy(k, values)
      PROVE  GoodCopy(k, Append(values, v))
  <2>1. k.seq \in Nat
    BY <1>3 DEF Copies
  <2> QED BY <1>1, <1>2, <1>3, <2>1 DEF GoodCopy
<1> QED BY <1>1, <1>2, <1>3 DEF Agrees

(* What agrees with no value at all shows nothing, and agrees with all. *)
LEMMA NoneAgrees ==
  ASSUME NEW k \in Copies \cup {Undefined}, NEW patches, NEW befell, Agrees(k, patches, befell, <<>>)
  PROVE  \A values : Agrees(k, patches, befell, values)
<1>1. \A n \in Nat : \A w : ~Shows(<<>>, n, w)
  <2>1. Len(<<>>) = 0
    OBVIOUS
  <2> QED BY <2>1 DEF Shows
<1>2. \A values : \A q : AllShown(<<>>, q) => AllShown(values, q)
  BY <1>1 DEF AllShown, Patch
<1>3. ASSUME k # Undefined, GoodCopy(k, <<>>), NEW values
      PROVE  GoodCopy(k, values)
  <2>1. k.seq \in Nat /\ ~k.initialised
    BY <1>1, <1>3 DEF Copies, GoodCopy
  <2> QED BY <1>2, <1>3, <2>1 DEF GoodCopy
<1> QED BY <1>2, <1>3 DEF Agrees

(* A copy that was just made agrees with everything. *)
LEMMA FreshAgrees ==
  /\ Fresh \in Copies /\ Fresh # Undefined
  /\ \A k \in {Fresh, Undefined} : \A befell, values : Agrees(k, <<>>, befell, values)
<1>1. Fresh \in Copies
  BY DEF Fresh, Copies, Value
<1>2. Fresh.initialised = FALSE /\ Fresh.pending = <<>> /\ Fresh.rest = <<>>
  BY DEF Fresh
<1>3. ASSUME NEW values
      PROVE  GoodCopy(Fresh, values) /\ AllShown(values, <<>>)
  BY <1>2, QueueItems DEF GoodCopy, AllShown
<1> QED BY <1>1, <1>3, UndefinedAssumption DEF Agrees

-----------------------------------------------------------------------------
(* Steps of the element *)

(* What becomes of requests and answers when their copy is stopped. *)
LEMMA Strays ==
  /\ \A r \in Request : Stray(r) \in Request /\ Stray(r) # Undefined
  /\ \A r \in Request : \A j, k : GoodRequest(r, j) => GoodRequest(Stray(r), k)
  /\ Stray(Undefined) = Undefined
  /\ \A s \in Snapshots : /\ StrayAnswer(s) \in Snapshots
                          /\ StrayAnswer(s).request = Stray(s.request)
                          /\ StrayAnswer(s).seq = s.seq /\ StrayAnswer(s).value = s.value
<1>1. ASSUME NEW r \in Request
      PROVE  /\ Stray(r) \in Request /\ Stray(r) # Undefined
             /\ \A j, k : GoodRequest(r, j) => GoodRequest(Stray(r), k)
  <2>1. r # Undefined /\ \A q \in Request : q # Undefined
    BY UndefinedAssumption
  <2>2. CASE r.type = "fetch"
    <3>1. Stray(r) = Fetch(FALSE)
      BY <2>1, <2>2 DEF Stray
    <3>2. Fetch(FALSE) \in Request /\ \A k : GoodRequest(Fetch(FALSE), k)
      BY DEF Fetch, Request, GoodRequest
    <3> QED BY <2>1, <3>1, <3>2
  <2>3. CASE r.type # "fetch"
    <3>1. Stray(r) = r
      BY <2>3 DEF Stray
    <3> QED BY <2>1, <2>3, <3>1 DEF GoodRequest
  <2> QED BY <2>2, <2>3
<1>2. ASSUME NEW s \in Snapshots
      PROVE  /\ StrayAnswer(s) \in Snapshots
             /\ StrayAnswer(s).request = Stray(s.request)
             /\ StrayAnswer(s).seq = s.seq /\ StrayAnswer(s).value = s.value
  <2>1. s.request \in Request
    BY DEF Snapshots
  <2>2. Stray(s.request) \in Request
    BY <1>1, <2>1
  <2> QED BY <2>2 DEF Snapshots, StrayAnswer
<1>3. Stray(Undefined) = Undefined
  BY DEF Stray
<1> QED BY <1>1, <1>2, <1>3

LEMMA StrayQueue ==
  ASSUME NEW q \in Seq(Request), NEW p, p = [i \in DOMAIN q |-> Stray(q[i])]
  PROVE  /\ p \in Seq(Request) /\ (q = <<>> => p = <<>>)
         /\ \A y : InQueue(y, p) => \E x \in Request : InQueue(x, q) /\ y = Stray(x)
<1>1. \A i \in 1 .. Len(q) : q[i] \in Request /\ Stray(q[i]) \in Request
  BY Strays
<1>2. p = [i \in 1 .. Len(q) |-> Stray(q[i])] /\ Len(q) \in Nat
  OBVIOUS
<1>3. p \in Seq(Request) /\ Len(p) = Len(q) /\ \A i \in 1 .. Len(q) : p[i] = Stray(q[i])
  BY <1>1, <1>2
<1>4. q = <<>> => p = <<>>
  BY <1>3
<1> QED BY <1>1, <1>3, <1>4 DEF InQueue

LEMMA StrayWay ==
  \A q \in Seq(Request) : \E p :
     /\ p = [i \in DOMAIN q |-> Stray(q[i])]
     /\ p \in Seq(Request) /\ (q = <<>> => p = <<>>)
     /\ \A y : InQueue(y, p) => \E x \in Request : InQueue(x, q) /\ y = Stray(x)
  BY StrayQueue

LEMMA StrayAnswers ==
  ASSUME NEW q \in Seq(Snapshots), NEW p, p = [i \in DOMAIN q |-> StrayAnswer(q[i])]
  PROVE  /\ p \in Seq(Snapshots) /\ (q = <<>> => p = <<>>)
         /\ \A y : InQueue(y, p) => \E x \in Snapshots : InQueue(x, q) /\ y = StrayAnswer(x)
<1>1. \A i \in 1 .. Len(q) : q[i] \in Snapshots /\ StrayAnswer(q[i]) \in Snapshots
  BY Strays
<1>2. p = [i \in 1 .. Len(q) |-> StrayAnswer(q[i])] /\ Len(q) \in Nat
  OBVIOUS
<1>3. p \in Seq(Snapshots) /\ Len(p) = Len(q) /\ \A i \in 1 .. Len(q) : p[i] = StrayAnswer(q[i])
  BY <1>1, <1>2
<1>4. q = <<>> => p = <<>>
  BY <1>3
<1> QED BY <1>1, <1>3, <1>4 DEF InQueue

(* What the broker and the authorities have then. *)
LEMMA HandedForgotten ==
  ASSUME InterfaceTypeOK, ForgetHanded
  PROVE  /\ launching' \in [Authority -> Request \cup {Undefined}]
         /\ \A a \in Authority : /\ launching'[a] = Stray(launching[a])
                                 /\ launching[a] = Undefined <=> launching'[a] = Undefined
         /\ inbox' \in [Authority -> Seq(Request)]
         /\ \A a \in Authority :
              /\ inbox[a] = <<>> => inbox'[a] = <<>>
              /\ \A y : InQueue(y, inbox'[a]) => \E x \in Request : InQueue(x, inbox[a]) /\ y = Stray(x)
<1>1. launching' = [a \in Authority |-> Stray(launching[a])]
      /\ inbox' = [a \in Authority |-> [i \in DOMAIN inbox[a] |-> Stray(inbox[a][i])]]
  BY DEF ForgetHanded
<1>2. ASSUME NEW a \in Authority
      PROVE  /\ launching[a] = Undefined <=> Stray(launching[a]) = Undefined
             /\ Stray(launching[a]) \in Request \cup {Undefined}
  <2>1. launching[a] \in Request \cup {Undefined}
    BY DEF InterfaceTypeOK
  <2> QED BY <2>1, Strays
<1>3. ASSUME NEW a \in Authority
      PROVE  /\ inbox'[a] \in Seq(Request)
             /\ inbox[a] = <<>> => inbox'[a] = <<>>
             /\ \A y : InQueue(y, inbox'[a]) => \E x \in Request : InQueue(x, inbox[a]) /\ y = Stray(x)
  <2>1. inbox[a] \in Seq(Request) /\ inbox'[a] = [i \in DOMAIN inbox[a] |-> Stray(inbox[a][i])]
    BY <1>1 DEF InterfaceTypeOK
  <2> QED BY <2>1, StrayQueue
<1>4. inbox' \in [Authority -> Seq(Request)]
  BY <1>1, <1>3
<1>5. launching' \in [Authority -> Request \cup {Undefined}]
  BY <1>1, <1>2
<1>6. \A a \in Authority : /\ launching'[a] = Stray(launching[a])
                           /\ launching[a] = Undefined <=> launching'[a] = Undefined
  BY <1>1, <1>2
<1> QED BY <1>3, <1>4, <1>5, <1>6

LEMMA DownForgotten ==
  ASSUME InterfaceTypeOK, Forget
  PROVE  /\ down' \in [Authority -> Seq(Snapshots)]
         /\ \A a \in Authority :
              /\ down[a] = <<>> => down'[a] = <<>>
              /\ \A y : InQueue(y, down'[a]) =>
                          \E x \in Snapshots : InQueue(x, down[a]) /\ y = StrayAnswer(x)
<1>1. down' = [a \in Authority |-> [i \in DOMAIN down[a] |-> StrayAnswer(down[a][i])]]
  BY DEF Forget
<1>2. ASSUME NEW a \in Authority
      PROVE  /\ down'[a] \in Seq(Snapshots)
             /\ down[a] = <<>> => down'[a] = <<>>
             /\ \A y : InQueue(y, down'[a]) =>
                         \E x \in Snapshots : InQueue(x, down[a]) /\ y = StrayAnswer(x)
  <2>1. down[a] \in Seq(Snapshots) /\ down'[a] = [i \in DOMAIN down[a] |-> StrayAnswer(down[a][i])]
    BY <1>1 DEF InterfaceTypeOK
  <2> QED BY <2>1, StrayAnswers
<1>3. down' \in [Authority -> Seq(Snapshots)]
  BY <1>1, <1>2
<1> QED BY <1>2, <1>3

(* What the steps of the element have in common: at most another bus. *)
ElementMoves ==
  /\ UNCHANGED <<initial, log, owner, current>>
  /\ standing' \in [Proposal -> {"new", "reading", "done"}]
  /\ connected' \in BOOLEAN /\ configured' \in BOOLEAN /\ changed' \in BOOLEAN /\ consumers' \in Nat
  /\ connected' => consumers' > 0
  /\ \/ busClient' = busClient /\ buses' = buses
     \/ busClient = Undefined /\ busClient' = buses + 1 /\ buses' = buses + 1

LEMMA OtherBus ==
  ASSUME InterfaceInv, ElementMoves
  PROVE  /\ BusInv'
         /\ busClient' \in Nat \cup {Undefined} /\ buses' \in Nat
         /\ busClient' = Undefined => busClient = Undefined
         /\ \A a \in Authority : Own(a)' <=> Own(a)
<1>1. /\ BusInv /\ buses \in Nat /\ busClient \in Nat \cup {Undefined}
      /\ owner \in [Authority -> Nat \cup {Undefined}] /\ owner' = owner
      /\ Undefined \notin Nat
  BY UndefinedAssumption DEF InterfaceInv, InterfaceTypeOK, ElementMoves
<1>2. CASE busClient' = busClient /\ buses' = buses
  BY <1>1, <1>2 DEF BusInv, Own
<1>3. CASE busClient = Undefined /\ busClient' = buses + 1 /\ buses' = buses + 1
  <2>1. \A a \in Authority : owner[a] # Undefined => owner[a] \in Nat /\ owner[a] <= buses
    BY <1>1 DEF BusInv
  <2> QED BY <1>1, <1>3, <2>1 DEF BusInv, Own
<1> QED BY <1>2, <1>3 DEF ElementMoves

(* An element that leaves its copy alone. *)
LEMMA KeptInv ==
  ASSUME InterfaceInv, ElementMoves,
         UNCHANGED <<copy, channel, mishaps, up, launching, inbox, down>>,
         copy # Undefined => connected'
  PROVE  InterfaceInv'
<1>1. UNCHANGED <<initial, log, owner, current>>
  BY DEF ElementMoves
<1>2. /\ BusInv' /\ busClient' \in Nat \cup {Undefined} /\ buses' \in Nat
      /\ busClient' = Undefined => busClient = Undefined
      /\ \A a \in Authority : Own(a)' <=> Own(a)
  BY OtherBus
<1>3. /\ InterfaceTypeOK /\ ElementInv /\ RequestInv /\ BusInv /\ LogInv /\ SnapshotInv /\ AgreeInv
  BY DEF InterfaceInv
<1>4. InterfaceTypeOK'
  BY <1>1, <1>2, <1>3 DEF InterfaceTypeOK, ElementMoves
<1>5. ElementInv'
  BY <1>1, <1>2, <1>3 DEF ElementInv, ElementMoves
<1>6. RequestInv'
  BY <1>3 DEF RequestInv, UnderWay
<1>7. LogInv'
  <2>1. current # Undefined => current \in Authority
    BY <1>3 DEF InterfaceTypeOK
  <2> QED BY <1>1, <1>2, <1>3, <2>1 DEF LogInv
<1>8. SnapshotInv'
  BY <1>1, <1>2, <1>3 DEF SnapshotInv
<1>9. AgreeInv'
  <2>1. \A a \in Authority : There(a)' <=> There(a)
    BY <1>1, <1>2 DEF There
  <2>2. \A a \in Authority : Alone(a)' <=> Alone(a)
    BY <2>1 DEF Alone
  <2> QED BY <1>1, <1>3, <2>1, <2>2 DEF AgreeInv
<1> QED BY <1>2, <1>4, <1>5, <1>6, <1>7, <1>8, <1>9 DEF InterfaceInv

(* An element that makes another copy, or none, or gives up a fetch. *)
LEMMA ForgottenInv ==
  ASSUME InterfaceInv, ElementMoves, Forget,
         NEW fetches \in Seq(Request), up' = StrayUp \o fetches,
         \A r : InQueue(r, fetches) => GoodRequest(r, copy'),
         busClient' = Undefined => fetches = <<>>,
         copy' \in Copies \cup {Undefined}, channel' \in Seq(Patch), mishaps' \subseteq Mishap,
         copy' # Undefined => connected' /\ busClient' # Undefined,
         copy' = Undefined => channel' = <<>>,
         \A values : Agrees(copy, channel, mishaps, values) => Agrees(copy', channel', mishaps', values)
  PROVE  InterfaceInv'
<1>1. UNCHANGED <<initial, log, owner, current>>
  BY DEF ElementMoves
<1>2. /\ BusInv' /\ busClient' \in Nat \cup {Undefined} /\ buses' \in Nat
      /\ busClient' = Undefined => busClient = Undefined
      /\ \A a \in Authority : Own(a)' <=> Own(a)
  BY OtherBus
<1>3. /\ InterfaceTypeOK /\ ElementInv /\ RequestInv /\ BusInv /\ LogInv /\ SnapshotInv /\ AgreeInv
  BY DEF InterfaceInv
<1>4. /\ launching' \in [Authority -> Request \cup {Undefined}]
      /\ \A a \in Authority : /\ launching'[a] = Stray(launching[a])
                              /\ launching[a] = Undefined <=> launching'[a] = Undefined
      /\ inbox' \in [Authority -> Seq(Request)]
      /\ \A a \in Authority :
           /\ inbox[a] = <<>> => inbox'[a] = <<>>
           /\ \A y : InQueue(y, inbox'[a]) => \E x \in Request : InQueue(x, inbox[a]) /\ y = Stray(x)
  BY <1>3, HandedForgotten DEF Forget
<1>5. /\ down' \in [Authority -> Seq(Snapshots)]
      /\ \A a \in Authority :
           /\ down[a] = <<>> => down'[a] = <<>>
           /\ \A y : InQueue(y, down'[a]) =>
                       \E x \in Snapshots : InQueue(x, down[a]) /\ y = StrayAnswer(x)
  BY <1>3, DownForgotten
<1>6. /\ up' \in Seq(Request) /\ (up = <<>> /\ fetches = <<>> => up' = <<>>)
      /\ \A y : InQueue(y, up') => \/ \E x \in Request : InQueue(x, up) /\ y = Stray(x)
                                   \/ InQueue(y, fetches)
  <2>1. up \in Seq(Request)
    BY <1>3 DEF InterfaceTypeOK
  <2>2. PICK strays :
          /\ strays = StrayUp
          /\ strays \in Seq(Request) /\ (up = <<>> => strays = <<>>)
          /\ \A y : InQueue(y, strays) => \E x \in Request : InQueue(x, up) /\ y = Stray(x)
    BY <2>1, StrayWay, Zenon DEF StrayUp
  <2>3. strays \o fetches \in Seq(Request)
        /\ \A y : InQueue(y, strays \o fetches) => InQueue(y, strays) \/ InQueue(y, fetches)
    BY <2>2, QueueJoined
  <2>4. up' = strays \o fetches
    BY <2>2
  <2> QED BY <2>2, <2>3, <2>4
<1>7. InterfaceTypeOK'
  BY <1>1, <1>2, <1>3, <1>4, <1>5, <1>6 DEF InterfaceTypeOK, ElementMoves
<1>8. ElementInv'
  <2>1. busClient' = Undefined => up' = <<>> /\ current' = Undefined
                                  /\ \A a \in Authority : down'[a] = <<>>
    BY <1>1, <1>2, <1>3, <1>5, <1>6 DEF ElementInv
  <2> QED BY <2>1 DEF ElementInv, ElementMoves
<1>9. RequestInv'
  <2> SUFFICES ASSUME NEW r \in Request, UnderWay(r)'
               PROVE  GoodRequest(r, copy')
    BY DEF RequestInv
  <2>1. CASE \E x \in Request : UnderWay(x) /\ r = Stray(x)
    BY <1>3, <2>1, Strays DEF RequestInv
  <2>2. CASE InQueue(r, up')
    BY <1>6, <2>1, <2>2 DEF UnderWay
  <2>3. ASSUME NEW a \in Authority, r = launching'[a]
        PROVE  GoodRequest(r, copy')
    <3>1. launching[a] \in Request
      BY <1>3, <1>4, <2>3, UndefinedAssumption DEF InterfaceTypeOK
    <3> QED BY <1>4, <2>1, <2>3, <3>1 DEF UnderWay
  <2>4. ASSUME NEW a \in Authority, InQueue(r, inbox'[a])
        PROVE  GoodRequest(r, copy')
    BY <1>4, <2>1, <2>4 DEF UnderWay
  <2>5. ASSUME NEW a \in Authority, NEW s \in Snapshots, InQueue(s, down'[a]), r = s.request
        PROVE  GoodRequest(r, copy')
    <3>1. PICK x \in Snapshots : InQueue(x, down[a]) /\ s = StrayAnswer(x)
      BY <1>5, <2>5
    <3>2. r = Stray(x.request) /\ x.request \in Request
      BY <2>5, <3>1, Strays DEF Snapshots
    <3> QED BY <2>1, <3>1, <3>2 DEF UnderWay
  <2> QED BY <2>2, <2>3, <2>4, <2>5 DEF UnderWay
<1>10. LogInv'
  <2>1. current # Undefined => current \in Authority
    BY <1>3 DEF InterfaceTypeOK
  <2> QED BY <1>1, <1>2, <1>3, <1>4, <2>1 DEF LogInv
<1>11. SnapshotInv'
  <2> SUFFICES ASSUME NEW a \in Authority, NEW s \in Snapshots, InQueue(s, down'[a])
               PROVE  Own(a)' /\ Shows(log'[a], s.seq, s.value)
    BY DEF SnapshotInv
  <2>1. PICK x \in Snapshots : InQueue(x, down[a]) /\ s = StrayAnswer(x)
    BY <1>5
  <2>2. s.seq = x.seq /\ s.value = x.value
    BY <2>1, Strays
  <2>3. Own(a) /\ Shows(log[a], x.seq, x.value)
    BY <1>3, <2>1 DEF SnapshotInv
  <2> QED BY <1>1, <1>2, <2>2, <2>3
<1>12. AgreeInv'
  <2>1. \A a \in Authority : There(a)' <=> There(a)
    BY <1>1, <1>2 DEF There
  <2>2. \A a \in Authority : Alone(a)' <=> Alone(a)
    BY <2>1 DEF Alone
  <2> QED BY <1>1, <1>3, <2>1, <2>2 DEF AgreeInv
<1> QED BY <1>2, <1>7, <1>8, <1>9, <1>10, <1>11, <1>12 DEF InterfaceInv

(* A copy that is made anew, once or more in a row. *)
LEMMA RenewedInv ==
  ASSUME InterfaceInv, ElementMoves, connected' = TRUE,
         NEW times \in Nat, times > 0, Restart(times), Requests(times)
  PROVE  InterfaceInv'
<1> DEFINE fetches == IF busClient' # Undefined /\ configured'
                        THEN [i \in 1 .. times |-> Fetch(i = times)] ELSE <<>>
<1>1. \A i \in 1 .. times : Fetch(i = times) \in Request
  BY DEF Fetch, Request
<1>2. fetches \in Seq(Request)
  BY <1>1
<1>3. \A i \in 1 .. Len(fetches) :
        fetches[i].type = "fetch" /\ busClient' # Undefined /\ configured'
  BY DEF Fetch
<1>4. up' = StrayUp \o fetches /\ Forget
  <2>1. times # 0
    OBVIOUS
  <2> QED BY <2>1 DEF Requests
<1>5. busClient' = Undefined => fetches = <<>>
  OBVIOUS
<1>6. /\ channel' = <<>> /\ mishaps' = {}
      /\ copy' = IF busClient' # Undefined /\ configured' THEN Fresh ELSE Undefined
  BY DEF Restart
<1> HIDE DEF fetches
<1>7. \A r : InQueue(r, fetches) => GoodRequest(r, copy')
  BY <1>3, <1>6, FreshAgrees DEF InQueue, GoodRequest
<1>8. /\ copy' \in Copies \cup {Undefined} /\ channel' \in Seq(Patch) /\ mishaps' \subseteq Mishap
      /\ copy' # Undefined => connected' /\ busClient' # Undefined
      /\ copy' = Undefined => channel' = <<>>
      /\ \A values : Agrees(copy', channel', mishaps', values)
  BY <1>6, FreshAgrees
<1> QED BY <1>2, <1>4, <1>5, <1>7, <1>8, ForgottenInv

(* The steps of the element, and a bus that starts. *)
LEMMA ElementSteps ==
  ASSUME InterfaceInv,
         ConnectedCallback \/ DisconnectedCallback \/ SetOptions \/ Updated \/ BusStarts
  PROVE  InterfaceInv'
<1>1. InterfaceTypeOK /\ ElementInv
  BY DEF InterfaceInv
<1>2. Undefined \notin Nat
  BY UndefinedAssumption
<1> USE DEF brokerVars, elementVars, authorityVars
<1>4. CASE ConnectedCallback
  <2>1. consumers + 1 \in Nat /\ consumers + 1 > 0
    BY <1>1 DEF InterfaceTypeOK
  <2>2. Restart(consumers + 1) /\ Requests(consumers + 1) /\ connected' = TRUE
    BY <1>4 DEF ConnectedCallback
  <2>3. ElementMoves
    BY <1>1, <1>4 DEF ConnectedCallback, ElementMoves, InterfaceTypeOK
  <2> QED BY <2>1, <2>2, <2>3, RenewedInv
<1>5. CASE DisconnectedCallback
  <2>1. ElementMoves
    BY <1>1, <1>5 DEF DisconnectedCallback, ElementMoves, InterfaceTypeOK
  <2>2. up' = StrayUp \o <<>> /\ Forget
    <3>1. PICK strays : strays = StrayUp /\ strays \in Seq(Request)
      <4>1. up \in Seq(Request)
        BY <1>1 DEF InterfaceTypeOK
      <4> QED BY <4>1, StrayWay, Zenon DEF StrayUp
    <3>2. strays \o <<>> = strays
      BY <3>1
    <3> QED BY <1>5, <3>1, <3>2 DEF DisconnectedCallback
  <2>3. /\ copy' = Undefined /\ channel' = <<>> /\ mishaps' = {} /\ <<>> \in Seq(Request)
        /\ \A r : ~InQueue(r, <<>>)
    BY <1>5, QueueItems DEF DisconnectedCallback
  <2>4. \A values : Agrees(copy', channel', mishaps', values)
    BY <2>3, FreshAgrees
  <2>5. /\ copy' \in Copies \cup {Undefined} /\ channel' \in Seq(Patch) /\ mishaps' \subseteq Mishap
        /\ ~(copy' # Undefined) /\ channel' = <<>>
    BY <2>3
  <2>6. PICK fetches \in Seq(Request) : fetches = <<>>
    BY <2>3
  <2> QED BY <2>1, <2>2, <2>3, <2>4, <2>5, <2>6, ForgottenInv
<1>6. CASE SetOptions
  <2>1. ElementMoves
    BY <1>1, <1>6 DEF SetOptions, ElementMoves, InterfaceTypeOK, ElementInv
  <2>2. UNCHANGED <<copy, channel, mishaps, up, launching, inbox, down>> /\ connected' = connected
    BY <1>6 DEF SetOptions
  <2> QED BY <1>1, <2>1, <2>2, KeptInv DEF ElementInv
<1>7. CASE Updated
  <2>1. ElementMoves
    BY <1>1, <1>7 DEF Updated, ElementMoves, InterfaceTypeOK, ElementInv
  <2>2. CASE connected
    <3>1. Restart(1) /\ Requests(1) /\ connected' = TRUE
      BY <1>1, <1>7, <2>2 DEF Updated, InterfaceTypeOK
    <3> QED BY <2>1, <3>1, RenewedInv
  <2>3. CASE ~connected
    <3>1. Restart(0) /\ Requests(0)
      BY <1>7, <2>3 DEF Updated
    <3>2. UNCHANGED <<copy, channel, mishaps, up, launching, inbox, down>> /\ copy = Undefined
      BY <1>1, <2>3, <3>1 DEF Restart, Requests, ElementInv
    <3> QED BY <2>1, <3>2, KeptInv
  <2> QED BY <2>2, <2>3
<1>8. CASE BusStarts
  <2>1. ElementMoves
    BY <1>1, <1>8 DEF BusStarts, ElementMoves, InterfaceTypeOK, ElementInv
  <2>2. CASE connected
    <3>1. Listening \in Nat /\ Listening > 0
      BY <1>1, <2>2 DEF Listening, InterfaceTypeOK, ElementInv
    <3>2. Restart(Listening) /\ Requests(Listening) /\ connected' = TRUE
      BY <1>1, <1>8, <2>2 DEF BusStarts, InterfaceTypeOK
    <3> HIDE DEF Listening
    <3> QED BY <2>1, <3>1, <3>2, RenewedInv
  <2>3. CASE ~connected
    <3>1. Restart(0) /\ Requests(0)
      BY <1>8, <2>3 DEF BusStarts, Listening
    <3>2. UNCHANGED <<copy, channel, mishaps, up, launching, inbox, down>> /\ copy = Undefined
      BY <1>1, <2>3, <3>1 DEF Restart, Requests, ElementInv
    <3> QED BY <2>1, <3>2, KeptInv
  <2> QED BY <2>2, <2>3
<1> QED BY <1>4, <1>5, <1>6, <1>7, <1>8

(* The timer of a fetch. *)
LEMMA FetchTimesOutInv ==
  ASSUME InterfaceInv, FetchTimesOut
  PROVE  InterfaceInv'
<1>1. InterfaceTypeOK /\ ElementInv
  BY DEF InterfaceInv
<1>2. ElementMoves
  BY <1>1 DEF FetchTimesOut, ElementMoves, InterfaceTypeOK, ElementInv
<1>3. /\ copy \in Copies /\ copy # Undefined
      /\ copy' = [copy EXCEPT !.refetching = FALSE, !.rest = <<>>]
      /\ mishaps' = mishaps \cup {"timedOut"} /\ Forget /\ up' = StrayUp
      /\ UNCHANGED <<channel, connected, busClient>>
  BY <1>1 DEF FetchTimesOut, AwaitsSnapshot, InterfaceTypeOK
<1>4. up' = StrayUp \o <<>>
  <2>1. PICK strays : strays = StrayUp /\ strays \in Seq(Request)
    <3>1. up \in Seq(Request)
      BY <1>1 DEF InterfaceTypeOK
    <3> QED BY <3>1, StrayWay, Zenon DEF StrayUp
  <2>2. strays \o <<>> = strays
    BY <2>1
  <2> QED BY <1>3, <2>1, <2>2
<1>5. /\ copy' \in Copies /\ copy' # Undefined /\ copy'.rest = <<>>
      /\ copy'.initialised = copy.initialised /\ copy'.pending = copy.pending
      /\ copy'.seq = copy.seq /\ copy'.value = copy.value
  <2>1. /\ copy.value \in Value /\ copy.seq \in Nat /\ copy.initialised \in BOOLEAN
        /\ copy.pending \in Seq(Patch) /\ <<>> \in Seq(Patch)
    BY <1>3 DEF Copies
  <2>2. copy' = [value |-> copy.value, seq |-> copy.seq, initialised |-> copy.initialised,
                 pending |-> copy.pending, refetching |-> FALSE, rest |-> <<>>]
    BY <1>3 DEF Copies
  <2>3. copy' \in Copies
    BY <2>1, <2>2 DEF Copies
  <2> QED BY <2>2, <2>3, UndefinedAssumption
<1>6. mishaps' \subseteq Mishap /\ channel' \in Seq(Patch)
  BY <1>1, <1>3 DEF InterfaceTypeOK, Mishap
<1>7. ASSUME NEW values, Agrees(copy, channel, mishaps, values)
      PROVE  Agrees(copy', channel', mishaps', values)
  <2>1. CASE "intruded" \in mishaps
    BY <1>3, <2>1 DEF Agrees
  <2>2. CASE GoodCopy(copy, values) /\ AllShown(values, channel)
    <3>1. GoodCopy(copy', values)
      BY <1>5, <2>2, QueueItems DEF GoodCopy, AllShown
    <3> QED BY <1>3, <2>2, <3>1 DEF Agrees
  <2> QED BY <1>3, <1>7, <2>1, <2>2 DEF Agrees
<1>8. connected' /\ busClient' # Undefined
  BY <1>1, <1>3 DEF ElementInv, InterfaceTypeOK
<1>9. <<>> \in Seq(Request) /\ \A r : ~InQueue(r, <<>>)
  BY QueueItems
<1> QED BY <1>2, <1>3, <1>4, <1>5, <1>6, <1>7, <1>8, <1>9, ForgottenInv

(* A bus that stops. *)
LEMMA BusStopsInv ==
  ASSUME InterfaceInv, BusStops
  PROVE  InterfaceInv'
<1>1. /\ InterfaceTypeOK /\ ElementInv /\ RequestInv /\ BusInv /\ LogInv
  BY DEF InterfaceInv
<1>2. /\ busClient' = Undefined /\ current' = Undefined /\ up' = <<>> /\ ForgetHanded
      /\ down' = [a \in Authority |-> <<>>]
      /\ UNCHANGED <<connected, configured, changed, consumers, initial, log, owner, buses>>
  BY DEF BusStops
<1>3. copy' = Undefined /\ channel' = <<>> /\ mishaps' \subseteq Mishap
  <2>1. Restart(Listening)
    BY DEF BusStops
  <2>2. CASE Listening = 0
    <3>1. ~connected
      BY <1>1, <2>2 DEF Listening, ElementInv, InterfaceTypeOK
    <3> QED BY <1>1, <2>1, <2>2, <3>1 DEF Restart, ElementInv, InterfaceTypeOK
  <2>3. CASE Listening # 0
    BY <1>2, <2>1, <2>3 DEF Restart
  <2> QED BY <2>2, <2>3
<1>4. /\ launching' \in [Authority -> Request \cup {Undefined}]
      /\ \A a \in Authority : /\ launching'[a] = Stray(launching[a])
                              /\ launching[a] = Undefined <=> launching'[a] = Undefined
      /\ inbox' \in [Authority -> Seq(Request)]
      /\ \A a \in Authority :
           /\ inbox[a] = <<>> => inbox'[a] = <<>>
           /\ \A y : InQueue(y, inbox'[a]) => \E x \in Request : InQueue(x, inbox[a]) /\ y = Stray(x)
  BY <1>1, <1>2, HandedForgotten
<1>5. InterfaceTypeOK'
  <2>1. /\ channel' \in Seq(Patch) /\ up' \in Seq(Request)
        /\ down' \in [Authority -> Seq(Snapshots)]
    BY <1>2, <1>3
  <2>2. standing' \in [Proposal -> {"new", "reading", "done"}]
    BY <1>1 DEF BusStops, InterfaceTypeOK
  <2> QED BY <1>1, <1>2, <1>3, <1>4, <2>1, <2>2 DEF InterfaceTypeOK
<1>6. ElementInv'
  BY <1>1, <1>2, <1>3 DEF ElementInv
<1>7. RequestInv'
  <2> SUFFICES ASSUME NEW r \in Request, UnderWay(r)'
               PROVE  GoodRequest(r, copy')
    BY DEF RequestInv
  <2>1. \E x \in Request : UnderWay(x) /\ r = Stray(x)
    <3>1. ~InQueue(r, up') /\ \A a \in Authority : \A s : ~InQueue(s, down'[a])
      BY <1>2, QueueItems
    <3>2. ASSUME NEW a \in Authority, r = launching'[a]
          PROVE  launching[a] \in Request
      BY <1>1, <1>4, <3>2, UndefinedAssumption DEF InterfaceTypeOK
    <3> QED BY <1>4, <3>1, <3>2 DEF UnderWay
  <2> QED BY <1>1, <2>1, Strays DEF RequestInv
<1>8. BusInv' /\ LogInv'
  BY <1>1, <1>2, <1>4 DEF BusInv, LogInv
<1>9. SnapshotInv'
  BY <1>2, QueueItems DEF SnapshotInv
<1>10. AgreeInv'
  <2>1. \A a \in Authority : ~There(a)'
    BY <1>2 DEF There, Own
  <2>2. Agrees(copy', channel', mishaps', <<>>)
    BY <1>3, FreshAgrees
  <2> QED BY <1>2, <2>1, <2>2 DEF AgreeInv, Alone
<1> QED BY <1>5, <1>6, <1>7, <1>8, <1>9, <1>10 DEF InterfaceInv

-----------------------------------------------------------------------------
(* Steps of the copy, and of who proposes *)

(* An answer is taken, and nothing else goes from the authorities to the page. *)
LEMMA AnsweredDown ==
  ASSUME InterfaceTypeOK,
         down' = down \/ \E a \in Authority : down[a] # <<>> /\ Answered(a)
  PROVE  /\ down' \in [Authority -> Seq(Snapshots)]
         /\ \A a \in Authority : /\ \A s : InQueue(s, down'[a]) => InQueue(s, down[a])
                                 /\ down[a] = <<>> => down'[a] = <<>>
<1>1. down \in [Authority -> Seq(Snapshots)]
  BY DEF InterfaceTypeOK
<1>2. CASE down' = down
  BY <1>1, <1>2
<1>3. ASSUME NEW a \in Authority, down[a] # <<>>, Answered(a)
      PROVE  /\ down' \in [Authority -> Seq(Snapshots)]
             /\ \A b \in Authority : /\ \A s : InQueue(s, down'[b]) => InQueue(s, down[b])
                                     /\ down[b] = <<>> => down'[b] = <<>>
  <2>1. PICK q \in Seq(Snapshots) : q = Tail(down[a]) /\ \A y : InQueue(y, q) => InQueue(y, down[a])
    <3>1. down[a] \in Seq(Snapshots)
      BY <1>1
    <3> QED BY <1>3, <3>1, QueueTaken
  <2>2. down' = [down EXCEPT ![a] = q]
    BY <1>3, <2>1 DEF Answered
  <2> QED BY <1>1, <1>3, <2>1, <2>2
<1> QED BY <1>2, <1>3

(* A step in which the page takes something in, or asks for something. *)
LEMMA TakenInv ==
  ASSUME InterfaceInv, AgreeInv',
         UNCHANGED <<connected, configured, changed, consumers, mishaps, busClient, initial,
                     authorityVars, current, buses>>,
         standing' \in [Proposal -> {"new", "reading", "done"}],
         copy' = copy \/ (copy \in Copies /\ copy' \in Copies),
         channel' \in Seq(Patch), channel = <<>> => channel' = <<>>,
         down' = down \/ \E a \in Authority : down[a] # <<>> /\ Answered(a),
         \/ up' = up
         \/ /\ busClient # Undefined
            /\ \E r \in Request : up' = Append(up, r) /\ GoodRequest(r, copy')
  PROVE  InterfaceInv'
<1>1. /\ InterfaceTypeOK /\ ElementInv /\ RequestInv /\ BusInv /\ LogInv /\ SnapshotInv
  BY DEF InterfaceInv
<1>2. UNCHANGED <<connected, configured, changed, consumers, mishaps, busClient, initial,
                  log, owner, launching, inbox, current, buses>>
  BY DEF authorityVars
<1>3. /\ up' \in Seq(Request)
      /\ \A y : InQueue(y, up') => InQueue(y, up) \/ GoodRequest(y, copy')
  <2>1. up \in Seq(Request)
    BY <1>1 DEF InterfaceTypeOK
  <2>2. ASSUME NEW r \in Request, up' = Append(up, r), GoodRequest(r, copy')
        PROVE  /\ up' \in Seq(Request)
               /\ \A y : InQueue(y, up') => InQueue(y, up) \/ GoodRequest(y, copy')
    BY <2>1, <2>2, QueueGrows
  <2> QED BY <2>1, <2>2
<1>4. /\ down' \in [Authority -> Seq(Snapshots)]
      /\ \A a \in Authority : /\ \A s : InQueue(s, down'[a]) => InQueue(s, down[a])
                              /\ down[a] = <<>> => down'[a] = <<>>
  BY <1>1, AnsweredDown
<1>5. copy' # Undefined <=> copy # Undefined
  BY UndefinedAssumption
<1>6. InterfaceTypeOK'
  BY <1>1, <1>2, <1>3, <1>4 DEF InterfaceTypeOK
<1>7. ElementInv'
  BY <1>1, <1>2, <1>4, <1>5 DEF ElementInv
<1>8. RequestInv'
  <2>1. ASSUME NEW r \in Request, GoodRequest(r, copy)
        PROVE  GoodRequest(r, copy')
    BY <2>1 DEF GoodRequest
  <2>2. \A r \in Request : UnderWay(r)' => UnderWay(r) \/ GoodRequest(r, copy')
    BY <1>2, <1>3, <1>4 DEF UnderWay
  <2> QED BY <1>1, <2>1, <2>2 DEF RequestInv
<1>9. BusInv' /\ LogInv' /\ SnapshotInv'
  BY <1>1, <1>2, <1>4 DEF BusInv, LogInv, SnapshotInv, Own
<1> QED BY <1>6, <1>7, <1>8, <1>9 DEF InterfaceInv

(* As long as the authorities stay as they are, all depends on the copy. *)
LEMMA SameHistories ==
  ASSUME AgreeInv, UNCHANGED <<log, owner, current, busClient>>,
         \A values : Agrees(copy, channel, mishaps, values) => Agrees(copy', channel', mishaps', values)
  PROVE  AgreeInv'
<1>1. \A a \in Authority : There(a)' <=> There(a)
  BY DEF There, Own
<1>2. \A a \in Authority : Alone(a)' <=> Alone(a)
  BY <1>1 DEF Alone
<1> QED BY <1>1, <1>2 DEF AgreeInv

(* A message of the channel. *)
LEMMA ReceivePatchInv ==
  ASSUME InterfaceInv, ReceivePatch
  PROVE  InterfaceInv'
<1>1. InterfaceTypeOK /\ ElementInv /\ AgreeInv
  BY DEF InterfaceInv
<1>2. /\ copy \in Copies /\ copy # Undefined /\ channel \in Seq(Patch) /\ channel # <<>>
      /\ channel' = Tail(channel)
      /\ UNCHANGED <<connected, configured, changed, consumers, mishaps, busClient, initial,
                     authorityVars, current, down, standing, buses>>
  BY <1>1 DEF ReceivePatch, InterfaceTypeOK
<1>3. PICK breaks \in BOOLEAN : Becomes(Receives(copy, Head(channel), breaks))
  BY DEF ReceivePatch
<1>4. /\ Head(channel) \in Patch /\ InQueue(Head(channel), channel) /\ Tail(channel) \in Seq(Patch)
      /\ \A y : InQueue(y, Tail(channel)) => InQueue(y, channel)
  BY <1>2, QueueTaken
<1>5. copy' = Receives(copy, Head(channel), breaks) /\ copy' \in Copies
  BY <1>2, <1>3, <1>4, ReceivesGood DEF Becomes
<1>6. up' = up \/ up' = Append(up, Fetch(TRUE))
  BY <1>3 DEF Becomes
<1>7. Fetch(TRUE) \in Request /\ GoodRequest(Fetch(TRUE), copy')
  BY <1>5 DEF Fetch, Request, GoodRequest
<1>8. busClient # Undefined
  BY <1>1, <1>2 DEF ElementInv
<1>9. AgreeInv'
  <2>1. ASSUME NEW values, Agrees(copy, channel, mishaps, values)
        PROVE  Agrees(copy', channel', mishaps', values)
    <3>1. CASE "intruded" \in mishaps
      BY <1>2, <3>1 DEF Agrees
    <3>2. CASE GoodCopy(copy, values) /\ AllShown(values, channel)
      <4>1. Shows(values, Head(channel).seq, Head(channel).value) /\ AllShown(values, Tail(channel))
        BY <1>4, <3>2 DEF AllShown
      <4>2. GoodCopy(copy', values)
        BY <1>2, <1>4, <1>5, <3>2, <4>1, ReceivesGood
      <4> QED BY <1>2, <4>1, <4>2 DEF Agrees
    <3> QED BY <1>2, <2>1, <3>1, <3>2 DEF Agrees
  <2>2. UNCHANGED <<log, owner, current, busClient>>
    BY <1>2 DEF authorityVars
  <2> QED BY <1>1, <2>1, <2>2, SameHistories
<1>10. standing' \in [Proposal -> {"new", "reading", "done"}]
  BY <1>1, <1>2 DEF InterfaceTypeOK
<1> QED BY <1>2, <1>4, <1>5, <1>6, <1>7, <1>8, <1>9, <1>10, TakenInv

(* A snapshot. *)
LEMMA ReceiveSnapshotInv ==
  ASSUME InterfaceInv, NEW a \in Authority, ReceiveSnapshot(a)
  PROVE  InterfaceInv'
<1>1. InterfaceTypeOK /\ ElementInv /\ RequestInv /\ SnapshotInv /\ AgreeInv
  BY DEF InterfaceInv
<1>2. /\ down[a] \in Seq(Snapshots) /\ down[a] # <<>> /\ Answered(a)
      /\ UNCHANGED <<connected, configured, changed, consumers, channel, mishaps, busClient, initial,
                     authorityVars, current, standing, buses>>
  BY <1>1 DEF ReceiveSnapshot, InterfaceTypeOK
<1>3. PICK s \in Snapshots : s = Head(down[a]) /\ InQueue(s, down[a])
  BY <1>2, QueueTaken
<1>4. /\ s.request \in Request /\ GoodRequest(s.request, copy) /\ s.request.type = "fetch"
      /\ Own(a) /\ Shows(log[a], s.seq, s.value) /\ busClient # Undefined
  <2>1. s.request \in Request /\ s.request.type = "fetch"
    BY <1>3 DEF ReceiveSnapshot, Snapshots
  <2>2. UnderWay(s.request)
    BY <1>3 DEF UnderWay
  <2> QED BY <1>1, <1>3, <2>1, <2>2 DEF RequestInv, SnapshotInv, Own
<1>5. standing' \in [Proposal -> {"new", "reading", "done"}] /\ channel' \in Seq(Patch)
  BY <1>1, <1>2 DEF InterfaceTypeOK
<1>6. UNCHANGED <<log, owner, current, busClient>>
  BY <1>2 DEF authorityVars
<1>7. CASE s.request.live
  <2>1. PICK breaks \in BOOLEAN : LET k == Replayed(copy, s, breaks) IN
              copy' = k /\ up' = IF k.refetching THEN Append(up, Fetch(TRUE)) ELSE up
    BY <1>3, <1>7 DEF ReceiveSnapshot
  <2>2. copy \in Copies /\ copy # Undefined
    BY <1>4, <1>7, UndefinedAssumption DEF GoodRequest
  <2>3. copy' = Replayed(copy, s, breaks) /\ copy' \in Copies
    BY <2>1, <2>2, ReplayedGood
  <2>4. /\ up' = up \/ up' = Append(up, Fetch(TRUE))
        /\ Fetch(TRUE) \in Request /\ GoodRequest(Fetch(TRUE), copy')
    BY <2>1, <2>3 DEF Fetch, Request, GoodRequest
  <2>5. AgreeInv'
    <3>1. log[a] # <<>>
      <4>1. Len(<<>>) = 0 /\ s.seq \in Nat /\ s.seq < Len(log[a])
        BY <1>4 DEF Shows, Snapshots
      <4> QED BY <4>1
    <3>2. There(a) /\ \A b \in Authority : There(b)' <=> There(b)
      BY <1>4, <1>6, <3>1 DEF There, Own
    <3>3. ASSUME NEW b \in Authority, Alone(b)'
          PROVE  current' = b /\ Agrees(copy', channel', mishaps', log'[b])
      <4>1. a = b /\ Alone(a)
        BY <3>2, <3>3 DEF Alone
      <4>2. current = a /\ Agrees(copy, channel, mishaps, log[a])
        BY <1>1, <4>1 DEF AgreeInv
      <4>3. GoodCopy(copy, log[a]) => GoodCopy(copy', log[a])
        BY <1>4, <2>2, <2>3, ReplayedGood
      <4> QED BY <1>2, <1>6, <2>2, <4>1, <4>2, <4>3 DEF Agrees
    <3> QED BY <3>2, <3>3 DEF AgreeInv
  <2> QED BY <1>2, <1>4, <1>5, <2>2, <2>3, <2>4, <2>5, TakenInv
<1>8. CASE ~s.request.live
  <2>1. UNCHANGED <<copy, up>>
    BY <1>3, <1>8 DEF ReceiveSnapshot
  <2>2. AgreeInv'
    BY <1>1, <1>2, <1>6, <2>1, SameHistories
  <2> QED BY <1>2, <1>5, <2>1, <2>2, TakenInv
<1> QED BY <1>7, <1>8

(* What is proposed is a stack. *)
LEMMA ForwardType ==
  ASSUME NEW d \in Document, NEW source \in Source, NEW v \in Value
  PROVE  Forward(d, source, v) \in Value
<1> DEFINE under == IF v = Undefined THEN <<>> ELSE v
           kept == Only(under, {e \in Entry : e.document # d})
<1>1. under \in Seq(Entry)
  BY DEF Value, Stack
<1> HIDE DEF under
<1>2. kept \in Seq(Entry)
  BY <1>1, OnlyType
<1> HIDE DEF kept
<1>3. [document |-> d, openedBy |-> source] \in Entry
  BY DEF Entry
<1>4. <<[document |-> d, openedBy |-> source]>> \in Seq(Entry)
  BY <1>3
<1>5. <<[document |-> d, openedBy |-> source]>> \o kept \in Seq(Entry)
  BY <1>2, <1>4, ConcatPlaces
<1> QED BY <1>5 DEF Forward, Value, Stack, kept, under

(* One more proposal. *)
LEMMA SubmitInv ==
  ASSUME InterfaceInv, NEW p \in Proposal, NEW source \in Source, NEW base \in Value,
         NEW basis \in Basis, Submit(p, source, base, basis),
         p \in Navigation => basis \in {0, Undefined}, busClient # Undefined,
         UNCHANGED <<elementVars, busClient, initial, authorityVars, current, buses>>,
         down' = down \/ \E a \in Authority : down[a] # <<>> /\ Answered(a)
  PROVE  InterfaceInv'
<1> DEFINE r == Propose(p, Forward(Target[p], source, base), basis)
<1>1. InterfaceTypeOK /\ AgreeInv
  BY DEF InterfaceInv
<1>2. /\ UNCHANGED <<connected, configured, changed, consumers, copy, channel, mishaps>>
      /\ UNCHANGED <<log, owner, current, busClient>>
  BY DEF elementVars, authorityVars
<1>3. r \in Request /\ GoodRequest(r, copy')
  <2>1. Target[p] \in Document
    BY StateAssumption DEF Proposal
  <2>2. Forward(Target[p], source, base) \in Value
    BY <2>1, ForwardType
  <2> QED BY <2>2 DEF Propose, Request, GoodRequest
<1>4. up' = Append(up, r) /\ standing' \in [Proposal -> {"new", "reading", "done"}]
  BY <1>1 DEF Submit, InterfaceTypeOK
<1> HIDE DEF r
<1>5. channel' \in Seq(Patch)
  BY <1>1, <1>2 DEF InterfaceTypeOK
<1>6. AgreeInv'
  BY <1>1, <1>2, SameHistories
<1> QED BY <1>2, <1>3, <1>4, <1>5, <1>6, TakenInv

(* The steps of who proposes. *)
LEMMA ProposalSteps ==
  ASSUME InterfaceInv,
         \/ \E n \in Navigation : Navigate(n)
         \/ \E p \in Opening : ReadSnapshot(p) \/ ReadTimesOut(p)
         \/ \E a \in Authority : ProposeOnSnapshot(a)
  PROVE  InterfaceInv'
<1>1. InterfaceTypeOK /\ ElementInv /\ RequestInv /\ AgreeInv /\ SnapshotInv
  BY DEF InterfaceInv
<1>2. ASSUME UNCHANGED <<elementVars, busClient, initial, authorityVars, current, buses>>
      PROVE  /\ UNCHANGED <<connected, configured, changed, consumers, copy, channel, mishaps>>
             /\ channel' \in Seq(Patch) /\ AgreeInv'
  <2>1. UNCHANGED <<connected, configured, changed, consumers, copy, channel, mishaps>>
        /\ UNCHANGED <<log, owner, current, busClient>>
    BY <1>2 DEF elementVars, authorityVars
  <2> QED BY <1>1, <2>1, SameHistories DEF InterfaceTypeOK
<1>3. ASSUME NEW n \in Navigation, Navigate(n)
      PROVE  InterfaceInv'
  <2>1. copy \in Copies /\ busClient # Undefined /\ n \in Proposal
    BY <1>1, <1>3 DEF Navigate, InterfaceTypeOK, ElementInv, Proposal
  <2>2. UNCHANGED <<elementVars, busClient, initial, authorityVars, current, buses>> /\ down' = down
    BY <1>3 DEF Navigate
  <2>3. CASE Yields(copy.value, Target[n])
    <3>1. up' = up /\ standing' \in [Proposal -> {"new", "reading", "done"}]
      BY <1>1, <1>3, <2>3 DEF Navigate, InterfaceTypeOK
    <3> QED BY <1>2, <2>2, <3>1, TakenInv
  <2>4. CASE ~Yields(copy.value, Target[n])
    <3> DEFINE basis == IF copy.value = Undefined THEN 0 ELSE Undefined
    <3>1. Submit(n, "guide", copy.value, basis)
      BY <1>3, <2>4 DEF Navigate
    <3>2. basis \in Basis /\ basis \in {0, Undefined}
      BY DEF Basis
    <3>3. copy.value \in Value /\ "guide" \in Source
      BY <2>1 DEF Copies, Source
    <3> HIDE DEF basis
    <3> QED BY <2>1, <2>2, <3>1, <3>2, <3>3, SubmitInv
  <2> QED BY <2>3, <2>4
<1>4. ASSUME NEW p \in Opening, ReadSnapshot(p)
      PROVE  InterfaceInv'
  <2>1. /\ UNCHANGED <<elementVars, busClient, initial, authorityVars, current, buses>>
        /\ down' = down /\ busClient # Undefined
        /\ standing' \in [Proposal -> {"new", "reading", "done"}]
        /\ up' = Append(up, Read(p))
    BY <1>1, <1>4 DEF ReadSnapshot, InterfaceTypeOK
  <2>2. Read(p) \in Request /\ GoodRequest(Read(p), copy')
    BY DEF GoodRequest, Read, Request, Proposal
  <2> QED BY <1>2, <2>1, <2>2, TakenInv
<1>5. ASSUME NEW p \in Opening, ReadTimesOut(p)
      PROVE  InterfaceInv'
  <2>1. /\ UNCHANGED <<elementVars, busClient, initial, authorityVars, current, buses>>
        /\ down' = down /\ up' = up
        /\ standing' \in [Proposal -> {"new", "reading", "done"}]
    BY <1>1, <1>5 DEF ReadTimesOut, brokerVars, InterfaceTypeOK
  <2> QED BY <1>2, <2>1, TakenInv
<1>6. ASSUME NEW a \in Authority, ProposeOnSnapshot(a)
      PROVE  InterfaceInv'
  <2>1. /\ down[a] \in Seq(Snapshots) /\ down[a] # <<>> /\ Answered(a)
        /\ UNCHANGED <<elementVars, busClient, initial, authorityVars, current, buses>>
    BY <1>1, <1>6 DEF InterfaceTypeOK, ProposeOnSnapshot
  <2>2. PICK s \in Snapshots : s = Head(down[a]) /\ InQueue(s, down[a])
    BY <2>1, QueueTaken
  <2>3. /\ s.request.id \in Opening /\ s.value \in Value /\ s.seq \in Basis
        /\ busClient # Undefined
    <3>1. s.request.type = "read" /\ s.request \in Request
      BY <1>6, <2>2 DEF ProposeOnSnapshot, Snapshots
    <3>2. GoodRequest(s.request, copy)
      BY <1>1, <2>2, <3>1 DEF RequestInv, UnderWay
    <3> QED BY <1>1, <2>2, <3>1, <3>2 DEF GoodRequest, Snapshots, Basis, SnapshotInv, Own
  <2>4. CASE standing[s.request.id] = "reading"
    <3>1. Submit(s.request.id, "ui", s.value, s.seq)
      BY <1>6, <2>2, <2>4 DEF ProposeOnSnapshot
    <3>2. s.request.id \in Proposal /\ s.request.id \notin Navigation /\ "ui" \in Source
      BY <2>3, StateAssumption DEF Proposal, Source
    <3> QED BY <2>1, <2>3, <3>1, <3>2, SubmitInv
  <2>5. CASE standing[s.request.id] # "reading"
    <3>1. up' = up /\ standing' \in [Proposal -> {"new", "reading", "done"}]
      BY <1>1, <1>6, <2>2, <2>5 DEF ProposeOnSnapshot, InterfaceTypeOK
    <3> QED BY <1>2, <2>1, <3>1, TakenInv
  <2> QED BY <2>4, <2>5
<1> QED BY <1>3, <1>4, <1>5, <1>6

-----------------------------------------------------------------------------
(* Steps of the broker and the authorities *)

(* What a step of theirs leaves alone. *)
PageStays ==
  UNCHANGED <<connected, configured, changed, consumers, copy, busClient, initial, standing, buses>>

(* Whatever else a step of theirs does, requests that were under way are, and
   the copy is the same. *)
LEMMA MovedOn ==
  ASSUME InterfaceInv, PageStays, \A r \in Request : UnderWay(r)' => UnderWay(r)
  PROVE  RequestInv'
BY DEF InterfaceInv, RequestInv, PageStays

(* A request is routed. *)
LEMMA RouteInv ==
  ASSUME InterfaceInv, Route
  PROVE  InterfaceInv'
<1>1. /\ InterfaceTypeOK /\ ElementInv /\ BusInv /\ LogInv /\ SnapshotInv /\ AgreeInv
  BY DEF InterfaceInv
<1>2. /\ UNCHANGED <<connected, configured, changed, consumers, copy, channel, mishaps, busClient,
                     initial, log, current, down, standing, buses>>
      /\ up # <<>> /\ up' = Tail(up)
  BY DEF Route, elementVars
<1>3. /\ Tail(up) \in Seq(Request) /\ Head(up) \in Request /\ InQueue(Head(up), up)
      /\ \A y : InQueue(y, Tail(up)) => InQueue(y, up)
  <2>1. up \in Seq(Request)
    BY <1>1 DEF InterfaceTypeOK
  <2> QED BY <1>2, <2>1, QueueTaken
<1>4. busClient # Undefined
  BY <1>1, <1>2 DEF ElementInv
<1>5. CASE current # Undefined
  <2>1. /\ current \in Authority /\ inbox' = [inbox EXCEPT ![current] = Append(@, Head(up))]
        /\ UNCHANGED <<owner, launching>> /\ inbox \in [Authority -> Seq(Request)]
    BY <1>1, <1>5 DEF Route, InterfaceTypeOK
  <2>2. PICK q \in Seq(Request) : /\ q = Append(inbox[current], Head(up))
                                  /\ \A y : InQueue(y, q) => InQueue(y, inbox[current]) \/ y = Head(up)
    <3>1. inbox[current] \in Seq(Request)
      BY <2>1
    <3> QED BY <1>3, <3>1, QueueGrows
  <2>3. /\ inbox' \in [Authority -> Seq(Request)] /\ inbox'[current] = q
        /\ \A a \in Authority : a # current => inbox'[a] = inbox[a]
    BY <2>1, <2>2
  <2>4. InterfaceTypeOK'
    BY <1>1, <1>2, <1>3, <2>1, <2>3 DEF InterfaceTypeOK
  <2>5. ElementInv'
    BY <1>1, <1>2, <1>4 DEF ElementInv
  <2>6. RequestInv'
    <3>1. \A a \in Authority : \A y : InQueue(y, inbox'[a]) => InQueue(y, inbox[a]) \/ InQueue(y, up)
      BY <1>3, <2>2, <2>3
    <3>2. \A r \in Request : UnderWay(r)' => UnderWay(r)
      BY <1>2, <1>3, <2>1, <3>1 DEF UnderWay
    <3> QED BY <1>2, <3>2, MovedOn DEF PageStays
  <2>7. BusInv' /\ LogInv' /\ SnapshotInv'
    <3>1. log[current] # <<>>
      BY <1>1, <1>5 DEF LogInv
    <3> QED BY <1>1, <1>2, <2>1, <2>3, <3>1 DEF BusInv, LogInv, SnapshotInv, Own
  <2>8. AgreeInv'
    BY <1>1, <1>2, <2>1, SameHistories
  <2> QED BY <2>4, <2>5, <2>6, <2>7, <2>8 DEF InterfaceInv
<1>6. CASE current = Undefined
  <2>1. PICK a \in Authority : /\ owner[a] = Undefined
                               /\ owner' = [owner EXCEPT ![a] = busClient]
                               /\ launching' = [launching EXCEPT ![a] = Head(up)]
                               /\ inbox' = inbox
    BY <1>6 DEF Route, Unlaunched
  <2>2. /\ owner' \in [Authority -> Nat \cup {Undefined}] /\ owner'[a] = busClient
        /\ launching' \in [Authority -> Request \cup {Undefined}] /\ launching'[a] = Head(up)
        /\ \A b \in Authority : b # a => owner'[b] = owner[b] /\ launching'[b] = launching[b]
    BY <1>1, <1>3, <2>1 DEF InterfaceTypeOK
  <2>3. log[a] = <<>> /\ launching[a] = Undefined
    BY <1>1, <2>1 DEF LogInv
  <2>4. InterfaceTypeOK'
    BY <1>1, <1>2, <1>3, <2>1, <2>2 DEF InterfaceTypeOK
  <2>5. ElementInv'
    BY <1>1, <1>2, <1>4 DEF ElementInv
  <2>6. RequestInv'
    <3>1. \A r \in Request : UnderWay(r)' => UnderWay(r)
      BY <1>2, <1>3, <2>1, <2>2 DEF UnderWay
    <3> QED BY <1>2, <3>1, MovedOn DEF PageStays
  <2>7. BusInv' /\ LogInv' /\ SnapshotInv'
    <3>1. BusInv' /\ LogInv'
      BY <1>1, <1>2, <1>4, <1>6, <2>1, <2>2, <2>3 DEF BusInv, LogInv
    <3>2. \A b \in Authority : Own(b) => Own(b)'
      BY <1>2, <2>1, <2>2 DEF Own
    <3> QED BY <1>1, <1>2, <3>1, <3>2 DEF SnapshotInv
  <2>8. AgreeInv'
    <3>1. \A b \in Authority : There(b)' <=> There(b)
      BY <1>2, <2>2, <2>3 DEF There, Own
    <3>2. \A b \in Authority : Alone(b)' <=> Alone(b)
      BY <3>1 DEF Alone
    <3> QED BY <1>1, <1>2, <3>1, <3>2 DEF AgreeInv
  <2> QED BY <2>4, <2>5, <2>6, <2>7, <2>8 DEF InterfaceInv
<1> QED BY <1>5, <1>6

(* An authority comes up: it has had the initial value. *)
LEMMA LaunchedInv ==
  ASSUME InterfaceInv, NEW a \in Authority, Launched(a)
  PROVE  InterfaceInv'
<1>1. /\ InterfaceTypeOK /\ ElementInv /\ BusInv /\ LogInv /\ SnapshotInv /\ AgreeInv
  BY DEF InterfaceInv
<1>2. /\ UNCHANGED <<connected, configured, changed, consumers, copy, channel, mishaps, busClient,
                     initial, owner, up, down, standing, buses>>
      /\ launching[a] # Undefined /\ launching' = [launching EXCEPT ![a] = Undefined]
      /\ current' = IF Own(a) THEN a ELSE current
  BY DEF Launched, elementVars
<1>3. log[a] = <<>> /\ owner[a] # Undefined
  BY <1>1, <1>2 DEF LogInv
<1>4. PICK first \in Seq(Value) : first = <<initial>> /\ first # <<>> /\ first[1] = initial
  <2>1. initial \in Value
    <3>1. <<>> \in Seq(Entry)
      OBVIOUS
    <3> QED BY <1>1, <3>1 DEF LogInv, Value, Stack
  <2>2. <<initial>> \in Seq(Value) /\ <<initial>> # <<>> /\ <<initial>>[1] = initial
    BY <2>1
  <2> QED BY <2>2, Zenon
<1>5. /\ log' \in [Authority -> Seq(Value)] /\ log'[a] = first
      /\ \A b \in Authority : b # a => log'[b] = log[b]
  <2>1. log' = [log EXCEPT ![a] = first] /\ log \in [Authority -> Seq(Value)]
    BY <1>1, <1>4 DEF Launched, InterfaceTypeOK
  <2> QED BY <2>1
<1>6. PICK q \in Seq(Request) : q = <<launching[a]>> /\ \A y : InQueue(y, q) => y = launching[a]
  <2>1. launching[a] \in Request
    BY <1>1, <1>2 DEF InterfaceTypeOK
  <2>2. <<launching[a]>> \in Seq(Request)
    BY <2>1
  <2>3. \A y : InQueue(y, <<launching[a]>>) => y = launching[a]
    BY DEF InQueue
  <2> QED BY <2>2, <2>3, Zenon
<1>7. /\ inbox' \in [Authority -> Seq(Request)] /\ inbox'[a] = q
      /\ \A b \in Authority : b # a => inbox'[b] = inbox[b]
  <2>1. inbox' = [inbox EXCEPT ![a] = q] /\ inbox \in [Authority -> Seq(Request)]
    BY <1>1, <1>6 DEF Launched, InterfaceTypeOK
  <2> QED BY <2>1
<1>8. /\ launching' \in [Authority -> Request \cup {Undefined}] /\ launching'[a] = Undefined
      /\ \A b \in Authority : b # a => launching'[b] = launching[b]
  BY <1>1, <1>2 DEF InterfaceTypeOK
<1>9. current' \in Authority \cup {Undefined}
  BY <1>1, <1>2 DEF InterfaceTypeOK
<1>10. InterfaceTypeOK'
  BY <1>1, <1>2, <1>5, <1>7, <1>8, <1>9 DEF InterfaceTypeOK
<1>11. ElementInv'
  BY <1>1, <1>2, <1>3 DEF ElementInv, Own
<1>12. RequestInv'
  <2>1. ASSUME NEW r \in Request, UnderWay(r)'
        PROVE  UnderWay(r)
    <3>1. \A b \in Authority : r = launching'[b] => r = launching[b]
      BY <1>8, UndefinedAssumption
    <3>2. ASSUME NEW b \in Authority, InQueue(r, inbox'[b])
          PROVE  r = launching[a] \/ InQueue(r, inbox[b])
      BY <1>6, <1>7, <3>2
    <3> QED BY <1>2, <2>1, <3>1, <3>2 DEF UnderWay
  <2> QED BY <1>2, <2>1, MovedOn DEF PageStays
<1>13. BusInv'
  BY <1>1, <1>2 DEF BusInv
<1>14. \A b \in Authority : Own(b)' <=> Own(b)
  BY <1>2 DEF Own
<1>15. LogInv'
  <2>1. ASSUME NEW b \in Authority
        PROVE  /\ launching'[b] # Undefined => log'[b] = <<>> /\ owner'[b] # Undefined
               /\ log'[b] = <<>> => inbox'[b] = <<>>
               /\ log'[b] # <<>> => log'[b][1] = initial' /\ owner'[b] # Undefined
    <3>1. CASE b = a
      BY <1>2, <1>3, <1>4, <1>5, <1>8, <3>1
    <3>2. CASE b # a
      BY <1>1, <1>2, <1>5, <1>7, <1>8, <3>2 DEF LogInv
    <3> QED BY <3>1, <3>2
  <2>2. current' # Undefined => Own(current)' /\ log'[current'] # <<>>
    <3>1. CASE current' = a /\ Own(a)
      BY <1>4, <1>5, <1>14, <3>1
    <3>2. CASE current' = current /\ current \in Authority
      BY <1>1, <1>4, <1>5, <1>14, <3>2 DEF LogInv
    <3> QED BY <1>1, <1>2, <3>1, <3>2 DEF InterfaceTypeOK
  <2> QED BY <1>1, <1>2, <2>1, <2>2 DEF LogInv
<1>16. SnapshotInv'
  <2> SUFFICES ASSUME NEW b \in Authority, NEW s \in Snapshots, InQueue(s, down[b])
               PROVE  Own(b) /\ Shows(log'[b], s.seq, s.value)
    BY <1>2, <1>14 DEF SnapshotInv
  <2>1. Own(b) /\ Shows(log[b], s.seq, s.value)
    BY <1>1 DEF SnapshotInv
  <2>2. b # a
    <3>1. Len(<<>>) = 0 /\ s.seq \in Nat
      BY DEF Snapshots
    <3> QED BY <1>3, <2>1, <3>1 DEF Shows
  <2> QED BY <1>5, <2>1, <2>2
<1>17. AgreeInv'
  <2>1. ~There(a) /\ (There(a)' <=> Own(a)) /\ \A b \in Authority : b # a => (There(b)' <=> There(b))
    BY <1>3, <1>4, <1>5, <1>14 DEF There
  <2>2. CASE Own(a)
    <3> SUFFICES ASSUME NEW b \in Authority, Alone(b)'
                 PROVE  current' = b /\ Agrees(copy', channel', mishaps', log'[b])
      BY <2>1, <2>2 DEF AgreeInv
    <3>1. b = a /\ \A c \in Authority : ~There(c)
      BY <2>1, <2>2 DEF Alone
    <3>2. Agrees(copy, channel, mishaps, <<>>) /\ copy \in Copies \cup {Undefined}
      BY <1>1, <3>1 DEF AgreeInv, InterfaceTypeOK
    <3> QED BY <1>2, <2>2, <3>1, <3>2, NoneAgrees
  <2>3. CASE ~Own(a)
    <3>1. (\A b \in Authority : There(b)' <=> There(b)) /\ current' = current
      BY <1>2, <2>1, <2>3
    <3>2. \A b \in Authority : Alone(b)' <=> Alone(b)
      BY <3>1 DEF Alone
    <3>3. \A b \in Authority : Alone(b) => log'[b] = log[b]
      BY <1>5, <2>1 DEF Alone
    <3> QED BY <1>1, <1>2, <3>1, <3>2, <3>3 DEF AgreeInv
  <2> QED BY <2>2, <2>3
<1> QED BY <1>10, <1>11, <1>12, <1>13, <1>15, <1>16, <1>17 DEF InterfaceInv

(* A launch fails. *)
LEMMA LaunchFailsInv ==
  ASSUME InterfaceInv, NEW a \in Authority, LaunchFails(a)
  PROVE  InterfaceInv'
<1>1. /\ InterfaceTypeOK /\ ElementInv /\ BusInv /\ LogInv /\ SnapshotInv /\ AgreeInv
  BY DEF InterfaceInv
<1>2. /\ UNCHANGED <<connected, configured, changed, consumers, copy, channel, mishaps, busClient,
                     initial, log, inbox, current, up, down, standing, buses>>
      /\ launching[a] # Undefined /\ launching' = [launching EXCEPT ![a] = Undefined]
      /\ owner' = [owner EXCEPT ![a] = Undefined]
  BY DEF LaunchFails, elementVars
<1>3. log[a] = <<>> /\ owner[a] # Undefined
  BY <1>1, <1>2 DEF LogInv
<1>4. /\ launching' \in [Authority -> Request \cup {Undefined}] /\ launching'[a] = Undefined
      /\ owner' \in [Authority -> Nat \cup {Undefined}] /\ owner'[a] = Undefined
      /\ \A b \in Authority : b # a => launching'[b] = launching[b] /\ owner'[b] = owner[b]
  BY <1>1, <1>2 DEF InterfaceTypeOK
<1>5. InterfaceTypeOK'
  BY <1>1, <1>2, <1>4 DEF InterfaceTypeOK
<1>6. ElementInv'
  BY <1>1, <1>2 DEF ElementInv
<1>7. RequestInv'
  <2>1. \A r \in Request : UnderWay(r)' => UnderWay(r)
    BY <1>2, <1>4, UndefinedAssumption DEF UnderWay
  <2> QED BY <1>2, <2>1, MovedOn DEF PageStays
<1>8. \A b \in Authority : log[b] # <<>> => (Own(b)' <=> Own(b))
  BY <1>2, <1>3, <1>4 DEF Own
<1>9. BusInv' /\ LogInv'
  <2>1. current # Undefined => current \in Authority
    BY <1>1 DEF InterfaceTypeOK
  <2> QED BY <1>1, <1>2, <1>3, <1>4, <1>8, <2>1 DEF BusInv, LogInv
<1>10. SnapshotInv'
  <2> SUFFICES ASSUME NEW b \in Authority, NEW s \in Snapshots, InQueue(s, down[b])
               PROVE  Own(b)' /\ Shows(log[b], s.seq, s.value)
    BY <1>2 DEF SnapshotInv
  <2>1. Own(b) /\ Shows(log[b], s.seq, s.value)
    BY <1>1 DEF SnapshotInv
  <2>2. log[b] # <<>>
    <3>1. Len(<<>>) = 0 /\ s.seq \in Nat
      BY DEF Snapshots
    <3> QED BY <2>1, <3>1 DEF Shows
  <2> QED BY <1>8, <2>1, <2>2
<1>11. AgreeInv'
  <2>1. \A b \in Authority : There(b)' <=> There(b)
    BY <1>2, <1>8 DEF There
  <2>2. \A b \in Authority : Alone(b)' <=> Alone(b)
    BY <2>1 DEF Alone
  <2> QED BY <1>1, <1>2, <2>1, <2>2 DEF AgreeInv
<1> QED BY <1>5, <1>6, <1>7, <1>9, <1>10, <1>11 DEF InterfaceInv

(* An authority takes the next request in. *)
LEMMA RequestTaken ==
  ASSUME InterfaceInv, NEW a \in Authority, inbox[a] # <<>>, inbox' = [inbox EXCEPT ![a] = Tail(@)]
  PROVE  /\ log[a] # <<>> /\ log[a] \in Seq(Value)
         /\ Head(inbox[a]) \in Request /\ InQueue(Head(inbox[a]), inbox[a])
         /\ inbox' \in [Authority -> Seq(Request)]
         /\ \A b \in Authority : /\ \A y : InQueue(y, inbox'[b]) => InQueue(y, inbox[b])
                                 /\ inbox[b] = <<>> => inbox'[b] = <<>>
<1>1. log[a] # <<>> /\ log[a] \in Seq(Value) /\ inbox \in [Authority -> Seq(Request)]
  BY DEF InterfaceInv, InterfaceTypeOK, LogInv
<1>2. PICK q \in Seq(Request) : q = Tail(inbox[a]) /\ \A y : InQueue(y, q) => InQueue(y, inbox[a])
  BY <1>1, QueueTaken
<1>3. inbox' = [inbox EXCEPT ![a] = q]
  BY <1>2
<1>4. Head(inbox[a]) \in Request /\ InQueue(Head(inbox[a]), inbox[a])
  BY <1>1, QueueTaken
<1> QED BY <1>1, <1>2, <1>3, <1>4

(* A snapshot is asked for. *)
LEMMA ServeSnapshotInv ==
  ASSUME InterfaceInv, NEW a \in Authority, ServeSnapshot(a)
  PROVE  InterfaceInv'
<1>1. /\ InterfaceTypeOK /\ ElementInv /\ BusInv /\ LogInv /\ SnapshotInv /\ AgreeInv
  BY DEF InterfaceInv
<1>2. /\ UNCHANGED <<connected, configured, changed, consumers, copy, channel, mishaps, busClient,
                     initial, log, owner, launching, current, up, standing, buses>>
      /\ inbox[a] # <<>> /\ inbox' = [inbox EXCEPT ![a] = Tail(@)]
  BY DEF ServeSnapshot, elementVars
<1> DEFINE r == Head(inbox[a])
           s == [request |-> r, value |-> Last(log[a]), seq |-> Len(log[a]) - 1]
<1>3. /\ log[a] # <<>> /\ log[a] \in Seq(Value)
      /\ r \in Request /\ InQueue(r, inbox[a])
      /\ inbox' \in [Authority -> Seq(Request)]
      /\ \A b \in Authority : /\ \A y : InQueue(y, inbox'[b]) => InQueue(y, inbox[b])
                              /\ inbox[b] = <<>> => inbox'[b] = <<>>
  BY <1>2, RequestTaken
<1>4. s \in Snapshots /\ s.request = r /\ Shows(log[a], s.seq, s.value)
  <2>1. /\ Last(log[a]) \in Value /\ Len(log[a]) - 1 \in Nat /\ Len(log[a]) - 1 < Len(log[a])
        /\ log[a][(Len(log[a]) - 1) + 1] = Last(log[a])
    BY <1>3 DEF Last
  <2> HIDE DEF r
  <2> QED BY <1>3, <2>1 DEF Snapshots, Shows
<1>5. down' = IF Own(a) THEN [down EXCEPT ![a] = Append(@, s)] ELSE down
  BY DEF ServeSnapshot
<1> HIDE DEF s, r
<1>6. /\ down' \in [Authority -> Seq(Snapshots)]
      /\ \A b \in Authority : \A t : InQueue(t, down'[b]) =>
           InQueue(t, down[b]) \/ (b = a /\ t = s /\ Own(a))
      /\ ~Own(a) => down' = down
  <2>1. down \in [Authority -> Seq(Snapshots)]
    BY <1>1 DEF InterfaceTypeOK
  <2>2. PICK q \in Seq(Snapshots) : q = Append(down[a], s)
                                    /\ \A t : InQueue(t, q) => InQueue(t, down[a]) \/ t = s
    BY <1>4, <2>1, QueueGrows
  <2> QED BY <1>5, <2>1, <2>2
<1>7. InterfaceTypeOK'
  BY <1>1, <1>2, <1>3, <1>6 DEF InterfaceTypeOK
<1>8. ElementInv'
  BY <1>1, <1>2, <1>6 DEF ElementInv, Own
<1>9. RequestInv'
  <2>1. \A q \in Request : UnderWay(q)' => UnderWay(q)
    BY <1>2, <1>3, <1>4, <1>6 DEF UnderWay
  <2> QED BY <1>2, <2>1, MovedOn DEF PageStays
<1>10. BusInv' /\ LogInv'
  BY <1>1, <1>2, <1>3 DEF BusInv, LogInv, Own
<1>11. SnapshotInv'
  BY <1>1, <1>2, <1>4, <1>6 DEF SnapshotInv, Own
<1>12. AgreeInv'
  BY <1>1, <1>2, SameHistories
<1> QED BY <1>7, <1>8, <1>9, <1>10, <1>11, <1>12 DEF InterfaceInv

(* A proposal is refused. *)
LEMMA RefuseProposalInv ==
  ASSUME InterfaceInv, NEW a \in Authority, RefuseProposal(a)
  PROVE  InterfaceInv'
<1>1. /\ InterfaceTypeOK /\ ElementInv /\ BusInv /\ LogInv /\ SnapshotInv /\ AgreeInv
  BY DEF InterfaceInv
<1>2. /\ UNCHANGED <<connected, configured, changed, consumers, copy, channel, mishaps, busClient,
                     initial, log, owner, launching, current, up, down, standing, buses>>
      /\ inbox[a] # <<>> /\ inbox' = [inbox EXCEPT ![a] = Tail(@)]
  BY DEF RefuseProposal, IsProposal, elementVars
<1>3. /\ inbox' \in [Authority -> Seq(Request)]
      /\ \A b \in Authority : /\ \A y : InQueue(y, inbox'[b]) => InQueue(y, inbox[b])
                              /\ inbox[b] = <<>> => inbox'[b] = <<>>
  BY <1>2, RequestTaken
<1>4. InterfaceTypeOK'
  BY <1>1, <1>2, <1>3 DEF InterfaceTypeOK
<1>5. ElementInv'
  BY <1>1, <1>2 DEF ElementInv
<1>6. RequestInv'
  <2>1. \A q \in Request : UnderWay(q)' => UnderWay(q)
    BY <1>2, <1>3 DEF UnderWay
  <2> QED BY <1>2, <2>1, MovedOn DEF PageStays
<1>7. BusInv' /\ LogInv' /\ SnapshotInv'
  BY <1>1, <1>2, <1>3 DEF BusInv, LogInv, SnapshotInv, Own
<1>8. AgreeInv'
  BY <1>1, <1>2, SameHistories
<1> QED BY <1>4, <1>5, <1>6, <1>7, <1>8 DEF InterfaceInv

(* A proposal is accepted.  The patch tells what the authority now has; from
   one that is not of the bus, it is an intrusion. *)
LEMMA AcceptProposalInv ==
  ASSUME InterfaceInv, NEW a \in Authority, AcceptProposal(a)
  PROVE  InterfaceInv'
<1>1. /\ InterfaceTypeOK /\ ElementInv /\ BusInv /\ LogInv /\ SnapshotInv /\ AgreeInv
  BY DEF InterfaceInv
<1>2. /\ UNCHANGED <<connected, configured, changed, consumers, copy, busClient, initial, owner,
                     launching, current, up, down, standing, buses>>
      /\ inbox[a] # <<>> /\ inbox' = [inbox EXCEPT ![a] = Tail(@)]
  BY DEF AcceptProposal, IsProposal
<1>3. /\ log[a] # <<>> /\ log[a] \in Seq(Value) /\ Head(inbox[a]) \in Request
      /\ inbox' \in [Authority -> Seq(Request)]
      /\ \A b \in Authority : /\ \A y : InQueue(y, inbox'[b]) => InQueue(y, inbox[b])
                              /\ inbox[b] = <<>> => inbox'[b] = <<>>
  BY <1>2, RequestTaken
<1>4. PICK v \in Value, m \in Patch :
        /\ log' = [log EXCEPT ![a] = Append(@, v)]
        /\ Post(a, m) /\ m.seq = Len(log[a]) /\ m.value = v
  <2>1. PICK r \in Request : r = Head(inbox[a]) /\ r.type = "propose" /\ r.value \in Value
    <3>1. Head(inbox[a]).type = "propose"
      BY DEF AcceptProposal, IsProposal
    <3> QED BY <1>3, <3>1 DEF Request
  <2>2. Last(log[a]) \in Value /\ Len(log[a]) \in Nat
    BY <1>3 DEF Last
  <2> DEFINE m == [seq |-> Len(log[a]), base |-> Last(log[a]), value |-> r.value]
  <2>3. m \in Patch /\ m.seq = Len(log[a]) /\ m.value = r.value
    BY <2>1, <2>2 DEF Patch
  <2>4. log' = [log EXCEPT ![a] = Append(@, r.value)] /\ Post(a, m)
    BY <2>1 DEF AcceptProposal
  <2> HIDE DEF m
  <2> QED BY <2>1, <2>3, <2>4
<1> DEFINE grown == Append(log[a], v)
<1>5. /\ grown \in Seq(Value) /\ grown # <<>> /\ grown[1] = log[a][1]
      /\ Shows(grown, m.seq, m.value)
      /\ \A n \in Nat : \A w : Shows(log[a], n, w) => Shows(grown, n, w)
      /\ \A k \in Copies \cup {Undefined} : \A patches, befell :
           Agrees(k, patches, befell, log[a]) => Agrees(k, patches, befell, grown)
      /\ \A patches : AllShown(log[a], patches) => AllShown(grown, patches)
  <2>1. grown \in Seq(Value) /\ grown # <<>> /\ grown[1] = log[a][1] /\ Shows(grown, m.seq, m.value)
    BY <1>3, <1>4 DEF Shows
  <2> HIDE DEF grown
  <2> QED BY <1>3, <2>1, LaterAgrees DEF grown
<1>6. /\ log' \in [Authority -> Seq(Value)] /\ log'[a] = grown
      /\ \A b \in Authority : b # a => log'[b] = log[b]
  <2>1. log' = [log EXCEPT ![a] = grown] /\ log \in [Authority -> Seq(Value)]
    BY <1>1, <1>4 DEF InterfaceTypeOK
  <2> HIDE DEF grown
  <2> QED BY <1>5, <2>1
<1> HIDE DEF grown
<1>7. PICK longer \in Seq(Patch) : /\ longer = Append(channel, m)
                                   /\ \A y : InQueue(y, longer) => InQueue(y, channel) \/ y = m
  <2>1. channel \in Seq(Patch)
    BY <1>1 DEF InterfaceTypeOK
  <2> QED BY <2>1, QueueGrows
<1>8. \/ copy = Undefined /\ UNCHANGED <<channel, mishaps>>
      \/ /\ copy # Undefined /\ channel' = longer
         /\ mishaps' = IF Own(a) THEN mishaps ELSE mishaps \cup {"intruded"}
  BY <1>4, <1>7 DEF Post
<1>9. InterfaceTypeOK'
  <2>1. channel' \in Seq(Patch) /\ mishaps' \subseteq Mishap
    BY <1>1, <1>7, <1>8 DEF InterfaceTypeOK, Mishap
  <2> QED BY <1>1, <1>2, <1>3, <1>6, <2>1 DEF InterfaceTypeOK
<1>10. ElementInv'
  BY <1>1, <1>2, <1>8 DEF ElementInv
<1>11. RequestInv'
  <2>1. \A q \in Request : UnderWay(q)' => UnderWay(q)
    BY <1>2, <1>3 DEF UnderWay
  <2> QED BY <1>2, <2>1, MovedOn DEF PageStays
<1>12. \A b \in Authority : (Own(b)' <=> Own(b)) /\ (There(b)' <=> There(b))
  BY <1>2, <1>3, <1>5, <1>6 DEF Own, There
<1>13. BusInv' /\ LogInv'
  <2>1. ASSUME NEW b \in Authority
        PROVE  /\ launching'[b] # Undefined => log'[b] = <<>> /\ owner'[b] # Undefined
               /\ log'[b] = <<>> => inbox'[b] = <<>>
               /\ log'[b] # <<>> => log'[b][1] = initial' /\ owner'[b] # Undefined
    BY <1>1, <1>2, <1>3, <1>5, <1>6 DEF LogInv
  <2>2. current' # Undefined => Own(current)' /\ log'[current'] # <<>>
    <3>1. current # Undefined => current \in Authority
      BY <1>1 DEF InterfaceTypeOK
    <3> QED BY <1>1, <1>2, <1>5, <1>6, <1>12, <3>1 DEF LogInv
  <2> QED BY <1>1, <1>2, <2>1, <2>2 DEF BusInv, LogInv
<1>14. SnapshotInv'
  <2> SUFFICES ASSUME NEW b \in Authority, NEW s \in Snapshots, InQueue(s, down[b])
               PROVE  Own(b) /\ Shows(log'[b], s.seq, s.value)
    BY <1>2, <1>12 DEF SnapshotInv
  <2>1. Own(b) /\ Shows(log[b], s.seq, s.value) /\ s.seq \in Nat
    BY <1>1 DEF SnapshotInv, Snapshots
  <2> QED BY <1>5, <1>6, <2>1
<1>15. AgreeInv'
  <2>1. \A b \in Authority : Alone(b)' <=> Alone(b)
    BY <1>12 DEF Alone
  <2>2. ASSUME NEW values, Agrees(copy, channel, mishaps, values), ~Own(a)
        PROVE  Agrees(copy', channel', mishaps', values)
    BY <1>2, <1>8, <2>2 DEF Agrees
  <2>3. ASSUME \A b \in Authority : ~There(b)
        PROVE  current' = Undefined /\ Agrees(copy', channel', mishaps', <<>>)
    BY <1>1, <1>2, <1>3, <2>2, <2>3 DEF AgreeInv, There
  <2>4. ASSUME NEW b \in Authority, Alone(b)
        PROVE  current' = b /\ Agrees(copy', channel', mishaps', log'[b])
    <3>1. current = b /\ Agrees(copy, channel, mishaps, log[b])
      BY <1>1, <2>4 DEF AgreeInv
    <3>2. CASE b = a
      <4>1. copy \in Copies \cup {Undefined} /\ Own(a)
        BY <1>1, <2>4, <3>2 DEF InterfaceTypeOK, Alone, There
      <4>2. Agrees(copy, channel, mishaps, grown)
        BY <1>5, <3>1, <3>2, <4>1
      <4>3. AllShown(grown, channel) => AllShown(grown, longer)
        BY <1>5, <1>7 DEF AllShown
      <4>4. Agrees(copy', channel', mishaps', grown)
        BY <1>2, <1>8, <4>1, <4>2, <4>3 DEF Agrees
      <4> QED BY <1>2, <1>6, <3>1, <3>2, <4>4
    <3>3. CASE b # a
      <4>1. ~Own(a) /\ log'[b] = log[b]
        BY <1>3, <1>6, <2>4, <3>3 DEF Alone, There
      <4> QED BY <1>2, <2>2, <3>1, <4>1
    <3> QED BY <3>2, <3>3
  <2> QED BY <1>12, <2>1, <2>3, <2>4 DEF AgreeInv
<1> QED BY <1>9, <1>10, <1>11, <1>13, <1>14, <1>15 DEF InterfaceInv

-----------------------------------------------------------------------------
(* The invariant *)

(* The page starts with it. *)
LEMMA InterfaceInitInv == InterfaceInit => InterfaceInv
<1> SUFFICES ASSUME InterfaceInit PROVE InterfaceInv
  OBVIOUS
<1> USE DEF InterfaceInit
<1>1. InterfaceTypeOK
  <2>1. /\ channel \in Seq(Patch) /\ up \in Seq(Request)
        /\ log \in [Authority -> Seq(Value)] /\ down \in [Authority -> Seq(Snapshots)]
        /\ inbox \in [Authority -> Seq(Request)]
    OBVIOUS
  <2>2. /\ launching \in [Authority -> Request \cup {Undefined}]
        /\ owner \in [Authority -> Nat \cup {Undefined}]
        /\ standing \in [Proposal -> {"new", "reading", "done"}]
    OBVIOUS
  <2>3. consumers \in Nat /\ buses \in Nat /\ busClient \in Nat \cup {Undefined}
    OBVIOUS
  <2>4. connected \in BOOLEAN /\ configured \in BOOLEAN /\ changed \in BOOLEAN
    OBVIOUS
  <2> QED BY <2>1, <2>2, <2>3, <2>4 DEF InterfaceTypeOK
<1>2. ElementInv
  BY DEF ElementInv
<1>3. RequestInv
  <2>1. \A r \in Request : ~UnderWay(r)
    BY QueueItems, UndefinedAssumption DEF UnderWay
  <2> QED BY <2>1 DEF RequestInv
<1>4. BusInv /\ LogInv /\ SnapshotInv
  BY QueueItems DEF BusInv, LogInv, SnapshotInv
<1>5. AgreeInv
  <2>1. \A a \in Authority : ~There(a)
    BY DEF There
  <2> QED BY <2>1, FreshAgrees DEF AgreeInv, Alone
<1> QED BY <1>1, <1>2, <1>3, <1>4, <1>5 DEF InterfaceInv

(* No step breaks it. *)
LEMMA InterfaceStepInv == InterfaceInv /\ [InterfaceNext]_interfaceVars => InterfaceInv'
<1> SUFFICES ASSUME InterfaceInv, [InterfaceNext]_interfaceVars PROVE InterfaceInv'
  OBVIOUS
<1>1. CASE ConnectedCallback \/ DisconnectedCallback \/ SetOptions \/ Updated \/ BusStarts
  BY <1>1, ElementSteps
<1>2. CASE BusStops
  BY <1>2, BusStopsInv
<1>3. CASE ReceivePatch
  BY <1>3, ReceivePatchInv
<1>4. CASE FetchTimesOut
  BY <1>4, FetchTimesOutInv
<1>5. CASE Route
  BY <1>5, RouteInv
<1>6. ASSUME NEW a \in Authority,
             \/ ReceiveSnapshot(a) \/ ServeSnapshot(a) \/ AcceptProposal(a)
             \/ RefuseProposal(a) \/ Launched(a) \/ LaunchFails(a)
      PROVE  InterfaceInv'
  BY <1>6, ReceiveSnapshotInv, ServeSnapshotInv, AcceptProposalInv, RefuseProposalInv,
     LaunchedInv, LaunchFailsInv
<1>7. CASE \/ \E n \in Navigation : Navigate(n)
           \/ \E p \in Opening : ReadSnapshot(p) \/ ReadTimesOut(p)
           \/ \E a \in Authority : ProposeOnSnapshot(a)
  BY <1>7, ProposalSteps
<1>8. CASE UNCHANGED interfaceVars
  <2>1. /\ UNCHANGED <<copy, channel, mishaps, up, launching, inbox, down, connected>>
        /\ UNCHANGED <<initial, log, owner, current, busClient, buses>>
        /\ UNCHANGED <<standing, configured, changed, consumers>>
    BY <1>8 DEF interfaceVars, elementVars, brokerVars, authorityVars
  <2>2. ElementMoves
    BY <2>1 DEF InterfaceInv, InterfaceTypeOK, ElementInv, ElementMoves
  <2> QED BY <2>1, <2>2, KeptInv DEF InterfaceInv, ElementInv
<1> QED BY <1>1, <1>2, <1>3, <1>4, <1>5, <1>6, <1>7, <1>8 DEF InterfaceNext

(* So it always holds. *)
LEMMA InterfaceAlways == InterfaceSpec => []InterfaceInv
BY InterfaceInitInv, InterfaceStepInv, PTL DEF InterfaceSpec

(* CopySound: an initialised copy shows a value the authority of its bus has
   had, at the number it had it, as long as the bus has launched one authority
   at most and none of an earlier bus has posted on the copy's channel. *)
THEOREM CopyIsSound == InterfaceSpec => []CopySound
<1>1. InterfaceInv => CopySound
  <2> SUFFICES ASSUME InterfaceInv, copy # Undefined, copy.initialised, current # Undefined, ~Split,
                      "intruded" \notin mishaps
               PROVE  copy.seq < Len(log[current]) /\ copy.value = log[current][copy.seq + 1]
    BY DEF CopySound, CopyFaithful, InterfaceInv
  <2>1. current \in Authority /\ There(current)
    BY DEF InterfaceInv, InterfaceTypeOK, LogInv, There
  <2>2. Alone(current)
    BY <2>1 DEF Alone, Split, There
  <2>3. Agrees(copy, channel, mishaps, log[current])
    BY <2>1, <2>2 DEF InterfaceInv, AgreeInv
  <2> QED BY <2>3 DEF Agrees, GoodCopy, Shows
<1> QED BY <1>1, InterfaceAlways, PTL

(* PrecedenceKept: no navigation an authority accepts takes the place of a
   document the visitor has opened and has in front.  It can be accepted only
   as the first change of all. *)
THEOREM VisitorsPrecedence == InterfaceSpec => PrecedenceKept
<1> DEFINE Kept == \A n \in Navigation, a \in Authority :
                     Accepts(a, n) => ~Yields(Last(log[a]), Target[n])
<1>1. InterfaceInv /\ [InterfaceNext]_interfaceVars => [Kept]_interfaceVars
  <2> SUFFICES ASSUME InterfaceInv, InterfaceNext, NEW n \in Navigation, NEW a \in Authority,
                      Accepts(a, n)
               PROVE  ~Yields(Last(log[a]), Target[n])
    OBVIOUS
  <2>1. IsProposal(a) /\ Head(inbox[a]).id = n /\ Len(log'[a]) > Len(log[a])
    BY DEF Accepts
  <2>2. InterfaceTypeOK /\ RequestInv /\ LogInv
    BY DEF InterfaceInv
  <2>3. log \in [Authority -> Seq(Value)] /\ inbox \in [Authority -> Seq(Request)] /\ inbox[a] # <<>>
    BY <2>1, <2>2 DEF InterfaceTypeOK, IsProposal
  <2>4. /\ log[a] # <<>> /\ log[a] \in Seq(Value) /\ log[a][1] = initial
        /\ initial \in {Undefined, <<>>} /\ launching[a] = Undefined /\ Len(log[a]) \in Nat
    BY <2>2, <2>3 DEF LogInv
  (* Only an authority that accepts what it has been handed has had more. *)
  <2>5. PICK b \in Authority : AcceptProposal(b) \/ Launched(b)
    <3>1. log' # log
      BY <2>1, <2>4
    <3> QED BY <3>1 DEF InterfaceNext, ConnectedCallback, DisconnectedCallback, SetOptions, Updated,
                BusStarts, BusStops, ReceivePatch, FetchTimesOut, Route, ReceiveSnapshot,
                ServeSnapshot, RefuseProposal, LaunchFails, ProposeOnSnapshot, Navigate,
                ReadSnapshot, ReadTimesOut, brokerVars, authorityVars
  <2>6. b = a
    <3>1. \E w : log' = [log EXCEPT ![b] = w]
      BY <2>5 DEF AcceptProposal, Launched
    <3>2. b # a => log'[a] = log[a]
      BY <2>3, <3>1
    <3> QED BY <2>1, <2>4, <3>2
  <2>7. UpToDate(a, Head(inbox[a]))
    BY <2>4, <2>5, <2>6 DEF AcceptProposal, Launched
  (* It was made for a value that is undefined, and so the value is the first. *)
  <2>8. PICK r \in Request : r = Head(inbox[a]) /\ InQueue(r, inbox[a])
    BY <2>3, QueueTaken
  <2>9. r.basis \in {0, Undefined}
    <3>1. r.type = "propose" /\ r.id = n
      BY <2>1, <2>8 DEF IsProposal
    <3>2. GoodRequest(r, copy)
      BY <2>2, <2>8 DEF RequestInv, UnderWay
    <3> QED BY <3>1, <3>2 DEF GoodRequest
  <2>10. Len(log[a]) = 1
    <3>1. r.basis = Len(log[a]) - 1
      BY <2>7, <2>8 DEF UpToDate
    <3>2. Len(log[a]) > 0 /\ Undefined \notin Nat
      BY <2>4, UndefinedAssumption
    <3> QED BY <2>4, <2>9, <3>1, <3>2
  <2>11. Last(log[a]) \in {Undefined, <<>>}
    BY <2>4, <2>10 DEF Last
  <2> QED BY <2>11 DEF Yields
<1> QED BY <1>1, InterfaceAlways, PTL DEF InterfaceSpec, PrecedenceKept

-----------------------------------------------------------------------------
USE SessionAssumption DEF SessionAssumption

-----------------------------------------------------------------------------
(* The invariant.  An event that has happened is in one place. *)
InOnePlace ==
  /\ queue \subseteq seen /\ held \subseteq seen /\ queue \cap held = {}
  /\ \A r \in Run : /\ events[r] \subseteq seen
                    /\ events[r] \cap queue = {} /\ events[r] \cap held = {}
                    /\ client[r] = "idle" => events[r] = {}
  /\ \A r, s \in Run : r # s => events[r] \cap events[s] = {}
  /\ \A e \in seen : e \in queue \/ e \in held \/ \E r \in Run : e \in events[r]

(* A flush is held only until the service client is there, and calls are made
   only then; the page waits for one call at a time. *)
OneAtATime ==
  /\ \A r, s \in Run : client[r] = "waiting" /\ client[s] = "waiting" => r = s
  /\ ~ready => \A r \in Run : client[r] = "idle"
  /\ ready => held = {}
  /\ inProgress <=> held # {} \/ \E r \in Run : client[r] = "waiting"

PageInv == TypeOK /\ InOnePlace /\ OneAtATime

(* A run that goes on has been called for, and its caller waits or has given up. *)
WorkerInv ==
  /\ phase \in [Run -> Loop!Phases]
  /\ \A r \in Run : Loop!Going(r) => client[r] \in {"waiting", "timeout"}

-----------------------------------------------------------------------------
(* Flushes. *)

(* What Call() does to the calls and to what they carry. *)
LEMMA CallFacts ==
  ASSUME NEW S, NEW settled, settled \in [Run -> {"idle", "waiting", "answered", "timeout", "refused"}],
         \A r \in Run : settled[r] = "idle" <=> client[r] = "idle",
         events \in [Run -> SUBSET Event], S \subseteq Event, Call(S, settled)
  PROVE  \E r \in Run :
           /\ client[r] = "idle"
           /\ client' \in [Run -> {"idle", "waiting", "answered", "timeout", "refused"}]
           /\ events' \in [Run -> SUBSET Event]
           /\ \A s \in Run : client'[s] = IF s = r THEN "waiting" ELSE settled[s]
           /\ \A s \in Run : events'[s] = IF s = r THEN S ELSE events[s]
<1>1. PICK r \in Run : /\ client[r] = "idle"
                       /\ client' = [settled EXCEPT ![r] = "waiting"]
                       /\ events' = [events EXCEPT ![r] = S]
  BY DEF Call
<1> QED BY <1>1

(* A flush S that is taken out of the queue, when the page waits for nothing
   else once the calls have come to settled. *)
LEMMA FlushKeepsPage ==
  ASSUME PageInv, NEW S, S # {}, S \subseteq Event, NEW settled,
         settled \in [Run -> {"idle", "waiting", "answered", "timeout", "refused"}],
         \A r \in Run : settled[r] = "idle" <=> client[r] = "idle",
         \A r \in Run : settled[r] # "waiting",
         held = {}, Flush(S, settled), ready' = ready, seen' \subseteq Event,
         seen \subseteq seen', S \subseteq seen', queue \subseteq S, seen' \ seen \subseteq S,
         \A r \in Run : events[r] \cap S = {}
  PROVE  PageInv'
<1>1. queue' = {} /\ inProgress' = TRUE
  BY DEF Flush
<1>2. CASE ready
  <2>1. Call(S, settled) /\ held' = {}
    BY <1>2 DEF Flush
  <2>2. PICK r \in Run :
           /\ client[r] = "idle"
           /\ client' \in [Run -> {"idle", "waiting", "answered", "timeout", "refused"}]
           /\ events' \in [Run -> SUBSET Event]
           /\ \A s \in Run : client'[s] = IF s = r THEN "waiting" ELSE settled[s]
           /\ \A s \in Run : events'[s] = IF s = r THEN S ELSE events[s]
    BY <2>1, CallFacts DEF PageInv, TypeOK
  <2>3. TypeOK'
    BY <1>1, <2>1, <2>2 DEF PageInv, TypeOK
  <2>4. InOnePlace'
    BY <1>1, <2>1, <2>2 DEF PageInv, InOnePlace
  <2>5. OneAtATime'
    BY <1>1, <1>2, <2>1, <2>2 DEF PageInv, OneAtATime
  <2> QED BY <2>3, <2>4, <2>5 DEF PageInv
<1>3. CASE ~ready
  <2>1. held' = S /\ client' = settled /\ events' = events
    BY <1>3 DEF Flush
  <2>2. TypeOK'
    BY <1>1, <2>1 DEF PageInv, TypeOK
  <2>3. InOnePlace'
    BY <1>1, <2>1 DEF PageInv, InOnePlace
  <2>4. OneAtATime'
    BY <1>1, <1>3, <2>1 DEF PageInv, OneAtATime
  <2> QED BY <2>2, <2>3, <2>4 DEF PageInv
<1> QED BY <1>2, <1>3

(* An event that is added is queued, held or carried away by a call, and nowhere else. *)
LEMMA AddEventStep ==
  ASSUME PageInv, NEW e \in Event, AddEvent(e)
  PROVE  PageInv'
<1>1. e \notin seen /\ seen' = seen \cup {e} /\ ready' = ready
  BY DEF AddEvent
<1>2. CASE ~inProgress /\ Flush(queue \cup {e}, client)
  <2>1. held = {} /\ \A r \in Run : client[r] # "waiting"
    BY <1>2 DEF PageInv, OneAtATime
  <2>2. /\ queue \cup {e} \subseteq Event /\ seen' \subseteq Event
        /\ client \in [Run -> {"idle", "waiting", "answered", "timeout", "refused"}]
    BY <1>1 DEF PageInv, TypeOK
  <2>3. \A r \in Run : events[r] \cap (queue \cup {e}) = {}
    BY <1>1 DEF PageInv, InOnePlace
  <2>4. queue \cup {e} \subseteq seen'
    BY <1>1 DEF PageInv, InOnePlace
  <2> QED BY <1>1, <1>2, <2>1, <2>2, <2>3, <2>4, FlushKeepsPage
<1>3. CASE queue' = queue \cup {e} /\ UNCHANGED <<inProgress, held, client, events>>
  BY <1>1, <1>3 DEF PageInv, TypeOK, InOnePlace, OneAtATime
<1> QED BY <1>2, <1>3 DEF AddEvent

(* When the client is there, what was held is carried by one call or stays queued. *)
LEMMA ProxyReadyStep ==
  ASSUME PageInv, ProxyReady
  PROVE  PageInv'
<1>1. /\ ~ready /\ ready' = TRUE /\ held' = {}
      /\ UNCHANGED <<seen, queue, inProgress>>
  BY DEF ProxyReady
<1>2. \A r \in Run : client[r] = "idle" /\ events[r] = {}
  BY <1>1 DEF PageInv, OneAtATime, InOnePlace
<1>3. CASE held # {}
  <2>1. PICK r \in Run :
           /\ client[r] = "idle"
           /\ client' \in [Run -> {"idle", "waiting", "answered", "timeout", "refused"}]
           /\ events' \in [Run -> SUBSET Event]
           /\ \A s \in Run : client'[s] = IF s = r THEN "waiting" ELSE client[s]
           /\ \A s \in Run : events'[s] = IF s = r THEN held ELSE events[s]
    BY <1>3, CallFacts DEF ProxyReady, PageInv, TypeOK
  <2>2. TypeOK'
    BY <1>1, <2>1 DEF PageInv, TypeOK
  <2>3. InOnePlace'
    BY <1>1, <1>2, <2>1 DEF PageInv, InOnePlace
  <2>4. OneAtATime'
    BY <1>1, <1>2, <1>3, <2>1 DEF PageInv, OneAtATime
  <2> QED BY <2>2, <2>3, <2>4 DEF PageInv
<1>4. CASE held = {}
  <2>1. UNCHANGED <<client, events>>
    BY <1>4 DEF ProxyReady
  <2> QED BY <1>1, <1>4, <2>1 DEF PageInv, TypeOK, InOnePlace, OneAtATime
<1> QED BY <1>3, <1>4

(* The end of a call lets go of what it carried and of nothing else. *)
LEMMA SettlesStep ==
  ASSUME PageInv, NEW r \in Run, NEW how \in {"answered", "timeout", "refused"}, Settles(r, how)
  PROVE  PageInv'
<1> DEFINE settled == [client EXCEPT ![r] = how]
<1>1. client[r] = "waiting" /\ UNCHANGED <<seen, ready>>
  BY DEF Settles
<1>2. /\ settled \in [Run -> {"idle", "waiting", "answered", "timeout", "refused"}]
      /\ \A s \in Run : settled[s] = IF s = r THEN how ELSE client[s]
  BY DEF PageInv, TypeOK
<1>3. /\ \A s \in Run : settled[s] # "waiting"
      /\ \A s \in Run : settled[s] = "idle" <=> client[s] = "idle"
  BY <1>1, <1>2 DEF PageInv, OneAtATime
<1>4. ready /\ held = {}
  BY <1>1 DEF PageInv, OneAtATime
<1>5. CASE queue \ Never # {} /\ Flush(queue, settled)
  <2>1. queue # {} /\ queue \subseteq Event /\ seen' \subseteq Event /\ queue \subseteq seen'
        /\ seen' = seen /\ \A s \in Run : events[s] \cap queue = {}
    BY <1>1, <1>5 DEF PageInv, TypeOK, InOnePlace
  <2> HIDE DEF settled
  <2>2. seen' \ seen \subseteq queue /\ seen \subseteq seen' /\ queue \subseteq queue
    BY <2>1
  <2> QED BY <1>1, <1>2, <1>3, <1>4, <1>5, <2>1, <2>2, FlushKeepsPage
<1>6. CASE inProgress' = FALSE /\ client' = settled /\ UNCHANGED <<queue, held, events>>
  <2> HIDE DEF settled
  <2>1. TypeOK'
    BY <1>1, <1>2, <1>6 DEF PageInv, TypeOK
  <2>2. InOnePlace'
    BY <1>1, <1>3, <1>6 DEF PageInv, InOnePlace
  <2>3. OneAtATime'
    BY <1>1, <1>3, <1>4, <1>6 DEF PageInv, OneAtATime
  <2> QED BY <2>1, <2>2, <2>3 DEF PageInv
<1> QED BY <1>5, <1>6 DEF Settles

(* Every step keeps each event in one place and one call waited for. *)
LEMMA PageKept == PageInv /\ [Next]_vars => PageInv'
<1> SUFFICES ASSUME PageInv, [Next]_vars PROVE PageInv'
  OBVIOUS
<1>1. CASE UNCHANGED pageVars
  BY <1>1 DEF pageVars, PageInv, TypeOK, InOnePlace, OneAtATime
<1>2. ASSUME NEW r \in Run, CallReturns(r) \/ CallTimesOut(r) \/ CallRefused(r)
      PROVE  PageInv'
  BY <1>2, SettlesStep DEF CallReturns, CallTimesOut, CallRefused
<1>3. ASSUME NEW r \in Run, CallArrives(r)
      PROVE  PageInv'
  BY <1>1, <1>3 DEF CallArrives
<1>4. CASE GuideStep
  BY <1>1, <1>4 DEF GuideStep
<1>5. CASE UNCHANGED vars
  BY <1>1, <1>5 DEF vars
<1> QED BY <1>2, <1>3, <1>4, <1>5, AddEventStep, ProxyReadyStep DEF Next

-----------------------------------------------------------------------------
(* Every event that has happened is queued, held or sent, in exactly one place,
   and the queue defers its rolls exactly while the page waits, whatever times
   out or is refused (EventQueue, DarklingApp.handleFlush()). *)
THEOREM QueueIsSound == Spec => []QueueSound
<1>1. Init => PageInv
  BY DEF Init, PageInv, TypeOK, InOnePlace, OneAtATime
<1>2. PageInv => EventOnce
  <2> SUFFICES ASSUME PageInv, NEW e \in seen
               PROVE  Cardinality({r \in Run : e \in events[r]})
                        + (IF e \in queue THEN 1 ELSE 0) + (IF e \in held THEN 1 ELSE 0) = 1
    BY DEF EventOnce
  <2> DEFINE carriers == {r \in Run : e \in events[r]}
  <2>1. CASE \E r \in Run : e \in events[r]
    <3>1. PICK r \in Run : e \in events[r]
      BY <2>1
    <3>2. carriers = {r} /\ e \notin queue /\ e \notin held
      BY <3>1 DEF PageInv, InOnePlace
    <3>3. Cardinality(carriers) = 1
      BY <3>2, FS_Singleton
    <3> QED BY <3>2, <3>3
  <2>2. CASE ~ \E r \in Run : e \in events[r]
    <3>1. carriers = {} /\ (e \in queue \/ e \in held) /\ ~(e \in queue /\ e \in held)
      BY <2>2 DEF PageInv, InOnePlace
    <3>2. Cardinality(carriers) = 0
      BY <3>1, FS_EmptySet
    <3> QED BY <3>1, <3>2
  <2> QED BY <2>1, <2>2
<1>3. PageInv => DeferredWhileBusy
  <2> SUFFICES ASSUME PageInv PROVE DeferredWhileBusy
    OBVIOUS
  <2>1. CASE \E r \in Run : client[r] = "waiting"
    <3>1. PICK r \in Run : client[r] = "waiting"
      BY <2>1
    <3>2. Waiting = {r} /\ held = {} /\ inProgress
      BY <3>1 DEF PageInv, OneAtATime, Waiting
    <3>3. Cardinality(Waiting) = 1
      BY <3>2, FS_Singleton
    <3> QED BY <3>2, <3>3 DEF DeferredWhileBusy
  <2>2. CASE ~ \E r \in Run : client[r] = "waiting"
    <3>1. Waiting = {} /\ (inProgress <=> held # {})
      BY <2>2 DEF PageInv, OneAtATime, Waiting
    <3>2. Cardinality(Waiting) = 0
      BY <3>1, FS_EmptySet
    <3> QED BY <3>1, <3>2 DEF DeferredWhileBusy
  <2> QED BY <2>1, <2>2
<1>4. PageInv => QueueSound
  BY <1>2, <1>3 DEF QueueSound, PageInv
<1> QED BY <1>1, <1>4, PageKept, PTL DEF Spec

-----------------------------------------------------------------------------
(* Runs. *)

(* No step of a run but its first makes it going. *)
LEMMA LoopStepPhases ==
  ASSUME phase \in [Run -> Loop!Phases], Loop!LoopStep
  PROVE  /\ phase' \in [Run -> Loop!Phases]
         /\ \A r \in Run : Loop!Going(r)' => Loop!Going(r)
<1>1. ASSUME NEW r \in Run, NEW p \in {"turn", "dispatch", "finished", "cut off"},
             Loop!Going(r), phase' = [phase EXCEPT ![r] = p]
      PROVE  /\ phase' \in [Run -> Loop!Phases]
             /\ \A s \in Run : Loop!Going(s)' => Loop!Going(s)
  <2>1. \A s \in Run : phase'[s] = IF s = r THEN p ELSE phase[s]
    BY <1>1
  <2>2. phase' \in [Run -> Loop!Phases]
    BY <1>1 DEF Loop!Phases
  <2> QED BY <1>1, <2>1, <2>2 DEF Loop!Going
<1>2. CASE phase' = phase
  BY <1>2 DEF Loop!Going
<1>3. ASSUME NEW r \in Run, NEW how \in {"finished", "cut off"}, Loop!TurnEnds(r, how)
      PROVE  Loop!Going(r) /\ phase' = [phase EXCEPT ![r] = how]
  BY <1>3 DEF Loop!TurnEnds, Loop!End, Loop!Going
<1>4. ASSUME NEW r \in Run, NEW calls, NEW first, Loop!TurnCalls(r, calls, first)
      PROVE  Loop!Going(r) /\ phase' = [phase EXCEPT ![r] = "dispatch"]
  BY <1>4 DEF Loop!TurnCalls, Loop!Going
<1>5. ASSUME NEW r \in Run, Loop!DispatchEnds(r)
      PROVE  /\ Loop!Going(r)
             /\ \/ phase' = [phase EXCEPT ![r] = "cut off"]
                \/ phase' = [phase EXCEPT ![r] = "turn"]
  BY <1>5 DEF Loop!DispatchEnds, Loop!End, Loop!Going
<1>6. ASSUME NEW t \in ToolCall, NEW how, Loop!CallSettles(t, how)
      PROVE  phase' = phase
  BY <1>6 DEF Loop!CallSettles
<1> QED BY <1>1, <1>2, <1>3, <1>4, <1>5, <1>6 DEF Loop!LoopStep

(* What a step of the page makes of the calls. *)
LEMMA FlushedCalls ==
  ASSUME NEW S, NEW settled, Flush(S, settled), NEW q \in Run, client[q] # "idle",
         settled \in [Run -> {"idle", "waiting", "answered", "timeout", "refused"}]
  PROVE  client'[q] = settled[q]
<1>1. CASE ready
  <2>1. PICK r \in Run : client[r] = "idle" /\ client' = [settled EXCEPT ![r] = "waiting"]
    BY <1>1 DEF Flush, Call
  <2> QED BY <2>1
<1>2. CASE ~ready
  BY <1>2 DEF Flush
<1> QED BY <1>1, <1>2

(* Every step keeps the page waiting exactly while the loop runs, before the first timeout. *)
LEMMA WorkerKept ==
  ASSUME PageInv, WorkerInv, [Next]_vars
  PROVE  WorkerInv'
<1>1. client \in [Run -> {"idle", "waiting", "answered", "timeout", "refused"}]
  BY DEF PageInv, TypeOK
<1>2. ASSUME UNCHANGED phase,
             \A r \in Run : Loop!Going(r) => client'[r] \in {"waiting", "timeout"}
      PROVE  WorkerInv'
  BY <1>2 DEF WorkerInv, Loop!Going
<1>3. ASSUME NEW e \in Event, AddEvent(e)
      PROVE  WorkerInv'
  <2>1. UNCHANGED phase /\ (client' = client \/ Flush(queue \cup {e}, client))
    BY <1>3 DEF AddEvent, loopVars
  <2> QED BY <1>1, <1>2, <2>1, FlushedCalls DEF WorkerInv
<1>4. CASE ProxyReady
  <2>1. UNCHANGED phase /\ \A r \in Run : client[r] = "idle"
    BY <1>4 DEF ProxyReady, loopVars, PageInv, OneAtATime
  <2> QED BY <1>2, <2>1 DEF WorkerInv
<1>5. ASSUME NEW r \in Run, NEW how, Settles(r, how), Loop!Going(r) => how = "timeout",
             how \in {"answered", "timeout", "refused"}
      PROVE  WorkerInv'
  <2> DEFINE settled == [client EXCEPT ![r] = how]
  <2>1. UNCHANGED phase /\ (client' = settled \/ Flush(queue, settled))
    BY <1>5 DEF Settles, loopVars
  <2>2. /\ settled \in [Run -> {"idle", "waiting", "answered", "timeout", "refused"}]
        /\ \A s \in Run : settled[s] = IF s = r THEN how ELSE client[s]
    BY <1>1, <1>5
  <2> HIDE DEF settled
  <2>3. \A s \in Run : Loop!Going(s) => client[s] # "idle"
    BY DEF WorkerInv
  <2>4. \A s \in Run : Loop!Going(s) => client'[s] = settled[s]
    BY <2>1, <2>2, <2>3, FlushedCalls
  <2> QED BY <1>2, <1>5, <2>1, <2>2, <2>4 DEF WorkerInv
<1>6. ASSUME NEW r \in Run, CallReturns(r) \/ CallTimesOut(r) \/ CallRefused(r)
      PROVE  WorkerInv'
  <2>1. CASE CallReturns(r)
    BY <1>5, <2>1 DEF CallReturns, Loop!Going
  <2>2. CASE CallTimesOut(r)
    BY <1>5, <2>2 DEF CallTimesOut
  <2>3. CASE CallRefused(r)
    BY <1>5, <2>3 DEF CallRefused, Loop!Going
  <2> QED BY <1>6, <2>1, <2>2, <2>3
<1>7. ASSUME NEW r \in Run, CallArrives(r)
      PROVE  WorkerInv'
  <2>1. client[r] \in {"waiting", "timeout"} /\ client' = client
        /\ phase' = [phase EXCEPT ![r] = "turn"]
    BY <1>7 DEF CallArrives, Loop!StartRun, pageVars
  <2>2. phase' \in [Run -> Loop!Phases] /\ \A s \in Run : s # r => phase'[s] = phase[s]
    BY <2>1 DEF WorkerInv, Loop!Phases
  <2> QED BY <2>1, <2>2 DEF WorkerInv, Loop!Going
<1>8. CASE GuideStep
  <2>1. /\ client' = client /\ phase' \in [Run -> Loop!Phases]
        /\ \A r \in Run : Loop!Going(r)' => Loop!Going(r)
    BY <1>8, LoopStepPhases DEF GuideStep, pageVars, WorkerInv
  <2> QED BY <2>1 DEF WorkerInv
<1>9. CASE UNCHANGED vars
  BY <1>2, <1>9 DEF vars, pageVars, loopVars, WorkerInv
<1> QED BY <1>3, <1>4, <1>6, <1>7, <1>8, <1>9 DEF Next

(* Until a call has timed out the worker is driven as AgentLoop expects of its
   host: runInteraction() is not called while a run of an earlier call goes on
   (DarklingApp.runGuideInteraction(), EventQueue.endInteraction()). *)
THEOREM RunsDoNotOverlap == Spec => OneRunAtATime
<1>1. Init => PageInv /\ WorkerInv
  <2> SUFFICES ASSUME Init PROVE PageInv /\ WorkerInv
    OBVIOUS
  <2>1. PageInv
    BY DEF Init, PageInv, TypeOK, InOnePlace, OneAtATime
  <2>2. phase \in [Run -> Loop!Phases] /\ \A r \in Run : phase[r] = "idle"
    BY DEF Init, Loop!LoopInit, Loop!Phases
  <2>3. WorkerInv
    BY <2>2 DEF WorkerInv, Loop!Going
  <2> QED BY <2>1, <2>3
<1>2. PageInv /\ WorkerInv /\ [Next]_vars => PageInv' /\ WorkerInv'
  BY PageKept, WorkerKept
<1>3. PageInv /\ WorkerInv /\ [Next]_vars => [NoneTimedOut => Loop!Next]_loopVars
  <2> SUFFICES ASSUME PageInv, WorkerInv, [Next]_vars, NoneTimedOut, ~ UNCHANGED loopVars
               PROVE  Loop!Next
    OBVIOUS
  <2>1. \A e \in Event : ~AddEvent(e)
    BY DEF AddEvent
  <2>2. ~ProxyReady /\ ~ UNCHANGED vars
    BY DEF ProxyReady, vars
  <2>3. \A r \in Run : ~CallReturns(r) /\ ~CallTimesOut(r) /\ ~CallRefused(r)
    BY DEF CallReturns, CallTimesOut, CallRefused, Settles
  <2>4. CASE GuideStep
    BY <2>4 DEF GuideStep, Loop!Next
  <2>5. ASSUME NEW r \in Run, CallArrives(r)
        PROVE  Loop!Next
    <3>1. client[r] = "waiting" /\ Loop!StartRun(r, PremiumOf(events[r])) /\ phase[r] = "idle"
      BY <2>5 DEF CallArrives, NoneTimedOut, Loop!StartRun
    <3>2. PremiumOf(events[r]) \in {PremiumOf(S) : S \in SUBSET Event}
      BY DEF PageInv, TypeOK
    <3>3. \A s \in Run : ~Loop!Going(s)
      BY <3>1 DEF PageInv, OneAtATime, WorkerInv, NoneTimedOut, Loop!Going
    <3> QED BY <3>1, <3>2, <3>3 DEF Loop!Next
  <2> QED BY <2>1, <2>2, <2>3, <2>4, <2>5 DEF Next
<1> QED BY <1>1, <1>2, <1>3, PTL DEF Spec, OneRunAtATime
=============================================================================

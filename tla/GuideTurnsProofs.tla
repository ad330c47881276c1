---------------------------- MODULE GuideTurnsProofs ----------------------------
(***************************************************************************)
(* Proofs about GuideTurns, for any number of runs, however they overlap,   *)
(* and any tools and calls; and, at the end, about AgentLoop, whose host    *)
(* runs one at a time.                                                     *)
(***************************************************************************)
EXTENDS GuideTurns, SequenceLemmas, TLAPS

(* Calls carried over: with the loop, collected by the runs going on, or told
   of to one of them. *)
Told(r) == status[r].undispatched
Carried == undispatched \cup pendingUndispatched \cup UNION {Told(r) : r \in Run}

Shape ==
  /\ DOMAIN status = Run
  /\ call \in [ToolCall -> {"new", "running", "ok", "failed", "denied"}]
  /\ caller \in [ToolCall -> Run \cup {None}]
  /\ inTurn \in [ToolCall -> BOOLEAN]

(* What is carried was made, in a turn that is over; so no turn adds it again. *)
CarriedIsOver == \A t \in Carried : t \in ToolCall /\ ~inTurn[t] /\ call[t] # "new"

(* And it is in one place. *)
OnePlace ==
  /\ undispatched \cap pendingUndispatched = {}
  /\ \A r \in Run : Told(r) \cap (undispatched \cup pendingUndispatched) = {}

IInv == Shape /\ CarriedIsOver /\ OnePlace /\ ToldOnce

(* An end of a run passes on what was collected, and forgets the rest. *)
LEMMA EndStep ==
  ASSUME IInv, UNCHANGED <<status, call, caller, inTurn>>,
         undispatched' = pendingUndispatched, pendingUndispatched' = {}
  PROVE  IInv'
  BY DEF IInv, Shape, CarriedIsOver, Carried, OnePlace, ToldOnce, Told

(* The beginning of a run takes what is with the loop. *)
LEMMA StartStep ==
  ASSUME IInv, NEW r \in Run, NEW premium \in Premium, RunInteraction(r, premium)
  PROVE  IInv'
<1>1. /\ undispatched' = {} /\ pendingUndispatched' = pendingUndispatched
      /\ UNCHANGED <<call, caller, inTurn>>
  BY DEF RunInteraction, StartRun, callVars
<1>2. Shape'
  BY <1>1 DEF IInv, Shape, RunInteraction
<1>3. \A s \in Run : Told(s)' = IF s = r THEN undispatched ELSE Told(s)
  BY DEF IInv, Shape, RunInteraction, Told
<1>4. Carried' \subseteq Carried
  BY <1>1, <1>3 DEF Carried
<1>5. CarriedIsOver'
  BY <1>1, <1>4 DEF IInv, CarriedIsOver
<1>6. OnePlace' /\ ToldOnce'
  <2>1. \A s \in Run : Told(s) \cap undispatched = {} /\ Told(s) \cap pendingUndispatched = {}
    BY DEF IInv, OnePlace
  <2>2. undispatched \cap pendingUndispatched = {}
    BY DEF IInv, OnePlace
  <2>3. OnePlace'
    BY <1>1, <1>3, <2>1, <2>2 DEF OnePlace
  <2>4. \A s, q \in Run : s # q => Told(s) \cap Told(q) = {}
    BY DEF IInv, ToldOnce, Told
  <2>5. \A s, q \in Run : s # q => Told(s)' \cap Told(q)' = {}
    BY <1>3, <2>1, <2>4
  <2> QED
    BY <2>3, <2>5 DEF ToldOnce, Told
<1> QED
  BY <1>2, <1>5, <1>6 DEF IInv

(* The calls of a turn are new, and so none of them is carried already. *)
LEMMA CallsStep ==
  ASSUME IInv, NEW r \in Run, NEW calls, NEW first, TurnCalls(r, calls, first),
         UNCHANGED status
  PROVE  IInv'
<1> DEFINE made == {calls[i] : i \in DOMAIN calls}
<1>1. UNCHANGED <<undispatched, pendingUndispatched>>
  BY DEF TurnCalls, carriedVars
<1>2. Carried' = Carried
  BY <1>1 DEF Carried, Told
<1>3. call' \in [ToolCall -> {"new", "running", "ok", "failed", "denied"}]
  BY DEF IInv, Shape, TurnCalls
<1>4. caller' \in [ToolCall -> Run \cup {None}]
  BY DEF IInv, Shape, TurnCalls
<1>5. inTurn' \in [ToolCall -> BOOLEAN]
  BY Zenon DEF IInv, Shape, TurnCalls
<1>6. \A t \in made : call[t] = "new"
  BY DEF TurnCalls
<1>7. CarriedIsOver'
  <2> SUFFICES ASSUME NEW t \in Carried
               PROVE  t \in ToolCall /\ ~inTurn'[t] /\ call'[t] # "new"
    BY <1>2 DEF CarriedIsOver
  <2>1. t \in ToolCall /\ ~inTurn[t] /\ call[t] # "new"
    BY DEF IInv, CarriedIsOver
  <2>2. t \notin made
    BY <1>6, <2>1
  <2>3. inTurn'[t] = (t \in made \/ inTurn[t])
    BY <2>1 DEF TurnCalls
  <2>4. call'[t] # "new"
    <3> DEFINE admitted == {calls[i] : i \in 1 .. first - 1}
    <3>1. call'[t] = CASE t \in admitted -> "running"
                       [] t \in made \ admitted -> "denied"
                       [] OTHER -> call[t]
      BY <2>1 DEF TurnCalls
    <3> HIDE DEF admitted, made
    <3> QED
      BY <2>1, <2>2, <3>1
  <2> QED
    BY <2>1, <2>2, <2>3, <2>4
<1> QED
  BY <1>1, <1>3, <1>4, <1>5, <1>7 DEF IInv, Shape, OnePlace, ToldOnce, Told

(* A call that settles moves only itself to what its run has lost. *)
LEMMA SettlesStep ==
  ASSUME IInv, NEW t \in ToolCall, NEW how \in {"ok", "failed"}, CallSettles(t, how),
         UNCHANGED status
  PROVE  IInv'
<1>1. UNCHANGED <<undispatched, pendingUndispatched, caller, inTurn>>
  BY DEF CallSettles, carriedVars
<1>2. call' = [call EXCEPT ![t] = how]
  BY DEF CallSettles
<1>3. Carried' = Carried
  BY <1>1 DEF Carried, Told
<1>4. Shape'
  BY <1>1, <1>2 DEF IInv, Shape
<1>5. CarriedIsOver'
  BY <1>1, <1>2, <1>3 DEF IInv, Shape, CarriedIsOver
<1> QED
  BY <1>1, <1>4, <1>5 DEF IInv, OnePlace, ToldOnce, Told

(* What a turn adds was in that turn until then, and so nowhere else. *)
LEMMA DispatchStep ==
  ASSUME IInv, NEW r \in Run, DispatchEnds(r), UNCHANGED status
  PROVE  IInv'
<1> DEFINE added == {t \in CallsOf(r) : call[t] \in {"failed", "denied"}}
<1>1. UNCHANGED <<call, caller>>
  BY DEF DispatchEnds
<1>2. inTurn' = [t \in ToolCall |-> inTurn[t] /\ caller[t] # r]
  BY DEF DispatchEnds
<1>3. \/ undispatched' = pendingUndispatched \cup added /\ pendingUndispatched' = {}
      \/ undispatched' = undispatched /\ pendingUndispatched' = pendingUndispatched \cup added
  BY DEF DispatchEnds, End
<1>4. \A t \in added : t \in ToolCall /\ inTurn[t] /\ caller[t] = r /\ call[t] # "new"
  BY DEF CallsOf
<1> HIDE DEF added
<1>5. added \cap Carried = {}
  BY <1>4 DEF IInv, CarriedIsOver
<1>6. \A s \in Run : Told(s)' = Told(s) /\ Told(s) \subseteq Carried
  BY DEF Told, Carried
<1>7. Shape'
  <2>1. inTurn' \in [ToolCall -> BOOLEAN]
    BY <1>2, Zenon DEF IInv, Shape
  <2> QED
    BY <1>1, <2>1 DEF IInv, Shape
<1>8. Carried' \subseteq Carried \cup added
  BY <1>3, <1>6 DEF Carried
<1>9. CarriedIsOver'
  <2> SUFFICES ASSUME NEW t \in Carried \cup added
               PROVE  t \in ToolCall /\ ~inTurn'[t] /\ call[t] # "new"
    BY <1>1, <1>8 DEF CarriedIsOver
  <2>1. CASE t \in Carried
    BY <1>2, <2>1 DEF IInv, CarriedIsOver
  <2>2. CASE t \in added
    BY <1>2, <1>4, <2>2
  <2> QED
    BY <2>1, <2>2
<1>10. OnePlace'
  <2>1. undispatched \subseteq Carried /\ pendingUndispatched \subseteq Carried
    BY DEF Carried
  <2>2. undispatched \cap pendingUndispatched = {}
    BY DEF IInv, OnePlace
  <2>3. \A s \in Run : Told(s) \cap undispatched = {} /\ Told(s) \cap pendingUndispatched = {}
    BY DEF IInv, OnePlace
  <2>4. undispatched' \cap pendingUndispatched' = {}
    BY <1>3, <1>5, <2>1, <2>2
  <2>5. ASSUME NEW s \in Run
        PROVE  Told(s)' \cap (undispatched' \cup pendingUndispatched') = {}
    BY <1>3, <1>5, <1>6, <2>3
  <2> QED
    BY <2>4, <2>5 DEF OnePlace
<1>11. ToldOnce'
  BY DEF IInv, ToldOnce
<1> QED
  BY <1>7, <1>9, <1>10, <1>11 DEF IInv

(* ToldOnce for every value of the constants: of a call that was not dispatched
   or failed, at most one interaction is told, even when interactions overlap
   and share the fields of the loop (agent-loop.ts, lines 145-146 and 250-251). *)
THEOREM NoCallToldTwice == TurnSpec => []ToldOnce
<1>1. Init => IInv
  <2> SUFFICES ASSUME Init PROVE IInv
    OBVIOUS
  <2>1. /\ undispatched = {} /\ pendingUndispatched = {}
        /\ \A r \in Run : Told(r) = {}
    BY DEF Init, LoopInit, Told, NoStatus
  <2>2. Shape
    BY DEF Init, LoopInit, Shape
  <2> QED
    BY <2>1, <2>2 DEF IInv, CarriedIsOver, Carried, OnePlace, ToldOnce, Told
<1>2. IInv /\ [NextTurn]_vars => IInv'
  <2> SUFFICES ASSUME IInv, [NextTurn]_vars PROVE IInv'
    OBVIOUS
  <2>1. ASSUME NEW r \in Run, NEW premium \in Premium, RunInteraction(r, premium)
        PROVE  IInv'
    BY <2>1, StartStep
  <2>2. ASSUME NEW r \in Run, NEW response \in Response, NEW first,
               TurnSettles(r, response, first)
        PROVE  IInv'
    <3>1. ASSUME NEW how, TurnEnds(r, how) PROVE IInv'
      BY <2>2, <3>1, EndStep DEF TurnSettles, TurnEnds, End, callVars
    <3>2. ASSUME TurnCalls(r, parseResponse(response).toolCalls, first) PROVE IInv'
      BY <2>2, <3>2, CallsStep DEF TurnSettles
    <3> QED
      BY <2>2, <3>1, <3>2 DEF TurnSettles
  <2>3. ASSUME NEW r \in Run, TurnDispatched(r) PROVE IInv'
    BY <2>3, DispatchStep DEF TurnDispatched
  <2>4. ASSUME NEW t \in ToolCall, NEW how \in {"ok", "failed"}, ToolSettles(t, how)
        PROVE  IInv'
    BY <2>4, SettlesStep DEF ToolSettles, conversationVars
  <2>5. CASE UNCHANGED vars
    BY <2>5 DEF vars, loopVars, carriedVars, callVars, conversationVars, IInv, Shape,
                CarriedIsOver, Carried, OnePlace, ToldOnce, Told
  <2> QED
    BY <2>1, <2>2, <2>3, <2>4, <2>5 DEF NextTurn, TurnStep
<1>3. IInv => ToldOnce
  BY DEF IInv
<1> QED
  BY <1>1, <1>2, <1>3, PTL DEF TurnSpec

-----------------------------------------------------------------------------
(* Working memory. *)

(* The updates that took effect, or will have when they settle. *)
Took == {t \in Updating : call[t] # "denied"}
TookOf(n) == Latest(Only(SubSeq(issued, 1, n), Took), InitialMemory)

(* The loop's working memory is what the calls so far have made of it, and a
   run is told what those have that were made before it. *)
MemoryInv ==
  /\ Shape
  /\ issued \in Seq(ToolCall) /\ \A i \in 1 .. Len(issued) : call[issued[i]] # "new"
  /\ before \in [Run -> Nat] /\ \A r \in Run : before[r] <= Len(issued)
  /\ memory = TookOf(Len(issued))
  /\ \A r \in Run : status[r].memory = TookOf(before[r])

(* Updates behind others count from what the others leave. *)
LEMMA LatestConcat ==
  ASSUME NEW a \in Seq(ToolCall), NEW b \in Seq(ToolCall), NEW old
  PROVE  Latest(a \o b, old) = Latest(b, Latest(a, old))
<1>1. /\ Len(a) \in Nat /\ Len(b) \in Nat /\ Len(a \o b) = Len(a) + Len(b)
      /\ \A i \in 1 .. Len(b) : (a \o b)[Len(a) + i] = b[i]
  BY ConcatPlaces
<1>2. CASE b = <<>>
  <2>1. a \o b = a
    BY <1>2
  <2> QED BY <1>2, <2>1 DEF Latest
<1>3. CASE b # <<>>
  <2>1. Len(b) \in 1 .. Len(b) /\ Len(b) > 0
    BY <1>1, <1>3
  <2>2. a \o b # <<>>
    BY <1>1, <2>1
  <2>3. Last(a \o b) = Last(b)
    BY <1>1, <2>1 DEF Last
  <2> QED BY <1>3, <2>2, <2>3 DEF Latest
<1> QED BY <1>2, <1>3

(* What the calls of a turn make of working memory. *)
LEMMA CallsUpdate ==
  ASSUME MemoryInv, NEW r \in Run, NEW calls \in Seq(ToolCall), NEW first,
         TurnCalls(r, calls, first), memory' = MemoryAfter(calls, first),
         issued' = issued \o calls, UNCHANGED <<status, before>>
  PROVE  MemoryInv'
<1> DEFINE made == {calls[i] : i \in DOMAIN calls}
           admitted == {calls[i] : i \in 1 .. first - 1}
           front == SubSeq(calls, 1, first - 1)
           rest == SubSeq(calls, first, Len(calls))
           TookThen == Took'
<1>1. first - 1 \in 0 .. Len(calls) /\ (first - 1) + 1 = first
  BY DEF TurnCalls
<1>2. \A t \in ToolCall : call'[t] = CASE t \in admitted -> "running"
                                       [] t \in made \ admitted -> "denied"
                                       [] OTHER -> call[t]
  BY DEF TurnCalls
<1>3. \A t \in made : t \in ToolCall /\ call[t] = "new"
  BY DEF TurnCalls
<1>4. /\ front \in Seq(ToolCall) /\ Len(front) = first - 1
      /\ \A i \in 1 .. first - 1 : front[i] = calls[i]
      /\ rest \in Seq(ToolCall) /\ Len(rest) = Len(calls) - (first - 1)
      /\ \A i \in 1 .. Len(calls) - (first - 1) : rest[i] = calls[first - 1 + i]
      /\ front \o rest = calls
  <2> DEFINE n == first - 1
  <2>1. n \in 0 .. Len(calls) /\ n + 1 = first
    BY <1>1
  <2> HIDE DEF n
  <2>2. /\ SubSeq(calls, 1, n) \in Seq(ToolCall) /\ Len(SubSeq(calls, 1, n)) = n
        /\ \A i \in 1 .. n : SubSeq(calls, 1, n)[i] = calls[i]
        /\ SubSeq(calls, n + 1, Len(calls)) \in Seq(ToolCall)
        /\ Len(SubSeq(calls, n + 1, Len(calls))) = Len(calls) - n
        /\ \A i \in 1 .. Len(calls) - n : SubSeq(calls, n + 1, Len(calls))[i] = calls[n + i]
        /\ SubSeq(calls, 1, n) \o SubSeq(calls, n + 1, Len(calls)) = calls
    BY <2>1, FrontAndRest
  <2> QED BY <2>1, <2>2 DEF n
<1>5. \A i \in 1 .. first - 1 : front[i] \in admitted
  BY <1>4
<1>6. \A i \in 1 .. Len(rest) : rest[i] \in made \ admitted
  <2> SUFFICES ASSUME NEW i \in 1 .. Len(rest)
               PROVE  rest[i] \in made /\ rest[i] \notin admitted
    OBVIOUS
  <2>1. first - 1 + i \in DOMAIN calls /\ rest[i] = calls[first - 1 + i]
    <3> HIDE DEF rest
    <3>1. i \in 1 .. Len(calls) - (first - 1) /\ first \in Int /\ Len(calls) \in Nat
      BY <1>1, <1>4
    <3> QED BY <1>1, <1>4, <3>1
  <2>2. \A j \in 1 .. first - 1 : j \in DOMAIN calls /\ j # first - 1 + i
    BY <1>1
  <2>3. \A j \in 1 .. first - 1 : calls[j] # calls[first - 1 + i]
    BY <2>1, <2>2 DEF TurnCalls, Distinct
  <2> QED BY <2>1, <2>3
<1>7. \A t \in ToolCall : /\ t \in admitted => (t \in TookThen <=> t \in Updating)
                          /\ t \in made \ admitted => t \notin TookThen
                          /\ call[t] # "new" => (t \in TookThen <=> t \in Took) /\ call'[t] # "new"
                          /\ t \in made => call'[t] # "new"
  <2> SUFFICES ASSUME NEW t \in ToolCall
               PROVE  /\ t \in admitted => (t \in TookThen <=> t \in Updating)
                      /\ t \in made \ admitted => t \notin TookThen
                      /\ call[t] # "new" => (t \in TookThen <=> t \in Took) /\ call'[t] # "new"
                      /\ t \in made => call'[t] # "new"
    OBVIOUS
  <2>1. t \in TookThen <=> t \in Updating /\ call'[t] # "denied"
    BY DEF Took, Updating, Updates, Accepted
  <2>2. t \in Took <=> t \in Updating /\ call[t] # "denied"
    BY DEF Took
  <2>3. call[t] # "new" => t \notin made
    BY <1>3
  <2>4. t \in admitted => t \in made
    BY <1>1
  <2> HIDE DEF made, admitted, TookThen
  <2> QED BY <1>2, <2>1, <2>2, <2>3, <2>4
<1> HIDE DEF made, admitted, front, rest, TookThen
<1>8. Only(front, TookThen) = Only(front, Updating)
  <2>1. \A i \in 1 .. Len(front) : front[i] \in ToolCall /\ front[i] \in admitted
    BY <1>4, <1>5
  <2> QED BY <1>4, <1>7, <2>1, OnlySame
<1>9. Only(rest, TookThen) = <<>>
  <2>1. \A i \in 1 .. Len(rest) : rest[i] \in ToolCall /\ rest[i] \notin TookThen
    BY <1>4, <1>6, <1>7
  <2> QED BY <1>4, <2>1, OnlyAllOrNone
<1>10. Only(calls, TookThen) = Only(front, Updating)
  <2>1. Only(front \o rest, TookThen) = Only(front, TookThen) \o Only(rest, TookThen)
    <3>1. front \in Seq(ToolCall) /\ rest \in Seq(ToolCall)
      BY <1>4
    <3> QED BY <3>1, OnlyConcat
  <2>2. Only(front, Updating) \in Seq(ToolCall)
    BY <1>4, OnlyType
  <2>3. Only(front, Updating) \o <<>> = Only(front, Updating)
    BY <2>2
  <2> QED BY <1>4, <1>8, <1>9, <2>1, <2>3
<1>11. ASSUME NEW n \in 0 .. Len(issued)
       PROVE  Only(SubSeq(issued, 1, n), TookThen) = Only(SubSeq(issued, 1, n), Took)
  <2> DEFINE u == SubSeq(issued, 1, n)
  <2>1. u \in Seq(ToolCall) /\ Len(u) = n /\ \A i \in 1 .. n : u[i] = issued[i]
    BY FrontAndRest DEF MemoryInv
  <2>2. \A i \in 1 .. n : issued[i] \in ToolCall /\ call[issued[i]] # "new"
    BY DEF MemoryInv
  <2> HIDE DEF u
  <2>3. \A i \in 1 .. Len(u) : u[i] \in TookThen <=> u[i] \in Took
    BY <1>7, <2>1, <2>2
  <2>4. Only(u, TookThen) = Only(u, Took)
    BY <2>1, <2>3, OnlySame
  <2> QED BY <2>4 DEF u
<1>12. /\ issued \in Seq(ToolCall) /\ Len(issued) \in Nat /\ issued' \in Seq(ToolCall)
       /\ Len(issued') = Len(issued) + Len(calls) /\ Len(calls) \in Nat
       /\ \A i \in 1 .. Len(issued) : issued'[i] = issued[i]
       /\ \A i \in 1 .. Len(calls) : issued'[Len(issued) + i] = calls[i]
  <2>1. issued \in Seq(ToolCall)
    BY DEF MemoryInv
  <2> QED BY <2>1, ConcatPlaces
<1>13. ASSUME NEW n \in 0 .. Len(issued)
       PROVE  TookOf(n)' = TookOf(n)
  <2>1. SubSeq(issued', 1, n) = SubSeq(issued, 1, n)
    BY <1>12, FrontOfConcat
  <2> QED BY <1>11, <2>1 DEF TookOf, TookThen, Latest
<1>14. memory' = TookOf(Len(issued))'
  <2> DEFINE old == Only(issued, Took)
             new == Only(front, Updating)
  <2>1. old \in Seq(ToolCall) /\ new \in Seq(ToolCall)
    BY <1>4, <1>12, OnlyType
  <2>2. Only(issued', TookThen) = Only(issued, TookThen) \o Only(calls, TookThen)
    BY <1>12, OnlyConcat
  <2>3. Only(issued, TookThen) = old
    <3>1. Len(issued) \in 0 .. Len(issued) /\ SubSeq(issued, 1, Len(issued)) = issued
      BY <1>12
    <3> QED BY <1>11, <3>1
  <2>4. Only(issued', TookThen) = old \o new
    BY <1>10, <2>2, <2>3
  <2>5. memory = Latest(old, InitialMemory)
    <3>1. SubSeq(issued, 1, Len(issued)) = issued
      BY <1>12
    <3> QED BY <3>1 DEF MemoryInv, TookOf
  <2>6. memory' = Latest(new, memory)
    BY DEF MemoryAfter, front
  <2> HIDE DEF old, new
  <2>7. memory' = Latest(old \o new, InitialMemory)
    BY <2>1, <2>5, <2>6, LatestConcat
  <2>8. SubSeq(issued', 1, Len(issued')) = issued'
    BY <1>12
  <2> QED BY <2>4, <2>7, <2>8 DEF TookOf, TookThen, Latest
<1>15. \A i \in 1 .. Len(issued') : call'[issued'[i]] # "new"
  <2> SUFFICES ASSUME NEW i \in 1 .. Len(issued')
               PROVE  call'[issued'[i]] # "new"
    OBVIOUS
  <2>1. CASE i <= Len(issued)
    <3>1. issued'[i] = issued[i] /\ issued[i] \in ToolCall /\ call[issued[i]] # "new"
      BY <1>12, <2>1 DEF MemoryInv
    <3> QED BY <1>7, <3>1
  <2>2. CASE i > Len(issued)
    <3>1. i - Len(issued) \in 1 .. Len(calls) /\ Len(issued) + (i - Len(issued)) = i
      BY <1>12, <2>2
    <3>2. issued'[i] = calls[i - Len(issued)]
      BY <1>12, <3>1
    <3>3. issued'[i] \in made
      BY <3>1, <3>2 DEF made
    <3> QED BY <1>3, <1>7, <3>3
  <2>3. i <= Len(issued) \/ i > Len(issued)
    BY <1>12
  <2> QED BY <2>1, <2>2, <2>3
<1>16. Shape'
  <2>1. call' \in [ToolCall -> {"new", "running", "ok", "failed", "denied"}]
    BY DEF MemoryInv, Shape, TurnCalls
  <2>2. caller' \in [ToolCall -> Run \cup {None}]
    BY DEF MemoryInv, Shape, TurnCalls
  <2>3. inTurn' \in [ToolCall -> BOOLEAN]
    BY Zenon DEF MemoryInv, Shape, TurnCalls
  <2> QED BY <2>1, <2>2, <2>3 DEF MemoryInv, Shape
<1>17. /\ before' \in [Run -> Nat]
       /\ \A q \in Run : before'[q] <= Len(issued') /\ before[q] \in 0 .. Len(issued)
  BY <1>12 DEF MemoryInv
<1>18. \A q \in Run : status'[q].memory = TookOf(before[q])'
  BY <1>13, <1>17 DEF MemoryInv
<1> QED BY <1>12, <1>14, <1>15, <1>16, <1>17, <1>18 DEF MemoryInv

(* No calls are a sequence of calls. *)
LEMMA NoCalls == <<>> \in Seq(ToolCall)
  OBVIOUS

(* What the loop reads from an answer of the model is a sequence of calls. *)
LEMMA ParsedCalls ==
  ASSUME NEW response \in Response
  PROVE  parseResponse(response).toolCalls \in Seq(ToolCall)
<1>1. <<>> \in Seq(ToolCall)
  BY NoCalls
<1>2. response # Failure => response.tool_calls \in Batch
  BY DEF Response
<1>3. Failure.tool_calls = <<>>
  BY DEF Failure
<1>4. \A calls \in Batch : calls \in Seq(ToolCall)
  <2> SUFFICES ASSUME NEW n \in 0 .. MaxBatch, NEW calls \in [1 .. n -> ToolCall]
               PROVE  calls \in Seq(ToolCall)
    BY DEF Batch
  <2>1. n \in Nat
    BY LoopAssumption
  <2> QED BY <2>1
<1>5. parseResponse(response).toolCalls \in {<<>>, response.tool_calls}
  BY DEF parseResponse
<1> QED BY <1>1, <1>2, <1>3, <1>4, <1>5

(* A run is told what working memory is when it starts. *)
LEMMA StartTold ==
  ASSUME MemoryInv, NEW r \in Run, NEW premium \in Premium, RunInteraction(r, premium)
  PROVE  MemoryInv'
<1>1. UNCHANGED <<call, caller, inTurn, memory, issued>>
  BY DEF RunInteraction, StartRun, callVars
<1>2. \A q \in Run : /\ before'[q] = IF q = r THEN Len(issued) ELSE before[q]
                     /\ status'[q].memory = IF q = r THEN memory ELSE status[q].memory
  BY DEF MemoryInv, Shape, RunInteraction
<1>3. Shape'
  BY <1>1 DEF MemoryInv, Shape, RunInteraction
<1>4. Len(issued) \in Nat
  BY DEF MemoryInv
<1>5. before' \in [Run -> Nat] /\ \A q \in Run : before'[q] <= Len(issued)
  <2>1. before' = [before EXCEPT ![r] = Len(issued)]
    BY DEF RunInteraction
  <2> QED BY <1>4, <2>1 DEF MemoryInv
<1>6. \A n : TookOf(n)' = TookOf(n)
  BY <1>1 DEF TookOf, Took, Updating, Updates, Accepted, Latest
<1>7. \A q \in Run : status'[q].memory = TookOf(before'[q])
  BY <1>2 DEF MemoryInv
<1>8. \A q \in Run : status'[q].memory = TookOf(before[q])'
  BY <1>6, <1>7
<1>9. memory' = TookOf(Len(issued))'
  BY <1>1, <1>6 DEF MemoryInv
<1> QED BY <1>1, <1>3, <1>5, <1>8, <1>9 DEF MemoryInv

(* Nothing else touches working memory, and a call that settles was not denied. *)
LEMMA SettlesUpdate ==
  ASSUME MemoryInv, NEW t \in ToolCall, NEW how \in {"ok", "failed"}, ToolSettles(t, how)
  PROVE  MemoryInv'
<1>1. /\ UNCHANGED <<caller, inTurn, memory, issued, before, status>>
      /\ call[t] = "running" /\ call' = [call EXCEPT ![t] = how]
  BY DEF ToolSettles, CallSettles, conversationVars, conversationHistory
<1>2. \A u \in ToolCall : call'[u] = IF u = t THEN how ELSE call[u]
  BY <1>1 DEF MemoryInv, Shape
<1>3. Shape'
  BY <1>1 DEF MemoryInv, Shape
<1>4. Took' = Took
  BY <1>1, <1>2 DEF Took, Updating, Updates, Accepted
<1>5. \A n : TookOf(n)' = TookOf(n)
  BY <1>1, <1>4 DEF TookOf, Latest
<1>6. \A i \in 1 .. Len(issued') : call'[issued'[i]] # "new"
  <2>1. \A i \in 1 .. Len(issued) : issued[i] \in ToolCall /\ call[issued[i]] # "new"
    BY DEF MemoryInv
  <2> QED BY <1>1, <1>2, <2>1
<1> QED BY <1>1, <1>3, <1>5, <1>6 DEF MemoryInv

(* Steps that touch no update and no memory keep the invariant about memory. *)
LEMMA SameMemory ==
  ASSUME MemoryInv, UNCHANGED <<call, caller, memory, issued, before, status>>,
         inTurn' \in [ToolCall -> BOOLEAN]
  PROVE  MemoryInv'
<1>1. Shape'
  BY DEF MemoryInv, Shape
<1>2. \A n : TookOf(n)' = TookOf(n)
  BY DEF TookOf, Took, Updating, Updates, Accepted, Latest
<1> QED BY <1>1, <1>2 DEF MemoryInv

(* MemoryOfLastUpdate for every value of the constants: an interaction is told,
   in all of its turns, the value of the last update that took effect among
   those made before it, however interactions overlap and in whatever order
   calls settle (agent-loop.ts, runInteraction(); memory.ts). *)
THEOREM MemoryIsTold == TurnSpec => []MemoryOfLastUpdate
<1>1. Init => MemoryInv
  <2> SUFFICES ASSUME Init PROVE MemoryInv
    OBVIOUS
  <2>1. Shape
    BY DEF Init, LoopInit, Shape
  <2>2. issued = <<>> /\ issued \in Seq(ToolCall) /\ Len(issued) = 0
    BY DEF Init
  <2>3. TookOf(0) = InitialMemory
    <3>1. SubSeq(issued, 1, 0) = <<>>
      BY <2>2
    <3> QED BY <3>1, OnlyOfNone DEF TookOf, Latest
  <2>4. /\ memory = InitialMemory
        /\ \A r \in Run : before[r] = 0 /\ status[r].memory = InitialMemory
        /\ before \in [Run -> Nat]
    BY DEF Init, NoStatus
  <2> QED BY <2>1, <2>2, <2>3, <2>4 DEF MemoryInv
<1>2. MemoryInv /\ [NextTurn]_vars => MemoryInv'
  <2> SUFFICES ASSUME MemoryInv, [NextTurn]_vars PROVE MemoryInv'
    OBVIOUS
  <2>1. ASSUME NEW r \in Run, NEW premium \in Premium, RunInteraction(r, premium)
        PROVE  MemoryInv'
    BY <2>1, StartTold
  <2>2. ASSUME NEW r \in Run, NEW response \in Response, NEW first,
               TurnSettles(r, response, first)
        PROVE  MemoryInv'
    <3>1. ASSUME NEW how, TurnEnds(r, how), UNCHANGED <<memory, issued>> PROVE MemoryInv'
      <4>1. UNCHANGED <<call, caller, inTurn, memory, issued, before, status>>
        BY <2>2, <3>1 DEF TurnSettles, TurnEnds, callVars
      <4>2. inTurn' \in [ToolCall -> BOOLEAN]
        BY <4>1 DEF MemoryInv, Shape
      <4> QED BY <4>1, <4>2, SameMemory
    <3> DEFINE calls == parseResponse(response).toolCalls
    <3>2. ASSUME TurnCalls(r, calls, first), memory' = MemoryAfter(calls, first),
                 issued' = issued \o calls
          PROVE  MemoryInv'
      <4>1. calls \in Seq(ToolCall) /\ UNCHANGED <<status, before>>
        BY <2>2, ParsedCalls DEF TurnSettles
      <4> HIDE DEF calls
      <4> QED BY <3>2, <4>1, CallsUpdate
    <3> QED BY <2>2, <3>1, <3>2 DEF TurnSettles
  <2>3. ASSUME NEW r \in Run, TurnDispatched(r) PROVE MemoryInv'
    <3>1. UNCHANGED <<call, caller, memory, issued, before, status>>
      BY <2>3 DEF TurnDispatched, DispatchEnds
    <3>2. inTurn' \in [ToolCall -> BOOLEAN]
      BY <2>3, Zenon DEF TurnDispatched, DispatchEnds, MemoryInv, Shape
    <3> QED BY <3>1, <3>2, SameMemory
  <2>4. ASSUME NEW t \in ToolCall, NEW how \in {"ok", "failed"}, ToolSettles(t, how)
        PROVE  MemoryInv'
    BY <2>4, SettlesUpdate
  <2>5. CASE UNCHANGED vars
    <3>1. UNCHANGED <<call, caller, inTurn, memory, issued, before, status>>
      BY <2>5 DEF vars, loopVars, callVars, conversationVars, conversationHistory
    <3>2. inTurn' \in [ToolCall -> BOOLEAN]
      BY <3>1 DEF MemoryInv, Shape
    <3> QED BY <3>1, <3>2, SameMemory
  <2> QED
    BY <2>1, <2>2, <2>3, <2>4, <2>5 DEF NextTurn, TurnStep
<1>3. MemoryInv => MemoryOfLastUpdate
  BY DEF MemoryInv, MemoryOfLastUpdate, TookOf, Took
<1> QED
  BY <1>1, <1>2, <1>3, PTL DEF TurnSpec

-----------------------------------------------------------------------------
(* Undispatched calls of a host that waits. *)

Over(r) == phase[r] \in {"finished", "cut off"}
Lost(t) == call[t] \in {"failed", "denied"}
LastEnded == IF ended = <<>> THEN None ELSE Last(ended)

(* Where a call is follows from what it and its run are doing. *)
CallsOfRuns ==
  /\ phase \in [Run -> Phases] /\ DOMAIN status = Run
  /\ call \in [ToolCall -> {"new", "running", "ok", "failed", "denied"}]
  /\ caller \in [ToolCall -> Run \cup {None}]
  /\ inTurn \in [ToolCall -> BOOLEAN]
  /\ ended \in Seq(Run) /\ \A i \in 1 .. Len(ended) : Over(ended[i])
  /\ \A t \in ToolCall :
       /\ call[t] = "new" <=> caller[t] = None
       /\ inTurn[t] => caller[t] \in Run /\ phase[caller[t]] = "dispatch"
       /\ call[t] = "running" => inTurn[t]
       /\ caller[t] \in Run => phase[caller[t]] # "idle"
  /\ \A r \in Run : phase[r] # "idle" /\ status[r].last # None =>
       status[r].last \in Run /\ Over(status[r].last)

(* A call is in its turn, with the loop, collected or shown, never two of these. *)
Apart ==
  /\ undispatched \subseteq ToolCall /\ pendingUndispatched \subseteq ToolCall /\ shown \subseteq ToolCall
  /\ undispatched \cap pendingUndispatched = {} /\ undispatched \cap shown = {}
  /\ pendingUndispatched \cap shown = {}
  /\ \A t \in undispatched \cup pendingUndispatched \cup shown : ~inTurn[t] /\ call[t] # "new"

(* As long as no two runs have overlapped, the one going on collects its own,
   and what is left is what the last one left. *)
LostOf(q) == {t \in ToolCall : q # None /\ caller[t] = q /\ Lost(t)}
OneAfterTheOther ==
  /\ \A r, s \in Run : Going(r) /\ Going(s) => r = s
  /\ \A t \in ToolCall : Lost(t) =>
       inTurn[t] \/ t \in undispatched \/ t \in pendingUndispatched \/ t \in shown
  /\ \A r \in Run : Going(r) =>
       /\ undispatched = {}
       /\ pendingUndispatched = {t \in LostOf(r) : ~inTurn[t]}
  /\ (\A r \in Run : ~Going(r)) => pendingUndispatched = {} /\ undispatched = LostOf(LastEnded)
  /\ \A r \in Run : phase[r] # "idle" => Told(r) = LostOf(status[r].last)

CarryInv == CallsOfRuns /\ Apart /\ (~overlapped => OneAfterTheOther)

(* The last run that ended is over. *)
LEMMA LastIsOver ==
  ASSUME CallsOfRuns, LastEnded # None
  PROVE  LastEnded \in Run /\ Over(LastEnded)
<1>1. ended \in Seq(Run) /\ ended # <<>> /\ LastEnded = ended[Len(ended)]
  BY DEF CallsOfRuns, LastEnded, Last
<1>2. Len(ended) \in 1 .. Len(ended)
  BY <1>1
<1> QED BY <1>1, <1>2 DEF CallsOfRuns

(* A run that starts takes what the last one left, and is told of it. *)
LEMMA StartCarries ==
  ASSUME CarryInv, NEW r \in Run, NEW premium \in Premium, RunInteraction(r, premium)
  PROVE  CarryInv'
<1>1. /\ phase[r] = "idle" /\ undispatched' = {} /\ shown' = shown \cup undispatched
      /\ UNCHANGED <<pendingUndispatched, call, caller, inTurn, ended>>
      /\ overlapped' = (overlapped \/ \E s \in Run : Going(s))
  BY DEF RunInteraction, StartRun, callVars
<1>2. \A s \in Run : phase'[s] = IF s = r THEN "turn" ELSE phase[s]
  BY DEF RunInteraction, StartRun, CarryInv, CallsOfRuns
<1>3. \A s \in Run : /\ status'[s].undispatched = IF s = r THEN undispatched ELSE status[s].undispatched
                     /\ status'[s].last = IF s = r THEN LastEnded ELSE status[s].last
  BY DEF RunInteraction, CarryInv, CallsOfRuns, LastEnded
<1>4. \A s \in Run : /\ phase'[s] \in {"finished", "cut off"} <=> Over(s)
                     /\ Going(s)' <=> s = r \/ Going(s)
  BY <1>1, <1>2 DEF Over, Going
<1>5. CallsOfRuns'
  <2>1. phase' \in [Run -> Phases] /\ DOMAIN status' = Run
    BY DEF RunInteraction, StartRun, CarryInv, CallsOfRuns, Phases
  <2>2. \A i \in 1 .. Len(ended) : ended[i] \in Run /\ Over(ended[i])
    BY DEF CarryInv, CallsOfRuns
  <2>3. (\A i \in 1 .. Len(ended) : Over(ended[i]))'
    BY <1>1, <1>4, <2>2 DEF Over
  <2>4. \A t \in ToolCall :
          /\ call'[t] = "new" <=> caller'[t] = None
          /\ inTurn'[t] => caller'[t] \in Run /\ phase'[caller'[t]] = "dispatch"
          /\ call'[t] = "running" => inTurn'[t]
          /\ caller'[t] \in Run => phase'[caller'[t]] # "idle"
    BY <1>1, <1>2 DEF CarryInv, CallsOfRuns
  <2>5. (\A s \in Run : phase[s] # "idle" /\ status[s].last # None =>
           status[s].last \in Run /\ Over(status[s].last))'
    <3>1. LastEnded # None => LastEnded \in Run /\ Over(LastEnded)
      BY LastIsOver DEF CarryInv
    <3>2. \A s \in Run : phase[s] # "idle" /\ status[s].last # None =>
            status[s].last \in Run /\ Over(status[s].last)
      BY DEF CarryInv, CallsOfRuns
    <3>3. \A s \in Run : phase'[s] # "idle" /\ status'[s].last # None =>
            status'[s].last \in Run /\ Over(status'[s].last)
      BY <1>2, <1>3, <3>1, <3>2
    <3> QED BY <1>4, <3>3 DEF Over
  <2> QED BY <1>1, <2>1, <2>3, <2>4, <2>5 DEF CarryInv, CallsOfRuns
<1>6. Apart'
  BY <1>1 DEF CarryInv, Apart
<1>7. ASSUME ~overlapped'
      PROVE  OneAfterTheOther'
  <2>1. ~overlapped /\ \A s \in Run : ~Going(s)
    BY <1>1, <1>7
  <2>2. pendingUndispatched = {} /\ undispatched = LostOf(LastEnded)
    BY <2>1 DEF CarryInv, OneAfterTheOther
  <2>3. \A q : LostOf(q)' = LostOf(q)
    BY <1>1 DEF LostOf, Lost
  <2>4. \A t \in ToolCall : caller[t] # r
    BY <1>1 DEF CarryInv, CallsOfRuns
  <2>5. LostOf(r) = {}
    BY <2>4 DEF LostOf
  <2>6. (\A s \in Run : phase[s] # "idle" => Told(s) = LostOf(status[s].last))'
    <3>1. \A s \in Run : phase[s] # "idle" => Told(s) = LostOf(status[s].last)
      BY <2>1 DEF CarryInv, OneAfterTheOther
    <3>2. \A s \in Run : s # r /\ phase'[s] # "idle" => Told(s)' = LostOf(status'[s].last)
      BY <1>2, <1>3, <3>1 DEF Told
    <3>3. Told(r)' = LostOf(status'[r].last)
      BY <1>3, <2>2 DEF Told
    <3>4. \A s \in Run : LostOf(status[s].last)' = LostOf(status'[s].last)
      BY <1>1 DEF LostOf, Lost
    <3> QED BY <3>2, <3>3, <3>4
  <2>7. \A t \in ToolCall : Lost(t)' =>
          inTurn'[t] \/ t \in undispatched' \/ t \in pendingUndispatched' \/ t \in shown'
    BY <1>1, <2>1 DEF CarryInv, OneAfterTheOther, Lost
  <2>8. \A s \in Run : Going(s)' => s = r
    BY <1>4, <2>1
  <2>9. pendingUndispatched' = {t \in LostOf(r)' : ~inTurn'[t]}
    BY <1>1, <2>2, <2>3, <2>5
  <2>10. \A s \in Run : Going(s)' => undispatched' = {} /\ pendingUndispatched' = {t \in LostOf(s)' : ~inTurn'[t]}
    BY <1>1, <2>8, <2>9
  <2>11. ~ \A s \in Run : ~Going(s)'
    BY <1>4
  <2>12. \A s, q \in Run : Going(s)' /\ Going(q)' => s = q
    BY <2>8
  <2> QED BY <2>6, <2>7, <2>10, <2>11, <2>12, Zenon DEF OneAfterTheOther
<1> QED BY <1>5, <1>6, <1>7 DEF CarryInv

(* Only runs end. *)
LEMMA EndedRuns == ended \in Seq(Run) => \A i \in 1 .. Len(ended) : ended[i] \in Run
  OBVIOUS

(* The place that an end of a run takes. *)
LEMMA EndedPlaces ==
  ASSUME ended \in Seq(Run), NEW r \in Run, ended' = Append(ended, r)
  PROVE  /\ ended' \in Seq(Run) /\ Len(ended) \in Nat /\ Len(ended') = Len(ended) + 1
         /\ ended'[Len(ended) + 1] = r /\ ended' # <<>>
         /\ \A i \in 1 .. Len(ended) : ended'[i] = ended[i]
         /\ \A i \in 1 .. Len(ended') : i \in 1 .. Len(ended) \/ i = Len(ended) + 1
<1> DEFINE e == Append(ended, r)
<1>1. /\ e \in Seq(Run) /\ Len(ended) \in Nat /\ Len(e) = Len(ended) + 1
      /\ e[Len(ended) + 1] = r /\ e # <<>>
      /\ \A i \in 1 .. Len(ended) : e[i] = ended[i]
      /\ \A i \in 1 .. Len(e) : i \in 1 .. Len(ended) \/ i = Len(ended) + 1
  <2>1. e \in Seq(Run) /\ e # <<>> /\ Len(ended) \in Nat /\ Len(e) = Len(ended) + 1
    OBVIOUS
  <2>2. e[Len(ended) + 1] = r /\ \A i \in 1 .. Len(ended) : e[i] = ended[i]
    OBVIOUS
  <2>3. \A m \in Nat : \A i \in 1 .. m + 1 : i \in 1 .. m \/ i = m + 1
    OBVIOUS
  <2> HIDE DEF e
  <2> QED BY <2>1, <2>2, <2>3
<1> HIDE DEF e
<1>2. ended' = e
  BY DEF e
<1> QED BY <1>1, <1>2

(* A run that ends leaves what it has lost, in its last turn and before. *)
LEMMA EndCarries ==
  ASSUME CarryInv, NEW r \in Run, Going(r), AllSettled(r), NEW how \in {"finished", "cut off"},
         UNCHANGED <<call, caller, shown, status, overlapped>>,
         phase' = [phase EXCEPT ![r] = how], ended' = Append(ended, r),
         undispatched' = pendingUndispatched \cup {t \in CallsOf(r) : Lost(t)},
         pendingUndispatched' = {},
         inTurn' = [t \in ToolCall |-> inTurn[t] /\ caller[t] # r]
  PROVE  CarryInv'
<1>1. how # "idle" /\ \A s \in Run : phase'[s] = IF s = r THEN how ELSE phase[s]
  BY DEF CarryInv, CallsOfRuns
<1>2. \A t \in ToolCall : inTurn'[t] <=> inTurn[t] /\ caller[t] # r
  OBVIOUS
<1>3. \A t \in ToolCall : t \in undispatched' <=>
        t \in pendingUndispatched \/ (inTurn[t] /\ caller[t] = r /\ Lost(t))
  BY DEF CallsOf
<1>4. \A s \in Run : Going(s)' <=> s # r /\ Going(s)
  BY <1>1 DEF Going
<1>5. \A s \in Run : phase'[s] \in {"finished", "cut off"} <=> s = r \/ Over(s)
  BY <1>1 DEF Over
<1>6. \A t \in ToolCall : inTurn[t] /\ caller[t] = r => call[t] # "running"
  BY DEF AllSettled, CallsOf
<1>7. /\ ended' \in Seq(Run) /\ Len(ended) \in Nat /\ Len(ended') = Len(ended) + 1
      /\ \A i \in 1 .. Len(ended) : ended'[i] = ended[i]
      /\ ended'[Len(ended) + 1] = r /\ ended' # <<>>
      /\ \A i \in 1 .. Len(ended') : i \in 1 .. Len(ended) \/ i = Len(ended) + 1
  <2>1. ended \in Seq(Run)
    BY DEF CarryInv, CallsOfRuns
  <2> QED BY <2>1, EndedPlaces
<1>8. CallsOfRuns'
  <2>1. phase' \in [Run -> Phases]
    BY DEF CarryInv, CallsOfRuns, Phases
  <2>2. inTurn' \in [ToolCall -> BOOLEAN]
    BY Zenon DEF CarryInv, CallsOfRuns
  <2>3. (\A i \in 1 .. Len(ended) : Over(ended[i]))'
    <3> SUFFICES ASSUME NEW i \in 1 .. Len(ended')
                 PROVE  phase'[ended'[i]] \in {"finished", "cut off"}
      BY DEF Over
    <3>1. CASE i \in 1 .. Len(ended)
      <4>1. ended'[i] = ended[i]
        BY <1>7, <3>1
      <4>2. ended[i] \in Run /\ Over(ended[i])
        <5>1. ended \in Seq(Run) /\ \A j \in 1 .. Len(ended) : Over(ended[j])
          BY DEF CarryInv, CallsOfRuns
        <5>2. ended[i] \in Run
          BY <3>1, <5>1, EndedRuns
        <5>3. Over(ended[i])
          BY <3>1, <5>1
        <5> QED BY <5>2, <5>3
      <4> QED BY <1>5, <4>1, <4>2
    <3>2. CASE i = Len(ended) + 1
      BY <1>5, <1>7, <3>2
    <3> QED BY <1>7, <3>1, <3>2
  <2>4. \A t \in ToolCall :
          /\ call[t] = "new" <=> caller[t] = None
          /\ inTurn[t] => caller[t] \in Run /\ phase[caller[t]] = "dispatch"
          /\ call[t] = "running" => inTurn[t]
          /\ caller[t] \in Run => phase[caller[t]] # "idle"
    BY DEF CarryInv, CallsOfRuns
  <2>5. \A t \in ToolCall :
          /\ inTurn'[t] => caller[t] \in Run /\ phase'[caller[t]] = "dispatch"
          /\ call[t] = "running" => inTurn'[t]
          /\ caller[t] \in Run => phase'[caller[t]] # "idle"
    <3> SUFFICES ASSUME NEW t \in ToolCall
                 PROVE  /\ inTurn'[t] => caller[t] \in Run /\ phase'[caller[t]] = "dispatch"
                        /\ call[t] = "running" => inTurn'[t]
                        /\ caller[t] \in Run => phase'[caller[t]] # "idle"
      OBVIOUS
    <3>1. inTurn'[t] => caller[t] \in Run /\ phase'[caller[t]] = "dispatch"
      <4>1. inTurn'[t] => inTurn[t] /\ caller[t] # r
        BY <1>2
      <4>2. inTurn[t] => caller[t] \in Run /\ phase[caller[t]] = "dispatch"
        BY <2>4
      <4>3. caller[t] \in Run /\ caller[t] # r => phase'[caller[t]] = phase[caller[t]]
        BY <1>1
      <4> QED BY <4>1, <4>2, <4>3
    <3>2. call[t] = "running" => inTurn'[t]
      BY <1>2, <1>6, <2>4
    <3>3. caller[t] \in Run => phase'[caller[t]] # "idle"
      <4>1. caller[t] \in Run => phase[caller[t]] # "idle"
        BY <2>4
      <4>2. caller[t] \in Run => phase'[caller[t]] \in {how, phase[caller[t]]}
        BY <1>1
      <4> QED BY <1>1, <4>1, <4>2
    <3> QED BY <3>1, <3>2, <3>3
  <2>6. (\A s \in Run : phase[s] # "idle" /\ status[s].last # None =>
           status[s].last \in Run /\ Over(status[s].last))'
    <3>1. phase[r] # "idle"
      BY DEF Going
    <3>2. \A s \in Run : phase[s] # "idle" /\ status[s].last # None =>
            status[s].last \in Run /\ Over(status[s].last)
      BY DEF CarryInv, CallsOfRuns
    <3>3. \A s \in Run : phase'[s] # "idle" /\ status[s].last # None =>
            status[s].last \in Run /\ phase'[status[s].last] \in {"finished", "cut off"}
      BY <1>1, <1>5, <3>1, <3>2
    <3> QED BY <3>3 DEF Over
  <2> QED BY <1>7, <2>1, <2>2, <2>3, <2>4, <2>5, <2>6 DEF CarryInv, CallsOfRuns
<1>9. Apart'
  <2>1. /\ undispatched' \subseteq ToolCall /\ undispatched' \cap shown = {}
        /\ \A t \in undispatched' : ~inTurn'[t]
    BY <1>2, <1>3 DEF CarryInv, Apart, CallsOf
  <2>2. \A t \in undispatched' : call[t] # "new"
    BY <1>3, <2>1 DEF CarryInv, Apart, Lost
  <2>3. \A t \in shown : t \in ToolCall /\ ~inTurn'[t] /\ call[t] # "new"
    BY <1>2 DEF CarryInv, Apart
  <2> QED BY <2>1, <2>2, <2>3 DEF Apart
<1>10. ASSUME ~overlapped'
       PROVE  OneAfterTheOther'
  <2>1. OneAfterTheOther
    BY <1>10 DEF CarryInv
  <2>2. \A s \in Run : Going(s) => s = r
    BY <2>1 DEF OneAfterTheOther
  <2>3. undispatched = {} /\ pendingUndispatched = {t \in LostOf(r) : ~inTurn[t]}
    BY <2>1 DEF OneAfterTheOther
  <2>4. \A q : LostOf(q)' = LostOf(q)
    BY DEF LostOf, Lost
  <2>5. r # None
    BY LoopAssumption
  <2>6. undispatched' = LostOf(r)
    <3>1. \A t \in ToolCall : t \in LostOf(r) <=> caller[t] = r /\ Lost(t)
      BY <2>5 DEF LostOf
    <3>2. undispatched' \subseteq ToolCall /\ LostOf(r) \subseteq ToolCall
      BY <1>9 DEF Apart, LostOf
    <3> QED BY <1>3, <2>3, <3>1, <3>2
  <2>7. LastEnded' = r
    <3>1. LastEnded' = ended'[Len(ended')]
      BY <1>7 DEF LastEnded, Last
    <3> QED BY <1>7, <3>1
  <2>9. \A s \in Run : ~Going(s)'
    BY <1>4, <2>2
  <2>10. (\A s \in Run : phase[s] # "idle" => Told(s) = LostOf(status[s].last))'
    <3>1. \A s \in Run : phase[s] # "idle" => Told(s) = LostOf(status[s].last)
      BY <2>1 DEF OneAfterTheOther
    <3>2. \A s \in Run : phase'[s] # "idle" => phase[s] # "idle"
      BY <1>1 DEF Going
    <3>3. \A s \in Run : LostOf(status[s].last)' = LostOf(status[s].last)
      BY DEF LostOf, Lost
    <3> QED BY <3>1, <3>2, <3>3 DEF Told
  <2>11. \A t \in ToolCall : Lost(t) =>
           inTurn'[t] \/ t \in undispatched' \/ t \in shown
    <3>1. \A t \in ToolCall : Lost(t) =>
            inTurn[t] \/ t \in undispatched \/ t \in pendingUndispatched \/ t \in shown
      BY <2>1 DEF OneAfterTheOther
    <3> QED BY <1>2, <1>3, <2>3, <3>1
  <2>12. \A t \in ToolCall : Lost(t)' <=> Lost(t)
    BY DEF Lost
  <2>13. LostOf(LastEnded)' = LostOf(r)
    BY <2>4, <2>7 DEF LostOf, Lost
  <2> QED BY <2>6, <2>9, <2>10, <2>11, <2>12, <2>13 DEF OneAfterTheOther
<1> QED BY <1>8, <1>9, <1>10 DEF CarryInv

(* A run that goes on collects what its last turn has lost. *)
LEMMA GoesOnCarries ==
  ASSUME CarryInv, NEW r \in Run, phase[r] = "dispatch", AllSettled(r),
         UNCHANGED <<call, caller, shown, status, overlapped, ended, undispatched>>,
         phase' = [phase EXCEPT ![r] = "turn"],
         pendingUndispatched' = pendingUndispatched \cup {t \in CallsOf(r) : Lost(t)},
         inTurn' = [t \in ToolCall |-> inTurn[t] /\ caller[t] # r]
  PROVE  CarryInv'
<1>1. \A s \in Run : phase'[s] = IF s = r THEN "turn" ELSE phase[s]
  BY DEF CarryInv, CallsOfRuns
<1>2. \A t \in ToolCall : inTurn'[t] <=> inTurn[t] /\ caller[t] # r
  OBVIOUS
<1>3. \A t \in ToolCall : t \in pendingUndispatched' <=>
        t \in pendingUndispatched \/ (inTurn[t] /\ caller[t] = r /\ Lost(t))
  BY DEF CallsOf
<1>4. \A s \in Run : /\ Going(s)' <=> Going(s)
                     /\ phase'[s] \in {"finished", "cut off"} <=> Over(s)
                     /\ phase'[s] # "idle" <=> phase[s] # "idle"
  <2>1. \A s \in Run : (phase'[s] = phase[s]) \/ (/\ phase[s] \in {"turn", "dispatch"}
                                                /\ phase'[s] \in {"turn", "dispatch"})
    BY <1>1
  <2>2. \A s \in Run : Going(s)' <=> phase'[s] \in {"turn", "dispatch"}
    BY DEF Going
  <2> QED BY <2>1, <2>2 DEF Going, Over
<1>5. \A t \in ToolCall : inTurn[t] /\ caller[t] = r => call[t] # "running"
  BY DEF AllSettled, CallsOf
<1>6. CallsOfRuns'
  <2>1. phase' \in [Run -> Phases]
    BY DEF CarryInv, CallsOfRuns, Phases
  <2>2. inTurn' \in [ToolCall -> BOOLEAN]
    BY Zenon DEF CarryInv, CallsOfRuns
  <2>3. (\A i \in 1 .. Len(ended) : Over(ended[i]))'
    <3>1. \A i \in 1 .. Len(ended) : ended[i] \in Run /\ Over(ended[i])
      BY EndedRuns DEF CarryInv, CallsOfRuns
    <3> QED BY <1>4, <3>1 DEF Over
  <2>4. \A t \in ToolCall :
          /\ call[t] = "new" <=> caller[t] = None
          /\ inTurn[t] => caller[t] \in Run /\ phase[caller[t]] = "dispatch"
          /\ call[t] = "running" => inTurn[t]
          /\ caller[t] \in Run => phase[caller[t]] # "idle"
    BY DEF CarryInv, CallsOfRuns
  <2>5. \A t \in ToolCall :
          /\ inTurn'[t] => caller[t] \in Run /\ phase'[caller[t]] = "dispatch"
          /\ call[t] = "running" => inTurn'[t]
          /\ caller[t] \in Run => phase'[caller[t]] # "idle"
    <3> SUFFICES ASSUME NEW t \in ToolCall
                 PROVE  /\ inTurn'[t] => caller[t] \in Run /\ phase'[caller[t]] = "dispatch"
                        /\ call[t] = "running" => inTurn'[t]
                        /\ caller[t] \in Run => phase'[caller[t]] # "idle"
      OBVIOUS
    <3>1. inTurn'[t] => caller[t] \in Run /\ phase'[caller[t]] = "dispatch"
      BY <1>1, <1>2, <2>4
    <3>2. call[t] = "running" => inTurn'[t]
      BY <1>2, <1>5, <2>4
    <3>3. caller[t] \in Run => phase'[caller[t]] # "idle"
      BY <1>4, <2>4
    <3> QED BY <3>1, <3>2, <3>3
  <2>6. (\A s \in Run : phase[s] # "idle" /\ status[s].last # None =>
           status[s].last \in Run /\ Over(status[s].last))'
    <3>1. \A s \in Run : phase[s] # "idle" /\ status[s].last # None =>
            status[s].last \in Run /\ Over(status[s].last)
      BY DEF CarryInv, CallsOfRuns
    <3> QED BY <1>4, <3>1 DEF Over
  <2> QED BY <2>1, <2>2, <2>3, <2>4, <2>5, <2>6 DEF CarryInv, CallsOfRuns
<1>7. Apart'
  <2>1. /\ pendingUndispatched' \subseteq ToolCall /\ pendingUndispatched' \cap shown = {}
        /\ undispatched \cap pendingUndispatched' = {}
        /\ \A t \in pendingUndispatched' : ~inTurn'[t]
    BY <1>2, <1>3 DEF CarryInv, Apart, CallsOf
  <2>2. \A t \in pendingUndispatched' : call[t] # "new"
    BY <1>3, <2>1 DEF CarryInv, Apart, Lost
  <2>3. \A t \in undispatched \cup shown : t \in ToolCall /\ ~inTurn'[t] /\ call[t] # "new"
    BY <1>2 DEF CarryInv, Apart
  <2>4. undispatched \cap shown = {}
    BY DEF CarryInv, Apart
  <2> QED BY <2>1, <2>2, <2>3, <2>4 DEF Apart
<1>8. ASSUME ~overlapped'
      PROVE  OneAfterTheOther'
  <2>1. OneAfterTheOther /\ Going(r)
    BY <1>8 DEF CarryInv, Going
  <2>2. \A s \in Run : Going(s) => s = r
    BY <2>1 DEF OneAfterTheOther
  <2>3. undispatched = {} /\ pendingUndispatched = {t \in LostOf(r) : ~inTurn[t]}
    BY <2>1 DEF OneAfterTheOther
  <2>4. \A q : LostOf(q)' = LostOf(q)
    BY DEF LostOf, Lost
  <2>5. r # None
    BY LoopAssumption
  <2>6. pendingUndispatched' = {t \in LostOf(r) : ~inTurn'[t]}
    <3>1. \A t \in ToolCall : t \in LostOf(r) <=> caller[t] = r /\ Lost(t)
      BY <2>5 DEF LostOf
    <3>2. pendingUndispatched' \subseteq ToolCall /\ LostOf(r) \subseteq ToolCall
      BY <1>7 DEF Apart, LostOf
    <3> QED BY <1>2, <1>3, <2>3, <3>1, <3>2
  <2>7. \A s \in Run : Going(s)' => s = r
    BY <1>4, <2>2
  <2>8. \A s \in Run : Going(s)' => undispatched' = {} /\ pendingUndispatched' = {t \in LostOf(s)' : ~inTurn'[t]}
    BY <2>3, <2>4, <2>6, <2>7
  <2>9. Going(r)'
    BY <1>4, <2>1
  <2>10. (\A s \in Run : phase[s] # "idle" => Told(s) = LostOf(status[s].last))'
    <3>1. \A s \in Run : phase[s] # "idle" => Told(s) = LostOf(status[s].last)
      BY <2>1 DEF OneAfterTheOther
    <3>2. \A s \in Run : LostOf(status[s].last)' = LostOf(status[s].last)
      BY DEF LostOf, Lost
    <3> QED BY <1>4, <3>1, <3>2 DEF Told
  <2>11. (\A t \in ToolCall : Lost(t) =>
           inTurn[t] \/ t \in undispatched \/ t \in pendingUndispatched \/ t \in shown)'
    <3>1. \A t \in ToolCall : Lost(t) =>
            inTurn[t] \/ t \in undispatched \/ t \in pendingUndispatched \/ t \in shown
      BY <2>1 DEF OneAfterTheOther
    <3>2. \A t \in ToolCall : Lost(t)' <=> Lost(t)
      BY DEF Lost
    <3> QED BY <1>2, <1>3, <3>1, <3>2
  <2>12. \A s, q \in Run : Going(s)' /\ Going(q)' => s = q
    BY <2>7
  <2>13. ~ \A s \in Run : ~Going(s)'
    BY <2>9
  <2> QED BY <2>8, <2>10, <2>11, <2>12, <2>13, Zenon DEF OneAfterTheOther
<1> QED BY <1>6, <1>7, <1>8 DEF CarryInv

(* What a turn makes is in that turn. *)
LEMMA CallsCarry ==
  ASSUME CarryInv, NEW r \in Run, NEW calls \in Seq(ToolCall), NEW first,
         TurnCalls(r, calls, first), UNCHANGED <<status, ended, overlapped>>
  PROVE  CarryInv'
<1> DEFINE made == {calls[i] : i \in DOMAIN calls}
           admitted == {calls[i] : i \in 1 .. first - 1}
<1>1. /\ phase[r] = "turn" /\ phase' = [phase EXCEPT ![r] = "dispatch"]
      /\ UNCHANGED <<undispatched, pendingUndispatched, shown>>
  BY DEF TurnCalls, carriedVars
<1>2. \A t \in made : t \in ToolCall /\ call[t] = "new"
  BY DEF TurnCalls
<1>3. admitted \subseteq made
  BY DEF TurnCalls
<1>4. /\ call' = [t \in ToolCall |-> CASE t \in admitted -> "running"
                                       [] t \in made \ admitted -> "denied"
                                       [] OTHER -> call[t]]
      /\ caller' = [t \in ToolCall |-> IF t \in made THEN r ELSE caller[t]]
      /\ inTurn' = [t \in ToolCall |-> t \in made \/ inTurn[t]]
  BY DEF TurnCalls
<1> HIDE DEF made, admitted
<1>5. \A t \in ToolCall : /\ t \in made => call'[t] \in {"running", "denied"}
                          /\ t \notin made => call'[t] = call[t]
  BY <1>3, <1>4
<1>6. \A t \in ToolCall : /\ caller'[t] = IF t \in made THEN r ELSE caller[t]
                          /\ inTurn'[t] <=> t \in made \/ inTurn[t]
  BY <1>4
<1>7. \A s \in Run : phase'[s] = IF s = r THEN "dispatch" ELSE phase[s]
  BY <1>1 DEF CarryInv, CallsOfRuns
<1>8. \A s \in Run : /\ Going(s)' <=> Going(s)
                     /\ phase'[s] \in {"finished", "cut off"} <=> Over(s)
                     /\ phase'[s] # "idle" <=> phase[s] # "idle"
  <2>1. \A s \in Run : (phase'[s] = phase[s]) \/ (/\ phase[s] \in {"turn", "dispatch"}
                                                /\ phase'[s] \in {"turn", "dispatch"})
    BY <1>1, <1>7
  <2>2. \A s \in Run : Going(s)' <=> phase'[s] \in {"turn", "dispatch"}
    BY DEF Going
  <2> QED BY <2>1, <2>2 DEF Going, Over
<1>9. CallsOfRuns'
  <2>1. phase' \in [Run -> Phases]
    BY <1>1 DEF CarryInv, CallsOfRuns, Phases
  <2>2. inTurn' \in [ToolCall -> BOOLEAN]
    BY <1>4, Zenon DEF CarryInv, CallsOfRuns
  <2>3. (\A i \in 1 .. Len(ended) : Over(ended[i]))'
    <3>1. \A i \in 1 .. Len(ended) : ended[i] \in Run /\ Over(ended[i])
      BY EndedRuns DEF CarryInv, CallsOfRuns
    <3> QED BY <1>8, <3>1 DEF Over
  <2>4. call' \in [ToolCall -> {"new", "running", "ok", "failed", "denied"}]
    <3>1. call \in [ToolCall -> {"new", "running", "ok", "failed", "denied"}]
      BY DEF CarryInv, CallsOfRuns
    <3> QED BY <1>4, <3>1
  <2>5. caller' \in [ToolCall -> Run \cup {None}]
    <3>1. caller \in [ToolCall -> Run \cup {None}]
      BY DEF CarryInv, CallsOfRuns
    <3> QED BY <1>4, <3>1
  <2>6. \A t \in ToolCall :
          /\ call[t] = "new" <=> caller[t] = None
          /\ inTurn[t] => caller[t] \in Run /\ phase[caller[t]] = "dispatch"
          /\ call[t] = "running" => inTurn[t]
          /\ caller[t] \in Run => phase[caller[t]] # "idle"
    BY DEF CarryInv, CallsOfRuns
  <2>7. ASSUME NEW t \in ToolCall
        PROVE  /\ call'[t] = "new" <=> caller'[t] = None
               /\ inTurn'[t] => caller'[t] \in Run /\ phase'[caller'[t]] = "dispatch"
               /\ call'[t] = "running" => inTurn'[t]
               /\ caller'[t] \in Run => phase'[caller'[t]] # "idle"
    <3>1. CASE t \in made
      BY <1>5, <1>6, <1>7, <3>1, LoopAssumption
    <3>2. CASE t \notin made
      <4>1. call'[t] = call[t] /\ caller'[t] = caller[t] /\ (inTurn'[t] <=> inTurn[t])
        BY <1>5, <1>6, <3>2
      <4>2. inTurn[t] => phase'[caller[t]] = "dispatch"
        BY <1>7, <2>6
      <4>3. /\ call[t] = "new" <=> caller[t] = None
            /\ inTurn[t] => caller[t] \in Run
            /\ call[t] = "running" => inTurn[t]
            /\ caller[t] \in Run => phase[caller[t]] # "idle"
        BY <2>6
      <4>4. caller[t] \in Run => phase'[caller[t]] # "idle"
        BY <1>8, <4>3
      <4> QED BY <4>1, <4>2, <4>3, <4>4
    <3> QED BY <3>1, <3>2
  <2>8. (\A s \in Run : phase[s] # "idle" /\ status[s].last # None =>
           status[s].last \in Run /\ Over(status[s].last))'
    <3>1. \A s \in Run : phase[s] # "idle" /\ status[s].last # None =>
            status[s].last \in Run /\ Over(status[s].last)
      BY DEF CarryInv, CallsOfRuns
    <3> QED BY <1>8, <3>1 DEF Over
  <2> QED BY <2>1, <2>2, <2>3, <2>4, <2>5, <2>7, <2>8 DEF CarryInv, CallsOfRuns
<1>10. Apart'
  <2>1. \A t \in undispatched \cup pendingUndispatched \cup shown :
          t \in ToolCall /\ t \notin made /\ ~inTurn[t] /\ call[t] # "new"
    BY <1>2 DEF CarryInv, Apart
  <2> QED BY <1>1, <1>5, <1>6, <2>1 DEF CarryInv, Apart
<1>11. ASSUME ~overlapped'
       PROVE  OneAfterTheOther'
  <2>1. OneAfterTheOther /\ Going(r)
    BY <1>1, <1>11 DEF CarryInv, Going
  <2>2. \A t \in ToolCall : Lost(t)' /\ ~(t \in made) <=> Lost(t) /\ ~(t \in made)
    BY <1>5 DEF Lost
  <2>3. \A t \in ToolCall : t \in made => ~Lost(t) /\ caller[t] = None /\ inTurn'[t] /\ caller'[t] = r
    BY <1>2, <1>6 DEF Lost, CarryInv, CallsOfRuns
  <2>4. ASSUME NEW q, q # r
        PROVE  LostOf(q)' = LostOf(q)
    <3>1. \A t \in ToolCall : t \in LostOf(q)' <=> q # None /\ caller'[t] = q /\ Lost(t)'
      BY DEF LostOf
    <3>2. \A t \in ToolCall : t \in LostOf(q) <=> q # None /\ caller[t] = q /\ Lost(t)
      BY DEF LostOf
    <3>3. LostOf(q) \subseteq ToolCall /\ LostOf(q)' \subseteq ToolCall
      BY DEF LostOf
    <3>4. \A t \in ToolCall : t \notin made => caller'[t] = caller[t]
      BY <1>6
    <3> QED BY <2>2, <2>3, <2>4, <3>1, <3>2, <3>3, <3>4
  <2>5. {t \in LostOf(r)' : ~inTurn'[t]} = {t \in LostOf(r) : ~inTurn[t]}
    <3>1. \A t \in ToolCall : t \in LostOf(r)' <=> r # None /\ caller'[t] = r /\ Lost(t)'
      BY DEF LostOf
    <3>2. \A t \in ToolCall : t \in LostOf(r) <=> r # None /\ caller[t] = r /\ Lost(t)
      BY DEF LostOf
    <3>3. LostOf(r) \subseteq ToolCall /\ LostOf(r)' \subseteq ToolCall
      BY DEF LostOf
    <3>4. \A t \in ToolCall : t \notin made => caller'[t] = caller[t] /\ (inTurn'[t] <=> inTurn[t])
      BY <1>6
    <3> QED BY <2>2, <2>3, <3>1, <3>2, <3>3, <3>4
  <2>6. \A s \in Run : Going(s) => s = r
    BY <2>1 DEF OneAfterTheOther
  <2>7. undispatched = {} /\ pendingUndispatched = {t \in LostOf(r) : ~inTurn[t]}
    BY <2>1 DEF OneAfterTheOther
  <2>8. \A s \in Run : Going(s)' => undispatched' = {} /\ pendingUndispatched' = {t \in LostOf(s)' : ~inTurn'[t]}
    BY <1>1, <1>8, <2>5, <2>6, <2>7
  <2>9. (\A s \in Run : phase[s] # "idle" => Told(s) = LostOf(status[s].last))'
    <3>1. \A s \in Run : phase[s] # "idle" => Told(s) = LostOf(status[s].last)
      BY <2>1 DEF OneAfterTheOther
    <3>2. \A s \in Run : phase[s] # "idle" => status[s].last # r
      <4>1. \A s \in Run : phase[s] # "idle" /\ status[s].last # None => Over(status[s].last)
        BY DEF CarryInv, CallsOfRuns
      <4> QED BY <1>1, <4>1, LoopAssumption DEF Over
    <3>3. \A s \in Run : status[s].last # r => LostOf(status[s].last)' = LostOf(status[s].last)
      <4> SUFFICES ASSUME NEW s \in Run, status[s].last # r
                   PROVE  LostOf(status[s].last)' = LostOf(status[s].last)
        OBVIOUS
      <4> DEFINE q == status[s].last
      <4>1. q' = q
        OBVIOUS
      <4>2. LostOf(q)' = {t \in ToolCall : q # None /\ caller'[t] = q /\ Lost(t)'}
        BY <4>1 DEF LostOf
      <4>3. \A p : p # r => {t \in ToolCall : p # None /\ caller'[t] = p /\ Lost(t)'} = LostOf(p)
        BY <2>4 DEF LostOf
      <4> QED BY <4>2, <4>3
    <3> QED BY <1>8, <3>1, <3>2, <3>3 DEF Told
  <2>10. (\A t \in ToolCall : Lost(t) =>
           inTurn[t] \/ t \in undispatched \/ t \in pendingUndispatched \/ t \in shown)'
    <3>1. \A t \in ToolCall : Lost(t) =>
            inTurn[t] \/ t \in undispatched \/ t \in pendingUndispatched \/ t \in shown
      BY <2>1 DEF OneAfterTheOther
    <3> QED BY <1>1, <1>6, <2>2, <3>1
  <2>11. \A s, q \in Run : Going(s)' /\ Going(q)' => s = q
    BY <1>8, <2>6
  <2>12. ~ \A s \in Run : ~Going(s)'
    BY <1>8, <2>1
  <2> QED BY <2>8, <2>9, <2>10, <2>11, <2>12, Zenon DEF OneAfterTheOther
<1> QED BY <1>9, <1>10, <1>11 DEF CarryInv

(* A call settles in its turn, and is no loss of a run that is over. *)
LEMMA SettlesCarry ==
  ASSUME CarryInv, NEW t \in ToolCall, NEW how \in {"ok", "failed"}, ToolSettles(t, how)
  PROVE  CarryInv'
<1>1. /\ call[t] = "running" /\ call' = [call EXCEPT ![t] = how]
      /\ UNCHANGED <<caller, inTurn, phase, undispatched, pendingUndispatched, shown>>
      /\ UNCHANGED <<status, ended, overlapped>>
  BY DEF ToolSettles, CallSettles, conversationVars, conversationHistory, carriedVars, history
<1>2. \A u \in ToolCall : call'[u] = IF u = t THEN how ELSE call[u]
  BY <1>1 DEF CarryInv, CallsOfRuns
<1>3. inTurn[t] /\ caller[t] \in Run /\ phase[caller[t]] = "dispatch"
  BY <1>1 DEF CarryInv, CallsOfRuns
<1>4. \A s \in Run : (Going(s)' <=> Going(s)) /\ (Over(s)' <=> Over(s))
  BY <1>1 DEF Going, Over
<1>5. CallsOfRuns'
  <2>1. call' \in [ToolCall -> {"new", "running", "ok", "failed", "denied"}]
    BY <1>1 DEF CarryInv, CallsOfRuns
  <2>2. caller[t] # None
    BY <1>3, LoopAssumption
  <2>3. how # "new" /\ how # "running"
    OBVIOUS
  <2>4. \A u \in ToolCall :
          /\ call[u] = "new" <=> caller[u] = None
          /\ inTurn[u] => caller[u] \in Run /\ phase[caller[u]] = "dispatch"
          /\ call[u] = "running" => inTurn[u]
          /\ caller[u] \in Run => phase[caller[u]] # "idle"
    BY DEF CarryInv, CallsOfRuns
  <2>5. \A u \in ToolCall : /\ call'[u] = "new" <=> caller[u] = None
                            /\ call'[u] = "running" => inTurn[u]
    <3> SUFFICES ASSUME NEW u \in ToolCall
                 PROVE  (call'[u] = "new" <=> caller[u] = None) /\ (call'[u] = "running" => inTurn[u])
      OBVIOUS
    <3>1. CASE u = t
      BY <1>2, <2>2, <2>3, <3>1
    <3>2. CASE u # t
      BY <1>2, <2>4, <3>2
    <3> QED BY <3>1, <3>2
  <2>6. (\A i \in 1 .. Len(ended) : Over(ended[i]))'
    BY <1>1 DEF CarryInv, CallsOfRuns, Over
  <2>7. (\A s \in Run : phase[s] # "idle" /\ status[s].last # None =>
           status[s].last \in Run /\ Over(status[s].last))'
    BY <1>1 DEF CarryInv, CallsOfRuns, Over
  <2> QED BY <1>1, <2>1, <2>4, <2>5, <2>6, <2>7 DEF CarryInv, CallsOfRuns
<1>6. Apart'
  <2>1. \A u \in undispatched \cup pendingUndispatched \cup shown :
          u \in ToolCall /\ u # t /\ call[u] # "new"
    BY <1>3 DEF CarryInv, Apart
  <2> QED BY <1>1, <1>2, <2>1 DEF CarryInv, Apart
<1>7. ASSUME ~overlapped'
      PROVE  OneAfterTheOther'
  <2>1. OneAfterTheOther
    BY <1>1, <1>7 DEF CarryInv
  <2>2. \A u \in ToolCall : u # t => (Lost(u)' <=> Lost(u))
    BY <1>2 DEF Lost
  <2>3. \A q : LostOf(q)' = {u \in ToolCall : q # None /\ caller[u] = q /\ Lost(u)'}
    BY <1>1 DEF LostOf
  <2>4. ASSUME NEW q, q # caller[t]
        PROVE  {u \in ToolCall : q # None /\ caller[u] = q /\ Lost(u)'} = LostOf(q)
    BY <2>2, <2>4 DEF LostOf
  <2>5. \A q : {u \in LostOf(q)' : ~inTurn'[u]} = {u \in LostOf(q) : ~inTurn[u]}
    <3>1. \A q : {u \in LostOf(q)' : ~inTurn'[u]}
                   = {u \in ToolCall : q # None /\ caller[u] = q /\ Lost(u)' /\ ~inTurn[u]}
      BY <1>1, <2>3
    <3>2. \A q : {u \in LostOf(q) : ~inTurn[u]}
                   = {u \in ToolCall : q # None /\ caller[u] = q /\ Lost(u) /\ ~inTurn[u]}
      BY DEF LostOf
    <3>3. \A u \in ToolCall : ~inTurn[u] => (Lost(u)' <=> Lost(u))
      BY <1>3, <2>2
    <3> QED BY <3>1, <3>2, <3>3
  <2>6. Going(caller[t])
    BY <1>3 DEF Going
  <2>7. (\A s \in Run : phase[s] # "idle" => Told(s) = LostOf(status[s].last))'
    <3>1. \A s \in Run : phase[s] # "idle" => Told(s) = LostOf(status[s].last)
      BY <2>1 DEF OneAfterTheOther
    <3>2. \A s \in Run : phase[s] # "idle" => status[s].last # caller[t]
      <4>1. \A s \in Run : phase[s] # "idle" /\ status[s].last # None => Over(status[s].last)
        BY DEF CarryInv, CallsOfRuns
      <4> QED BY <1>3, <4>1, LoopAssumption DEF Over
    <3>3. \A s \in Run : LostOf(status[s].last)'
             = {u \in ToolCall : status[s].last # None /\ caller[u] = status[s].last /\ Lost(u)'}
      BY <1>1 DEF LostOf
    <3> QED BY <1>1, <2>4, <3>1, <3>2, <3>3 DEF Told
  <2>8. (\A u \in ToolCall : Lost(u) =>
           inTurn[u] \/ u \in undispatched \/ u \in pendingUndispatched \/ u \in shown)'
    <3>1. \A u \in ToolCall : Lost(u) =>
            inTurn[u] \/ u \in undispatched \/ u \in pendingUndispatched \/ u \in shown
      BY <2>1 DEF OneAfterTheOther
    <3> QED BY <1>1, <1>3, <2>2, <3>1
  <2>9. \A s, q \in Run : Going(s)' /\ Going(q)' => s = q
    BY <1>4, <2>1 DEF OneAfterTheOther
  <2>10. \A s \in Run : Going(s)' => undispatched' = {} /\ pendingUndispatched' = {u \in LostOf(s)' : ~inTurn'[u]}
    BY <1>1, <1>4, <2>1, <2>5 DEF OneAfterTheOther
  <2>11. ~ \A s \in Run : ~Going(s)'
    BY <1>3, <1>4, <2>6
  <2> QED BY <2>7, <2>8, <2>9, <2>10, <2>11, Zenon DEF OneAfterTheOther
<1> QED BY <1>5, <1>6, <1>7 DEF CarryInv

(* What is somewhere and nowhere twice is in one place. *)
LEMMA InOnePlace ==
  ASSUME CarryInv, OneAfterTheOther
  PROVE  UndispatchedCarried
<1> SUFFICES ASSUME NEW t \in ToolCall, Lost(t)
             PROVE  LET places == <<CallsOf(caller[t]), undispatched, pendingUndispatched, shown>> IN
                    Cardinality({i \in DOMAIN places : t \in places[i]}) = 1
  BY DEF UndispatchedCarried, Lost
<1> DEFINE places == <<CallsOf(caller[t]), undispatched, pendingUndispatched, shown>>
           here == {i \in DOMAIN places : t \in places[i]}
<1>1. t \in CallsOf(caller[t]) <=> inTurn[t]
  BY DEF CallsOf
<1>2. /\ inTurn[t] \/ t \in undispatched \/ t \in pendingUndispatched \/ t \in shown
      /\ inTurn[t] => t \notin undispatched /\ t \notin pendingUndispatched /\ t \notin shown
      /\ t \in undispatched => t \notin pendingUndispatched /\ t \notin shown
      /\ t \in pendingUndispatched => t \notin shown
  <2>1. inTurn[t] \/ t \in undispatched \/ t \in pendingUndispatched \/ t \in shown
    BY DEF OneAfterTheOther
  <2>2. /\ inTurn[t] => t \notin undispatched /\ t \notin pendingUndispatched /\ t \notin shown
        /\ t \in undispatched => t \notin pendingUndispatched /\ t \notin shown
        /\ t \in pendingUndispatched => t \notin shown
    BY DEF CarryInv, Apart
  <2> QED BY <2>1, <2>2
<1>3. DOMAIN places = 1 .. 4
  OBVIOUS
<1>4. /\ places[1] = CallsOf(caller[t]) /\ places[2] = undispatched
      /\ places[3] = pendingUndispatched /\ places[4] = shown
  OBVIOUS
<1>5. 1 .. 4 = {1, 2, 3, 4}
  OBVIOUS
<1> HIDE DEF places
<1>6. here = {1} \/ here = {2} \/ here = {3} \/ here = {4}
  <2>1. \A i : i \in here <=> i \in {1, 2, 3, 4} /\ t \in places[i]
    BY <1>3, <1>5
  <2>2. /\ 1 \in here <=> inTurn[t]
        /\ 2 \in here <=> t \in undispatched
        /\ 3 \in here <=> t \in pendingUndispatched
        /\ 4 \in here <=> t \in shown
    BY <1>1, <1>4, <2>1
  <2>3. here \subseteq {1, 2, 3, 4}
    BY <2>1
  <2> HIDE DEF here
  <2>4. CASE inTurn[t]
    BY <1>2, <2>2, <2>3, <2>4
  <2>5. CASE t \in undispatched
    BY <1>2, <2>2, <2>3, <2>5
  <2>6. CASE t \in pendingUndispatched
    BY <1>2, <2>2, <2>3, <2>6
  <2>7. CASE t \in shown
    BY <1>2, <2>2, <2>3, <2>7
  <2> QED BY <1>2, <2>4, <2>5, <2>6, <2>7
<1>7. Cardinality(here) = 1
  BY <1>6, FS_Singleton
<1> QED BY <1>7 DEF places

(* UndispatchedOfPrevious for every value of the constants: as long as no two
   interactions have overlapped, each is told of exactly the calls that were
   not dispatched, or failed, in the one before it, and none is forgotten or
   shown twice (agent-loop.ts, lines 145-146, 237 and 250-251). *)
THEOREM PreviousIsTold == TurnSpec => []UndispatchedOfPrevious
<1>1. Init => CarryInv
  <2> SUFFICES ASSUME Init PROVE CarryInv
    OBVIOUS
  <2>1. /\ undispatched = {} /\ pendingUndispatched = {} /\ shown = {} /\ ended = <<>>
        /\ \A r \in Run : phase[r] = "idle"
        /\ \A t \in ToolCall : call[t] = "new" /\ caller[t] = None /\ inTurn[t] = FALSE
    BY DEF Init, LoopInit
  <2>2. phase \in [Run -> Phases] /\ DOMAIN status = Run
    BY DEF Init, LoopInit, Phases
  <2>3. /\ call \in [ToolCall -> {"new", "running", "ok", "failed", "denied"}]
        /\ caller \in [ToolCall -> Run \cup {None}]
        /\ inTurn \in [ToolCall -> BOOLEAN]
    BY DEF Init, LoopInit
  <2>4. ended \in Seq(Run) /\ Len(ended) = 0
    BY <2>1
  <2>5. CallsOfRuns
    BY <2>1, <2>2, <2>3, <2>4, LoopAssumption DEF CallsOfRuns
  <2>6. Apart
    BY <2>1 DEF Apart
  <2>7. OneAfterTheOther
    <3>1. LostOf(LastEnded) = {}
      BY <2>1 DEF LostOf, LastEnded
    <3> QED BY <2>1, <3>1 DEF OneAfterTheOther, Going, Lost
  <2> QED BY <2>5, <2>6, <2>7 DEF CarryInv
<1>2. CarryInv /\ [NextTurn]_vars => CarryInv'
  <2> SUFFICES ASSUME CarryInv, [NextTurn]_vars PROVE CarryInv'
    OBVIOUS
  <2>1. ASSUME NEW r \in Run, NEW premium \in Premium, RunInteraction(r, premium)
        PROVE  CarryInv'
    BY <2>1, StartCarries
  <2>2. ASSUME NEW r \in Run, NEW response \in Response, NEW first,
               TurnSettles(r, response, first)
        PROVE  CarryInv'
    <3>1. ASSUME NEW how \in {"finished", "cut off"}, TurnEnds(r, how) PROVE CarryInv'
      <4>1. /\ phase[r] = "turn" /\ phase' = [phase EXCEPT ![r] = how]
            /\ undispatched' = pendingUndispatched /\ pendingUndispatched' = {}
            /\ UNCHANGED <<call, caller, inTurn, shown, status, overlapped>>
        BY <2>2, <3>1 DEF TurnEnds, End, TurnSettles, callVars, history
      <4>2. \A t \in ToolCall : ~(inTurn[t] /\ caller[t] = r)
        BY <4>1 DEF CarryInv, CallsOfRuns
      <4>3. CallsOf(r) = {}
        BY <4>2 DEF CallsOf
      <4>4. Going(r) /\ AllSettled(r)
        BY <4>1, <4>3 DEF Going, AllSettled
      <4>5. ~Going(r)'
        <5>1. phase'[r] = how
          BY <4>1 DEF CarryInv, CallsOfRuns
        <5> QED BY <5>1 DEF Going
      <4>6. ended' = Append(ended, r)
        BY <2>2, <4>5 DEF TurnSettles, Remember
      <4>7. inTurn' = [t \in ToolCall |-> inTurn[t] /\ caller[t] # r]
        <5>1. inTurn \in [ToolCall -> BOOLEAN]
          BY DEF CarryInv, CallsOfRuns
        <5>2. \A t \in ToolCall : inTurn[t] = (inTurn[t] /\ caller[t] # r)
          <6> SUFFICES ASSUME NEW t \in ToolCall
                       PROVE  inTurn[t] = (inTurn[t] /\ caller[t] # r)
            OBVIOUS
          <6>1. inTurn[t] \in BOOLEAN
            BY <5>1
          <6>2. inTurn[t] => caller[t] # r
            BY <4>2
          <6> QED BY <6>1, <6>2, Zenon
        <5>3. inTurn = [t \in ToolCall |-> inTurn[t]]
          BY <5>1
        <5>4. inTurn = [t \in ToolCall |-> inTurn[t] /\ caller[t] # r]
          BY <5>2, <5>3, Zenon
        <5> QED BY <4>1, <5>4
      <4>8. undispatched' = pendingUndispatched \cup {t \in CallsOf(r) : Lost(t)}
        BY <4>1, <4>3
      <4> QED BY <4>1, <4>4, <4>6, <4>7, <4>8, EndCarries
    <3> DEFINE calls == parseResponse(response).toolCalls
    <3>2. ASSUME TurnCalls(r, calls, first)
          PROVE  CarryInv'
      <4>1. calls \in Seq(ToolCall)
        BY ParsedCalls
      <4>2. Going(r)'
        <5>1. phase'[r] = "dispatch"
          BY <3>2 DEF TurnCalls, CarryInv, CallsOfRuns
        <5> QED BY <5>1 DEF Going
      <4>3. UNCHANGED <<status, ended, overlapped>>
        BY <2>2, <4>2 DEF TurnSettles, Remember
      <4> HIDE DEF calls
      <4> QED BY <3>2, <4>1, <4>3, CallsCarry
    <3> QED BY <2>2, <3>1, <3>2 DEF TurnSettles
  <2>3. ASSUME NEW r \in Run, TurnDispatched(r) PROVE CarryInv'
    <3>1. /\ phase[r] = "dispatch" /\ AllSettled(r) /\ Going(r)
          /\ UNCHANGED <<call, caller, shown, status, overlapped>>
          /\ inTurn' = [t \in ToolCall |-> inTurn[t] /\ caller[t] # r]
      BY <2>3 DEF TurnDispatched, DispatchEnds, Going, history
    <3>2. {t \in CallsOf(r) : call[t] \in {"failed", "denied"}} = {t \in CallsOf(r) : Lost(t)}
      BY DEF Lost
    <3> DEFINE collected == pendingUndispatched \cup {t \in CallsOf(r) : Lost(t)}
    <3>3. CASE End(r, "cut off", collected)
      <4>1. /\ phase' = [phase EXCEPT ![r] = "cut off"]
            /\ undispatched' = collected /\ pendingUndispatched' = {}
        BY <3>3 DEF End
      <4>2. ~Going(r)'
        <5>1. phase'[r] = "cut off"
          BY <4>1 DEF CarryInv, CallsOfRuns
        <5> QED BY <5>1 DEF Going
      <4>3. ended' = Append(ended, r)
        BY <2>3, <4>2 DEF TurnDispatched, Remember
      <4> QED BY <3>1, <4>1, <4>3, EndCarries
    <3>4. CASE /\ phase' = [phase EXCEPT ![r] = "turn"]
               /\ pendingUndispatched' = collected /\ UNCHANGED undispatched
      <4>1. Going(r)'
        <5>1. phase'[r] = "turn"
          BY <3>4 DEF CarryInv, CallsOfRuns
        <5> QED BY <5>1 DEF Going
      <4>2. UNCHANGED ended
        BY <2>3, <4>1 DEF TurnDispatched, Remember
      <4> QED BY <3>1, <3>4, <4>2, GoesOnCarries
    <3> QED BY <2>3, <3>2, <3>3, <3>4 DEF TurnDispatched, DispatchEnds
  <2>4. ASSUME NEW t \in ToolCall, NEW how \in {"ok", "failed"}, ToolSettles(t, how)
        PROVE  CarryInv'
    BY <2>4, SettlesCarry
  <2>5. CASE UNCHANGED vars
    <3>1. UNCHANGED <<phase, call, caller, inTurn, ended, status, undispatched,
                      pendingUndispatched, shown, overlapped>>
      BY <2>5 DEF vars, loopVars, runVars, callVars, carriedVars, history, conversationVars,
                  conversationHistory
    <3>2. CallsOfRuns' /\ Apart'
      BY <3>1 DEF CarryInv, CallsOfRuns, Apart, Over
    <3>3. OneAfterTheOther' = OneAfterTheOther
      BY <3>1 DEF OneAfterTheOther, Going, LostOf, Lost, LastEnded, Told
    <3> QED BY <3>1, <3>2, <3>3 DEF CarryInv
  <2> QED
    BY <2>1, <2>2, <2>3, <2>4, <2>5 DEF NextTurn, TurnStep
<1>3. CarryInv => UndispatchedOfPrevious
  <2> SUFFICES ASSUME CarryInv, ~overlapped PROVE UndispatchedOfPrevious
    BY DEF UndispatchedOfPrevious
  <2>1. UndispatchedCarried
    BY InOnePlace DEF CarryInv
  <2>2. \A r \in Run : phase[r] # "idle" => status[r].undispatched = LostOf(status[r].last)
    BY DEF CarryInv, OneAfterTheOther, Told
  <2> QED BY <2>1, <2>2 DEF UndispatchedOfPrevious, LostOf, Lost
<1> QED
  BY <1>1, <1>2, <1>3, PTL DEF TurnSpec

-----------------------------------------------------------------------------
(* Results. *)

Settled(t) == call[t] \in {"ok", "failed", "denied"}

(* The calls of a turn are all of the run's calls going on, each once; when a
   later turn is asked for they have settled, and the results are theirs. *)
InALaterTurn(r) == phase[r] = "turn" /\ turns[r] > 1
ResultsOf(r) ==
  /\ phase[r] = "dispatch" \/ InALaterTurn(r) =>
       /\ turnCalls[r] # <<>> /\ OneEach(turnCalls[r])
       /\ \A t \in Elems(turnCalls[r]) : call[t] # "new"
  /\ phase[r] = "dispatch" => \A t \in Elems(turnCalls[r]) : inTurn[t] /\ caller[t] = r
  /\ InALaterTurn(r) =>
       /\ \A t \in Elems(turnCalls[r]) : Settled(t)
       /\ previousResults[r] = Results(turnCalls[r])

LoopShape ==
  /\ call \in [ToolCall -> {"new", "running", "ok", "failed", "denied"}]
  /\ phase \in [Run -> Phases] /\ turns \in [Run -> Nat]
  /\ DOMAIN previousResults = Run
  /\ turnCalls \in [Run -> Seq(ToolCall)]

ResultsInv == LoopShape /\ \A r \in Run : ResultsOf(r)

(* The calls in the order of their results: each of them, once. *)
Refused == {t \in ToolCall : call[t] = "denied"}
InOrderOfResults(calls) == Only(calls, Refused) \o Only(calls, ToolCall \ Refused)

(* The results of a turn are one for each of its calls, the refused ones first. *)
LEMMA ResultsOfEach ==
  ASSUME NEW calls \in Seq(ToolCall)
  PROVE  /\ InOrderOfResults(calls) \in Seq(ToolCall)
         /\ Elems(InOrderOfResults(calls)) = Elems(calls)
         /\ OneEach(calls) => OneEach(InOrderOfResults(calls))
         /\ Results(calls) = [k \in 1 .. Len(InOrderOfResults(calls)) |->
                                TurnResultEntry(InOrderOfResults(calls)[k])]
<1> DEFINE a == Only(calls, Refused)
           b == Only(calls, ToolCall \ Refused)
<1>1. a \in Seq(ToolCall) /\ b \in Seq(ToolCall)
  BY OnlyType
<1>2. Elems(a) = Elems(calls) \cap Refused /\ (OneEach(calls) => OneEach(a))
  BY ElemsOnly
<1>3. Elems(b) = Elems(calls) \cap (ToolCall \ Refused) /\ (OneEach(calls) => OneEach(b))
  BY ElemsOnly
<1>4. Elems(calls) \subseteq ToolCall
  BY DEF Elems
<1>5. Results(calls) = [k \in DOMAIN (a \o b) |-> TurnResultEntry((a \o b)[k])]
  BY DEF Results, Refused
<1> HIDE DEF a, b
<1>6. /\ a \o b \in Seq(ToolCall) /\ Elems(a \o b) = Elems(a) \cup Elems(b)
      /\ OneEach(a) /\ OneEach(b) /\ Elems(a) \cap Elems(b) = {} => OneEach(a \o b)
  <2>1. a \o b \in Seq(ToolCall)
    BY <1>1, ConcatPlaces
  <2> QED BY <1>1, <2>1, ElemsConcat
<1>7. Elems(a) \cup Elems(b) = Elems(calls) /\ Elems(a) \cap Elems(b) = {}
  BY <1>2, <1>3, <1>4
<1>8. DOMAIN (a \o b) = 1 .. Len(a \o b)
  BY <1>6
<1>9. InOrderOfResults(calls) = a \o b
  BY DEF InOrderOfResults, a, b
<1> QED BY <1>2, <1>3, <1>5, <1>6, <1>7, <1>8, <1>9

(* As often as an entry is among the results, a call has it. *)
LEMMA CountedAlike ==
  ASSUME NEW calls \in Seq(ToolCall), OneEach(calls), NEW e
  PROVE  Count([k \in DOMAIN calls |-> TurnResultEntry(calls[k])], e) = Count(Results(calls), e)
<1> DEFINE sorted == InOrderOfResults(calls)
           S == {t \in ToolCall : TurnResultEntry(t) = e}
<1>1. /\ sorted \in Seq(ToolCall) /\ Elems(sorted) = Elems(calls) /\ OneEach(sorted)
      /\ Results(calls) = [k \in 1 .. Len(sorted) |-> TurnResultEntry(sorted[k])]
  BY ResultsOfEach
<1> HIDE DEF sorted
<1>2. ASSUME NEW s \in Seq(ToolCall), OneEach(s)
      PROVE  Count([k \in 1 .. Len(s) |-> TurnResultEntry(s[k])], e) = Cardinality(Elems(s) \cap S)
  <2> DEFINE entries == [k \in 1 .. Len(s) |-> TurnResultEntry(s[k])]
  <2>1. {k \in DOMAIN entries : entries[k] = e} = {k \in 1 .. Len(s) : s[k] \in S}
    <3> HIDE DEF TurnResultEntry
    <3>1. \A k \in 1 .. Len(s) : s[k] \in ToolCall
      OBVIOUS
    <3>2. DOMAIN entries = 1 .. Len(s) /\ \A k \in 1 .. Len(s) : entries[k] = TurnResultEntry(s[k])
      OBVIOUS
    <3>3. \A k \in 1 .. Len(s) : s[k] \in S <=> TurnResultEntry(s[k]) = e
      BY <3>1
    <3> HIDE DEF entries, S
    <3> QED BY <3>2, <3>3
  <2>2. Cardinality({k \in 1 .. Len(s) : s[k] \in S}) = Cardinality(Elems(s) \cap S)
    <3> HIDE DEF S
    <3> QED BY <1>2, PlacesOfEach
  <2> HIDE DEF entries, S
  <2>3. Count(entries, e) = Cardinality(Elems(s) \cap S)
    BY <2>1, <2>2 DEF Count
  <2> QED BY <2>3 DEF entries
<1>3. DOMAIN calls = 1 .. Len(calls)
  OBVIOUS
<1> HIDE DEF S
<1> QED BY <1>1, <1>2, <1>3

(* Each result is a message that follows a call with its id. *)
LEMMA RequestAnswers ==
  ASSUME NEW r \in Run, NEW T, NEW given \in Seq(T), given # <<>>, previousResults[r] = given
  PROVE  LET messages == buildRequestBody(LlmTurnRequest(r)).messages
             results == SubSeq(messages, 4, Len(messages))
         IN  /\ Len(messages[3].tool_calls) = Len(results)
             /\ \A k \in DOMAIN results :
                  results[k].tool_call_id = messages[3].tool_calls[k].id
<1> DEFINE n == Len(given)
           first == systemMessage(LlmTurnRequest(r).input)
           second == userMessage(LlmTurnRequest(r).input)
           made == [k \in DOMAIN given |-> [id |-> given[k].callId, name |-> given[k].name]]
           third == [role |-> "assistant", tool_calls |-> made]
           answer(k) == [role |-> "tool", tool_call_id |-> given[k].callId,
                         content |-> IF given[k].ok THEN "value" ELSE "error"]
           answers == [k \in DOMAIN given |-> answer(k)]
           M == {first, second, third} \cup {answer(k) : k \in 1 .. n}
           told == <<third>> \o answers
           messages == <<first, second>> \o told
           results == SubSeq(messages, 4, Len(messages))
<1>1. buildRequestBody(LlmTurnRequest(r)).messages = messages
  BY DEF buildRequestBody, LlmTurnRequest, toolResultMessages
<1>2. n \in Nat /\ DOMAIN given = 1 .. n
  OBVIOUS
<1>3. third.tool_calls = made
  OBVIOUS
<1>4. \A k \in 1 .. n : made[k].id = given[k].callId /\ answer(k).tool_call_id = given[k].callId
  BY <1>2
<1>5. made \in Seq({made[k] : k \in 1 .. n}) /\ Len(made) = n
  BY <1>2
<1> HIDE DEF answer, made, third, first, second
<1>6. answers \in Seq(M) /\ Len(answers) = n /\ \A k \in 1 .. n : answers[k] = answer(k)
  BY <1>2
<1>7. <<third>> \in Seq(M) /\ Len(<<third>>) = 1 /\ <<third>>[1] = third
  OBVIOUS
<1>8. <<first, second>> \in Seq(M) /\ Len(<<first, second>>) = 2
  OBVIOUS
<1> HIDE DEF M, answers, n
<1>9. /\ told \in Seq(M) /\ Len(told) = 1 + n /\ told[1] = third
      /\ \A k \in 1 .. n : told[1 + k] = answer(k)
  <2> DEFINE one == <<third>>
  <2>1. one \in Seq(M) /\ Len(one) = 1 /\ one[1] = third /\ 1 \in 1 .. Len(one)
    BY <1>7
  <2> HIDE DEF one
  <2>2. /\ one \o answers \in Seq(M) /\ Len(one \o answers) = Len(one) + Len(answers)
        /\ \A i \in 1 .. Len(one) : (one \o answers)[i] = one[i]
        /\ \A i \in 1 .. Len(answers) : (one \o answers)[Len(one) + i] = answers[i]
    <3>1. answers \in Seq(M) /\ one \in Seq(M)
      BY <1>6, <2>1
    <3> QED BY <3>1, ConcatPlaces
  <2>3. told = one \o answers
    BY DEF one
  <2> HIDE DEF told
  <2> QED BY <1>6, <2>1, <2>2, <2>3
<1> HIDE DEF told
<1>10. /\ messages \in Seq(M) /\ Len(messages) = 3 + n /\ messages[3] = third
       /\ \A k \in 1 .. n : messages[3 + k] = answer(k)
  <2> DEFINE two == <<first, second>>
  <2>1. two \in Seq(M) /\ Len(two) = 2
    BY <1>8
  <2> HIDE DEF two
  <2>2. /\ two \o told \in Seq(M) /\ Len(two \o told) = 2 + Len(told)
        /\ \A i \in 1 .. Len(told) : (two \o told)[2 + i] = told[i]
    <3>1. told \in Seq(M) /\ two \in Seq(M)
      BY <1>9, <2>1
    <3>2. two \o told \in Seq(M) /\ Len(two \o told) = Len(two) + Len(told)
      BY <3>1, ConcatPlaces
    <3>3. \A i \in 1 .. Len(told) : (two \o told)[Len(two) + i] = told[i]
      BY <3>1, ConcatPlaces
    <3> QED BY <2>1, <3>2, <3>3
  <2>3. messages = two \o told
    BY DEF two
  <2> HIDE DEF messages
  <2>4. 1 \in 1 .. Len(told) /\ \A k \in 1 .. n : 1 + k \in 1 .. Len(told) /\ 2 + (1 + k) = 3 + k
    BY <1>2, <1>9
  <2>5. messages[2 + 1] = third
    BY <1>9, <2>2, <2>3, <2>4
  <2>6. \A k \in 1 .. n : messages[2 + (1 + k)] = answer(k)
    BY <1>9, <2>2, <2>3, <2>4
  <2>7. Len(messages) = 3 + n
    BY <1>2, <1>9, <2>2, <2>3
  <2> QED BY <2>2, <2>3, <2>4, <2>5, <2>6, <2>7
<1> HIDE DEF messages
<1>11. /\ results \in Seq(M) /\ Len(results) = n /\ DOMAIN results = 1 .. n
       /\ \A k \in 1 .. n : results[k] = answer(k)
  <2>1. results = SubSeq(messages, 4, Len(messages)) /\ Len(messages) = 3 + n
    BY <1>10
  <2>2. results \in Seq(M) /\ Len(results) = n /\ \A k \in 1 .. n : results[k] = messages[3 + k]
    BY <1>2, <1>10
  <2> QED BY <1>10, <2>2
<1> HIDE DEF results
<1>12. Len(messages[3].tool_calls) = Len(results)
  BY <1>3, <1>5, <1>10, <1>11
<1>13. \A k \in DOMAIN results : results[k].tool_call_id = messages[3].tool_calls[k].id
  BY <1>3, <1>4, <1>10, <1>11
<1> QED BY <1>1, <1>12, <1>13 DEF results

(* Whether a call was denied, and whether it succeeded, is settled with it. *)
LEMMA ResultsStay ==
  ASSUME NEW calls \in Seq(ToolCall),
         \A t \in Elems(calls) : Settled(t) /\ call'[t] = call[t]
  PROVE  Results(calls)' = Results(calls)
<1> DEFINE S == Refused
           R == Refused'
<1>1. \A i \in 1 .. Len(calls) : calls[i] \in ToolCall /\ call'[calls[i]] = call[calls[i]]
  BY DEF Elems
<1>2. Only(calls, S) = Only(calls, R)
  <2>1. \A i \in 1 .. Len(calls) : calls[i] \in S <=> calls[i] \in R
    BY <1>1 DEF Refused
  <2> HIDE DEF S, R
  <2> QED BY <2>1, OnlySame
<1>3. Only(calls, ToolCall \ S) = Only(calls, ToolCall \ R)
  <2> DEFINE U == ToolCall \ S
             V == ToolCall \ R
  <2>1. \A i \in 1 .. Len(calls) : calls[i] \in U <=> calls[i] \in V
    BY <1>1 DEF Refused
  <2> HIDE DEF U, V
  <2>2. Only(calls, U) = Only(calls, V)
    BY <2>1, OnlySame
  <2> QED BY <2>2 DEF U, V
<1> DEFINE sorted == InOrderOfResults(calls)
<1>4. sorted' = sorted
  BY <1>2, <1>3 DEF InOrderOfResults
<1>5. /\ sorted \in Seq(ToolCall) /\ Elems(sorted) = Elems(calls)
      /\ Results(calls) = [k \in 1 .. Len(sorted) |-> TurnResultEntry(sorted[k])]
  BY ResultsOfEach
<1>6. Results(calls)' = [k \in 1 .. Len(sorted') |-> TurnResultEntry(sorted[k])']
  <2>1. Results(calls)' = [k \in DOMAIN sorted' |-> TurnResultEntry(sorted[k])']
    BY DEF Results, InOrderOfResults, Refused
  <2>2. DOMAIN sorted = 1 .. Len(sorted)
    BY <1>5
  <2> QED BY <1>4, <2>1, <2>2
<1>7. ASSUME NEW k \in 1 .. Len(sorted)
      PROVE  TurnResultEntry(sorted[k])' = TurnResultEntry(sorted[k])
  <2>1. sorted[k] \in Elems(calls)
    BY <1>5 DEF Elems
  <2>2. call'[sorted[k]] = call[sorted[k]]
    BY <2>1
  <2> HIDE DEF sorted
  <2> QED BY <1>4, <2>2 DEF TurnResultEntry
<1> HIDE DEF sorted
<1> QED BY <1>4, <1>5, <1>6, <1>7

(* What a step leaves of a run's results: a call that is not new keeps its run,
   and one that has settled its outcome. *)
LEMMA OthersKept ==
  ASSUME ResultsInv, NEW r \in Run,
         phase'[r] = phase[r], turns'[r] = turns[r], turnCalls'[r] = turnCalls[r],
         previousResults'[r] = previousResults[r],
         \A t \in ToolCall : /\ call[t] # "new" => call'[t] # "new"
                             /\ Settled(t) => call'[t] = call[t]
                             /\ call[t] # "new" /\ inTurn[t] /\ caller[t] = r =>
                                  inTurn'[t] /\ caller'[t] = r
  PROVE  ResultsOf(r)'
<1>1. /\ turnCalls[r] \in Seq(ToolCall) /\ Elems(turnCalls[r]) \subseteq ToolCall
  BY DEF ResultsInv, LoopShape, Elems
<1>2. InALaterTurn(r)' <=> InALaterTurn(r)
  BY DEF InALaterTurn
<1>3. ResultsOf(r)
  BY DEF ResultsInv
<1>4. ASSUME (phase[r] = "dispatch" \/ InALaterTurn(r))'
      PROVE  (/\ turnCalls[r] # <<>> /\ OneEach(turnCalls[r])
              /\ \A t \in Elems(turnCalls[r]) : call[t] # "new")'
  BY <1>1, <1>2, <1>3, <1>4 DEF ResultsOf, Elems, OneEach
<1>5. ASSUME phase'[r] = "dispatch"
      PROVE  (\A t \in Elems(turnCalls[r]) : inTurn[t] /\ caller[t] = r)'
  <2>1. \A t \in Elems(turnCalls[r]) : t \in ToolCall /\ call[t] # "new" /\ inTurn[t] /\ caller[t] = r
    BY <1>1, <1>3, <1>5 DEF ResultsOf
  <2> QED BY <2>1 DEF Elems
<1>6. ASSUME InALaterTurn(r)'
      PROVE  (/\ \A t \in Elems(turnCalls[r]) : Settled(t)
              /\ previousResults[r] = Results(turnCalls[r]))'
  <2>1. /\ \A t \in Elems(turnCalls[r]) : Settled(t) /\ t \in ToolCall
        /\ previousResults[r] = Results(turnCalls[r])
    BY <1>1, <1>2, <1>3, <1>6 DEF ResultsOf
  <2>2. \A t \in Elems(turnCalls[r]) : call'[t] = call[t]
    BY <2>1
  <2>3. (\A t \in Elems(turnCalls[r]) : Settled(t))'
    BY <2>1, <2>2 DEF Elems, Settled
  <2> DEFINE calls == turnCalls[r]
  <2>4. Results(turnCalls[r])' = Results(turnCalls[r])
    <3>1. \A c \in Seq(ToolCall) : (\A t \in Elems(c) : Settled(t) /\ call'[t] = call[t]) =>
             Results(c)' = Results(c)
      BY ResultsStay
    <3>2. \A c : c = turnCalls'[r] => Results(turnCalls[r])' = Results(c)'
      BY DEF Results
    <3> QED BY <1>1, <2>1, <2>2, <3>1, <3>2
  <2> QED BY <2>1, <2>3, <2>4
<1> QED BY <1>4, <1>5, <1>6 DEF ResultsOf

(* The calls of a turn are the run's, each once, and there are some. *)
LEMMA CallsAreMade ==
  ASSUME ResultsInv, NEW r \in Run, NEW calls \in Seq(ToolCall), calls # <<>>, NEW first,
         TurnCalls(r, calls, first), turnCalls' = [turnCalls EXCEPT ![r] = calls],
         previousResults' = [previousResults EXCEPT ![r] = previousResults[r]]
  PROVE  ResultsInv'
<1> DEFINE made == {calls[i] : i \in DOMAIN calls}
           admitted == {calls[i] : i \in 1 .. first - 1}
<1>1. phase[r] = "turn" /\ phase' = [phase EXCEPT ![r] = "dispatch"] /\ UNCHANGED turns
  BY DEF TurnCalls
<1>2. \A t \in made : t \in ToolCall /\ call[t] = "new"
  BY DEF TurnCalls
<1>3. admitted \subseteq made
  BY DEF TurnCalls
<1>4. /\ call' = [t \in ToolCall |-> CASE t \in admitted -> "running"
                                       [] t \in made \ admitted -> "denied"
                                       [] OTHER -> call[t]]
      /\ caller' = [t \in ToolCall |-> IF t \in made THEN r ELSE caller[t]]
      /\ inTurn' = [t \in ToolCall |-> t \in made \/ inTurn[t]]
  BY DEF TurnCalls
<1>5. made = Elems(calls) /\ OneEach(calls)
  <2>1. DOMAIN calls = 1 .. Len(calls)
    OBVIOUS
  <2> QED BY <2>1 DEF Elems, OneEach, TurnCalls, Distinct
<1> HIDE DEF made, admitted
<1>6. \A t \in ToolCall : /\ t \in made => call'[t] \in {"running", "denied"}
                          /\ t \notin made => call'[t] = call[t]
                          /\ caller'[t] = IF t \in made THEN r ELSE caller[t]
                          /\ inTurn'[t] <=> t \in made \/ inTurn[t]
  BY <1>3, <1>4
<1>7. /\ \A s \in Run : phase'[s] = IF s = r THEN "dispatch" ELSE phase[s]
      /\ \A s \in Run : turnCalls'[s] = IF s = r THEN calls ELSE turnCalls[s]
      /\ \A s \in Run : previousResults'[s] = previousResults[s]
  BY <1>1 DEF ResultsInv, LoopShape
<1>8. LoopShape'
  <2>1. call' \in [ToolCall -> {"new", "running", "ok", "failed", "denied"}]
    <3>1. call \in [ToolCall -> {"new", "running", "ok", "failed", "denied"}]
      BY DEF ResultsInv, LoopShape
    <3> QED BY <1>4, <3>1
  <2>2. phase' \in [Run -> Phases]
    BY <1>1 DEF ResultsInv, LoopShape, Phases
  <2> QED BY <1>1, <2>1, <2>2 DEF ResultsInv, LoopShape
<1>9. ASSUME NEW s \in Run, s # r
      PROVE  ResultsOf(s)'
  <2>1. /\ phase'[s] = phase[s] /\ turns'[s] = turns[s] /\ turnCalls'[s] = turnCalls[s]
        /\ previousResults'[s] = previousResults[s]
    BY <1>1, <1>7, <1>9
  <2>2. ASSUME NEW t \in ToolCall
        PROVE  /\ call[t] # "new" => call'[t] # "new"
               /\ Settled(t) => call'[t] = call[t]
               /\ call[t] # "new" /\ inTurn[t] /\ caller[t] = s => inTurn'[t] /\ caller'[t] = s
    <3>1. CASE t \in made
      BY <1>2, <3>1 DEF Settled
    <3>2. CASE t \notin made
      BY <1>6, <3>2
    <3> QED BY <3>1, <3>2
  <2> QED BY <2>1, <2>2, OthersKept
<1>10. ResultsOf(r)'
  <2>1. phase'[r] = "dispatch" /\ turnCalls'[r] = calls /\ ~InALaterTurn(r)'
    BY <1>7 DEF InALaterTurn
  <2>2. \A t \in Elems(calls) : t \in ToolCall /\ t \in made
    BY <1>2, <1>5
  <2>3. \A t \in Elems(calls) : call'[t] # "new" /\ inTurn'[t] /\ caller'[t] = r
    BY <1>6, <2>2
  <2>4. Elems(turnCalls[r])' = Elems(calls) /\ (OneEach(turnCalls[r])' <=> OneEach(calls))
    BY <2>1 DEF Elems, OneEach
  <2> QED BY <1>5, <2>1, <2>3, <2>4 DEF ResultsOf
<1> QED BY <1>8, <1>9, <1>10 DEF ResultsInv

(* A turn that all calls have settled in leaves its results for the next. *)
LEMMA ResultsAreTold ==
  ASSUME ResultsInv, NEW r \in Run, TurnDispatched(r)
  PROVE  ResultsInv'
<1> DEFINE calls == turnCalls[r]
<1>1. /\ phase[r] = "dispatch" /\ AllSettled(r) /\ UNCHANGED <<call, caller>>
      /\ inTurn' = [t \in ToolCall |-> inTurn[t] /\ caller[t] # r]
      /\ \/ phase' = [phase EXCEPT ![r] = "cut off"] /\ UNCHANGED turns
         \/ phase' = [phase EXCEPT ![r] = "turn"] /\ turns' = [turns EXCEPT ![r] = @ + 1]
      /\ turnCalls' = [turnCalls EXCEPT ![r] = IF Going(r)' THEN calls ELSE <<>>]
      /\ previousResults' = [previousResults EXCEPT ![r] = IF Going(r)' THEN Results(calls) ELSE <<>>]
  BY DEF TurnDispatched, DispatchEnds, End, Remember
<1>2. /\ \A s \in Run : s # r => /\ phase'[s] = phase[s] /\ turns'[s] = turns[s]
                                 /\ turnCalls'[s] = turnCalls[s]
                                 /\ previousResults'[s] = previousResults[s]
      /\ phase'[r] \in {"cut off", "turn"}
      /\ phase'[r] = "turn" => turnCalls'[r] = calls /\ previousResults'[r] = Results(calls)
  <2>1. \A s \in Run : s # r => /\ phase'[s] = phase[s] /\ turns'[s] = turns[s]
                              /\ turnCalls'[s] = turnCalls[s]
                              /\ previousResults'[s] = previousResults[s]
    BY <1>1 DEF ResultsInv, LoopShape
  <2>2. phase'[r] \in {"cut off", "turn"}
    BY <1>1 DEF ResultsInv, LoopShape
  <2>3. Going(r)' <=> phase'[r] \in {"turn", "dispatch"}
    BY DEF Going
  <2>4. phase'[r] = "turn" => turnCalls'[r] = calls /\ previousResults'[r] = Results(calls)
    BY <1>1, <2>3 DEF ResultsInv, LoopShape
  <2> QED BY <2>1, <2>2, <2>4
<1>3. LoopShape'
  <2>1. phase' \in [Run -> Phases]
    BY <1>1 DEF ResultsInv, LoopShape, Phases
  <2>2. turns' \in [Run -> Nat]
    <3>1. turns \in [Run -> Nat] /\ turns[r] + 1 \in Nat
      BY DEF ResultsInv, LoopShape
    <3> QED BY <1>1, <3>1
  <2>3. turnCalls' \in [Run -> Seq(ToolCall)]
    <3>1. turnCalls \in [Run -> Seq(ToolCall)] /\ <<>> \in Seq(ToolCall)
      BY DEF ResultsInv, LoopShape
    <3> QED BY <1>1, <3>1
  <2> QED BY <1>1, <2>1, <2>2, <2>3 DEF ResultsInv, LoopShape
<1>4. ASSUME NEW s \in Run, s # r
      PROVE  ResultsOf(s)'
  <2>1. \A t \in ToolCall : inTurn[t] /\ caller[t] = s => inTurn'[t]
    BY <1>1, <1>4
  <2>2. \A t \in ToolCall : /\ call[t] # "new" => call'[t] # "new"
                            /\ Settled(t) => call'[t] = call[t]
                            /\ call[t] # "new" /\ inTurn[t] /\ caller[t] = s =>
                                 inTurn'[t] /\ caller'[t] = s
    BY <1>1, <2>1
  <2> QED BY <1>2, <1>4, <2>2, OthersKept
<1>5. ResultsOf(r)'
  <2>1. CASE phase'[r] = "cut off"
    BY <2>1 DEF ResultsOf, InALaterTurn
  <2>2. CASE phase'[r] = "turn"
    <3>1. /\ calls # <<>> /\ OneEach(calls) /\ calls \in Seq(ToolCall)
          /\ \A t \in Elems(calls) : call[t] # "new" /\ inTurn[t] /\ caller[t] = r
      BY <1>1 DEF ResultsInv, ResultsOf, LoopShape
    <3>2. Elems(calls) \subseteq ToolCall
      BY <3>1 DEF Elems
    <3>3. \A t \in Elems(calls) : Settled(t)
      <4> SUFFICES ASSUME NEW t \in Elems(calls) PROVE Settled(t)
        OBVIOUS
      <4>1. t \in CallsOf(r) /\ call[t] # "new"
        BY <3>1, <3>2 DEF CallsOf
      <4>2. call[t] # "running"
        BY <1>1, <4>1 DEF AllSettled
      <4>3. call[t] \in {"new", "running", "ok", "failed", "denied"}
        BY <3>2 DEF ResultsInv, LoopShape
      <4> QED BY <4>1, <4>2, <4>3 DEF Settled
    <3>4. turnCalls'[r] = calls /\ previousResults'[r] = Results(calls)
      BY <1>2, <2>2
    <3>5. Results(turnCalls[r])' = Results(calls)
      <4>1. \A c \in Seq(ToolCall) : (\A t \in Elems(c) : Settled(t) /\ call'[t] = call[t]) =>
               Results(c)' = Results(c)
        BY ResultsStay
      <4>2. \A c : c = turnCalls'[r] => Results(turnCalls[r])' = Results(c)'
        BY DEF Results
      <4> QED BY <1>1, <3>1, <3>3, <3>4, <4>1, <4>2
    <3>6. /\ Elems(turnCalls[r])' = Elems(calls) /\ (OneEach(turnCalls[r])' <=> OneEach(calls))
          /\ \A t : Settled(t)' <=> Settled(t)
      BY <1>1, <3>4 DEF Elems, OneEach, Settled
    <3> QED BY <1>1, <2>2, <3>1, <3>3, <3>4, <3>5, <3>6 DEF ResultsOf
  <2> QED BY <1>2, <2>1, <2>2
<1> QED BY <1>3, <1>4, <1>5 DEF ResultsInv

(* CallsAnswered for every value of the constants: every request after the
   first has one true result for each call of the turn before it, in a message
   of its own that follows a call with its id, in whatever order calls settle
   (agent-loop.ts, dispatchTurn(); openrouter-provider.ts, toolResultMessages()). *)
THEOREM ResultsAnswerCalls == TurnSpec => []CallsAnswered
<1>1. Init => ResultsInv
  <2> SUFFICES ASSUME Init PROVE ResultsInv
    OBVIOUS
  <2>1. LoopShape
    BY DEF Init, LoopInit, LoopShape, Phases
  <2>2. \A r \in Run : phase[r] = "idle"
    BY DEF Init, LoopInit
  <2> QED BY <2>1, <2>2 DEF ResultsInv, ResultsOf, InALaterTurn
<1>2. ResultsInv /\ [NextTurn]_vars => ResultsInv'
  <2> SUFFICES ASSUME ResultsInv, [NextTurn]_vars PROVE ResultsInv'
    OBVIOUS
  <2>1. ASSUME NEW r \in Run, NEW premium \in Premium, RunInteraction(r, premium)
        PROVE  ResultsInv'
    <3>1. /\ phase' = [phase EXCEPT ![r] = "turn"] /\ turns' = [turns EXCEPT ![r] = 1]
          /\ UNCHANGED <<call, caller, inTurn, turnCalls, previousResults>>
      BY <2>1 DEF RunInteraction, StartRun, callVars
    <3>2. LoopShape'
      BY <3>1 DEF ResultsInv, LoopShape, Phases
    <3>3. phase'[r] = "turn" /\ turns'[r] = 1
      BY <3>1 DEF ResultsInv, LoopShape
    <3>4. ResultsOf(r)'
      BY <3>3 DEF ResultsOf, InALaterTurn
    <3>5. ASSUME NEW s \in Run, s # r PROVE ResultsOf(s)'
      <4>1. phase'[s] = phase[s] /\ turns'[s] = turns[s]
        BY <3>1, <3>5 DEF ResultsInv, LoopShape
      <4> QED BY <3>1, <4>1, OthersKept
    <3> QED BY <3>2, <3>4, <3>5 DEF ResultsInv
  <2>2. ASSUME NEW r \in Run, NEW response \in Response, NEW first,
               TurnSettles(r, response, first)
        PROVE  ResultsInv'
    <3> DEFINE calls == parseResponse(response).toolCalls
    <3>1. ASSUME NEW how \in {"finished", "cut off"}, TurnEnds(r, how) PROVE ResultsInv'
      <4>1. /\ phase' = [phase EXCEPT ![r] = how] /\ UNCHANGED <<call, caller, inTurn, turns>>
        BY <3>1 DEF TurnEnds, End, callVars
      <4>2. phase'[r] = how
        BY <4>1 DEF ResultsInv, LoopShape
      <4>3. ~Going(r)'
        BY <4>2 DEF Going
      <4>4. /\ turnCalls' = [turnCalls EXCEPT ![r] = <<>>]
            /\ previousResults' = [previousResults EXCEPT ![r] = <<>>]
        BY <2>2, <4>3 DEF TurnSettles, Remember
      <4>5. LoopShape'
        <5>1. phase' \in [Run -> Phases]
          BY <4>1 DEF ResultsInv, LoopShape, Phases
        <5>2. <<>> \in Seq(ToolCall)
          BY NoCalls
        <5>3. turnCalls' \in [Run -> Seq(ToolCall)]
          BY <4>4, <5>2 DEF ResultsInv, LoopShape
        <5> QED BY <4>1, <4>4, <5>1, <5>3 DEF ResultsInv, LoopShape
      <4>6. ResultsOf(r)'
        BY <4>2 DEF ResultsOf, InALaterTurn
      <4>7. ASSUME NEW s \in Run, s # r PROVE ResultsOf(s)'
        <5>1. /\ phase'[s] = phase[s] /\ turns'[s] = turns[s]
              /\ turnCalls'[s] = turnCalls[s] /\ previousResults'[s] = previousResults[s]
          BY <4>1, <4>4, <4>7 DEF ResultsInv, LoopShape
        <5> QED BY <4>1, <5>1, OthersKept
      <4> QED BY <4>5, <4>6, <4>7 DEF ResultsInv
    <3>2. ASSUME ~parseResponse(response).finished, TurnCalls(r, calls, first) PROVE ResultsInv'
      <4>1. calls \in Seq(ToolCall)
        BY ParsedCalls
      <4>2. calls # <<>>
        BY <3>2 DEF parseResponse
      <4>3. Going(r)'
        <5>1. phase'[r] = "dispatch"
          BY <3>2 DEF TurnCalls, ResultsInv, LoopShape
        <5> QED BY <5>1 DEF Going
      <4>4. /\ turnCalls' = [turnCalls EXCEPT ![r] = calls]
            /\ previousResults' = [previousResults EXCEPT ![r] = previousResults[r]]
        BY <2>2, <4>3 DEF TurnSettles, Remember
      <4> HIDE DEF calls
      <4> QED BY <3>2, <4>1, <4>2, <4>4, CallsAreMade
    <3> QED BY <2>2, <3>1, <3>2 DEF TurnSettles
  <2>3. ASSUME NEW r \in Run, TurnDispatched(r) PROVE ResultsInv'
    BY <2>3, ResultsAreTold
  <2>4. ASSUME NEW t \in ToolCall, NEW how \in {"ok", "failed"}, ToolSettles(t, how)
        PROVE  ResultsInv'
    <3>1. /\ call[t] = "running" /\ call' = [call EXCEPT ![t] = how]
          /\ UNCHANGED <<caller, inTurn, phase, turns, turnCalls, previousResults>>
      BY <2>4 DEF ToolSettles, CallSettles, conversationVars, conversationHistory
    <3>2. LoopShape'
      BY <3>1 DEF ResultsInv, LoopShape
    <3>3. \A u \in ToolCall : call'[u] = IF u = t THEN how ELSE call[u]
      BY <3>1 DEF ResultsInv, LoopShape
    <3>4. \A u \in ToolCall : /\ call[u] # "new" => call'[u] # "new"
                              /\ Settled(u) => call'[u] = call[u]
      BY <3>1, <3>3 DEF Settled
    <3>5. ASSUME NEW s \in Run PROVE ResultsOf(s)'
      BY <3>1, <3>4, OthersKept
    <3> QED BY <3>2, <3>5 DEF ResultsInv
  <2>5. CASE UNCHANGED vars
    <3>1. UNCHANGED <<call, caller, inTurn, phase, turns, turnCalls, previousResults>>
      BY <2>5 DEF vars, loopVars, runVars, callVars, conversationVars, conversationHistory
    <3>2. LoopShape'
      BY <3>1 DEF ResultsInv, LoopShape
    <3>3. ASSUME NEW s \in Run PROVE ResultsOf(s)'
      BY <3>1, OthersKept
    <3> QED BY <3>2, <3>3 DEF ResultsInv
  <2> QED
    BY <2>1, <2>2, <2>3, <2>4, <2>5 DEF NextTurn, TurnStep
<1>3. ResultsInv => CallsAnswered
  <2> SUFFICES ASSUME ResultsInv, NEW r \in Run, phase[r] = "turn", turns[r] > 1
      PROVE  LET entries == [k \in DOMAIN turnCalls[r] |-> TurnResultEntry(turnCalls[r][k])]
                 messages == buildRequestBody(LlmTurnRequest(r)).messages
                 results == SubSeq(messages, 4, Len(messages))
             IN  /\ \A e \in ToSet(entries) \cup ToSet(previousResults[r]) :
                      Count(entries, e) = Count(previousResults[r], e)
                 /\ Len(messages[3].tool_calls) = Len(results)
                 /\ \A k \in DOMAIN results :
                      results[k].tool_call_id = messages[3].tool_calls[k].id
    BY DEF CallsAnswered
  <2> DEFINE calls == turnCalls[r]
             given == previousResults[r]
             sorted == InOrderOfResults(calls)
  <2>1. calls \in Seq(ToolCall) /\ calls # <<>> /\ OneEach(calls) /\ given = Results(calls)
    BY DEF ResultsInv, LoopShape, ResultsOf, InALaterTurn
  <2> HIDE DEF calls, given
  <2>2. \A e : Count([k \in DOMAIN calls |-> TurnResultEntry(calls[k])], e) = Count(given, e)
    BY <2>1, CountedAlike
  <2>3. /\ sorted \in Seq(ToolCall) /\ Elems(sorted) = Elems(calls)
        /\ given = [k \in 1 .. Len(sorted) |-> TurnResultEntry(sorted[k])]
    BY <2>1, ResultsOfEach
  <2> HIDE DEF sorted
  <2>4. sorted # <<>>
    <3>1. calls[1] \in Elems(calls)
      BY <2>1 DEF Elems
    <3> QED BY <2>3, <3>1, ElemsOfNone
  <2> DEFINE T == {TurnResultEntry(sorted[k]) : k \in 1 .. Len(sorted)}
  <2>5. given \in Seq(T) /\ given # <<>>
    <3>1. Len(sorted) \in Nat /\ 1 \in 1 .. Len(sorted)
      BY <2>3, <2>4
    <3>2. given \in Seq(T) /\ Len(given) = Len(sorted)
      BY <2>3, <3>1
    <3> QED BY <3>1, <3>2
  <2> HIDE DEF T
  <2>6. previousResults[r] = given
    BY DEF given
  <2>7. LET messages == buildRequestBody(LlmTurnRequest(r)).messages
            results == SubSeq(messages, 4, Len(messages))
        IN  /\ Len(messages[3].tool_calls) = Len(results)
            /\ \A k \in DOMAIN results :
                 results[k].tool_call_id = messages[3].tool_calls[k].id
    BY <2>5, <2>6, RequestAnswers
  <2> QED BY <2>2, <2>7 DEF calls, given
<1> QED
  BY <1>1, <1>2, <1>3, PTL DEF TurnSpec

-----------------------------------------------------------------------------
(* The loop by itself (AgentLoop), with a host that starts one run at a time. *)
USE LoopAssumption DEF LoopAssumption

-----------------------------------------------------------------------------
(* The arithmetic of GuideBudget. *)

(* A run never carries over more than half of its budget: hoarding does not
   pay (reportInteraction()). *)
LEMMA CarryoverAtMostHalf ==
  ASSUME NEW t \in Int, NEW c \in Int
  PROVE  /\ NextCarryover(t, c) \in Int
         /\ 2 * NextCarryover(t, c) <= t
  BY DEF NextCarryover, Smaller

(* Pressure stays a natural number. *)
LEMMA PressureType ==
  ASSUME NEW p \in Nat, NEW t \in Int, NEW c \in Int
  PROVE  NextPressure(p, t, c) \in Nat
  BY DEF NextPressure, Smaller, Larger

(* What the gate weighs for an overspend is what reportInteraction() records
   when nothing else is spent after it. *)
LEMMA PressureIsProspective ==
  ASSUME NEW p \in Nat, NEW t \in Int, NEW c \in Int, c > t
  PROVE  NextPressure(p, t, c) = ProspectivePressure(p, c - t)
  BY DEF NextPressure, ProspectivePressure, Smaller, Larger

(* A gated call weighs a natural number. *)
LEMMA ForeseenType ==
  ASSUME TypeOK, NEW r \in Run, NEW t \in ToolCall, OverBudget(r, t)
  PROVE  Foreseen(r, t) \in Nat
  BY DEF TypeOK, Foreseen, OverBudget, Overspends, ProspectivePressure

(* What reportInteraction() leaves of a run has the tracker's types. *)
LEMMA ReportType ==
  ASSUME TypeOK, NEW r \in Run
  PROVE  /\ NextCarryover(total[r], consumed[r]) \in Int
         /\ NextPressure(pressure, total[r], consumed[r]) \in Nat
<1>1. total[r] \in Int /\ consumed[r] \in Int /\ pressure \in Nat
  BY DEF TypeOK
<1> QED
  BY <1>1, CarryoverAtMostHalf, PressureType

-----------------------------------------------------------------------------
(* The tracker and the loop have their types in every reachable state. *)
THEOREM TypeCorrect == Spec => []TypeOK
<1>1. LoopInit => TypeOK
  BY DEF LoopInit, TypeOK, Phases
<1>2. TypeOK /\ [Next]_loopVars => TypeOK'
  <2> SUFFICES ASSUME TypeOK, [Next]_loopVars PROVE TypeOK'
    OBVIOUS
  <2>1. ASSUME NEW r \in Run, NEW premium \in Premium, StartRun(r, premium)
        PROVE  TypeOK'
    <3>1. premium \in Int
      OBVIOUS
    <3>2. total' \in [Run -> Int]
      BY <2>1, <3>1 DEF StartRun, TypeOK, BudgetFor
    <3>3. phase' \in [Run -> Phases]
      BY <2>1 DEF StartRun, TypeOK, Phases
    <3>4. turns' \in [Run -> 0 .. MaxTurns]
      <4>1. 1 \in 0 .. MaxTurns
        OBVIOUS
      <4> QED
        BY <2>1, <4>1 DEF StartRun, TypeOK
    <3>5. gatePressure' \in [Run -> Nat]
      BY <2>1 DEF StartRun, TypeOK
    <3>6. undispatched' \subseteq ToolCall /\ shown' \subseteq ToolCall
      BY <2>1 DEF StartRun, TypeOK
    <3> QED
      BY <2>1, <3>2, <3>3, <3>4, <3>5, <3>6
      DEF StartRun, TypeOK, trackerVars, callVars
  <2>2. ASSUME NEW r \in Run, NEW how \in {"finished", "cut off"}, TurnEnds(r, how)
        PROVE  TypeOK'
    <3>1. carryover' \in Int /\ pressure' \in Nat
      BY <2>2, ReportType DEF TurnEnds, End
    <3> QED
      BY <2>2, <3>1 DEF TurnEnds, End, TypeOK, Phases, budgetVars, callVars, history
  <2>3. ASSUME NEW r \in Run, NEW calls \in Batch, NEW first \in 1 .. Len(calls) + 1,
               TurnCalls(r, calls, first)
        PROVE  TypeOK'
    <3>1. phase' \in [Run -> Phases]
      <4>1. phase' = [phase EXCEPT ![r] = "dispatch"]
        BY <2>3 DEF TurnCalls
      <4> QED
        BY <4>1 DEF TypeOK, Phases
    <3>2. denied' \in [Run -> BOOLEAN]
      <4> DEFINE closes == first <= Len(calls)
      <4>1. denied' = [denied EXCEPT ![r] = closes]
        BY <2>3 DEF TurnCalls
      <4>2. closes \in BOOLEAN
        OBVIOUS
      <4> HIDE DEF closes
      <4> QED
        BY <4>1, <4>2, Zenon DEF TypeOK
    <3>3. call' \in [ToolCall -> {"new", "running", "ok", "failed", "denied"}]
      BY <2>3 DEF TurnCalls, TypeOK
    <3>4. caller' \in [ToolCall -> Run \cup {None}]
      BY <2>3 DEF TurnCalls, TypeOK
    <3>5. inTurn' \in [ToolCall -> BOOLEAN]
      BY <2>3, Zenon DEF TurnCalls, TypeOK
    <3>6. weighed' \in [Run -> SUBSET Nat]
      <4> DEFINE admitted == {calls[i] : i \in 1 .. first - 1}
                 new == {Foreseen(r, t) : t \in {u \in admitted : OverBudget(r, u)}}
      <4>1. admitted \subseteq ToolCall
        BY <2>3 DEF Batch
      <4>2. new \subseteq Nat
        BY <4>1, ForeseenType
      <4>3. weighed' = [weighed EXCEPT ![r] = @ \cup new]
        BY <2>3 DEF TurnCalls
      <4> HIDE DEF new
      <4> QED
        BY <4>2, <4>3 DEF TypeOK
    <3> QED
      BY <2>3, <3>1, <3>2, <3>3, <3>4, <3>5, <3>6
      DEF TurnCalls, TypeOK, trackerVars, carriedVars
  <2>4. ASSUME NEW t \in ToolCall, NEW how \in {"ok", "failed"}, CallSettles(t, how)
        PROVE  TypeOK'
    <3>1. ASSUME how = "ok" PROVE consumed' \in [Run -> Nat]
      <4>1. caller[t] \in Run => consumed[caller[t]] + Cost[t] \in Nat
        BY DEF TypeOK
      <4>2. consumed' = [consumed EXCEPT ![caller[t]] = @ + Cost[t]]
        BY <2>4, <3>1 DEF CallSettles
      <4> QED
        BY <4>1, <4>2 DEF TypeOK
    <3>2. consumed' \in [Run -> Nat]
      BY <2>4, <3>1 DEF CallSettles, TypeOK
    <3>3. call' \in [ToolCall -> {"new", "running", "ok", "failed", "denied"}]
      BY <2>4 DEF CallSettles, TypeOK
    <3> QED
      BY <2>4, <3>2, <3>3 DEF CallSettles, TypeOK, trackerVars, carriedVars, history
  <2>5. ASSUME NEW r \in Run, DispatchEnds(r)
        PROVE  TypeOK'
    <3> DEFINE collected == pendingUndispatched
                 \cup {t \in CallsOf(r) : call[t] \in {"failed", "denied"}}
    <3>1. collected \subseteq ToolCall
      BY DEF TypeOK, CallsOf
    <3>2. inTurn' \in [ToolCall -> BOOLEAN]
      BY <2>5, Zenon DEF DispatchEnds, TypeOK
    <3>3. CASE End(r, "cut off", collected) /\ UNCHANGED turns
      <4>1. carryover' \in Int /\ pressure' \in Nat
        BY <3>3, ReportType DEF End
      <4> QED
        BY <2>5, <3>1, <3>2, <3>3, <4>1
        DEF DispatchEnds, End, TypeOK, Phases, budgetVars, history
    <3>4. CASE /\ turns[r] < MaxTurns
               /\ phase' = [phase EXCEPT ![r] = "turn"]
               /\ turns' = [turns EXCEPT ![r] = @ + 1]
               /\ pendingUndispatched' = collected
               /\ UNCHANGED <<trackerVars, undispatched>>
      <4>1. turns' \in [Run -> 0 .. MaxTurns]
        BY <3>4 DEF TypeOK
      <4> QED
        BY <2>5, <3>1, <3>2, <3>4, <4>1
        DEF DispatchEnds, TypeOK, Phases, trackerVars, budgetVars, history
    <3>5. ~LastTurn(r) => turns[r] < MaxTurns
      BY DEF LastTurn, TypeOK
    <3> QED
      BY <2>5, <3>3, <3>4, <3>5 DEF DispatchEnds
  <2>6. CASE UNCHANGED loopVars
    BY <2>6 DEF loopVars, TypeOK, trackerVars, carriedVars, runVars, budgetVars,
                callVars, history
  <2> QED
    BY <2>1, <2>2, <2>3, <2>4, <2>5, <2>6 DEF Next, LoopStep
<1> QED
  BY <1>1, <1>2, PTL DEF Spec

-----------------------------------------------------------------------------
(* The two bounds keep each other: a budget is at most twice the bound of the
   carryover because base and premium are, and a carryover is at most half of
   the budget of the run that leaves it. *)
THEOREM Frugal == Spec => []SavingsBounded
<1>1. LoopInit => SavingsBounded
  BY DEF LoopInit, SavingsBounded
<1>2. TypeOK /\ SavingsBounded /\ [Next]_loopVars => SavingsBounded'
  <2> SUFFICES ASSUME TypeOK, SavingsBounded, [Next]_loopVars
               PROVE  SavingsBounded'
    OBVIOUS
  <2>1. ASSUME NEW r \in Run, NEW premium \in Premium, StartRun(r, premium)
        PROVE  SavingsBounded'
    <3>1. premium \in Int /\ premium <= MaxPremium
      OBVIOUS
    <3>2. /\ carryover' = carryover
          /\ total' = [total EXCEPT ![r] = Base + premium + carryover]
      BY <2>1 DEF StartRun, BudgetFor, trackerVars
    <3> QED
      BY <3>1, <3>2 DEF SavingsBounded, TypeOK
  <2>2. ASSUME NEW r \in Run, carryover' = NextCarryover(total[r], consumed[r]),
               total' = total
        PROVE  SavingsBounded'
    <3>1. total[r] \in Int /\ consumed[r] \in Int
      BY DEF TypeOK
    <3>2. carryover' \in Int /\ 2 * carryover' <= total[r]
      BY <2>2, <3>1, CarryoverAtMostHalf
    <3>3. total[r] <= 2 * (Base + MaxPremium)
      BY DEF SavingsBounded
    <3>4. carryover' <= Base + MaxPremium
      BY <3>1, <3>2, <3>3
    <3> QED
      BY <2>2, <3>4 DEF SavingsBounded
  <2>3. ASSUME carryover' = carryover, total' = total
        PROVE  SavingsBounded'
    BY <2>3 DEF SavingsBounded
  <2>4. ASSUME NEW r \in Run, NEW how \in {"finished", "cut off"}, TurnEnds(r, how)
        PROVE  SavingsBounded'
    BY <2>2, <2>4 DEF TurnEnds, End, budgetVars
  <2>5. ASSUME NEW r \in Run, NEW calls \in Batch, NEW first \in 1 .. Len(calls) + 1,
               TurnCalls(r, calls, first)
        PROVE  SavingsBounded'
    BY <2>3, <2>5 DEF TurnCalls, trackerVars
  <2>6. ASSUME NEW t \in ToolCall, NEW how \in {"ok", "failed"}, CallSettles(t, how)
        PROVE  SavingsBounded'
    BY <2>3, <2>6 DEF CallSettles, trackerVars
  <2>7. ASSUME NEW r \in Run, DispatchEnds(r)
        PROVE  SavingsBounded'
    BY <2>2, <2>3, <2>7 DEF DispatchEnds, End, budgetVars, trackerVars
  <2>8. CASE UNCHANGED loopVars
    BY <2>3, <2>8 DEF loopVars, trackerVars, runVars, budgetVars
  <2> QED
    BY <2>1, <2>4, <2>5, <2>6, <2>7, <2>8 DEF Next, LoopStep
<1> QED
  BY <1>1, <1>2, TypeCorrect, PTL DEF Spec

-----------------------------------------------------------------------------
(* The gate.  One run goes on at a time, with the pressure its gate was made
   with; what has been denied ends its dispatching. *)
OneRun ==
  /\ \A r, s \in Run : Going(r) /\ Going(s) => r = s
  /\ \A r \in Run : Going(r) => gatePressure[r] = pressure
  /\ \A r \in Run : denied[r] => phase[r] \in {"dispatch", "cut off"}
  /\ \A r \in Run : phase[r] = "idle" => consumed[r] = 0

(* A call that runs belongs to the turn its run waits for. *)
CallsWaitedFor ==
  \A t \in ToolCall :
    /\ call[t] = "running" => inTurn[t]
    /\ inTurn[t] => caller[t] \in Run /\ phase[caller[t]] = "dispatch"
    /\ call[t] = "new" => ~inTurn[t]

(* What the overspend of a run whose calls went one at a time comes to has been
   weighed by its gate, and so has what its call would come to. *)
Weighed(r) ==
  /\ consumed[r] > 0 /\ consumed[r] > total[r] =>
       ProspectivePressure(gatePressure[r], consumed[r] - total[r]) \in weighed[r]
  /\ \A t \in ToolCall : call[t] = "running" /\ caller[t] = r =>
       /\ OverBudget(r, t) => Foreseen(r, t) \in weighed[r]
       /\ \A u \in ToolCall : call[u] = "running" /\ caller[u] = r => u = t

GateInv == TypeOK /\ OneRun /\ CallsWaitedFor /\ \A r \in Run \ parallel : Weighed(r)

(* Two calls that differ make more than one. *)
LEMMA MoreThanOne ==
  ASSUME NEW S, IsFiniteSet(S), NEW x \in S, NEW y \in S, x # y
  PROVE  Cardinality(S) > 1
<1>1. {x, y} \subseteq S /\ y \notin {x} /\ {x, y} = {x} \cup {y}
  OBVIOUS
<1>2. IsFiniteSet({x}) /\ Cardinality({x}) = 1
  BY FS_Singleton
<1>3. IsFiniteSet({x, y}) /\ Cardinality({x, y}) = 2
  <2>1. /\ IsFiniteSet({x} \cup {y})
        /\ Cardinality({x} \cup {y}) = IF y \in {x} THEN Cardinality({x}) ELSE Cardinality({x}) + 1
    BY <1>2, FS_AddElement
  <2> QED BY <1>1, <1>2, <2>1
<1>4. Cardinality({x, y}) <= Cardinality(S)
  BY <1>1, FS_Subset
<1>5. Cardinality(S) \in Nat
  BY FS_CardinalityType
<1> QED BY <1>3, <1>4, <1>5

(* A step that changes nothing of the calls and budgets keeps what is weighed. *)
LEMMA WeighedKept ==
  ASSUME NEW r \in Run, Weighed(r),
         consumed'[r] = consumed[r], total'[r] = total[r], gatePressure'[r] = gatePressure[r],
         weighed'[r] = weighed[r],
         \A t \in ToolCall : call'[t] = "running" /\ caller'[t] = r
                               => call[t] = "running" /\ caller[t] = r
  PROVE  Weighed(r)'
BY DEF Weighed, OverBudget, Foreseen

(* A run that starts while none goes on keeps the gate true, with nothing weighed. *)
LEMMA StartRunGate ==
  ASSUME GateInv, NEW r \in Run, NEW premium \in Premium, StartRun(r, premium),
         \A s \in Run : ~Going(s)
  PROVE  OneRun' /\ CallsWaitedFor' /\ \A s \in Run \ parallel' : Weighed(s)'
<1>1. /\ phase[r] = "idle" /\ phase' = [phase EXCEPT ![r] = "turn"]
      /\ gatePressure' = [gatePressure EXCEPT ![r] = pressure]
      /\ \A s \in Run : s # r => total'[s] = total[s] /\ gatePressure'[s] = gatePressure[s]
      /\ UNCHANGED <<pressure, consumed, denied, call, caller, inTurn, weighed, parallel>>
  BY DEF GateInv, TypeOK, StartRun, trackerVars, callVars
<1>2. \A s \in Run : phase'[s] = IF s = r THEN "turn" ELSE phase[s]
  BY <1>1 DEF GateInv, TypeOK
<1>3. gatePressure'[r] = pressure
  BY <1>1 DEF GateInv, TypeOK
<1>4. OneRun'
  <2>1. \A s \in Run : Going(s)' => s = r
    BY <1>2 DEF Going
  <2>2. \A s \in Run : denied'[s] => phase'[s] \in {"dispatch", "cut off"}
    BY <1>1, <1>2 DEF GateInv, OneRun
  <2>3. \A s \in Run : phase'[s] = "idle" => consumed'[s] = 0
    BY <1>1, <1>2 DEF GateInv, OneRun
  <2> QED BY <1>1, <1>3, <2>1, <2>2, <2>3 DEF OneRun
<1>5. CallsWaitedFor'
  BY <1>1, <1>2 DEF GateInv, CallsWaitedFor
<1>6. ASSUME NEW s \in Run \ parallel
      PROVE  Weighed(s)'
  <2>1. CASE s = r
    <3>1. consumed'[r] = 0
      BY <1>1 DEF GateInv, OneRun
    <3>2. \A t \in ToolCall : ~(call'[t] = "running" /\ caller'[t] = r)
      BY <1>1 DEF GateInv, CallsWaitedFor
    <3> QED BY <2>1, <3>1, <3>2 DEF Weighed
  <2>2. CASE s # r
    BY <1>1, <2>2, WeighedKept DEF GateInv
  <2> QED BY <2>1, <2>2
<1> QED BY <1>1, <1>4, <1>5, <1>6

(* The last answer of a run keeps the gate true. *)
LEMMA TurnEndsGate ==
  ASSUME GateInv, NEW r \in Run, NEW how \in {"finished", "cut off"}, TurnEnds(r, how)
  PROVE  OneRun' /\ CallsWaitedFor' /\ \A s \in Run \ parallel' : Weighed(s)'
<1>1. /\ phase[r] = "turn" /\ phase' = [phase EXCEPT ![r] = how]
      /\ UNCHANGED <<consumed, total, gatePressure, denied, call, caller, inTurn, weighed, parallel>>
  BY DEF TurnEnds, End, budgetVars, callVars, history
<1>2. \A s \in Run : phase'[s] = IF s = r THEN how ELSE phase[s]
  BY <1>1 DEF GateInv, TypeOK
<1>3. OneRun'
  BY <1>1, <1>2 DEF GateInv, OneRun, Going
<1>4. CallsWaitedFor'
  BY <1>1, <1>2 DEF GateInv, CallsWaitedFor
<1>5. ASSUME NEW s \in Run \ parallel
      PROVE  Weighed(s)'
  BY <1>1, WeighedKept DEF GateInv
<1> QED BY <1>1, <1>3, <1>4, <1>5

(* A turn of calls keeps the gate true: what it admits it has weighed, or they go together. *)
LEMMA TurnCallsGate ==
  ASSUME GateInv, NEW r \in Run, NEW calls \in Batch, NEW first \in 1 .. Len(calls) + 1,
         TurnCalls(r, calls, first)
  PROVE  OneRun' /\ CallsWaitedFor' /\ \A s \in Run \ parallel' : Weighed(s)'
<1> DEFINE made == {calls[i] : i \in DOMAIN calls}
           admitted == {calls[i] : i \in 1 .. first - 1}
           foreseen == {Foreseen(r, t) : t \in {u \in admitted : OverBudget(r, u)}}
<1>1. /\ phase[r] = "turn" /\ phase' = [phase EXCEPT ![r] = "dispatch"]
      /\ \A t \in made : call[t] = "new"
      /\ denied' = [denied EXCEPT ![r] = first <= Len(calls)]
      /\ call' = [t \in ToolCall |-> CASE t \in admitted -> "running"
                                       [] t \in made \ admitted -> "denied"
                                       [] OTHER -> call[t]]
      /\ caller' = [t \in ToolCall |-> IF t \in made THEN r ELSE caller[t]]
      /\ inTurn' = [t \in ToolCall |-> t \in made \/ inTurn[t]]
      /\ weighed' = [weighed EXCEPT ![r] = @ \cup foreseen]
      /\ parallel' = IF Cardinality(admitted) > 1 THEN parallel \cup {r} ELSE parallel
      /\ UNCHANGED <<pressure, total, consumed, gatePressure>>
  BY DEF TurnCalls, trackerVars
<1>2. \A s \in Run : phase'[s] = IF s = r THEN "dispatch" ELSE phase[s]
  BY <1>1 DEF GateInv, TypeOK
<1>3. \A s \in Run : s # r => denied'[s] = denied[s]
  BY <1>1, Zenon DEF GateInv, TypeOK
<1>4. /\ calls \in Seq(ToolCall) /\ DOMAIN calls = 1 .. Len(calls)
      /\ admitted \subseteq made /\ made \subseteq ToolCall
  BY DEF Batch
<1>5. IsFiniteSet(admitted)
  <2> DEFINE f == [i \in 1 .. first - 1 |-> calls[i]]
  <2>1. f \in Surjection(1 .. first - 1, admitted)
    BY DEF Surjection
  <2>2. IsFiniteSet(1 .. first - 1)
    BY FS_Interval
  <2> QED BY <2>1, <2>2, FS_Surjection
<1> HIDE DEF made, admitted, foreseen
<1>6. OneRun'
  <2>1. \A s \in Run : Going(s)' => Going(s)
    BY <1>1, <1>2 DEF Going
  <2>2. \A s \in Run : denied'[s] => phase'[s] \in {"dispatch", "cut off"}
    BY <1>2, <1>3 DEF GateInv, OneRun
  <2>3. \A s \in Run : phase'[s] = "idle" => phase[s] = "idle"
    BY <1>2
  <2> QED BY <1>1, <2>1, <2>2, <2>3 DEF GateInv, OneRun
<1>7. \A t \in ToolCall : /\ t \in made => inTurn'[t] /\ caller'[t] = r /\ call'[t] # "new"
                          /\ t \notin made => /\ inTurn'[t] = inTurn[t] /\ caller'[t] = caller[t]
                                              /\ call'[t] = call[t]
                          /\ call'[t] = "running" => t \in admitted \/ t \notin made
  <2>1. \A t \in ToolCall : inTurn[t] \in BOOLEAN
    BY DEF GateInv, TypeOK
  <2>2. \A t \in ToolCall : inTurn'[t] = (t \in made \/ inTurn[t])
    BY <1>1, Zenon
  <2>3. \A t \in ToolCall : t \notin made => inTurn'[t] = inTurn[t]
    BY <2>1, <2>2
  <2>4. \A t \in ToolCall : t \in made => inTurn'[t]
    BY <2>2
  <2> QED BY <1>1, <1>4, <2>3, <2>4
<1>8. CallsWaitedFor'
  BY <1>1, <1>2, <1>4, <1>7 DEF GateInv, CallsWaitedFor
<1>9. ASSUME NEW s \in Run \ parallel'
      PROVE  Weighed(s)'
  <2>1. s \notin parallel
    BY <1>1
  <2>2. CASE s # r
    <3>1. weighed'[s] = weighed[s]
      BY <1>1, <2>2 DEF GateInv, TypeOK
    <3>2. ASSUME NEW t \in ToolCall, call'[t] = "running", caller'[t] = s
          PROVE  call[t] = "running" /\ caller[t] = s
      BY <1>7, <2>2, <3>2
    <3> QED BY <1>1, <2>1, <3>1, <3>2, WeighedKept DEF GateInv
  <2>3. CASE s = r
    <3>1. weighed'[r] = weighed[r] \cup foreseen
      BY <1>1 DEF GateInv, TypeOK
    <3>2. \A t \in ToolCall : call[t] = "running" => caller[t] # r
      BY <1>1 DEF GateInv, CallsWaitedFor
    <3>3. \A t \in ToolCall : call'[t] = "running" /\ caller'[t] = r => t \in admitted
      BY <1>7, <3>2
    <3>4. \A t, u \in admitted : t = u
      BY <1>1, <1>5, <2>3, MoreThanOne
    <3>5. \A t \in admitted : OverBudget(r, t) => Foreseen(r, t) \in foreseen
      BY DEF foreseen
    <3>6. \A t \in ToolCall : /\ OverBudget(r, t)' <=> OverBudget(r, t)
                              /\ Foreseen(r, t)' = Foreseen(r, t)
      BY <1>1 DEF OverBudget, Foreseen
    <3>7. Weighed(r)
      BY <2>1, <2>3 DEF GateInv
    <3> QED BY <1>1, <1>4, <2>3, <3>1, <3>3, <3>4, <3>5, <3>6, <3>7 DEF Weighed
  <2> QED BY <2>2, <2>3
<1> QED BY <1>6, <1>8, <1>9

(* A call that settles keeps the gate true: it is charged as it was weighed. *)
LEMMA CallSettlesGate ==
  ASSUME GateInv, NEW t \in ToolCall, NEW how \in {"ok", "failed"}, CallSettles(t, how)
  PROVE  OneRun' /\ CallsWaitedFor' /\ \A s \in Run \ parallel' : Weighed(s)'
<1>1. /\ call[t] = "running" /\ call' = [call EXCEPT ![t] = how]
      /\ consumed' = IF how = "ok" THEN [consumed EXCEPT ![caller[t]] = @ + Cost[t]] ELSE consumed
      /\ UNCHANGED <<pressure, phase, total, denied, gatePressure, caller, inTurn, weighed, parallel>>
  BY DEF CallSettles, trackerVars, history
<1>2. /\ \A u \in ToolCall : call'[u] = IF u = t THEN how ELSE call[u]
      /\ inTurn[t] /\ caller[t] \in Run /\ phase[caller[t]] = "dispatch"
  BY <1>1 DEF GateInv, TypeOK, CallsWaitedFor
<1>3. \A s \in Run : consumed'[s] = IF how = "ok" /\ s = caller[t] THEN consumed[s] + Cost[t]
                                    ELSE consumed[s]
  BY <1>1 DEF GateInv, TypeOK
<1>4. OneRun'
  BY <1>1, <1>2, <1>3 DEF GateInv, OneRun, Going
<1>5. CallsWaitedFor'
  BY <1>1, <1>2 DEF GateInv, CallsWaitedFor
<1>6. ASSUME NEW s \in Run \ parallel'
      PROVE  Weighed(s)'
  <2>1. Weighed(s)
    BY <1>1 DEF GateInv
  <2>2. CASE s = caller[t] /\ how = "ok"
    <3>1. \A u \in ToolCall : ~(call'[u] = "running" /\ caller'[u] = s)
      BY <1>1, <1>2, <2>1, <2>2 DEF Weighed
    <3>2. OverBudget(s, t) => Foreseen(s, t) \in weighed[s]
      BY <1>1, <2>1, <2>2 DEF Weighed
    <3>3. /\ consumed'[s] = consumed[s] + Cost[t] /\ Cost[t] \in Nat
          /\ consumed[s] \in Nat /\ total[s] \in Int /\ gatePressure[s] \in Nat
      BY <1>3, <2>2 DEF GateInv, TypeOK
    <3>4. consumed'[s] > total[s] => OverBudget(s, t)
      BY <3>3 DEF OverBudget, Overspends
    <3>5. Cost[t] - (total[s] - consumed[s]) = consumed'[s] - total[s]
      BY <3>3
    <3>6. consumed'[s] > total'[s] =>
            ProspectivePressure(gatePressure'[s], consumed'[s] - total'[s]) \in weighed'[s]
      BY <1>1, <3>2, <3>4, <3>5 DEF Foreseen
    <3> QED BY <3>1, <3>6 DEF Weighed
  <2>3. CASE ~(s = caller[t] /\ how = "ok")
    BY <1>1, <1>2, <1>3, <2>1, <2>3, WeighedKept
  <2> QED BY <2>2, <2>3
<1> QED BY <1>4, <1>5, <1>6

(* The end of a turn, after its last call, keeps the gate true. *)
LEMMA DispatchEndsGate ==
  ASSUME GateInv, NEW r \in Run, DispatchEnds(r)
  PROVE  OneRun' /\ CallsWaitedFor' /\ \A s \in Run \ parallel' : Weighed(s)'
<1>1. /\ phase[r] = "dispatch" /\ AllSettled(r)
      /\ inTurn' = [t \in ToolCall |-> inTurn[t] /\ caller[t] # r]
      /\ UNCHANGED <<total, consumed, denied, gatePressure, call, caller, weighed, parallel>>
      /\ \/ phase' = [phase EXCEPT ![r] = "cut off"]
         \/ phase' = [phase EXCEPT ![r] = "turn"] /\ ~denied[r] /\ pressure' = pressure
  BY DEF DispatchEnds, End, LastTurn, budgetVars, history, trackerVars
<1>2. \E to \in {"cut off", "turn"} :
        /\ \A s \in Run : phase'[s] = IF s = r THEN to ELSE phase[s]
        /\ to = "turn" => ~denied[r] /\ pressure' = pressure
  BY <1>1 DEF GateInv, TypeOK
<1>3. OneRun'
  BY <1>1, <1>2 DEF GateInv, OneRun, Going
<1>4. \A t \in ToolCall : inTurn'[t] <=> inTurn[t] /\ caller[t] # r
  BY <1>1, Zenon
<1>5. \A t \in ToolCall : call[t] = "running" => caller[t] # r
  BY <1>1 DEF GateInv, CallsWaitedFor, AllSettled, CallsOf
<1>6. CallsWaitedFor'
  BY <1>1, <1>2, <1>4, <1>5 DEF GateInv, CallsWaitedFor
<1>7. ASSUME NEW s \in Run \ parallel
      PROVE  Weighed(s)'
  BY <1>1, WeighedKept DEF GateInv
<1> QED BY <1>1, <1>3, <1>6, <1>7

(* Every step of the loop keeps the gate true. *)
LEMMA GateKept ==
  ASSUME GateInv, [Next]_loopVars
  PROVE  OneRun' /\ CallsWaitedFor' /\ \A s \in Run \ parallel' : Weighed(s)'
<1>1. CASE UNCHANGED loopVars
  <2>1. UNCHANGED <<pressure, phase, total, consumed, denied, gatePressure, call, caller, inTurn,
                    weighed, parallel>>
    BY <1>1 DEF loopVars, trackerVars, runVars, budgetVars, callVars, history
  <2>2. OneRun' /\ CallsWaitedFor'
    BY <2>1 DEF GateInv, OneRun, Going, CallsWaitedFor
  <2>3. ASSUME NEW r \in Run \ parallel
        PROVE  Weighed(r)'
    BY <2>1, WeighedKept DEF GateInv
  <2> QED BY <2>1, <2>2, <2>3
<1> QED
  BY <1>1, StartRunGate, TurnEndsGate, TurnCallsGate, CallSettlesGate, DispatchEndsGate
  DEF Next, LoopStep

(* The invariant of the gate holds throughout. *)
LEMMA GateInvHolds == Spec => []GateInv
<1>1. LoopInit => OneRun /\ CallsWaitedFor /\ \A r \in Run \ parallel : Weighed(r)
  BY DEF LoopInit, OneRun, Going, CallsWaitedFor, Weighed
<1>2. DEFINE Rest == OneRun /\ CallsWaitedFor /\ \A r \in Run \ parallel : Weighed(r)
<1>3. TypeOK /\ Rest /\ [Next]_loopVars => Rest'
  BY GateKept DEF GateInv
<1>4. TypeOK /\ Rest => GateInv
  BY DEF GateInv
<1> QED BY <1>1, <1>3, <1>4, TypeCorrect, PTL DEF Spec

(* What the gate decides is decided once, for every cost, budget and number of
   runs: what an overspend costs in the end is what was weighed before it, and
   no call begins to run once one has been denied (InteractionBudget, the
   dispatch of a turn in runInteraction()). *)
THEOREM GateDecidesOnce == Spec => GateHolds
<1>1. GateInv /\ [Next]_loopVars =>
        [\A r \in Run \ parallel :
           Going(r) /\ ~Going(r)' /\ consumed[r] > 0 /\ consumed[r] > total[r]
             => \E w \in weighed[r] : pressure' <= w]_loopVars
  <2> SUFFICES ASSUME GateInv, Next, NEW r \in Run \ parallel, Going(r), ~Going(r)',
                      consumed[r] > 0, consumed[r] > total[r]
               PROVE  \E w \in weighed[r] : pressure' <= w
    BY DEF loopVars, runVars, Going
  <2> DEFINE w == ProspectivePressure(gatePressure[r], consumed[r] - total[r])
  <2>1. w \in weighed[r] /\ gatePressure[r] = pressure
    BY DEF GateInv, OneRun, Weighed
  <2>2. consumed[r] \in Int /\ total[r] \in Int /\ pressure \in Nat
    BY DEF GateInv, TypeOK
  <2>3. /\ phase[r] \in {"turn", "dispatch"} /\ phase'[r] \notin {"turn", "dispatch"}
        /\ phase \in [Run -> Phases]
    BY DEF Going, GateInv, TypeOK
  <2>4. pressure' = NextPressure(pressure, total[r], consumed[r])
    <3>1. ASSUME NEW s \in Run, NEW premium \in Premium, StartRun(s, premium)
          PROVE  FALSE
      BY <2>3, <3>1 DEF StartRun
    <3>2. ASSUME NEW s \in Run, NEW how \in {"finished", "cut off"}, TurnEnds(s, how)
          PROVE  pressure' = NextPressure(pressure, total[r], consumed[r])
      BY <2>3, <3>2 DEF TurnEnds, End
    <3>3. ASSUME NEW s \in Run, NEW calls, NEW first, TurnCalls(s, calls, first)
          PROVE  FALSE
      BY <2>3, <3>3 DEF TurnCalls
    <3>4. ASSUME NEW s \in Run, DispatchEnds(s)
          PROVE  pressure' = NextPressure(pressure, total[r], consumed[r])
      BY <2>3, <3>4 DEF DispatchEnds, End
    <3>5. ASSUME NEW t \in ToolCall, NEW how, CallSettles(t, how)
          PROVE  FALSE
      BY <2>3, <3>5 DEF CallSettles
    <3> QED BY <3>1, <3>2, <3>3, <3>4, <3>5 DEF Next, LoopStep
  <2>5. pressure' = w
    BY <2>1, <2>2, <2>4, PressureIsProspective
  <2>6. w \in Int
    BY <2>1, <2>2 DEF ProspectivePressure
  <2> HIDE DEF w
  <2> QED BY <2>1, <2>5, <2>6
<1>2. GateInv /\ [Next]_loopVars =>
        [\A t \in ToolCall : call[t] = "new" /\ call'[t] = "running"
           => ~denied[caller'[t]]]_loopVars
  <2> SUFFICES ASSUME GateInv, Next, NEW t \in ToolCall, call[t] = "new", call'[t] = "running"
               PROVE  ~denied[caller'[t]]
    BY DEF loopVars, callVars
  <2>1. ASSUME NEW r \in Run, NEW calls \in Batch, NEW first \in 1 .. Len(calls) + 1,
               TurnCalls(r, calls, first)
        PROVE  ~denied[caller'[t]]
    <3>1. phase[r] = "turn" /\ caller'[t] = r
      <4>1. \/ t \in {calls[i] : i \in DOMAIN calls}
            \/ t \in {calls[i] : i \in 1 .. first - 1}
        BY <2>1 DEF TurnCalls
      <4>2. DOMAIN calls = 1 .. Len(calls)
        BY DEF Batch
      <4> QED BY <2>1, <4>1, <4>2 DEF TurnCalls
    <3> QED BY <3>1 DEF GateInv, OneRun
  <2>2. UNCHANGED call => FALSE
    OBVIOUS
  <2>3. \A r \in Run : ~DispatchEnds(r) /\ \A how : ~TurnEnds(r, how)
    BY <2>2 DEF DispatchEnds, TurnEnds, callVars
  <2>4. \A r \in Run, premium \in Premium : ~StartRun(r, premium)
    BY <2>2 DEF StartRun, callVars
  <2>5. \A u \in ToolCall : ~CallSettles(u, "ok") /\ ~CallSettles(u, "failed")
    BY DEF CallSettles, GateInv, TypeOK
  <2> QED BY <2>1, <2>3, <2>4, <2>5 DEF Next, LoopStep
<1> QED
  BY <1>1, <1>2, GateInvHolds, PTL DEF Spec, GateHolds, PressureForeseen, NoneAfterDenial
=============================================================================

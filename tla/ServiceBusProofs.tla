---------------------------- MODULE ServiceBusProofs ----------------------------
(***************************************************************************)
(* Proofs about ServiceBus, for any number of buses, hosts, services and    *)
(* calls, and any number of restarts and reconnections: the element holds   *)
(* its bus, and the bus implements RemoteCall.                              *)
(***************************************************************************)
EXTENDS ServiceBus, SequenceLemmas, TLAPS

USE BusAssumption DEF BusAssumption

(* The bus the element has is running, and is the one it provides if any. *)
Holds ==
  /\ DOMAIN life = Bus
  /\ ref # None => ref \in Bus /\ life[ref] = "running"
  /\ provided # None => provided = ref

IInv == Holds /\ NoBusLost

(* _stopBus() lets go of a bus only when it disposes it. *)
LEMMA StopStep ==
  ASSUME IInv, StopBus
  PROVE  IInv'
<1>1. CASE ref = None
  BY <1>1 DEF StopBus, IInv, Holds, NoBusLost
<1>2. CASE ref # None
  <2>1. /\ ref' = None /\ provided' = None
        /\ DOMAIN life' = Bus
        /\ \A b \in Bus : life'[b] = IF b = ref THEN "disposed" ELSE life[b]
    BY <1>2 DEF StopBus, IInv, Holds
  <2> QED
    BY <2>1 DEF IInv, Holds, NoBusLost
<1> QED
  BY <1>1, <1>2

(* _startBus() makes a bus only when there is none. *)
LEMMA StartStep ==
  ASSUME IInv, NEW atFirst \in {None, provided}, StartBus(atFirst)
  PROVE  IInv'
<1>1. CASE ref # None \/ options \notin Kinds
  BY <1>1 DEF StartBus, IInv, Holds, NoBusLost
<1>2. CASE ~(ref # None \/ options \notin Kinds)
  <2>1. MakeBus /\ ref = None
    BY <1>2 DEF StartBus
  <2>2. PICK b \in Bus : /\ life' = [life EXCEPT ![b] = "running"]
                         /\ ref' = b /\ provided' = b
    BY <2>1 DEF MakeBus
  <2>3. \A c \in Bus : life[c] # "running"
    BY <2>1 DEF IInv, NoBusLost
  <2> QED
    BY <2>2, <2>3 DEF IInv, Holds, NoBusLost
<1> QED
  BY <1>1, <1>2

(* Nothing else moves a bus. *)
LEMMA OtherStep ==
  ASSUME IInv, UNCHANGED <<ref, provided, life>>
  PROVE  IInv'
  BY DEF IInv, Holds, NoBusLost

-----------------------------------------------------------------------------
(* Types *)

(* The record a sender makes is an envelope. *)
LEMMA EnvType ==
  ASSUME NEW type \in Answers \cup {"call"}, NEW c \in Call
  PROVE  /\ Env(type, c) \in Envelope
         /\ Env(type, c).type = type /\ Env(type, c).id = c
BY DEF Env, Envelope

(* The types of what _stopBus() changes. *)
LEMMA StopType ==
  ASSUME TypeOK, StopBus
  PROVE  /\ ref' \in Bus \cup {None} /\ provided' \in Bus \cup {None}
         /\ life' \in [Bus -> {"unused", "running", "disposed"}]
         /\ kind' \in [Bus -> Kinds \cup {None}]
         /\ phase' \in [Call -> {"new", "invalid", "pending", "unheard", "timeout", "disposed", "gone"} \cup Answers]
         /\ via' = via /\ runs' = runs /\ owner' = owner
         /\ up' \in [Bus -> Seq(Envelope)] /\ down' \in [Bus -> Seq(Envelope)]
         /\ awaits' \in [Call -> Host \cup {None}]
         /\ serviceToHost' \in [Bus -> [Service -> Host \cup {None}]]
         /\ hostState' \in [Host -> {"unused", "launching", "up", "dead", "closed"}]
         /\ toHost' \in [Host -> Seq(Call)] /\ fromHost' \in [Host -> Seq(Envelope)]
         /\ running' \in [Host -> SUBSET Call]
<1>1. CASE ref = None
  BY <1>1 DEF StopBus, TypeOK, busVars, callVars, hostVars
<1>2. CASE ref # None
  <2>1. /\ ref' = None /\ provided' = None
        /\ life' = [life EXCEPT ![ref] = "disposed"]
        /\ DisposeCalls(ref) /\ StopBroker(ref)
        /\ UNCHANGED <<kind, via, runs, owner>>
    BY <1>2 DEF StopBus
  <2>2. phase' \in [Call -> {"new", "invalid", "pending", "unheard", "timeout", "disposed", "gone"} \cup Answers]
    BY <2>1 DEF DisposeCalls, TypeOK
  <2>3. <<>> \in Seq(Envelope) /\ <<>> \in Seq(Call)
    OBVIOUS
  <2>4. /\ up' \in [Bus -> Seq(Envelope)] /\ down' \in [Bus -> Seq(Envelope)]
        /\ serviceToHost' \in [Bus -> [Service -> Host \cup {None}]]
        /\ fromHost' \in [Host -> Seq(Envelope)]
    BY <2>1, <2>3 DEF StopBroker, TypeOK
  <2>5. /\ awaits' \in [Call -> Host \cup {None}]
        /\ hostState' \in [Host -> {"unused", "launching", "up", "dead", "closed"}]
        /\ toHost' \in [Host -> Seq(Call)]
        /\ running' \in [Host -> SUBSET Call]
    <3>1. CASE kind[ref] = "worker"
      <4> DEFINE mine == {h \in Host : owner[h] = ref}
      <4>1. /\ hostState' = [h \in Host |-> IF h \in mine THEN "closed" ELSE hostState[h]]
            /\ toHost' = [h \in Host |-> IF h \in mine THEN <<>> ELSE toHost[h]]
            /\ running' = [h \in Host |-> IF h \in mine THEN {} ELSE running[h]]
            /\ awaits' = [c \in Call |-> IF awaits[c] \in mine THEN None ELSE awaits[c]]
        BY <2>1, <3>1 DEF StopBroker
      <4> HIDE DEF mine
      <4>2. toHost' \in [Host -> Seq(Call)]
        BY <4>1, <2>3 DEF TypeOK
      <4>3. running' \in [Host -> SUBSET Call]
        BY <4>1 DEF TypeOK
      <4> QED
        BY <4>1, <4>2, <4>3 DEF TypeOK
    <3>2. CASE kind[ref] # "worker"
      BY <2>1, <3>2 DEF StopBroker, TypeOK
    <3> QED
      BY <3>1, <3>2
  <2> QED
    BY <2>1, <2>2, <2>4, <2>5 DEF TypeOK
<1> QED
  BY <1>1, <1>2

(* The types of what _startBus() changes. *)
LEMMA StartType ==
  ASSUME TypeOK, NEW atFirst \in {None, provided}, StartBus(atFirst)
  PROVE  /\ ref' \in Bus \cup {None} /\ provided' \in Bus \cup {None}
         /\ life' \in [Bus -> {"unused", "running", "disposed"}]
         /\ kind' \in [Bus -> Kinds \cup {None}]
<1>1. CASE ref # None \/ options \notin Kinds
  BY <1>1 DEF StartBus, TypeOK
<1>2. CASE ~(ref # None \/ options \notin Kinds)
  <2>1. MakeBus /\ options \in Kinds
    BY <1>2 DEF StartBus
  <2> QED
    BY <2>1 DEF MakeBus, TypeOK
<1> QED
  BY <1>1, <1>2

(* Every variable keeps its type. *)
LEMMA TypeStep ==
  ASSUME TypeOK, [Next]_vars
  PROVE  TypeOK'
<1>1. ASSUME NEW o \in Later, SetOptions(o) PROVE TypeOK'
  BY <1>1, LaterAssumption DEF SetOptions, busVars, callVars, hostVars, TypeOK
<1>2. ASSUME ConnectedCallback PROVE TypeOK'
  BY <1>2, StartType DEF ConnectedCallback, callVars, hostVars, TypeOK
<1>3. ASSUME DisconnectedCallback PROVE TypeOK'
  BY <1>3, StopType DEF DisconnectedCallback, TypeOK
<1>4. ASSUME Updated PROVE TypeOK'
  <2>1. CASE connected
    <3>1. StopBus /\ starts' = starts + 1
      BY <1>4, <2>1 DEF Updated
    <3>2. changed' = FALSE /\ UNCHANGED <<connected, options, registered>>
      BY <1>4 DEF Updated
    <3>3. starts' \in Nat
      BY <3>1 DEF TypeOK
    <3> QED
      BY <3>1, <3>2, <3>3, StopType DEF TypeOK
  <2>2. CASE ~connected
    BY <1>4, <2>2 DEF Updated, busVars, callVars, hostVars, TypeOK
  <2> QED
    BY <2>1, <2>2
<1>5. ASSUME RestartBus PROVE TypeOK'
  <2>1. /\ ref' \in Bus \cup {None} /\ provided' \in Bus \cup {None}
        /\ life' \in [Bus -> {"unused", "running", "disposed"}]
        /\ kind' \in [Bus -> Kinds \cup {None}]
    BY <1>5, StartType DEF RestartBus
  <2>2. starts' \in Nat
    BY <1>5 DEF RestartBus, TypeOK
  <2>3. UNCHANGED <<connected, options, registered, changed, up, down, awaits, serviceToHost,
                    callVars, hostVars>>
    BY <1>5 DEF RestartBus
  <2> QED
    BY <2>1, <2>2, <2>3 DEF callVars, hostVars, TypeOK
<1>6. ASSUME NEW c \in Call, CallFromPage(c) PROVE TypeOK'
  <2>1. PICK b \in Bus :
          \/ /\ phase' = [phase EXCEPT ![c] =
                              IF life[b] = "running" THEN "pending" ELSE "unheard"]
             /\ via' = [via EXCEPT ![c] = b]
             /\ up' = Sends(b, c)
          \/ /\ phase' = [phase EXCEPT ![c] = "invalid"]
             /\ UNCHANGED <<via, up>>
    BY <1>6 DEF CallFromPage
  <2>2. Sends(b, c) \in [Bus -> Seq(Envelope)]
    <3>1. up \in [Bus -> Seq(Envelope)] /\ Append(up[b], Env("call", c)) \in Seq(Envelope)
      BY EnvType, QueueType DEF TypeOK
    <3> QED
      BY <3>1 DEF Sends
  <2>3. via' \in [Call -> Bus \cup Host \cup {None}]
    <3>1. via' = [via EXCEPT ![c] = b] \/ via' = via
      BY <2>1
    <3> QED
      BY <3>1, ZenonT(20) DEF TypeOK
  <2>4. up' \in [Bus -> Seq(Envelope)]
    <3>1. up' = Sends(b, c) \/ up' = up
      BY <2>1
    <3> QED
      BY <3>1, <2>2 DEF TypeOK
  <2>5. PICK p \in {"pending", "unheard", "invalid"} : phase' = [phase EXCEPT ![c] = p]
    BY <2>1
  <2>6. phase' \in [Call -> {"new", "invalid", "pending", "unheard", "timeout", "disposed", "gone"} \cup Answers]
    BY <2>5 DEF TypeOK
  <2> QED
    BY <1>6, <2>3, <2>4, <2>6 DEF CallFromPage, elementVars, hostVars, TypeOK
<1>7. ASSUME NEW c \in Call, CallFromService(c) PROVE TypeOK'
  <2>1. PICK h \in Host :
          /\ via' = [via EXCEPT ![c] = h]
          /\ fromHost' = [fromHost EXCEPT ![h] = Append(@, Env("call", c))]
    BY <1>7 DEF CallFromService
  <2>2. Append(fromHost[h], Env("call", c)) \in Seq(Envelope)
    BY EnvType, QueueType DEF TypeOK
  <2> QED
    BY <1>7, <2>1, <2>2 DEF CallFromService, elementVars, busVars, TypeOK
<1>8. ASSUME NEW c \in Call, Timeout(c) PROVE TypeOK'
  BY <1>8 DEF Timeout, elementVars, busVars, hostVars, TypeOK
<1>9. ASSUME NEW c \in Call, Launched(c) PROVE TypeOK'
  <2> DEFINE h == awaits[c]
  <2>1. h \in Host /\ hostState' = [hostState EXCEPT ![h] = "up"]
    BY <1>9 DEF Launched, ComesUp, TypeOK
  <2>2. serviceToHost' \in [Bus -> [Service -> Host \cup {None}]]
    BY <1>9, <2>1 DEF Launched, TypeOK
  <2>3. toHost' \in [Host -> Seq(Call)]
    <3>1. Append(toHost[h], c) \in Seq(Call)
      BY <2>1, QueueType DEF TypeOK
    <3> QED
      BY <1>9, <2>1, <3>1 DEF Launched, Forward, TypeOK
  <2> QED
    BY <1>9, <2>1, <2>2, <2>3 DEF Launched, elementVars, callVars, TypeOK
<1>10. ASSUME NEW c \in Call, LaunchFails(c) PROVE TypeOK'
  BY <1>10 DEF LaunchFails, elementVars, callVars, TypeOK
<1>11. ASSUME NEW b \in Bus, ClientReceive(b) PROVE TypeOK'
  <2>1. Head(down[b]) \in Envelope /\ Tail(down[b]) \in Seq(Envelope)
    BY <1>11, QueueType DEF ClientReceive, TypeOK
  <2>2. phase' \in [Call -> {"new", "invalid", "pending", "unheard", "timeout", "disposed", "gone"} \cup Answers]
    BY <1>11, <2>1 DEF ClientReceive, TypeOK, Envelope
  <2> QED
    BY <1>11, <2>1, <2>2 DEF ClientReceive, elementVars, hostVars, TypeOK
<1>12. ASSUME NEW b \in Bus, HandleClientMessage(b) PROVE TypeOK'
  <2> DEFINE c == Head(up[b]).id
  <2>1. c \in Call /\ Tail(up[b]) \in Seq(Envelope)
    <3>1. Head(up[b]) \in Envelope /\ Tail(up[b]) \in Seq(Envelope)
      BY <1>12, QueueType DEF HandleClientMessage, TypeOK
    <3> QED
      BY <3>1 DEF Envelope
  <2>2. RouteUnregistered(b, c) \/ RouteToHost(b, c) \/ RouteCold(b, c)
    BY <1>12 DEF HandleClientMessage
  <2> HIDE DEF c
  <2>3. Append(down[b], Env("refused", c)) \in Seq(Envelope)
    BY <2>1, EnvType, QueueType DEF TypeOK, Answers
  <2>4. \A h \in Host : Append(toHost[h], c) \in Seq(Call)
    BY <2>1, QueueType DEF TypeOK
  <2>5. /\ down' \in [Bus -> Seq(Envelope)]
        /\ awaits' \in [Call -> Host \cup {None}]
        /\ hostState' \in [Host -> {"unused", "launching", "up", "dead", "closed"}]
        /\ owner' \in [Host -> Bus \cup {None}]
        /\ toHost' \in [Host -> Seq(Call)]
    <3>1. CASE RouteUnregistered(b, c)
      BY <3>1, <2>3 DEF RouteUnregistered, ToClient, TypeOK
    <3>2. CASE RouteToHost(b, c)
      <4>1. serviceToHost[b][To[c]] \in Host
        BY <3>2, <2>1 DEF RouteToHost, TypeOK
      <4> QED
        BY <3>2, <4>1, <2>4 DEF RouteToHost, Forward, TypeOK
    <3>3. CASE RouteCold(b, c)
      BY <3>3, <2>1 DEF RouteCold, TypeOK
    <3> QED
      BY <2>2, <3>1, <3>2, <3>3
  <2> QED
    BY <1>12, <2>1, <2>5 DEF HandleClientMessage, elementVars, callVars, TypeOK
<1>13. ASSUME NEW h \in Host, HandleHostMessage(h) PROVE TypeOK'
  <2>1. Head(fromHost[h]) \in Envelope /\ Tail(fromHost[h]) \in Seq(Envelope)
    BY <1>13, QueueType DEF HandleHostMessage, TypeOK
  <2>2. down' \in [Bus -> Seq(Envelope)]
    <3>1. \A b \in Bus : Append(down[b], Head(fromHost[h])) \in Seq(Envelope)
      BY <2>1, QueueType DEF TypeOK
    <3> QED
      BY <1>13, <3>1 DEF HandleHostMessage, ToClient, TypeOK
  <2> QED
    BY <1>13, <2>1, <2>2 DEF HandleHostMessage, elementVars, callVars, TypeOK
<1>14. ASSUME NEW h \in Host, HandleCall(h) PROVE TypeOK'
  <2> DEFINE c == Head(toHost[h])
  <2>1. c \in Call /\ Tail(toHost[h]) \in Seq(Call)
    BY <1>14, QueueType DEF HandleCall, TypeOK
  <2>2. Append(fromHost[h], Env("refused", c)) \in Seq(Envelope)
    BY <2>1, EnvType, QueueType DEF TypeOK, Answers
  <2>3. fromHost' \in [Host -> Seq(Envelope)]
    BY <1>14, <2>2 DEF HandleCall, Reply, TypeOK
  <2>4. running' \in [Host -> SUBSET Call] /\ runs' \in [Call -> Nat]
    <3>1. \/ UNCHANGED <<running, runs>>
          \/ running' = [running EXCEPT ![h] = @ \cup {c}] /\ runs' = [runs EXCEPT ![c] = @ + 1]
      BY <1>14 DEF HandleCall
    <3>2. CASE UNCHANGED <<running, runs>>
      BY <3>2 DEF TypeOK
    <3>3. CASE running' = [running EXCEPT ![h] = @ \cup {c}] /\ runs' = [runs EXCEPT ![c] = @ + 1]
      <4> HIDE DEF c
      <4> QED
        BY <2>1, <3>3 DEF TypeOK
    <3> QED
      BY <3>1, <3>2, <3>3
  <2>5. toHost' \in [Host -> Seq(Call)]
    BY <1>14, <2>1 DEF HandleCall, TypeOK
  <2> QED
    BY <1>14, <2>3, <2>4, <2>5 DEF HandleCall, elementVars, busVars, TypeOK
<1>15. ASSUME NEW h \in Host, NEW c \in Call, NEW type \in {"return", "error"},
              MethodSettles(h, c, type)
       PROVE  TypeOK'
  <2>1. Append(fromHost[h], Env(type, c)) \in Seq(Envelope)
    BY EnvType, QueueType DEF TypeOK, Answers
  <2> QED
    BY <1>15, <2>1 DEF MethodSettles, Reply, elementVars, busVars, callVars, TypeOK
<1>16. ASSUME NEW h \in Host, Crash(h) PROVE TypeOK'
  <2>1. <<>> \in Seq(Call)
    OBVIOUS
  <2> QED
    BY <1>16, <2>1 DEF Crash, elementVars, busVars, TypeOK
<1>17. CASE UNCHANGED vars
  BY <1>17 DEF vars, elementVars, busVars, callVars, hostVars, bounds, TypeOK
<1> QED
  BY <1>1, <1>2, <1>3, <1>4, <1>5, <1>6, <1>7, <1>8, <1>9, <1>10, <1>11, <1>12, <1>13,
     <1>14, <1>15, <1>16, <1>17 DEF Next

(* No step loses hold of the bus. *)
LEMMA HoldsStep ==
  ASSUME IInv, [Next]_vars
  PROVE  IInv'
<1>1. ASSUME NEW o, SetOptions(o) PROVE IInv'
  BY <1>1, OtherStep DEF SetOptions, busVars
<1>2. ASSUME ConnectedCallback PROVE IInv'
  BY <1>2, StartStep DEF ConnectedCallback
<1>3. ASSUME DisconnectedCallback PROVE IInv'
  BY <1>3, StopStep DEF DisconnectedCallback
<1>4. ASSUME Updated PROVE IInv'
  BY <1>4, StopStep, OtherStep DEF Updated, busVars
<1>5. ASSUME RestartBus PROVE IInv'
  BY <1>5, StartStep DEF RestartBus
<1>6. ASSUME NEW c \in Call,
             \/ CallFromPage(c) \/ CallFromService(c) \/ Timeout(c)
             \/ Launched(c) \/ LaunchFails(c)
      PROVE  IInv'
  <2>1. UNCHANGED <<ref, provided, life>>
    BY <1>6 DEF CallFromPage, CallFromService, Timeout, Launched, LaunchFails,
                elementVars, busVars
  <2> QED
    BY <2>1, OtherStep
<1>7. ASSUME NEW b \in Bus, ClientReceive(b) \/ HandleClientMessage(b)
      PROVE  IInv'
  <2>1. UNCHANGED <<ref, provided, life>>
    BY <1>7 DEF ClientReceive, HandleClientMessage, elementVars
  <2> QED
    BY <2>1, OtherStep
<1>8. ASSUME NEW h \in Host,
             \/ HandleHostMessage(h) \/ HandleCall(h) \/ Crash(h)
             \/ \E c \in Call, type \in {"return", "error"} : MethodSettles(h, c, type)
      PROVE  IInv'
  <2>1. UNCHANGED <<ref, provided, life>>
    BY <1>8 DEF HandleHostMessage, HandleCall, Crash, MethodSettles, elementVars, busVars
  <2> QED
    BY <2>1, OtherStep
<1>9. CASE UNCHANGED vars
  BY <1>9, OtherStep DEF vars, elementVars, busVars
<1> QED
  BY <1>1, <1>2, <1>3, <1>4, <1>5, <1>6, <1>7, <1>8, <1>9 DEF Next

(* The element, its bus and its channels start well typed. *)
LEMMA InitType ==
  ASSUME Init
  PROVE  TypeOK
<1>1. <<>> \in Seq(Envelope) /\ <<>> \in Seq(Call)
  OBVIOUS
<1>2. /\ up \in [Bus -> Seq(Envelope)] /\ down \in [Bus -> Seq(Envelope)]
      /\ toHost \in [Host -> Seq(Call)] /\ fromHost \in [Host -> Seq(Envelope)]
  BY <1>1 DEF Init
<1>3. /\ life \in [Bus -> {"unused", "running", "disposed"}]
      /\ kind \in [Bus -> Kinds \cup {None}]
      /\ phase \in [Call -> {"new", "invalid", "pending", "unheard", "timeout", "disposed", "gone"} \cup Answers]
      /\ via \in [Call -> Bus \cup Host \cup {None}]
      /\ awaits \in [Call -> Host \cup {None}]
      /\ serviceToHost \in [Bus -> [Service -> Host \cup {None}]]
  BY DEF Init
<1>4. /\ hostState \in [Host -> {"unused", "launching", "up", "dead", "closed"}]
      /\ owner \in [Host -> Bus \cup {None}]
      /\ running \in [Host -> SUBSET Call]
      /\ runs \in [Call -> Nat]
  BY DEF Init
<1>5. /\ registered \subseteq Service
      /\ connected \in BOOLEAN /\ changed \in BOOLEAN
      /\ options \in Kinds \cup {"none", "incomplete"}
      /\ starts \in Nat
      /\ ref \in Bus \cup {None} /\ provided \in Bus \cup {None}
  BY DEF Init
<1> QED
  BY <1>2, <1>3, <1>4, <1>5 DEF TypeOK

(* However restarts, disconnections and reconnections overlap, a bus that runs
   is the one the element has, so that it can be disposed, and descendants have
   the client of no other (service-bus-host.ts, lines 132-176). *)
THEOREM BusIsHeld == Spec => []ElementSound
<1>1. Init => IInv /\ TypeOK
  BY InitType DEF Init, IInv, Holds, NoBusLost
<1>2. IInv /\ TypeOK /\ [Next]_vars => (IInv /\ TypeOK)'
  BY HoldsStep, TypeStep
<1>3. IInv /\ TypeOK => ElementSound
  BY DEF IInv, Holds, ProvidedLive, ElementSound
<1> QED
  BY <1>1, <1>2, <1>3, PTL DEF Spec

-----------------------------------------------------------------------------
(* Calls on their way *)

(* A call the page has made is with a broker, waits for the launch of a host, or
   is on the way to a host, and in one place only. *)
Sending(b) == {c \in Call : Env("call", c) \in Elems(up[b])}
Suspended == {c \in Call : awaits[c] # None}
Reaching(h) == Elems(toHost[h])
Underway(c) ==
  \/ c \in Suspended
  \/ \E b \in Bus : c \in Sending(b)
  \/ \E h \in Host : c \in Reaching(h)

OneWay ==
  /\ \A b \in Bus : OneEach(up[b]) /\ (\A e \in Elems(up[b]) : e.type = "call")
  /\ \A h \in Host : OneEach(toHost[h])
  /\ \A b, d \in Bus : b # d => Sending(b) \cap Sending(d) = {}
  /\ \A h, k \in Host : h # k => Reaching(h) \cap Reaching(k) = {}
  /\ \A b \in Bus, h \in Host : Sending(b) \cap Reaching(h) = {}
  /\ \A b \in Bus : Sending(b) \cap Suspended = {}
  /\ \A h \in Host : Reaching(h) \cap Suspended = {}

(* A call on its way has been made, has not run, and has not been answered. *)
Unanswered ==
  \A c \in Call : Underway(c) =>
    (runs[c] = 0 /\ phase[c] \notin {"new", "invalid"} \cup Answers)

(* A call that runs, or that was answered, has run; one not made, or refused, has not. *)
Ran ==
  /\ \A c \in Call : runs[c] \in {0, 1}
  /\ \A h \in Host : \A c \in running[h] : runs[c] = 1 /\ phase[c] # "new"
  /\ \A c \in Call : phase[c] \in {"return", "error"} => runs[c] = 1
  /\ \A c \in Call : phase[c] \in {"new", "invalid", "refused"} => runs[c] = 0

(* The same of answers that are on their way; a refused call is not sent again. *)
Truthful(e) ==
  /\ e.type \in {"return", "error"} => runs[e.id] = 1
  /\ e.type = "refused" => (runs[e.id] = 0 /\ ~Underway(e.id) /\ phase[e.id] # "new")
AnswersTrue ==
  /\ \A b \in Bus : \A e \in Elems(down[b]) : Truthful(e)
  /\ \A h \in Host : \A e \in Elems(fromHost[h]) : Truthful(e)

TravelInv == OneWay /\ Unanswered /\ Ran /\ AnswersTrue

-----------------------------------------------------------------------------
(* When channels, launches and handlers only lose, and calls are only given up. *)
LEMMA FewerStep ==
  ASSUME TypeOK, TravelInv,
         \A b \in Bus : up'[b] = up[b] \/ up'[b] = <<>>,
         \A h \in Host : toHost'[h] = toHost[h] \/ toHost'[h] = <<>>,
         \A c \in Call : awaits'[c] = awaits[c] \/ awaits'[c] = None,
         \A b \in Bus : down'[b] = down[b] \/ down'[b] = <<>>,
         \A h \in Host : fromHost'[h] = fromHost[h] \/ fromHost'[h] = <<>>,
         \A h \in Host : running'[h] \subseteq running[h],
         runs' = runs,
         \A c \in Call : \/ phase'[c] = phase[c]
                         \/ /\ phase[c] \in {"pending", "unheard"}
                            /\ phase'[c] \in {"timeout", "disposed", "gone"}
  PROVE  TravelInv'
<1>1. /\ \A b \in Bus : Elems(up[b])' \subseteq Elems(up[b]) /\ OneEach(up[b])'
      /\ \A h \in Host : Elems(toHost[h])' \subseteq Elems(toHost[h]) /\ OneEach(toHost[h])'
  BY ElemsOfNone DEF TravelInv, OneWay
<1>2. /\ \A b \in Bus : Sending(b)' \subseteq Sending(b)
      /\ \A h \in Host : Reaching(h)' \subseteq Reaching(h)
      /\ Suspended' \subseteq Suspended
  BY <1>1 DEF Sending, Reaching, Suspended
<1>3. \A c : Underway(c)' => Underway(c)
  BY <1>2 DEF Underway
<1>4. OneWay'
  <2>1. \A b \in Bus : OneEach(up[b])' /\ (\A e \in Elems(up[b])' : e.type = "call")
    BY <1>1 DEF TravelInv, OneWay
  <2>2. \A h \in Host : OneEach(toHost[h])'
    BY <1>1
  <2>3. /\ \A b, d \in Bus : b # d => Sending(b)' \cap Sending(d)' = {}
        /\ \A h, k \in Host : h # k => Reaching(h)' \cap Reaching(k)' = {}
        /\ \A b \in Bus, h \in Host : Sending(b)' \cap Reaching(h)' = {}
        /\ \A b \in Bus : Sending(b)' \cap Suspended' = {}
        /\ \A h \in Host : Reaching(h)' \cap Suspended' = {}
    BY <1>2 DEF TravelInv, OneWay
  <2> QED
    BY <2>1, <2>2, <2>3 DEF OneWay
<1>5. Unanswered'
  BY <1>3 DEF TravelInv, Unanswered, Answers
<1>6. Ran'
  <2>1. \A c \in Call : /\ phase'[c] = "new" <=> phase[c] = "new"
                        /\ phase'[c] \in {"return", "error"} => phase[c] \in {"return", "error"}
                        /\ phase'[c] \in {"new", "invalid", "refused"} =>
                             phase[c] \in {"new", "invalid", "refused"}
    OBVIOUS
  <2>2. /\ \A c \in Call : runs'[c] \in {0, 1}
        /\ \A c \in Call : phase'[c] \in {"return", "error"} => runs'[c] = 1
        /\ \A c \in Call : phase'[c] \in {"new", "invalid", "refused"} => runs'[c] = 0
    BY <2>1 DEF TravelInv, Ran
  <2>3. \A h \in Host : \A c \in running'[h] : runs'[c] = 1 /\ phase'[c] # "new"
    BY <2>1 DEF TravelInv, Ran, TypeOK
  <2> QED
    BY <2>2, <2>3 DEF Ran
<1>7. AnswersTrue'
  <2>1. /\ \A b \in Bus : Elems(down[b])' \subseteq Elems(down[b])
        /\ \A h \in Host : Elems(fromHost[h])' \subseteq Elems(fromHost[h])
    BY ElemsOfNone
  <2>2. \A e \in Envelope : Truthful(e) => Truthful(e)'
    <3>1. \A e \in Envelope : e.id \in Call
      BY DEF Envelope
    <3> QED
      BY <1>3, <3>1 DEF Truthful
  <2>3. /\ \A b \in Bus : Elems(down[b]) \subseteq Envelope
        /\ \A h \in Host : Elems(fromHost[h]) \subseteq Envelope
    BY ElemsOfQueue DEF TypeOK
  <2> QED
    BY <2>1, <2>2, <2>3 DEF TravelInv, AnswersTrue
<1> QED
  BY <1>4, <1>5, <1>6, <1>7 DEF TravelInv

(* A step that leaves the calls on their way where they are. *)
LEMMA SameWay ==
  ASSUME TravelInv, UNCHANGED <<up, awaits, toHost>>
  PROVE  /\ OneWay'
         /\ \A c : Underway(c)' <=> Underway(c)
BY DEF TravelInv, OneWay, Underway, Sending, Reaching, Suspended

(* A true answer stays true when no call is on its way anew but one not made. *)
LEMMA TruthStays ==
  ASSUME TypeOK, TravelInv,
         \A d \in Call : runs'[d] = runs[d] \/ Underway(d),
         \A d \in Call : Underway(d)' => Underway(d) \/ phase[d] = "new",
         \A d \in Call : phase'[d] = "new" => phase[d] = "new"
  PROVE  /\ \A e \in Envelope : Truthful(e) => Truthful(e)'
         /\ \A b \in Bus : \A e \in Elems(down[b]) : Truthful(e)'
         /\ \A h \in Host : \A e \in Elems(fromHost[h]) : Truthful(e)'
<1>1. ASSUME NEW e \in Envelope, Truthful(e)
      PROVE  Truthful(e)'
  <2>1. e.id \in Call
    BY DEF Envelope
  <2>2. Underway(e.id) => runs[e.id] = 0
    BY <2>1 DEF TravelInv, Unanswered
  <2> QED
    BY <1>1, <2>1, <2>2 DEF Truthful
<1>2. /\ \A b \in Bus : Elems(down[b]) \subseteq Envelope
      /\ \A h \in Host : Elems(fromHost[h]) \subseteq Envelope
  BY ElemsOfQueue DEF TypeOK
<1> QED
  BY <1>1, <1>2 DEF TravelInv, AnswersTrue

(* A call of the page goes to one broker, or nowhere. *)
LEMMA CallFromPageTravels ==
  ASSUME TypeOK, TravelInv, NEW c \in Call, CallFromPage(c)
  PROVE  TravelInv'
<1>1. PICK b \in Bus :
        \/ /\ phase' = [phase EXCEPT ![c] =
                            IF life[b] = "running" THEN "pending" ELSE "unheard"]
           /\ via' = [via EXCEPT ![c] = b]
           /\ up' = Sends(b, c)
        \/ /\ phase' = [phase EXCEPT ![c] = "invalid"]
           /\ UNCHANGED <<via, up>>
  BY DEF CallFromPage
<1>2. /\ phase[c] = "new"
      /\ UNCHANGED <<down, awaits, runs, toHost, fromHost, running>>
  BY DEF CallFromPage, hostVars
<1>3. ~Underway(c) /\ runs[c] = 0
  BY <1>2 DEF TravelInv, Unanswered, Ran
<1>4. PICK p \in {"pending", "unheard", "invalid"} : phase' = [phase EXCEPT ![c] = p]
  BY <1>1
<1>5. \A d \in Call : phase'[d] = IF d = c THEN p ELSE phase[d]
  BY <1>4 DEF TypeOK
<1>6. Ran'
  <2>1. \A d \in Call : /\ runs'[d] \in {0, 1}
                        /\ phase'[d] \in {"return", "error"} => runs'[d] = 1
                        /\ phase'[d] \in {"new", "invalid", "refused"} => runs'[d] = 0
    BY <1>2, <1>3, <1>5 DEF TravelInv, Ran
  <2>2. \A h \in Host : \A d \in running'[h] : runs'[d] = 1 /\ phase'[d] # "new"
    BY <1>2, <1>5 DEF TravelInv, Ran, TypeOK
  <2> QED
    BY <2>1, <2>2 DEF Ran
<1>7. CASE up' = up
  <2>1. OneWay'
    BY <1>2, <1>7, SameWay
  <2>2. \A d : Underway(d)' <=> Underway(d)
    BY <1>2, <1>7, SameWay
  <2>3. Unanswered'
    BY <1>2, <1>3, <1>5, <2>2 DEF TravelInv, Unanswered
  <2>4. AnswersTrue'
    BY <1>2, <1>5, <2>2, TruthStays DEF AnswersTrue
  <2> QED
    BY <1>6, <2>1, <2>3, <2>4 DEF TravelInv
<1>8. CASE up' # up
  <2> DEFINE e == Env("call", c)
  <2>1. /\ e \in Envelope /\ e.type = "call" /\ e.id = c
        /\ \A d \in Call : Env("call", d) = e <=> d = c
    BY EnvType DEF Env
  <2>2. up' = [up EXCEPT ![b] = Append(@, e)] /\ p \in {"pending", "unheard"}
    BY <1>1, <1>4, <1>8 DEF Sends, TypeOK
  <2>3. /\ \A d \in Bus : up'[d] = IF d = b THEN Append(up[b], e) ELSE up[d]
        /\ \A d \in Bus : up[d] \in Seq(Envelope)
    BY <2>2 DEF TypeOK
  <2> HIDE DEF e
  <2>4. \A d \in Bus : e \notin Elems(up[d])
    BY <1>3, <2>1 DEF Underway, Sending
  <2>5. \A d \in Bus : Elems(up[d])' = IF d = b THEN Elems(up[b]) \cup {e} ELSE Elems(up[d])
    <3>1. Elems(Append(up[b], e)) = Elems(up[b]) \cup {e}
      <4>1. up[b] \in Seq(Envelope) /\ e \in Envelope
        BY <2>1, <2>3
      <4> QED
        BY <4>1, ElemsOfQueue
    <3> QED
      BY <2>3, <3>1
  <2>6. \A d \in Bus : OneEach(up[d])'
    BY <2>1, <2>3, <2>4, OneEachOfQueue DEF TravelInv, OneWay
  <2>7. \A d \in Bus : Sending(d)' = IF d = b THEN Sending(b) \cup {c} ELSE Sending(d)
    BY <2>1, <2>5 DEF Sending
  <2>8. Suspended' = Suspended /\ \A h \in Host : Reaching(h)' = Reaching(h)
    BY <1>2 DEF Suspended, Reaching
  <2>9. \A d : Underway(d)' <=> Underway(d) \/ d = c
    BY <2>7, <2>8 DEF Underway
  <2>10. OneWay'
    <3>1. \A d \in Bus : OneEach(up[d])' /\ (\A x \in Elems(up[d])' : x.type = "call")
      BY <2>1, <2>5, <2>6 DEF TravelInv, OneWay
    <3>2. \A h \in Host : OneEach(toHost[h])'
      BY <1>2 DEF TravelInv, OneWay
    <3>3. /\ \A d \in Bus : c \notin Sending(d)
          /\ \A h \in Host : c \notin Reaching(h)
          /\ c \notin Suspended
      BY <1>3 DEF Underway
    <3>4. /\ \A d, f \in Bus : d # f => Sending(d)' \cap Sending(f)' = {}
          /\ \A h, k \in Host : h # k => Reaching(h)' \cap Reaching(k)' = {}
          /\ \A d \in Bus, h \in Host : Sending(d)' \cap Reaching(h)' = {}
          /\ \A d \in Bus : Sending(d)' \cap Suspended' = {}
          /\ \A h \in Host : Reaching(h)' \cap Suspended' = {}
      BY <2>7, <2>8, <3>3 DEF TravelInv, OneWay
    <3> QED
      BY <3>1, <3>2, <3>4 DEF OneWay
  <2>11. Unanswered'
    BY <1>2, <1>3, <1>5, <2>2, <2>9 DEF TravelInv, Unanswered, Answers
  <2>12. AnswersTrue'
    BY <1>2, <1>5, <2>9, TruthStays DEF AnswersTrue
  <2> QED
    BY <1>6, <2>10, <2>11, <2>12 DEF TravelInv
<1> QED
  BY <1>7, <1>8

(* A call of a service goes to its host's broker, which routes it nowhere. *)
LEMMA CallFromServiceTravels ==
  ASSUME TypeOK, TravelInv, NEW c \in Call, CallFromService(c)
  PROVE  TravelInv'
<1>1. PICK h \in Host : fromHost' = [fromHost EXCEPT ![h] = Append(@, Env("call", c))]
  BY DEF CallFromService
<1>2. /\ phase[c] = "new" /\ phase' = [phase EXCEPT ![c] = "pending"]
      /\ UNCHANGED <<up, down, awaits, runs, toHost, running>>
  BY DEF CallFromService, busVars
<1>3. \A d \in Call : phase'[d] = IF d = c THEN "pending" ELSE phase[d]
  BY <1>2 DEF TypeOK
<1>4. ~Underway(c) /\ runs[c] = 0
  BY <1>2 DEF TravelInv, Unanswered, Ran
<1>5. OneWay' /\ \A d : Underway(d)' <=> Underway(d)
  BY <1>2, SameWay
<1>6. Unanswered'
  BY <1>2, <1>3, <1>4, <1>5 DEF TravelInv, Unanswered
<1>7. Ran'
  <2>1. \A d \in Call : /\ runs'[d] \in {0, 1}
                        /\ phase'[d] \in {"return", "error"} => runs'[d] = 1
                        /\ phase'[d] \in {"new", "invalid", "refused"} => runs'[d] = 0
    BY <1>2, <1>3 DEF TravelInv, Ran
  <2>2. \A k \in Host : \A d \in running'[k] : runs'[d] = 1 /\ phase'[d] # "new"
    BY <1>2, <1>3 DEF TravelInv, Ran, TypeOK
  <2> QED
    BY <2>1, <2>2 DEF Ran
<1>8. AnswersTrue'
  <2> DEFINE e == Env("call", c)
  <2>1. e \in Envelope /\ e.type = "call"
    BY EnvType
  <2>2. /\ \A k \in Host : fromHost'[k] = IF k = h THEN Append(fromHost[h], e) ELSE fromHost[k]
        /\ fromHost[h] \in Seq(Envelope)
    BY <1>1 DEF TypeOK
  <2> HIDE DEF e
  <2>3. Elems(Append(fromHost[h], e)) = Elems(fromHost[h]) \cup {e}
    BY <2>1, <2>2, ElemsOfQueue
  <2>4. Truthful(e)'
    BY <2>1 DEF Truthful
  <2>5. /\ \A b \in Bus : \A x \in Elems(down[b]) : Truthful(x)'
        /\ \A k \in Host : \A x \in Elems(fromHost[k]) : Truthful(x)'
    BY <1>2, <1>3, <1>5, TruthStays
  <2> QED
    BY <1>2, <2>2, <2>3, <2>4, <2>5 DEF AnswersTrue
<1> QED
  BY <1>5, <1>6, <1>7, <1>8 DEF TravelInv

(* An answer that is taken settles its call truly. *)
LEMMA ClientReceiveTravels ==
  ASSUME TypeOK, TravelInv, NEW b \in Bus, ClientReceive(b)
  PROVE  TravelInv'
<1> DEFINE e == Head(down[b])
<1>1. /\ down[b] # <<>> /\ down[b] \in Seq(Envelope)
      /\ down' = [down EXCEPT ![b] = Tail(@)]
      /\ phase' = IF e.type \in Answers /\ phase[e.id] = "pending" /\ via[e.id] = b
                    THEN [phase EXCEPT ![e.id] = e.type] ELSE phase
      /\ UNCHANGED <<up, awaits, runs, toHost, fromHost, running>>
  BY DEF ClientReceive, hostVars, TypeOK
<1>2. /\ e \in Elems(down[b]) /\ e \in Envelope
      /\ \A d \in Bus : Elems(down'[d]) \subseteq Elems(down[d])
  BY <1>1, ElemsOfQueue, QueueType DEF TypeOK
<1>3. Truthful(e) /\ e.id \in Call
  BY <1>2 DEF TravelInv, AnswersTrue, Envelope
<1> HIDE DEF e
<1>4. OneWay' /\ \A d : Underway(d)' <=> Underway(d)
  BY <1>1, SameWay
<1>5. CASE phase' = phase
  <2>1. Unanswered' /\ Ran'
    BY <1>1, <1>4, <1>5 DEF TravelInv, Unanswered, Ran
  <2>2. AnswersTrue'
    BY <1>1, <1>2, <1>4, <1>5, TruthStays DEF AnswersTrue
  <2> QED
    BY <1>4, <2>1, <2>2 DEF TravelInv
<1>6. CASE phase' # phase
  <2>1. /\ e.type \in Answers /\ phase[e.id] = "pending"
        /\ \A d \in Call : phase'[d] = IF d = e.id THEN e.type ELSE phase[d]
    BY <1>1, <1>6 DEF TypeOK
  <2>2. ~Underway(e.id)
    BY <1>3, <2>1 DEF Truthful, TravelInv, Unanswered, Answers
  <2>3. Unanswered'
    BY <1>1, <1>4, <2>1, <2>2 DEF TravelInv, Unanswered
  <2>4. Ran'
    <3>1. \A d \in Call : /\ runs'[d] \in {0, 1}
                          /\ phase'[d] \in {"return", "error"} => runs'[d] = 1
                          /\ phase'[d] \in {"new", "invalid", "refused"} => runs'[d] = 0
      BY <1>1, <1>3, <2>1 DEF TravelInv, Ran, Truthful, Answers
    <3>2. \A k \in Host : \A d \in running'[k] : runs'[d] = 1 /\ phase'[d] # "new"
      BY <1>1, <2>1 DEF TravelInv, Ran, TypeOK, Answers
    <3> QED
      BY <3>1, <3>2 DEF Ran
  <2>5. AnswersTrue'
    <3>1. \A d \in Call : phase'[d] = "new" => phase[d] = "new"
      BY <2>1 DEF Answers
    <3> QED
      BY <1>1, <1>2, <1>4, <3>1, TruthStays DEF AnswersTrue
  <2> QED
    BY <1>4, <2>3, <2>4, <2>5 DEF TravelInv
<1> QED
  BY <1>5, <1>6

(* What a host sends reaches its client as it is, or nobody. *)
LEMMA HandleHostMessageTravels ==
  ASSUME TypeOK, TravelInv, NEW h \in Host, HandleHostMessage(h)
  PROVE  TravelInv'
<1>1. PICK e \in Envelope : e = Head(fromHost[h])
  BY QueueType DEF HandleHostMessage, TypeOK
<1>2. /\ fromHost[h] # <<>> /\ fromHost[h] \in Seq(Envelope)
      /\ fromHost' = [fromHost EXCEPT ![h] = Tail(@)]
      /\ down' = ToClient(owner[h], e)
      /\ UNCHANGED <<up, awaits, runs, phase, toHost, running>>
  BY <1>1 DEF HandleHostMessage, callVars, TypeOK
<1>3. /\ e \in Elems(fromHost[h]) /\ e \in Envelope
      /\ \A k \in Host : Elems(fromHost'[k]) \subseteq Elems(fromHost[k])
  BY <1>1, <1>2, ElemsOfQueue DEF TypeOK
<1>4. \A b \in Bus : Elems(down'[b]) \subseteq Elems(down[b]) \cup {e}
  <2>1. \A b \in Bus : down'[b] = down[b] \/ down'[b] = Append(down[b], e)
    BY <1>2 DEF ToClient, TypeOK
  <2>2. \A b \in Bus : down[b] \in Seq(Envelope)
    BY DEF TypeOK
  <2>3. \A b \in Bus : Elems(Append(down[b], e)) = Elems(down[b]) \cup {e}
    BY <1>3, <2>2, ElemsOfQueue
  <2> QED
    BY <2>1, <2>3
<1>5. OneWay' /\ \A d : Underway(d)' <=> Underway(d)
  BY <1>2, SameWay
<1>6. Unanswered' /\ Ran'
  BY <1>2, <1>5 DEF TravelInv, Unanswered, Ran
<1>7. AnswersTrue'
  <2>1. /\ \A x \in Envelope : Truthful(x) => Truthful(x)'
        /\ \A b \in Bus : \A x \in Elems(down[b]) : Truthful(x)'
        /\ \A k \in Host : \A x \in Elems(fromHost[k]) : Truthful(x)'
    BY <1>2, <1>5, TruthStays
  <2>2. Truthful(e)'
    BY <1>3, <2>1 DEF TravelInv, AnswersTrue
  <2> QED
    BY <1>3, <1>4, <2>1, <2>2 DEF AnswersTrue
<1> QED
  BY <1>5, <1>6, <1>7 DEF TravelInv

(* A method that settles has run. *)
LEMMA MethodSettlesTravels ==
  ASSUME TypeOK, TravelInv, NEW h \in Host, NEW c \in Call, NEW type \in {"return", "error"},
         MethodSettles(h, c, type)
  PROVE  TravelInv'
<1> DEFINE e == Env(type, c)
<1>1. /\ c \in running[h] /\ running' = [running EXCEPT ![h] = @ \ {c}]
      /\ fromHost' = [fromHost EXCEPT ![h] = Append(@, e)] \/ fromHost' = fromHost
      /\ UNCHANGED <<up, down, awaits, runs, phase, toHost>>
  BY DEF MethodSettles, Reply, busVars, callVars
<1>2. e \in Envelope /\ e.type = type /\ e.id = c
  BY EnvType DEF Answers
<1> HIDE DEF e
<1>3. \A k \in Host : Elems(fromHost'[k]) \subseteq Elems(fromHost[k]) \cup {e}
  <2>1. \A k \in Host : fromHost'[k] = fromHost[k] \/ fromHost'[k] = Append(fromHost[k], e)
    BY <1>1 DEF TypeOK
  <2>2. \A k \in Host : fromHost[k] \in Seq(Envelope)
    BY DEF TypeOK
  <2>3. \A k \in Host : Elems(Append(fromHost[k], e)) = Elems(fromHost[k]) \cup {e}
    BY <1>2, <2>2, ElemsOfQueue
  <2> QED
    BY <2>1, <2>3
<1>4. OneWay' /\ \A d : Underway(d)' <=> Underway(d)
  BY <1>1, SameWay
<1>5. Unanswered'
  BY <1>1, <1>4 DEF TravelInv, Unanswered
<1>6. Ran'
  <2>1. \A k \in Host : running'[k] \subseteq running[k]
    BY <1>1 DEF TypeOK
  <2> QED
    BY <1>1, <2>1 DEF TravelInv, Ran
<1>7. Truthful(e)'
  BY <1>1, <1>2 DEF TravelInv, Ran, Truthful
<1>8. AnswersTrue'
  BY <1>1, <1>3, <1>4, <1>7, TruthStays DEF AnswersTrue
<1> QED
  BY <1>4, <1>5, <1>6, <1>8 DEF TravelInv

(* A call goes on, to one place or to none. *)
LEMMA GoesOn ==
  ASSUME TravelInv, NEW c \in Call, Underway(c),
         \A d \in Bus : Sending(d)' \subseteq Sending(d) \ {c},
         \A k \in Host : Reaching(k)' \subseteq Reaching(k) \cup {c},
         Suspended' \subseteq Suspended \cup {c},
         \A k \in Host : c \in Reaching(k)' => c \notin Suspended',
         \A j, k \in Host : c \in Reaching(j)' /\ c \in Reaching(k)' => j = k,
         \A d \in Bus : OneEach(up[d])' /\ Elems(up[d])' \subseteq Elems(up[d]),
         \A k \in Host : OneEach(toHost[k])'
  PROVE  OneWay' /\ \A d : Underway(d)' => Underway(d)
<1>1. \A d : Underway(d)' => Underway(d)
  BY DEF Underway
<1>2. \A d \in Bus : OneEach(up[d])' /\ (\A e \in Elems(up[d])' : e.type = "call")
  BY DEF TravelInv, OneWay
<1>3. /\ \A b, d \in Bus : b # d => Sending(b)' \cap Sending(d)' = {}
      /\ \A b \in Bus, h \in Host : Sending(b)' \cap Reaching(h)' = {}
      /\ \A b \in Bus : Sending(b)' \cap Suspended' = {}
  BY DEF TravelInv, OneWay
<1>4. /\ \A h, k \in Host : h # k => Reaching(h)' \cap Reaching(k)' = {}
      /\ \A h \in Host : Reaching(h)' \cap Suspended' = {}
  BY DEF TravelInv, OneWay
<1> QED
  BY <1>1, <1>2, <1>3, <1>4 DEF OneWay

(* What Forward() does to the queues of hosts, with a call that is in none. *)
LEMMA ForwardFacts ==
  ASSUME TypeOK, TravelInv, NEW h \in Host, NEW c \in Call, Forward(h, c),
         \A k \in Host : c \notin Reaching(k)
  PROVE  /\ \A k \in Host : OneEach(toHost[k])'
         /\ \A k \in Host : Reaching(k)' \subseteq Reaching(k) \cup {c}
         /\ \A k \in Host : c \in Reaching(k)' => k = h
<1>1. \A k \in Host : toHost[k] \in Seq(Call) /\ OneEach(toHost[k])
  BY DEF TypeOK, TravelInv, OneWay
<1>2. Elems(Append(toHost[h], c)) = Elems(toHost[h]) \cup {c}
  BY <1>1, ElemsOfQueue
<1>3. OneEach(Append(toHost[h], c))
  BY <1>1, OneEachOfQueue DEF Reaching
<1>4. \A k \in Host : \/ toHost'[k] = toHost[k]
                      \/ k = h /\ toHost'[k] = Append(toHost[h], c)
  BY DEF Forward, TypeOK
<1> QED
  BY <1>1, <1>2, <1>3, <1>4 DEF Reaching

(* routeCall() refuses a call, hands it to a host, or makes it wait for one. *)
LEMMA HandleClientMessageTravels ==
  ASSUME TypeOK, TravelInv, NEW b \in Bus, HandleClientMessage(b)
  PROVE  TravelInv'
<1>0. PICK e \in Envelope : e = Head(up[b])
  BY QueueType DEF HandleClientMessage, TypeOK
<1> PICK c \in Call : c = e.id
  BY DEF Envelope
<1>1. /\ up[b] # <<>> /\ up[b] \in Seq(Envelope)
      /\ up' = [up EXCEPT ![b] = Tail(@)]
      /\ RouteUnregistered(b, c) \/ RouteToHost(b, c) \/ RouteCold(b, c)
      /\ UNCHANGED <<runs, phase, fromHost, running>>
  BY <1>0 DEF HandleClientMessage, callVars, TypeOK
<1>2. /\ e \in Elems(up[b]) /\ e \in Envelope /\ e \notin Elems(Tail(up[b]))
      /\ OneEach(Tail(up[b])) /\ Elems(Tail(up[b])) \subseteq Elems(up[b])
  BY <1>0, <1>1, ElemsOfQueue, OneEachOfQueue DEF TravelInv, OneWay
<1>3. c \in Call /\ e = Env("call", c)
  BY <1>2 DEF TravelInv, OneWay, Envelope, Env
<1>4. c \in Sending(b) /\ Underway(c)
  BY <1>2, <1>3 DEF Sending, Underway
<1>5. runs[c] = 0 /\ phase[c] \notin {"new", "invalid"} \cup Answers
  BY <1>3, <1>4 DEF TravelInv, Unanswered
<1>6. /\ c \notin Suspended
      /\ \A k \in Host : c \notin Reaching(k)
      /\ \A d \in Bus : d # b => c \notin Sending(d)
  BY <1>4 DEF TravelInv, OneWay
<1>7. \A d \in Bus : OneEach(up[d])' /\ Elems(up[d])' \subseteq Elems(up[d])
  <2>1. \A d \in Bus : up'[d] = IF d = b THEN Tail(up[b]) ELSE up[d]
    BY <1>1 DEF TypeOK
  <2> QED
    BY <1>2, <2>1 DEF TravelInv, OneWay
<1>8. \A d \in Bus : Sending(d)' \subseteq Sending(d) \ {c}
  <2>1. \A d \in Bus : Sending(d)' \subseteq Sending(d)
    BY <1>7 DEF Sending
  <2>2. c \notin Sending(b)'
    <3>1. up'[b] = Tail(up[b])
      BY <1>1 DEF TypeOK
    <3> QED
      BY <1>2, <1>3, <3>1 DEF Sending
  <2> QED
    BY <1>6, <2>1, <2>2
<1>9. ASSUME OneWay' /\ \A d : Underway(d)' => Underway(d)
      PROVE  Unanswered' /\ Ran'
  BY <1>1, <1>9 DEF TravelInv, Unanswered, Ran
<1>10. CASE RouteUnregistered(b, c)
  <2>1. UNCHANGED <<awaits, toHost>> /\ down' = ToClient(b, Env("refused", c))
    BY <1>10 DEF RouteUnregistered
  <2>2. Suspended' = Suspended /\ \A k \in Host : Reaching(k)' = Reaching(k) /\ OneEach(toHost[k])'
    BY <2>1 DEF Suspended, Reaching, TravelInv, OneWay
  <2>3. OneWay' /\ \A d : Underway(d)' => Underway(d)
    BY <1>3, <1>4, <1>6, <1>7, <1>8, <2>2, GoesOn
  <2>4. ~Underway(c)'
    BY <1>6, <1>8, <2>2 DEF Underway
  <2>5. Unanswered' /\ Ran'
    BY <1>9, <2>3
  <2>6. AnswersTrue'
    <3> DEFINE a == Env("refused", c)
    <3>1. a \in Envelope /\ a.type = "refused" /\ a.id = c
      BY <1>3, EnvType DEF Answers
    <3>2. down' = ToClient(b, a)
      BY <2>1
    <3> HIDE DEF a
    <3>3. \A d \in Bus : Elems(down'[d]) \subseteq Elems(down[d]) \cup {a}
      <4>1. \A d \in Bus : down'[d] = down[d] \/ down'[d] = Append(down[d], a)
        BY <3>2 DEF ToClient, TypeOK
      <4>2. \A d \in Bus : down[d] \in Seq(Envelope)
        BY DEF TypeOK
      <4>3. \A d \in Bus : Elems(Append(down[d], a)) = Elems(down[d]) \cup {a}
        BY <3>1, <4>2, ElemsOfQueue
      <4> QED
        BY <4>1, <4>3
    <3>4. Truthful(a)'
      BY <1>1, <1>5, <2>4, <3>1 DEF Truthful
    <3>5. /\ \A d \in Bus : \A x \in Elems(down[d]) : Truthful(x)'
          /\ \A k \in Host : \A x \in Elems(fromHost[k]) : Truthful(x)'
      BY <1>1, <2>3, TruthStays
    <3> QED
      BY <1>1, <3>3, <3>4, <3>5 DEF AnswersTrue
  <2> QED
    BY <2>3, <2>5, <2>6 DEF TravelInv
<1>11. CASE RouteToHost(b, c)
  <2> DEFINE h == serviceToHost[b][To[c]]
  <2>1. h \in Host /\ Forward(h, c) /\ UNCHANGED <<down, awaits>>
    BY <1>3, <1>11 DEF RouteToHost, TypeOK
  <2> HIDE DEF h
  <2>2. /\ \A k \in Host : OneEach(toHost[k])'
        /\ \A k \in Host : Reaching(k)' \subseteq Reaching(k) \cup {c}
        /\ \A k \in Host : c \in Reaching(k)' => k = h
    BY <1>3, <1>6, <2>1, ForwardFacts
  <2>3. Suspended' = Suspended
    BY <2>1 DEF Suspended
  <2>4. OneWay' /\ \A d : Underway(d)' => Underway(d)
    BY <1>3, <1>4, <1>6, <1>7, <1>8, <2>2, <2>3, GoesOn
  <2>5. AnswersTrue'
    BY <1>1, <2>1, <2>4, TruthStays DEF AnswersTrue
  <2> QED
    BY <1>9, <2>4, <2>5 DEF TravelInv
<1>12. CASE RouteCold(b, c)
  <2>1. PICK h \in Host : awaits' = [awaits EXCEPT ![c] = h]
    BY <1>12 DEF RouteCold
  <2>2. UNCHANGED <<down, toHost>>
    BY <1>12 DEF RouteCold
  <2>3. Suspended' \subseteq Suspended \cup {c}
    BY <2>1 DEF Suspended, TypeOK
  <2>4. \A k \in Host : Reaching(k)' = Reaching(k) /\ OneEach(toHost[k])'
    BY <2>2 DEF Reaching, TravelInv, OneWay
  <2>5. OneWay' /\ \A d : Underway(d)' => Underway(d)
    BY <1>3, <1>4, <1>6, <1>7, <1>8, <2>3, <2>4, GoesOn
  <2>6. AnswersTrue'
    BY <1>1, <2>2, <2>5, TruthStays DEF AnswersTrue
  <2> QED
    BY <1>9, <2>5, <2>6 DEF TravelInv
<1> QED
  BY <1>1, <1>10, <1>11, <1>12

(* A call that waited for a launch goes to the host, if that still is there. *)
LEMMA LaunchedTravels ==
  ASSUME TypeOK, TravelInv, NEW c \in Call, Launched(c)
  PROVE  TravelInv'
<1> DEFINE h == awaits[c]
<1>1. /\ h \in Host /\ c \in Suspended
      /\ awaits' = [awaits EXCEPT ![c] = None] /\ Forward(h, c)
      /\ UNCHANGED <<up, down, runs, phase, fromHost, running>>
  BY DEF Launched, ComesUp, callVars, Suspended, TypeOK
<1> HIDE DEF h
<1>2. /\ Underway(c) /\ \A k \in Host : c \notin Reaching(k)
      /\ \A d \in Bus : c \notin Sending(d)
  BY <1>1 DEF Underway, TravelInv, OneWay
<1>3. Suspended' \subseteq Suspended \ {c}
  BY <1>1 DEF Suspended, TypeOK
<1>4. /\ \A k \in Host : OneEach(toHost[k])'
      /\ \A k \in Host : Reaching(k)' \subseteq Reaching(k) \cup {c}
      /\ \A k \in Host : c \in Reaching(k)' => k = h
  BY <1>1, <1>2, ForwardFacts
<1>5. \A d \in Bus : /\ Sending(d)' \subseteq Sending(d) \ {c}
                    /\ OneEach(up[d])' /\ Elems(up[d])' \subseteq Elems(up[d])
  BY <1>1, <1>2 DEF Sending, TravelInv, OneWay
<1>6. OneWay' /\ \A d : Underway(d)' => Underway(d)
  BY <1>2, <1>3, <1>4, <1>5, GoesOn
<1>7. Unanswered' /\ Ran'
  BY <1>1, <1>6 DEF TravelInv, Unanswered, Ran
<1>8. AnswersTrue'
  BY <1>1, <1>6, TruthStays DEF AnswersTrue
<1> QED
  BY <1>6, <1>7, <1>8 DEF TravelInv

(* What handleCall() takes, and what becomes of the calls on their way. *)
LEMMA TakenFromHost ==
  ASSUME TypeOK, TravelInv, NEW h \in Host, HandleCall(h)
  PROVE  \E c \in Call :
           /\ c = Head(toHost[h])
           /\ Underway(c) /\ runs[c] = 0 /\ phase[c] \notin {"new", "invalid"} \cup Answers
           /\ OneWay' /\ ~Underway(c)' /\ \A d : Underway(d)' => Underway(d)
<1>1. PICK c \in Call : c = Head(toHost[h])
  BY QueueType DEF HandleCall, TypeOK
<1>2. /\ toHost[h] # <<>> /\ toHost[h] \in Seq(Call) /\ OneEach(toHost[h])
      /\ toHost' = [toHost EXCEPT ![h] = Tail(@)]
      /\ UNCHANGED <<up, awaits>>
  BY DEF HandleCall, busVars, TypeOK, TravelInv, OneWay
<1>3. /\ c \in Reaching(h) /\ c \notin Elems(Tail(toHost[h]))
      /\ OneEach(Tail(toHost[h])) /\ Elems(Tail(toHost[h])) \subseteq Reaching(h)
  BY <1>1, <1>2, ElemsOfQueue, OneEachOfQueue DEF Reaching
<1>4. /\ Underway(c) /\ c \notin Suspended
      /\ \A k \in Host : k # h => c \notin Reaching(k)
      /\ \A d \in Bus : c \notin Sending(d)
  BY <1>3 DEF Underway, TravelInv, OneWay
<1>5. \A k \in Host : toHost'[k] = IF k = h THEN Tail(toHost[h]) ELSE toHost[k]
  BY <1>2 DEF TypeOK
<1>6. \A k \in Host : Reaching(k)' \subseteq Reaching(k) \ {c} /\ OneEach(toHost[k])'
  BY <1>3, <1>4, <1>5 DEF Reaching, TravelInv, OneWay
<1>7. /\ Suspended' = Suspended
      /\ \A d \in Bus : Sending(d)' = Sending(d) /\ OneEach(up[d])' /\ Elems(up[d])' = Elems(up[d])
  BY <1>2 DEF Suspended, Sending, TravelInv, OneWay
<1>8. OneWay' /\ \A d : Underway(d)' => Underway(d)
  BY <1>4, <1>6, <1>7, GoesOn
<1>9. ~Underway(c)'
  BY <1>4, <1>6, <1>7 DEF Underway
<1> QED
  BY <1>1, <1>4, <1>8, <1>9 DEF TravelInv, Unanswered

(* A call runs that has not run and was not refused, or is refused and never runs. *)
LEMMA HandleCallTravels ==
  ASSUME TypeOK, TravelInv, NEW h \in Host, HandleCall(h)
  PROVE  TravelInv'
<1>1. PICK c \in Call :
        /\ c = Head(toHost[h])
        /\ Underway(c) /\ runs[c] = 0 /\ phase[c] \notin {"new", "invalid"} \cup Answers
        /\ OneWay' /\ ~Underway(c)' /\ \A d : Underway(d)' => Underway(d)
  BY TakenFromHost
<1>2. UNCHANGED <<down, phase>>
  BY DEF HandleCall, busVars
<1>3. CASE UNCHANGED <<running, runs>> /\ Reply(h, "refused", c)
  <2> DEFINE a == Env("refused", c)
  <2>1. a \in Envelope /\ a.type = "refused" /\ a.id = c
    BY EnvType DEF Answers
  <2>2. /\ fromHost' = [fromHost EXCEPT ![h] = Append(@, a)] \/ fromHost' = fromHost
        /\ UNCHANGED <<running, runs>>
    BY <1>3 DEF Reply
  <2> HIDE DEF a
  <2>3. Unanswered' /\ Ran'
    BY <1>1, <1>2, <2>2 DEF TravelInv, Unanswered, Ran
  <2>4. \A k \in Host : Elems(fromHost'[k]) \subseteq Elems(fromHost[k]) \cup {a}
    <3>1. \A k \in Host : fromHost'[k] = fromHost[k] \/ fromHost'[k] = Append(fromHost[k], a)
      BY <2>2 DEF TypeOK
    <3>2. \A k \in Host : fromHost[k] \in Seq(Envelope)
      BY DEF TypeOK
    <3>3. \A k \in Host : Elems(Append(fromHost[k], a)) = Elems(fromHost[k]) \cup {a}
      BY <2>1, <3>2, ElemsOfQueue
    <3> QED
      BY <3>1, <3>3
  <2>5. \A x : x.type = "refused" /\ x.id = c => Truthful(x)'
    BY <1>1, <1>2, <2>2 DEF Truthful, Answers
  <2>6. /\ \A d \in Bus : \A x \in Elems(down[d]) : Truthful(x)'
        /\ \A k \in Host : \A x \in Elems(fromHost[k]) : Truthful(x)'
    BY <1>1, <1>2, <2>2, TruthStays
  <2>7. AnswersTrue'
    BY <1>2, <2>1, <2>4, <2>5, <2>6 DEF AnswersTrue
  <2> QED
    BY <1>1, <2>3, <2>7 DEF TravelInv
<1>4. CASE /\ running' = [running EXCEPT ![h] = @ \cup {c}]
           /\ runs' = [runs EXCEPT ![c] = @ + 1]
           /\ fromHost' = fromHost
  <2>1. /\ running' = [running EXCEPT ![h] = @ \cup {c}]
        /\ runs' = [runs EXCEPT ![c] = @ + 1]
        /\ fromHost' = fromHost
    BY <1>4
  <2>2. \A d \in Call : runs'[d] = IF d = c THEN 1 ELSE runs[d]
    BY <1>1, <2>1 DEF TypeOK
  <2>3. Unanswered'
    BY <1>1, <1>2, <2>2 DEF TravelInv, Unanswered
  <2>4. Ran'
    <3>1. \A d \in Call : /\ runs'[d] \in {0, 1}
                          /\ phase'[d] \in {"return", "error"} => runs'[d] = 1
                          /\ phase'[d] \in {"new", "invalid", "refused"} => runs'[d] = 0
      BY <1>1, <1>2, <2>2 DEF TravelInv, Ran, Answers
    <3>2. \A k \in Host : running'[k] \subseteq running[k] \cup {c} /\ running[k] \subseteq Call
      BY <2>1 DEF TypeOK
    <3>3. \A k \in Host : \A d \in running'[k] : runs'[d] = 1 /\ phase'[d] # "new"
      BY <1>1, <1>2, <2>2, <3>2 DEF TravelInv, Ran
    <3> QED
      BY <3>1, <3>3 DEF Ran
  <2>5. AnswersTrue'
    BY <1>1, <1>2, <2>1, <2>2, TruthStays DEF AnswersTrue
  <2> QED
    BY <1>1, <2>3, <2>4, <2>5 DEF TravelInv
<1> QED
  BY <1>1, <1>3, <1>4 DEF HandleCall

-----------------------------------------------------------------------------
(* Calls given up *)

(* Each step that gives calls up, or concerns none. *)
GivesUp ==
  /\ runs' = runs
  /\ \A c \in Call : \/ phase'[c] = phase[c]
                     \/ /\ phase[c] \in {"pending", "unheard"}
                        /\ phase'[c] \in {"timeout", "disposed", "gone"}
Fewer ==
  /\ GivesUp
  /\ \A b \in Bus : up'[b] = up[b] \/ up'[b] = <<>>
  /\ \A h \in Host : toHost'[h] = toHost[h] \/ toHost'[h] = <<>>
  /\ \A c \in Call : awaits'[c] = awaits[c] \/ awaits'[c] = None
  /\ \A b \in Bus : down'[b] = down[b] \/ down'[b] = <<>>
  /\ \A h \in Host : fromHost'[h] = fromHost[h] \/ fromHost'[h] = <<>>
  /\ \A h \in Host : running'[h] \subseteq running[h]

(* A step that leaves calls, channels and handlers alone. *)
LEMMA NothingFewer ==
  ASSUME UNCHANGED <<up, toHost, awaits, down, fromHost, running, runs, phase>>
  PROVE  Fewer
BY DEF Fewer, GivesUp

(* _stopBus() gives up what its client has pending. *)
LEMMA StopFewer ==
  ASSUME TypeOK, StopBus
  PROVE  Fewer
<1>1. CASE ref = None
  BY <1>1, NothingFewer DEF StopBus, busVars, callVars, hostVars
<1>2. CASE ref # None
  <2>1. DisposeCalls(ref) /\ StopBroker(ref) /\ runs' = runs
    BY <1>2 DEF StopBus
  <2>2. ASSUME NEW c \in Call
        PROVE  \/ phase'[c] = phase[c]
               \/ phase[c] = "pending" /\ phase'[c] \in {"disposed", "gone"}
    BY <2>1 DEF DisposeCalls
  <2>3. /\ \A b \in Bus : up'[b] = up[b] \/ up'[b] = <<>>
        /\ \A b \in Bus : down'[b] = down[b] \/ down'[b] = <<>>
        /\ \A h \in Host : fromHost'[h] = fromHost[h] \/ fromHost'[h] = <<>>
    BY <2>1 DEF StopBroker, TypeOK
  <2>4. /\ \A h \in Host : toHost'[h] = toHost[h] \/ toHost'[h] = <<>>
        /\ \A c \in Call : awaits'[c] = awaits[c] \/ awaits'[c] = None
        /\ \A h \in Host : running'[h] \subseteq running[h]
    <3>1. CASE kind[ref] = "worker"
      <4> DEFINE mine == {h \in Host : owner[h] = ref}
      <4>1. /\ toHost' = [h \in Host |-> IF h \in mine THEN <<>> ELSE toHost[h]]
            /\ running' = [h \in Host |-> IF h \in mine THEN {} ELSE running[h]]
            /\ awaits' = [c \in Call |-> IF awaits[c] \in mine THEN None ELSE awaits[c]]
        BY <2>1, <3>1 DEF StopBroker
      <4> HIDE DEF mine
      <4> QED
        BY <4>1
    <3>2. CASE kind[ref] # "worker"
      BY <2>1, <3>2 DEF StopBroker
    <3> QED
      BY <3>1, <3>2
  <2> QED
    BY <2>1, <2>2, <2>3, <2>4 DEF Fewer, GivesUp
<1> QED
  BY <1>1, <1>2

(* The steps of the element, the timers, failing launches and crashes. *)
LEMMA OthersFewer ==
  ASSUME TypeOK,
         \/ \E o \in Later : SetOptions(o)
         \/ ConnectedCallback \/ DisconnectedCallback \/ Updated \/ RestartBus
         \/ \E c \in Call : Timeout(c) \/ LaunchFails(c)
         \/ \E h \in Host : Crash(h)
         \/ UNCHANGED vars
  PROVE  Fewer
<1>1. ASSUME NEW o, SetOptions(o) PROVE Fewer
  BY <1>1, NothingFewer DEF SetOptions, busVars, callVars, hostVars
<1>2. CASE ConnectedCallback
  BY <1>2, NothingFewer DEF ConnectedCallback, callVars, hostVars
<1>3. CASE DisconnectedCallback
  BY <1>3, StopFewer DEF DisconnectedCallback
<1>4. CASE Updated
  BY <1>4, StopFewer, NothingFewer DEF Updated, busVars, callVars, hostVars
<1>5. CASE RestartBus
  BY <1>5, NothingFewer DEF RestartBus, callVars, hostVars
<1>6. ASSUME NEW c \in Call, Timeout(c) PROVE Fewer
  <2>1. GivesUp /\ UNCHANGED <<up, toHost, awaits, down, fromHost, running>>
    BY <1>6 DEF Timeout, busVars, hostVars, GivesUp, TypeOK
  <2> QED
    BY <2>1 DEF Fewer
<1>7. ASSUME NEW c \in Call, LaunchFails(c) PROVE Fewer
  <2>1. /\ UNCHANGED <<up, toHost, down, fromHost, running, runs, phase>>
        /\ \A d \in Call : awaits'[d] = awaits[d] \/ awaits'[d] = None
    BY <1>7 DEF LaunchFails, callVars, TypeOK
  <2> QED
    BY <2>1 DEF Fewer, GivesUp
<1>8. ASSUME NEW h \in Host, Crash(h) PROVE Fewer
  <2>1. GivesUp /\ UNCHANGED <<up, awaits, down, fromHost>>
    BY <1>8 DEF Crash, busVars, GivesUp
  <2>2. \A k \in Host : /\ toHost'[k] = toHost[k] \/ toHost'[k] = <<>>
                        /\ running'[k] \subseteq running[k]
    BY <1>8 DEF Crash, TypeOK
  <2> QED
    BY <2>1, <2>2 DEF Fewer
<1>9. CASE UNCHANGED vars
  BY <1>9, NothingFewer DEF vars, busVars, callVars, hostVars
<1> QED
  BY <1>1, <1>2, <1>3, <1>4, <1>5, <1>6, <1>7, <1>8, <1>9

-----------------------------------------------------------------------------
(* RemoteCall *)

FullInv == IInv /\ TypeOK /\ TravelInv

(* Every step keeps the invariant. *)
LEMMA FullStep ==
  ASSUME FullInv, [Next]_vars
  PROVE  FullInv'
<1>1. IInv'
  BY HoldsStep DEF FullInv
<1>2. TypeOK'
  BY TypeStep DEF FullInv
<1>3. TravelInv'
  <2>1. CASE Fewer
    BY <2>1, FewerStep DEF FullInv, Fewer, GivesUp
  <2> QED
    BY <2>1, OthersFewer, CallFromPageTravels, CallFromServiceTravels, ClientReceiveTravels,
       HandleClientMessageTravels, LaunchedTravels, HandleHostMessageTravels,
       HandleCallTravels, MethodSettlesTravels DEF FullInv, Next
<1> QED
  BY <1>1, <1>2, <1>3 DEF FullInv

(* At first no call is anywhere. *)
LEMMA FullInit ==
  ASSUME Init
  PROVE  FullInv
<1>1. IInv
  BY DEF Init, IInv, Holds, NoBusLost
<1>2. TypeOK
  BY InitType
<1>3. TravelInv
  <2>1. /\ \A b \in Bus : Elems(up[b]) = {} /\ OneEach(up[b]) /\ Elems(down[b]) = {}
        /\ \A h \in Host : Elems(toHost[h]) = {} /\ OneEach(toHost[h]) /\ Elems(fromHost[h]) = {}
    BY ElemsOfNone DEF Init
  <2>2. /\ \A b \in Bus : Sending(b) = {}
        /\ \A h \in Host : Reaching(h) = {}
        /\ Suspended = {}
    BY <2>1 DEF Sending, Reaching, Suspended, Init
  <2>3. OneWay /\ Unanswered /\ AnswersTrue
    BY <2>1, <2>2 DEF OneWay, Unanswered, Underway, AnswersTrue
  <2>4. Ran
    BY DEF Init, Ran
  <2> QED
    BY <2>3, <2>4 DEF TravelInv
<1> QED
  BY <1>1, <1>2, <1>3 DEF FullInv

Outcomes == [c \in Call |-> Outcome(c)]

(* Giving up calls is Abandon() of some, or of none. *)
LEMMA GivesUpRefines ==
  ASSUME GivesUp
  PROVE  [Promised!Next]_(Promised!vars)
<1> DEFINE S == {c \in Call : phase'[c] # phase[c]}
<1>1. \A c \in Call : Outcome(c)' = IF c \in S THEN "abandoned" ELSE Outcome(c)
  <2>1. ASSUME NEW c \in Call, phase'[c] # phase[c]
        PROVE  Outcome(c)' = "abandoned"
    BY <2>1 DEF GivesUp, Outcome
  <2>2. ASSUME NEW c \in Call, phase'[c] = phase[c]
        PROVE  Outcome(c)' = Outcome(c)
    BY <2>2 DEF Outcome
  <2> QED
    BY <2>1, <2>2
<1>2. \A c \in S : Outcome(c) = "asked"
  BY DEF GivesUp, Outcome
<1>3. S \in SUBSET Call /\ runs' = runs
  BY DEF GivesUp
<1> HIDE DEF S
<1>4. Promised!Abandon(S)
  <2>1. Outcomes' = [c \in Call |-> IF c \in S THEN "abandoned" ELSE Outcomes[c]]
    BY <1>1 DEF Outcomes
  <2>2. \A c \in S : Outcomes[c] = "asked"
    BY <1>2, <1>3 DEF Outcomes
  <2> QED
    BY <1>3, <2>1, <2>2 DEF Promised!Abandon, Outcomes
<1> QED
  BY <1>3, <1>4 DEF Promised!Next

(* A step that changes one call. *)
LEMMA OneOutcome ==
  ASSUME NEW c \in Call, \A d \in Call : d # c => phase'[d] = phase[d]
  PROVE  Outcomes' = [Outcomes EXCEPT ![c] = Outcome(c)']
<1>1. \A d \in Call : d # c => Outcome(d)' = Outcome(d)
  BY DEF Outcome
<1> QED
  BY <1>1 DEF Outcomes

(* Every step is one of RemoteCall, or none that a caller can tell. *)
LEMMA StepRefines ==
  ASSUME FullInv, [Next]_vars
  PROVE  [Promised!Next]_(Promised!vars)
<1> USE DEF FullInv
<1>1. CASE GivesUp
  BY <1>1, GivesUpRefines
<1>2. ASSUME NEW c \in Call, CallFromPage(c) \/ CallFromService(c)
      PROVE  [Promised!Next]_(Promised!vars)
  <2>1. /\ phase[c] = "new" /\ runs' = runs
        /\ \E p \in {"pending", "unheard", "invalid"} : phase' = [phase EXCEPT ![c] = p]
    BY <1>2 DEF CallFromPage, CallFromService
  <2>2. PICK p \in {"pending", "unheard", "invalid"} : phase' = [phase EXCEPT ![c] = p]
    BY <2>1
  <2>3. \A d \in Call : phase'[d] = IF d = c THEN p ELSE phase[d]
    BY <2>2 DEF TypeOK
  <2>4. Outcomes' = [Outcomes EXCEPT ![c] = Outcome(c)']
    BY <2>3, OneOutcome
  <2>5. Outcome(c) = "idle" /\ Outcome(c)' = IF p = "invalid" THEN "idle" ELSE "asked"
    BY <2>1, <2>3 DEF Outcome
  <2>6. CASE p = "invalid"
    <3>1. Outcomes' = Outcomes
      BY <2>4, <2>5, <2>6 DEF Outcomes
    <3> QED
      BY <2>1, <3>1 DEF Promised!vars, Outcomes
  <2>7. CASE p # "invalid"
    <3>1. Promised!Ask(c)
      BY <2>1, <2>4, <2>5, <2>7 DEF Promised!Ask, Outcomes
    <3> QED
      BY <3>1 DEF Promised!Next
  <2> QED
    BY <2>6, <2>7
<1>3. ASSUME NEW b \in Bus, ClientReceive(b)
      PROVE  [Promised!Next]_(Promised!vars)
  <2>1. PICK e \in Envelope : e = Head(down[b])
    BY <1>3, QueueType DEF ClientReceive, TypeOK
  <2>2. /\ phase' = IF e.type \in Answers /\ phase[e.id] = "pending" /\ via[e.id] = b
                      THEN [phase EXCEPT ![e.id] = e.type] ELSE phase
        /\ runs' = runs
    BY <1>3, <2>1 DEF ClientReceive
  <2>3. Truthful(e)
    <3>1. down[b] \in Seq(Envelope) /\ down[b] # <<>>
      BY <1>3 DEF ClientReceive, TypeOK
    <3>2. e \in Elems(down[b])
      BY <2>1, <3>1, ElemsOfQueue
    <3> QED
      BY <3>2 DEF TravelInv, AnswersTrue
  <2>4. PICK c \in Call : c = e.id
    BY DEF Envelope
  <2>5. CASE phase' = phase
    BY <2>2, <2>5, GivesUpRefines DEF GivesUp
  <2>6. CASE phase' # phase
    <3>1. /\ e.type \in Answers /\ phase[c] = "pending"
          /\ \A d \in Call : phase'[d] = IF d = c THEN e.type ELSE phase[d]
      BY <2>2, <2>4, <2>6 DEF TypeOK
    <3>2. Outcomes' = [Outcomes EXCEPT ![c] = Outcome(c)']
      BY <3>1, OneOutcome
    <3>3. Outcomes[c] = "asked"
      BY <3>1 DEF Outcomes, Outcome
    <3>4. CASE e.type = "refused"
      <4>1. Outcome(c)' = "refused" /\ runs[c] = 0
        BY <2>3, <2>4, <3>1, <3>4 DEF Outcome, Truthful
      <4>2. Promised!Refuse(c)
        BY <2>2, <3>2, <3>3, <4>1 DEF Promised!Refuse, Outcomes
      <4> QED
        BY <4>2 DEF Promised!Next
    <3>5. CASE e.type # "refused"
      <4>1. e.type \in {"return", "error"}
        BY <3>1, <3>5 DEF Answers
      <4>2. Outcome(c)' = "answered" /\ runs[c] = 1
        BY <2>3, <2>4, <3>1, <4>1 DEF Outcome, Truthful
      <4>3. Promised!Answer(c)
        BY <2>2, <3>2, <3>3, <4>2 DEF Promised!Answer, Outcomes
      <4> QED
        BY <4>3 DEF Promised!Next
    <3> QED
      BY <3>4, <3>5
  <2> QED
    BY <2>5, <2>6
<1>4. ASSUME NEW h \in Host, HandleCall(h)
      PROVE  [Promised!Next]_(Promised!vars)
  <2>1. PICK c \in Call :
          /\ c = Head(toHost[h])
          /\ Underway(c) /\ runs[c] = 0 /\ phase[c] \notin {"new", "invalid"} \cup Answers
    BY <1>4, TakenFromHost
  <2>2. phase' = phase
    BY <1>4 DEF HandleCall
  <2>3. Outcomes' = Outcomes
    BY <2>2 DEF Outcomes, Outcome
  <2>4. CASE runs' = runs
    BY <2>3, <2>4 DEF Promised!vars, Outcomes
  <2>5. CASE runs' = [runs EXCEPT ![c] = @ + 1]
    <3>1. runs' = [runs EXCEPT ![c] = 1]
      BY <2>1, <2>5 DEF TypeOK
    <3>2. Outcomes[c] \in {"asked", "abandoned"}
      <4>1. phase[c] \in {"pending", "unheard", "timeout", "disposed", "gone"}
        BY <2>1 DEF TypeOK
      <4> QED
        BY <4>1 DEF Outcomes, Outcome
    <3>3. Promised!Run(c)
      BY <2>1, <2>3, <3>1, <3>2 DEF Promised!Run, Outcomes
    <3> QED
      BY <3>3 DEF Promised!Next
  <2> QED
    BY <1>4, <2>1, <2>4, <2>5 DEF HandleCall
<1>5. ASSUME UNCHANGED <<phase, runs>>
      PROVE  [Promised!Next]_(Promised!vars)
  BY <1>5, GivesUpRefines DEF GivesUp
<1>6. ASSUME NEW c \in Call, Launched(c) PROVE UNCHANGED <<phase, runs>>
  BY <1>6 DEF Launched, callVars
<1>7. ASSUME NEW b \in Bus, HandleClientMessage(b) PROVE UNCHANGED <<phase, runs>>
  BY <1>7 DEF HandleClientMessage, callVars
<1>8. ASSUME NEW h \in Host, HandleHostMessage(h) PROVE UNCHANGED <<phase, runs>>
  BY <1>8 DEF HandleHostMessage, callVars
<1>9. ASSUME NEW h \in Host, NEW c \in Call, NEW type \in {"return", "error"},
             MethodSettles(h, c, type)
      PROVE  UNCHANGED <<phase, runs>>
  BY <1>9 DEF MethodSettles, callVars
<1>10. Fewer => GivesUp
  BY DEF Fewer
<1> QED
  BY <1>1, <1>2, <1>3, <1>4, <1>5, <1>6, <1>7, <1>8, <1>9, <1>10, OthersFewer DEF Next

(* The bus keeps what RuntimeClient promises (module RemoteCall), through any
   restarts, double launches, crashes and late answers: a method runs at most
   once, a return or an error comes from a method that has run, and a call that
   was refused never runs (service-client.ts, service-broker.ts, service-host.ts). *)
THEOREM BusKeepsPromise == Spec => KeepsPromise
<1>1. Init => Promised!Init
  <2> SUFFICES ASSUME Init PROVE Promised!Init
    OBVIOUS
  <2>1. Outcomes = [c \in Call |-> "idle"]
    BY DEF Init, Outcomes, Outcome
  <2> QED
    BY <2>1 DEF Init, Promised!Init, Outcomes
<1>2. Init => FullInv
  BY FullInit
<1>3. FullInv /\ [Next]_vars => FullInv'
  BY FullStep
<1>4. FullInv /\ [Next]_vars => [Promised!Next]_(Promised!vars)
  BY StepRefines
<1> QED
  BY <1>1, <1>2, <1>3, <1>4, PTL DEF Spec, KeepsPromise, Promised!Spec
=============================================================================

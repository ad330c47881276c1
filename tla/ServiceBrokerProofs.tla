--------------------------- MODULE ServiceBrokerProofs ---------------------------
(***************************************************************************)
(* Proofs about ServiceBroker, for any services, hosts and messages, both   *)
(* brokers, and whatever faults: answers find their callers, and callers    *)
(* get what RemoteCall promises.                                           *)
(***************************************************************************)
EXTENDS ServiceBroker, SequenceLemmas, TLAPS

USE BrokerAssumption DEF BrokerAssumption

-----------------------------------------------------------------------------
(* Types *)

Phases == {"new", "sent", "pending", "gone"} \cup Settled

(* The record a sender makes is an envelope. *)
LEMMA EnvType ==
  ASSUME NEW type \in Answers \cup {"message"}, NEW m \in Msg
  PROVE  /\ Env(type, m) \in Envelope
         /\ Env(type, m).type = type /\ Env(type, m).id = m
BY DEF Env, Envelope

(* The initial state is of its type. *)
LEMMA InitType ==
  ASSUME Init
  PROVE  TypeOK
<1>1. <<>> \in Seq(Envelope) /\ <<>> \in Seq(Msg) /\ <<>> \in Seq(Place \X Msg)
  OBVIOUS
<1>2. /\ up \in [Endpoint -> Seq(Envelope)] /\ down \in [Endpoint -> Seq(Envelope)]
      /\ chain \in [Place -> [Service -> Seq(Msg)]]
      /\ sent \in Seq(Msg) /\ delivered \in Seq(Place \X Msg)
  BY <1>1 DEF Init
<1>3. /\ phase \in [Msg -> Phases]
      /\ home \in [Msg -> Endpoint \cup {None}]
      /\ registered \subseteq Service
      /\ origins \in [Msg -> Endpoint \cup {None}]
      /\ serviceToHost \in [Service -> Place \cup {None}]
      /\ awaits \in [Msg -> Place \cup {None}]
  BY DEF Init, Phases
<1>4. /\ hostState \in [Host -> HostState]
      /\ local \in [Service -> {"absent", "loading", "active"}]
      /\ running \in [Place -> [Service -> BOOLEAN]]
      /\ alive \in BOOLEAN
      /\ runs \in [Msg -> Nat]
  BY DEF Init, HostState
<1> QED
  BY <1>2, <1>3, <1>4 DEF TypeOK, Phases

(* The types of what the last statements of routeCall() change. *)
LEMMA DeliverType ==
  ASSUME TypeOK, NEW m \in Msg, NEW h \in Place, NEW pending \in [Endpoint -> Seq(Envelope)],
         Deliver(m, h, pending)
  PROVE  /\ up' \in [Endpoint -> Seq(Envelope)] /\ down' \in [Endpoint -> Seq(Envelope)]
         /\ chain' \in [Place -> [Service -> Seq(Msg)]]
         /\ delivered' \in Seq(Place \X Msg)
<1> DEFINE s == To[m]
<1>1. s \in Service /\ Local \in Place /\ Local \in Endpoint /\ h \in Endpoint
  BY DEF Place, Endpoint
<1>2. delivered' \in Seq(Place \X Msg)
  <2>1. delivered' = Append(delivered, <<h, m>>)
    BY DEF Deliver
  <2> QED
    BY <2>1, QueueType DEF TypeOK
<1>3. Append(chain[Local][s], m) \in Seq(Msg)
  BY <1>1, QueueType DEF TypeOK
<1>4. \A x \in Endpoint : /\ Append(pending[x], Env("notRegistered", m)) \in Seq(Envelope)
                        /\ Append(down[x], Env("message", m)) \in Seq(Envelope)
  BY EnvType, QueueType DEF TypeOK, Answers
<1> HIDE DEF s
<1>5. CASE h = Local /\ local[To[m]] = "active"
  <2>1. /\ chain' = [chain EXCEPT ![Local][s] = Append(@, m)]
        /\ up' = pending /\ down' = down
    BY <1>5 DEF Deliver, s, Place
  <2>2. chain' \in [Place -> [Service -> Seq(Msg)]]
    BY <1>1, <1>3, <2>1 DEF TypeOK
  <2> QED
    BY <1>2, <2>1, <2>2 DEF TypeOK
<1>6. CASE h = Local /\ local[To[m]] # "active"
  <2>1. /\ up' = pending \/ up' = [pending EXCEPT ![Local] = Append(@, Env("notRegistered", m))]
        /\ chain' = chain /\ down' = down
    BY <1>6 DEF Deliver, Place
  <2>2. up' \in [Endpoint -> Seq(Envelope)]
    <3>1. Append(pending[Local], Env("notRegistered", m)) \in Seq(Envelope)
      BY <1>1, <1>4
    <3> QED
      BY <1>1, <2>1, <3>1
  <2> QED
    BY <1>2, <2>1, <2>2 DEF TypeOK
<1>7. CASE h \in Host
  <2>1. /\ down' = [down EXCEPT ![h] = Append(@, Env("message", m))] \/ down' = down
        /\ up' = pending /\ chain' = chain
    BY <1>7 DEF Deliver, Place
  <2>2. down' \in [Endpoint -> Seq(Envelope)]
    <3>1. Append(down[h], Env("message", m)) \in Seq(Envelope)
      BY <1>1, <1>4
    <3> QED
      BY <1>1, <2>1, <3>1 DEF TypeOK
  <2> QED
    BY <1>2, <2>1, <2>2 DEF TypeOK
<1> QED
  BY <1>5, <1>6, <1>7 DEF Place

(* What is left of a channel is one. *)
LEMMA TakenType ==
  ASSUME TypeOK, NEW x \in Endpoint
  PROVE  /\ up[x] # <<>> => /\ Head(up[x]) \in Envelope
                            /\ [up EXCEPT ![x] = Tail(@)] \in [Endpoint -> Seq(Envelope)]
         /\ down[x] # <<>> => /\ Head(down[x]) \in Envelope
                              /\ [down EXCEPT ![x] = Tail(@)] \in [Endpoint -> Seq(Envelope)]
         /\ \A e \in Envelope : [down EXCEPT ![x] = Append(@, e)] \in [Endpoint -> Seq(Envelope)]
         /\ \A e \in Envelope : Post(x, e) \in [Endpoint -> Seq(Envelope)]
<1>1. up[x] \in Seq(Envelope) /\ down[x] \in Seq(Envelope)
  BY DEF TypeOK
<1>2. /\ up[x] # <<>> => Head(up[x]) \in Envelope /\ Tail(up[x]) \in Seq(Envelope)
      /\ down[x] # <<>> => Head(down[x]) \in Envelope /\ Tail(down[x]) \in Seq(Envelope)
      /\ \A e \in Envelope : Append(up[x], e) \in Seq(Envelope) /\ Append(down[x], e) \in Seq(Envelope)
  BY <1>1, QueueType
<1> QED
  BY <1>2 DEF TypeOK, Post

(* What the broker does with a message keeps every variable in its type. *)
LEMMA ReceiveType ==
  ASSUME TypeOK, NEW x \in Endpoint, BrokerReceive(x)
  PROVE  TypeOK'
<1>1. PICK e \in Envelope : e = Head(up[x])
  BY TakenType DEF BrokerReceive
<1>2. /\ e.id \in Msg /\ e.type \in Answers \cup {"message"} /\ To[e.id] \in Service
      /\ up[x] # <<>> /\ [up EXCEPT ![x] = Tail(@)] \in [Endpoint -> Seq(Envelope)]
      /\ \/ RouteAnswer(x, e) \/ RouteRegistration(x, e) \/ RouteUnregistered(x, e)
         \/ RouteToHost(x, e) \/ RouteCold(x, e)
  BY <1>1, TakenType DEF BrokerReceive, Envelope
<1>3. CASE RouteAnswer(x, e)
  <2>1. down' \in [Endpoint -> Seq(Envelope)]
    <3>1. down' = down \/ (origins[e.id] \in Endpoint /\ down' = [down EXCEPT ![origins[e.id]] = Append(@, e)])
      BY <1>2, <1>3 DEF RouteAnswer, TypeOK
    <3>2. CASE down' = down
      BY <3>2 DEF TypeOK
    <3>3. CASE down' # down
      <4>1. PICK y \in Endpoint : down' = [down EXCEPT ![y] = Append(@, e)]
        BY <3>1, <3>3
      <4> QED
        BY <4>1, TakenType
    <3> QED
      BY <3>2, <3>3
  <2>2. origins' \in [Msg -> Endpoint \cup {None}]
    BY <1>2, <1>3 DEF RouteAnswer, TypeOK
  <2> QED
    BY <1>2, <1>3, <2>1, <2>2 DEF RouteAnswer, clientVars, hostVars, history, TypeOK
<1>4. CASE RouteRegistration(x, e)
  <2>1. Env("return", e.id) \in Envelope
    BY <1>2, EnvType DEF Answers
  <2>2. down' \in [Endpoint -> Seq(Envelope)]
    BY <1>4, <2>1, TakenType DEF RouteRegistration
  <2> QED
    BY <1>2, <1>4, <2>2 DEF RouteRegistration, clientVars, hostVars, history, TypeOK
<1>5. CASE RouteUnregistered(x, e)
  <2>1. Env("notRegistered", e.id) \in Envelope
    BY <1>2, EnvType DEF Answers
  <2>2. down' \in [Endpoint -> Seq(Envelope)]
    <3>1. down' = down \/ down' = [down EXCEPT ![x] = Append(@, Env("notRegistered", e.id))]
      BY <1>5 DEF RouteUnregistered
    <3>2. [down EXCEPT ![x] = Append(@, Env("notRegistered", e.id))] \in [Endpoint -> Seq(Envelope)]
      BY <2>1, TakenType
    <3>3. down \in [Endpoint -> Seq(Envelope)]
      BY DEF TypeOK
    <3> QED
      BY <3>1, <3>2, <3>3
  <2> QED
    BY <1>2, <1>5, <2>2 DEF RouteUnregistered, clientVars, routingVars, hostVars, history, TypeOK
<1>6. CASE RouteToHost(x, e)
  <2>1. /\ serviceToHost[To[e.id]] \in Place
        /\ Deliver(e.id, serviceToHost[To[e.id]], [up EXCEPT ![x] = Tail(@)])
        /\ Track(x, e.id)
    BY <1>2, <1>6 DEF RouteToHost, TypeOK
  <2>2. /\ up' \in [Endpoint -> Seq(Envelope)] /\ down' \in [Endpoint -> Seq(Envelope)]
        /\ chain' \in [Place -> [Service -> Seq(Msg)]]
        /\ delivered' \in Seq(Place \X Msg)
    BY <1>2, <2>1, DeliverType
  <2>3. origins' \in [Msg -> Endpoint \cup {None}]
    BY <1>2, <2>1 DEF Track, TypeOK
  <2> QED
    BY <1>6, <2>2, <2>3 DEF RouteToHost, clientVars, hostVars, TypeOK
<1>7. CASE RouteCold(x, e)
  <2>1. origins' \in [Msg -> Endpoint \cup {None}]
    BY <1>2, <1>7 DEF RouteCold, Track, TypeOK
  <2>2. up' \in [Endpoint -> Seq(Envelope)]
    BY <1>2, <1>7 DEF RouteCold
  <2>3. /\ local' \in [Service -> {"absent", "loading", "active"}]
        /\ serviceToHost' \in [Service -> Place \cup {None}]
        /\ awaits' \in [Msg -> Place \cup {None}]
        /\ hostState' \in [Host -> HostState]
    <3>1. CASE /\ local' = [local EXCEPT ![To[e.id]] = "loading"]
               /\ serviceToHost' = [serviceToHost EXCEPT ![To[e.id]] = Local]
               /\ awaits' = [awaits EXCEPT ![e.id] = Local]
               /\ UNCHANGED hostState
      BY <1>2, <3>1 DEF TypeOK, Place
    <3>2. CASE UNCHANGED <<local, serviceToHost, awaits, hostState>>
      BY <3>2 DEF TypeOK
    <3>3. ASSUME NEW h \in Host,
                 hostState' = [hostState EXCEPT ![h] = "launching"],
                 awaits' = [awaits EXCEPT ![e.id] = h],
                 UNCHANGED <<local, serviceToHost>>
          PROVE  /\ local' \in [Service -> {"absent", "loading", "active"}]
                 /\ serviceToHost' \in [Service -> Place \cup {None}]
                 /\ awaits' \in [Msg -> Place \cup {None}]
                 /\ hostState' \in [Host -> HostState]
      BY <3>3 DEF TypeOK, Place, HostState
    <3> QED
      BY <1>7, <3>1, <3>2, <3>3 DEF RouteCold
  <2> QED
    BY <1>7, <2>1, <2>2, <2>3 DEF RouteCold, clientVars, history, TypeOK
<1> QED
  BY <1>2, <1>3, <1>4, <1>5, <1>6, <1>7

(* What runs is the head of a chain. *)
Busy == \A p \in Place, s \in Service : running[p][s] => chain[p][s] # <<>>

(* The head of a chain leaves with an answer, of its method or of its host. *)
HostAnswers == {"return", "error", "rejected"}
Leaves(p, s, answer) ==
  /\ chain[p][s] # <<>> /\ running[p][s] = (answer # "rejected")
  /\ running' = [running EXCEPT ![p][s] = FALSE]
  /\ chain' = [chain EXCEPT ![p][s] = Tail(@)]
  /\ up' = IF Head(chain[p][s]) \in Call THEN Post(p, Env(answer, Head(chain[p][s]))) ELSE up
  /\ UNCHANGED <<clientVars, down, routingVars, hostState, local, alive, history>>

(* A method finishes with an answer, and a host rejects without running it. *)
LEMMA MessageLeaves ==
  ASSUME TypeOK, Busy, NEW p \in Place, NEW s \in Service
  PROVE  /\ \A a \in {"return", "error"} : Finish(p, s, a) => Leaves(p, s, a)
         /\ Reject(p, s) => Leaves(p, s, "rejected")
<1>1. ASSUME NEW a \in {"return", "error"}, Finish(p, s, a) PROVE Leaves(p, s, a)
  <2>1. chain[p][s] # <<>> /\ running[p][s] = TRUE
    BY <1>1 DEF Finish, Busy, TypeOK
  <2> QED
    BY <1>1, <2>1 DEF Finish, Leaves
<1>2. ASSUME Reject(p, s) PROVE Leaves(p, s, "rejected")
  <2>1. chain[p][s] # <<>> /\ running[p][s] = FALSE /\ UNCHANGED <<running, hostState, local>>
    BY <1>2 DEF Reject, TypeOK
  <2>2. running' = [running EXCEPT ![p][s] = FALSE]
    BY <2>1 DEF TypeOK
  <2> QED
    BY <1>2, <2>1, <2>2 DEF Reject, Leaves
<1> QED
  BY <1>1, <1>2

(* Every variable keeps its type. *)
LEMMA TypeStep ==
  ASSUME TypeOK, Busy, [Next]_vars
  PROVE  TypeOK'
<1>1. ASSUME NEW m \in Msg, Send(m) PROVE TypeOK'
  <2>1. PICK x \in Endpoint : /\ home' = [home EXCEPT ![m] = x]
                              /\ up' = Post(x, Env("message", m))
    BY <1>1 DEF Send
  <2>2. up' \in [Endpoint -> Seq(Envelope)]
    BY <2>1, EnvType, TakenType
  <2>3. sent' \in Seq(Msg)
    BY <1>1, QueueType DEF Send, TypeOK
  <2>4. home' \in [Msg -> Endpoint \cup {None}] /\ phase' \in [Msg -> Phases]
    BY <1>1, <2>1 DEF Send, TypeOK, Phases
  <2> QED
    BY <1>1, <2>2, <2>3, <2>4 DEF Send, routingVars, hostVars, TypeOK, Phases
<1>2. ASSUME NEW m \in Msg, Timeout(m) PROVE TypeOK'
  <2>1. phase' \in [Msg -> Phases]
    BY <1>2 DEF Timeout, TypeOK, Phases, Settled
  <2> QED
    BY <1>2, <2>1 DEF Timeout, channels, routingVars, hostVars, history, TypeOK, Phases
<1>3. ASSUME NEW m \in Msg, LaunchDone(m) PROVE TypeOK'
  <2>1. awaits[m] \in Host /\ awaits[m] \in Place /\ To[m] \in Service
    BY <1>3 DEF LaunchDone, Launching, Place
  <2>2. /\ hostState' \in [Host -> HostState]
        /\ serviceToHost' \in [Service -> Place \cup {None}]
    BY <1>3, <2>1 DEF LaunchDone, TypeOK, HostState
  <2>3. CASE InProcess
    BY <1>3, <2>2, <2>3 DEF LaunchDone, channels, clientVars, TypeOK
  <2>4. CASE ~InProcess
    <3>1. awaits' = [awaits EXCEPT ![m] = None] /\ Deliver(m, awaits[m], up)
      BY <1>3, <2>4 DEF LaunchDone
    <3>2. /\ up' \in [Endpoint -> Seq(Envelope)] /\ down' \in [Endpoint -> Seq(Envelope)]
          /\ chain' \in [Place -> [Service -> Seq(Msg)]]
          /\ delivered' \in Seq(Place \X Msg)
      <4>1. up \in [Endpoint -> Seq(Envelope)]
        BY DEF TypeOK
      <4> QED
        BY <2>1, <3>1, <4>1, DeliverType
    <3>3. awaits' \in [Msg -> Place \cup {None}]
      BY <3>1 DEF TypeOK
    <3> QED
      BY <1>3, <2>2, <3>2, <3>3 DEF LaunchDone, clientVars, TypeOK
  <2> QED
    BY <2>3, <2>4
<1>4. ASSUME NEW m \in Msg, LaunchFail(m) PROVE TypeOK'
  <2>1. hostState' \in [Host -> HostState] /\ awaits' \in [Msg -> Place \cup {None}]
    BY <1>4 DEF LaunchFail, TypeOK, HostState
  <2> QED
    BY <1>4, <2>1 DEF LaunchFail, clientVars, channels, history, TypeOK
<1>5. ASSUME NEW m \in Msg, Resume(m) PROVE TypeOK'
  <2>1. awaits[m] \in Place
    BY <1>5 DEF Resume, TypeOK
  <2>2. awaits' \in [Msg -> Place \cup {None}]
    BY <1>5 DEF Resume, TypeOK
  <2>3. CASE Deliver(m, awaits[m], up) /\ UNCHANGED <<hostState, origins>>
    <3>1. up \in [Endpoint -> Seq(Envelope)]
      BY DEF TypeOK
    <3>2. /\ up' \in [Endpoint -> Seq(Envelope)] /\ down' \in [Endpoint -> Seq(Envelope)]
          /\ chain' \in [Place -> [Service -> Seq(Msg)]]
          /\ delivered' \in Seq(Place \X Msg)
      BY <2>1, <2>3, <3>1, DeliverType
    <3> QED
      BY <1>5, <2>2, <2>3, <3>2 DEF Resume, clientVars, TypeOK
  <2>4. CASE /\ origins' = [origins EXCEPT ![m] = None]
             /\ UNCHANGED <<hostState, channels, chain, delivered>>
    <3>1. origins' \in [Msg -> Endpoint \cup {None}]
      BY <2>4 DEF TypeOK
    <3> QED
      BY <1>5, <2>2, <2>4, <3>1 DEF Resume, channels, clientVars, TypeOK
  <2> QED
    BY <1>5, <2>3, <2>4 DEF Resume
<1>6. ASSUME NEW x \in Endpoint, EndpointReceive(x) PROVE TypeOK'
  <2>1. PICK e \in Envelope : e = Head(down[x])
    BY <1>6, TakenType DEF EndpointReceive
  <2>2. e.id \in Msg /\ e.type \in Answers \cup {"message"} /\ To[e.id] \in Service
    BY DEF Envelope
  <2>3. down' \in [Endpoint -> Seq(Envelope)]
    BY <1>6, TakenType DEF EndpointReceive
  <2>4. CASE e.type = "message"
    <3>1. chain' = [chain EXCEPT ![x][To[e.id]] = Append(@, e.id)] /\ phase' = phase
      BY <1>6, <2>1, <2>4 DEF EndpointReceive
    <3>2. chain' \in [Place -> [Service -> Seq(Msg)]]
      <4>1. x \in Place => Append(chain[x][To[e.id]], e.id) \in Seq(Msg)
        BY <2>2, QueueType DEF TypeOK
      <4>2. CASE x \in Place
        BY <2>2, <3>1, <4>1, <4>2 DEF TypeOK
      <4>3. CASE x \notin Place
        BY <3>1, <4>3 DEF TypeOK
      <4> QED
        BY <4>2, <4>3
    <3> QED
      BY <1>6, <2>3, <3>1, <3>2 DEF EndpointReceive, routingVars, history, TypeOK
  <2>5. CASE e.type # "message"
    <3>1. phase' = [phase EXCEPT ![e.id] = IF @ = "pending" THEN e.type ELSE @] /\ chain' = chain
      BY <1>6, <2>1, <2>5 DEF EndpointReceive, Settle
    <3>2. phase' \in [Msg -> Phases]
      BY <2>2, <2>5, <3>1 DEF TypeOK, Phases, Settled
    <3> QED
      BY <1>6, <2>3, <3>1, <3>2 DEF EndpointReceive, routingVars, history, TypeOK, Phases
  <2> QED
    BY <2>4, <2>5
<1>7. ASSUME NEW s \in Service, LocalLoaded(s) PROVE TypeOK'
  <2>1. local' \in [Service -> {"absent", "loading", "active"}]
    BY <1>7 DEF LocalLoaded, TypeOK
  <2> QED
    BY <1>7, <2>1 DEF LocalLoaded, clientVars, channels, routingVars, history, TypeOK
<1>8. ASSUME NEW p \in Place, NEW s \in Service, Invoke(p, s) PROVE TypeOK'
  <2>1. Head(chain[p][s]) \in Msg
    BY <1>8, QueueType DEF Invoke, TypeOK
  <2>2. running' \in [Place -> [Service -> BOOLEAN]] /\ runs' \in [Msg -> Nat]
    <3>1. runs' \in [Msg -> Nat]
      BY <1>8, <2>1 DEF Invoke, TypeOK
    <3>2. running' = [running EXCEPT ![p][s] = TRUE] /\ running \in [Place -> [Service -> BOOLEAN]]
      BY <1>8 DEF Invoke, TypeOK
    <3> QED
      BY <3>1, <3>2
  <2> QED
    BY <1>8, <2>2 DEF Invoke, clientVars, channels, routingVars, TypeOK
<1>9. ASSUME NEW p \in Place, NEW s \in Service, NEW a \in HostAnswers, Leaves(p, s, a)
      PROVE  TypeOK'
  <2>1. running' = [running EXCEPT ![p][s] = FALSE] /\ chain' = [chain EXCEPT ![p][s] = Tail(@)]
    BY <1>9 DEF Leaves
  <2>2. running' \in [Place -> [Service -> BOOLEAN]]
    BY <2>1 DEF TypeOK
  <2>3. chain' \in [Place -> [Service -> Seq(Msg)]]
    <3>1. chain[p][s] \in Seq(Msg) /\ chain[p][s] # <<>>
      BY <1>9 DEF Leaves, TypeOK
    <3>2. Tail(chain[p][s]) \in Seq(Msg)
      BY <3>1, QueueType
    <3> QED
      BY <2>1, <3>2 DEF TypeOK
  <2>4. up' \in [Endpoint -> Seq(Envelope)]
    <3> DEFINE m == Head(chain[p][s])
    <3>1. up' = up \/ (m \in Call /\ up' = Post(p, Env(a, m)))
      BY <1>9 DEF Leaves
    <3>2. m \in Call => Env(a, m) \in Envelope
      BY EnvType DEF Answers, HostAnswers
    <3>3. p \in Endpoint
      BY DEF Place, Endpoint
    <3> HIDE DEF m
    <3> QED
      BY <3>1, <3>2, <3>3, TakenType DEF TypeOK
  <2> QED
    BY <1>9, <2>2, <2>3, <2>4 DEF Leaves, clientVars, routingVars, history, TypeOK
<1>10. ASSUME NEW h \in Host, Crash(h) PROVE TypeOK'
  <2>1. <<>> \in Seq(Msg) /\ <<>> \in Seq(Envelope)
    OBVIOUS
  <2>2. hostState' \in [Host -> HostState] /\ down' \in [Endpoint -> Seq(Envelope)]
    BY <1>10, <2>1 DEF Crash, TypeOK, HostState
  <2>3. chain' \in [Place -> [Service -> Seq(Msg)]] /\ running' \in [Place -> [Service -> BOOLEAN]]
    BY <1>10, <2>1 DEF Crash, TypeOK
  <2>4. phase' \in [Msg -> Phases]
    BY <1>10 DEF Crash, TypeOK, Phases
  <2> QED
    BY <1>10, <2>2, <2>3, <2>4 DEF Crash, routingVars, history, TypeOK, Phases
<1>11. ASSUME Dispose PROVE TypeOK'
  <2>1. <<>> \in Seq(Msg) /\ <<>> \in Seq(Envelope)
    OBVIOUS
  <2>2. /\ up' \in [Endpoint -> Seq(Envelope)] /\ origins' \in [Msg -> Endpoint \cup {None}]
        /\ serviceToHost' \in [Service -> Place \cup {None}] /\ alive' \in BOOLEAN
    BY <1>11, <2>1 DEF Dispose
  <2>3. phase' \in [Msg -> Phases]
    BY <1>11 DEF Dispose, TypeOK, Phases, Settled
  <2>4. CASE InProcess
    <3>1. /\ down' = [down EXCEPT ![Main] = <<>>]
          /\ hostState' = [h \in Host |-> IF hostState[h] = "up" THEN "closed" ELSE hostState[h]]
          /\ UNCHANGED <<awaits, chain, running>>
      BY <1>11, <2>4 DEF Dispose
    <3>2. down' \in [Endpoint -> Seq(Envelope)] /\ hostState' \in [Host -> HostState]
      BY <2>1, <3>1 DEF TypeOK, HostState
    <3> QED
      BY <1>11, <2>2, <2>3, <3>1, <3>2 DEF Dispose, history, TypeOK, Phases
  <2>5. CASE ~InProcess
    <3>1. /\ down' = [x \in Endpoint |-> <<>>]
          /\ hostState' = [h \in Host |-> "closed"]
          /\ awaits' = [m \in Msg |-> None]
          /\ chain' = [p \in Place |-> [s \in Service |-> <<>>]]
          /\ running' = [p \in Place |-> [s \in Service |-> FALSE]]
      BY <1>11, <2>5 DEF Dispose
    <3>2. /\ down' \in [Endpoint -> Seq(Envelope)] /\ hostState' \in [Host -> HostState]
          /\ awaits' \in [Msg -> Place \cup {None}]
          /\ chain' \in [Place -> [Service -> Seq(Msg)]]
          /\ running' \in [Place -> [Service -> BOOLEAN]]
      BY <2>1, <3>1 DEF HostState
    <3> QED
      BY <1>11, <2>2, <2>3, <3>2 DEF Dispose, history, TypeOK, Phases
  <2> QED
    BY <2>4, <2>5
<1>12. CASE UNCHANGED vars
  BY <1>12 DEF vars, clientVars, channels, routingVars, hostVars, history, TypeOK
<1> QED
  BY <1>1, <1>2, <1>3, <1>4, <1>5, <1>6, <1>7, <1>8, <1>9, <1>10, <1>11, <1>12, ReceiveType,
     MessageLeaves DEF Next, HostAnswers

-----------------------------------------------------------------------------
(* Where a message is *)

(* In a channel, waiting for a launch, or with a host. *)
AtUp(x, m) == \E e \in Elems(up[x]) : e.id = m
AtDown(x, m) == \E e \in Elems(down[x]) : e.id = m
InChain(p, s, m) == m \in Elems(chain[p][s])
Waits(m) == awaits[m] # None

Nowhere(m) ==
  /\ ~Waits(m)
  /\ \A x \in Endpoint : ~AtUp(x, m) /\ ~AtDown(x, m)
  /\ \A p \in Place, s \in Service : ~InChain(p, s, m)

(* It is in one place, as a message or as an answer to it. *)
OnePlace(m) ==
  /\ \A x, y \in Endpoint : \A e \in Elems(up[x]), f \in Elems(up[y]) :
       e.id = m /\ f.id = m => x = y /\ e = f
  /\ \A x, y \in Endpoint : \A e \in Elems(down[x]), f \in Elems(down[y]) :
       e.id = m /\ f.id = m => x = y /\ e = f
  /\ \A p, q \in Place, s, t \in Service :
       InChain(p, s, m) /\ InChain(q, t, m) => p = q /\ s = t
  /\ \A x, y \in Endpoint : ~(AtUp(x, m) /\ AtDown(y, m))
  /\ \A x \in Endpoint, p \in Place, s \in Service :
       InChain(p, s, m) => ~AtUp(x, m) /\ ~AtDown(x, m)
  /\ Waits(m) => \A x \in Endpoint : ~AtUp(x, m) /\ ~AtDown(x, m)
  /\ Waits(m) => \A p \in Place, s \in Service : ~InChain(p, s, m)

Singles ==
  /\ \A x \in Endpoint : OneEach(up[x]) /\ OneEach(down[x])
  /\ \A p \in Place, s \in Service : OneEach(chain[p][s])

(* The broker knows who asked, as long as it is there. *)
Tracked(m) == m \in Call /\ alive => origins[m] = home[m]

(* What comes to a host has not run. *)
Coming(m) == m \notin Registering /\ runs[m] = 0 /\ Tracked(m)

(* An answer says whether the method has run. *)
Truthful(type, m) ==
  /\ m \in Call
  /\ m \notin Registering /\ type \in {"return", "error"} => runs[m] = 1
  /\ m \notin Registering /\ type \notin {"return", "error"} => runs[m] = 0

Active(p, s, m) == running[p][s] /\ m = Head(chain[p][s])

UpSound(x, e) ==
  IF e.type = "message" THEN home[e.id] = x /\ runs[e.id] = 0
  ELSE e.id \notin Registering /\ Truthful(e.type, e.id) /\ Tracked(e.id)
DownSound(e) == IF e.type = "message" THEN Coming(e.id) ELSE Truthful(e.type, e.id)
ChainSound(p, s, m) ==
  /\ To[m] = s /\ m \notin Registering /\ Tracked(m)
  /\ runs[m] = IF Active(p, s, m) THEN 1 ELSE 0

(* What was not sent, and what was answered, is nowhere. *)
PhaseSound(m) ==
  /\ runs[m] \in {0, 1}
  /\ phase[m] = "new" => Nowhere(m) /\ runs[m] = 0
  /\ phase[m] \in Answers => Nowhere(m) /\ Truthful(phase[m], m)

Sound(m) ==
  /\ \A x \in Endpoint : \A e \in Elems(up[x]) : e.id = m => UpSound(x, e)
  /\ \A x \in Endpoint : \A e \in Elems(down[x]) : e.id = m => DownSound(e)
  /\ \A p \in Place, s \in Service : InChain(p, s, m) => ChainSound(p, s, m)
  /\ Waits(m) => Coming(m)
  /\ PhaseSound(m)

PlaceInv == Busy /\ Singles /\ \A m \in Msg : OnePlace(m) /\ Sound(m)

-----------------------------------------------------------------------------
(* Steps that leave a message where it is, or lose it *)

(* It is nowhere where it was not, and its call is at most given up. *)
Left(m) ==
  /\ \A x \in Endpoint : \A e \in Elems(up'[x]) : e.id = m => e \in Elems(up[x])
  /\ \A x \in Endpoint : \A e \in Elems(down'[x]) : e.id = m => e \in Elems(down[x])
  /\ \A p \in Place, s \in Service : m \in Elems(chain'[p][s]) =>
       /\ m \in Elems(chain[p][s])
       /\ (running'[p][s] /\ m = Head(chain'[p][s])) <=> Active(p, s, m)
  /\ awaits'[m] # None => awaits[m] # None
  /\ runs'[m] = runs[m] /\ home'[m] = home[m]
  /\ alive' => alive /\ origins'[m] = origins[m]
  /\ \/ phase'[m] = phase[m]
     \/ phase[m] = "pending" /\ phase'[m] \notin Answers \cup {"new"}

(* A message that a step leaves alone stays in one place, and what its place says stays true. *)
LEMMA LeftAlone ==
  ASSUME NEW m \in Msg, Left(m), OnePlace(m), Sound(m)
  PROVE  OnePlace(m)' /\ Sound(m)'
<1>1. /\ \A x \in Endpoint : AtUp(x, m)' => AtUp(x, m)
      /\ \A x \in Endpoint : AtDown(x, m)' => AtDown(x, m)
      /\ \A p \in Place, s \in Service : InChain(p, s, m)' => InChain(p, s, m)
      /\ Waits(m)' => Waits(m)
  BY DEF Left, AtUp, AtDown, InChain, Waits
<1>2. Nowhere(m) => Nowhere(m)'
  BY <1>1 DEF Nowhere
<1>3. OnePlace(m)'
  <2>1. \A x, y \in Endpoint : \A e \in Elems(up'[x]), f \in Elems(up'[y]) :
          e.id = m /\ f.id = m => x = y /\ e = f
    BY DEF Left, OnePlace
  <2>2. \A x, y \in Endpoint : \A e \in Elems(down'[x]), f \in Elems(down'[y]) :
          e.id = m /\ f.id = m => x = y /\ e = f
    BY DEF Left, OnePlace
  <2>3. /\ \A p, q \in Place, s, t \in Service :
             InChain(p, s, m)' /\ InChain(q, t, m)' => p = q /\ s = t
        /\ \A x, y \in Endpoint : ~(AtUp(x, m)' /\ AtDown(y, m)')
        /\ \A x \in Endpoint, p \in Place, s \in Service :
             InChain(p, s, m)' => ~AtUp(x, m)' /\ ~AtDown(x, m)'
        /\ Waits(m)' => \A x \in Endpoint : ~AtUp(x, m)' /\ ~AtDown(x, m)'
        /\ Waits(m)' => \A p \in Place, s \in Service : ~InChain(p, s, m)'
    BY <1>1 DEF OnePlace
  <2> QED
    BY <2>1, <2>2, <2>3 DEF OnePlace
<1>4. Tracked(m) => Tracked(m)'
  BY DEF Left, Tracked
<1>5. \A type : Truthful(type, m) => Truthful(type, m)'
  BY DEF Left, Truthful
<1>6. Coming(m) => Coming(m)'
  BY <1>4 DEF Left, Coming
<1>7. ASSUME NEW x \in Endpoint, NEW e \in Elems(up'[x]), e.id = m
      PROVE  UpSound(x, e)'
  <2>1. UpSound(x, e)
    BY <1>7 DEF Left, Sound
  <2> QED
    BY <1>4, <1>5, <1>7, <2>1 DEF UpSound, Left
<1>8. ASSUME NEW x \in Endpoint, NEW e \in Elems(down'[x]), e.id = m
      PROVE  DownSound(e)'
  <2>1. DownSound(e)
    BY <1>8 DEF Left, Sound
  <2> QED
    BY <1>5, <1>6, <1>8, <2>1 DEF DownSound
<1>9. ASSUME NEW p \in Place, NEW s \in Service, InChain(p, s, m)'
      PROVE  ChainSound(p, s, m)'
  <2>1. ChainSound(p, s, m)
    BY <1>1, <1>9 DEF Sound
  <2>2. Active(p, s, m)' <=> Active(p, s, m)
    BY <1>9 DEF Left, Active, InChain
  <2> QED
    BY <1>4, <2>1, <2>2 DEF ChainSound, Left
<1>10. PhaseSound(m)'
  <2>1. PhaseSound(m)
    BY DEF Sound
  <2> QED
    BY <1>2, <1>5, <2>1 DEF PhaseSound, Left
<1>11. Waits(m)' => Coming(m)'
  BY <1>1, <1>6 DEF Sound
<1>12. Sound(m)'
  BY <1>7, <1>8, <1>9, <1>10, <1>11 DEF Sound
<1> QED
  BY <1>3, <1>12

(* The step moves one message only. *)
LEMMA OneMoves ==
  ASSUME PlaceInv, NEW m \in Msg, \A n \in Msg : n # m => Left(n),
         Busy', Singles', OnePlace(m)', Sound(m)'
  PROVE  PlaceInv'
<1>1. \A n \in Msg : n # m => OnePlace(n)' /\ Sound(n)'
  BY LeftAlone DEF PlaceInv
<1>2. \A n \in Msg : OnePlace(n)' /\ Sound(n)'
  BY <1>1
<1> QED
  BY <1>2 DEF PlaceInv

(* The step moves none. *)
LEMMA NoneMoves ==
  ASSUME PlaceInv, \A n \in Msg : Left(n), Busy', Singles'
  PROVE  PlaceInv'
<1>1. \A n \in Msg : OnePlace(n)' /\ Sound(n)'
  BY LeftAlone DEF PlaceInv
<1> QED
  BY <1>1 DEF PlaceInv

(* Faults lose what is somewhere, all of a queue at once. *)
LEMMA QueuesDropped ==
  ASSUME PlaceInv,
         \A x \in Endpoint : up'[x] = up[x] \/ up'[x] = <<>>,
         \A x \in Endpoint : down'[x] = down[x] \/ down'[x] = <<>>,
         \A p \in Place, s \in Service :
            \/ chain'[p][s] = chain[p][s] /\ running'[p][s] = running[p][s]
            \/ chain'[p][s] = <<>> /\ ~running'[p][s],
         \A n \in Msg : awaits'[n] = awaits[n] \/ awaits'[n] = None,
         runs' = runs, home' = home,
         alive' => alive /\ origins' = origins,
         \A n \in Msg : \/ phase'[n] = phase[n]
                        \/ phase[n] = "pending" /\ phase'[n] \in {"timeout", "disposed", "gone"}
  PROVE  PlaceInv'
<1>1. Busy'
  BY DEF PlaceInv, Busy
<1>2. Singles'
  BY ElemsOfNone DEF PlaceInv, Singles
<1>3. ASSUME NEW n \in Msg
      PROVE  Left(n)
  <2>1. /\ \A x \in Endpoint : Elems(up'[x]) \subseteq Elems(up[x])
        /\ \A x \in Endpoint : Elems(down'[x]) \subseteq Elems(down[x])
    BY ElemsOfNone
  <2>2. ASSUME NEW p \in Place, NEW s \in Service, n \in Elems(chain'[p][s])
        PROVE  /\ n \in Elems(chain[p][s])
               /\ (running'[p][s] /\ n = Head(chain'[p][s])) <=> Active(p, s, n)
    <3>1. chain'[p][s] = chain[p][s] /\ running'[p][s] = running[p][s]
      BY <2>2, ElemsOfNone
    <3> QED
      BY <2>2, <3>1 DEF Active
  <2>3. \/ phase'[n] = phase[n]
        \/ phase[n] = "pending" /\ phase'[n] \notin Answers \cup {"new"}
    BY DEF Answers
  <2> QED
    BY <2>1, <2>2, <2>3 DEF Left
<1> QED
  BY <1>1, <1>2, <1>3, NoneMoves

(* Timers, failing launches, loading, crashes and dispose(). *)
LEMMA FaultPlaces ==
  ASSUME TypeOK, PlaceInv,
         \/ \E m \in Msg : Timeout(m) \/ LaunchFail(m)
         \/ \E s \in Service : LocalLoaded(s)
         \/ \E h \in Host : Crash(h)
         \/ Dispose
         \/ UNCHANGED vars
  PROVE  PlaceInv'
<1>1. ASSUME NEW m \in Msg, Timeout(m) PROVE PlaceInv'
  <2>1. \A n \in Msg : \/ phase'[n] = phase[n]
                       \/ phase[n] = "pending" /\ phase'[n] \in {"timeout", "disposed", "gone"}
    BY <1>1 DEF Timeout, TypeOK
  <2>2. UNCHANGED <<home, up, down, origins, awaits, chain, running, alive, runs>>
    BY <1>1 DEF Timeout, channels, routingVars, hostVars, history
  <2> QED
    BY <2>1, <2>2, QueuesDropped
<1>2. ASSUME NEW m \in Msg, LaunchFail(m) PROVE PlaceInv'
  <2>1. \A n \in Msg : awaits'[n] = awaits[n] \/ awaits'[n] = None
    BY <1>2 DEF LaunchFail, TypeOK
  <2>2. UNCHANGED <<phase, home, up, down, origins, chain, running, alive, runs>>
    BY <1>2 DEF LaunchFail, clientVars, channels, history
  <2> QED
    BY <2>1, <2>2, QueuesDropped
<1>3. ASSUME NEW s \in Service, LocalLoaded(s) PROVE PlaceInv'
  <2>1. UNCHANGED <<phase, home, up, down, origins, awaits, chain, running, alive, runs>>
    BY <1>3 DEF LocalLoaded, clientVars, channels, routingVars, history
  <2> QED
    BY <2>1, QueuesDropped
<1>4. ASSUME NEW h \in Host, Crash(h) PROVE PlaceInv'
  <2>1. \A n \in Msg : \/ phase'[n] = phase[n]
                       \/ phase[n] = "pending" /\ phase'[n] \in {"timeout", "disposed", "gone"}
    BY <1>4 DEF Crash
  <2>2. UNCHANGED <<home, up, origins, awaits, alive, runs>>
    BY <1>4 DEF Crash, routingVars, history
  <2>3. \A x \in Endpoint : down'[x] = down[x] \/ down'[x] = <<>>
    BY <1>4 DEF Crash, TypeOK
  <2>4. \A p \in Place, s \in Service :
            \/ chain'[p][s] = chain[p][s] /\ running'[p][s] = running[p][s]
            \/ chain'[p][s] = <<>> /\ ~running'[p][s]
    BY <1>4 DEF Crash, TypeOK
  <2> QED
    BY <2>1, <2>2, <2>3, <2>4, QueuesDropped
<1>5. ASSUME Dispose PROVE PlaceInv'
  <2>1. \A n \in Msg : \/ phase'[n] = phase[n]
                       \/ phase[n] = "pending" /\ phase'[n] \in {"timeout", "disposed", "gone"}
    BY <1>5 DEF Dispose
  <2>2. /\ UNCHANGED <<home, runs>> /\ ~alive'
        /\ \A x \in Endpoint : up'[x] = up[x] \/ up'[x] = <<>>
    BY <1>5 DEF Dispose, history
  <2>3. CASE InProcess
    <3>1. /\ UNCHANGED <<awaits, chain, running>>
          /\ \A x \in Endpoint : down'[x] = down[x] \/ down'[x] = <<>>
      BY <1>5, <2>3 DEF Dispose, TypeOK
    <3> QED
      BY <2>1, <2>2, <3>1, QueuesDropped
  <2>4. CASE ~InProcess
    <3>1. /\ down' = [x \in Endpoint |-> <<>>]
          /\ awaits' = [m \in Msg |-> None]
          /\ chain' = [p \in Place |-> [s \in Service |-> <<>>]]
          /\ running' = [p \in Place |-> [s \in Service |-> FALSE]]
      BY <1>5, <2>4 DEF Dispose
    <3> QED
      BY <2>1, <2>2, <3>1, QueuesDropped
  <2> QED
    BY <2>3, <2>4
<1>6. CASE UNCHANGED vars
  <2>1. UNCHANGED <<phase, home, up, down, origins, awaits, chain, running, alive, runs>>
    BY <1>6 DEF vars, clientVars, channels, routingVars, hostVars, history
  <2> QED
    BY <2>1, QueuesDropped
<1> QED
  BY <1>1, <1>2, <1>3, <1>4, <1>5, <1>6

-----------------------------------------------------------------------------
(* Where a step leaves the message it moves *)

NotUp(m) == \A x \in Endpoint : \A e \in Elems(up'[x]) : e.id # m
NotDown(m) == \A x \in Endpoint : \A e \in Elems(down'[x]) : e.id # m
NotWithHost(m) == \A p \in Place, s \in Service : m \notin Elems(chain'[p][s])
NotWaiting(m) == awaits'[m] = None
NowUp(m, y, a) == \A x \in Endpoint : \A e \in Elems(up'[x]) : e.id = m => x = y /\ e = a
NowDown(m, y, a) == \A x \in Endpoint : \A e \in Elems(down'[x]) : e.id = m => x = y /\ e = a
NowWithHost(m, p, s) == \A q \in Place, t \in Service : m \in Elems(chain'[q][t]) => q = p /\ t = s

(* What is in one spot at most is in one place. *)
LEMMA OneSpot ==
  ASSUME NEW m \in Msg, NEW y, NEW a,
         \/ NowUp(m, y, a) /\ NotDown(m) /\ NotWithHost(m) /\ NotWaiting(m)
         \/ NotUp(m) /\ NowDown(m, y, a) /\ NotWithHost(m) /\ NotWaiting(m)
         \/ NotUp(m) /\ NotDown(m) /\ NowWithHost(m, y, a) /\ NotWaiting(m)
         \/ NotUp(m) /\ NotDown(m) /\ NotWithHost(m)
  PROVE  OnePlace(m)'
<1>1. /\ NotUp(m) => \A x \in Endpoint : ~AtUp(x, m)'
      /\ NotDown(m) => \A x \in Endpoint : ~AtDown(x, m)'
      /\ NotWithHost(m) => \A p \in Place, s \in Service : ~InChain(p, s, m)'
      /\ NotWaiting(m) => ~Waits(m)'
  BY DEF NotUp, NotDown, NotWithHost, NotWaiting, AtUp, AtDown, InChain, Waits
<1>2. CASE NowUp(m, y, a) /\ NotDown(m) /\ NotWithHost(m) /\ NotWaiting(m)
  BY <1>1, <1>2 DEF OnePlace, NowUp, NotDown
<1>3. CASE NotUp(m) /\ NowDown(m, y, a) /\ NotWithHost(m) /\ NotWaiting(m)
  BY <1>1, <1>3 DEF OnePlace, NowDown, NotUp
<1>4. CASE NotUp(m) /\ NotDown(m) /\ NowWithHost(m, y, a) /\ NotWaiting(m)
  BY <1>1, <1>4 DEF OnePlace, NowWithHost, NotUp, NotDown, InChain
<1>5. CASE NotUp(m) /\ NotDown(m) /\ NotWithHost(m)
  BY <1>1, <1>5 DEF OnePlace, NotUp, NotDown
<1> QED
  BY <1>2, <1>3, <1>4, <1>5

(* Channels without the message m, and the same with an envelope of it at y. *)
Without(Q, m) == \A x \in Endpoint : OneEach(Q[x]) /\ (\A e \in Elems(Q[x]) : e.id # m)
Gains(Q, R, y, a) == \A x \in Endpoint :
  /\ OneEach(R[x])
  /\ \A e \in Elems(R[x]) : e \in Elems(Q[x]) \/ (x = y /\ e = a)

Part(R, Q) == \A x \in Endpoint : Elems(R[x]) \subseteq Elems(Q[x])

(* A channel that takes an envelope of a message it did not hold gains this one only. *)
LEMMA ChannelGrows ==
  ASSUME NEW Q \in [Endpoint -> Seq(Envelope)], NEW y \in Endpoint, NEW a \in Envelope,
         Without(Q, a.id), NEW R, R = Q \/ R = [Q EXCEPT ![y] = Append(@, a)]
  PROVE  Gains(Q, R, y, a)
<1>1. Q[y] \in Seq(Envelope) /\ a \notin Elems(Q[y]) /\ OneEach(Q[y])
  BY DEF Without
<1>2. Elems(Append(Q[y], a)) = Elems(Q[y]) \cup {a} /\ OneEach(Append(Q[y], a))
  BY <1>1, ElemsOfQueue, OneEachOfQueue
<1>3. \A x \in Endpoint : R[x] = Q[x] \/ (x = y /\ R[x] = Append(Q[y], a))
  OBVIOUS
<1> QED
  BY <1>2, <1>3 DEF Without, Gains

(* A message comes to a host, which holds it nowhere: it waits its turn. *)
LEMMA ChainGrows ==
  ASSUME TypeOK, Busy, Singles, NEW m \in Msg, NEW p \in Place,
         \A q \in Place, t \in Service : ~InChain(q, t, m),
         chain' = [chain EXCEPT ![p][To[m]] = Append(@, m)], running' = running
  PROVE  /\ Busy'
         /\ \A q \in Place, t \in Service : OneEach(chain'[q][t])
         /\ NowWithHost(m, p, To[m])
         /\ ~Active(p, To[m], m)'
         /\ \A q \in Place, t \in Service, n \in Msg :
              n # m /\ n \in Elems(chain'[q][t]) =>
                /\ n \in Elems(chain[q][t])
                /\ (running'[q][t] /\ n = Head(chain'[q][t])) <=> Active(q, t, n)
<1> DEFINE s == To[m]
           c == chain[p][s]
<1>1. s \in Service /\ c \in Seq(Msg) /\ OneEach(c) /\ m \notin Elems(c)
  BY DEF TypeOK, Singles, InChain
<1>2. \A q \in Place, t \in Service :
        chain'[q][t] = IF q = p /\ t = s THEN Append(c, m) ELSE chain[q][t]
  BY <1>1 DEF TypeOK
<1> HIDE DEF s
<1>3. /\ Elems(Append(c, m)) = Elems(c) \cup {m} /\ OneEach(Append(c, m))
      /\ Append(c, m) # <<>>
      /\ c # <<>> => Head(Append(c, m)) = Head(c) /\ Head(c) \in Elems(c)
  <2>1. Elems(Append(c, m)) = Elems(c) \cup {m} /\ OneEach(Append(c, m))
    BY <1>1, ElemsOfQueue, OneEachOfQueue
  <2>2. c # <<>> => Head(c) \in Elems(c)
    BY <1>1, ElemsOfQueue
  <2>3. Append(c, m) # <<>> /\ (c # <<>> => Head(Append(c, m)) = Head(c))
    BY <1>1
  <2> QED
    BY <2>1, <2>2, <2>3
<1>4. c = <<>> => Elems(c) = {} /\ ~running[p][s]
  BY <1>1, ElemsOfNone DEF Busy
<1> HIDE DEF c
<1>5. Busy'
  BY <1>2, <1>3 DEF Busy
<1>6. \A q \in Place, t \in Service : OneEach(chain'[q][t])
  BY <1>2, <1>3 DEF Singles
<1>7. NowWithHost(m, p, s)
  BY <1>2 DEF NowWithHost, InChain
<1>8. ~Active(p, s, m)'
  <2> SUFFICES ASSUME running'[p][s], m = Head(chain'[p][s]) PROVE FALSE
    BY DEF Active
  <2>1. running[p][s] /\ c # <<>>
    BY <1>4
  <2>2. m = Head(c)
    BY <1>1, <1>2, <1>3, <2>1
  <2> QED
    BY <1>1, <1>3, <2>1, <2>2
<1>9. ASSUME NEW q \in Place, NEW t \in Service, NEW n \in Msg, n # m, n \in Elems(chain'[q][t])
      PROVE  /\ n \in Elems(chain[q][t])
             /\ (running'[q][t] /\ n = Head(chain'[q][t])) <=> Active(q, t, n)
  <2>1. CASE q = p /\ t = s
    <3>1. n \in Elems(c)
      BY <1>2, <1>3, <1>9, <2>1
    <3>2. c # <<>>
      BY <1>4, <3>1
    <3> QED
      BY <1>2, <1>3, <2>1, <3>1, <3>2 DEF Active, c
  <2>2. CASE ~(q = p /\ t = s)
    BY <1>2, <1>9, <2>2 DEF Active
  <2> QED
    BY <2>1, <2>2
<1> QED
  BY <1>5, <1>6, <1>7, <1>8, <1>9 DEF s

(* What the broker or a client takes from a channel is nowhere else. *)
LEMMA TakenUp ==
  ASSUME TypeOK, PlaceInv, NEW x \in Endpoint, up[x] # <<>>, NEW e \in Envelope, e = Head(up[x])
  PROVE  /\ Without([up EXCEPT ![x] = Tail(@)], e.id)
         /\ Part([up EXCEPT ![x] = Tail(@)], up)
         /\ Without(down, e.id)
         /\ \A p \in Place, s \in Service : ~InChain(p, s, e.id)
         /\ awaits[e.id] = None
         /\ UpSound(x, e) /\ phase[e.id] \notin Answers \cup {"new"} /\ runs[e.id] \in {0, 1}
<1>1. PICK m \in Msg : m = e.id
  BY DEF Envelope
<1>2. up[x] \in Seq(Envelope) /\ OneEach(up[x])
  BY DEF TypeOK, PlaceInv, Singles
<1>3. /\ e \in Elems(up[x]) /\ Elems(Tail(up[x])) \subseteq Elems(up[x])
      /\ e \notin Elems(Tail(up[x])) /\ OneEach(Tail(up[x]))
  BY <1>2, ElemsOfQueue, OneEachOfQueue
<1>4. OnePlace(m) /\ Sound(m) /\ AtUp(x, m)
  BY <1>1, <1>3 DEF PlaceInv, AtUp
<1>5. \A y \in Endpoint : [up EXCEPT ![x] = Tail(@)][y] = IF y = x THEN Tail(up[x]) ELSE up[y]
  BY DEF TypeOK
<1>6. ASSUME NEW y \in Endpoint
      PROVE  /\ OneEach([up EXCEPT ![x] = Tail(@)][y])
             /\ \A f \in Elems([up EXCEPT ![x] = Tail(@)][y]) : f \in Elems(up[y]) /\ f.id # m
  <2>1. \A f \in Elems(up[y]) : f.id = m => x = y /\ e = f
    BY <1>1, <1>3, <1>4 DEF OnePlace
  <2> QED
    BY <1>3, <1>5, <2>1 DEF PlaceInv, Singles
<1>7. /\ \A y \in Endpoint : \A f \in Elems(down[y]) : f.id # m
      /\ \A p \in Place, s \in Service : ~InChain(p, s, m)
      /\ awaits[m] = None
  BY <1>4 DEF OnePlace, AtDown, Waits
<1>8. UpSound(x, e) /\ phase[m] \notin Answers \cup {"new"} /\ runs[m] \in {0, 1}
  <2>1. ~Nowhere(m)
    BY <1>4 DEF Nowhere
  <2> QED
    BY <1>1, <1>3, <1>4, <2>1 DEF Sound, PhaseSound
<1> QED
  BY <1>1, <1>6, <1>7, <1>8 DEF Without, Part, PlaceInv, Singles

(* An envelope that arrives at an endpoint was the only trace of its message. *)
LEMMA TakenDown ==
  ASSUME TypeOK, PlaceInv, NEW x \in Endpoint, down[x] # <<>>, NEW e \in Envelope, e = Head(down[x])
  PROVE  /\ Without([down EXCEPT ![x] = Tail(@)], e.id)
         /\ Part([down EXCEPT ![x] = Tail(@)], down)
         /\ Without(up, e.id)
         /\ \A p \in Place, s \in Service : ~InChain(p, s, e.id)
         /\ awaits[e.id] = None
         /\ DownSound(e) /\ phase[e.id] \notin Answers \cup {"new"} /\ runs[e.id] \in {0, 1}
<1>1. PICK m \in Msg : m = e.id
  BY DEF Envelope
<1>2. down[x] \in Seq(Envelope) /\ OneEach(down[x])
  BY DEF TypeOK, PlaceInv, Singles
<1>3. /\ e \in Elems(down[x]) /\ Elems(Tail(down[x])) \subseteq Elems(down[x])
      /\ e \notin Elems(Tail(down[x])) /\ OneEach(Tail(down[x]))
  BY <1>2, ElemsOfQueue, OneEachOfQueue
<1>4. OnePlace(m) /\ Sound(m) /\ AtDown(x, m)
  BY <1>1, <1>3 DEF PlaceInv, AtDown
<1>5. \A y \in Endpoint : [down EXCEPT ![x] = Tail(@)][y] = IF y = x THEN Tail(down[x]) ELSE down[y]
  BY DEF TypeOK
<1>6. ASSUME NEW y \in Endpoint
      PROVE  /\ OneEach([down EXCEPT ![x] = Tail(@)][y])
             /\ \A f \in Elems([down EXCEPT ![x] = Tail(@)][y]) : f \in Elems(down[y]) /\ f.id # m
  <2>1. \A f \in Elems(down[y]) : f.id = m => x = y /\ e = f
    BY <1>1, <1>3, <1>4 DEF OnePlace
  <2> QED
    BY <1>3, <1>5, <2>1 DEF PlaceInv, Singles
<1>7. /\ \A y \in Endpoint : \A f \in Elems(up[y]) : f.id # m
      /\ \A p \in Place, s \in Service : ~InChain(p, s, m)
      /\ awaits[m] = None
  BY <1>4 DEF OnePlace, AtUp, Waits
<1>8. DownSound(e) /\ phase[m] \notin Answers \cup {"new"} /\ runs[m] \in {0, 1}
  <2>1. ~Nowhere(m)
    BY <1>4 DEF Nowhere
  <2> QED
    BY <1>1, <1>3, <1>4, <2>1 DEF Sound, PhaseSound
<1> QED
  BY <1>1, <1>6, <1>7, <1>8 DEF Without, Part, PlaceInv, Singles

-----------------------------------------------------------------------------
(* Steps that move a message *)

(* The last statements of routeCall(): a message that has left its channel or
   its wait comes to one host, or is answered, or is lost. *)
LEMMA DeliverPlaces ==
  ASSUME TypeOK, PlaceInv, NEW m \in Msg, NEW h \in Place,
         NEW pending \in [Endpoint -> Seq(Envelope)], Deliver(m, h, pending),
         Without(pending, m), Part(pending, up), Without(down, m),
         \A p \in Place, s \in Service : ~InChain(p, s, m),
         \A n \in Msg : n # m => awaits'[n] = awaits[n] /\ origins'[n] = origins[n],
         awaits'[m] = None, m \in Call /\ alive => origins'[m] = home[m],
         m \notin Registering, runs[m] = 0, phase[m] \notin Answers \cup {"new"},
         UNCHANGED <<phase, home, running, alive, runs>>
  PROVE  PlaceInv'
<1>1. Tracked(m)' /\ Coming(m)' /\ PhaseSound(m)' /\ NotWaiting(m) /\ ~Waits(m)'
  BY DEF Tracked, Coming, PhaseSound, NotWaiting, Waits
<1>2. Busy /\ Singles
  BY DEF PlaceInv
<1>3. Local \in Endpoint /\ Local \in Place /\ h \in Endpoint
  BY DEF Endpoint, Place
<1>4. CASE h = Local /\ local[To[m]] = "active"
  <2>1. /\ chain' = [chain EXCEPT ![Local][To[m]] = Append(@, m)]
        /\ up' = pending /\ down' = down
    BY <1>4 DEF Deliver, Place
  <2>2. /\ Busy'
        /\ \A q \in Place, t \in Service : OneEach(chain'[q][t])
        /\ NowWithHost(m, Local, To[m])
        /\ ~Active(Local, To[m], m)'
        /\ \A q \in Place, t \in Service, n \in Msg :
              n # m /\ n \in Elems(chain'[q][t]) =>
                /\ n \in Elems(chain[q][t])
                /\ (running'[q][t] /\ n = Head(chain'[q][t])) <=> Active(q, t, n)
    BY <1>2, <1>3, <2>1, ChainGrows
  <2>3. NotUp(m) /\ NotDown(m)
    BY <2>1 DEF Without, NotUp, NotDown
  <2>4. Singles'
    BY <1>2, <2>1, <2>2 DEF Without, Singles
  <2>5. OnePlace(m)'
    BY <1>1, <2>2, <2>3, OneSpot
  <2>6. \A p \in Place, s \in Service : InChain(p, s, m)' => ChainSound(p, s, m)'
    BY <1>1, <2>2 DEF NowWithHost, InChain, ChainSound
  <2>7. Sound(m)'
    BY <1>1, <2>3, <2>6 DEF Sound, NotUp, NotDown
  <2>8. \A n \in Msg : n # m => Left(n)
    BY <2>1, <2>2 DEF Left, Part
  <2> QED
    BY <2>2, <2>4, <2>5, <2>7, <2>8, OneMoves
<1>5. CASE h = Local /\ local[To[m]] # "active"
  <2> DEFINE a == Env("notRegistered", m)
  <2>1. a \in Envelope /\ a.type = "notRegistered" /\ a.id = m
    BY EnvType DEF Answers
  <2>2. /\ up' = pending \/ (m \in Call /\ up' = [pending EXCEPT ![Local] = Append(@, a)])
        /\ chain' = chain /\ down' = down
    BY <1>5 DEF Deliver, Place
  <2> HIDE DEF a
  <2>3. Gains(pending, up', Local, a)
    <3>1. Without(pending, a.id)
      BY <2>1 DEF Without
    <3>2. up' = pending \/ up' = [pending EXCEPT ![Local] = Append(@, a)]
      BY <2>2
    <3> QED
      BY <1>3, <2>1, <3>1, <3>2, ChannelGrows
  <2>4. NowUp(m, Local, a) /\ NotDown(m) /\ NotWithHost(m)
    BY <2>2, <2>3 DEF Without, Gains, NowUp, NotDown, NotWithHost, InChain
  <2>5. Busy' /\ Singles'
    BY <1>2, <2>2, <2>3 DEF Without, Gains, Busy, Singles
  <2>6. OnePlace(m)'
    BY <1>1, <2>4, OneSpot
  <2>7. ASSUME NEW x \in Endpoint, NEW e \in Elems(up'[x]), e.id = m
        PROVE  UpSound(x, e)'
    <3>1. e = a
      BY <2>4, <2>7 DEF NowUp
    <3>2. m \in Call
      <4>1. up' # pending
        BY <2>7 DEF Without
      <4> QED
        BY <2>2, <4>1
    <3>3. Truthful("notRegistered", m)'
      BY <3>2 DEF Truthful
    <3> QED
      BY <1>1, <2>1, <3>1, <3>3 DEF UpSound
  <2>8. Sound(m)'
    BY <1>1, <2>4, <2>7 DEF Sound, NotDown, NotWithHost, InChain
  <2>9. \A n \in Msg : n # m => Left(n)
    BY <2>1, <2>2, <2>3 DEF Gains, Part, Left, Active
  <2> QED
    BY <2>5, <2>6, <2>8, <2>9, OneMoves
<1>6. CASE h \in Host
  <2> DEFINE a == Env("message", m)
  <2>1. a \in Envelope /\ a.type = "message" /\ a.id = m
    BY EnvType
  <2>2. /\ down' = down \/ down' = [down EXCEPT ![h] = Append(@, a)]
        /\ chain' = chain /\ up' = pending
    BY <1>6 DEF Deliver, Place
  <2> HIDE DEF a
  <2>3. Gains(down, down', h, a)
    <3>1. Without(down, a.id)
      BY <1>2, <2>1 DEF Without, Singles
    <3>2. down \in [Endpoint -> Seq(Envelope)]
      BY DEF TypeOK
    <3> QED
      BY <1>3, <2>1, <2>2, <3>1, <3>2, ChannelGrows
  <2>4. NowDown(m, h, a) /\ NotUp(m) /\ NotWithHost(m)
    BY <2>2, <2>3 DEF Without, Gains, NowDown, NotUp, NotWithHost, InChain
  <2>5. Busy' /\ Singles'
    BY <1>2, <2>2, <2>3 DEF Without, Gains, Busy, Singles
  <2>6. OnePlace(m)'
    BY <1>1, <2>4, OneSpot
  <2>7. \A x \in Endpoint : \A e \in Elems(down'[x]) : e.id = m => DownSound(e)'
    BY <1>1, <2>1, <2>4 DEF NowDown, DownSound
  <2>8. Sound(m)'
    BY <1>1, <2>4, <2>7 DEF Sound, NotUp, NotWithHost, InChain
  <2>9. \A n \in Msg : n # m => Left(n)
    BY <2>1, <2>2, <2>3 DEF Gains, Part, Left, Active
  <2> QED
    BY <2>5, <2>6, <2>8, <2>9, OneMoves
<1> QED
  BY <1>4, <1>5, <1>6 DEF Place

(* A message is sent by one endpoint, once. *)
LEMMA SendPlaces ==
  ASSUME TypeOK, PlaceInv, NEW m \in Msg, Send(m)
  PROVE  PlaceInv'
<1>1. PICK x \in Endpoint : /\ home' = [home EXCEPT ![m] = x]
                            /\ up' = Post(x, Env("message", m))
  BY DEF Send
<1>2. /\ phase[m] = "new"
      /\ phase' = [phase EXCEPT ![m] = IF m \in Call THEN "pending" ELSE "sent"]
      /\ UNCHANGED <<down, origins, awaits, chain, running, alive, runs>>
  BY DEF Send, routingVars, hostVars
<1>3. Nowhere(m) /\ runs[m] = 0
  BY <1>2 DEF PlaceInv, Sound, PhaseSound
<1> DEFINE a == Env("message", m)
<1>4. a \in Envelope /\ a.type = "message" /\ a.id = m
  BY EnvType
<1>5. up' = up \/ up' = [up EXCEPT ![x] = Append(@, a)]
  BY <1>1 DEF Post
<1> HIDE DEF a
<1>6. Gains(up, up', x, a)
  <2>1. Without(up, a.id)
    BY <1>3, <1>4 DEF Without, PlaceInv, Singles, Nowhere, AtUp
  <2>2. up \in [Endpoint -> Seq(Envelope)]
    BY DEF TypeOK
  <2> QED
    BY <1>4, <1>5, <2>1, <2>2, ChannelGrows
<1>7. NowUp(m, x, a) /\ NotDown(m) /\ NotWithHost(m) /\ NotWaiting(m) /\ ~Waits(m)'
  BY <1>2, <1>3, <1>6 DEF Gains, NowUp, NotDown, NotWithHost, NotWaiting, Waits, Nowhere, AtUp, AtDown, InChain
<1>8. Busy' /\ Singles'
  BY <1>2, <1>6 DEF Gains, PlaceInv, Busy, Singles
<1>9. OnePlace(m)'
  BY <1>7, OneSpot
<1>10. PhaseSound(m)'
  BY <1>2, <1>3 DEF PhaseSound, TypeOK, Answers
<1>11. \A y \in Endpoint : \A e \in Elems(up'[y]) : e.id = m => UpSound(y, e)'
  BY <1>1, <1>2, <1>3, <1>4, <1>7 DEF NowUp, UpSound, TypeOK
<1>12. Sound(m)'
  BY <1>7, <1>10, <1>11 DEF Sound, NotDown, NotWithHost, InChain
<1>13. \A n \in Msg : n # m => Left(n)
  BY <1>1, <1>2, <1>4, <1>6 DEF Gains, Left, Active, TypeOK
<1> QED
  BY <1>8, <1>9, <1>12, <1>13, OneMoves

(* An answer, or nothing, goes down for what the broker has taken. *)
Replies(y, a, m) ==
  \/ down' = down
  \/ /\ a.id = m /\ a.type # "message" /\ Truthful(a.type, m)
     /\ down' = [down EXCEPT ![y] = Append(@, a)]

(* The broker may put an answer in the place of the envelope it has taken. *)
LEMMA AnsweredPlaces ==
  ASSUME TypeOK, PlaceInv, NEW x \in Endpoint, up[x] # <<>>, NEW e \in Envelope, e = Head(up[x]),
         up' = [up EXCEPT ![x] = Tail(@)], NEW y \in Endpoint, NEW a \in Envelope,
         a.id = e.id, Replies(y, a, e.id),
         \A n \in Msg : n # e.id => origins'[n] = origins[n],
         UNCHANGED <<phase, home, awaits, chain, running, alive, runs>>
  PROVE  PlaceInv'
<1>1. PICK m \in Msg : m = e.id
  BY DEF Envelope
<1>2. /\ Without(up', m) /\ Part(up', up) /\ Without(down, m)
      /\ \A p \in Place, s \in Service : ~InChain(p, s, m)
      /\ awaits[m] = None
      /\ phase[m] \notin Answers \cup {"new"} /\ runs[m] \in {0, 1}
  BY <1>1, TakenUp
<1>3. Gains(down, down', y, a)
  <2>1. down \in [Endpoint -> Seq(Envelope)] /\ Without(down, a.id)
    BY <1>1, <1>2 DEF TypeOK
  <2> QED
    BY <1>1, <2>1, ChannelGrows DEF Replies
<1>4. NowDown(m, y, a) /\ NotUp(m) /\ NotWithHost(m) /\ NotWaiting(m) /\ ~Waits(m)'
  BY <1>1, <1>2, <1>3 DEF Without, Gains, NowDown, NotUp, NotWithHost, NotWaiting, Waits, InChain
<1>5. Busy' /\ Singles'
  BY <1>2, <1>3 DEF Without, Gains, PlaceInv, Busy, Singles
<1>6. OnePlace(m)'
  BY <1>4, OneSpot
<1>7. ASSUME NEW z \in Endpoint, NEW f \in Elems(down'[z]), f.id = m
      PROVE  DownSound(f)'
  <2>1. f = a
    BY <1>4, <1>7 DEF NowDown
  <2>2. down' # down
    BY <1>2, <1>7 DEF Without
  <2>3. Truthful(a.type, m) /\ a.type # "message"
    BY <1>1, <2>2 DEF Replies
  <2>4. Truthful(a.type, m)'
    BY <2>3 DEF Truthful
  <2> QED
    BY <1>1, <2>1, <2>3, <2>4 DEF DownSound
<1>8. PhaseSound(m)'
  BY <1>2 DEF PhaseSound
<1>9. Sound(m)'
  BY <1>4, <1>7, <1>8 DEF Sound, NotUp, NotWithHost, InChain
<1>10. ASSUME NEW n \in Msg, n # m
       PROVE  Left(n)
  <2>1. \A z \in Endpoint : \A f \in Elems(down'[z]) : f.id = n => f \in Elems(down[z])
    BY <1>1, <1>3, <1>10 DEF Gains
  <2>2. \A z \in Endpoint : \A f \in Elems(up'[z]) : f \in Elems(up[z])
    BY <1>2 DEF Part
  <2> QED
    BY <1>1, <1>10, <2>1, <2>2 DEF Left, Active
<1> QED
  BY <1>5, <1>6, <1>9, <1>10, OneMoves

(* What the broker takes it answers, registers, hands on, or lets wait. *)
LEMMA BrokerReceivePlaces ==
  ASSUME TypeOK, PlaceInv, NEW x \in Endpoint, BrokerReceive(x)
  PROVE  PlaceInv'
<1>1. PICK e \in Envelope : e = Head(up[x])
  BY TakenType DEF BrokerReceive
<1>2. PICK m \in Msg : m = e.id
  BY DEF Envelope
<1>3. /\ up[x] # <<>> /\ To[m] \in Service /\ e.type \in Answers \cup {"message"}
      /\ \/ RouteAnswer(x, e) \/ RouteRegistration(x, e) \/ RouteUnregistered(x, e)
         \/ RouteToHost(x, e) \/ RouteCold(x, e)
  BY <1>1 DEF BrokerReceive, Envelope
<1>4. UpSound(x, e)
  BY <1>1, <1>3, TakenUp
<1>5. CASE RouteAnswer(x, e)
  <2>1. /\ e.type # "message" /\ Truthful(e.type, m)
    BY <1>2, <1>4, <1>5 DEF RouteAnswer, UpSound, Answers
  <2>2. /\ up' = [up EXCEPT ![x] = Tail(@)]
        /\ \A n \in Msg : n # m => origins'[n] = origins[n]
        /\ UNCHANGED <<phase, home, awaits, chain, running, alive, runs>>
    BY <1>2, <1>5 DEF RouteAnswer, TypeOK, clientVars, hostVars, history
  <2>3. PICK y \in Endpoint : down' = down \/ down' = [down EXCEPT ![y] = Append(@, e)]
    BY <1>2, <1>5 DEF RouteAnswer, TypeOK
  <2>4. Replies(y, e, e.id)
    BY <1>2, <2>1, <2>3 DEF Replies
  <2>5. \A n \in Msg : n # e.id => origins'[n] = origins[n]
    BY <1>2, <2>2
  <2> QED
    BY <1>1, <1>3, <2>2, <2>4, <2>5, AnsweredPlaces
<1>6. CASE RouteRegistration(x, e)
  <2> DEFINE a == Env("return", m)
  <2>1. a \in Envelope /\ a.type = "return" /\ a.id = m
    BY EnvType DEF Answers
  <2>2. /\ m \in Registering
        /\ up' = [up EXCEPT ![x] = Tail(@)]
        /\ down' = [down EXCEPT ![x] = Append(@, a)]
        /\ UNCHANGED <<phase, home, origins, awaits, chain, running, alive, runs>>
    BY <1>2, <1>6 DEF RouteRegistration, clientVars, hostVars, history
  <2>3. Truthful("return", m)
    BY <2>2 DEF Truthful
  <2> HIDE DEF a
  <2>4. /\ Replies(x, a, e.id) /\ a.id = e.id
        /\ \A n \in Msg : n # e.id => origins'[n] = origins[n]
    BY <1>2, <2>1, <2>2, <2>3 DEF Replies
  <2> QED
    BY <1>1, <1>3, <2>1, <2>2, <2>4, AnsweredPlaces
<1>7. CASE RouteUnregistered(x, e)
  <2> DEFINE a == Env("notRegistered", m)
  <2>1. a \in Envelope /\ a.type = "notRegistered" /\ a.id = m
    BY EnvType DEF Answers
  <2>2. /\ e.type = "message" /\ up' = [up EXCEPT ![x] = Tail(@)]
        /\ down' = down \/ (m \in Call /\ down' = [down EXCEPT ![x] = Append(@, a)])
        /\ UNCHANGED <<phase, home, origins, awaits, chain, running, alive, runs>>
    BY <1>2, <1>7 DEF RouteUnregistered, IsMessage, clientVars, routingVars, hostVars, history
  <2>3. m \in Call => Truthful("notRegistered", m)
    BY <1>2, <1>4, <2>2 DEF Truthful, UpSound
  <2> HIDE DEF a
  <2>4. /\ Replies(x, a, e.id) /\ a.id = e.id
        /\ \A n \in Msg : n # e.id => origins'[n] = origins[n]
    BY <1>2, <2>1, <2>2, <2>3 DEF Replies
  <2> QED
    BY <1>1, <1>3, <2>1, <2>2, <2>4, AnsweredPlaces
<1>8. CASE RouteToHost(x, e)
  <2>1. PICK h \in Place : h = serviceToHost[To[m]]
    BY <1>2, <1>3, <1>8 DEF RouteToHost, TypeOK
  <2>2. PICK rest \in [Endpoint -> Seq(Envelope)] : rest = [up EXCEPT ![x] = Tail(@)]
    BY <1>3, TakenType
  <2>3. /\ Deliver(m, h, rest) /\ m \notin Registering /\ e.type = "message"
        /\ origins' = IF m \in Call THEN [origins EXCEPT ![m] = x] ELSE origins
        /\ UNCHANGED <<phase, home, awaits, running, alive, runs>>
    BY <1>2, <1>8, <2>1, <2>2 DEF RouteToHost, Track, IsMessage, clientVars
  <2>4. home[m] = x /\ runs[m] = 0
    BY <1>2, <1>4, <2>3 DEF UpSound
  <2>5. /\ Without(rest, m) /\ Part(rest, up) /\ Without(down, m)
        /\ \A p \in Place, s \in Service : ~InChain(p, s, m)
        /\ awaits[m] = None
        /\ phase[m] \notin Answers \cup {"new"}
    BY <1>1, <1>2, <1>3, <2>2, TakenUp
  <2>6. \A n \in Msg : n # m => awaits'[n] = awaits[n] /\ origins'[n] = origins[n]
    BY <2>3 DEF TypeOK
  <2>7. m \in Call /\ alive => origins'[m] = home[m]
    BY <2>3, <2>4 DEF TypeOK
  <2> QED
    BY <2>3, <2>4, <2>5, <2>6, <2>7, DeliverPlaces
<1>9. CASE RouteCold(x, e)
  <2>1. /\ up' = [up EXCEPT ![x] = Tail(@)] /\ m \notin Registering /\ e.type = "message"
        /\ origins' = IF m \in Call THEN [origins EXCEPT ![m] = x] ELSE origins
        /\ UNCHANGED <<phase, home, down, chain, running, alive, runs>>
    BY <1>2, <1>9 DEF RouteCold, Track, IsMessage, clientVars, history
  <2>2. \A n \in Msg : n # m => awaits'[n] = awaits[n]
    BY <1>2, <1>9 DEF RouteCold, TypeOK
  <2>3. home[m] = x /\ runs[m] = 0
    BY <1>2, <1>4, <2>1 DEF UpSound
  <2>4. /\ Without(up', m) /\ Part(up', up) /\ Without(down, m)
        /\ \A p \in Place, s \in Service : ~InChain(p, s, m)
        /\ phase[m] \notin Answers \cup {"new"}
    BY <1>1, <1>2, <1>3, <2>1, TakenUp
  <2>5. NotUp(m) /\ NotDown(m) /\ NotWithHost(m)
    BY <2>1, <2>4 DEF Without, NotUp, NotDown, NotWithHost, InChain
  <2>6. OnePlace(m)'
    BY <2>5, OneSpot
  <2>7. Busy' /\ Singles'
    BY <2>1, <2>4 DEF Without, PlaceInv, Busy, Singles
  <2>8. Coming(m)' /\ PhaseSound(m)'
    BY <2>1, <2>3, <2>4 DEF Coming, Tracked, PhaseSound, TypeOK
  <2>9. Sound(m)'
    BY <2>5, <2>8 DEF Sound, NotUp, NotDown, NotWithHost, InChain
  <2>10. \A n \in Msg : n # m => Left(n)
    BY <2>1, <2>2, <2>4 DEF Left, Active, Part, TypeOK
  <2> QED
    BY <2>6, <2>7, <2>9, <2>10, OneMoves
<1> QED
  BY <1>3, <1>5, <1>6, <1>7, <1>8, <1>9

(* A message that waited goes on when its launch has ended, or is given up. *)
LEMMA WaitPlaces ==
  ASSUME TypeOK, PlaceInv, NEW m \in Msg, LaunchDone(m) \/ Resume(m)
  PROVE  PlaceInv'
<1>1. awaits[m] \in Place
  BY DEF LaunchDone, Launching, Resume, TypeOK, Place
<1> PICK h \in Place : h = awaits[m]
  BY <1>1
<1>2. Waits(m) /\ OnePlace(m) /\ Coming(m) /\ PhaseSound(m)
  BY <1>1 DEF Waits, Place, Endpoint, PlaceInv, Sound
<1>3. /\ Without(up, m) /\ Without(down, m) /\ Part(up, up)
      /\ \A p \in Place, s \in Service : ~InChain(p, s, m)
  BY <1>2 DEF OnePlace, Without, AtUp, AtDown, PlaceInv, Singles, Part
<1>4. phase[m] \notin Answers \cup {"new"} /\ runs[m] = 0 /\ m \notin Registering
  BY <1>2 DEF PhaseSound, Nowhere, Coming
<1>5. up \in [Endpoint -> Seq(Envelope)]
  BY DEF TypeOK
<1>6. ASSUME Deliver(m, h, up), awaits' = [awaits EXCEPT ![m] = None],
             UNCHANGED <<phase, home, origins, running, alive, runs>>
      PROVE  PlaceInv'
  <2>1. /\ \A n \in Msg : n # m => awaits'[n] = awaits[n] /\ origins'[n] = origins[n]
        /\ awaits'[m] = None /\ (m \in Call /\ alive => origins'[m] = home[m])
    BY <1>2, <1>6 DEF TypeOK, Coming, Tracked
  <2> QED
    BY <1>3, <1>4, <1>5, <1>6, <2>1, DeliverPlaces
<1>7. CASE LaunchDone(m)
  <2>1. CASE InProcess
    <3>1. UNCHANGED <<phase, home, up, down, origins, awaits, chain, running, alive, runs>>
      BY <1>7, <2>1 DEF LaunchDone, clientVars, channels
    <3> QED
      BY <3>1, QueuesDropped
  <2>2. CASE ~InProcess
    <3>1. /\ Deliver(m, h, up) /\ awaits' = [awaits EXCEPT ![m] = None]
          /\ UNCHANGED <<phase, home, origins, running, alive, runs>>
      BY <1>7, <2>2 DEF LaunchDone, clientVars
    <3> QED
      BY <1>6, <3>1
  <2> QED
    BY <2>1, <2>2
<1>8. CASE Resume(m)
  <2>1. /\ awaits' = [awaits EXCEPT ![m] = None]
        /\ UNCHANGED <<phase, home, running, alive, runs>>
    BY <1>8 DEF Resume, clientVars
  <2>2. CASE Deliver(m, h, up) /\ origins' = origins
    BY <1>6, <2>1, <2>2
  <2>3. CASE origins' = [origins EXCEPT ![m] = None] /\ UNCHANGED <<channels, chain>>
    <3>1. UNCHANGED <<up, down, chain>>
      BY <2>3 DEF channels
    <3>2. NotUp(m) /\ NotDown(m) /\ NotWithHost(m) /\ NotWaiting(m) /\ ~Waits(m)'
      BY <1>3, <2>1, <3>1 DEF Without, NotUp, NotDown, NotWithHost, NotWaiting, Waits, InChain, TypeOK
    <3>3. OnePlace(m)'
      BY <3>2, OneSpot
    <3>4. PhaseSound(m)'
      BY <1>2, <1>4, <2>1 DEF PhaseSound
    <3>5. Sound(m)'
      BY <3>2, <3>4 DEF Sound, NotUp, NotDown, NotWithHost, InChain
    <3>6. Busy' /\ Singles'
      BY <2>1, <3>1 DEF PlaceInv, Busy, Singles
    <3>7. \A n \in Msg : n # m => Left(n)
      BY <2>1, <2>3, <3>1 DEF Left, Active, TypeOK
    <3> QED
      BY <3>3, <3>5, <3>6, <3>7, OneMoves
  <2> QED
    BY <1>8, <2>2, <2>3 DEF Resume
<1> QED
  BY <1>7, <1>8

(* A host takes a message in, and a client settles with an answer. *)
LEMMA EndpointReceivePlaces ==
  ASSUME TypeOK, PlaceInv, NEW x \in Endpoint, EndpointReceive(x)
  PROVE  PlaceInv'
<1>1. PICK e \in Envelope : e = Head(down[x])
  BY TakenType DEF EndpointReceive
<1>2. PICK m \in Msg : m = e.id
  BY DEF Envelope
<1>3. /\ down[x] # <<>> /\ down' = [down EXCEPT ![x] = Tail(@)]
      /\ UNCHANGED <<home, up, origins, awaits, running, alive, runs>>
  BY DEF EndpointReceive, routingVars, history
<1>4. /\ Without(down', m) /\ Part(down', down) /\ Without(up, m)
      /\ \A p \in Place, s \in Service : ~InChain(p, s, m)
      /\ awaits[m] = None
      /\ DownSound(e) /\ phase[m] \notin Answers \cup {"new"} /\ runs[m] \in {0, 1}
  BY <1>1, <1>2, <1>3, TakenDown
<1>5. NotUp(m) /\ NotDown(m) /\ NotWaiting(m) /\ ~Waits(m)'
  BY <1>3, <1>4 DEF Without, NotUp, NotDown, NotWaiting, Waits
<1>6. CASE e.type = "message" /\ x \in Place
  <2>1. chain' = [chain EXCEPT ![x][To[m]] = Append(@, m)] /\ phase' = phase
    BY <1>1, <1>2, <1>6 DEF EndpointReceive
  <2>2. /\ Busy'
        /\ \A q \in Place, t \in Service : OneEach(chain'[q][t])
        /\ NowWithHost(m, x, To[m])
        /\ ~Active(x, To[m], m)'
        /\ \A q \in Place, t \in Service, n \in Msg :
              n # m /\ n \in Elems(chain'[q][t]) =>
                /\ n \in Elems(chain[q][t])
                /\ (running'[q][t] /\ n = Head(chain'[q][t])) <=> Active(q, t, n)
    BY <1>3, <1>4, <1>6, <2>1, ChainGrows DEF PlaceInv
  <2>3. Singles'
    BY <1>3, <1>4, <2>2 DEF Without, PlaceInv, Singles
  <2>4. OnePlace(m)'
    BY <1>5, <2>2, OneSpot
  <2>5. Coming(m)' /\ Tracked(m)' /\ PhaseSound(m)'
    BY <1>2, <1>3, <1>4, <1>6, <2>1 DEF DownSound, Coming, Tracked, PhaseSound
  <2>6. \A p \in Place, s \in Service : InChain(p, s, m)' => ChainSound(p, s, m)'
    BY <2>2, <2>5 DEF NowWithHost, InChain, ChainSound, Coming
  <2>7. Sound(m)'
    BY <1>5, <2>5, <2>6 DEF Sound, NotUp, NotDown
  <2>8. \A n \in Msg : n # m => Left(n)
    BY <1>3, <1>4, <2>1, <2>2 DEF Left, Part
  <2> QED
    BY <2>2, <2>3, <2>4, <2>7, <2>8, OneMoves
<1>7. CASE ~(e.type = "message" /\ x \in Place)
  <2>1. /\ chain' = chain
        /\ phase' = IF e.type = "message" THEN phase
                    ELSE [phase EXCEPT ![m] = IF @ = "pending" THEN e.type ELSE @]
    BY <1>1, <1>2, <1>7, SMTT(20) DEF EndpointReceive, Settle, TypeOK
  <2>2. NotWithHost(m) /\ Nowhere(m)'
    BY <1>4, <1>5, <2>1 DEF NotWithHost, InChain, Nowhere, NotUp, NotDown, AtUp, AtDown
  <2>3. OnePlace(m)'
    BY <1>5, <2>2, OneSpot
  <2>4. PhaseSound(m)'
    <3>1. e.type # "message" => Truthful(e.type, m)'
      BY <1>2, <1>3, <1>4 DEF DownSound, Truthful
    <3>2. phase'[m] \in {phase[m], e.type} /\ (phase'[m] # phase[m] => e.type # "message")
      BY <2>1 DEF TypeOK
    <3>3. e.type # "message" => e.type # "new"
      BY DEF Envelope, Answers
    <3> QED
      BY <1>3, <1>4, <2>2, <3>1, <3>2, <3>3 DEF PhaseSound
  <2>5. Sound(m)'
    BY <1>5, <2>2, <2>4 DEF Sound, NotUp, NotDown, NotWithHost, InChain
  <2>6. Busy' /\ Singles'
    BY <1>3, <1>4, <2>1 DEF Without, PlaceInv, Busy, Singles
  <2>7. \A n \in Msg : n # m => Left(n)
    BY <1>3, <1>4, <2>1 DEF Left, Active, Part, TypeOK
  <2> QED
    BY <2>3, <2>5, <2>6, <2>7, OneMoves
<1> QED
  BY <1>6, <1>7

(* The head of a chain, which is with its host and nowhere else. *)
LEMMA HeadPlaces ==
  ASSUME TypeOK, PlaceInv, NEW p \in Place, NEW s \in Service, chain[p][s] # <<>>,
         NEW m \in Msg, m = Head(chain[p][s])
  PROVE  /\ InChain(p, s, m) /\ OnePlace(m) /\ ChainSound(p, s, m)
         /\ m \notin Elems(Tail(chain[p][s])) /\ OneEach(Tail(chain[p][s]))
         /\ Elems(Tail(chain[p][s])) \subseteq Elems(chain[p][s])
         /\ phase[m] \notin Answers \cup {"new"}
         /\ Without(up, m) /\ Without(down, m) /\ awaits[m] = None
         /\ \A q \in Place, t \in Service : InChain(q, t, m) => q = p /\ t = s
<1>1. chain[p][s] \in Seq(Msg) /\ OneEach(chain[p][s])
  BY DEF TypeOK, PlaceInv, Singles
<1>2. /\ InChain(p, s, m) /\ m \notin Elems(Tail(chain[p][s])) /\ OneEach(Tail(chain[p][s]))
      /\ Elems(Tail(chain[p][s])) \subseteq Elems(chain[p][s])
  BY <1>1, ElemsOfQueue, OneEachOfQueue DEF InChain
<1>3. OnePlace(m) /\ Sound(m)
  BY DEF PlaceInv
<1>4. ChainSound(p, s, m) /\ phase[m] \notin Answers \cup {"new"}
  BY <1>2, <1>3 DEF Sound, PhaseSound, Nowhere
<1>5. /\ Without(up, m) /\ Without(down, m) /\ awaits[m] = None
      /\ \A q \in Place, t \in Service : InChain(q, t, m) => q = p /\ t = s
  BY <1>2, <1>3 DEF OnePlace, Without, AtUp, AtDown, Waits, PlaceInv, Singles
<1> QED
  BY <1>2, <1>3, <1>4, <1>5

(* A method runs that has not run. *)
LEMMA InvokePlaces ==
  ASSUME TypeOK, PlaceInv, NEW p \in Place, NEW s \in Service, Invoke(p, s)
  PROVE  PlaceInv'
<1>1. PICK m \in Msg : m = Head(chain[p][s])
  BY QueueType DEF Invoke, TypeOK
<1>2. /\ chain[p][s] # <<>> /\ ~running[p][s]
      /\ running' = [running EXCEPT ![p][s] = TRUE]
      /\ runs' = [runs EXCEPT ![m] = @ + 1]
      /\ UNCHANGED <<phase, home, up, down, origins, awaits, chain, alive>>
  BY <1>1 DEF Invoke, clientVars, channels, routingVars
<1>3. /\ InChain(p, s, m) /\ OnePlace(m) /\ ChainSound(p, s, m)
      /\ phase[m] \notin Answers \cup {"new"}
      /\ Without(up, m) /\ Without(down, m) /\ awaits[m] = None
      /\ \A q \in Place, t \in Service : InChain(q, t, m) => q = p /\ t = s
  BY <1>1, <1>2, HeadPlaces
<1>4. \A q \in Place, t \in Service : running'[q][t] = IF q = p /\ t = s THEN TRUE ELSE running[q][t]
  BY <1>2 DEF TypeOK
<1>5. \A n \in Msg : runs'[n] = IF n = m THEN 1 ELSE runs[n]
  BY <1>2, <1>3 DEF ChainSound, Active, TypeOK
<1>6. Busy' /\ Singles'
  BY <1>2, <1>4 DEF PlaceInv, Busy, Singles
<1>7. OnePlace(m)'
  BY <1>2, <1>3 DEF OnePlace, AtUp, AtDown, InChain, Waits
<1>8. ASSUME NEW q \in Place, NEW t \in Service, InChain(q, t, m)'
      PROVE  ChainSound(q, t, m)'
  <2>1. q = p /\ t = s
    BY <1>2, <1>3, <1>8 DEF InChain
  <2>2. Active(p, s, m)' /\ runs'[m] = 1
    BY <1>1, <1>2, <1>4, <1>5 DEF Active
  <2>3. To[m] = s /\ m \notin Registering /\ Tracked(m)'
    BY <1>2, <1>3 DEF ChainSound, Tracked
  <2> QED
    BY <2>1, <2>2, <2>3 DEF ChainSound
<1>9. PhaseSound(m)'
  BY <1>2, <1>3, <1>5 DEF PhaseSound
<1>10. Sound(m)'
  BY <1>2, <1>3, <1>8, <1>9 DEF Sound, Without, Waits
<1>11. ASSUME NEW n \in Msg, n # m PROVE Left(n)
  <2>1. \A q \in Place, t \in Service :
          (running'[q][t] /\ n = Head(chain'[q][t])) <=> Active(q, t, n)
    BY <1>1, <1>2, <1>4, <1>11 DEF Active
  <2> QED
    BY <1>2, <1>5, <1>11, <2>1 DEF Left
<1> QED
  BY <1>6, <1>7, <1>10, <1>11, OneMoves

(* A message is answered, by its method or in its place. *)
LEMMA LeavePlaces ==
  ASSUME TypeOK, PlaceInv, NEW p \in Place, NEW s \in Service, NEW answer \in HostAnswers,
         Leaves(p, s, answer)
  PROVE  PlaceInv'
<1>0. running[p][s] = (answer # "rejected") /\ chain[p][s] # <<>>
  BY DEF Leaves
<1>1. PICK m \in Msg : m = Head(chain[p][s])
  BY <1>0, QueueType DEF TypeOK
<1> DEFINE a == Env(answer, m)
<1>2. a \in Envelope /\ a.type = answer /\ a.id = m /\ p \in Endpoint
  <2>1. answer \in Answers \cup {"message"} /\ p \in Endpoint
    BY DEF Answers, HostAnswers, Place, Endpoint
  <2> QED
    BY <2>1, EnvType
<1>3. /\ running' = [running EXCEPT ![p][s] = FALSE]
      /\ chain' = [chain EXCEPT ![p][s] = Tail(@)]
      /\ up' = up \/ (m \in Call /\ up' = [up EXCEPT ![p] = Append(@, a)])
      /\ UNCHANGED <<phase, home, down, origins, awaits, alive, runs>>
  BY <1>1 DEF Leaves, Post, clientVars, routingVars, history
<1> HIDE DEF a
<1>4. /\ InChain(p, s, m) /\ OnePlace(m) /\ ChainSound(p, s, m)
      /\ m \notin Elems(Tail(chain[p][s])) /\ OneEach(Tail(chain[p][s]))
      /\ Elems(Tail(chain[p][s])) \subseteq Elems(chain[p][s])
      /\ phase[m] \notin Answers \cup {"new"}
      /\ Without(up, m) /\ Without(down, m) /\ awaits[m] = None
      /\ \A q \in Place, t \in Service : InChain(q, t, m) => q = p /\ t = s
  BY <1>0, <1>1, HeadPlaces
<1>5. runs[m] = (IF answer = "rejected" THEN 0 ELSE 1) /\ m \notin Registering /\ Tracked(m)
  BY <1>0, <1>1, <1>4 DEF ChainSound, Active
<1>6. Gains(up, up', p, a)
  <2>1. up \in [Endpoint -> Seq(Envelope)] /\ Without(up, a.id)
    BY <1>2, <1>4 DEF TypeOK
  <2>2. up' = up \/ up' = [up EXCEPT ![p] = Append(@, a)]
    BY <1>3
  <2> QED
    BY <1>2, <2>1, <2>2, ChannelGrows
<1>7. /\ \A q \in Place, t \in Service :
           chain'[q][t] = IF q = p /\ t = s THEN Tail(chain[p][s]) ELSE chain[q][t]
      /\ \A q \in Place, t \in Service :
           running'[q][t] = IF q = p /\ t = s THEN FALSE ELSE running[q][t]
  BY <1>3 DEF TypeOK
<1>8. NowUp(m, p, a) /\ NotDown(m) /\ NotWithHost(m) /\ NotWaiting(m) /\ ~Waits(m)'
  <2>1. NowUp(m, p, a)
    BY <1>4, <1>6 DEF Gains, Without, NowUp
  <2>2. NotWithHost(m)
    BY <1>4, <1>7 DEF NotWithHost, InChain
  <2> QED
    BY <1>3, <1>4, <2>1, <2>2 DEF Without, NotDown, NotWaiting, Waits
<1>9. Busy'
  <2> SUFFICES ASSUME NEW q \in Place, NEW t \in Service, running'[q][t]
               PROVE  chain'[q][t] # <<>>
    BY DEF Busy
  <2>1. ~(q = p /\ t = s)
    BY <1>7
  <2>2. running[q][t] /\ chain'[q][t] = chain[q][t]
    BY <1>7, <2>1, ZenonT(20)
  <2> QED
    BY <2>2 DEF PlaceInv, Busy
<1>10. Singles'
  BY <1>3, <1>4, <1>6, <1>7 DEF Gains, PlaceInv, Singles
<1>11. OnePlace(m)'
  BY <1>8, OneSpot
<1>12. ASSUME NEW x \in Endpoint, NEW e \in Elems(up'[x]), e.id = m
       PROVE  UpSound(x, e)'
  <2>1. e = a
    BY <1>8, <1>12 DEF NowUp
  <2>2. m \in Call
    BY <1>3, <1>4, <1>12 DEF Without
  <2>3. answer \in {"return", "error"} \/ answer = "rejected"
    BY DEF HostAnswers
  <2>4. runs'[m] = (IF answer = "rejected" THEN 0 ELSE 1) /\ Tracked(m)'
    BY <1>3, <1>5 DEF Tracked
  <2>5. Truthful(answer, m)'
    BY <2>2, <2>3, <2>4 DEF Truthful
  <2> QED
    BY <1>2, <1>5, <2>1, <2>3, <2>4, <2>5 DEF UpSound
<1>13. PhaseSound(m)'
  BY <1>3, <1>4, <1>5 DEF PhaseSound
<1>14. Sound(m)'
  BY <1>8, <1>12, <1>13 DEF Sound, NotDown, NotWithHost, InChain
<1>15. ASSUME NEW n \in Msg, n # m PROVE Left(n)
  <2>1. ASSUME NEW q \in Place, NEW t \in Service, n \in Elems(chain'[q][t])
        PROVE  /\ n \in Elems(chain[q][t])
               /\ (running'[q][t] /\ n = Head(chain'[q][t])) <=> Active(q, t, n)
    <3>1. CASE q = p /\ t = s
      BY <1>1, <1>4, <1>7, <1>15, <2>1, <3>1 DEF Active
    <3>2. CASE ~(q = p /\ t = s)
      <4>1. chain'[q][t] = chain[q][t] /\ running'[q][t] = running[q][t]
        BY <1>7, <3>2
      <4> QED
        BY <2>1, <4>1 DEF Active
    <3> QED
      BY <3>1, <3>2
  <2>2. \A x \in Endpoint : \A e \in Elems(up'[x]) : e.id = n => e \in Elems(up[x])
    BY <1>2, <1>6, <1>15 DEF Gains
  <2> QED
    BY <1>3, <1>15, <2>1, <2>2 DEF Left
<1> QED
  BY <1>9, <1>10, <1>11, <1>14, <1>15, OneMoves

-----------------------------------------------------------------------------
(* Only calls are pending, and a step gives calls up or concerns one message. *)

Pending == \A m \in Msg : phase[m] = "pending" => m \in Call

GivesUp ==
  /\ runs' = runs
  /\ \A m \in Msg : \/ phase'[m] = phase[m]
                    \/ phase[m] = "pending" /\ phase'[m] \in {"timeout", "disposed", "gone"}

(* All but sending, settling and running leave callers and methods alone. *)
LEMMA OthersGiveUp ==
  ASSUME TypeOK,
         \/ \E m \in Msg : Timeout(m) \/ LaunchDone(m) \/ LaunchFail(m) \/ Resume(m)
         \/ \E x \in Endpoint : BrokerReceive(x)
         \/ \E s \in Service : LocalLoaded(s)
         \/ \E p \in Place, s \in Service : Reject(p, s) \/ Finish(p, s, "return") \/ Finish(p, s, "error")
         \/ \E h \in Host : Crash(h)
         \/ Dispose
         \/ UNCHANGED vars
  PROVE  GivesUp
<1>1. ASSUME NEW m \in Msg, Timeout(m) PROVE GivesUp
  BY <1>1 DEF Timeout, history, GivesUp, TypeOK
<1>2. ASSUME NEW m \in Msg, LaunchDone(m) \/ LaunchFail(m) \/ Resume(m) PROVE GivesUp
  BY <1>2 DEF LaunchDone, LaunchFail, Resume, clientVars, history, GivesUp
<1>3. ASSUME NEW x \in Endpoint, BrokerReceive(x) PROVE GivesUp
  <2>1. UNCHANGED <<phase, runs>>
    BY <1>3 DEF BrokerReceive, RouteAnswer, RouteRegistration, RouteUnregistered,
                RouteToHost, RouteCold, clientVars, history
  <2> QED
    BY <2>1 DEF GivesUp
<1>4. ASSUME NEW s \in Service, LocalLoaded(s) PROVE GivesUp
  BY <1>4 DEF LocalLoaded, clientVars, history, GivesUp
<1>5. ASSUME NEW p \in Place, NEW s \in Service, NEW a, Reject(p, s) \/ Finish(p, s, a)
      PROVE  GivesUp
  <2>1. UNCHANGED <<phase, runs>>
    BY <1>5 DEF Reject, Finish, clientVars, history
  <2> QED
    BY <2>1 DEF GivesUp
<1>6. ASSUME NEW h \in Host, Crash(h) PROVE GivesUp
  BY <1>6 DEF Crash, history, GivesUp
<1>7. ASSUME Dispose PROVE GivesUp
  BY <1>7 DEF Dispose, history, GivesUp
<1>8. CASE UNCHANGED vars
  BY <1>8 DEF vars, clientVars, history, GivesUp
<1> QED
  BY <1>1, <1>2, <1>3, <1>4, <1>5, <1>6, <1>7, <1>8

(* What a client receives settles its own pending call. *)
LEMMA Settles ==
  ASSUME TypeOK, PlaceInv, NEW x \in Endpoint, EndpointReceive(x), phase' # phase
  PROVE  \E m \in Msg, type \in Answers :
           /\ phase[m] = "pending" /\ phase' = [phase EXCEPT ![m] = type]
           /\ Truthful(type, m) /\ runs' = runs
<1>1. PICK e \in Envelope : e = Head(down[x])
  BY TakenType DEF EndpointReceive
<1>2. e.id \in Msg /\ down[x] # <<>> /\ e.type # "message" /\ runs' = runs
      /\ phase' = [phase EXCEPT ![e.id] = IF @ = "pending" THEN e.type ELSE @]
  BY <1>1 DEF EndpointReceive, Settle, history, Envelope
<1>3. phase[e.id] = "pending" /\ phase' = [phase EXCEPT ![e.id] = e.type]
  BY <1>2 DEF TypeOK
<1>4. Truthful(e.type, e.id)
  BY <1>1, <1>2, TakenDown DEF DownSound
<1> QED
  BY <1>2, <1>3, <1>4 DEF Envelope

FullInv == TypeOK /\ PlaceInv /\ Pending

(* Every step keeps the invariant. *)
LEMMA FullStep ==
  ASSUME FullInv, [Next]_vars
  PROVE  FullInv'
<1>1. TypeOK /\ PlaceInv /\ Pending /\ Busy
  BY DEF FullInv, PlaceInv
<1>2. TypeOK'
  BY <1>1, TypeStep
<1>3. PlaceInv'
  <2>1. ASSUME NEW p \in Place, NEW s \in Service,
               Reject(p, s) \/ Finish(p, s, "return") \/ Finish(p, s, "error")
        PROVE  PlaceInv'
    BY <1>1, <2>1, MessageLeaves, LeavePlaces DEF HostAnswers
  <2> QED
    BY <1>1, <2>1, SendPlaces, FaultPlaces, WaitPlaces, BrokerReceivePlaces,
       EndpointReceivePlaces, InvokePlaces DEF Next
<1>4. Pending'
  <2>1. CASE GivesUp
    BY <1>1, <2>1 DEF GivesUp, Pending
  <2>2. ASSUME NEW m \in Msg, Send(m) PROVE Pending'
    BY <1>1, <2>2 DEF Send, Pending, TypeOK
  <2>3. ASSUME NEW x \in Endpoint, EndpointReceive(x) PROVE Pending'
    <3>1. CASE phase' = phase
      BY <1>1, <3>1 DEF Pending
    <3>2. CASE phase' # phase
      <4>1. PICK m \in Msg, type \in Answers : phase' = [phase EXCEPT ![m] = type]
        BY <1>1, <2>3, <3>2, Settles
      <4> QED
        BY <1>1, <4>1 DEF Pending, TypeOK, Answers
    <3> QED
      BY <3>1, <3>2
  <2>4. ASSUME NEW p \in Place, NEW s \in Service, Invoke(p, s) PROVE Pending'
    BY <1>1, <2>4 DEF Invoke, clientVars, Pending
  <2> QED
    BY <1>1, <2>1, <2>2, <2>3, <2>4, OthersGiveUp DEF Next
<1> QED
  BY <1>2, <1>3, <1>4 DEF FullInv

(* At first nothing is anywhere. *)
LEMMA FullInit ==
  ASSUME Init
  PROVE  FullInv
<1>1. TypeOK
  BY InitType
<1>2. /\ \A x \in Endpoint : up[x] = <<>> /\ down[x] = <<>>
      /\ \A p \in Place, s \in Service : chain[p][s] = <<>> /\ ~running[p][s]
      /\ \A m \in Msg : awaits[m] = None /\ phase[m] = "new" /\ runs[m] = 0
  BY DEF Init
<1>3. Busy /\ Singles
  BY <1>2, ElemsOfNone DEF Busy, Singles
<1>4. ASSUME NEW m \in Msg PROVE OnePlace(m) /\ Sound(m)
  <2>1. Nowhere(m)
    BY <1>2, ElemsOfNone DEF Nowhere, Waits, AtUp, AtDown, InChain
  <2>2. OnePlace(m)
    BY <2>1 DEF Nowhere, OnePlace, AtUp, AtDown
  <2>3. PhaseSound(m)
    BY <1>2, <2>1 DEF PhaseSound, Answers
  <2>4. Sound(m)
    BY <2>1, <2>3 DEF Sound, Nowhere, AtUp, AtDown
  <2> QED
    BY <2>2, <2>4
<1>5. Pending
  BY <1>2 DEF Pending
<1> QED
  BY <1>1, <1>3, <1>4, <1>5 DEF FullInv, PlaceInv

-----------------------------------------------------------------------------
(* AnswersArrive *)

(* A reply that is in no two places is counted once. *)
LEMMA OneInFlight ==
  ASSUME TypeOK, PlaceInv, NEW m \in Msg
  PROVE  Cardinality(InFlight(up, m)) + Cardinality(InFlight(down, m)) <=
           IF phase[m] \in Answers THEN 0 ELSE 1
<1> DEFINE U == InFlight(up, m)
           D == InFlight(down, m)
<1>1. OnePlace(m) /\ Sound(m) /\ Singles
  BY DEF PlaceInv
<1>2. \A x \in Endpoint : /\ DOMAIN up[x] = 1 .. Len(up[x]) /\ DOMAIN down[x] = 1 .. Len(down[x])
  BY DEF TypeOK
<1>3. \A u \in U : \E x \in Endpoint : \E i \in 1 .. Len(up[x]) :
        u = <<x, i>> /\ up[x][i].id = m /\ up[x][i] \in Elems(up[x])
  BY <1>2 DEF InFlight, Elems
<1>4. \A u \in D : \E x \in Endpoint : \E i \in 1 .. Len(down[x]) :
        u = <<x, i>> /\ down[x][i].id = m /\ down[x][i] \in Elems(down[x])
  BY <1>2 DEF InFlight, Elems
<1> HIDE DEF U, D
<1>5. ASSUME NEW u \in U, NEW v \in U PROVE u = v
  <2>1a. PICK x \in Endpoint : \E i \in 1 .. Len(up[x]) :
          u = <<x, i>> /\ up[x][i].id = m /\ up[x][i] \in Elems(up[x])
    BY <1>3
  <2>1. PICK i \in 1 .. Len(up[x]) :
          u = <<x, i>> /\ up[x][i].id = m /\ up[x][i] \in Elems(up[x])
    BY <2>1a
  <2>2a. PICK y \in Endpoint : \E j \in 1 .. Len(up[y]) :
          v = <<y, j>> /\ up[y][j].id = m /\ up[y][j] \in Elems(up[y])
    BY <1>3
  <2>2. PICK j \in 1 .. Len(up[y]) :
          v = <<y, j>> /\ up[y][j].id = m /\ up[y][j] \in Elems(up[y])
    BY <2>2a
  <2>3. x = y /\ up[x][i] = up[y][j]
    BY <1>1, <2>1, <2>2 DEF OnePlace
  <2>4. i = j
    BY <1>1, <2>3 DEF Singles, OneEach
  <2> QED
    BY <2>1, <2>2, <2>3, <2>4
<1>6. ASSUME NEW u \in D, NEW v \in D PROVE u = v
  <2>1a. PICK x \in Endpoint : \E i \in 1 .. Len(down[x]) :
          u = <<x, i>> /\ down[x][i].id = m /\ down[x][i] \in Elems(down[x])
    BY <1>4
  <2>1. PICK i \in 1 .. Len(down[x]) :
          u = <<x, i>> /\ down[x][i].id = m /\ down[x][i] \in Elems(down[x])
    BY <2>1a
  <2>2a. PICK y \in Endpoint : \E j \in 1 .. Len(down[y]) :
          v = <<y, j>> /\ down[y][j].id = m /\ down[y][j] \in Elems(down[y])
    BY <1>4
  <2>2. PICK j \in 1 .. Len(down[y]) :
          v = <<y, j>> /\ down[y][j].id = m /\ down[y][j] \in Elems(down[y])
    BY <2>2a
  <2>3. x = y /\ down[x][i] = down[y][j]
    BY <1>1, <2>1, <2>2 DEF OnePlace
  <2>4. i = j
    BY <1>1, <2>3 DEF Singles, OneEach
  <2> QED
    BY <2>1, <2>2, <2>3, <2>4
<1>7. U # {} => \E x \in Endpoint : AtUp(x, m)
  BY <1>3 DEF AtUp
<1>8. D # {} => \E x \in Endpoint : AtDown(x, m)
  BY <1>4 DEF AtDown
<1>9. U = {} \/ D = {}
  BY <1>1, <1>7, <1>8 DEF OnePlace
<1>10. phase[m] \in Answers => U = {} /\ D = {}
  BY <1>1, <1>7, <1>8 DEF Sound, PhaseSound, Nowhere
<1>11. /\ U = {} \/ \E u \in U : U = {u}
       /\ D = {} \/ \E u \in D : D = {u}
  BY <1>5, <1>6
<1>12. /\ Cardinality(U) = 0 \/ (U # {} /\ Cardinality(U) = 1)
       /\ Cardinality(D) = 0 \/ (D # {} /\ Cardinality(D) = 1)
       /\ Cardinality({}) = 0
  BY <1>11, FS_EmptySet, FS_Singleton
<1> QED
  BY <1>9, <1>10, <1>12 DEF U, D

(* Whatever is launched twice, crashes, times out or is disposed: no reply is
   without the origin of its call, and no call is answered twice
   (service-broker.ts, routeIncoming() and routeCall()). *)
THEOREM AnswersFindCallers == Spec => []AnswersArrive
<1>1. Init => FullInv
  BY FullInit
<1>2. FullInv /\ [Next]_vars => FullInv'
  BY FullStep
<1>3. FullInv => AnswersArrive
  <2> SUFFICES ASSUME FullInv PROVE AnswersArrive
    OBVIOUS
  <2>1. TypeOK /\ PlaceInv
    BY DEF FullInv
  <2>2. OneAnswer
    BY <2>1, OneInFlight DEF OneAnswer
  <2>3. RepliesRoutable
    <3> SUFFICES ASSUME alive, NEW m \in Msg, NEW a \in Answers, Holds(up, a, m)
                 PROVE  origins[m] = home[m]
      BY DEF RepliesRoutable
    <3>1. PICK x \in Endpoint : \E i \in DOMAIN up[x] : up[x][i] = Env(a, m)
      BY DEF Holds
    <3>2. DOMAIN up[x] = 1 .. Len(up[x])
      BY <2>1 DEF TypeOK
    <3>3. Env(a, m) \in Elems(up[x])
      BY <3>1, <3>2 DEF Elems
    <3>4. Env(a, m).type = a /\ Env(a, m).id = m /\ a # "message"
      BY EnvType DEF Answers
    <3>5. UpSound(x, Env(a, m))
      BY <2>1, <3>3, <3>4 DEF PlaceInv, Sound
    <3> QED
      BY <3>4, <3>5 DEF UpSound, Truthful, Tracked
  <2> QED
    BY <2>1, <2>2, <2>3 DEF AnswersArrive
<1> QED
  BY <1>1, <1>2, <1>3, PTL DEF Spec

-----------------------------------------------------------------------------
(* RemoteCall *)

Asked == Msg \ Registering
Outcomes == [m \in Asked |-> Outcome(m)]
Ran == [m \in Asked |-> runs[m]]

(* Giving up calls is Abandon() of some, or of none. *)
LEMMA GivesUpRefines ==
  ASSUME Pending, GivesUp
  PROVE  [Promised!Next]_(Promised!vars)
<1> DEFINE S == {m \in Asked : phase'[m] # phase[m]}
<1>1. \A m \in Asked : Outcome(m)' = IF m \in S THEN "abandoned" ELSE Outcome(m)
  <2>1. ASSUME NEW m \in Asked, phase'[m] # phase[m]
        PROVE  Outcome(m)' = "abandoned"
    BY <2>1 DEF GivesUp, Outcome, Asked
  <2>2. ASSUME NEW m \in Asked, phase'[m] = phase[m]
        PROVE  Outcome(m)' = Outcome(m)
    BY <2>2 DEF Outcome
  <2> QED
    BY <2>1, <2>2
<1>2. \A m \in S : Outcome(m) = "asked" /\ m \in Asked /\ m \in Call \ Registering
  BY DEF GivesUp, Outcome, Pending, Asked
<1>3. S \in SUBSET (Call \ Registering) /\ Ran' = Ran
  BY <1>2 DEF GivesUp, Ran
<1> HIDE DEF S
<1>4. Promised!Abandon(S)
  <2>1. Outcomes' = [m \in Asked |-> IF m \in S THEN "abandoned" ELSE Outcomes[m]]
    BY <1>1 DEF Outcomes
  <2>2. \A m \in S : Outcomes[m] = "asked"
    BY <1>2 DEF Outcomes
  <2> QED
    BY <1>3, <2>1, <2>2 DEF Promised!Abandon, Outcomes, Asked, Ran
<1> QED
  BY <1>3, <1>4 DEF Promised!Next

(* A step that changes one message. *)
LEMMA OneOutcome ==
  ASSUME NEW m \in Msg, \A n \in Msg : n # m => phase'[n] = phase[n]
  PROVE  /\ m \in Asked => Outcomes' = [Outcomes EXCEPT ![m] = Outcome(m)']
         /\ m \notin Asked => Outcomes' = Outcomes
<1>1. \A n \in Msg : n # m => Outcome(n)' = Outcome(n)
  BY DEF Outcome
<1> QED
  BY <1>1 DEF Outcomes, Asked

(* Every step is one of RemoteCall, or none that a caller can tell. *)
LEMMA StepRefines ==
  ASSUME FullInv, [Next]_vars
  PROVE  [Promised!Next]_(Promised!vars)
<1> USE DEF FullInv
<1>1. CASE GivesUp
  BY <1>1, GivesUpRefines
<1>2. ASSUME NEW m \in Msg, Send(m)
      PROVE  [Promised!Next]_(Promised!vars)
  <2>1. /\ phase[m] = "new" /\ runs' = runs
        /\ \A n \in Msg : n # m => phase'[n] = phase[n]
        /\ phase'[m] \in {"pending", "sent"}
    BY <1>2 DEF Send, TypeOK
  <2>2. Ran' = Ran
    BY <2>1 DEF Ran
  <2>3. CASE m \in Asked
    <3>1. Outcomes' = [Outcomes EXCEPT ![m] = "asked"] /\ Outcomes[m] = "idle"
      BY <2>1, <2>3, OneOutcome DEF Outcomes, Outcome
    <3>2. Promised!Ask(m)
      BY <2>2, <3>1 DEF Promised!Ask, Outcomes, Asked, Ran
    <3> QED
      BY <2>3, <3>2 DEF Promised!Next, Asked
  <2>4. CASE m \notin Asked
    <3>1. Outcomes' = Outcomes
      BY <2>1, <2>4, OneOutcome
    <3> QED
      BY <2>2, <3>1 DEF Promised!vars, Outcomes, Asked, Ran
  <2> QED
    BY <2>3, <2>4
<1>3. ASSUME NEW x \in Endpoint, EndpointReceive(x)
      PROVE  [Promised!Next]_(Promised!vars)
  <2>1. CASE phase' = phase
    <3>1. runs' = runs
      BY <1>3 DEF EndpointReceive, history
    <3> QED
      BY <2>1, <3>1, GivesUpRefines DEF GivesUp
  <2>2. CASE phase' # phase
    <3>1. PICK m \in Msg, type \in Answers :
            /\ phase[m] = "pending" /\ phase' = [phase EXCEPT ![m] = type]
            /\ Truthful(type, m) /\ runs' = runs
      BY <1>3, <2>2, Settles
    <3>2. /\ \A n \in Msg : n # m => phase'[n] = phase[n]
          /\ phase'[m] = type /\ m \in Call
      BY <3>1 DEF TypeOK, Truthful
    <3>3. Ran' = Ran
      BY <3>1 DEF Ran
    <3>4. CASE m \notin Asked
      <4>1. Outcomes' = Outcomes
        BY <3>2, <3>4, OneOutcome
      <4> QED
        BY <3>3, <4>1 DEF Promised!vars, Outcomes, Asked, Ran
    <3>5. CASE m \in Asked
      <4>1. Outcomes' = [Outcomes EXCEPT ![m] = Outcome(m)'] /\ Outcomes[m] = "asked"
        BY <3>1, <3>2, <3>5, OneOutcome DEF Outcomes, Outcome
      <4>2. Ran[m] = runs[m] /\ m \in Asked /\ m \in Call \ Registering
        BY <3>2, <3>5 DEF Ran, Asked
      <4>3. CASE type \in {"return", "error"}
        <5>1. Outcome(m)' = "answered" /\ runs[m] = 1
          BY <3>1, <3>2, <4>2, <4>3 DEF Outcome, Truthful
        <5>2. Promised!Answer(m)
          BY <3>3, <4>1, <4>2, <5>1 DEF Promised!Answer, Outcomes, Asked, Ran
        <5> QED
          BY <4>2, <5>2 DEF Promised!Next, Asked
      <4>4. CASE type \notin {"return", "error"}
        <5>1. Outcome(m)' = "refused" /\ runs[m] = 0
          BY <3>1, <3>2, <4>2, <4>4 DEF Outcome, Truthful, Answers
        <5>2. Promised!Refuse(m)
          BY <3>3, <4>1, <4>2, <5>1 DEF Promised!Refuse, Outcomes, Asked, Ran
        <5> QED
          BY <4>2, <5>2 DEF Promised!Next, Asked
      <4> QED
        BY <4>3, <4>4
    <3> QED
      BY <3>4, <3>5
  <2> QED
    BY <2>1, <2>2
<1>4. ASSUME NEW p \in Place, NEW s \in Service, Invoke(p, s)
      PROVE  [Promised!Next]_(Promised!vars)
  <2>1. PICK m \in Msg : m = Head(chain[p][s])
    BY <1>4, QueueType DEF Invoke, TypeOK
  <2>2. /\ chain[p][s] # <<>> /\ ~running[p][s] /\ phase' = phase
        /\ runs' = [runs EXCEPT ![m] = @ + 1]
    BY <1>4, <2>1 DEF Invoke, clientVars
  <2>3. ChainSound(p, s, m) /\ phase[m] \notin Answers \cup {"new"}
    BY <2>1, <2>2, HeadPlaces
  <2>4. m \in Asked /\ runs[m] = 0
    BY <2>2, <2>3 DEF ChainSound, Active, Asked
  <2>5. Ran' = [Ran EXCEPT ![m] = 1] /\ Ran[m] = 0
    <3>1. \A n \in Msg : runs'[n] = IF n = m THEN 1 ELSE runs[n]
      BY <2>2, <2>4 DEF TypeOK
    <3> QED
      BY <2>4, <3>1 DEF Ran, Asked
  <2>6. Outcomes' = Outcomes
    BY <2>2 DEF Outcomes, Outcome
  <2>7. Outcomes[m] \in {"asked", "abandoned"}
    <3>1. phase[m] \in {"sent", "pending", "gone", "timeout", "disposed"}
      BY <2>3 DEF TypeOK, Settled
    <3> QED
      BY <2>4, <3>1 DEF Outcomes, Outcome
  <2>8. Promised!Run(m)
    BY <2>5, <2>6, <2>7 DEF Promised!Run, Outcomes, Asked, Ran
  <2> QED
    BY <2>4, <2>8 DEF Promised!Next, Asked
<1> QED
  BY <1>1, <1>2, <1>3, <1>4, OthersGiveUp DEF Next

(* The runtime keeps what it promises its callers (module RemoteCall), whichever
   broker routes and whatever fails: a method runs at most once, a return or an
   error comes from a method that has run, a refused call never runs
   (runtime-client.ts, service-broker.ts, service-host.ts). *)
THEOREM BrokerKeepsPromise == Spec => KeepsPromise
<1>1. Init => Promised!Init
  <2> SUFFICES ASSUME Init PROVE Promised!Init
    OBVIOUS
  <2>1. Outcomes = [m \in Asked |-> "idle"] /\ Ran = [m \in Asked |-> 0]
    BY DEF Init, Outcomes, Outcome, Ran, Asked
  <2> QED
    BY <2>1 DEF Promised!Init, Outcomes, Ran, Asked
<1>2. Init => FullInv
  BY FullInit
<1>3. FullInv /\ [Next]_vars => FullInv'
  BY FullStep
<1>4. FullInv /\ [Next]_vars => [Promised!Next]_(Promised!vars)
  BY StepRefines
<1> QED
  BY <1>1, <1>2, <1>3, <1>4, PTL DEF Spec, KeepsPromise, Promised!Spec

-----------------------------------------------------------------------------
(* One home for what a handler sends *)

(* What has been sent is listed once. *)
SentOnce ==
  /\ OneEach(sent)
  /\ \A m \in Msg : m \in Elems(sent) <=> phase[m] # "new"

(* A handler runs once and in one place, so that what it sends has one home. *)
Homes == \A m \in Msg : phase[m] # "new" =>
  IF Parent[m] = Main THEN home[m] = Main
  ELSE /\ runs[Parent[m]] = 1
       /\ \A p \in Place, s \in Service : Active(p, s, Parent[m]) => home[m] = p
Together == \A m, n \in Msg :
  phase[m] # "new" /\ phase[n] # "new" /\ Parent[m] = Parent[n] => home[m] = home[n]

HomeInv == SentOnce /\ Homes /\ Together

(* Nothing is sent, and no method begins to run. *)
Silent ==
  /\ UNCHANGED <<home, sent>>
  /\ \A m \in Msg : phase'[m] = "new" <=> phase[m] = "new"
Steady ==
  /\ runs' = runs
  /\ \A p \in Place, s \in Service, m \in Msg : Active(p, s, m)' => Active(p, s, m)

(* Only Send() sends. *)
LEMMA OthersSendNothing ==
  ASSUME FullInv, [Next]_vars, \A m \in Msg : ~Send(m)
  PROVE  Silent
<1>1. TypeOK /\ PlaceInv
  BY DEF FullInv
<1>2. UNCHANGED <<home, sent>>
  <2>1. ASSUME NEW x \in Endpoint, BrokerReceive(x) PROVE UNCHANGED <<home, sent>>
    BY <2>1 DEF BrokerReceive, RouteAnswer, RouteRegistration, RouteUnregistered,
                RouteToHost, RouteCold, clientVars, history
  <2>2. ASSUME NEW m \in Msg, Timeout(m) \/ LaunchDone(m) \/ LaunchFail(m) \/ Resume(m)
        PROVE  UNCHANGED <<home, sent>>
    BY <2>2 DEF Timeout, LaunchDone, LaunchFail, Resume, clientVars, history
  <2>3. ASSUME NEW x \in Endpoint, EndpointReceive(x) PROVE UNCHANGED <<home, sent>>
    BY <2>3 DEF EndpointReceive, history
  <2>4. ASSUME NEW p \in Place, NEW s \in Service, NEW a,
             Invoke(p, s) \/ Reject(p, s) \/ Finish(p, s, a)
        PROVE  UNCHANGED <<home, sent>>
    BY <2>4 DEF Invoke, Reject, Finish, clientVars, history
  <2>5. ASSUME \/ \E s \in Service : LocalLoaded(s)
               \/ \E h \in Host : Crash(h)
               \/ Dispose \/ UNCHANGED vars
        PROVE  UNCHANGED <<home, sent>>
    BY <2>5 DEF LocalLoaded, Crash, Dispose, vars, clientVars, history
  <2> QED
    BY <2>1, <2>2, <2>3, <2>4, <2>5 DEF Next
<1>3. ASSUME NEW m \in Msg PROVE phase'[m] = "new" <=> phase[m] = "new"
  <2>1. CASE GivesUp
    BY <2>1 DEF GivesUp
  <2>2. ASSUME NEW x \in Endpoint, EndpointReceive(x)
        PROVE  phase'[m] = "new" <=> phase[m] = "new"
    <3>1. CASE phase' # phase
      <4>1. PICK n \in Msg, type \in Answers :
              phase[n] = "pending" /\ phase' = [phase EXCEPT ![n] = type]
        BY <1>1, <2>2, <3>1, Settles
      <4> QED
        BY <1>1, <4>1 DEF TypeOK, Answers
    <3> QED
      BY <3>1
  <2>3. ASSUME NEW p \in Place, NEW s \in Service, Invoke(p, s)
        PROVE  phase'[m] = "new" <=> phase[m] = "new"
    BY <2>3 DEF Invoke, clientVars
  <2> QED
    BY <1>1, <2>1, <2>2, <2>3, OthersGiveUp DEF Next
<1> QED
  BY <1>2, <1>3 DEF Silent

(* A message that comes to a chain leaves what runs there. *)
LEMMA RunsOn ==
  ASSUME TypeOK, Busy, NEW q \in Place, NEW t \in Service, NEW n \in Msg,
         chain' = [chain EXCEPT ![q][t] = Append(@, n)], running' = running,
         NEW p \in Place, NEW s \in Service, NEW m \in Msg, Active(p, s, m)'
  PROVE  Active(p, s, m)
<1>1. running[p][s] /\ chain[p][s] # <<>> /\ chain[p][s] \in Seq(Msg)
  BY DEF Active, Busy, TypeOK
<1>2. chain'[p][s] = chain[p][s] \/ chain'[p][s] = Append(chain[p][s], n)
  BY DEF TypeOK
<1>3. Head(chain'[p][s]) = Head(chain[p][s])
  <2>1. Len(chain[p][s]) >= 1 /\ Append(chain[p][s], n)[1] = chain[p][s][1]
    BY <1>1
  <2> QED
    BY <1>1, <1>2, <2>1
<1> QED
  BY <1>1, <1>3 DEF Active

(* Only Invoke() runs a method. *)
LEMMA OthersRunNothing ==
  ASSUME FullInv, [Next]_vars, \A p \in Place, s \in Service : ~Invoke(p, s)
  PROVE  Steady
<1>1. TypeOK /\ PlaceInv /\ Busy
  BY DEF FullInv, PlaceInv
<1>2. runs' = runs
  <2>1. ASSUME NEW m \in Msg, Send(m) PROVE runs' = runs
    BY <2>1 DEF Send
  <2>2. ASSUME NEW x \in Endpoint, EndpointReceive(x) PROVE runs' = runs
    BY <2>2 DEF EndpointReceive, history
  <2> QED
    BY <1>1, <2>1, <2>2, OthersGiveUp DEF Next, GivesUp
<1> SUFFICES ASSUME NEW p \in Place, NEW s \in Service, NEW m \in Msg, Active(p, s, m)'
             PROVE  Active(p, s, m)
  BY <1>2 DEF Steady
<1>3. CASE UNCHANGED <<chain, running>>
  BY <1>3 DEF Active
<1>4. ASSUME NEW k \in Msg, NEW h \in Place, NEW pending, Deliver(k, h, pending), running' = running
      PROVE  Active(p, s, m)
  <2>1. CASE chain' = chain
    BY <1>3, <1>4, <2>1
  <2>2. CASE chain' # chain
    <3>1. chain' = [chain EXCEPT ![Local][To[k]] = Append(@, k)] /\ To[k] \in Service /\ Local \in Place
      BY <1>4, <2>2 DEF Deliver, Place
    <3> QED
      BY <1>1, <1>4, <3>1, RunsOn
  <2> QED
    BY <2>1, <2>2
<1>5. ASSUME NEW x \in Endpoint, BrokerReceive(x) PROVE Active(p, s, m)
  <2>1. PICK e \in Envelope : e = Head(up[x])
    BY <1>1, <1>5, TakenType DEF BrokerReceive
  <2>2. e.id \in Msg /\ To[e.id] \in Service
    BY DEF Envelope
  <2>3. CASE RouteToHost(x, e)
    <3>1. PICK h \in Place : h = serviceToHost[To[e.id]]
      BY <1>1, <2>2, <2>3 DEF RouteToHost, TypeOK
    <3>2. Deliver(e.id, h, [up EXCEPT ![x] = Tail(@)]) /\ running' = running
      BY <2>3, <3>1 DEF RouteToHost
    <3> QED
      BY <1>4, <2>2, <3>2
  <2>4. CASE ~RouteToHost(x, e)
    <3>1. UNCHANGED <<chain, running>>
      BY <1>5, <2>1, <2>4 DEF BrokerReceive, RouteAnswer, RouteRegistration,
                               RouteUnregistered, RouteCold, hostVars
    <3> QED
      BY <1>3, <3>1
  <2> QED
    BY <2>3, <2>4
<1>6. ASSUME NEW k \in Msg, LaunchDone(k) \/ Resume(k) PROVE Active(p, s, m)
  <2>1. PICK h \in Place : h = awaits[k]
    BY <1>1, <1>6 DEF LaunchDone, Launching, Resume, TypeOK, Place
  <2>2. running' = running /\ (chain' = chain \/ Deliver(k, h, up))
    BY <1>6, <2>1 DEF LaunchDone, Resume
  <2> QED
    BY <1>3, <1>4, <2>2
<1>7. ASSUME NEW x \in Endpoint, EndpointReceive(x) PROVE Active(p, s, m)
  <2>1. PICK e \in Envelope : e = Head(down[x])
    BY <1>1, <1>7, TakenType DEF EndpointReceive
  <2>2. e.id \in Msg /\ To[e.id] \in Service /\ running' = running
        /\ (chain' = chain \/ chain' = [chain EXCEPT ![x][To[e.id]] = Append(@, e.id)])
    BY <1>7, <2>1 DEF EndpointReceive, Envelope
  <2>3. CASE chain' = chain
    BY <1>3, <2>2, <2>3
  <2>4. CASE chain' # chain /\ x \in Place
    BY <1>1, <2>2, <2>4, RunsOn
  <2>5. CASE x \notin Place
    <3>1. chain' = chain
      BY <1>1, <2>2, <2>5 DEF TypeOK
    <3> QED
      BY <1>3, <2>2, <3>1
  <2> QED
    BY <2>3, <2>4, <2>5
<1>8. ASSUME NEW q \in Place, NEW t \in Service, NEW a \in HostAnswers, Leaves(q, t, a)
      PROVE  Active(p, s, m)
  <2>1. /\ running' = [running EXCEPT ![q][t] = FALSE]
        /\ chain' = [chain EXCEPT ![q][t] = Tail(@)]
    BY <1>8 DEF Leaves
  <2>2. CASE q = p /\ t = s
    BY <1>1, <2>1, <2>2 DEF Active, TypeOK
  <2>3. CASE ~(q = p /\ t = s)
    <3>1. running'[p][s] = running[p][s] /\ chain'[p][s] = chain[p][s]
      BY <1>1, <2>1, <2>3 DEF TypeOK
    <3> QED
      BY <3>1 DEF Active
  <2> QED
    BY <2>2, <2>3
<1>9. ASSUME NEW h \in Host, Crash(h) PROVE Active(p, s, m)
  <2>1. /\ running' = [running EXCEPT ![h] = [r \in Service |-> FALSE]]
        /\ chain' = [chain EXCEPT ![h] = [r \in Service |-> <<>>]]
    BY <1>9 DEF Crash
  <2>2. CASE p = h
    BY <1>1, <2>1, <2>2 DEF Active, TypeOK
  <2>3. CASE p # h
    BY <1>1, <2>1, <2>3 DEF Active, TypeOK
  <2> QED
    BY <2>2, <2>3
<1>10. CASE Dispose
  <2>1. CASE InProcess
    BY <1>3, <1>10, <2>1 DEF Dispose
  <2>2. CASE ~InProcess
    <3>1. running' = [q \in Place |-> [r \in Service |-> FALSE]]
      BY <1>10, <2>2 DEF Dispose
    <3> QED
      BY <3>1 DEF Active
  <2> QED
    BY <2>1, <2>2
<1>11. ASSUME NEW k \in Msg, Send(k) \/ Timeout(k) \/ LaunchFail(k) PROVE UNCHANGED <<chain, running>>
  BY <1>11 DEF Send, Timeout, LaunchFail, hostVars
<1>12. ASSUME NEW t \in Service, LocalLoaded(t) PROVE UNCHANGED <<chain, running>>
  BY <1>12 DEF LocalLoaded
<1>13. ASSUME UNCHANGED vars PROVE UNCHANGED <<chain, running>>
  BY <1>13 DEF vars, hostVars
<1>14. ASSUME NEW q \in Place, NEW t \in Service,
              Reject(q, t) \/ Finish(q, t, "return") \/ Finish(q, t, "error")
       PROVE  Active(p, s, m)
  BY <1>1, <1>8, <1>14, MessageLeaves DEF HostAnswers
<1> QED
  BY <1>3, <1>5, <1>6, <1>7, <1>9, <1>10, <1>11, <1>12, <1>13, <1>14 DEF Next

(* What runs has run once, and nowhere else. *)
LEMMA ActiveOnce ==
  ASSUME TypeOK, PlaceInv, NEW p \in Place, NEW s \in Service, NEW m \in Msg, Active(p, s, m)
  PROVE  /\ runs[m] = 1
         /\ \A q \in Place, t \in Service : Active(q, t, m) => q = p
<1>1. chain[p][s] # <<>> /\ m = Head(chain[p][s])
  BY DEF Active, PlaceInv, Busy
<1>2. ChainSound(p, s, m) /\ \A q \in Place, t \in Service : InChain(q, t, m) => q = p /\ t = s
  BY <1>1, HeadPlaces
<1>3. ASSUME NEW q \in Place, NEW t \in Service, Active(q, t, m)
      PROVE  q = p
  <2>1. chain[q][t] # <<>> /\ m = Head(chain[q][t])
    BY <1>3 DEF Active, PlaceInv, Busy
  <2>2. InChain(q, t, m)
    BY <2>1, HeadPlaces
  <2> QED
    BY <1>2, <2>2
<1> QED
  BY <1>2, <1>3 DEF ChainSound

(* A message is sent from where its parent runs. *)
LEMMA SendHome ==
  ASSUME FullInv, HomeInv, NEW m \in Msg, Send(m)
  PROVE  HomeInv'
<1>1. TypeOK /\ PlaceInv
  BY DEF FullInv
<1>2. PICK x \in Endpoint : /\ home' = [home EXCEPT ![m] = x]
                            /\ IF Parent[m] = Main THEN x = Main ELSE Runs(Parent[m], x)
  BY DEF Send
<1>3. /\ phase[m] = "new" /\ sent' = Append(sent, m)
      /\ phase' = [phase EXCEPT ![m] = IF m \in Call THEN "pending" ELSE "sent"]
      /\ UNCHANGED <<chain, running, runs>>
  BY DEF Send, hostVars
<1>4. /\ \A n \in Msg : phase'[n] = "new" <=> n # m /\ phase[n] = "new"
      /\ \A n \in Msg : home'[n] = IF n = m THEN x ELSE home[n]
  BY <1>1, <1>2, <1>3 DEF TypeOK
<1>5. /\ \A p \in Place, s \in Service, n \in Msg : Active(p, s, n)' <=> Active(p, s, n)
  BY <1>3 DEF Active
<1>6. SentOnce'
  <2>1. sent \in Seq(Msg) /\ m \notin Elems(sent) /\ OneEach(sent)
    BY <1>1, <1>3 DEF TypeOK, HomeInv, SentOnce
  <2>2. Elems(sent') = Elems(sent) \cup {m} /\ OneEach(sent')
    BY <1>3, <2>1, ElemsAppend
  <2> QED
    BY <1>4, <2>2 DEF HomeInv, SentOnce
<1>7. Parent[m] # Main => /\ Parent[m] \in Msg /\ x \in Place /\ To[Parent[m]] \in Service
                          /\ Active(x, To[Parent[m]], Parent[m])
  BY <1>2 DEF Runs, Active
<1>8. Parent[m] # Main =>
        /\ runs[Parent[m]] = 1
        /\ \A p \in Place, s \in Service : Active(p, s, Parent[m]) => p = x
  BY <1>1, <1>7, ActiveOnce
<1>9. Homes'
  <2> SUFFICES ASSUME NEW n \in Msg, phase'[n] # "new"
               PROVE  IF Parent[n] = Main THEN home'[n] = Main
                      ELSE /\ runs[Parent[n]] = 1
                           /\ \A p \in Place, s \in Service : Active(p, s, Parent[n]) => home'[n] = p
    BY <1>3, <1>5 DEF Homes
  <2>1. CASE n = m
    BY <1>2, <1>4, <1>8, <2>1
  <2>2. CASE n # m
    BY <1>4, <2>2 DEF HomeInv, Homes
  <2> QED
    BY <2>1, <2>2
<1>10. ASSUME NEW n \in Msg, phase[n] # "new", Parent[n] = Parent[m]
       PROVE  home[n] = x
  BY <1>2, <1>7, <1>10 DEF HomeInv, Homes
<1>11. Together'
  <2> SUFFICES ASSUME NEW k \in Msg, NEW n \in Msg, phase'[k] # "new", phase'[n] # "new",
                      Parent[k] = Parent[n]
               PROVE  home'[k] = home'[n]
    BY DEF Together
  <2>1. CASE k # m /\ n # m
    BY <1>4, <2>1 DEF HomeInv, Together
  <2>2. CASE k = m \/ n = m
    BY <1>4, <1>10, <2>2
  <2> QED
    BY <2>1, <2>2
<1> QED
  BY <1>6, <1>9, <1>11 DEF HomeInv

(* A method that begins to run has sent nothing. *)
LEMMA InvokeHome ==
  ASSUME FullInv, HomeInv, NEW p \in Place, NEW s \in Service, Invoke(p, s)
  PROVE  HomeInv'
<1>1. TypeOK /\ PlaceInv
  BY DEF FullInv
<1>2. PICK m \in Msg : m = Head(chain[p][s])
  BY <1>1, QueueType DEF Invoke, TypeOK
<1>3. /\ chain[p][s] # <<>> /\ ~running[p][s]
      /\ running' = [running EXCEPT ![p][s] = TRUE]
      /\ runs' = [runs EXCEPT ![m] = @ + 1]
      /\ UNCHANGED <<phase, home, sent, chain>>
  BY <1>2 DEF Invoke, clientVars
<1>4. runs[m] = 0
  <2>1. ChainSound(p, s, m)
    BY <1>1, <1>2, <1>3, HeadPlaces
  <2> QED
    BY <1>3, <2>1 DEF ChainSound, Active
<1>5. /\ \A q \in Place, t \in Service : running'[q][t] = IF q = p /\ t = s THEN TRUE ELSE running[q][t]
      /\ \A n \in Msg : n # m => runs'[n] = runs[n]
  BY <1>1, <1>3 DEF TypeOK
<1>6. Homes'
  <2> SUFFICES ASSUME NEW n \in Msg, phase[n] # "new"
               PROVE  IF Parent[n] = Main THEN home[n] = Main
                      ELSE /\ runs'[Parent[n]] = 1
                           /\ \A q \in Place, t \in Service : Active(q, t, Parent[n])' => home[n] = q
    BY <1>3 DEF Homes
  <2>1. CASE Parent[n] = Main
    BY <2>1 DEF HomeInv, Homes
  <2>2. CASE Parent[n] # Main
    <3>1. /\ runs[Parent[n]] = 1 /\ Parent[n] \in Msg
          /\ \A q \in Place, t \in Service : Active(q, t, Parent[n]) => home[n] = q
      BY <2>2 DEF HomeInv, Homes
    <3>2. Parent[n] # m
      BY <1>4, <3>1
    <3>3. ASSUME NEW q \in Place, NEW t \in Service, Active(q, t, Parent[n])'
          PROVE  Active(q, t, Parent[n])
      BY <1>2, <1>3, <1>5, <3>2, <3>3 DEF Active
    <3> QED
      BY <1>5, <2>2, <3>1, <3>2, <3>3
  <2> QED
    BY <2>1, <2>2
<1> QED
  BY <1>3, <1>6 DEF HomeInv, SentOnce, Together

(* Every step keeps that what a method sends has one home. *)
LEMMA HomeStep ==
  ASSUME FullInv, HomeInv, [Next]_vars
  PROVE  HomeInv'
<1>1. CASE \E m \in Msg : Send(m)
  BY <1>1, SendHome
<1>2. CASE \E p \in Place, s \in Service : Invoke(p, s)
  BY <1>2, InvokeHome
<1>3. CASE (\A m \in Msg : ~Send(m)) /\ (\A p \in Place, s \in Service : ~Invoke(p, s))
  <2>1. Silent /\ Steady
    BY <1>3, OthersSendNothing, OthersRunNothing
  <2>2. SentOnce' /\ Together'
    BY <2>1 DEF Silent, HomeInv, SentOnce, Together
  <2>3. Homes'
    <3> SUFFICES ASSUME NEW n \in Msg, phase'[n] # "new"
                 PROVE  IF Parent[n] = Main THEN home[n] = Main
                        ELSE /\ runs[Parent[n]] = 1
                             /\ \A q \in Place, t \in Service : Active(q, t, Parent[n])' => home[n] = q
      BY <2>1 DEF Silent, Steady, Homes
    <3>1. phase[n] # "new" /\ (Parent[n] # Main => Parent[n] \in Msg)
      BY <2>1 DEF Silent
    <3> QED
      BY <2>1, <3>1 DEF Steady, HomeInv, Homes
  <2> QED
    BY <2>2, <2>3 DEF HomeInv
<1> QED
  BY <1>1, <1>2, <1>3

-----------------------------------------------------------------------------
(* Hosts that are launched, by the worker broker *)

(* A host that is being launched has been handed nothing, and is awaited by one
   message at most. *)
NotYet(h) ==
  /\ \A i \in 1 .. Len(delivered) : delivered[i][1] # h
  /\ \A s \in Service : serviceToHost[s] # h

HostInv ==
  /\ \A m \in Msg : awaits[m] \in Host \cup {None}
  /\ \A s \in Service : serviceToHost[s] \in Host \cup {None}
  /\ \A m \in Msg : Waits(m) => hostState[awaits[m]] = "launching"
  /\ \A m, n \in Msg : Waits(m) /\ awaits[m] = awaits[n] => m = n
  /\ \A h \in Host : hostState[h] \in {"unused", "launching"} => NotYet(h)

(* What was handed over stays, and one more comes after it. *)
LEMMA DeliveredGrows ==
  ASSUME TypeOK, NEW h \in Place, NEW m \in Msg, delivered' = Append(delivered, <<h, m>>)
  PROVE  /\ Len(delivered') = Len(delivered) + 1 /\ Len(delivered) \in Nat
         /\ \A i \in 1 .. Len(delivered) : delivered'[i] = delivered[i]
         /\ delivered'[Len(delivered) + 1] = <<h, m>>
<1>1. delivered \in Seq(Place \X Msg) /\ <<h, m>> \in Place \X Msg
  BY DEF TypeOK
<1> QED
  BY <1>1

(* While nothing is resumed, only routing, launches, crashes and dispose()
   concern the hosts. *)
LEMMA OthersLeaveHosts ==
  ASSUME ~InProcess, HostInv, [Next]_vars,
         \A x \in Endpoint : up[x] # <<>> => ~RouteToHost(x, Head(up[x])) /\ ~RouteCold(x, Head(up[x])),
         \A m \in Msg : ~LaunchDone(m) /\ ~LaunchFail(m),
         \A h \in Host : ~Crash(h), ~Dispose
  PROVE  UNCHANGED <<awaits, serviceToHost, hostState, delivered>>
<1>1. ASSUME NEW m \in Msg, Resume(m) PROVE FALSE
  BY <1>1 DEF Resume, HostInv, Waits, Launching
<1>2. ASSUME NEW x \in Endpoint, BrokerReceive(x)
      PROVE  UNCHANGED <<awaits, serviceToHost, hostState, delivered>>
  BY <1>2 DEF BrokerReceive, RouteAnswer, RouteRegistration, RouteUnregistered,
              routingVars, hostVars, history
<1>3. ASSUME NEW m \in Msg, Send(m) \/ Timeout(m)
      PROVE  UNCHANGED <<awaits, serviceToHost, hostState, delivered>>
  BY <1>3 DEF Send, Timeout, routingVars, hostVars, history
<1>4. ASSUME NEW x \in Endpoint, EndpointReceive(x)
      PROVE  UNCHANGED <<awaits, serviceToHost, hostState, delivered>>
  BY <1>4 DEF EndpointReceive, routingVars, history
<1>5. ASSUME NEW p \in Place, NEW s \in Service, NEW a,
             Invoke(p, s) \/ Reject(p, s) \/ Finish(p, s, a)
      PROVE  UNCHANGED <<awaits, serviceToHost, hostState, delivered>>
  BY <1>5 DEF Invoke, Reject, Finish, routingVars, history
<1>6. ASSUME NEW s \in Service, LocalLoaded(s)
      PROVE  UNCHANGED <<awaits, serviceToHost, hostState, delivered>>
  BY <1>6 DEF LocalLoaded, routingVars, history
<1>7. ASSUME UNCHANGED vars
      PROVE  UNCHANGED <<awaits, serviceToHost, hostState, delivered>>
  BY <1>7 DEF vars, routingVars, hostVars, history
<1> QED
  BY <1>1, <1>2, <1>3, <1>4, <1>5, <1>6, <1>7 DEF Next

(* Every step keeps what is known of a host that is being launched. *)
LEMMA HostStep ==
  ASSUME FullInv, ~InProcess, HostInv, [Next]_vars
  PROVE  HostInv'
<1>1. TypeOK /\ PlaceInv
  BY DEF FullInv
<1>2. ASSUME NEW x \in Endpoint, up[x] # <<>>, RouteToHost(x, Head(up[x]))
      PROVE  HostInv'
  <2>1. PICK e \in Envelope : e = Head(up[x])
    BY <1>1, <1>2, TakenType
  <2>2. PICK m \in Msg : m = e.id /\ To[m] \in Service
    BY DEF Envelope
  <2>3. PICK h \in Host : h = serviceToHost[To[m]]
    BY <1>2, <2>1, <2>2 DEF RouteToHost, HostInv
  <2>4. /\ delivered' = Append(delivered, <<h, m>>)
        /\ UNCHANGED <<awaits, serviceToHost, hostState>>
    BY <1>2, <2>1, <2>2, <2>3 DEF RouteToHost, Deliver
  <2>5. /\ Len(delivered') = Len(delivered) + 1 /\ Len(delivered) \in Nat
        /\ \A i \in 1 .. Len(delivered) : delivered'[i] = delivered[i]
        /\ delivered'[Len(delivered) + 1] = <<h, m>>
    BY <1>1, <2>4, DeliveredGrows DEF Place
  <2>6. ASSUME NEW g \in Host, hostState[g] \in {"unused", "launching"}
        PROVE  NotYet(g)'
    <3>1. NotYet(g) /\ g # h
      BY <2>2, <2>3, <2>6 DEF HostInv, NotYet
    <3>2. \A i \in 1 .. Len(delivered) + 1 : i \in 1 .. Len(delivered) \/ i = Len(delivered) + 1
      BY <2>5
    <3>3. \A i \in 1 .. Len(delivered) + 1 : delivered'[i][1] # g
      BY <2>5, <3>1, <3>2 DEF NotYet
    <3> QED
      BY <2>4, <2>5, <3>1, <3>3 DEF NotYet
  <2> QED
    BY <2>4, <2>6 DEF HostInv, Waits
<1>3. ASSUME NEW x \in Endpoint, up[x] # <<>>, RouteCold(x, Head(up[x]))
      PROVE  HostInv'
  <2>1. PICK e \in Envelope : e = Head(up[x])
    BY <1>1, <1>3, TakenType
  <2>2. PICK m \in Msg : m = e.id /\ To[m] \in Service
    BY DEF Envelope
  <2>3. UNCHANGED <<serviceToHost, delivered>>
    BY <1>3 DEF RouteCold, history
  <2>4. CASE UNCHANGED <<awaits, hostState>>
    BY <2>3, <2>4 DEF HostInv, Waits, NotYet
  <2>5. CASE ~ UNCHANGED <<awaits, hostState>>
    <3>1. PICK h \in Host : /\ hostState[h] = "unused"
                            /\ hostState' = [hostState EXCEPT ![h] = "launching"]
                            /\ awaits' = [awaits EXCEPT ![m] = h]
      BY <1>3, <2>1, <2>2, <2>5 DEF RouteCold
    <3>2. /\ \A n \in Msg : awaits'[n] = IF n = m THEN h ELSE awaits[n]
          /\ \A g \in Host : hostState'[g] = IF g = h THEN "launching" ELSE hostState[g]
      BY <1>1, <3>1 DEF TypeOK
    <3>3. \A n \in Msg : awaits[n] # h
      BY <3>1 DEF HostInv, Waits, Endpoint
    <3>4. \A n \in Msg : Waits(n)' => hostState'[awaits'[n]] = "launching"
      BY <3>2, <3>3 DEF HostInv, Waits
    <3>5. \A k, n \in Msg : Waits(k)' /\ awaits'[k] = awaits'[n] => k = n
      BY <3>2, <3>3 DEF HostInv, Waits
    <3>6. \A g \in Host : hostState'[g] \in {"unused", "launching"} => NotYet(g)'
      BY <2>3, <3>1, <3>2 DEF HostInv, NotYet
    <3>7. \A n \in Msg : awaits'[n] \in Host \cup {None}
      BY <3>2 DEF HostInv
    <3> QED
      BY <2>3, <3>4, <3>5, <3>6, <3>7 DEF HostInv
  <2> QED
    BY <2>4, <2>5
<1>4. ASSUME NEW m \in Msg, LaunchDone(m)
      PROVE  HostInv'
  <2>1. PICK h \in Host : h = awaits[m] /\ hostState[h] = "launching"
    BY <1>4 DEF LaunchDone, Launching
  <2>2. /\ hostState' = [hostState EXCEPT ![h] = "up"]
        /\ serviceToHost' = [serviceToHost EXCEPT ![To[m]] = h]
        /\ awaits' = [awaits EXCEPT ![m] = None]
        /\ delivered' = Append(delivered, <<h, m>>)
    BY <1>4, <2>1 DEF LaunchDone, Deliver
  <2>3. /\ \A n \in Msg : awaits'[n] = IF n = m THEN None ELSE awaits[n]
        /\ \A g \in Host : hostState'[g] = IF g = h THEN "up" ELSE hostState[g]
        /\ \A s \in Service : serviceToHost'[s] = IF s = To[m] THEN h ELSE serviceToHost[s]
    BY <1>1, <2>2 DEF TypeOK
  <2>4. /\ Len(delivered') = Len(delivered) + 1 /\ Len(delivered) \in Nat
        /\ \A i \in 1 .. Len(delivered) : delivered'[i] = delivered[i]
        /\ delivered'[Len(delivered) + 1] = <<h, m>>
    BY <1>1, <2>2, DeliveredGrows DEF Place
  <2>5. \A n \in Msg : n # m => awaits[n] # h
    BY <2>1 DEF HostInv, Waits, Endpoint
  <2>6. ASSUME NEW g \in Host, hostState'[g] \in {"unused", "launching"}
        PROVE  NotYet(g)'
    <3>1. NotYet(g) /\ g # h
      BY <2>3, <2>6 DEF HostInv
    <3>2. \A i \in 1 .. Len(delivered) + 1 : i \in 1 .. Len(delivered) \/ i = Len(delivered) + 1
      BY <2>4
    <3>3. \A i \in 1 .. Len(delivered) + 1 : delivered'[i][1] # g
      BY <2>4, <3>1, <3>2 DEF NotYet
    <3> QED
      BY <2>3, <2>4, <3>1, <3>3 DEF NotYet
  <2>7. \A n \in Msg : Waits(n)' => hostState'[awaits'[n]] = "launching"
    BY <2>3, <2>5 DEF HostInv, Waits
  <2>8. \A k, n \in Msg : Waits(k)' /\ awaits'[k] = awaits'[n] => k = n
    BY <2>3 DEF HostInv, Waits
  <2>9. /\ \A n \in Msg : awaits'[n] \in Host \cup {None}
        /\ \A s \in Service : serviceToHost'[s] \in Host \cup {None}
    BY <2>3 DEF HostInv
  <2> QED
    BY <2>6, <2>7, <2>8, <2>9 DEF HostInv
<1>5. ASSUME NEW m \in Msg, LaunchFail(m)
      PROVE  HostInv'
  <2>1. PICK h \in Host : h = awaits[m]
    BY <1>5 DEF LaunchFail, Launching
  <2>2. /\ hostState' = [hostState EXCEPT ![h] = "dead"]
        /\ awaits' = [awaits EXCEPT ![m] = None]
        /\ UNCHANGED <<serviceToHost, delivered>>
    BY <1>5, <2>1 DEF LaunchFail, history
  <2>3. /\ \A n \in Msg : awaits'[n] = IF n = m THEN None ELSE awaits[n]
        /\ \A g \in Host : hostState'[g] = IF g = h THEN "dead" ELSE hostState[g]
    BY <1>1, <2>2 DEF TypeOK
  <2>4. \A n \in Msg : n # m => awaits[n] # h
    BY <2>1 DEF HostInv, Waits, Endpoint
  <2>5. \A n \in Msg : Waits(n)' => hostState'[awaits'[n]] = "launching"
    BY <2>3, <2>4 DEF HostInv, Waits
  <2>6. \A k, n \in Msg : Waits(k)' /\ awaits'[k] = awaits'[n] => k = n
    BY <2>3 DEF HostInv, Waits
  <2>7. \A g \in Host : hostState'[g] \in {"unused", "launching"} => NotYet(g)'
    BY <2>2, <2>3 DEF HostInv, NotYet
  <2>8. \A n \in Msg : awaits'[n] \in Host \cup {None}
    BY <2>3 DEF HostInv
  <2> QED
    BY <2>2, <2>5, <2>6, <2>7, <2>8 DEF HostInv
<1>6. ASSUME NEW h \in Host, Crash(h)
      PROVE  HostInv'
  <2>1. /\ hostState[h] = "up" /\ hostState' = [hostState EXCEPT ![h] = "dead"]
        /\ UNCHANGED <<awaits, serviceToHost, delivered>>
    BY <1>6 DEF Crash, routingVars, history
  <2>2. \A g \in Host : hostState'[g] = IF g = h THEN "dead" ELSE hostState[g]
    BY <1>1, <2>1 DEF TypeOK
  <2>3. \A n \in Msg : Waits(n)' => hostState'[awaits'[n]] = "launching"
    BY <2>1, <2>2 DEF HostInv, Waits
  <2>4. \A g \in Host : hostState'[g] \in {"unused", "launching"} => NotYet(g)'
    BY <2>1, <2>2 DEF HostInv, NotYet
  <2> QED
    BY <2>1, <2>3, <2>4 DEF HostInv, Waits
<1>7. CASE Dispose
  <2>1. /\ awaits' = [m \in Msg |-> None] /\ hostState' = [h \in Host |-> "closed"]
        /\ serviceToHost' = [s \in Service |-> None]
    BY <1>7 DEF Dispose
  <2>2. /\ \A m \in Msg : awaits'[m] = None
        /\ \A h \in Host : hostState'[h] = "closed"
        /\ \A s \in Service : serviceToHost'[s] = None
    BY <2>1
  <2> QED
    BY <2>2 DEF HostInv, Waits
<1>8. CASE UNCHANGED <<awaits, serviceToHost, hostState, delivered>>
  BY <1>8 DEF HostInv, Waits, NotYet
<1> QED
  BY <1>2, <1>3, <1>4, <1>5, <1>6, <1>7, <1>8, OthersLeaveHosts

-----------------------------------------------------------------------------
(* HostDeliveryOrder *)

(* In the order o of sending. *)
Earlier(o, m, n) == Index(o, m) < Index(o, n)

(* The messages of a channel are in that order. *)
Rising(o, q) == \A i, j \in 1 .. Len(q) :
  i < j /\ q[i].type = "message" /\ q[j].type = "message" => Earlier(o, q[i].id, q[j].id)

(* What has left the channels: it was delivered, or waits. *)
Passed == {delivered[i][2] : i \in 1 .. Len(delivered)} \cup {m \in Msg : Waits(m)}

(* What is still in a channel was sent after what has left it. *)
Behind(o, S, n) == \A m \in S : SameFlow(m, n) => Earlier(o, m, n)
AllBehind(o, S, q) == \A e \in Elems(q) : e.type = "message" => Behind(o, S, e.id)

OrderInv ==
  /\ InOrder(delivered)
  /\ Passed \subseteq Elems(sent)
  /\ \A x \in Endpoint : Rising(sent, up[x]) /\ AllBehind(sent, Passed, up[x])

WorkerInv == InProcess \/ (HostInv /\ OrderInv)

(* What is sent comes after all that was sent before, whose order stays. *)
LEMMA SentLater ==
  ASSUME NEW o \in Seq(Msg), OneEach(o), NEW m \in Msg, m \notin Elems(o)
  PROVE  /\ \A k, n \in Elems(o) : Earlier(o, k, n) => Earlier(Append(o, m), k, n)
         /\ \A k \in Elems(o) : Earlier(Append(o, m), k, m)
<1> DEFINE p == Append(o, m)
<1>1. /\ p \in Seq(Msg) /\ Len(p) = Len(o) + 1 /\ Len(o) \in Nat
      /\ \A i \in 1 .. Len(o) : p[i] = o[i]
      /\ p[Len(o) + 1] = m
      /\ DOMAIN o = 1 .. Len(o) /\ DOMAIN p = 1 .. Len(o) + 1
  OBVIOUS
<1>2. OneEach(p)
  BY ElemsAppend
<1> HIDE DEF p
<1>3. ASSUME NEW i \in 1 .. Len(o) PROVE Index(o, o[i]) = i /\ Index(p, o[i]) = i
  <2>1. \A j \in DOMAIN o : o[j] = o[i] <=> j = i
    BY <1>1 DEF OneEach
  <2>2. \A j \in DOMAIN p : p[j] = o[i] <=> j = i
    BY <1>1, <1>2 DEF OneEach
  <2>3. i \in DOMAIN o /\ i \in DOMAIN p
    BY <1>1
  <2> QED
    BY <2>1, <2>2, <2>3 DEF Index
<1>4. Index(p, m) = Len(o) + 1
  <2>1. \A j \in DOMAIN p : p[j] = m <=> j = Len(o) + 1
    BY <1>1, <1>2 DEF OneEach
  <2>2. Len(o) + 1 \in DOMAIN p
    BY <1>1
  <2> QED
    BY <2>1, <2>2 DEF Index
<1>5. \A k \in Elems(o) : \E i \in 1 .. Len(o) : k = o[i]
  BY DEF Elems
<1>6. \A k \in Elems(o) : Index(p, k) = Index(o, k) /\ Index(o, k) \in 1 .. Len(o)
  BY <1>3, <1>5
<1> QED
  BY <1>1, <1>4, <1>6 DEF Earlier, p

(* The channels of the messages sent are lists in order. *)
LEMMA RisingQueue ==
  ASSUME NEW o, NEW q \in Seq(Envelope), Rising(o, q)
  PROVE  /\ q # <<>> => /\ Rising(o, Tail(q))
                        /\ \A e \in Elems(Tail(q)) :
                             Head(q).type = "message" /\ e.type = "message" =>
                               Earlier(o, Head(q).id, e.id)
         /\ \A e \in Envelope :
              (\A f \in Elems(q) : f.type = "message" /\ e.type = "message" => Earlier(o, f.id, e.id))
                => Rising(o, Append(q, e))
<1>1. ASSUME q # <<>>
      PROVE  /\ Rising(o, Tail(q))
             /\ \A e \in Elems(Tail(q)) :
                  Head(q).type = "message" /\ e.type = "message" => Earlier(o, Head(q).id, e.id)
  <2>1. /\ Head(q) = q[1] /\ Len(q) \in Nat /\ Len(Tail(q)) = Len(q) - 1 /\ 1 \in 1 .. Len(q)
        /\ \A i \in 1 .. Len(q) - 1 : Tail(q)[i] = q[i + 1] /\ i + 1 \in 1 .. Len(q) /\ 1 < i + 1
    BY <1>1
  <2>2. \A i, j \in 1 .. Len(q) - 1 : i < j => i + 1 < j + 1
    BY <2>1
  <2>3. Rising(o, Tail(q))
    BY <2>1, <2>2 DEF Rising
  <2>4. \A e \in Elems(Tail(q)) : \E i \in 1 .. Len(q) - 1 : e = q[i + 1]
    BY <2>1 DEF Elems
  <2> QED
    BY <2>1, <2>3, <2>4 DEF Rising
<1>2. ASSUME NEW e \in Envelope,
             \A f \in Elems(q) : f.type = "message" /\ e.type = "message" => Earlier(o, f.id, e.id)
      PROVE  Rising(o, Append(q, e))
  <2> DEFINE r == Append(q, e)
  <2>1. /\ Len(r) = Len(q) + 1 /\ Len(q) \in Nat
        /\ \A i \in 1 .. Len(q) : r[i] = q[i]
        /\ r[Len(q) + 1] = e
    OBVIOUS
  <2> HIDE DEF r
  <2>2. SUFFICES ASSUME NEW i \in 1 .. Len(r), NEW j \in 1 .. Len(r), i < j,
                        r[i].type = "message", r[j].type = "message"
                 PROVE  Earlier(o, r[i].id, r[j].id)
    BY DEF Rising, r
  <2>3. i \in 1 .. Len(q) /\ r[i] = q[i]
    BY <2>1, <2>2
  <2>4. CASE j \in 1 .. Len(q)
    BY <2>1, <2>2, <2>3, <2>4 DEF Rising
  <2>5. CASE j = Len(q) + 1
    <3>1. q[i] \in Elems(q)
      BY <2>3 DEF Elems
    <3> QED
      BY <1>2, <2>1, <2>2, <2>3, <2>5, <3>1
  <2> QED
    BY <2>1, <2>4, <2>5
<1> QED
  BY <1>1, <1>2

(* What is delivered last, after all of its flow that its host has, is in order. *)
LEMMA OrderGrows ==
  ASSUME TypeOK, InOrder(delivered), sent' = sent, NEW h \in Place, NEW m \in Msg,
         delivered' = Append(delivered, <<h, m>>),
         \A i \in 1 .. Len(delivered) :
           delivered[i][1] = h /\ SameFlow(delivered[i][2], m) => Earlier(sent, delivered[i][2], m)
  PROVE  InOrder(delivered)'
<1>1. /\ Len(delivered') = Len(delivered) + 1 /\ Len(delivered) \in Nat
      /\ \A i \in 1 .. Len(delivered) : delivered'[i] = delivered[i]
      /\ delivered'[Len(delivered) + 1] = <<h, m>>
  BY DeliveredGrows
<1>2. DOMAIN delivered = 1 .. Len(delivered) /\ DOMAIN delivered' = 1 .. Len(delivered) + 1
  <2>1. delivered \in Seq(Place \X Msg) /\ <<h, m>> \in Place \X Msg
    BY DEF TypeOK
  <2> QED
    BY <1>1, <2>1
<1>3. SUFFICES ASSUME NEW i \in 1 .. Len(delivered) + 1, NEW j \in 1 .. Len(delivered) + 1,
                      i < j, delivered'[i][1] = delivered'[j][1],
                      SameFlow(delivered'[i][2], delivered'[j][2])
               PROVE  Index(sent, delivered'[i][2]) < Index(sent, delivered'[j][2])
  BY <1>2 DEF InOrder
<1>4. i \in 1 .. Len(delivered) /\ delivered'[i] = delivered[i]
  BY <1>1, <1>3
<1>5. CASE j \in 1 .. Len(delivered)
  BY <1>1, <1>2, <1>3, <1>4, <1>5 DEF InOrder
<1>6. CASE j = Len(delivered) + 1
  <2>1. delivered'[j][1] = h /\ delivered'[j][2] = m
    BY <1>1, <1>6
  <2> QED
    BY <1>3, <1>4, <2>1 DEF Earlier
<1> QED
  BY <1>1, <1>5, <1>6

(* A channel that loses its first envelope, loses all, or gets an answer. *)
Shrinks(q, r) ==
  \/ r = q \/ r = <<>>
  \/ q # <<>> /\ r = Tail(q)
  \/ \E e \in Envelope : e.type # "message" /\ r = Append(q, e)

(* A channel that loses its head, or gains an answer, keeps its messages in order. *)
LEMMA ShrinksKeeps ==
  ASSUME NEW o, NEW S, NEW q \in Seq(Envelope), NEW r, Rising(o, q), AllBehind(o, S, q), Shrinks(q, r)
  PROVE  Rising(o, r) /\ AllBehind(o, S, r)
<1>1. CASE r = q
  BY <1>1
<1>2. CASE r = <<>>
  <2>1. Len(r) = 0 /\ Elems(r) = {}
    BY <1>2, ElemsOfNone
  <2> QED
    BY <2>1 DEF Rising, AllBehind
<1>3. CASE q # <<>> /\ r = Tail(q)
  <2>1. Elems(Tail(q)) \subseteq Elems(q)
    BY <1>3, ElemsOfQueue
  <2>2. Rising(o, Tail(q))
    BY <1>3, RisingQueue
  <2> QED
    BY <1>3, <2>1, <2>2 DEF AllBehind
<1>4. ASSUME NEW e \in Envelope, e.type # "message", r = Append(q, e)
      PROVE  Rising(o, r) /\ AllBehind(o, S, r)
  <2>1. Elems(Append(q, e)) = Elems(q) \cup {e}
    BY ElemsOfQueue
  <2>2. Rising(o, Append(q, e))
    BY <1>4, RisingQueue
  <2> QED
    BY <1>4, <2>1, <2>2 DEF AllBehind
<1> QED
  BY <1>1, <1>2, <1>3, <1>4 DEF Shrinks

(* Steps that hand nothing over. *)
Quiet ==
  /\ UNCHANGED <<sent, delivered>>
  /\ \A m \in Msg : Waits(m)' => Waits(m)
  /\ \A x \in Endpoint : Shrinks(up[x], up'[x])

(* A step that sends, hands over and holds back no message keeps the order of all. *)
LEMMA QuietOrder ==
  ASSUME TypeOK, OrderInv, Quiet
  PROVE  OrderInv'
<1>1. Passed' \subseteq Passed /\ sent' = sent /\ delivered' = delivered
  BY DEF Quiet, Passed
<1>2. ASSUME NEW x \in Endpoint
      PROVE  Rising(sent, up'[x]) /\ AllBehind(sent, Passed', up'[x])
  <2>1. up[x] \in Seq(Envelope) /\ Rising(sent, up[x]) /\ AllBehind(sent, Passed, up[x])
    BY DEF TypeOK, OrderInv
  <2>2. Rising(sent, up'[x]) /\ AllBehind(sent, Passed, up'[x])
    BY <2>1, ShrinksKeeps DEF Quiet
  <2> QED
    BY <1>1, <2>2 DEF AllBehind, Behind
<1> QED
  BY <1>1, <1>2 DEF OrderInv, InOrder, SameFlow

(* The envelopes of a channel that are messages were sent, and from its end. *)
LEMMA MessagesUp ==
  ASSUME FullInv, HomeInv, NEW x \in Endpoint, NEW e \in Elems(up[x]), e.type = "message"
  PROVE  /\ e.id \in Msg /\ e.id \in Elems(sent)
         /\ home[e.id] = x /\ phase[e.id] # "new"
<1>1. up[x] \in Seq(Envelope) /\ PlaceInv
  BY DEF FullInv, TypeOK
<1>2. e \in Envelope
  BY <1>1, ElemsOfQueue
<1>3. PICK m \in Msg : m = e.id
  BY <1>2 DEF Envelope
<1>4. Sound(m) /\ AtUp(x, m)
  BY <1>1, <1>3 DEF PlaceInv, AtUp
<1>5. UpSound(x, e) /\ phase[m] # "new"
  BY <1>3, <1>4 DEF Sound, PhaseSound, Nowhere
<1> QED
  BY <1>3, <1>5 DEF UpSound, HomeInv, SentOnce

(* The head of a channel is handed over or waits: what follows it in its flow is
   behind it in the same channel. *)
LEMMA HeadPasses ==
  ASSUME FullInv, HomeInv, OrderInv, NEW x \in Endpoint, up[x] # <<>>,
         NEW m \in Msg, Head(up[x]).type = "message", Head(up[x]).id = m,
         up' = [up EXCEPT ![x] = Tail(@)], sent' = sent,
         Passed' \subseteq Passed \cup {m}, InOrder(delivered)'
  PROVE  OrderInv'
<1>1. TypeOK /\ up[x] \in Seq(Envelope)
  BY DEF FullInv, TypeOK
<1>2. /\ Head(up[x]) \in Elems(up[x]) /\ Elems(Tail(up[x])) \subseteq Elems(up[x])
  BY <1>1, ElemsOfQueue
<1>3. m \in Elems(sent) /\ home[m] = x /\ phase[m] # "new"
  BY <1>2, MessagesUp
<1>4. \A y \in Endpoint : up'[y] = IF y = x THEN Tail(up[x]) ELSE up[y]
  BY <1>1 DEF TypeOK
<1>5. ASSUME NEW y \in Endpoint, NEW e \in Elems(up'[y]), e.type = "message"
      PROVE  Behind(sent, Passed', e.id)
  <2>1. e \in Elems(up[y])
    BY <1>2, <1>4, <1>5
  <2>2. Behind(sent, Passed, e.id)
    BY <1>5, <2>1 DEF OrderInv, AllBehind
  <2>3. e.id \in Msg /\ home[e.id] = y /\ phase[e.id] # "new"
    BY <1>5, <2>1, MessagesUp
  <2>4. ASSUME SameFlow(m, e.id) PROVE Earlier(sent, m, e.id)
    <3>1. y = x
      BY <1>3, <2>3, <2>4 DEF SameFlow, HomeInv, Together
    <3>2. e \in Elems(Tail(up[x])) /\ Rising(sent, up[x])
      BY <1>4, <1>5, <3>1 DEF OrderInv
    <3> QED
      BY <1>1, <1>5, <3>2, RisingQueue
  <2> QED
    BY <2>2, <2>4 DEF Behind
<1>6. ASSUME NEW y \in Endpoint
      PROVE  Rising(sent, up'[y])
  <2>1. Rising(sent, up[y])
    BY DEF OrderInv
  <2>2. Rising(sent, Tail(up[x]))
    <3>1. Rising(sent, up[x])
      BY DEF OrderInv
    <3> QED
      BY <1>1, <3>1, RisingQueue
  <2> QED
    BY <1>4, <2>1, <2>2
<1>7. Passed' \subseteq Elems(sent)
  BY <1>3 DEF OrderInv
<1> QED
  BY <1>5, <1>6, <1>7 DEF OrderInv, AllBehind

(* Sending appends to a channel what comes after everything that has left it. *)
LEMMA SendOrder ==
  ASSUME FullInv, HomeInv, OrderInv, NEW m \in Msg, Send(m)
  PROVE  OrderInv'
<1>1. TypeOK /\ sent \in Seq(Msg) /\ OneEach(sent) /\ m \notin Elems(sent)
  BY DEF FullInv, TypeOK, Send, HomeInv, SentOnce
<1>2. PICK x \in Endpoint : up' = Post(x, Env("message", m))
  BY DEF Send
<1>3. sent' = Append(sent, m) /\ UNCHANGED <<awaits, delivered>>
  BY DEF Send, routingVars
<1>4. /\ \A k, n \in Elems(sent) : Earlier(sent, k, n) => Earlier(sent', k, n)
      /\ \A k \in Elems(sent) : Earlier(sent', k, m)
  BY <1>1, <1>3, SentLater
<1>5. Passed' = Passed /\ Passed \subseteq Elems(sent) /\ Elems(sent') = Elems(sent) \cup {m}
  BY <1>1, <1>3, ElemsAppend DEF Passed, Waits, OrderInv
<1> DEFINE a == Env("message", m)
<1>6. a \in Envelope /\ a.type = "message" /\ a.id = m
  BY EnvType
<1>7. \A y \in Endpoint : up'[y] = up[y] \/ up'[y] = Append(up[y], a)
  BY <1>1, <1>2 DEF Post, TypeOK
<1> HIDE DEF a
<1>8. ASSUME NEW y \in Endpoint
      PROVE  Rising(sent', up'[y]) /\ AllBehind(sent', Passed, up'[y])
  <2>1. up[y] \in Seq(Envelope) /\ Rising(sent, up[y]) /\ AllBehind(sent, Passed, up[y])
    BY <1>1 DEF TypeOK, OrderInv
  <2>2. \A e \in Elems(up[y]) : e.type = "message" => e.id \in Elems(sent)
    BY MessagesUp
  <2>3. Rising(sent', up[y])
    <3>1. \A i \in 1 .. Len(up[y]) : up[y][i] \in Elems(up[y])
      BY DEF Elems
    <3> QED
      BY <1>4, <2>1, <2>2, <3>1 DEF Rising
  <2>4. AllBehind(sent', Passed, up[y])
    BY <1>4, <1>5, <2>1, <2>2 DEF AllBehind, Behind
  <2>5. Rising(sent', Append(up[y], a))
    <3>1. \A f \in Elems(up[y]) : f.type = "message" /\ a.type = "message" => Earlier(sent', f.id, a.id)
      BY <1>4, <1>6, <2>2
    <3> QED
      BY <1>6, <2>1, <2>3, <3>1, RisingQueue
  <2>6. AllBehind(sent', Passed, Append(up[y], a))
    <3>1. Elems(Append(up[y], a)) = Elems(up[y]) \cup {a}
      BY <1>6, <2>1, ElemsOfQueue
    <3>2. Behind(sent', Passed, m)
      BY <1>4, <1>5 DEF Behind
    <3> QED
      BY <1>6, <2>4, <3>1, <3>2 DEF AllBehind
  <2> QED
    BY <1>7, <2>3, <2>4, <2>5, <2>6
<1>9. InOrder(delivered)'
  <2>1. /\ DOMAIN delivered = 1 .. Len(delivered)
        /\ \A i \in 1 .. Len(delivered) : delivered[i][2] \in Elems(sent)
    <3>1. delivered \in Seq(Place \X Msg)
      BY <1>1 DEF TypeOK
    <3>2. \A i \in 1 .. Len(delivered) : delivered[i][2] \in Passed
      BY DEF Passed
    <3> QED
      BY <1>5, <3>1, <3>2
  <2>2. \A k, n \in Elems(sent) : Index(sent, k) < Index(sent, n) => Index(sent', k) < Index(sent', n)
    BY <1>4 DEF Earlier
  <2> QED
    BY <1>3, <2>1, <2>2 DEF OrderInv, InOrder
<1> QED
  BY <1>5, <1>8, <1>9 DEF OrderInv

(* The message of a launch that is over is the first its host gets. *)
LEMMA LaunchOrder ==
  ASSUME FullInv, ~InProcess, HostInv, OrderInv, NEW m \in Msg, LaunchDone(m)
  PROVE  OrderInv'
<1>1. TypeOK
  BY DEF FullInv
<1>2. PICK h \in Host : h = awaits[m] /\ hostState[h] = "launching"
  BY DEF LaunchDone, Launching
<1>3. /\ delivered' = Append(delivered, <<h, m>>) /\ up' = up /\ sent' = sent
      /\ awaits' = [awaits EXCEPT ![m] = None]
  <2>1. h # Local /\ Deliver(m, h, up)
    BY <1>2 DEF LaunchDone
  <2> QED
    BY <2>1 DEF LaunchDone, Deliver
<1>4. NotYet(h) /\ Waits(m) /\ h \in Place
  BY <1>2 DEF HostInv, Waits, Endpoint, Place
<1>5. InOrder(delivered)'
  BY <1>1, <1>3, <1>4, OrderGrows DEF NotYet, OrderInv
<1>6. Passed' \subseteq Passed
  <2>1. /\ Len(delivered') = Len(delivered) + 1 /\ Len(delivered) \in Nat
        /\ \A i \in 1 .. Len(delivered) : delivered'[i] = delivered[i]
        /\ delivered'[Len(delivered) + 1] = <<h, m>>
    BY <1>1, <1>3, <1>4, DeliveredGrows
  <2>2. \A i \in 1 .. Len(delivered) + 1 : i \in 1 .. Len(delivered) \/ i = Len(delivered) + 1
    BY <2>1
  <2>3. \A n \in Msg : Waits(n)' => Waits(n)
    BY <1>1, <1>3 DEF Waits, TypeOK
  <2>4. \A i \in 1 .. Len(delivered) + 1 : delivered'[i][2] \in Passed
    BY <1>4, <2>1, <2>2 DEF Passed
  <2>5. \A n \in Msg : Waits(n)' => n \in Passed
    BY <2>3 DEF Passed
  <2>6. Passed' = {delivered'[i][2] : i \in 1 .. Len(delivered) + 1} \cup {n \in Msg : Waits(n)'}
    BY <2>1 DEF Passed
  <2> QED
    BY <2>4, <2>5, <2>6
<1> QED
  BY <1>3, <1>5, <1>6 DEF OrderInv, AllBehind, Behind

(* A message that is routed leaves its channel for its host, or waits for one. *)
LEMMA RouteOrder ==
  ASSUME FullInv, HomeInv, ~InProcess, HostInv, OrderInv, NEW x \in Endpoint, up[x] # <<>>,
         RouteToHost(x, Head(up[x])) \/ RouteCold(x, Head(up[x]))
  PROVE  OrderInv'
<1>1. TypeOK /\ up[x] \in Seq(Envelope)
  BY DEF FullInv, TypeOK
<1>2. PICK e \in Envelope : e = Head(up[x])
  BY <1>1, TakenType
<1>3. PICK m \in Msg : m = e.id /\ To[m] \in Service
  BY DEF Envelope
<1>4. e.type = "message" /\ sent' = sent
  BY <1>2 DEF RouteToHost, RouteCold, IsMessage, history
<1>5. CASE RouteToHost(x, e)
  <2>1. PICK h \in Host : h = serviceToHost[To[m]]
    BY <1>3, <1>5 DEF RouteToHost, HostInv
  <2>2. h # Local /\ h \in Place /\ Deliver(m, h, [up EXCEPT ![x] = Tail(@)])
    BY <1>3, <1>5, <2>1 DEF RouteToHost, Place
  <2>3. /\ delivered' = Append(delivered, <<h, m>>) /\ awaits' = awaits
        /\ up' = [up EXCEPT ![x] = Tail(@)]
    BY <1>5, <2>1, <2>2 DEF RouteToHost, Deliver
  <2>4. Behind(sent, Passed, m)
    <3>1. e \in Elems(up[x])
      BY <1>1, <1>2, ElemsOfQueue
    <3> QED
      BY <1>3, <1>4, <3>1 DEF OrderInv, AllBehind
  <2>5. InOrder(delivered)'
    <3>1. \A i \in 1 .. Len(delivered) : SameFlow(delivered[i][2], m) => Earlier(sent, delivered[i][2], m)
      BY <2>4 DEF Behind, Passed
    <3>2. InOrder(delivered)
      BY DEF OrderInv
    <3> QED
      BY <1>1, <1>4, <2>2, <2>3, <3>1, <3>2, OrderGrows
  <2>6. Passed' \subseteq Passed \cup {m}
    <3>1. /\ Len(delivered') = Len(delivered) + 1 /\ Len(delivered) \in Nat
          /\ \A i \in 1 .. Len(delivered) : delivered'[i] = delivered[i]
          /\ delivered'[Len(delivered) + 1] = <<h, m>>
      BY <1>1, <2>2, <2>3, DeliveredGrows
    <3>2. \A i \in 1 .. Len(delivered) + 1 : i \in 1 .. Len(delivered) \/ i = Len(delivered) + 1
      BY <3>1
    <3>3. \A i \in 1 .. Len(delivered) + 1 : delivered'[i][2] \in Passed \cup {m}
      BY <3>1, <3>2 DEF Passed
    <3> QED
      BY <2>3, <3>1, <3>3 DEF Passed, Waits
  <2> QED
    BY <1>2, <1>3, <1>4, <2>3, <2>5, <2>6, HeadPasses
<1>6. CASE RouteCold(x, e)
  <2>1. /\ up' = [up EXCEPT ![x] = Tail(@)] /\ delivered' = delivered
        /\ \A n \in Msg : n # m => awaits'[n] = awaits[n]
    BY <1>1, <1>3, <1>6 DEF RouteCold, history, TypeOK
  <2>2. InOrder(delivered)'
    BY <1>4, <2>1 DEF OrderInv, InOrder
  <2>3. Passed' \subseteq Passed \cup {m}
    BY <2>1 DEF Passed, Waits
  <2> QED
    BY <1>2, <1>3, <1>4, <2>1, <2>2, <2>3, HeadPasses
<1> QED
  BY <1>2, <1>5, <1>6

(* All other steps hand nothing over. *)
LEMMA OthersAreQuiet ==
  ASSUME FullInv, ~InProcess, HostInv, [Next]_vars,
         \A m \in Msg : ~Send(m) /\ ~LaunchDone(m),
         \A x \in Endpoint : up[x] # <<>> => ~RouteToHost(x, Head(up[x])) /\ ~RouteCold(x, Head(up[x]))
  PROVE  Quiet
<1>1. TypeOK /\ PlaceInv
  BY DEF FullInv
<1>2. sent' = sent
  BY OthersSendNothing DEF Silent
<1>3. \A q : Shrinks(q, q)
  BY DEF Shrinks
<1>4. ASSUME UNCHANGED <<up, awaits, delivered>> PROVE Quiet
  BY <1>2, <1>3, <1>4 DEF Quiet, Waits
<1>5. ASSUME NEW m \in Msg, Timeout(m) PROVE UNCHANGED <<up, awaits, delivered>>
  BY <1>5 DEF Timeout, channels, routingVars, history
<1>6. ASSUME NEW m \in Msg, LaunchFail(m) PROVE Quiet
  <2>1. UNCHANGED <<up, delivered>> /\ awaits' = [awaits EXCEPT ![m] = None]
    BY <1>6 DEF LaunchFail, channels, history
  <2>2. \A n \in Msg : Waits(n)' => Waits(n)
    BY <1>1, <2>1 DEF Waits, TypeOK
  <2> QED
    BY <1>2, <1>3, <2>1, <2>2 DEF Quiet
<1>7. ASSUME NEW m \in Msg, Resume(m) PROVE FALSE
  BY <1>7 DEF Resume, HostInv, Waits, Launching
<1>8. ASSUME NEW x \in Endpoint, BrokerReceive(x) PROVE Quiet
  <2>1. /\ up[x] # <<>> /\ up' = [up EXCEPT ![x] = Tail(@)]
        /\ UNCHANGED <<awaits, delivered>>
    BY <1>8 DEF BrokerReceive, RouteAnswer, RouteRegistration, RouteUnregistered, routingVars, history
  <2>2. \A y \in Endpoint : Shrinks(up[y], up'[y])
    BY <1>1, <2>1 DEF Shrinks, TypeOK
  <2> QED
    BY <1>2, <2>1, <2>2 DEF Quiet, Waits
<1>9. ASSUME NEW x \in Endpoint, EndpointReceive(x) PROVE UNCHANGED <<up, awaits, delivered>>
  BY <1>9 DEF EndpointReceive, routingVars, history
<1>10. ASSUME NEW s \in Service, LocalLoaded(s) PROVE UNCHANGED <<up, awaits, delivered>>
  BY <1>10 DEF LocalLoaded, channels, routingVars, history
<1>11. ASSUME NEW p \in Place, NEW s \in Service, Invoke(p, s) PROVE UNCHANGED <<up, awaits, delivered>>
  BY <1>11 DEF Invoke, channels, routingVars
<1>12. ASSUME NEW p \in Place, NEW s \in Service, NEW a \in HostAnswers, Leaves(p, s, a)
       PROVE  Quiet
  <2>1. UNCHANGED <<awaits, delivered>> /\ p \in Endpoint
    BY <1>12 DEF Leaves, routingVars, history, Place, Endpoint
  <2>2. PICK m \in Msg : m = Head(chain[p][s])
    BY <1>1, <1>12, QueueType DEF Leaves, TypeOK
  <2>3. PICK e \in Envelope : e = Env(a, m) /\ e.type # "message"
    <3>1. a \in Answers \cup {"message"} /\ a # "message"
      BY DEF Answers, HostAnswers
    <3> QED
      BY <3>1, EnvType
  <2>4. up' = up \/ up' = [up EXCEPT ![p] = Append(@, e)]
    BY <1>12, <2>2, <2>3 DEF Leaves, Post
  <2>5. \A y \in Endpoint : Shrinks(up[y], up'[y])
    BY <1>1, <2>3, <2>4 DEF Shrinks, TypeOK
  <2> QED
    BY <1>2, <2>1, <2>5 DEF Quiet, Waits
<1>13. ASSUME NEW h \in Host, Crash(h) PROVE UNCHANGED <<up, awaits, delivered>>
  BY <1>13 DEF Crash, routingVars, history
<1>14. CASE Dispose
  <2>1. /\ up' = [x \in Endpoint |-> <<>>] /\ awaits' = [m \in Msg |-> None] /\ delivered' = delivered
    BY <1>14 DEF Dispose, history
  <2> QED
    BY <1>2, <2>1 DEF Quiet, Waits, Shrinks
<1>15. ASSUME UNCHANGED vars PROVE UNCHANGED <<up, awaits, delivered>>
  BY <1>15 DEF vars, channels, routingVars, history
<1>16. ASSUME NEW p \in Place, NEW s \in Service,
              Reject(p, s) \/ Finish(p, s, "return") \/ Finish(p, s, "error")
       PROVE  Quiet
  BY <1>1, <1>12, <1>16, MessageLeaves DEF PlaceInv, HostAnswers
<1> QED
  BY <1>4, <1>5, <1>6, <1>7, <1>8, <1>9, <1>10, <1>11, <1>12, <1>13, <1>14, <1>15,
     <1>16 DEF Next

(* Every step keeps what is still in a channel behind what has left it. *)
LEMMA OrderStep ==
  ASSUME FullInv, HomeInv, ~InProcess, HostInv, OrderInv, [Next]_vars
  PROVE  OrderInv'
<1>1. TypeOK
  BY DEF FullInv
<1>2. CASE \E m \in Msg : Send(m)
  BY <1>2, SendOrder
<1>3. CASE \E m \in Msg : LaunchDone(m)
  BY <1>3, LaunchOrder
<1>4. CASE \E x \in Endpoint : /\ up[x] # <<>>
                               /\ RouteToHost(x, Head(up[x])) \/ RouteCold(x, Head(up[x]))
  BY <1>4, RouteOrder
<1>5. CASE /\ \A m \in Msg : ~Send(m) /\ ~LaunchDone(m)
           /\ \A x \in Endpoint : up[x] # <<>> => /\ ~RouteToHost(x, Head(up[x]))
                                                  /\ ~RouteCold(x, Head(up[x]))
  <2>1. Quiet
    BY <1>5, OthersAreQuiet
  <2> QED
    BY <1>1, <2>1, QuietOrder
<1> QED
  BY <1>2, <1>3, <1>4, <1>5

(* At first nothing has been sent, and no host launched. *)
LEMMA OrderInit ==
  ASSUME Init
  PROVE  HomeInv /\ HostInv /\ OrderInv
<1>1. /\ sent = <<>> /\ delivered = <<>> /\ Len(delivered) = 0 /\ DOMAIN delivered = {}
      /\ \A m \in Msg : phase[m] = "new" /\ awaits[m] = None
      /\ \A x \in Endpoint : up[x] = <<>> /\ Len(up[x]) = 0
      /\ \A h \in Host : hostState[h] = "unused"
      /\ \A s \in Service : serviceToHost[s] = None
  BY DEF Init
<1>2. Elems(<<>>) = {} /\ OneEach(<<>>)
  BY ElemsOfNone
<1>3. HomeInv
  BY <1>1, <1>2 DEF HomeInv, SentOnce, Homes, Together
<1>4. HostInv
  BY <1>1 DEF HostInv, Waits, NotYet, Endpoint
<1>5. Passed = {} /\ InOrder(delivered)
  BY <1>1 DEF Passed, Waits, InOrder
<1>6. \A x \in Endpoint : Rising(sent, up[x]) /\ AllBehind(sent, Passed, up[x])
  BY <1>1, <1>2 DEF Rising, AllBehind
<1> QED
  BY <1>3, <1>4, <1>5, <1>6 DEF OrderInv

(* With workers, each host is handed what a sender sends to a service in the
   order it was sent, although a cold service makes routeCall() wait, two of
   them may wait at once, and hosts fail, crash and are disposed of
   (service-broker.ts, routeCall() and ensureHostForService()). *)
THEOREM HandledAsSent == Spec => []HostDeliveryOrder
<1> DEFINE AllInv == FullInv /\ HomeInv /\ WorkerInv
<1>1. Init => AllInv
  BY FullInit, OrderInit DEF WorkerInv
<1>2. AllInv /\ [Next]_vars => AllInv'
  BY FullStep, HomeStep, HostStep, OrderStep DEF WorkerInv
<1>3. AllInv => HostDeliveryOrder
  BY DEF WorkerInv, OrderInv, HostDeliveryOrder
<1> QED
  BY <1>1, <1>2, <1>3, PTL DEF Spec
=============================================================================

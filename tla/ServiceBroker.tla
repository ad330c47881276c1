----------------------------- MODULE ServiceBroker -----------------------------
(***************************************************************************)
(* packages/runtime/src: the RuntimeClients, the transports, the            *)
(* ServiceBroker that routes between them, and the hosts it launches.       *)
(*                                                                         *)
(* An endpoint is the main thread, the broker's local host or a launched    *)
(* host; each has a RuntimeClient and a pair of first-in first-out channels *)
(* to the broker.  A host is reduced to what routing needs of ServiceHost:  *)
(* one serial chain per service, a method that may call other services,     *)
(* and a reply.  InProcess chooses between the two brokers of runtime.ts:   *)
(* createInProcessBrokerFactory, where everything shares one event loop and *)
(* a message may run between two microtasks of routeCall(), and             *)
(* createWorkerBrokerFactory, where a message is a task of its own and the  *)
(* broker has no resolver for services of its local host.                   *)
(***************************************************************************)
EXTENDS Naturals, Sequences, FiniteSets

CONSTANTS
  Service, Host,     \* service ids; identities for the hosts launch() makes
  Main, Local, None, \* the main thread, the broker's local host, nothing
  Msg,               \* envelopes of type call and behaviour; ids are unique
  To,                \* To[m]: envelope.head.service
  Call,              \* the envelopes of type call
  Registering,       \* the calls of registerService(), for the service To[m]
  Parent,            \* Parent[m]: the message whose handler sends m, or Main
  Bootstrapped,      \* services registered before any message is sent
  OnBroker,          \* services whose metadata says onBroker
  InProcess,         \* which of the two brokers
  Faults             \* the faults that may happen: see below

Endpoint == Host \cup {Main, Local}
Place == Host \cup {Local}

ASSUME BrokerAssumption ==
  /\ To \in [Msg -> Service]
  /\ Registering \subseteq Call /\ Call \subseteq Msg
  /\ Parent \in [Msg -> Msg \cup {Main}]
  /\ \A m \in Registering : Parent[m] = Main
  /\ Bootstrapped \subseteq Service /\ OnBroker \subseteq Service
  /\ InProcess \in BOOLEAN
  /\ Faults \subseteq {"launch", "crash", "timeout", "dispose"}
  /\ "crash" \in Faults => ~InProcess
  /\ Main \notin Place \cup Msg /\ Local \notin Host
  /\ None \notin Endpoint

VARIABLES
  phase,      \* a call: new, pending, or how its promise settled; a behaviour: new, sent
  home,       \* the endpoint whose RuntimeClient sent the message
  up, down,   \* the channels from an endpoint to the broker and back
  registered, \* broker.registrations
  origins,    \* broker.callOrigins
  serviceToHost,
  awaits,     \* routeCall() is suspended on ensureHostForService(): for which host
  hostState,
  local,      \* a service on the local host: absent, loading or active
  chain,      \* what a host holds for a service, the head being next
  running,    \* the method of the head of the chain is running
  alive,      \* Runtime.dispose() has not run
  runs,       \* history: how often a message's method has been invoked
  sent,       \* history: messages in the order they were sent
  delivered   \* history: <<host, message>> in the order the broker delivered

clientVars  == <<phase, home>>
channels    == <<up, down>>
routingVars == <<registered, origins, serviceToHost, awaits>>
hostVars    == <<hostState, local, chain, running>>
history     == <<runs, sent, delivered>>
vars == <<clientVars, channels, routingVars, hostVars, alive, history>>

(* A host is launching once "host-init" is posted to its worker, up once that
   has posted "host-ready", dead after "host-error" or a crash. *)
HostState == {"unused", "launching", "up", "dead", "closed"}

(* Who answered a call, which is more than its caller can tell: the error of a
   method may have any code, also one that the runtime uses.  "error" is what
   the method throws or returns against its schema, "rejected" what the host
   answers in its place. *)
Answers == {"return", "error", "rejected", "notRegistered"}
Settled == Answers \cup {"timeout", "disposed"}
Envelope == [type : Answers \cup {"message"}, id : Msg]
Env(type, m) == [type |-> type, id |-> m]

Init ==
  /\ phase = [m \in Msg |-> "new"]
  /\ home = [m \in Msg |-> None]
  /\ up = [x \in Endpoint |-> <<>>]
  /\ down = [x \in Endpoint |-> <<>>]
  /\ registered = Bootstrapped
  /\ origins = [m \in Msg |-> None]
  /\ serviceToHost = [s \in Service |-> None]
  /\ awaits = [m \in Msg |-> None]
  /\ hostState = [h \in Host |-> "unused"]
  /\ local = [s \in Service |-> "absent"]
  /\ chain = [p \in Place |-> [s \in Service |-> <<>>]]
  /\ running = [p \in Place |-> [s \in Service |-> FALSE]]
  /\ alive = TRUE
  /\ runs = [m \in Msg |-> 0]
  /\ sent = <<>>
  /\ delivered = <<>>

-----------------------------------------------------------------------------
(* RuntimeClient *)

Runs(m, p) ==
  /\ p \in Place /\ m \in Msg
  /\ running[p][To[m]]
  /\ Head(chain[p][To[m]]) = m

(* A closed transport drops what is sent on it. *)
Open(x) == IF x \in Host THEN hostState[x] = "up" ELSE alive
Post(x, e) == IF Open(x) THEN [up EXCEPT ![x] = Append(@, e)] ELSE up

Send(m) ==
  /\ phase[m] = "new"
  /\ \E x \in Endpoint :
       /\ IF Parent[m] = Main THEN x = Main /\ alive ELSE Runs(Parent[m], x)
       /\ home' = [home EXCEPT ![m] = x]
       /\ up' = Post(x, Env("message", m))
  /\ phase' = [phase EXCEPT ![m] = IF m \in Call THEN "pending" ELSE "sent"]
  /\ sent' = Append(sent, m)
  /\ UNCHANGED <<down, routingVars, hostVars, alive, runs, delivered>>

(* Mutant: whether the call is still pending is not looked at. *)
SettleAny(e) == phase' = [phase EXCEPT ![e.id] = e.type]

(* handleEnvelope(): an answer to a call that is no longer pending is dropped. *)
Settle(e) ==
  phase' = [phase EXCEPT ![e.id] = IF @ = "pending" THEN e.type ELSE @]

Timeout(m) ==
  /\ "timeout" \in Faults
  /\ phase[m] = "pending"
  /\ phase' = [phase EXCEPT ![m] = "timeout"]
  /\ UNCHANGED <<home, channels, routingVars, hostVars, alive, history>>

-----------------------------------------------------------------------------
(* ServiceBroker.routeIncoming() and routeCall() *)

(* A return or an error goes to the transport its call came from, once. *)
RouteAnswer(x, e) ==
  /\ e.type \in Answers
  /\ origins' = [origins EXCEPT ![e.id] = None]
  /\ up' = [up EXCEPT ![x] = Tail(@)]
  /\ down' = IF origins[e.id] = None THEN down
             ELSE [down EXCEPT ![origins[e.id]] = Append(@, e)]
  /\ UNCHANGED <<clientVars, registered, serviceToHost, awaits, hostVars,
                 alive, history>>

RouteRegistration(x, e) ==
  /\ e.type = "message" /\ e.id \in Registering /\ x = Main
  /\ registered' = registered \cup {To[e.id]}
  /\ up' = [up EXCEPT ![x] = Tail(@)]
  /\ down' = [down EXCEPT ![x] = Append(@, Env("return", e.id))]
  /\ UNCHANGED <<clientVars, origins, serviceToHost, awaits, hostVars,
                 alive, history>>

IsMessage(e) == e.type = "message" /\ e.id \notin Registering

RouteUnregistered(x, e) ==
  /\ IsMessage(e) /\ To[e.id] \notin registered
  /\ up' = [up EXCEPT ![x] = Tail(@)]
  /\ down' = IF e.id \in Call
               THEN [down EXCEPT ![x] = Append(@, Env("notRegistered", e.id))]
               ELSE down
  /\ UNCHANGED <<clientVars, routingVars, hostVars, alive, history>>

(* Mutant: only calls of the main thread are tracked. *)
TrackMain(x, m) ==
  origins' = IF m \in Call /\ x = Main THEN [origins EXCEPT ![m] = x] ELSE origins

Track(x, m) ==
  origins' = IF m \in Call THEN [origins EXCEPT ![m] = x] ELSE origins

(* The last statements of routeCall(): the local host takes the message
   directly, and answers SERVICE_NOT_REGISTERED while it is not activated;
   any other host gets it by its transport.  pending is what is left of up. *)
Deliver(m, h, pending) ==
  LET s == To[m] IN
  /\ delivered' = Append(delivered, <<h, m>>)
  /\ \/ /\ h = Local /\ local[s] = "active"
        /\ chain' = [chain EXCEPT ![Local][s] = Append(@, m)]
        /\ up' = pending
        /\ UNCHANGED down
     \/ /\ h = Local /\ local[s] # "active"
        /\ up' = IF m \in Call /\ alive
                   THEN [pending EXCEPT ![Local] = Append(@, Env("notRegistered", m))]
                   ELSE pending
        /\ UNCHANGED <<chain, down>>
     \/ /\ h \in Host
        /\ down' = IF hostState'[h] = "up"
                     THEN [down EXCEPT ![h] = Append(@, Env("message", m))] ELSE down
        /\ up' = pending
        /\ UNCHANGED chain

RouteToHost(x, e) ==
  /\ IsMessage(e) /\ To[e.id] \in registered
  /\ serviceToHost[To[e.id]] # None
  /\ Track(x, e.id)
  /\ UNCHANGED hostState
  /\ Deliver(e.id, serviceToHost[To[e.id]], [up EXCEPT ![x] = Tail(@)])
  /\ UNCHANGED <<clientVars, registered, serviceToHost, awaits, local, running,
                 alive, runs, sent>>

(* ensureHostForService() suspends routeCall(): activateOnLocalHost() starts
   the implementation loading and does not wait for it; launch() is awaited.
   Without a resolver activateOnLocalHost() throws, and nobody hears of it. *)
RouteCold(x, e) ==
  LET s == To[e.id] IN
  /\ IsMessage(e) /\ s \in registered
  /\ serviceToHost[s] = None
  /\ Track(x, e.id)
  /\ up' = [up EXCEPT ![x] = Tail(@)]
  /\ \/ /\ s \in OnBroker /\ InProcess /\ alive
        /\ local' = [local EXCEPT ![s] = "loading"]
        /\ serviceToHost' = [serviceToHost EXCEPT ![s] = Local]
        /\ awaits' = [awaits EXCEPT ![e.id] = Local]
        /\ UNCHANGED hostState
     \/ /\ s \in OnBroker /\ ~(InProcess /\ alive)
        /\ UNCHANGED <<local, serviceToHost, awaits, hostState>>
     \/ /\ s \notin OnBroker
        /\ \E h \in Host :
             /\ hostState[h] = "unused"
             /\ hostState' = [hostState EXCEPT ![h] = "launching"]
             /\ awaits' = [awaits EXCEPT ![e.id] = h]
        /\ UNCHANGED <<local, serviceToHost>>
  /\ UNCHANGED <<clientVars, down, registered, chain, running, alive, history>>

BrokerReceive(x) ==
  /\ up[x] # <<>>
  /\ \/ RouteAnswer(x, Head(up[x]))
     \/ RouteRegistration(x, Head(up[x]))
     \/ RouteUnregistered(x, Head(up[x]))
     \/ RouteToHost(x, Head(up[x]))
     \/ RouteCold(x, Head(up[x]))

Launching(m) == awaits[m] \in Host /\ hostState[awaits[m]] = "launching"

(* Mutant: the message that waited is delivered in a task of its own. *)
LaunchDoneLater(m) ==
  /\ Launching(m)
  /\ hostState' = [hostState EXCEPT ![awaits[m]] = "up"]
  /\ serviceToHost' = [serviceToHost EXCEPT ![To[m]] = awaits[m]]
  /\ UNCHANGED <<awaits, channels, chain, delivered, clientVars, registered,
                 origins, local, running, alive, runs, sent>>

(* launch() has resolved: the host is entered in both maps.  routeCall() goes
   on in a later microtask, which only another microtask can precede. *)
LaunchDone(m) ==
  /\ Launching(m)
  /\ hostState' = [hostState EXCEPT ![awaits[m]] = "up"]
  /\ serviceToHost' = [serviceToHost EXCEPT ![To[m]] = awaits[m]]
  /\ IF InProcess THEN UNCHANGED <<awaits, channels, chain, delivered>>
     ELSE /\ awaits' = [awaits EXCEPT ![m] = None]
          /\ Deliver(m, awaits[m], up)
  /\ UNCHANGED <<clientVars, registered, origins, local, running, alive, runs, sent>>

LaunchFail(m) ==
  /\ "launch" \in Faults
  /\ Launching(m)
  /\ hostState' = [hostState EXCEPT ![awaits[m]] = "dead"]
  /\ awaits' = [awaits EXCEPT ![m] = None]
  /\ UNCHANGED <<clientVars, channels, registered, origins, serviceToHost,
                 local, chain, running, alive, history>>

(* routeCall() after its await: stop() may have emptied the hosts map. *)
Resume(m) ==
  LET h == awaits[m] IN
  /\ h # None /\ ~Launching(m)
  /\ awaits' = [awaits EXCEPT ![m] = None]
  /\ \/ /\ IF h = Local THEN alive ELSE hostState[h] # "closed"
        /\ UNCHANGED <<hostState, origins>>
        /\ Deliver(m, h, up)
     \/ /\ IF h = Local THEN ~alive ELSE hostState[h] = "closed"
        /\ origins' = [origins EXCEPT ![m] = None]
        /\ UNCHANGED <<hostState, channels, chain, delivered>>
  /\ UNCHANGED <<clientVars, registered, serviceToHost, local, running, alive,
                 runs, sent>>

LocalLoaded(s) ==
  /\ local[s] = "loading"
  /\ local' = [local EXCEPT ![s] = IF alive THEN "active" ELSE "absent"]
  /\ UNCHANGED <<clientVars, channels, routingVars, hostState, chain, running,
                 alive, history>>

-----------------------------------------------------------------------------
(* The other ends of the channels: a client settles a call, a host takes a
   message in, refuses it or runs its method, which may send messages, and
   answers. *)
EndpointReceive(x) ==
  LET e == Head(down[x]) IN
  /\ down[x] # <<>>
  /\ down' = [down EXCEPT ![x] = Tail(@)]
  /\ IF e.type = "message"
       THEN /\ chain' = [chain EXCEPT ![x][To[e.id]] = Append(@, e.id)]
            /\ UNCHANGED phase
       ELSE Settle(e) /\ UNCHANGED chain
  /\ UNCHANGED <<home, up, routingVars, hostState, local, running, alive, history>>

Invoke(p, s) ==
  /\ chain[p][s] # <<>>
  /\ ~running[p][s]
  /\ running' = [running EXCEPT ![p][s] = TRUE]
  /\ runs' = [runs EXCEPT ![Head(chain[p][s])] = @ + 1]
  /\ UNCHANGED <<clientVars, channels, routingVars, hostState, local, chain,
                 alive, sent, delivered>>

(* handleMessage() does not get to the method: the function is not declared or
   has no method, or the parameter does not parse.  A behaviour is dropped. *)
Reject(p, s) ==
  LET m == Head(chain[p][s]) IN
  /\ chain[p][s] # <<>>
  /\ ~running[p][s]
  /\ chain' = [chain EXCEPT ![p][s] = Tail(@)]
  /\ up' = IF m \in Call THEN Post(p, Env("rejected", m)) ELSE up
  /\ UNCHANGED <<clientVars, down, routingVars, hostState, local, running, alive, history>>

(* Mutant: what has been handled stays at the head of the chain. *)
FinishKeeps(p, s, answer) ==
  LET m == Head(chain[p][s]) IN
  /\ running[p][s]
  /\ running' = [running EXCEPT ![p][s] = FALSE]
  /\ up' = IF m \in Call THEN Post(p, Env(answer, m)) ELSE up
  /\ UNCHANGED <<clientVars, down, routingVars, hostState, local, chain, alive, history>>

Finish(p, s, answer) ==
  LET m == Head(chain[p][s]) IN
  /\ running[p][s]
  /\ \A c \in Msg : Parent[c] = m => phase[c] # "pending"
  /\ running' = [running EXCEPT ![p][s] = FALSE]
  /\ chain' = [chain EXCEPT ![p][s] = Tail(@)]
  /\ up' = IF m \in Call THEN Post(p, Env(answer, m)) ELSE up
  /\ UNCHANGED <<clientVars, down, routingVars, hostState, local, alive, history>>

-----------------------------------------------------------------------------
(* A host worker dies with what it held, and nobody is told. *)
Crash(h) ==
  /\ "crash" \in Faults
  /\ hostState[h] = "up"
  /\ hostState' = [hostState EXCEPT ![h] = "dead"]
  /\ chain' = [chain EXCEPT ![h] = [s \in Service |-> <<>>]]
  /\ running' = [running EXCEPT ![h] = [s \in Service |-> FALSE]]
  /\ down' = [down EXCEPT ![h] = <<>>]
  /\ phase' = [m \in Msg |-> IF phase[m] = "pending" /\ home[m] = h
                               THEN "gone" ELSE phase[m]]
  /\ UNCHANGED <<home, up, routingVars, local, alive, history>>

(* Runtime.dispose(): the client rejects what is pending, then stop() closes
   the hosts of the map.  A launch in flight is not in the map yet.  The
   worker broker is terminated, and everything it owns with it. *)
Dispose ==
  /\ "dispose" \in Faults
  /\ alive
  /\ alive' = FALSE
  /\ up' = [x \in Endpoint |-> <<>>]
  /\ origins' = [m \in Msg |-> None]
  /\ serviceToHost' = [s \in Service |-> None]
  /\ phase' = [m \in Msg |-> IF phase[m] # "pending" THEN phase[m]
                              ELSE IF home[m] = Main THEN "disposed"
                              ELSE IF InProcess THEN "pending" ELSE "gone"]
  /\ IF InProcess
       THEN /\ down' = [down EXCEPT ![Main] = <<>>]
            /\ hostState' = [h \in Host |-> IF hostState[h] = "up" THEN "closed"
                                            ELSE hostState[h]]
            /\ UNCHANGED <<awaits, chain, running>>
       ELSE /\ down' = [x \in Endpoint |-> <<>>]
            /\ hostState' = [h \in Host |-> "closed"]
            /\ awaits' = [m \in Msg |-> None]
            /\ chain' = [p \in Place |-> [s \in Service |-> <<>>]]
            /\ running' = [p \in Place |-> [s \in Service |-> FALSE]]
  /\ UNCHANGED <<home, registered, local, history>>

Next ==
  \/ \E m \in Msg : \/ Send(m) \/ Timeout(m)
                    \/ LaunchDone(m) \/ LaunchFail(m) \/ Resume(m)
  \/ \E x \in Endpoint : BrokerReceive(x) \/ EndpointReceive(x)
  \/ \E s \in Service : LocalLoaded(s)
  \/ \E p \in Place, s \in Service :
       Invoke(p, s) \/ Reject(p, s) \/ Finish(p, s, "return") \/ Finish(p, s, "error")
  \/ \E h \in Host : Crash(h)
  \/ Dispose

Spec == Init /\ [][Next]_vars

(* The event loops of all threads turn, timers fire, and a module that is
   loading gets loaded.  Handlers are taken to settle once their own calls
   have; nothing is assumed of senders and of faults other than the timer. *)
Fairness ==
  /\ \A m \in Msg : /\ WF_vars(Timeout(m)) /\ WF_vars(Resume(m))
                     /\ WF_vars(LaunchDone(m) \/ LaunchFail(m))
  /\ \A x \in Endpoint : WF_vars(BrokerReceive(x)) /\ WF_vars(EndpointReceive(x))
  /\ \A s \in Service : WF_vars(LocalLoaded(s))
  /\ \A p \in Place, s \in Service :
       /\ WF_vars(Invoke(p, s) \/ Reject(p, s))
       /\ WF_vars(Finish(p, s, "return") \/ Finish(p, s, "error"))

FairSpec == Spec /\ Fairness

-----------------------------------------------------------------------------
(* Every map and channel of the runtime holds what its declaration says. *)
TypeOK ==
  /\ phase \in [Msg -> {"new", "sent", "pending", "gone"} \cup Settled]
  /\ home \in [Msg -> Endpoint \cup {None}]
  /\ up \in [Endpoint -> Seq(Envelope)]
  /\ down \in [Endpoint -> Seq(Envelope)]
  /\ registered \subseteq Service
  /\ origins \in [Msg -> Endpoint \cup {None}]
  /\ serviceToHost \in [Service -> Place \cup {None}]
  /\ awaits \in [Msg -> Place \cup {None}]
  /\ hostState \in [Host -> HostState]
  /\ local \in [Service -> {"absent", "loading", "active"}]
  /\ chain \in [Place -> [Service -> Seq(Msg)]]
  /\ running \in [Place -> [Service -> BOOLEAN]]
  /\ alive \in BOOLEAN
  /\ runs \in [Msg -> Nat]
  /\ sent \in Seq(Msg)
  /\ delivered \in Seq(Place \X Msg)

Holds(ch, type, m) ==
  \E x \in Endpoint : \E i \in DOMAIN ch[x] : ch[x][i] = Env(type, m)

(* A reply on its way to the broker finds the origin of its call, so no reply
   is dropped as "for unknown message ID": double launches, nested calls, and
   a local host that answers for a service it has not loaded included. *)
RepliesRoutable ==
  alive => \A m \in Msg, a \in Answers : Holds(up, a, m) => origins[m] = home[m]

(* One answer at most is under way to a caller, and none once an answer has
   settled its call: a second one would be for a call of somebody else. *)
InFlight(ch, m) ==
  UNION {{<<x, i>> : i \in {j \in DOMAIN ch[x] : ch[x][j].id = m /\ ch[x][j].type \in Answers}} :
           x \in Endpoint}
OneAnswer ==
  \A m \in Msg : Cardinality(InFlight(up, m)) + Cardinality(InFlight(down, m)) <=
                   IF phase[m] \in Answers THEN 0 ELSE 1

(* Every answer finds its caller, and is the only one. *)
AnswersArrive == TypeOK /\ RepliesRoutable /\ OneAnswer

(* What one sender sends to one service, in two places of the order sent. *)
SameFlow(m, n) == Parent[m] = Parent[n] /\ To[m] = To[n]
Index(seq, v) == CHOOSE i \in DOMAIN seq : seq[i] = v
Among(v, seq) == \E i \in DOMAIN seq : seq[i] = v
InOrder(log) ==
  \A i, j \in DOMAIN log :
    (i < j /\ log[i][1] = log[j][1] /\ SameFlow(log[i][2], log[j][2])) =>
      Index(sent, log[i][2]) < Index(sent, log[j][2])

(* With messages that are tasks of their own, each host is handed what a
   sender sends to a service in the order it was sent, although a cold
   service makes routeCall() wait and two of them may wait at once. *)
HostDeliveryOrder == ~InProcess => InOrder(delivered)

(* Every call settles: with no fault there is no need of a timer for it, since
   routing, launching and double launches lose no message; with faults the
   timer of the caller sees to it. *)
CallsSettle == \A m \in Msg : (phase[m] = "pending") ~> (phase[m] # "pending")

(* What the runtime promises its callers (RemoteCall), registrations apart. *)
Outcome(m) ==
  CASE phase[m] = "new" -> "idle"
    [] phase[m] \in {"sent", "pending"} -> "asked"
    [] phase[m] \in {"return", "error"} -> "answered"
    [] phase[m] \in {"rejected", "notRegistered"} -> "refused"
    [] OTHER -> "abandoned"
Promised == INSTANCE RemoteCall WITH
  Msg <- Msg \ Registering,
  Call <- Call \ Registering,
  state <- [m \in Msg \ Registering |-> Outcome(m)],
  runs <- [m \in Msg \ Registering |-> runs[m]]
KeepsPromise == Promised!Spec
=============================================================================

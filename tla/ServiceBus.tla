------------------------------ MODULE ServiceBus ------------------------------
(***************************************************************************)
(* packages/service-bus/src, the bus the deployed page runs on: the element *)
(* <service-bus-host> that makes, replaces and disposes a ServiceBus, the   *)
(* ServiceClient it provides to its descendants, the broker, and the hosts  *)
(* the broker launches.                                                     *)
(*                                                                         *)
(* A bus is in-process (options.brokerFactory) or has its broker and hosts  *)
(* in workers.  Unlike the runtime (module ServiceBroker), a host runs its  *)
(* calls at the same time, and the broker sends whatever a host sends to    *)
(* the client of the page, including the calls of services.                 *)
(***************************************************************************)
EXTENDS Naturals, Sequences, FiniteSets

CONSTANTS
  Service,             \* service ids
  Bus, Host, None,     \* identities; buses are made in the order of theirs
  Call, To,            \* calls, and envelope.head.service of each
  Parent,              \* the call whose handler makes the call, or None for the page
  Later,               \* what the page may change the element's options to
  MaxOptions,          \* bound: how often it does
  MaxMoves             \* bound: how often the element is connected or disconnected

Kinds == {"worker", "inProcess"}

ASSUME BusAssumption ==
  /\ Bus \subseteq Nat
  /\ To \in [Call -> Service]
  /\ Parent \in [Call -> Call \cup {None}]
  /\ MaxOptions \in Nat /\ MaxMoves \in Nat
  /\ None \notin Bus \cup Host \cup Call

ASSUME LaterAssumption == Later \subseteq Kinds \cup {"incomplete"}

VARIABLES
  connected, options, \* of the element: isConnected, options
  registered,         \* the services of options.registrations, always the same
  changed,            \* Lit owes the element an updated() with options in it
  starts,             \* how many _restartBus() wait for their _stopBus()
  ref, provided,      \* _bus, and the client descendants get from _provider
  life, kind,         \* of a bus
  phase, via,         \* of a call: how its promise stands, and the bus or host of its client
  up, down,           \* channels between the client and the broker of a bus
  awaits,             \* routeCall() is suspended on the launch of this host
  serviceToHost,      \* of a broker
  hostState, owner,   \* of a host: its life, and the bus of its broker
  toHost, fromHost,   \* channels between broker and host
  running,            \* calls whose method a host has invoked
  runs,               \* history: how often the method was invoked for a call
  optionsLeft, movesLeft
elementVars == <<connected, options, registered, changed, starts, ref, provided>>
busVars     == <<life, kind, up, down, awaits, serviceToHost>>
callVars    == <<phase, via, runs>>
hostVars    == <<hostState, owner, toHost, fromHost, running>>
bounds      == <<optionsLeft, movesLeft>>
vars == <<elementVars, busVars, callVars, hostVars, bounds>>

Answers == {"return", "error", "refused"}
Envelope == [type : Answers \cup {"call"}, id : Call]
Env(type, c) == [type |-> type, id |-> c]

Init ==
  /\ registered \in SUBSET Service
  /\ connected = FALSE /\ starts = 0
  /\ options \in Kinds \cup {"none", "incomplete"} /\ changed = (options # "none")
  /\ ref = None /\ provided = None
  /\ life = [b \in Bus |-> "unused"]
  /\ kind = [b \in Bus |-> None]
  /\ phase = [c \in Call |-> "new"]
  /\ via = [c \in Call |-> None]
  /\ up = [b \in Bus |-> <<>>]
  /\ down = [b \in Bus |-> <<>>]
  /\ awaits = [c \in Call |-> None]
  /\ serviceToHost = [b \in Bus |-> [s \in Service |-> None]]
  /\ hostState = [h \in Host |-> "unused"]
  /\ owner = [h \in Host |-> None]
  /\ toHost = [h \in Host |-> <<>>]
  /\ fromHost = [h \in Host |-> <<>>]
  /\ running = [h \in Host |-> {}]
  /\ runs = [c \in Call |-> 0]
  /\ optionsLeft = MaxOptions
  /\ movesLeft = MaxMoves

-----------------------------------------------------------------------------
(* Mutant: a disposed client forgets its pending calls. *)
DisposeNothing(b) ==
  phase' = [c \in Call |->
    IF phase[c] = "pending" /\ via[c] \in Host /\ owner[via[c]] = b /\ kind[b] = "worker"
      THEN "gone" ELSE phase[c]]

(* ServiceBus.dispose(): the client rejects what is pending, and the broker
   stops.  A worker broker is terminated with its hosts.  An in-process one
   closes its end of the transports of the hosts it knows: they take in what
   is under way, and are not heard any more. *)
DisposeCalls(b) ==
  phase' = [c \in Call |->
    IF phase[c] # "pending" THEN phase[c]
    ELSE IF via[c] = b THEN "disposed"
    ELSE IF via[c] \in Host /\ owner[via[c]] = b /\ kind[b] = "worker" THEN "gone"
    ELSE "pending"]
StopBroker(b) ==
  LET mine == {h \in Host : owner[h] = b} IN
  /\ up' = [up EXCEPT ![b] = <<>>]
  /\ down' = [down EXCEPT ![b] = <<>>]
  /\ serviceToHost' = [serviceToHost EXCEPT ![b] = [s \in Service |-> None]]
  /\ fromHost' = [h \in Host |-> IF h \in mine THEN <<>> ELSE fromHost[h]]
  /\ IF kind[b] = "worker"
       THEN /\ hostState' = [h \in Host |-> IF h \in mine THEN "closed" ELSE hostState[h]]
            /\ toHost' = [h \in Host |-> IF h \in mine THEN <<>> ELSE toHost[h]]
            /\ running' = [h \in Host |-> IF h \in mine THEN {} ELSE running[h]]
            /\ awaits' = [c \in Call |-> IF awaits[c] \in mine THEN None ELSE awaits[c]]
       ELSE /\ hostState' = [h \in Host |-> IF h \in mine /\ hostState[h] = "up" THEN "closed"
                                            ELSE hostState[h]]
            /\ UNCHANGED <<toHost, running, awaits>>

(* _stopBus(), up to its await of dispose(), which has nothing left to do. *)
StopBus ==
  IF ref = None
    THEN UNCHANGED <<ref, provided, life, busVars, callVars, hostVars>>
    ELSE /\ ref' = None /\ provided' = None
         /\ life' = [life EXCEPT ![ref] = "disposed"]
         /\ DisposeCalls(ref) /\ StopBroker(ref)
         /\ UNCHANGED <<kind, via, runs, owner>>

(* The bus, its client and its broker, which starts at once. *)
MakeBus ==
  \E b \in Bus :
    /\ life[b] = "unused" /\ \A d \in Bus : d < b => life[d] # "unused"
    /\ life' = [life EXCEPT ![b] = "running"]
    /\ kind' = [kind EXCEPT ![b] = options]
    /\ ref' = b /\ provided' = b

(* Mutant: _startBus() does not look whether there is a bus. *)
StartBusAgain(atFirst) ==
  IF options \notin Kinds
    THEN provided' = atFirst /\ UNCHANGED <<ref, life, kind>>
    ELSE MakeBus

(* _startBus(): with options that name neither a factory nor both workers it
   throws, which nobody sees.  atFirst is what the provider has before. *)
StartBus(atFirst) ==
  IF ref # None \/ options \notin Kinds
    THEN provided' = atFirst /\ UNCHANGED <<ref, life, kind>>
    ELSE MakeBus

SetOptions(o) ==
  /\ optionsLeft > 0
  /\ optionsLeft' = optionsLeft - 1
  /\ options' = o /\ changed' = TRUE
  /\ UNCHANGED <<connected, registered, starts, ref, provided, busVars, callVars, hostVars, movesLeft>>

(* A new provider is made on every connection, with no value yet. *)
ConnectedCallback ==
  /\ ~connected /\ movesLeft > 0
  /\ connected' = TRUE /\ movesLeft' = movesLeft - 1
  /\ StartBus(None)
  /\ UNCHANGED <<options, registered, changed, starts, up, down, awaits, serviceToHost,
                 callVars, hostVars, optionsLeft>>

DisconnectedCallback ==
  /\ connected /\ movesLeft > 0
  /\ connected' = FALSE /\ movesLeft' = movesLeft - 1
  /\ StopBus
  /\ UNCHANGED <<options, registered, changed, starts, optionsLeft>>

(* Lit does not update an element before its first connection. *)
Updated ==
  /\ changed /\ movesLeft < MaxMoves
  /\ changed' = FALSE
  /\ IF connected THEN StopBus /\ starts' = starts + 1
     ELSE UNCHANGED <<starts, ref, provided, busVars, callVars, hostVars>>
  /\ UNCHANGED <<connected, options, registered, bounds>>

(* _restartBus() after its await. *)
RestartBus ==
  /\ starts > 0
  /\ starts' = starts - 1
  /\ StartBus(provided)
  /\ UNCHANGED <<connected, options, registered, changed, up, down, awaits, serviceToHost,
                 callVars, hostVars, bounds>>

-----------------------------------------------------------------------------
(* ServiceClient *)

Sends(b, c) == IF life[b] = "running" THEN [up EXCEPT ![b] = Append(@, Env("call", c))] ELSE up

(* call(), with parameters that the page's declaration admits or not.  A page
   may still hold the proxy of a bus that was disposed; its transport is
   closed, and the call waits for its timer. *)
CallFromPage(c) ==
  /\ Parent[c] = None /\ phase[c] = "new"
  /\ \E b \in Bus :
       /\ life[b] # "unused"
       /\ \/ /\ phase' = [phase EXCEPT ![c] =
                              IF life[b] = "running" THEN "pending" ELSE "unheard"]
             /\ via' = [via EXCEPT ![c] = b]
             /\ up' = Sends(b, c)
          \/ /\ phase' = [phase EXCEPT ![c] = "invalid"]
             /\ UNCHANGED <<via, up>>
  /\ UNCHANGED <<elementVars, life, kind, down, awaits, serviceToHost, runs, hostVars, bounds>>

(* A worker host gives its services a client on the host's own transport. *)
CallFromService(c) ==
  /\ phase[c] = "new"
  /\ \E h \in Host :
       /\ Parent[c] \in running[h] /\ kind[owner[h]] = "worker"
       /\ via' = [via EXCEPT ![c] = h]
       /\ fromHost' = [fromHost EXCEPT ![h] = Append(@, Env("call", c))]
  /\ phase' = [phase EXCEPT ![c] = "pending"]
  /\ UNCHANGED <<elementVars, busVars, runs, hostState, owner, toHost, running, bounds>>

(* handleEnvelope(): nothing but an answer to a call of its own is heeded. *)
ClientReceive(b) ==
  /\ down[b] # <<>>
  /\ down' = [down EXCEPT ![b] = Tail(@)]
  /\ LET e == Head(down[b]) IN
     phase' = IF e.type \in Answers /\ phase[e.id] = "pending" /\ via[e.id] = b
                THEN [phase EXCEPT ![e.id] = e.type] ELSE phase
  /\ UNCHANGED <<elementVars, life, kind, up, awaits, serviceToHost, via, runs, hostVars, bounds>>

Timeout(c) ==
  /\ phase[c] \in {"pending", "unheard"}
  /\ phase' = [phase EXCEPT ![c] = "timeout"]
  /\ UNCHANGED <<elementVars, busVars, via, runs, hostVars, bounds>>

-----------------------------------------------------------------------------
(* ServiceBroker *)

ToClient(b, e) == IF life[b] = "running" THEN [down EXCEPT ![b] = Append(@, e)] ELSE down

Registered(c) == To[c] \in registered

(* routeCall() to a service without registration. *)
RouteUnregistered(b, c) ==
  /\ ~Registered(c)
  /\ down' = ToClient(b, Env("refused", c))
  /\ UNCHANGED <<awaits, hostState, owner, toHost>>

(* A host that has crashed is still in the maps; its worker hears nothing. *)
Forward(h, c) ==
  toHost' = IF hostState'[h] = "up" THEN [toHost EXCEPT ![h] = Append(@, c)] ELSE toHost

RouteToHost(b, c) ==
  /\ Registered(c) /\ serviceToHost[b][To[c]] # None
  /\ UNCHANGED <<down, awaits, hostState, owner>>
  /\ Forward(serviceToHost[b][To[c]], c)

(* ensureHostForService(): a host for every call that finds none in the map,
   so for every call that comes while one is launched. *)
RouteCold(b, c) ==
  /\ Registered(c) /\ serviceToHost[b][To[c]] = None
  /\ \E h \in Host :
       /\ hostState[h] = "unused"
       /\ hostState' = [hostState EXCEPT ![h] = "launching"]
       /\ owner' = [owner EXCEPT ![h] = b]
       /\ awaits' = [awaits EXCEPT ![c] = h]
  /\ UNCHANGED <<down, toHost>>

HandleClientMessage(b) ==
  /\ up[b] # <<>>
  /\ up' = [up EXCEPT ![b] = Tail(@)]
  /\ LET c == Head(up[b]).id IN
     RouteUnregistered(b, c) \/ RouteToHost(b, c) \/ RouteCold(b, c)
  /\ UNCHANGED <<elementVars, life, kind, serviceToHost, callVars, fromHost, running, bounds>>

(* launch(): the service is activated, and then the host listens. *)
ComesUp(h) ==
  /\ h # None /\ hostState[h] = "launching"
  /\ hostState' = [hostState EXCEPT ![h] = "up"]

(* launch() has resolved, and routeCall() goes on.  The later of two hosts of
   a service replaces the earlier one in the map.  On an in-process broker
   that was stopped meanwhile the host is entered in the emptied maps. *)
Launched(c) ==
  LET h == awaits[c] IN
  /\ ComesUp(h)
  /\ serviceToHost' = [serviceToHost EXCEPT ![owner[h]][To[c]] = h]
  /\ awaits' = [awaits EXCEPT ![c] = None]
  /\ Forward(h, c)
  /\ UNCHANGED <<elementVars, life, kind, up, down, callVars, owner, fromHost, running, bounds>>

(* The rejection leaves routeCall(), and nobody answers the call. *)
LaunchFails(c) ==
  LET h == awaits[c] IN
  /\ h # None /\ hostState[h] = "launching"
  /\ hostState' = [hostState EXCEPT ![h] = "dead"]
  /\ awaits' = [awaits EXCEPT ![c] = None]
  /\ UNCHANGED <<elementVars, life, kind, up, down, serviceToHost, callVars, owner,
                 toHost, fromHost, running, bounds>>

(* The broker listens to a host for returns and errors, and hands on all. *)
HandleHostMessage(h) ==
  /\ fromHost[h] # <<>>
  /\ fromHost' = [fromHost EXCEPT ![h] = Tail(@)]
  /\ down' = ToClient(owner[h], Head(fromHost[h]))
  /\ UNCHANGED <<elementVars, life, kind, up, awaits, serviceToHost, callVars,
                 hostState, owner, toHost, running, bounds>>

-----------------------------------------------------------------------------
(* ServiceHost *)

Reply(h, type, c) ==
  fromHost' = IF hostState[h] = "up" THEN [fromHost EXCEPT ![h] = Append(@, Env(type, c))]
              ELSE fromHost

(* Mutant: a call is invoked before its parameters are validated. *)
InvokeFirst(h) ==
  LET c == Head(toHost[h]) IN
  /\ toHost[h] # <<>>
  /\ toHost' = [toHost EXCEPT ![h] = Tail(@)]
  /\ runs' = [runs EXCEPT ![c] = @ + 1]
  /\ \/ Reply(h, "refused", c) /\ UNCHANGED running
     \/ /\ running' = [running EXCEPT ![h] = @ \cup {c}]
        /\ UNCHANGED fromHost
  /\ UNCHANGED <<elementVars, busVars, phase, via, hostState, owner, bounds>>

(* handleCall(): a service or function the host does not have, and parameters
   its schema rejects, are refused; any other call is invoked at once.  Which
   calls a declaration rejects is left open. *)
HandleCall(h) ==
  LET c == Head(toHost[h]) IN
  /\ toHost[h] # <<>>
  /\ toHost' = [toHost EXCEPT ![h] = Tail(@)]
  /\ \/ Reply(h, "refused", c) /\ UNCHANGED <<running, runs>>
     \/ /\ running' = [running EXCEPT ![h] = @ \cup {c}]
        /\ runs' = [runs EXCEPT ![c] = @ + 1]
        /\ UNCHANGED fromHost
  /\ UNCHANGED <<elementVars, busVars, phase, via, hostState, owner, bounds>>

(* The method settles: with a value its schema admits, or else in an error.
   It awaits the calls it has made. *)
MethodSettles(h, c, type) ==
  /\ c \in running[h]
  /\ \A d \in Call : Parent[d] = c => phase[d] # "pending"
  /\ running' = [running EXCEPT ![h] = @ \ {c}]
  /\ Reply(h, type, c)
  /\ UNCHANGED <<elementVars, busVars, callVars, hostState, owner, toHost, bounds>>

(* waitForReady() does not hear of a worker that dies later. *)
Crash(h) ==
  /\ hostState[h] = "up" /\ kind[owner[h]] = "worker"
  /\ hostState' = [hostState EXCEPT ![h] = "dead"]
  /\ toHost' = [toHost EXCEPT ![h] = <<>>]
  /\ running' = [running EXCEPT ![h] = {}]
  /\ phase' = [c \in Call |-> IF phase[c] = "pending" /\ via[c] = h THEN "gone" ELSE phase[c]]
  /\ UNCHANGED <<elementVars, busVars, via, runs, owner, fromHost, bounds>>

Next ==
  \/ \E o \in Later : SetOptions(o)
  \/ ConnectedCallback \/ DisconnectedCallback \/ Updated \/ RestartBus
  \/ \E c \in Call : \/ CallFromPage(c) \/ CallFromService(c) \/ Timeout(c)
                     \/ Launched(c) \/ LaunchFails(c)
  \/ \E b \in Bus : ClientReceive(b) \/ HandleClientMessage(b)
  \/ \E h \in Host : \/ HandleHostMessage(h) \/ HandleCall(h) \/ Crash(h)
                     \/ \E c \in Call, type \in {"return", "error"} : MethodSettles(h, c, type)

Spec == Init /\ [][Next]_vars

(* Event loops turn, launches settle, and so do methods that wait for nothing.
   Of timers nothing is assumed here. *)
Fairness ==
  /\ \A c \in Call : WF_vars(Launched(c) \/ LaunchFails(c))
  /\ \A b \in Bus : WF_vars(ClientReceive(b)) /\ WF_vars(HandleClientMessage(b))
  /\ \A h \in Host :
       /\ WF_vars(HandleHostMessage(h)) /\ WF_vars(HandleCall(h))
       /\ \A c \in Call : WF_vars(\E type \in {"return", "error"} : MethodSettles(h, c, type))

FairSpec == Spec /\ Fairness

-----------------------------------------------------------------------------
(* The element's fields, the maps of brokers and hosts, and the channels hold
   what their declarations say. *)
TypeOK ==
  /\ registered \subseteq Service
  /\ connected \in BOOLEAN /\ changed \in BOOLEAN
  /\ options \in Kinds \cup {"none", "incomplete"}
  /\ starts \in Nat
  /\ ref \in Bus \cup {None} /\ provided \in Bus \cup {None}
  /\ life \in [Bus -> {"unused", "running", "disposed"}]
  /\ kind \in [Bus -> Kinds \cup {None}]
  /\ phase \in [Call -> {"new", "invalid", "pending", "unheard", "timeout", "disposed", "gone"} \cup Answers]
  /\ via \in [Call -> Bus \cup Host \cup {None}]
  /\ up \in [Bus -> Seq(Envelope)] /\ down \in [Bus -> Seq(Envelope)]
  /\ awaits \in [Call -> Host \cup {None}]
  /\ serviceToHost \in [Bus -> [Service -> Host \cup {None}]]
  /\ hostState \in [Host -> {"unused", "launching", "up", "dead", "closed"}]
  /\ owner \in [Host -> Bus \cup {None}]
  /\ toHost \in [Host -> Seq(Call)] /\ fromHost \in [Host -> Seq(Envelope)]
  /\ running \in [Host -> SUBSET Call]
  /\ runs \in [Call -> Nat]

(* However restarts, disconnections and reconnections overlap, no bus is left
   running that the element has lost: it could never be disposed. *)
NoBusLost == \A b \in Bus : life[b] = "running" => b = ref

(* Descendants are never given the client of a bus that was disposed. *)
ProvidedLive == provided # None => life[provided] = "running"

(* The element never loses hold of a bus, nor hands out one that is gone. *)
ElementSound == TypeOK /\ NoBusLost /\ ProvidedLive

(* A call of the page that has no calls of its own is settled without the help
   of its timer, whether its method runs or it is refused: also when its service
   is launched twice, and when the bus is disposed under it.  It may wait for
   ever only if the host that it has come to dies or is not launched, or if the
   broker's map names a dead host for its service; what happens to other hosts
   does not matter to it.  (On a disposed bus it is "unheard" from the start.) *)
Pending(c) == phase[c] = "pending"
Posted(channel, c) == \E i \in DOMAIN channel : channel[i].id = c
Has(h, c) ==
  \/ awaits[c] = h \/ c \in running[h] \/ Posted(fromHost[h], c)
  \/ \E i \in DOMAIN toHost[h] : toHost[h][i] = c
Nowhere(c) ==
  /\ ~Posted(up[via[c]], c) /\ ~Posted(down[via[c]], c)
  /\ \A h \in Host : ~Has(h, c)
MappedTo(h, c) == serviceToHost[via[c]][To[c]] = h
LostWith(h, c) == hostState[h] = "dead" /\ Nowhere(c)

Leaf(c) == Parent[c] = None /\ \A d \in Call : Parent[d] # c
AnsweredInTime ==
  \A c \in {d \in Call : Leaf(d)} :
    /\ (Pending(c) /\ Posted(up[via[c]], c))
         ~> (~Pending(c) \/ \E h \in Host : Has(h, c) \/ (MappedTo(h, c) /\ LostWith(h, c)))
    /\ \A h \in Host : (Pending(c) /\ Has(h, c)) ~> (~Pending(c) \/ LostWith(h, c))

(* The bus is another implementation of what a caller may rely on. *)
Outcome(c) ==
  CASE phase[c] \in {"new", "invalid"} -> "idle"
    [] phase[c] \in {"pending", "unheard"} -> "asked"
    [] phase[c] \in {"return", "error"} -> "answered"
    [] phase[c] = "refused" -> "refused"
    [] OTHER -> "abandoned"
Promised == INSTANCE RemoteCall WITH
  Msg <- Call, state <- [c \in Call |-> Outcome(c)]
KeepsPromise == Promised!Spec
=============================================================================

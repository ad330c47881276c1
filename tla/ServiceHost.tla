------------------------------ MODULE ServiceHost ------------------------------
(***************************************************************************)
(* packages/runtime/src/service-host.ts: one ServiceHost.  It keeps an      *)
(* entry for every service it has activated, takes that entry through       *)
(* activating_1 and activating_2 to active, queues what arrives before, and *)
(* handles messages one at a time per entry by chaining them on a promise.  *)
(*                                                                         *)
(* An entry is an object of its own: deactivate() and a second activate()   *)
(* only change which entry the services map names, so the chain of the old  *)
(* entry goes on running.  Entry is therefore a set of identities and every *)
(* field of ServiceEntry is a function on it.                               *)
(***************************************************************************)
EXTENDS Naturals, Sequences, FiniteSets, Selection

CONSTANTS
  Service,          \* service identifiers the broker may activate here
  Entry,            \* identities of ServiceEntry objects
  Msg,              \* envelopes of type call or behaviour; ids are unique
  Target,           \* Target[m]: envelope.head.service
  Call,             \* the envelopes of type call; the others are behaviours
  Initializer,      \* behaviours whose function is their service's initializer
  HasInitializer,   \* services whose metadata names an initializer
  NeedsSlices,      \* services whose metadata lists required slices
  None              \* no entry, no service

ASSUME HostAssumption ==
  /\ Target \in [Msg -> Service]
  /\ Call \subseteq Msg
  /\ Initializer \subseteq Msg \ Call
  /\ \A m \in Initializer : Target[m] \in HasInitializer
  /\ HasInitializer \subseteq Service
  /\ NeedsSlices \subseteq Service
  /\ None \notin Entry
  /\ None \notin Service

VARIABLES
  services,    \* the services map: the live entry of a service, or None
  owner,       \* the service an entry was made for, None while unused
  state,       \* entry.state
  queue,       \* entry.queue
  chain,       \* entry.processingChain: what is chained and not yet settled
  running,     \* the handler of the head of the chain has been invoked
  seen,        \* envelopes that have reached dispatch()
  accepted,    \* history: what each entry took in, in dispatch order
  finished,    \* history: what each entry has handled, in that order
  initialised, \* history: an initializer of the entry has completed
  replies      \* return and error envelopes sent, in order

entryVars == <<services, owner>>
workVars  == <<state, queue, chain, running>>
ghostVars == <<seen, accepted, finished, initialised>>
vars == <<entryVars, workVars, ghostVars, replies>>

States == {"unused", "activating_1", "activating_2", "active"}
Reply  == [msg : Call, type : {"return", "error"}]

Init ==
  /\ services = [s \in Service |-> None]
  /\ owner = [e \in Entry |-> None]
  /\ state = [e \in Entry |-> "unused"]
  /\ queue = [e \in Entry |-> <<>>]
  /\ chain = [e \in Entry |-> <<>>]
  /\ running = [e \in Entry |-> FALSE]
  /\ seen = {}
  /\ accepted = [e \in Entry |-> <<>>]
  /\ finished = [e \in Entry |-> <<>>]
  /\ initialised = [e \in Entry |-> FALSE]
  /\ replies = <<>>

(* Mutants, here and below: a reply to behaviours too, none for an error. *)
AnswerAny(m, type) == replies' = Append(replies, [msg |-> m, type |-> type])
AnswerReturns(m, type) ==
  replies' = IF m \in Call /\ type = "return"
               THEN Append(replies, [msg |-> m, type |-> type]) ELSE replies

Answer(m, type) ==
  replies' = IF m \in Call THEN Append(replies, [msg |-> m, type |-> type])
                           ELSE replies

-----------------------------------------------------------------------------
(* The first state of an entry: required slices, then the initializer. *)
FirstState(s) ==
  CASE s \in NeedsSlices -> "activating_1"
    [] s \notin NeedsSlices /\ s \in HasInitializer -> "activating_2"
    [] OTHER -> "active"

Activate(s, e) ==
  /\ owner[e] = None
  /\ owner' = [owner EXCEPT ![e] = s]
  /\ services' = [services EXCEPT ![s] = e]
  /\ state' = [state EXCEPT ![e] = FirstState(s)]
  /\ UNCHANGED <<queue, chain, running, ghostVars, replies>>

Deactivate(s) ==
  /\ services[s] # None
  /\ services' = [services EXCEPT ![s] = None]
  /\ UNCHANGED <<owner, workVars, ghostVars, replies>>

(* dispatch() on an envelope whose service has no entry: a call is answered
   with SERVICE_NOT_REGISTERED, a behaviour is dropped without a trace. *)
DispatchUnknown(m) ==
  /\ m \notin seen
  /\ services[Target[m]] = None
  /\ seen' = seen \cup {m}
  /\ Answer(m, "error")
  /\ UNCHANGED <<entryVars, workVars, accepted, finished, initialised>>

(* Mutant: whatever arrives in activating_2 bypasses the queue. *)
BypassesAny(e, m) == state[e] = "activating_2"
Bypasses(e, m) == m \in Initializer /\ state[e] = "activating_2"

Dispatch(m) ==
  LET e == services[Target[m]] IN
  /\ m \notin seen
  /\ e # None
  /\ seen' = seen \cup {m}
  /\ accepted' = [accepted EXCEPT ![e] = Append(@, m)]
  /\ IF Bypasses(e, m) \/ state[e] = "active"
       THEN /\ chain' = [chain EXCEPT ![e] = Append(@, m)]
            /\ UNCHANGED queue
       ELSE /\ queue' = [queue EXCEPT ![e] = Append(@, m)]
            /\ UNCHANGED chain
  /\ UNCHANGED <<entryVars, state, running, finished, initialised, replies>>

-----------------------------------------------------------------------------
(* handleMessage() on the head of the chain, up to its only await: the      *)
(* envelope is refused (undeclared, wrong kind, invalid parameters) or the  *)
(* implementation's method is invoked.                                     *)
Refuse(e) ==
  /\ chain[e] # <<>>
  /\ ~running[e]
  /\ chain' = [chain EXCEPT ![e] = Tail(@)]
  /\ finished' = [finished EXCEPT ![e] = Append(@, Head(chain[e]))]
  /\ Answer(Head(chain[e]), "error")
  /\ UNCHANGED <<entryVars, state, queue, running, seen, accepted, initialised>>

Invoke(e) ==
  /\ chain[e] # <<>>
  /\ ~running[e]
  /\ running' = [running EXCEPT ![e] = TRUE]
  /\ UNCHANGED <<entryVars, state, queue, chain, ghostVars, replies>>

(* Mutant: active before the queue is drained. *)
DrainedLater(e, rest) ==
  /\ state' = [state EXCEPT ![e] = "active"]
  /\ chain' = [chain EXCEPT ![e] = rest]
  /\ UNCHANGED queue

(* transitionToActive(): the queue is chained behind what is chained. *)
Drained(e, rest) ==
  /\ state' = [state EXCEPT ![e] = "active"]
  /\ chain' = [chain EXCEPT ![e] = rest \o queue[e]]
  /\ queue' = [queue EXCEPT ![e] = <<>>]

(* The method returned, and for a call its value is valid. *)
Succeed(e) ==
  LET m == Head(chain[e]) IN
  /\ running[e]
  /\ running' = [running EXCEPT ![e] = FALSE]
  /\ finished' = [finished EXCEPT ![e] = Append(@, m)]
  /\ initialised' = [initialised EXCEPT ![e] = @ \/ m \in Initializer]
  /\ Answer(m, "return")
  /\ IF Bypasses(e, m)
       THEN Drained(e, Tail(chain[e]))
       ELSE /\ chain' = [chain EXCEPT ![e] = Tail(@)]
            /\ UNCHANGED <<state, queue>>
  /\ UNCHANGED <<entryVars, seen, accepted>>

(* The method threw, or returned a value its schema refuses. *)
Fail(e) ==
  LET m == Head(chain[e]) IN
  /\ running[e]
  /\ running' = [running EXCEPT ![e] = FALSE]
  /\ chain' = [chain EXCEPT ![e] = Tail(@)]
  /\ finished' = [finished EXCEPT ![e] = Append(@, m)]
  /\ Answer(m, "error")
  /\ UNCHANGED <<entryVars, state, queue, seen, accepted, initialised>>

-----------------------------------------------------------------------------
(* notifySlicesLoaded(): the first queued initializer, if there is one, is  *)
(* taken out of the queue and chained; a service without an initializer     *)
(* goes straight to active.                                                *)
QueuedInitializers(e) == {i \in DOMAIN queue[e] : queue[e][i] \in Initializer}
(* Mutant: one too many is taken out. *)
WithoutTwo(seq, i) == SubSeq(seq, 1, i - 1) \o SubSeq(seq, i + 2, Len(seq))
Without(seq, i) == SubSeq(seq, 1, i - 1) \o SubSeq(seq, i + 1, Len(seq))

NotifySlicesLoaded(s) ==
  LET e == services[s]
      inits == QueuedInitializers(e) IN
  /\ e # None
  /\ state[e] = "activating_1"
  /\ \/ /\ s \notin HasInitializer
        /\ Drained(e, chain[e])
     \/ /\ s \in HasInitializer
        /\ state' = [state EXCEPT ![e] = "activating_2"]
        /\ \/ inits = {} /\ UNCHANGED <<queue, chain>>
           \/ \E i \in inits :
                /\ \A j \in inits : i <= j
                /\ chain' = [chain EXCEPT ![e] = Append(@, queue[e][i])]
                /\ queue' = [queue EXCEPT ![e] = Without(@, i)]
  /\ UNCHANGED <<entryVars, running, ghostVars, replies>>

Next ==
  \/ \E s \in Service, e \in Entry : Activate(s, e)
  \/ \E s \in Service : Deactivate(s) \/ NotifySlicesLoaded(s)
  \/ \E m \in Msg : Dispatch(m) \/ DispatchUnknown(m)
  \/ \E e \in Entry : Refuse(e) \/ Invoke(e) \/ Succeed(e) \/ Fail(e)

Spec == Init /\ [][Next]_vars

(* Promise callbacks are run by the event loop, and every handler is taken to
   settle; the host itself puts no bound on a handler. *)
Fairness ==
  \A e \in Entry : /\ WF_vars(Refuse(e) \/ Invoke(e))
                    /\ WF_vars(Succeed(e) \/ Fail(e))

FairSpec == Spec /\ Fairness

-----------------------------------------------------------------------------
(* Every field of an entry has the type service-host.ts declares for it. *)
TypeOK ==
  /\ services \in [Service -> Entry \cup {None}]
  /\ owner \in [Entry -> Service \cup {None}]
  /\ state \in [Entry -> States]
  /\ queue \in [Entry -> Seq(Msg)]
  /\ chain \in [Entry -> Seq(Msg)]
  /\ running \in [Entry -> BOOLEAN]
  /\ seen \subseteq Msg
  /\ accepted \in [Entry -> Seq(Msg)]
  /\ finished \in [Entry -> Seq(Msg)]
  /\ initialised \in [Entry -> BOOLEAN]
  /\ replies \in Seq(Reply)

(* The first thing a service with an initializer ever runs is the
   initializer: no other method is invoked before one has completed, however
   slices, queued messages and a bypassing initializer interleave. *)
InitializerFirst ==
  \A e \in Entry :
    running[e] /\ owner[e] \in HasInitializer /\ Head(chain[e]) \notin Initializer
      => initialised[e]

(* Messages other than initializers are handled exactly in the order
   dispatch() took them in; activation neither loses, repeats nor reorders
   one, whether it waited in the queue, in the chain or in neither. *)
Plain(seq) == Only(seq, Msg \ Initializer)
DeliveryOrder ==
  \A e \in Entry :
    Plain(finished[e] \o chain[e] \o queue[e]) = Plain(accepted[e])

(* A call is answered once it has been handled or has found no entry, never
   earlier and never twice; a behaviour is never answered. *)
Replies(m) == {i \in DOMAIN replies : replies[i].msg = m}
Held(e, m) == \E i \in DOMAIN (chain[e] \o queue[e]) : (chain[e] \o queue[e])[i] = m
AnsweredOnce ==
  \A m \in Msg :
    Cardinality(Replies(m)) =
      IF m \in Call \cap seen /\ \A e \in Entry : ~Held(e, m) THEN 1 ELSE 0

(* An active entry leaves nothing in its queue: what arrived while it was
   activating has been chained by the step that activated it. *)
NothingStranded == \A e \in Entry : state[e] = "active" => queue[e] = <<>>

(* What an active entry has taken in is handled in the end: draining the
   queue and the promise chain never leave a message behind. *)
ActiveServes ==
  \A m \in Msg, e \in Entry :
    (state[e] = "active" /\ Held(e, m)) ~> ~Held(e, m)
=============================================================================

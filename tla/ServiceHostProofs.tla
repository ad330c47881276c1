---------------------------- MODULE ServiceHostProofs ----------------------------
(***************************************************************************)
(* Proofs about ServiceHost, for any services, messages and metadata.       *)
(***************************************************************************)
EXTENDS ServiceHost, SequenceLemmas, TLAPS

USE HostAssumption DEF HostAssumption

(* What makes InitializerFirst and NothingStranded inductive: an entry holds
   nothing before it is made, chains nothing before its slices are loaded and
   nothing but initializers before it is active, and only an initializer, or
   having none, makes it active. *)
Unused(e) == state[e] = "unused"
OwnersAgree ==
  /\ \A s \in Service : services[s] # None => owner[services[s]] = s
  /\ \A e \in Entry : Unused(e) <=> owner[e] = None
ChainsWait ==
  \A e \in Entry : state[e] \in {"unused", "activating_1"} => chain[e] = <<>>
ChainsInitialise ==
  \A e \in Entry : state[e] = "activating_2" =>
    \A i \in DOMAIN chain[e] : chain[e][i] \in Initializer
QueuesEmpty ==
  \A e \in Entry : state[e] \in {"unused", "active"} => queue[e] = <<>>
ActiveInitialised ==
  \A e \in Entry : state[e] = "active" /\ owner[e] \in HasInitializer => initialised[e]
RunningChained == \A e \in Entry : running[e] => chain[e] # <<>>

IInv ==
  /\ TypeOK /\ OwnersAgree /\ ChainsWait /\ ChainsInitialise
  /\ QueuesEmpty /\ ActiveInitialised /\ RunningChained

-----------------------------------------------------------------------------
(* A sequence without one of its elements is a sequence of the same things. *)
LEMMA WithoutType ==
  ASSUME NEW S, NEW seq \in Seq(S), NEW i \in DOMAIN seq
  PROVE  Without(seq, i) \in Seq(S)
  BY DEF Without

(* Chaining a queue behind a chain gives a sequence of messages again. *)
LEMMA DrainedType ==
  ASSUME TypeOK, NEW e \in Entry, NEW rest \in Seq(Msg), Drained(e, rest)
  PROVE  /\ state' \in [Entry -> States]
         /\ chain' \in [Entry -> Seq(Msg)]
         /\ queue' \in [Entry -> Seq(Msg)]
<1>1. rest \o queue[e] \in Seq(Msg) /\ <<>> \in Seq(Msg)
  BY DEF TypeOK
<1> QED
  BY <1>1 DEF Drained, TypeOK, States

(* A reply is sent for a call only. *)
LEMMA AnswerType ==
  ASSUME TypeOK, NEW m \in Msg, NEW type \in {"return", "error"}, Answer(m, type)
  PROVE  replies' \in Seq(Reply)
<1>1. CASE m \in Call
  <2>1. [msg |-> m, type |-> type] \in Reply
    BY <1>1 DEF Reply
  <2> QED
    BY <1>1, <2>1 DEF Answer, TypeOK
<1>2. CASE m \notin Call
  BY <1>2 DEF Answer, TypeOK
<1> QED
  BY <1>1, <1>2

(* The head of a chain that is not empty is a message. *)
LEMMA HeadType ==
  ASSUME TypeOK, NEW e \in Entry, chain[e] # <<>>
  PROVE  Head(chain[e]) \in Msg /\ Tail(chain[e]) \in Seq(Msg)
  BY DEF TypeOK

-----------------------------------------------------------------------------
(* Every field of an entry keeps its type.  RunningChained is needed with it:
   a method that completes is at the head of its chain. *)
LEMMA TypeStep ==
  ASSUME TypeOK, RunningChained, [Next]_vars
  PROVE  TypeOK'
<1>1. ASSUME NEW s \in Service, NEW e \in Entry, Activate(s, e)
      PROVE  TypeOK'
  <2>1. FirstState(s) \in States
    BY DEF FirstState, States
  <2> QED
    BY <1>1, <2>1 DEF Activate, TypeOK, ghostVars
<1>2. ASSUME NEW s \in Service, Deactivate(s)
      PROVE  TypeOK'
  BY <1>2 DEF Deactivate, TypeOK, workVars, ghostVars
<1>3. ASSUME NEW s \in Service, NotifySlicesLoaded(s)
      PROVE  TypeOK'
  <2> DEFINE e == services[s]
  <2>1. e \in Entry
    BY <1>3 DEF NotifySlicesLoaded, TypeOK
  <2>2. chain[e] \in Seq(Msg) /\ queue[e] \in Seq(Msg)
    BY <2>1 DEF TypeOK
  <2>3. CASE Drained(e, chain[e])
    BY <1>3, <2>1, <2>2, <2>3, DrainedType
    DEF NotifySlicesLoaded, TypeOK, entryVars, ghostVars
  <2>4. CASE state' = [state EXCEPT ![e] = "activating_2"] /\ UNCHANGED <<queue, chain>>
    BY <1>3, <2>1, <2>4 DEF NotifySlicesLoaded, TypeOK, States, entryVars, ghostVars
  <2>5. ASSUME NEW i \in QueuedInitializers(e),
               state' = [state EXCEPT ![e] = "activating_2"],
               chain' = [chain EXCEPT ![e] = Append(@, queue[e][i])],
               queue' = [queue EXCEPT ![e] = Without(@, i)]
        PROVE  TypeOK'
    <3>1. i \in DOMAIN queue[e] /\ queue[e][i] \in Msg
      BY <2>2 DEF QueuedInitializers
    <3>2. Without(queue[e], i) \in Seq(Msg) /\ Append(chain[e], queue[e][i]) \in Seq(Msg)
      BY <2>2, <3>1, WithoutType
    <3> QED
      BY <1>3, <2>1, <2>5, <3>2
      DEF NotifySlicesLoaded, TypeOK, States, entryVars, ghostVars
  <2> QED
    BY <1>3, <2>3, <2>4, <2>5 DEF NotifySlicesLoaded
<1>4. ASSUME NEW m \in Msg, DispatchUnknown(m)
      PROVE  TypeOK'
  <2>1. replies' \in Seq(Reply)
    BY <1>4, AnswerType DEF DispatchUnknown
  <2> QED
    BY <1>4, <2>1 DEF DispatchUnknown, TypeOK, entryVars, workVars
<1>5. ASSUME NEW m \in Msg, Dispatch(m)
      PROVE  TypeOK'
  <2> DEFINE e == services[Target[m]]
  <2>1. e \in Entry
    BY <1>5 DEF Dispatch, TypeOK
  <2>2. /\ Append(chain[e], m) \in Seq(Msg)
        /\ Append(queue[e], m) \in Seq(Msg)
        /\ Append(accepted[e], m) \in Seq(Msg)
    BY <2>1 DEF TypeOK
  <2>3. accepted' \in [Entry -> Seq(Msg)]
    BY <1>5, <2>1, <2>2 DEF Dispatch, TypeOK
  <2>4. chain' \in [Entry -> Seq(Msg)] /\ queue' \in [Entry -> Seq(Msg)]
    <3>1. CASE chain' = [chain EXCEPT ![e] = Append(@, m)] /\ UNCHANGED queue
      BY <2>2, <3>1 DEF TypeOK
    <3>2. CASE queue' = [queue EXCEPT ![e] = Append(@, m)] /\ UNCHANGED chain
      BY <2>2, <3>2 DEF TypeOK
    <3> QED
      BY <1>5, <3>1, <3>2 DEF Dispatch
  <2> QED
    BY <1>5, <2>3, <2>4 DEF Dispatch, TypeOK, entryVars
<1>6. ASSUME NEW e \in Entry, Refuse(e)
      PROVE  TypeOK'
  <2>1. Head(chain[e]) \in Msg /\ Tail(chain[e]) \in Seq(Msg)
    BY <1>6, HeadType DEF Refuse
  <2>2. replies' \in Seq(Reply)
    BY <1>6, <2>1, AnswerType DEF Refuse
  <2>3. chain' \in [Entry -> Seq(Msg)]
    BY <1>6, <2>1 DEF Refuse, TypeOK
  <2>4. finished' \in [Entry -> Seq(Msg)]
    BY <1>6, <2>1 DEF Refuse, TypeOK
  <2> QED
    BY <1>6, <2>2, <2>3, <2>4 DEF Refuse, TypeOK, entryVars
<1>7. ASSUME NEW e \in Entry, Invoke(e)
      PROVE  TypeOK'
  BY <1>7 DEF Invoke, TypeOK, entryVars, ghostVars
<1>8. ASSUME NEW e \in Entry, Succeed(e)
      PROVE  TypeOK'
  <2> DEFINE m == Head(chain[e])
  <2>1. m \in Msg /\ Tail(chain[e]) \in Seq(Msg)
    BY <1>8, HeadType DEF Succeed, RunningChained
  <2>2. replies' \in Seq(Reply)
    BY <1>8, <2>1, AnswerType DEF Succeed
  <2>3. finished' \in [Entry -> Seq(Msg)]
    BY <1>8, <2>1 DEF Succeed, TypeOK
  <2>4. running' \in [Entry -> BOOLEAN]
    BY <1>8, Zenon DEF Succeed, TypeOK
  <2>5. initialised' \in [Entry -> BOOLEAN]
    BY <1>8, Zenon DEF Succeed, TypeOK
  <2>6. /\ state' \in [Entry -> States]
        /\ chain' \in [Entry -> Seq(Msg)]
        /\ queue' \in [Entry -> Seq(Msg)]
    <3>1. CASE Drained(e, Tail(chain[e]))
      BY <2>1, <3>1, DrainedType
    <3>2. CASE chain' = [chain EXCEPT ![e] = Tail(@)] /\ UNCHANGED <<state, queue>>
      BY <2>1, <3>2 DEF TypeOK
    <3> QED
      BY <1>8, <3>1, <3>2 DEF Succeed
  <2> QED
    BY <1>8, <2>2, <2>3, <2>4, <2>5, <2>6 DEF Succeed, TypeOK, entryVars
<1>9. ASSUME NEW e \in Entry, Fail(e)
      PROVE  TypeOK'
  <2>1. Head(chain[e]) \in Msg /\ Tail(chain[e]) \in Seq(Msg)
    BY <1>9, HeadType DEF Fail, RunningChained
  <2>2. replies' \in Seq(Reply)
    BY <1>9, <2>1, AnswerType DEF Fail
  <2>3. chain' \in [Entry -> Seq(Msg)] /\ finished' \in [Entry -> Seq(Msg)]
    BY <1>9, <2>1 DEF Fail, TypeOK
  <2>4. running' \in [Entry -> BOOLEAN]
    BY <1>9 DEF Fail, TypeOK
  <2> QED
    BY <1>9, <2>2, <2>3, <2>4 DEF Fail, TypeOK, entryVars
<1>10. CASE UNCHANGED vars
  BY <1>10 DEF vars, entryVars, workVars, ghostVars, TypeOK
<1> QED
  BY <1>1, <1>2, <1>3, <1>4, <1>5, <1>6, <1>7, <1>8, <1>9, <1>10 DEF Next

-----------------------------------------------------------------------------
(* The entry a step is about is a live one, made for the service it names. *)
LEMMA LiveEntry ==
  ASSUME IInv, NEW s \in Service, services[s] # None
  PROVE  /\ services[s] \in Entry
         /\ owner[services[s]] = s
         /\ ~Unused(services[s])
  BY DEF IInv, TypeOK, OwnersAgree

(* Which entry is whose changes in activate() and deactivate() only. *)
LEMMA OwnersStep ==
  ASSUME IInv, [Next]_vars
  PROVE  OwnersAgree'
<1> USE DEF IInv
<1>1. ASSUME NEW s \in Service, NEW e \in Entry, Activate(s, e)
      PROVE  OwnersAgree'
  <2>1. FirstState(s) # "unused"
    BY DEF FirstState
  <2>2. \A t \in Service : services[t] # e
    BY <1>1 DEF Activate, OwnersAgree, TypeOK
  <2> QED
    BY <1>1, <2>1, <2>2 DEF Activate, OwnersAgree, TypeOK, Unused
<1>2. ASSUME NEW s \in Service, Deactivate(s)
      PROVE  OwnersAgree'
  BY <1>2 DEF Deactivate, OwnersAgree, TypeOK, Unused, workVars
<1>3. ASSUME UNCHANGED entryVars, NEW e \in Entry, ~Unused(e), NEW new \in States \ {"unused"},
             \/ UNCHANGED state
             \/ state' = [state EXCEPT ![e] = new]
      PROVE  OwnersAgree'
  BY <1>3 DEF entryVars, OwnersAgree, TypeOK, Unused
<1>4. ASSUME UNCHANGED <<entryVars, state>>
      PROVE  OwnersAgree'
  BY <1>4 DEF entryVars, OwnersAgree, Unused
<1>5. ASSUME NEW s \in Service, NotifySlicesLoaded(s)
      PROVE  OwnersAgree'
  BY <1>3, <1>5, LiveEntry DEF NotifySlicesLoaded, Drained, States
<1>6. ASSUME NEW e \in Entry, Succeed(e)
      PROVE  OwnersAgree'
  <2>1. ~Unused(e)
    BY <1>6 DEF Succeed, Unused, ChainsWait, RunningChained
  <2> QED
    BY <1>3, <1>6, <2>1 DEF Succeed, Drained, States
<1> QED
  BY <1>1, <1>2, <1>4, <1>5, <1>6
  DEF Next, vars, workVars, DispatchUnknown, Dispatch, Refuse, Invoke, Fail

(* Chains: what is chained before an entry is active. *)
ChainsOK == ChainsWait /\ ChainsInitialise
(* Every step keeps what a chain may hold in each state of its entry. *)
LEMMA ChainsStep ==
  ASSUME IInv, [Next]_vars
  PROVE  ChainsOK'
<1> USE DEF IInv, ChainsOK
<1>1. ASSUME NEW s \in Service, NEW e \in Entry, Activate(s, e)
      PROVE  ChainsOK'
  <2>1. chain[e] = <<>>
    BY <1>1 DEF Activate, OwnersAgree, Unused, ChainsWait
  <2> QED
    BY <1>1, <2>1 DEF Activate, ChainsWait, ChainsInitialise, TypeOK
<1>2. ASSUME NEW s \in Service, NotifySlicesLoaded(s)
      PROVE  ChainsOK'
  <2> DEFINE e == services[s]
  <2>1. e \in Entry /\ chain[e] = <<>> /\ queue[e] \in Seq(Msg)
    BY <1>2 DEF NotifySlicesLoaded, TypeOK, ChainsWait
  <2>2. CASE Drained(e, chain[e])
    BY <2>1, <2>2 DEF Drained, ChainsWait, ChainsInitialise, TypeOK
  <2>3. CASE state' = [state EXCEPT ![e] = "activating_2"] /\ UNCHANGED chain
    BY <2>1, <2>3 DEF ChainsWait, ChainsInitialise, TypeOK
  <2>4. ASSUME NEW i \in QueuedInitializers(e),
               state' = [state EXCEPT ![e] = "activating_2"],
               chain' = [chain EXCEPT ![e] = Append(@, queue[e][i])]
        PROVE  ChainsOK'
    <3>1. queue[e][i] \in Initializer
      BY DEF QueuedInitializers
    <3>2. chain'[e] = <<queue[e][i]>>
      BY <2>1, <2>4 DEF TypeOK
    <3> QED
      BY <2>1, <2>4, <3>1, <3>2 DEF ChainsWait, ChainsInitialise, TypeOK
  <2> QED
    BY <1>2, <2>2, <2>3, <2>4 DEF NotifySlicesLoaded
<1>3. ASSUME NEW m \in Msg, Dispatch(m)
      PROVE  ChainsOK'
  <2> DEFINE e == services[Target[m]]
  <2>1. e \in Entry
    BY <1>3, LiveEntry DEF Dispatch
  <2>2. CASE UNCHANGED chain
    BY <1>3, <2>2 DEF Dispatch, ChainsWait, ChainsInitialise
  <2>3. CASE Bypasses(e, m) /\ chain' = [chain EXCEPT ![e] = Append(@, m)]
    <3>1. \A i \in DOMAIN Append(chain[e], m) : Append(chain[e], m)[i] \in Initializer
      BY <2>1, <2>3 DEF Bypasses, ChainsInitialise, TypeOK
    <3> QED
      BY <1>3, <2>1, <2>3, <3>1
      DEF Dispatch, Bypasses, ChainsWait, ChainsInitialise, TypeOK
  <2>4. CASE state[e] = "active" /\ chain' = [chain EXCEPT ![e] = Append(@, m)]
    BY <1>3, <2>1, <2>4 DEF Dispatch, ChainsWait, ChainsInitialise, TypeOK
  <2> QED
    BY <1>3, <2>2, <2>3, <2>4 DEF Dispatch
<1>4. ASSUME NEW e \in Entry, chain[e] # <<>>, UNCHANGED state,
             chain' = [chain EXCEPT ![e] = Tail(@)]
      PROVE  ChainsOK'
  <2>1. state[e] \notin {"unused", "activating_1"}
    BY <1>4 DEF ChainsWait
  <2>2. state[e] = "activating_2" =>
          \A i \in DOMAIN Tail(chain[e]) : Tail(chain[e])[i] \in Initializer
    <3>1. chain[e] \in Seq(Msg)
      BY DEF TypeOK
    <3> QED
      BY <1>4, <3>1 DEF ChainsInitialise
  <2> QED
    BY <1>4, <2>1, <2>2 DEF ChainsWait, ChainsInitialise, TypeOK
<1>5. ASSUME NEW e \in Entry, Refuse(e)
      PROVE  ChainsOK'
  BY <1>4, <1>5 DEF Refuse
<1>6. ASSUME NEW e \in Entry, Succeed(e)
      PROVE  ChainsOK'
  <2>1. CASE Drained(e, Tail(chain[e]))
    BY <2>1 DEF Drained, ChainsWait, ChainsInitialise, TypeOK
  <2>2. CASE chain' = [chain EXCEPT ![e] = Tail(@)] /\ UNCHANGED state
    BY <1>4, <1>6, <2>2 DEF Succeed, RunningChained
  <2> QED
    BY <1>6, <2>1, <2>2 DEF Succeed
<1>7. ASSUME NEW e \in Entry, Fail(e)
      PROVE  ChainsOK'
  BY <1>4, <1>7 DEF Fail, RunningChained
<1>8. ASSUME UNCHANGED <<state, chain>>
      PROVE  ChainsOK'
  BY <1>8 DEF ChainsWait, ChainsInitialise
<1> QED
  BY <1>1, <1>2, <1>3, <1>5, <1>6, <1>7, <1>8
  DEF Next, vars, workVars, Deactivate, DispatchUnknown, Invoke

(* Queues, what makes an entry active, and what runs. *)
RestOK == QueuesEmpty /\ ActiveInitialised /\ RunningChained
(* Every step keeps queues empty where they must be, and runs within chains. *)
LEMMA RestStep ==
  ASSUME IInv, [Next]_vars
  PROVE  RestOK'
<1> USE DEF IInv, RestOK
<1>1. ASSUME NEW s \in Service, NEW e \in Entry, Activate(s, e)
      PROVE  RestOK'
  <2>1. Unused(e)
    BY <1>1 DEF Activate, OwnersAgree
  <2>2. FirstState(s) = "active" => s \notin HasInitializer
    BY DEF FirstState
  <2> QED
    BY <1>1, <2>1, <2>2
    DEF Activate, Unused, QueuesEmpty, ActiveInitialised, RunningChained, TypeOK, ghostVars
<1>2. ASSUME NEW s \in Service, NotifySlicesLoaded(s)
      PROVE  RestOK'
  <2> DEFINE e == services[s]
  <2>1. e \in Entry /\ owner[e] = s /\ chain[e] = <<>> /\ ~running[e]
    BY <1>2, LiveEntry DEF NotifySlicesLoaded, ChainsWait, RunningChained
  <2>2. RunningChained'
    <3>1. \A f \in Entry \ {e} : chain'[f] = chain[f]
      BY <1>2, <2>1 DEF NotifySlicesLoaded, Drained, TypeOK
    <3> QED
      BY <1>2, <2>1, <3>1 DEF NotifySlicesLoaded, RunningChained
  <2>3. CASE s \notin HasInitializer /\ Drained(e, chain[e])
    BY <1>2, <2>1, <2>2, <2>3
    DEF NotifySlicesLoaded, Drained, QueuesEmpty, ActiveInitialised, TypeOK,
        entryVars, ghostVars
  <2>4. CASE /\ state' = [state EXCEPT ![e] = "activating_2"]
             /\ \A f \in Entry \ {e} : queue'[f] = queue[f]
    BY <1>2, <2>1, <2>2, <2>4
    DEF NotifySlicesLoaded, QueuesEmpty, ActiveInitialised, TypeOK, entryVars, ghostVars
  <2> QED
    BY <1>2, <2>1, <2>3, <2>4 DEF NotifySlicesLoaded, TypeOK
<1>3. ASSUME NEW m \in Msg, Dispatch(m)
      PROVE  RestOK'
  <2> DEFINE e == services[Target[m]]
  <2>1. e \in Entry /\ ~Unused(e)
    BY <1>3, LiveEntry DEF Dispatch
  <2>2. QueuesEmpty'
    BY <1>3, <2>1 DEF Dispatch, QueuesEmpty, TypeOK, Unused
  <2>3. RunningChained'
    <3> DEFINE longer == Append(chain[e], m)
    <3>1. longer # <<>>
      <4>1. chain[e] \in Seq(Msg)
        BY <2>1 DEF TypeOK
      <4>2. Len(longer) = Len(chain[e]) + 1 /\ Len(chain[e]) \in Nat
        BY <4>1
      <4>3. Len(longer) # 0
        BY <4>2
      <4> QED
        BY <4>3
    <3> QED
      BY <1>3, <2>1, <3>1 DEF Dispatch, RunningChained, TypeOK
  <2> QED
    BY <1>3, <2>2, <2>3 DEF Dispatch, ActiveInitialised, entryVars
<1>4. ASSUME NEW e \in Entry, UNCHANGED <<entryVars, state, queue>>,
             chain' = [chain EXCEPT ![e] = Tail(@)],
             ~running'[e], \A f \in Entry \ {e} : running'[f] = running[f],
             \A f \in Entry : initialised[f] => initialised'[f]
      PROVE  RestOK'
  BY <1>4 DEF QueuesEmpty, ActiveInitialised, RunningChained, TypeOK, entryVars
<1>5. ASSUME NEW e \in Entry, Refuse(e)
      PROVE  RestOK'
  BY <1>4, <1>5 DEF Refuse
<1>6. ASSUME NEW e \in Entry, Invoke(e)
      PROVE  RestOK'
  BY <1>6 DEF Invoke, QueuesEmpty, ActiveInitialised, RunningChained, TypeOK,
              entryVars, ghostVars
<1>7. ASSUME NEW e \in Entry, Succeed(e)
      PROVE  RestOK'
  <2> DEFINE m == Head(chain[e])
  <2>1. ~running'[e] /\ \A f \in Entry \ {e} : running'[f] = running[f]
    BY <1>7 DEF Succeed, TypeOK
  <2>2. /\ \A f \in Entry : initialised[f] => initialised'[f]
        /\ m \in Initializer => initialised'[e]
    BY <1>7, Zenon DEF Succeed, TypeOK
  <2>3. CASE Bypasses(e, m) /\ Drained(e, Tail(chain[e]))
    <3>1. initialised'[e]
      BY <2>2, <2>3 DEF Bypasses
    <3> QED
      BY <1>7, <2>1, <2>2, <2>3, <3>1
      DEF Succeed, Drained, QueuesEmpty, ActiveInitialised, RunningChained, TypeOK, entryVars
  <2>4. CASE chain' = [chain EXCEPT ![e] = Tail(@)] /\ UNCHANGED <<state, queue>>
    BY <1>4, <1>7, <2>1, <2>2, <2>4 DEF Succeed
  <2> QED
    BY <1>7, <2>3, <2>4 DEF Succeed
<1>8. ASSUME NEW e \in Entry, Fail(e)
      PROVE  RestOK'
  BY <1>4, <1>8 DEF Fail, TypeOK
<1>9. ASSUME UNCHANGED <<owner, workVars, initialised>>
      PROVE  RestOK'
  BY <1>9 DEF workVars, QueuesEmpty, ActiveInitialised, RunningChained
<1> QED
  BY <1>1, <1>2, <1>3, <1>5, <1>6, <1>7, <1>8, <1>9
  DEF Next, vars, entryVars, ghostVars, Deactivate, DispatchUnknown

-----------------------------------------------------------------------------
(* The inductive invariant holds in every reachable state. *)
THEOREM Inductive == Spec => []IInv
<1>1. Init => IInv
  BY DEF Init, IInv, TypeOK, OwnersAgree, Unused, ChainsWait, ChainsInitialise,
         QueuesEmpty, ActiveInitialised, RunningChained, States
<1>2. IInv /\ [Next]_vars => IInv'
  BY TypeStep, OwnersStep, ChainsStep, RestStep DEF IInv, ChainsOK, RestOK
<1> QED
  BY <1>1, <1>2, PTL DEF Spec

(* Every field of an entry has its declared type, always. *)
THEOREM TypeCorrect == Spec => []TypeOK
<1>1. IInv => TypeOK
  BY DEF IInv
<1> QED
  BY <1>1, Inductive, PTL

(* No method of a service with an initializer is invoked before one of its
   initializers has completed, however the service gets activated. *)
THEOREM InitializersRunFirst == Spec => []InitializerFirst
<1>1. IInv => InitializerFirst
  <2> SUFFICES ASSUME IInv, NEW e \in Entry, running[e],
                      owner[e] \in HasInitializer, Head(chain[e]) \notin Initializer
               PROVE  initialised[e]
    BY DEF InitializerFirst
  <2>1. chain[e] # <<>> /\ chain[e] \in Seq(Msg)
    BY DEF IInv, RunningChained, TypeOK
  <2>2. state[e] # "activating_2"
    BY <2>1 DEF IInv, ChainsInitialise
  <2>3. state[e] = "active"
    BY <2>1, <2>2 DEF IInv, ChainsWait, TypeOK, States
  <2> QED
    BY <2>3 DEF IInv, ActiveInitialised
<1> QED
  BY <1>1, Inductive, PTL

(* The step that makes an entry active chains all that waited for it. *)
THEOREM QueuesDrain == Spec => []NothingStranded
<1>1. IInv => NothingStranded
  BY DEF IInv, QueuesEmpty, NothingStranded
<1> QED
  BY <1>1, Inductive, PTL

-----------------------------------------------------------------------------
(* Order.  Whatever an entry does with what it has taken in, the messages that
   are not initializers stay in their order. *)
Whole(f, c, q) == Plain((f \o c) \o q)
InOrder == \A e \in Entry : Whole(finished[e], chain[e], queue[e]) = Plain(accepted[e])

(* An entry that is left alone. *)
LEMMA LeftAlone ==
  ASSUME InOrder, NEW e \in Entry,
         \A f \in Entry \ {e} : /\ finished'[f] = finished[f] /\ chain'[f] = chain[f]
                                /\ queue'[f] = queue[f] /\ accepted'[f] = accepted[f],
         Whole(finished'[e], chain'[e], queue'[e]) = Plain(accepted'[e])
  PROVE  InOrder'
  BY DEF InOrder

(* Sequences of messages, and what is plain of them. *)
LEMMA MsgSeqs ==
  /\ \A s, t \in Seq(Msg) : s \o t \in Seq(Msg) /\ s \o <<>> = s
  /\ \A s, t, u \in Seq(Msg) : (s \o t) \o u = s \o (t \o u)
  /\ \A s, t \in Seq(Msg), m \in Msg : Append(s, m) \in Seq(Msg) /\ s \o Append(t, m) = Append(s \o t, m)
<1>1. \A s, t \in Seq(Msg) : s \o t \in Seq(Msg)
  BY ConcatPlaces
<1>2. \A s \in Seq(Msg) : s \o <<>> = s
  BY ConcatNone
<1>3. ASSUME NEW s \in Seq(Msg), NEW t \in Seq(Msg), NEW u \in Seq(Msg)
      PROVE  (s \o t) \o u = s \o (t \o u)
  BY ConcatAssociates, SMTT(20)
<1>4. ASSUME NEW s \in Seq(Msg), NEW t \in Seq(Msg), NEW m \in Msg
      PROVE  Append(s, m) \in Seq(Msg) /\ s \o Append(t, m) = Append(s \o t, m)
  <2>1. Append(s, m) \in Seq(Msg)
    OBVIOUS
  <2> QED BY <2>1, ConcatAppend
<1> QED BY <1>1, <1>2, <1>3, <1>4

(* Plain keeps the order, whatever is put together. *)
LEMMA PlainFacts ==
  /\ Plain(<<>>) = <<>>
  /\ \A s \in Seq(Msg) : Plain(s) \in Seq(Msg)
  /\ \A s, t \in Seq(Msg) : Plain(s \o t) = Plain(s) \o Plain(t)
  /\ \A s \in Seq(Msg), m \in Msg :
       /\ m \in Initializer => Plain(Append(s, m)) = Plain(s)
       /\ m \notin Initializer => Plain(Append(s, m)) = Append(Plain(s), m)
<1>1. Plain(<<>>) = <<>>
  BY OnlyOfNone DEF Plain
<1>2. ASSUME NEW s \in Seq(Msg)
      PROVE  Plain(s) \in Seq(Msg)
  BY OnlyType DEF Plain
<1>3. ASSUME NEW s \in Seq(Msg), NEW t \in Seq(Msg)
      PROVE  Plain(s \o t) = Plain(s) \o Plain(t)
  BY OnlyConcat DEF Plain
<1>4. ASSUME NEW s \in Seq(Msg), NEW m \in Msg
      PROVE  /\ m \in Initializer => Plain(Append(s, m)) = Plain(s)
             /\ m \notin Initializer => Plain(Append(s, m)) = Append(Plain(s), m)
  <2> DEFINE others == Msg \ Initializer
  <2>1. m \in others <=> m \notin Initializer
    OBVIOUS
  <2> HIDE DEF others
  <2>2. Only(Append(s, m), others) = IF m \in others THEN Append(Only(s, others), m)
                                     ELSE Only(s, others)
    BY OnlyAppend
  <2> QED BY <2>1, <2>2 DEF Plain, others
<1> QED BY <1>1, <1>2, <1>3, <1>4

(* What is plain of all that an entry took in, part by part. *)
LEMMA WholeParts ==
  ASSUME NEW f \in Seq(Msg), NEW c \in Seq(Msg), NEW q \in Seq(Msg)
  PROVE  Whole(f, c, q) = (Plain(f) \o Plain(c)) \o Plain(q)
<1>1. f \o c \in Seq(Msg)
  BY MsgSeqs
<1>2. Plain(f \o c) = Plain(f) \o Plain(c)
  BY PlainFacts
<1>3. Plain((f \o c) \o q) = Plain(f \o c) \o Plain(q)
  BY <1>1, PlainFacts
<1> QED BY <1>2, <1>3 DEF Whole

(* An initializer that is taken out of a queue takes nothing else with it. *)
LEMMA InitializerTaken ==
  ASSUME NEW q \in Seq(Msg), NEW i \in DOMAIN q, q[i] \in Initializer
  PROVE  Without(q, i) \in Seq(Msg) /\ Plain(Without(q, i)) = Plain(q)
<1> DEFINE before == SubSeq(q, 1, i - 1)
           behind == SubSeq(q, i + 1, Len(q))
           m == q[i]
<1>1. i \in 1 .. Len(q)
  OBVIOUS
<1>2. before \in Seq(Msg) /\ behind \in Seq(Msg) /\ m \in Msg
      /\ q = Append(before, m) \o behind
  BY <1>1, PlaceTakenOut
<1>3. Without(q, i) = before \o behind
  BY DEF Without
<1>4. m \in Initializer
  OBVIOUS
<1> HIDE DEF before, behind, m
<1>5. Plain(Append(before, m)) = Plain(before) /\ Append(before, m) \in Seq(Msg)
  BY <1>2, <1>4, PlainFacts
<1>6. Plain(before \o behind) = Plain(before) \o Plain(behind) /\ before \o behind \in Seq(Msg)
  BY <1>2, PlainFacts, MsgSeqs
<1>7. Plain(Append(before, m) \o behind) = Plain(Append(before, m)) \o Plain(behind)
  BY <1>2, <1>5, PlainFacts
<1> QED BY <1>2, <1>3, <1>5, <1>6, <1>7

(* A queue that is chained stays behind what is chained. *)
LEMMA DrainedInOrder ==
  ASSUME NEW f \in Seq(Msg), NEW c \in Seq(Msg), NEW q \in Seq(Msg)
  PROVE  Whole(f, c \o q, <<>>) = Whole(f, c, q)
<1>1. c \o q \in Seq(Msg)
  BY MsgSeqs
<1>2. f \o (c \o q) \in Seq(Msg)
  BY <1>1, MsgSeqs
<1>3. (f \o (c \o q)) \o <<>> = f \o (c \o q)
  BY <1>2, MsgSeqs
<1>4. f \o (c \o q) = (f \o c) \o q
  BY MsgSeqs
<1> QED BY <1>3, <1>4 DEF Whole

(* A message that has been handled goes from the head of the chain to the end
   of what has been handled. *)
LEMMA HandledInOrder ==
  ASSUME NEW f \in Seq(Msg), NEW c \in Seq(Msg), c # <<>>, NEW q \in Seq(Msg)
  PROVE  /\ Whole(Append(f, Head(c)), Tail(c), q) = Whole(f, c, q)
         /\ Whole(Append(f, Head(c)), Tail(c) \o q, <<>>) = Whole(f, c, q)
<1> DEFINE g == Append(f, Head(c))
           r == Tail(c)
<1>1. g \in Seq(Msg) /\ r \in Seq(Msg)
  BY HeadMoves
<1>2. g \o r = f \o c
  BY HeadMoves
<1> HIDE DEF g, r
<1>3. Whole(g, r, q) = Whole(f, c, q)
  BY <1>2 DEF Whole
<1>4. Whole(g, r \o q, <<>>) = Whole(g, r, q)
  BY <1>1, DrainedInOrder
<1> QED BY <1>3, <1>4 DEF g, r

(* dispatch(): a message goes to the end of all, unless it is an initializer. *)
LEMMA TakenInOrder ==
  ASSUME NEW f \in Seq(Msg), NEW c \in Seq(Msg), NEW q \in Seq(Msg), NEW a \in Seq(Msg),
         Whole(f, c, q) = Plain(a), NEW m \in Msg
  PROVE  /\ Whole(f, c, Append(q, m)) = Plain(Append(a, m))
         /\ q = <<>> \/ m \in Initializer => Whole(f, Append(c, m), q) = Plain(Append(a, m))
<1> DEFINE pf == Plain(f)
           pc == Plain(c)
           pq == Plain(q)
           pa == Plain(a)
           cm == Append(c, m)
           qm == Append(q, m)
<1>1. cm \in Seq(Msg) /\ qm \in Seq(Msg)
  BY MsgSeqs
<1>2. pf \in Seq(Msg) /\ pc \in Seq(Msg) /\ pq \in Seq(Msg) /\ pa \in Seq(Msg)
  BY PlainFacts
<1>3. (pf \o pc) \o pq = pa
  BY WholeParts
<1>4. m \in Initializer => Plain(cm) = pc /\ Plain(qm) = pq /\ Plain(Append(a, m)) = pa
  BY PlainFacts
<1>5. m \notin Initializer => /\ Plain(cm) = Append(pc, m) /\ Plain(qm) = Append(pq, m)
                              /\ Plain(Append(a, m)) = Append(pa, m)
  BY PlainFacts
<1>6. q = <<>> => pq = <<>>
  BY PlainFacts
<1> HIDE DEF cm, qm
<1>7. Whole(f, c, qm) = (pf \o pc) \o Plain(qm) /\ Whole(f, cm, q) = (pf \o Plain(cm)) \o pq
  BY <1>1, WholeParts, ZenonT(20)
<1> HIDE DEF pf, pc, pq, pa
<1>8. pf \o pc \in Seq(Msg) /\ pf \o Append(pc, m) = Append(pf \o pc, m)
  <2>1. pf \o pc \in Seq(Msg)
    BY <1>2, MsgSeqs
  <2>2. pf \o Append(pc, m) = Append(pf \o pc, m)
    BY <1>2, ConcatAppend
  <2> QED BY <2>1, <2>2
<1>9. (pf \o pc) \o Append(pq, m) = Append(pa, m)
  <2> DEFINE fc == pf \o pc
  <2>1. fc \in Seq(Msg) /\ fc \o pq = pa
    BY <1>3, <1>8
  <2> HIDE DEF fc
  <2>2. fc \o Append(pq, m) = Append(fc \o pq, m)
    BY <1>2, <2>1, ConcatAppend, SMTT(20)
  <2> QED BY <2>1, <2>2 DEF fc
<1>10. pq = <<>> => Append(pf \o pc, m) \o pq = Append(pa, m)
  <2>1. Append(pf \o pc, m) \in Seq(Msg)
    BY <1>8, MsgSeqs
  <2>2. Append(pf \o pc, m) \o <<>> = Append(pf \o pc, m) /\ (pf \o pc) \o <<>> = pf \o pc
    BY <1>8, <2>1, MsgSeqs
  <2> QED BY <1>3, <2>2
<1>11. CASE m \in Initializer
  BY <1>3, <1>4, <1>7, <1>11 DEF cm, qm
<1>12. CASE m \notin Initializer
  <2>1. Whole(f, c, qm) = Plain(Append(a, m))
    BY <1>5, <1>7, <1>9, <1>12
  <2>2. q = <<>> => Whole(f, cm, q) = Plain(Append(a, m))
    BY <1>5, <1>6, <1>7, <1>8, <1>10, <1>12
  <2> QED BY <1>12, <2>1, <2>2 DEF cm, qm
<1> QED BY <1>11, <1>12

(* Every step keeps the order of what each entry took in. *)
LEMMA OrderStep ==
  ASSUME IInv, InOrder, [Next]_vars
  PROVE  InOrder'
<1>1. \A e \in Entry : /\ finished[e] \in Seq(Msg) /\ chain[e] \in Seq(Msg)
                       /\ queue[e] \in Seq(Msg) /\ accepted[e] \in Seq(Msg)
  BY DEF IInv, TypeOK
<1>2. ASSUME UNCHANGED <<finished, chain, queue, accepted>>
      PROVE  InOrder'
  BY <1>2 DEF InOrder
<1>3. ASSUME NEW s \in Service, NotifySlicesLoaded(s)
      PROVE  InOrder'
  <2> DEFINE e == services[s]
  <2>1. e \in Entry /\ UNCHANGED <<finished, accepted>>
    BY <1>3 DEF NotifySlicesLoaded, ghostVars, IInv, TypeOK
  <2>2. CASE Drained(e, chain[e])
    <3>1. /\ chain' = [chain EXCEPT ![e] = chain[e] \o queue[e]]
          /\ queue' = [queue EXCEPT ![e] = <<>>]
      BY <2>2 DEF Drained
    <3>2. /\ chain'[e] = chain[e] \o queue[e] /\ queue'[e] = <<>>
          /\ \A f \in Entry \ {e} : chain'[f] = chain[f] /\ queue'[f] = queue[f]
      BY <2>1, <3>1 DEF IInv, TypeOK
    <3> HIDE DEF e
    <3>3. Whole(finished[e], chain[e] \o queue[e], <<>>) = Plain(accepted[e])
      BY <1>1, <2>1, DrainedInOrder DEF InOrder
    <3> QED BY <2>1, <3>2, <3>3, LeftAlone
  <2>3. CASE UNCHANGED <<queue, chain>>
    BY <1>2, <2>1, <2>3
  <2>4. ASSUME NEW i \in QueuedInitializers(e),
               chain' = [chain EXCEPT ![e] = Append(@, queue[e][i])],
               queue' = [queue EXCEPT ![e] = Without(@, i)]
        PROVE  InOrder'
    <3>1. i \in DOMAIN queue[e] /\ queue[e][i] \in Initializer /\ queue[e][i] \in Msg
      BY <1>1, <2>1 DEF QueuedInitializers
    <3>2. /\ chain'[e] = Append(chain[e], queue[e][i]) /\ queue'[e] = Without(queue[e], i)
          /\ \A f \in Entry \ {e} : chain'[f] = chain[f] /\ queue'[f] = queue[f]
      BY <2>1, <2>4 DEF IInv, TypeOK
    <3> HIDE DEF e
    <3> DEFINE f == finished[e]
               c == chain[e]
               q == queue[e]
               m == queue[e][i]
               w == Without(queue[e], i)
               cm == Append(chain[e], m)
    <3>3. /\ f \in Seq(Msg) /\ c \in Seq(Msg) /\ q \in Seq(Msg) /\ m \in Msg /\ cm \in Seq(Msg)
          /\ m \in Initializer
      BY <1>1, <2>1, <3>1
    <3>4. w \in Seq(Msg) /\ Plain(w) = Plain(q)
      BY <3>1, <3>3, InitializerTaken
    <3>5. Plain(cm) = Plain(c)
      BY <3>3, OnlyAppend DEF Plain
    <3>6. Whole(f, c, q) = Plain(accepted[e])
      BY <2>1 DEF InOrder
    <3>7. finished'[e] = f /\ chain'[e] = cm /\ queue'[e] = w /\ accepted'[e] = accepted[e]
      BY <2>1, <3>2
    <3> HIDE DEF f, c, q, w, cm, m
    <3>8. Whole(f, cm, w) = Whole(f, c, q)
      <4>1. Whole(f, cm, w) = (Plain(f) \o Plain(cm)) \o Plain(w)
        BY <3>3, <3>4, WholeParts
      <4>2. Whole(f, c, q) = (Plain(f) \o Plain(c)) \o Plain(q)
        BY <3>3, WholeParts
      <4> QED BY <3>4, <3>5, <4>1, <4>2
    <3> QED BY <2>1, <3>2, <3>6, <3>7, <3>8, LeftAlone
  <2> QED BY <1>3, <2>2, <2>3, <2>4 DEF NotifySlicesLoaded
<1>4. ASSUME NEW m \in Msg, Dispatch(m)
      PROVE  InOrder'
  <2> DEFINE e == services[Target[m]]
  <2>1. e \in Entry /\ UNCHANGED finished /\ accepted' = [accepted EXCEPT ![e] = Append(@, m)]
    BY <1>4 DEF Dispatch, IInv, TypeOK
  <2>2. /\ accepted'[e] = Append(accepted[e], m)
        /\ \A f \in Entry \ {e} : accepted'[f] = accepted[f]
    BY <2>1 DEF IInv, TypeOK
  <2>3. Whole(finished[e], chain[e], queue[e]) = Plain(accepted[e])
    BY <2>1 DEF InOrder
  <2>4. CASE /\ Bypasses(e, m) \/ state[e] = "active"
             /\ chain' = [chain EXCEPT ![e] = Append(@, m)]
             /\ UNCHANGED queue
    <3>1. /\ chain'[e] = Append(chain[e], m) /\ \A f \in Entry \ {e} : chain'[f] = chain[f]
          /\ queue' = queue
      BY <2>1, <2>4 DEF IInv, TypeOK
    <3>2. queue[e] = <<>> \/ m \in Initializer
      BY <2>1, <2>4 DEF Bypasses, IInv, QueuesEmpty
    <3> HIDE DEF e
    <3>3. Whole(finished[e], Append(chain[e], m), queue[e]) = Plain(Append(accepted[e], m))
      <4> DEFINE f == finished[e]
                 c == chain[e]
                 q == queue[e]
                 a == accepted[e]
      <4>1. f \in Seq(Msg) /\ c \in Seq(Msg) /\ q \in Seq(Msg) /\ a \in Seq(Msg)
        BY <1>1, <2>1
      <4>2. Whole(f, c, q) = Plain(a) /\ (q = <<>> \/ m \in Initializer)
        BY <2>3, <3>2
      <4>3. Whole(f, Append(c, m), q) = Plain(Append(a, m))
        <5> HIDE DEF f, c, q, a
        <5> QED BY <4>1, <4>2, TakenInOrder
      <4> QED BY <4>3
    <3> QED BY <2>1, <2>2, <3>1, <3>3, LeftAlone
  <2>5. CASE queue' = [queue EXCEPT ![e] = Append(@, m)] /\ UNCHANGED chain
    <3>1. /\ queue'[e] = Append(queue[e], m) /\ \A f \in Entry \ {e} : queue'[f] = queue[f]
          /\ chain' = chain
      BY <2>1, <2>5 DEF IInv, TypeOK
    <3> HIDE DEF e
    <3>3. Whole(finished[e], chain[e], Append(queue[e], m)) = Plain(Append(accepted[e], m))
      BY <1>1, <2>1, <2>3, TakenInOrder
    <3> QED BY <2>1, <2>2, <3>1, <3>3, LeftAlone
  <2> QED BY <1>4, <2>4, <2>5 DEF Dispatch
<1>5. ASSUME NEW e \in Entry, chain[e] # <<>>, UNCHANGED accepted,
             finished' = [finished EXCEPT ![e] = Append(@, Head(chain[e]))],
             \/ chain' = [chain EXCEPT ![e] = Tail(@)] /\ UNCHANGED queue
             \/ Drained(e, Tail(chain[e]))
      PROVE  InOrder'
  <2>1. /\ finished'[e] = Append(finished[e], Head(chain[e]))
        /\ \A f \in Entry \ {e} : finished'[f] = finished[f] /\ chain'[f] = chain[f]
                                  /\ queue'[f] = queue[f]
    BY <1>5 DEF Drained, IInv, TypeOK
  <2>2. \/ chain'[e] = Tail(chain[e]) /\ queue'[e] = queue[e]
        \/ chain'[e] = Tail(chain[e]) \o queue[e] /\ queue'[e] = <<>>
    BY <1>5 DEF Drained, IInv, TypeOK
  <2>3. Whole(finished'[e], chain'[e], queue'[e]) = Whole(finished[e], chain[e], queue[e])
    <3> DEFINE f == finished[e]
               c == chain[e]
               q == queue[e]
    <3>1. f \in Seq(Msg) /\ c \in Seq(Msg) /\ q \in Seq(Msg) /\ c # <<>>
      BY <1>1, <1>5
    <3>2. /\ Whole(Append(f, Head(c)), Tail(c), q) = Whole(f, c, q)
          /\ Whole(Append(f, Head(c)), Tail(c) \o q, <<>>) = Whole(f, c, q)
      <4> HIDE DEF f, c, q
      <4> QED BY <3>1, HandledInOrder
    <3> QED BY <2>1, <2>2, <3>2
  <2> QED BY <1>5, <2>1, <2>3, LeftAlone DEF InOrder
<1>6. ASSUME NEW e \in Entry, Refuse(e) \/ Succeed(e) \/ Fail(e)
      PROVE  InOrder'
  <2>1. chain[e] # <<>>
    BY <1>6 DEF Refuse, Succeed, Fail, IInv, RunningChained
  <2> QED BY <1>5, <1>6, <2>1 DEF Refuse, Succeed, Fail
<1> QED
  BY <1>2, <1>3, <1>4, <1>6
  DEF Next, vars, workVars, ghostVars, Activate, Deactivate, DispatchUnknown, Invoke

(* However an entry is activated, and whoever bypasses the queue, messages that
   are not initializers are handled in the order in which dispatch() took them
   in, and none is lost or handled twice. *)
THEOREM HandledInTheirOrder == Spec => []DeliveryOrder
<1>1. Init => InOrder
  <2> SUFFICES ASSUME Init, NEW e \in Entry
               PROVE  Whole(finished[e], chain[e], queue[e]) = Plain(accepted[e])
    BY DEF InOrder
  <2>1. finished[e] = <<>> /\ chain[e] = <<>> /\ queue[e] = <<>> /\ accepted[e] = <<>>
    BY DEF Init
  <2>2. (<<>> \o <<>>) \o <<>> = <<>>
    OBVIOUS
  <2> QED BY <2>1, <2>2 DEF Whole
<1>2. IInv /\ InOrder /\ [Next]_vars => InOrder'
  BY OrderStep
<1>3. InOrder => DeliveryOrder
  <2> SUFFICES ASSUME InOrder, NEW e \in Entry
               PROVE  Plain(finished[e] \o chain[e] \o queue[e]) = Plain(accepted[e])
    BY DEF DeliveryOrder
  <2> QED BY DEF InOrder, Whole
<1> QED
  BY <1>1, <1>2, <1>3, Inductive, PTL DEF Spec
-----------------------------------------------------------------------------
(* Answers.  What an entry holds is in one place of its chain or its queue, in
   no other entry, and has been seen; and the calls that were answered are
   exactly those that were seen and that no entry holds any more. *)
Holds(c, q) == Elems(c) \cup Elems(q)
OnePlace(c, q) == OneEach(c) /\ OneEach(q) /\ Elems(c) \cap Elems(q) = {}
HeldOnce ==
  /\ \A e \in Entry : OnePlace(chain[e], queue[e]) /\ Holds(chain[e], queue[e]) \subseteq seen
  /\ \A e, f \in Entry :
       e # f => Holds(chain[e], queue[e]) \cap Holds(chain[f], queue[f]) = {}
Answered == {replies[i].msg : i \in 1 .. Len(replies)}
RepliedOnce ==
  \A i, j \in 1 .. Len(replies) : replies[i].msg = replies[j].msg => i = j
RepliedWhenDone ==
  Answered = {m \in Call \cap seen : \A e \in Entry : m \notin Holds(chain[e], queue[e])}
AnswerInv == HeldOnce /\ RepliedOnce /\ RepliedWhenDone

(* A reply to a call that has none leaves each call with at most one. *)
LEMMA OneMoreReply ==
  ASSUME TypeOK, RepliedOnce, NEW m \in Msg, m \notin Answered,
         NEW type \in {"return", "error"}, Answer(m, type)
  PROVE  RepliedOnce' /\ Answered' = Answered \cup ({m} \cap Call)
<1>1. CASE m \notin Call
  BY <1>1 DEF Answer, RepliedOnce, Answered
<1>2. CASE m \in Call
  <2> DEFINE x == [msg |-> m, type |-> type]
             n == Len(replies)
  <2>1. replies \in Seq(Reply) /\ x \in Reply /\ x.msg = m /\ n \in Nat
    BY <1>2 DEF TypeOK, Reply
  <2>2. replies' = Append(replies, x)
    BY <1>2 DEF Answer
  <2> HIDE DEF x
  <2>3. /\ Len(replies') = n + 1 /\ replies'[n + 1] = x
        /\ \A i \in 1 .. n : replies'[i] = replies[i]
    BY <2>1, <2>2
  <2> HIDE DEF n
  <2>4. 1 .. n + 1 = (1 .. n) \cup {n + 1}
    BY <2>1
  <2>5. \A i \in 1 .. n : replies'[i].msg # m
    BY <2>3 DEF Answered, n
  <2>6. RepliedOnce'
    BY <2>1, <2>3, <2>4, <2>5 DEF RepliedOnce, n
  <2>7. Answered' = Answered \cup {m}
    BY <2>1, <2>3, <2>4 DEF Answered, n
  <2> QED BY <1>2, <2>6, <2>7
<1> QED BY <1>1, <1>2

(* The message at the head of a chain is handled and leaves its entry. *)
LEMMA OneSettled ==
  ASSUME TypeOK, AnswerInv, NEW e \in Entry, NEW m \in Holds(chain[e], queue[e]),
         NEW type \in {"return", "error"}, Answer(m, type), seen' = seen,
         OnePlace(chain'[e], queue'[e]),
         Holds(chain'[e], queue'[e]) = Holds(chain[e], queue[e]) \ {m},
         \A f \in Entry \ {e} : chain'[f] = chain[f] /\ queue'[f] = queue[f]
  PROVE  AnswerInv'
<1>1. m \in seen /\ m \in Msg /\ m \notin Answered
  BY DEF AnswerInv, HeldOnce, RepliedWhenDone, TypeOK
<1>2. RepliedOnce' /\ Answered' = Answered \cup ({m} \cap Call)
  BY <1>1, OneMoreReply DEF AnswerInv
<1>3. HeldOnce'
  BY DEF AnswerInv, HeldOnce
<1>4. \A f \in Entry : Holds(chain'[f], queue'[f]) = Holds(chain[f], queue[f]) \ {m}
  <2> SUFFICES ASSUME NEW f \in Entry \ {e}
               PROVE  m \notin Holds(chain[f], queue[f])
    OBVIOUS
  <2> QED BY DEF AnswerInv, HeldOnce
<1>5. RepliedWhenDone'
  BY <1>1, <1>2, <1>4 DEF AnswerInv, RepliedWhenDone
<1> QED BY <1>2, <1>3, <1>5 DEF AnswerInv

(* An entry takes in a message nobody has seen. *)
LEMMA OneTaken ==
  ASSUME TypeOK, AnswerInv, NEW e \in Entry, NEW m \in Msg, m \notin seen,
         seen' = seen \cup {m}, replies' = replies,
         OnePlace(chain'[e], queue'[e]),
         Holds(chain'[e], queue'[e]) = Holds(chain[e], queue[e]) \cup {m},
         \A f \in Entry \ {e} : chain'[f] = chain[f] /\ queue'[f] = queue[f]
  PROVE  AnswerInv'
<1>1. \A f \in Entry : m \notin Holds(chain[f], queue[f])
  BY DEF AnswerInv, HeldOnce
<1>2. HeldOnce'
  <2>1. \A f \in Entry : /\ OnePlace(chain'[f], queue'[f])
                         /\ Holds(chain'[f], queue'[f]) \subseteq seen'
    BY DEF AnswerInv, HeldOnce
  <2>2. ASSUME NEW f \in Entry, NEW g \in Entry, f # g
        PROVE  Holds(chain'[f], queue'[f]) \cap Holds(chain'[g], queue'[g]) = {}
    BY <1>1, <2>2 DEF AnswerInv, HeldOnce
  <2> QED BY <2>1, <2>2 DEF HeldOnce
<1>3. RepliedOnce' /\ Answered' = Answered
  BY DEF AnswerInv, RepliedOnce, Answered
<1>4. \A x \in seen' : (\A f \in Entry : x \notin Holds(chain'[f], queue'[f]))
                         <=> x # m /\ \A f \in Entry : x \notin Holds(chain[f], queue[f])
  <2> SUFFICES ASSUME NEW x
               PROVE  (\A f \in Entry : x \notin Holds(chain'[f], queue'[f]))
                         <=> x # m /\ \A f \in Entry : x \notin Holds(chain[f], queue[f])
    OBVIOUS
  <2>1. \A f \in Entry \ {e} : Holds(chain'[f], queue'[f]) = Holds(chain[f], queue[f])
    OBVIOUS
  <2> QED BY <2>1
<1>5. RepliedWhenDone'
  BY <1>3, <1>4 DEF AnswerInv, RepliedWhenDone
<1> QED BY <1>2, <1>3, <1>5 DEF AnswerInv

(* An entry rearranges what it holds. *)
LEMMA OneMoved ==
  ASSUME AnswerInv, NEW e \in Entry, UNCHANGED <<seen, replies>>,
         OnePlace(chain'[e], queue'[e]),
         Holds(chain'[e], queue'[e]) = Holds(chain[e], queue[e]),
         \A f \in Entry \ {e} : chain'[f] = chain[f] /\ queue'[f] = queue[f]
  PROVE  AnswerInv'
<1>1. \A f \in Entry : Holds(chain'[f], queue'[f]) = Holds(chain[f], queue[f])
  OBVIOUS
<1>2. HeldOnce'
  BY <1>1 DEF AnswerInv, HeldOnce
<1>3. RepliedOnce' /\ RepliedWhenDone'
  BY <1>1 DEF AnswerInv, RepliedOnce, RepliedWhenDone, Answered
<1> QED BY <1>2, <1>3 DEF AnswerInv

(* What the steps of an entry do with the places of what it holds. *)
LEMMA PlacesDrained ==
  ASSUME NEW c \in Seq(Msg), NEW q \in Seq(Msg), OnePlace(c, q)
  PROVE  OnePlace(c \o q, <<>>) /\ Holds(c \o q, <<>>) = Holds(c, q)
<1>1. Elems(c \o q) = Elems(c) \cup Elems(q)
  BY ElemsConcat
<1>2. OneEach(c) /\ OneEach(q) /\ Elems(c) \cap Elems(q) = {} => OneEach(c \o q)
  BY ElemsConcat
<1> QED BY <1>1, <1>2, ElemsOfNone DEF OnePlace, Holds

(* The head of a chain leaves it. *)
LEMMA PlacesTail ==
  ASSUME NEW c \in Seq(Msg), NEW q \in Seq(Msg), OnePlace(c, q), c # <<>>
  PROVE  /\ Head(c) \in Holds(c, q) /\ Tail(c) \in Seq(Msg)
         /\ OnePlace(Tail(c), q) /\ Holds(Tail(c), q) = Holds(c, q) \ {Head(c)}
<1>1. /\ OneEach(Tail(c)) /\ Elems(Tail(c)) = Elems(c) \ {Head(c)}
      /\ Head(c) \in Elems(c)
  BY ElemsTail DEF OnePlace
<1>2. Tail(c) \in Seq(Msg)
  OBVIOUS
<1> QED BY <1>1, <1>2 DEF OnePlace, Holds

(* What is new is put at an end. *)
LEMMA PlacesAppend ==
  ASSUME NEW c \in Seq(Msg), NEW q \in Seq(Msg), OnePlace(c, q),
         NEW m \in Msg, m \notin Holds(c, q)
  PROVE  /\ OnePlace(Append(c, m), q) /\ Holds(Append(c, m), q) = Holds(c, q) \cup {m}
         /\ OnePlace(c, Append(q, m)) /\ Holds(c, Append(q, m)) = Holds(c, q) \cup {m}
<1>1. \A s \in Seq(Msg) : /\ Elems(Append(s, m)) = Elems(s) \cup {m}
                          /\ OneEach(s) /\ m \notin Elems(s) => OneEach(Append(s, m))
  BY ElemsAppend
<1> QED BY <1>1 DEF OnePlace, Holds

(* What is taken out of a queue is in one place again. *)
LEMMA PlacesTaken ==
  ASSUME NEW c \in Seq(Msg), NEW q \in Seq(Msg), OnePlace(c, q), NEW i \in 1 .. Len(q)
  PROVE  /\ OnePlace(Append(c, q[i]), Without(q, i))
         /\ Holds(Append(c, q[i]), Without(q, i)) = Holds(c, q)
<1> DEFINE w == Without(q, i)
           m == q[i]
<1>1. OneEach(w) /\ Elems(w) = Elems(q) \ {m} /\ m \in Elems(q)
  BY ElemsTakenOut DEF OnePlace, Without
<1>2. m \in Msg
  OBVIOUS
<1> HIDE DEF w, m
<1>3. Elems(Append(c, m)) = Elems(c) \cup {m}
  BY <1>2, ElemsAppend
<1>4. OneEach(c) /\ m \notin Elems(c) => OneEach(Append(c, m))
  BY <1>2, ElemsAppend
<1>5. OnePlace(Append(c, m), w) /\ Holds(Append(c, m), w) = Holds(c, q)
  BY <1>1, <1>3, <1>4 DEF OnePlace, Holds
<1> QED BY <1>5 DEF w, m

(* Every step answers what it takes from an entry, and nothing else. *)
LEMMA AnswerStep ==
  ASSUME IInv, AnswerInv, [Next]_vars
  PROVE  AnswerInv'
<1> USE DEF IInv
<1>1. \A e \in Entry : /\ chain[e] \in Seq(Msg) /\ queue[e] \in Seq(Msg)
                       /\ OnePlace(chain[e], queue[e])
  BY DEF TypeOK, AnswerInv, HeldOnce
<1>2. ASSUME UNCHANGED <<chain, queue, seen, replies>>
      PROVE  AnswerInv'
  BY <1>2, SMTT(20) DEF AnswerInv, HeldOnce, RepliedOnce, RepliedWhenDone, Answered
<1>3. ASSUME NEW s \in Service, NotifySlicesLoaded(s)
      PROVE  AnswerInv'
  <2> DEFINE e == services[s]
  <2>1. e \in Entry /\ UNCHANGED <<seen, replies>>
    BY <1>3 DEF NotifySlicesLoaded, ghostVars, TypeOK
  <2>2. CASE Drained(e, chain[e])
    <3>1. /\ chain' = [chain EXCEPT ![e] = chain[e] \o queue[e]]
          /\ queue' = [queue EXCEPT ![e] = <<>>]
      BY <2>2 DEF Drained
    <3>2. /\ chain'[e] = chain[e] \o queue[e] /\ queue'[e] = <<>>
          /\ \A f \in Entry \ {e} : chain'[f] = chain[f] /\ queue'[f] = queue[f]
      BY <2>1, <3>1 DEF TypeOK
    <3> HIDE DEF e
    <3>3. /\ OnePlace(chain[e] \o queue[e], <<>>)
          /\ Holds(chain[e] \o queue[e], <<>>) = Holds(chain[e], queue[e])
      BY <1>1, <2>1, PlacesDrained
    <3> QED BY <2>1, <3>2, <3>3, OneMoved
  <2>3. CASE UNCHANGED <<queue, chain>>
    BY <1>2, <2>1, <2>3
  <2>4. ASSUME NEW i \in QueuedInitializers(e),
               chain' = [chain EXCEPT ![e] = Append(@, queue[e][i])],
               queue' = [queue EXCEPT ![e] = Without(@, i)]
        PROVE  AnswerInv'
    <3>1. i \in 1 .. Len(queue[e])
      BY <1>1, <2>1 DEF QueuedInitializers
    <3>2. /\ chain'[e] = Append(chain[e], queue[e][i]) /\ queue'[e] = Without(queue[e], i)
          /\ \A f \in Entry \ {e} : chain'[f] = chain[f] /\ queue'[f] = queue[f]
      BY <2>1, <2>4 DEF TypeOK
    <3> HIDE DEF e
    <3>3. /\ OnePlace(Append(chain[e], queue[e][i]), Without(queue[e], i))
          /\ Holds(Append(chain[e], queue[e][i]), Without(queue[e], i)) = Holds(chain[e], queue[e])
      <4> DEFINE c == chain[e]
                 q == queue[e]
      <4>1. c \in Seq(Msg) /\ q \in Seq(Msg) /\ OnePlace(c, q) /\ i \in 1 .. Len(q)
        BY <1>1, <2>1, <3>1
      <4>2. OnePlace(Append(c, q[i]), Without(q, i)) /\ Holds(Append(c, q[i]), Without(q, i)) = Holds(c, q)
        <5> HIDE DEF c, q
        <5> QED BY <4>1, PlacesTaken
      <4> QED BY <4>2
    <3> QED BY <2>1, <3>2, <3>3, OneMoved
  <2> QED BY <1>3, <2>2, <2>3, <2>4 DEF NotifySlicesLoaded
<1>4. ASSUME NEW m \in Msg, Dispatch(m)
      PROVE  AnswerInv'
  <2> DEFINE e == services[Target[m]]
  <2>1. e \in Entry /\ m \notin seen /\ seen' = seen \cup {m} /\ replies' = replies
    BY <1>4 DEF Dispatch, TypeOK
  <2>2. m \notin Holds(chain[e], queue[e])
    BY <2>1 DEF AnswerInv, HeldOnce
  <2>3. /\ OnePlace(Append(chain[e], m), queue[e])
        /\ Holds(Append(chain[e], m), queue[e]) = Holds(chain[e], queue[e]) \cup {m}
        /\ OnePlace(chain[e], Append(queue[e], m))
        /\ Holds(chain[e], Append(queue[e], m)) = Holds(chain[e], queue[e]) \cup {m}
    <3> HIDE DEF e
    <3> QED BY <1>1, <2>1, <2>2, PlacesAppend
  <2>4. \/ /\ chain'[e] = Append(chain[e], m) /\ queue'[e] = queue[e]
           /\ \A f \in Entry \ {e} : chain'[f] = chain[f] /\ queue'[f] = queue[f]
        \/ /\ queue'[e] = Append(queue[e], m) /\ chain'[e] = chain[e]
           /\ \A f \in Entry \ {e} : chain'[f] = chain[f] /\ queue'[f] = queue[f]
    BY <1>4, <2>1 DEF Dispatch, TypeOK
  <2> HIDE DEF e
  <2> QED BY <2>1, <2>3, <2>4, OneTaken
<1>5. ASSUME NEW m \in Msg, DispatchUnknown(m)
      PROVE  AnswerInv'
  <2>1. /\ m \notin seen /\ seen' = seen \cup {m} /\ Answer(m, "error")
        /\ UNCHANGED <<chain, queue>>
    BY <1>5 DEF DispatchUnknown, workVars
  <2>2. m \notin Answered /\ \A e \in Entry : m \notin Holds(chain[e], queue[e])
    BY <2>1 DEF AnswerInv, HeldOnce, RepliedWhenDone
  <2>3. RepliedOnce' /\ Answered' = Answered \cup ({m} \cap Call)
    BY <2>1, <2>2, OneMoreReply DEF AnswerInv
  <2>4. HeldOnce'
    BY <2>1 DEF AnswerInv, HeldOnce
  <2>5. RepliedWhenDone'
    BY <2>1, <2>2, <2>3 DEF AnswerInv, RepliedWhenDone
  <2> QED BY <2>3, <2>4, <2>5 DEF AnswerInv
<1>6. ASSUME NEW e \in Entry, chain[e] # <<>>, seen' = seen,
             NEW type \in {"return", "error"}, Answer(Head(chain[e]), type),
             \/ chain' = [chain EXCEPT ![e] = Tail(@)] /\ UNCHANGED queue
             \/ Drained(e, Tail(chain[e]))
      PROVE  AnswerInv'
  <2> DEFINE m == Head(chain[e])
  <2>1. /\ m \in Holds(chain[e], queue[e]) /\ Tail(chain[e]) \in Seq(Msg)
        /\ OnePlace(Tail(chain[e]), queue[e])
        /\ Holds(Tail(chain[e]), queue[e]) = Holds(chain[e], queue[e]) \ {m}
    <3> DEFINE c == chain[e]
    <3>1. c \in Seq(Msg) /\ queue[e] \in Seq(Msg) /\ OnePlace(c, queue[e]) /\ c # <<>>
      BY <1>1, <1>6
    <3> HIDE DEF c
    <3>2. /\ Head(c) \in Holds(c, queue[e]) /\ Tail(c) \in Seq(Msg)
          /\ OnePlace(Tail(c), queue[e])
          /\ Holds(Tail(c), queue[e]) = Holds(c, queue[e]) \ {Head(c)}
      BY <3>1, PlacesTail
    <3> QED BY <3>2 DEF c
  <2>2. /\ OnePlace(Tail(chain[e]) \o queue[e], <<>>)
        /\ Holds(Tail(chain[e]) \o queue[e], <<>>) = Holds(Tail(chain[e]), queue[e])
    BY <1>1, <2>1, PlacesDrained
  <2>3. \/ chain'[e] = Tail(chain[e]) /\ queue'[e] = queue[e]
        \/ chain'[e] = Tail(chain[e]) \o queue[e] /\ queue'[e] = <<>>
    BY <1>6 DEF Drained, TypeOK
  <2>4. \A f \in Entry \ {e} : chain'[f] = chain[f] /\ queue'[f] = queue[f]
    BY <1>6 DEF Drained, TypeOK
  <2>5. /\ OnePlace(chain'[e], queue'[e])
        /\ Holds(chain'[e], queue'[e]) = Holds(chain[e], queue[e]) \ {m}
    BY <2>1, <2>2, <2>3
  <2> HIDE DEF m
  <2>6. Answer(m, type)
    BY <1>6 DEF m
  <2> QED BY <1>6, <2>1, <2>4, <2>5, <2>6, OneSettled
<1>7. ASSUME NEW e \in Entry, Refuse(e) \/ Succeed(e) \/ Fail(e)
      PROVE  AnswerInv'
  <2>1. chain[e] # <<>>
    BY <1>7 DEF Refuse, Succeed, Fail, RunningChained
  <2>2. \E type \in {"return", "error"} : Answer(Head(chain[e]), type)
    BY <1>7 DEF Refuse, Succeed, Fail
  <2>3. seen' = seen
    BY <1>7 DEF Refuse, Succeed, Fail
  <2>4. \/ chain' = [chain EXCEPT ![e] = Tail(@)] /\ UNCHANGED queue
        \/ Drained(e, Tail(chain[e]))
    BY <1>7 DEF Refuse, Succeed, Fail
  <2> QED BY <1>6, <2>1, <2>2, <2>3, <2>4
<1> QED
  BY <1>2, <1>3, <1>4, <1>5, <1>7
  DEF Next, vars, workVars, ghostVars, Activate, Deactivate, Invoke

(* An entry holds what is somewhere in its chain or its queue. *)
LEMMA HeldPlaces ==
  ASSUME TypeOK, NEW e \in Entry, NEW m
  PROVE  Held(e, m) <=> m \in Holds(chain[e], queue[e])
<1> DEFINE c == chain[e]
           q == queue[e]
           all == c \o q
<1>1. c \in Seq(Msg) /\ q \in Seq(Msg)
  BY DEF TypeOK
<1>2. Elems(all) = Elems(c) \cup Elems(q)
  <2> HIDE DEF c, q
  <2> QED BY <1>1, ElemsConcat
<1>3. all \in Seq(Msg)
  BY <1>1
<1>4. Held(e, m) <=> \E i \in DOMAIN all : all[i] = m
  BY DEF Held
<1> HIDE DEF all
<1>5. DOMAIN all = 1 .. Len(all)
  BY <1>3
<1> QED BY <1>2, <1>4, <1>5 DEF Elems, Holds

(* A call is answered when it has been handled or has found no service, not
   earlier, and never again, whichever of its activations, deactivations and
   failures came in between; and behaviours are never answered. *)
THEOREM CallsAnsweredOnce == Spec => []AnsweredOnce
<1>1. Init => AnswerInv
  <2> SUFFICES ASSUME Init PROVE AnswerInv
    OBVIOUS
  <2>1. \A e \in Entry : OnePlace(chain[e], queue[e]) /\ Holds(chain[e], queue[e]) = {}
    BY ElemsOfNone DEF Init, OnePlace, Holds
  <2>2. HeldOnce
    BY <2>1 DEF HeldOnce
  <2>3. Len(replies) = 0 /\ seen = {}
    BY DEF Init
  <2>4. 1 .. 0 = {}
    OBVIOUS
  <2> QED BY <2>2, <2>3, <2>4 DEF AnswerInv, RepliedOnce, RepliedWhenDone, Answered
<1>2. IInv /\ AnswerInv /\ [Next]_vars => AnswerInv'
  BY AnswerStep
<1>3. IInv /\ AnswerInv => AnsweredOnce
  <2> SUFFICES ASSUME IInv, AnswerInv, NEW m \in Msg
               PROVE  Cardinality(Replies(m)) =
                        IF m \in Call \cap seen /\ \A e \in Entry : ~Held(e, m) THEN 1 ELSE 0
    BY DEF AnsweredOnce
  <2>1. DOMAIN replies = 1 .. Len(replies)
    BY DEF IInv, TypeOK
  <2>2. m \in Answered <=> m \in Call \cap seen /\ \A e \in Entry : ~Held(e, m)
    BY HeldPlaces DEF IInv, AnswerInv, RepliedWhenDone
  <2>3. CASE m \in Answered
    <3>1. PICK i \in 1 .. Len(replies) : replies[i].msg = m
      BY <2>3 DEF Answered
    <3>2. Replies(m) = {i}
      BY <2>1, <3>1 DEF Replies, AnswerInv, RepliedOnce
    <3> QED BY <2>2, <2>3, <3>2, FS_Singleton
  <2>4. CASE m \notin Answered
    <3>1. Replies(m) = {}
      BY <2>1, <2>4 DEF Replies, Answered
    <3> QED BY <2>2, <2>4, <3>1, FS_EmptySet
  <2> QED BY <2>3, <2>4
<1> QED
  BY <1>1, <1>2, <1>3, Inductive, PTL DEF Spec
=============================================================================

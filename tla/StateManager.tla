------------------------------ MODULE StateManager ------------------------------
(***************************************************************************)
(* packages/state-manager/src with the navigate tool of the page: the       *)
(* element <state-manager-host> that makes and replaces the page's local    *)
(* copy of the interface slice, the authority behind the service bus, and   *)
(* the two ways its slice is changed: navigate() of the Guide, and any      *)
(* client that reads a snapshot and proposes a patch on top of it, as the   *)
(* package's tests do for the visitor.                                      *)
(*                                                                         *)
(* The bus (module ServiceBus) is here a FIFO to a broker that launches one *)
(* authority for every request that finds none in its map.  All authorities *)
(* post on one broadcast channel, by its name.  A bus that stops forgets    *)
(* its authorities but does not stop them, nor a launch that is under way:  *)
(* what was handed to them they still take in, and post.  The bus is one of *)
(* in-process hosts; in a worker this service does not come up (no options  *)
(* in its context), which is a launch that fails.                           *)
(*                                                                         *)
(* A value of the slice is the stack of open documents; the focus is left   *)
(* out.  An authority is the sequence of the values it has had.             *)
(***************************************************************************)
EXTENDS Naturals, Sequences, SequencesExt, Selection

CONSTANTS
  Document,    \* documents that can be opened
  Navigation,  \* the Guide's calls of navigate()
  Opening,     \* proposals of other clients: the visitor opens a document
  Target,      \* Target[p]: the document of a call or proposal
  Authority,   \* identities of authorities, the hosts of the service; also a bound
  Undefined,   \* undefined: no copy, no client, a slice without a value
  MaxBus,      \* bound: how many buses the page starts
  MaxMoves     \* bound: how often the element is connected or configured

ASSUME StateAssumption ==
  /\ Navigation \cap Opening = {}
  /\ Target \in [Navigation \cup Opening -> Document]
  /\ Authority \subseteq Nat
  /\ MaxBus \in Nat /\ MaxMoves \in Nat

VARIABLES
  connected, configured, \* of the element: isConnected, options are set
  changed,               \* Lit owes the element an updated() with options in it
  consumers,             \* ContextConsumers the element has made, one per connection
  busClient,             \* the bus whose client the ancestor provides, or Undefined
  copy,                  \* _localCopy, which is also what the provider has
  channel,               \* messages its BroadcastChannel has not handed over
  initial,               \* initialValues of the slice
  log,                   \* per authority: the values it has had, <<>> before it is launched
  current,               \* serviceToHost of the broker
  up,                    \* requests on their way to the broker
  owner,                 \* per authority: the bus whose broker launches it, or Undefined
  launching,             \* per authority: the request that waits for its launch
  inbox,                 \* per authority: requests its host has been handed
  down,                  \* per authority: snapshots on their way to the page
  standing,              \* how far who proposes is: "new", "reading", "done"
  buses, moves,          \* counters for the bounds
  mishaps                \* history of the copy: what befell it, see Mishap
elementVars == <<connected, configured, changed, consumers, copy, channel, mishaps>>
authorityVars == <<log, owner, launching, inbox>>
brokerVars == <<authorityVars, current, up, down>>
interfaceVars == <<elementVars, busClient, initial, brokerVars, standing, buses, moves>>

Proposal == Navigation \cup Opening
Source == {"ui", "guide"}
Entry == [document : Document, openedBy : Source]

Stack == Seq(Entry)
Value == Stack \cup {Undefined}
Basis == Nat \cup {Undefined}
Request == [type : {"fetch"}, live : BOOLEAN]
             \cup [type : {"read"}, id : Proposal]
             \cup [type : {"propose"}, id : Proposal, value : Value, basis : Basis]
Patch == [seq : Nat, base : Value, value : Value]
Snapshots == [request : Request, value : Value, seq : Nat]
(* rest: what the loop over the buffer has left while it waits for a snapshot. *)
Copies == [value : Value, seq : Nat, initialised : BOOLEAN, pending : Seq(Patch),
           refetching : BOOLEAN, rest : Seq(Patch)]

(* undefined is no number, no host, no message and no copy. *)
ASSUME UndefinedAssumption == Undefined \notin Nat \cup Authority \cup Request \cup Copies

(* A fetch of the copy was given up, an authority of an earlier bus has posted
   on its channel. *)
Mishap == {"timedOut", "intruded"}

Fresh == [value |-> Undefined, seq |-> 0, initialised |-> FALSE, pending |-> <<>>,
          refetching |-> FALSE, rest |-> <<>>]

(* The element may have been connected, and disconnected, once before. *)
InterfaceInit ==
  /\ connected = FALSE
  /\ configured \in BOOLEAN /\ changed = configured
  /\ consumers \in {0, 1}
  /\ busClient = Undefined
  /\ copy = Undefined /\ channel = <<>>
  /\ initial \in {Undefined, <<>>}
  /\ log = [a \in Authority |-> <<>>]
  /\ current = Undefined
  /\ up = <<>>
  /\ owner = [a \in Authority |-> Undefined]
  /\ launching = [a \in Authority |-> Undefined]
  /\ inbox = [a \in Authority |-> <<>>]
  /\ down = [a \in Authority |-> <<>>]
  /\ standing = [p \in Proposal |-> "new"]
  /\ buses = 0 /\ moves = 0 /\ mishaps = {}

Fetch(live) == [type |-> "fetch", live |-> live]
Read(p) == [type |-> "read", id |-> p]
Propose(p, value, basis) == [type |-> "propose", id |-> p, value |-> value, basis |-> basis]

-----------------------------------------------------------------------------
(* StateManagerHost *)

(* Mutant: _start() with a copy there already, since it was not stopped. *)
RestartKeeps(times) ==
  IF copy # Undefined \/ busClient' = Undefined \/ ~configured' \/ times = 0
    THEN UNCHANGED <<copy, channel, mishaps>>
    ELSE copy' = Fresh /\ channel' = <<>> /\ mishaps' = {}

(* _restart(), times times in a row: the copy is unsubscribed and its channel
   closed; _start() makes another if it has a client and options. *)
Restart(times) ==
  IF times = 0
    THEN UNCHANGED <<copy, channel, mishaps>>
    ELSE /\ channel' = <<>> /\ mishaps' = {}
         /\ copy' = IF busClient' # Undefined /\ configured' THEN Fresh ELSE Undefined

(* What is asked for a copy that was stopped, or whose timer has fired, is
   still answered, and heeded by nobody. *)
Stray(r) == IF r # Undefined /\ r.type = "fetch" THEN Fetch(FALSE) ELSE r
StrayAnswer(s) == [s EXCEPT !.request = Stray(@)]
ForgetHanded ==
  /\ launching' = [a \in Authority |-> Stray(launching[a])]
  /\ inbox' = [a \in Authority |-> [i \in DOMAIN inbox[a] |-> Stray(inbox[a][i])]]
Forget ==
  /\ ForgetHanded
  /\ down' = [a \in Authority |-> [i \in DOMAIN down[a] |-> StrayAnswer(down[a][i])]]
StrayUp == [i \in DOMAIN up |-> Stray(up[i])]

(* The init() of every copy made asks for a snapshot; the last one lives. *)
Requests(times) ==
  IF times = 0
    THEN UNCHANGED <<up, launching, inbox, down>>
    ELSE /\ Forget
         /\ up' = StrayUp \o
                  IF busClient' # Undefined /\ configured'
                    THEN [i \in 1 .. times |-> Fetch(i = times)] ELSE <<>>

(* connectedCallback(): the consumers of earlier connections ask for the
   client again, and a further one is made. *)
ConnectedCallback ==
  /\ ~connected /\ moves < MaxMoves
  /\ connected' = TRUE /\ moves' = moves + 1
  /\ consumers' = consumers + 1
  /\ UNCHANGED <<busClient, configured>>
  /\ Restart(consumers + 1) /\ Requests(consumers + 1)
  /\ UNCHANGED <<changed, initial, log, owner, current, standing, buses>>

DisconnectedCallback ==
  /\ connected
  /\ connected' = FALSE
  /\ copy' = Undefined /\ channel' = <<>> /\ mishaps' = {}
  /\ Forget /\ up' = StrayUp
  /\ UNCHANGED <<configured, changed, consumers, busClient, initial, log, owner, current,
                 standing, buses, moves>>

SetOptions ==
  /\ moves < MaxMoves
  /\ configured' = TRUE /\ changed' = TRUE /\ moves' = moves + 1
  /\ UNCHANGED <<connected, consumers, copy, channel, mishaps, busClient, initial, brokerVars,
                 standing, buses>>

Updated ==
  /\ changed /\ consumers > 0
  /\ changed' = FALSE
  /\ UNCHANGED <<connected, configured, consumers, busClient>>
  /\ LET times == IF connected THEN 1 ELSE 0 IN Restart(times) /\ Requests(times)
  /\ UNCHANGED <<initial, log, owner, current, standing, buses, moves>>

(* The context callback of every consumer. *)
Listening == IF connected THEN consumers ELSE 0

BusStarts ==
  /\ busClient = Undefined /\ buses < MaxBus
  /\ buses' = buses + 1
  /\ busClient' = buses + 1
  /\ UNCHANGED <<connected, configured, changed, consumers>>
  /\ Restart(Listening) /\ Requests(Listening)
  /\ UNCHANGED <<initial, log, owner, current, standing, moves>>

(* The pending calls of the page are rejected and its end of every transport
   is closed.  The authorities stay, with what they have been handed, and so
   does what waits for a launch. *)
BusStops ==
  /\ busClient # Undefined
  /\ busClient' = Undefined
  /\ standing' = [p \in Proposal |-> IF standing[p] = "reading" THEN "done" ELSE standing[p]]
  /\ current' = Undefined
  /\ up' = <<>>
  /\ down' = [a \in Authority |-> <<>>]
  /\ ForgetHanded
  /\ UNCHANGED <<connected, configured, changed, consumers, initial, log, owner, buses, moves>>
  /\ Restart(Listening)

-----------------------------------------------------------------------------
(* LocalCopy: applyPatchMessage() up to its await.  A patch that was made for
   another value than the copy's may fail to apply. *)
Receives(k, m, breaks) ==
  IF m.seq <= k.seq THEN k
  ELSE IF ~k.initialised \/ k.refetching THEN [k EXCEPT !.pending = Append(@, m)]
  ELSE IF m.seq > k.seq + 1 THEN [k EXCEPT !.pending = Append(@, m), !.refetching = TRUE]
  ELSE IF breaks /\ m.base # k.value THEN [k EXCEPT !.refetching = TRUE]
  ELSE [k EXCEPT !.value = m.value, !.seq = m.seq]

(* The copy becomes k, and asks for a snapshot if it now needs one. *)
Becomes(k) ==
  /\ copy' = k
  /\ up' = IF k.refetching /\ ~copy.refetching THEN Append(up, Fetch(TRUE)) ELSE up

ReceivePatch ==
  /\ copy # Undefined /\ channel # <<>>
  /\ channel' = Tail(channel)
  /\ \E breaks \in BOOLEAN : Becomes(Receives(copy, Head(channel), breaks))
  /\ UNCHANGED <<connected, configured, changed, consumers, mishaps, busClient, initial,
                 authorityVars, current, down, standing, buses, moves>>

AsSnapshot(s) ==
  [value |-> s.value, seq |-> s.seq, initialised |-> TRUE, pending |-> <<>>,
   refetching |-> FALSE, rest |-> <<>>]

(* Mutant: what was buffered before the snapshot is dropped. *)
ReplayedNone(k, s, breaks) == AsSnapshot(s)

(* A patch of the buffer.  init() does not wait for what becomes of it; a
   re-fetch goes on with the rest when that is through. *)
HandsOver(waits, k, m, breaks) ==
  IF waits /\ k.refetching THEN [k EXCEPT !.rest = Append(@, m)] ELSE Receives(k, m, breaks)

(* applySnapshot(), and then the patches that came before the snapshot, and
   what an outer loop has left. *)
Replayed(k, s, breaks) ==
  LET buffer == k.pending \o k.rest
      copies[n \in 0 .. Len(buffer)] ==
        IF n = 0 THEN AsSnapshot(s)
        ELSE HandsOver(k.initialised, copies[n - 1], buffer[n], breaks)
  IN  copies[Len(buffer)]

Answered(a) == down' = [down EXCEPT ![a] = Tail(@)]

ReceiveSnapshot(a) ==
  /\ down[a] # <<>> /\ Head(down[a]).request.type = "fetch"
  /\ IF Head(down[a]).request.live
       THEN \E breaks \in BOOLEAN :
              LET k == Replayed(copy, Head(down[a]), breaks) IN
              /\ copy' = k
              /\ up' = IF k.refetching THEN Append(up, Fetch(TRUE)) ELSE up
       ELSE UNCHANGED <<copy, up>>
  /\ Answered(a)
  /\ UNCHANGED <<connected, configured, changed, consumers, channel, mishaps, busClient, initial,
                 authorityVars, current, standing, buses, moves>>

(* The copy waits for a snapshot; init() is called once, and never again. *)
AwaitsSnapshot ==
  copy # Undefined /\ (copy.refetching \/ (~copy.initialised /\ "timedOut" \notin mishaps))

(* The timer of getSnapshot().  A copy whose first fetch was given up stays as
   it is; one that gives up a re-fetch, and with it the loop that waits for it,
   tries again when it next sees a gap. *)
FetchTimesOut ==
  /\ AwaitsSnapshot
  /\ copy' = [copy EXCEPT !.refetching = FALSE, !.rest = <<>>]
  /\ mishaps' = mishaps \cup {"timedOut"}
  /\ Forget /\ up' = StrayUp
  /\ UNCHANGED <<connected, configured, changed, consumers, channel, busClient, initial, log,
                 owner, current, standing, buses, moves>>

-----------------------------------------------------------------------------
(* Proposals *)

(* The document is brought forward, or pushed. *)
Forward(d, source, v) ==
  <<[document |-> d, openedBy |-> source]>>
    \o Only(IF v = Undefined THEN <<>> ELSE v, {e \in Entry : e.document # d})

Yields(v, d) ==
  /\ v \notin {Undefined, <<>>}
  /\ v[1].openedBy = "ui" /\ v[1].document # d

(* What becomes of the proposal decides nothing the page does: who has made it
   is done. *)
Submit(p, source, base, basis) ==
  /\ standing' = [standing EXCEPT ![p] = "done"]
  /\ up' = Append(up, Propose(p, Forward(Target[p], source, base), basis))

(* The navigate tool.  What it takes for the basisSeq is the value of the
   signal, which is undefined, and so 0, or no number. *)
Navigate(n) ==
  /\ standing[n] = "new" /\ copy # Undefined
  /\ IF Yields(copy.value, Target[n])
       THEN standing' = [standing EXCEPT ![n] = "done"] /\ UNCHANGED up
       ELSE Submit(n, "guide", copy.value, IF copy.value = Undefined THEN 0 ELSE Undefined)
  /\ UNCHANGED <<elementVars, busClient, initial, authorityVars, current, down, buses, moves>>

ReadSnapshot(p) ==
  /\ standing[p] = "new" /\ busClient # Undefined
  /\ standing' = [standing EXCEPT ![p] = "reading"]
  /\ up' = Append(up, Read(p))
  /\ UNCHANGED <<elementVars, busClient, initial, authorityVars, current, down, buses, moves>>

(* computePatch() on the snapshot, and the proposal with its seq; or the
   client has given the read up. *)
ProposeOnSnapshot(a) ==
  LET s == Head(down[a]) IN
  /\ down[a] # <<>> /\ s.request.type = "read"
  /\ IF standing[s.request.id] = "reading"
       THEN Submit(s.request.id, "ui", s.value, s.seq)
       ELSE UNCHANGED <<standing, up>>
  /\ Answered(a)
  /\ UNCHANGED <<elementVars, busClient, initial, authorityVars, current, buses, moves>>

(* The timer of the client's getSnapshot(). *)
ReadTimesOut(p) ==
  /\ standing[p] = "reading"
  /\ standing' = [standing EXCEPT ![p] = "done"]
  /\ UNCHANGED <<elementVars, busClient, initial, brokerVars, buses, moves>>

-----------------------------------------------------------------------------
(* The authority, and the broker before it *)

(* Mutant: the basis is not compared. *)
UpToDateUnchecked(a, r) == r.basis # Undefined

(* process() compares the basisSeq; one that is no number the host rejects. *)
UpToDate(a, r) == r.basis = Len(log[a]) - 1

(* It was launched by the bus there is, whose broker has a way to the page. *)
Own(a) == owner[a] # Undefined /\ owner[a] = busClient

(* The channel reaches the copy there is, from whichever authority. *)
Post(a, m) ==
  IF copy = Undefined THEN UNCHANGED <<channel, mishaps>>
  ELSE /\ channel' = Append(channel, m)
       /\ mishaps' = IF Own(a) THEN mishaps ELSE mishaps \cup {"intruded"}

ServeSnapshot(a) ==
  /\ inbox[a] # <<>> /\ Head(inbox[a]).type \in {"fetch", "read"}
  /\ down' = IF Own(a)
               THEN [down EXCEPT ![a] = Append(@,
                       [request |-> Head(inbox[a]), value |-> Last(log[a]), seq |-> Len(log[a]) - 1])]
               ELSE down
  /\ inbox' = [inbox EXCEPT ![a] = Tail(@)]
  /\ UNCHANGED <<elementVars, busClient, initial, log, owner, launching, current, up,
                 standing, buses, moves>>

IsProposal(a) == inbox[a] # <<>> /\ Head(inbox[a]).type = "propose"

(* Applied, admitted by the schema and the invariants, and posted. *)
AcceptProposal(a) ==
  LET r == Head(inbox[a]) IN
  /\ IsProposal(a) /\ UpToDate(a, r)
  /\ log' = [log EXCEPT ![a] = Append(@, r.value)]
  /\ Post(a, [seq |-> Len(log[a]), base |-> Last(log[a]), value |-> r.value])
  /\ inbox' = [inbox EXCEPT ![a] = Tail(@)]
  /\ UNCHANGED <<connected, configured, changed, consumers, copy, busClient, initial, owner,
                 launching, current, up, down, standing, buses, moves>>

(* Stale, or what does not apply, the schema does not admit, or an invariant of
   the slice rejects. *)
RefuseProposal(a) ==
  /\ IsProposal(a)
  /\ inbox' = [inbox EXCEPT ![a] = Tail(@)]
  /\ UNCHANGED <<elementVars, busClient, initial, log, owner, launching, current, up, down,
                 standing, buses, moves>>

Unlaunched == {a \in Authority : owner[a] = Undefined}

(* routeCall(), up to its await when it finds no host of the service. *)
Route ==
  /\ up # <<>> /\ up' = Tail(up)
  /\ IF current # Undefined
       THEN /\ inbox' = [inbox EXCEPT ![current] = Append(@, Head(up))]
            /\ UNCHANGED <<owner, launching>>
       ELSE /\ \E a \in Unlaunched :
                 /\ \A b \in Unlaunched : a <= b
                 /\ owner' = [owner EXCEPT ![a] = busClient]
                 /\ launching' = [launching EXCEPT ![a] = Head(up)]
            /\ UNCHANGED inbox
  /\ UNCHANGED <<elementVars, busClient, initial, log, current, down, standing, buses, moves>>

(* The broker that launched it has it in its map now, and sends the request. *)
Launched(a) ==
  /\ launching[a] # Undefined
  /\ launching' = [launching EXCEPT ![a] = Undefined]
  /\ log' = [log EXCEPT ![a] = <<initial>>]
  /\ inbox' = [inbox EXCEPT ![a] = <<launching[a]>>]
  /\ current' = IF Own(a) THEN a ELSE current
  /\ UNCHANGED <<elementVars, busClient, initial, owner, up, down, standing, buses, moves>>

(* The request is answered by nobody. *)
LaunchFails(a) ==
  /\ launching[a] # Undefined
  /\ launching' = [launching EXCEPT ![a] = Undefined]
  /\ owner' = [owner EXCEPT ![a] = Undefined]
  /\ UNCHANGED <<elementVars, busClient, initial, log, inbox, current, up, down, standing,
                 buses, moves>>

InterfaceNext ==
  \/ ConnectedCallback \/ DisconnectedCallback \/ SetOptions \/ Updated
  \/ BusStarts \/ BusStops
  \/ ReceivePatch \/ FetchTimesOut \/ Route
  \/ \E a \in Authority :
       \/ ReceiveSnapshot(a) \/ ServeSnapshot(a) \/ AcceptProposal(a)
       \/ RefuseProposal(a) \/ Launched(a) \/ LaunchFails(a) \/ ProposeOnSnapshot(a)
  \/ \E n \in Navigation : Navigate(n)
  \/ \E p \in Opening : ReadSnapshot(p) \/ ReadTimesOut(p)

InterfaceSpec == InterfaceInit /\ [][InterfaceNext]_interfaceVars

(* Event loops turn, launches settle, and timers fire. *)
Fairness ==
  /\ WF_interfaceVars(ReceivePatch) /\ WF_interfaceVars(Route)
  /\ WF_interfaceVars(FetchTimesOut)
  /\ \A a \in Authority :
       /\ WF_interfaceVars(Launched(a) \/ LaunchFails(a))
       /\ WF_interfaceVars(ServeSnapshot(a) \/ AcceptProposal(a) \/ RefuseProposal(a))
       /\ WF_interfaceVars(ReceiveSnapshot(a) \/ ProposeOnSnapshot(a))

FairInterfaceSpec == InterfaceSpec /\ Fairness

-----------------------------------------------------------------------------
(* The fields of the element and the broker, the messages and proposals hold
   what their declarations say. *)
InterfaceTypeOK ==
  /\ connected \in BOOLEAN /\ configured \in BOOLEAN /\ changed \in BOOLEAN
  /\ consumers \in Nat /\ buses \in Nat /\ busClient \in Nat \cup {Undefined}
  /\ copy \in {Undefined} \cup Copies
  /\ channel \in Seq(Patch)
  /\ log \in [Authority -> Seq(Value)]
  /\ owner \in [Authority -> Nat \cup {Undefined}]
  /\ current \in Authority \cup {Undefined}
  /\ up \in Seq(Request)
  /\ launching \in [Authority -> Request \cup {Undefined}]
  /\ inbox \in [Authority -> Seq(Request)]
  /\ down \in [Authority -> Seq(Snapshots)]
  /\ standing \in [Proposal -> {"new", "reading", "done"}]
  /\ mishaps \subseteq Mishap

(* Several requests that find no authority make one each; what holds of the
   state then is not claimed. *)
Split == \E a, b \in Authority : a # b /\ Own(a) /\ Own(b)

(* The copy of the page shows a value that the authority of its bus has had, at
   the number it had it, whatever copies, buses and authorities there were
   before and whatever was given up on the way; unless an authority of an
   earlier bus has posted on the channel since the copy was made.  That happens
   when the bus is started again while a proposal is with an authority of the
   old one or waits for its launch, although "the authority is the sole poster"
   (broadcast.ts, line 55); without the exception this does not hold. *)
CopyFaithful ==
  copy # Undefined /\ copy.initialised /\ current # Undefined
    /\ ~Split /\ "intruded" \notin mishaps =>
    copy.seq < Len(log[current]) /\ copy.value = log[current][copy.seq + 1]

(* The state is what it is declared to be, on both sides. *)
CopySound == InterfaceTypeOK /\ CopyFaithful

(* Whatever the Guide decided on, no proposal of navigate() that an authority
   accepts, one of an earlier bus included, takes the place of a document the
   visitor has opened and has in front, although the check is made on a copy
   and long before. *)
Accepts(a, p) ==
  /\ IsProposal(a) /\ Head(inbox[a]).id = p
  /\ Len(log'[a]) > Len(log[a])
PrecedenceKept ==
  [][\A n \in Navigation, a \in Authority :
       Accepts(a, n) => ~Yields(Last(log[a]), Target[n])]_interfaceVars

(* A copy comes to show what the authority holds, from its first snapshot and
   through every later change, until it is stopped, unless one of its fetches
   was given up: a first one is never made again. *)
Current == copy.initialised /\ current # Undefined /\ copy.value = Last(log[current])
ShownInTheEnd ==
  (copy # Undefined) ~> (copy = Undefined \/ Split \/ mishaps # {} \/ Current)
=============================================================================

-------------------------------- MODULE StateSync --------------------------------
(***************************************************************************)
(* packages/runtime/src, one slice: the Authority that accepts mutations,   *)
(* the local copies kept up to date by patches on a broadcast channel, and  *)
(* the store helper that submits mutations on the basis of its local copy.  *)
(*                                                                         *)
(* A slice value is the sequence of mutations that made it.  The patch of a *)
(* mutation carries what its transition made; the authority commits what    *)
(* the slice's schema parsed from it.  The two differ for the mutations in  *)
(* Normalised (a schema that strips, coerces or fills in), and for no other. *)
(*                                                                         *)
(* Patches come by BroadcastChannel, requests and replies by the runtime's  *)
(* transports, so a copy sees the two in any relative order.               *)
(***************************************************************************)
EXTENDS Naturals, Sequences, SequencesExt

CONSTANTS
  Copy,        \* threads with a LocalCopy and a store helper
  Mutation,    \* the calls of a store's mutation methods
  Owner,       \* Owner[m]: the thread that makes the call
  Normalised,  \* mutations whose result the schema rewrites
  Faults,      \* of {"lose", "fetch", "timeout", "dispose"}
  MaxLost,     \* bound on the patches the channel loses
  None         \* a value not yet fetched

(* What a mutation has made of a value, before or after the schema's parsing. *)
Token == [by : Mutation, parsed : BOOLEAN]
Value == Seq(Token)

ASSUME SyncAssumption ==
  /\ Owner \in [Mutation -> Copy]
  /\ Normalised \subseteq Mutation
  /\ Faults \subseteq {"lose", "fetch", "timeout", "dispose"}
  /\ MaxLost \in Nat
ASSUME NoneAssumption == None \notin Value

VARIABLES
  authority,   \* the authority's SliceState: value and seq
  copy,        \* a thread's SliceLocalState
  replay,      \* buffered patches applyPatchMessage() is still going through
  subscribed,  \* the LocalCopy is created and not disposed of
  called,      \* init() has been called
  patches,     \* per thread: posted on the channel, not yet received
  requests,    \* per thread: sent to the authority
  replies,     \* per thread: sent by the authority
  outcome,     \* how a mutation's promise stands
  basis,       \* the basisSeq a mutation was sent with
  seen,        \* history: the value its caller had when it was sent
  heard,       \* history: the highest seq a thread has received a patch for
  lost         \* counter for MaxLost

authorityVars == <<authority>>
copyVars == <<copy, replay, heard>>
lifeVars == <<subscribed, called>>
channels == <<patches, requests, replies>>
callVars == <<outcome, basis, seen>>
vars == <<authorityVars, copyVars, lifeVars, channels, callVars, lost>>

Patch == [seq : Nat, change : Token]
Raw(m) == [by |-> m, parsed |-> m \notin Normalised]
Parsed(m) == [by |-> m, parsed |-> TRUE]

Fresh == [value |-> None, seq |-> 0, initialised |-> FALSE,
          pending |-> <<>>, refetching |-> FALSE]

Init ==
  /\ authority = [value |-> <<>>, seq |-> 0]
  /\ copy = [c \in Copy |-> Fresh]
  /\ replay = [c \in Copy |-> <<>>]
  /\ subscribed = [c \in Copy |-> FALSE]
  /\ called = [c \in Copy |-> FALSE]
  /\ patches = [c \in Copy |-> <<>>]
  /\ requests = [c \in Copy |-> <<>>]
  /\ replies = [c \in Copy |-> <<>>]
  /\ outcome = [m \in Mutation |-> "idle"]
  /\ basis = [m \in Mutation |-> 0]
  /\ seen = [m \in Mutation |-> None]
  /\ heard = [c \in Copy |-> 0]
  /\ lost = 0

IsSnapshot(e) == e.type = "snapshot"
Request(c, e) == requests' = [requests EXCEPT ![c] = Append(@, e)]
GetSnapshot == [type |-> "snapshot"]
Snapshots(seq) == {i \in DOMAIN seq : IsSnapshot(seq[i])}

-----------------------------------------------------------------------------
(* LocalCopy *)

CreateLocalCopy(c) ==
  /\ ~subscribed[c] /\ ~called[c]
  /\ subscribed' = [subscribed EXCEPT ![c] = TRUE]
  /\ UNCHANGED <<authority, copyVars, called, channels, callVars, lost>>

InitCopy(c) ==
  /\ subscribed[c] /\ ~called[c]
  /\ called' = [called EXCEPT ![c] = TRUE]
  /\ Request(c, GetSnapshot)
  /\ UNCHANGED <<authority, copyVars, subscribed, patches, replies, callVars, lost>>

(* What applyPatchMessage() makes of a copy up to its first await.  Patches
   that do not apply are met only where a copy has drifted from the value the
   patch was made for. *)
Drifted(k) == \E i \in DOMAIN k.value : ~k.value[i].parsed
Buffered(k, p) == [k EXCEPT !.pending = Append(@, p)]
Applied(k, p) == [k EXCEPT !.value = Append(@, p.change), !.seq = p.seq]

Receives(k, p, breaks) ==
  IF p.seq <= k.seq THEN k
  ELSE IF ~k.initialised \/ k.refetching THEN Buffered(k, p)
  ELSE IF p.seq > k.seq + 1 THEN [Buffered(k, p) EXCEPT !.refetching = TRUE]
  ELSE IF breaks /\ Drifted(k) THEN [k EXCEPT !.refetching = TRUE]
  ELSE Applied(k, p)

(* Mutants: a request per buffered patch, and none at all. *)
BecomesEager(c, next) ==
  /\ copy' = [copy EXCEPT ![c] = next]
  /\ IF next.refetching THEN Request(c, GetSnapshot) ELSE UNCHANGED requests
BecomesQuietly(c, next) ==
  /\ copy' = [copy EXCEPT ![c] = next]
  /\ UNCHANGED requests

(* The copy becomes next, and asks for a snapshot if it now needs one. *)
Becomes(c, next) ==
  /\ copy' = [copy EXCEPT ![c] = next]
  /\ IF next.refetching /\ ~copy[c].refetching
       THEN Request(c, GetSnapshot) ELSE UNCHANGED requests

(* A message event is a task: it waits for the promise callbacks that go
   through the buffer, unless those wait for a snapshot themselves. *)
ReceivePatch(c) ==
  /\ patches[c] # <<>>
  /\ replay[c] = <<>> \/ copy[c].refetching
  /\ \E breaks \in BOOLEAN : Becomes(c, Receives(copy[c], Head(patches[c]), breaks))
  /\ patches' = [patches EXCEPT ![c] = Tail(@)]
  /\ heard' = [heard EXCEPT ![c] = Head(patches[c]).seq]
  /\ UNCHANGED <<authority, replay, lifeVars, replies, callVars, lost>>

ReplayPatch(c) ==
  /\ replay[c] # <<>>
  /\ ~copy[c].refetching
  /\ \E breaks \in BOOLEAN : Becomes(c, Receives(copy[c], Head(replay[c]), breaks))
  /\ replay' = [replay EXCEPT ![c] = Tail(@)]
  /\ UNCHANGED <<authority, heard, lifeVars, patches, replies, callVars, lost>>

(* Mutant: the sequence number is forgotten. *)
RestoredOld(k, e) ==
  [value |-> e.value, seq |-> k.seq, initialised |-> TRUE,
   pending |-> <<>>, refetching |-> FALSE]
(* applySnapshot(), then the buffer: init() hands it over at once, a re-fetch
   one patch at a time, before what an outer re-fetch has left of its own. *)
Restored(k, e) ==
  [value |-> e.value, seq |-> e.seq, initialised |-> TRUE,
   pending |-> <<>>, refetching |-> FALSE]

HandedOver(k, buffer, broken) ==
  LET after[i \in 0 .. Len(buffer)] ==
        IF i = 0 THEN k ELSE Receives(after[i - 1], buffer[i], i \in broken)
  IN after[Len(buffer)]

ReceiveSnapshot(c) ==
  LET e == Head(replies[c])
      base == Restored(copy[c], e) IN
  /\ replies[c] # <<>> /\ IsSnapshot(e)
  /\ replies' = [replies EXCEPT ![c] = Tail(@)]
  /\ \/ /\ copy[c].initialised
        /\ Becomes(c, base)
        /\ replay' = [replay EXCEPT ![c] = copy[c].pending \o @]
     \/ /\ ~copy[c].initialised
        /\ \E broken \in SUBSET DOMAIN copy[c].pending :
             Becomes(c, HandedOver(base, copy[c].pending, broken))
        /\ UNCHANGED replay
  /\ UNCHANGED <<authority, heard, lifeVars, patches, callVars, lost>>

(* getSnapshot() rejects: the timer, a slice or an authority not there yet.
   A late reply finds nobody.  The loop that waited for it is given up, and
   init() is not called again. *)
FetchFails(c) ==
  /\ "fetch" \in Faults
  /\ \/ /\ \E i \in Snapshots(requests[c]) :
             requests' = [requests EXCEPT ![c] = RemoveAt(@, i)]
        /\ UNCHANGED replies
     \/ /\ \E i \in Snapshots(replies[c]) :
             replies' = [replies EXCEPT ![c] = RemoveAt(@, i)]
        /\ UNCHANGED requests
  /\ copy' = [copy EXCEPT ![c].refetching = FALSE]
  /\ replay' = [replay EXCEPT ![c] = <<>>]
  /\ UNCHANGED <<authority, heard, lifeVars, patches, callVars, lost>>

DisposeCopy(c) ==
  /\ "dispose" \in Faults
  /\ subscribed[c] /\ called[c]
  /\ subscribed' = [subscribed EXCEPT ![c] = FALSE]
  /\ patches' = [patches EXCEPT ![c] = <<>>]
  /\ UNCHANGED <<authority, copyVars, called, requests, replies, callVars, lost>>

LosePatch(c) ==
  /\ "lose" \in Faults /\ lost < MaxLost
  /\ patches[c] # <<>>
  /\ patches' = [patches EXCEPT ![c] = Tail(@)]
  /\ lost' = lost + 1
  /\ UNCHANGED <<authority, copyVars, lifeVars, requests, replies, callVars>>

-----------------------------------------------------------------------------
(* mutateWithRetry().  An error comes back as a plain RuntimeError, so the
   test for StaleBasisError fails and the caller is given the error. *)
Submit(m) ==
  LET c == Owner[m] IN
  /\ subscribed[c] /\ outcome[m] = "idle"
  /\ outcome' = [outcome EXCEPT ![m] = "asked"]
  /\ basis' = [basis EXCEPT ![m] = copy[c].seq]
  /\ seen' = [seen EXCEPT ![m] = copy[c].value]
  /\ Request(c, [type |-> "mutate", id |-> m])
  /\ UNCHANGED <<authority, copyVars, lifeVars, patches, replies, lost>>

(* Mutant: an answer settles a call that has timed out. *)
ReceiveLateAnswer(c) ==
  LET e == Head(replies[c]) IN
  /\ replies[c] # <<>> /\ ~IsSnapshot(e)
  /\ replies' = [replies EXCEPT ![c] = Tail(@)]
  /\ outcome' = [outcome EXCEPT ![e.id] = e.type]
  /\ UNCHANGED <<authority, copyVars, lifeVars, patches, requests, basis, seen, lost>>

ReceiveAnswer(c) ==
  LET e == Head(replies[c]) IN
  /\ replies[c] # <<>> /\ ~IsSnapshot(e)
  /\ replies' = [replies EXCEPT ![c] = Tail(@)]
  /\ outcome' = [outcome EXCEPT ![e.id] = IF @ = "asked" THEN e.type ELSE @]
  /\ UNCHANGED <<authority, copyVars, lifeVars, patches, requests, basis, seen, lost>>

MutationTimesOut(m) ==
  /\ "timeout" \in Faults
  /\ outcome[m] = "asked"
  /\ outcome' = [outcome EXCEPT ![m] = "timeout"]
  /\ UNCHANGED <<authority, copyVars, lifeVars, channels, basis, seen, lost>>

-----------------------------------------------------------------------------
(* Authority: a request is processed in one go, the service's promise chain
   sees to that; mutate()'s own queue is never found non-empty. *)
Takes(c, reply) ==
  /\ requests' = [requests EXCEPT ![c] = Tail(@)]
  /\ replies' = [replies EXCEPT ![c] = Append(@, reply)]

ServeSnapshot(c) ==
  /\ requests[c] # <<>> /\ IsSnapshot(Head(requests[c]))
  /\ Takes(c, [type |-> "snapshot", value |-> authority.value, seq |-> authority.seq])
  /\ UNCHANGED <<authority, copyVars, lifeVars, patches, callVars, lost>>

IsMutate(c) == requests[c] # <<>> /\ Head(requests[c]).type = "mutate"

(* A stale basis; undeclared or invalid parameters, which are looked at before
   the basis, a transition that throws, a result the schema refuses. *)
RefuseMutation(c, reason) ==
  LET m == Head(requests[c]).id IN
  /\ IsMutate(c)
  /\ reason = "stale" => basis[m] # authority.seq
  /\ Takes(c, [type |-> reason, id |-> m])
  /\ UNCHANGED <<authority, copyVars, lifeVars, patches, callVars, lost>>

(* Mutant: the basis is not compared. *)
AcceptAny(c) ==
  LET m == Head(requests[c]).id
      next == authority.seq + 1 IN
  /\ IsMutate(c)
  /\ authority' = [value |-> Append(authority.value, Parsed(m)), seq |-> next]
  /\ patches' = [d \in Copy |-> IF subscribed[d]
                   THEN Append(patches[d], [seq |-> next, change |-> Raw(m)])
                   ELSE patches[d]]
  /\ Takes(c, [type |-> "ack", id |-> m])
  /\ UNCHANGED <<copyVars, lifeVars, callVars, lost>>

AcceptMutation(c) ==
  LET m == Head(requests[c]).id
      next == authority.seq + 1 IN
  /\ IsMutate(c)
  /\ basis[m] = authority.seq
  /\ authority' = [value |-> Append(authority.value, Parsed(m)), seq |-> next]
  /\ patches' = [d \in Copy |-> IF subscribed[d]
                   THEN Append(patches[d], [seq |-> next, change |-> Raw(m)])
                   ELSE patches[d]]
  /\ Takes(c, [type |-> "ack", id |-> m])
  /\ UNCHANGED <<copyVars, lifeVars, callVars, lost>>

Next ==
  \/ \E c \in Copy :
       \/ CreateLocalCopy(c) \/ InitCopy(c) \/ DisposeCopy(c)
       \/ ReceivePatch(c) \/ ReplayPatch(c) \/ LosePatch(c)
       \/ ReceiveSnapshot(c) \/ FetchFails(c) \/ ReceiveAnswer(c)
       \/ ServeSnapshot(c) \/ AcceptMutation(c)
       \/ RefuseMutation(c, "stale") \/ RefuseMutation(c, "invalid")
  \/ \E m \in Mutation : Submit(m) \/ MutationTimesOut(m)

Spec == Init /\ [][Next]_vars

(* Event loops turn and the authority serves; no caller has to do anything. *)
Fairness ==
  \A c \in Copy :
    /\ WF_vars(ReceivePatch(c)) /\ WF_vars(ReplayPatch(c))
    /\ WF_vars(ReceiveSnapshot(c) \/ ReceiveAnswer(c))
    /\ WF_vars(ServeSnapshot(c) \/ AcceptMutation(c)
                \/ RefuseMutation(c, "stale") \/ RefuseMutation(c, "invalid"))

FairSpec == Spec /\ Fairness

-----------------------------------------------------------------------------
(* Every field and message has the type its declaration says. *)
Outcomes == {"idle", "asked", "ack", "stale", "invalid", "timeout"}
TypeOK ==
  /\ authority \in [value : Value, seq : Nat]
  /\ copy \in [Copy -> [value : Value \cup {None}, seq : Nat, initialised : BOOLEAN,
                        pending : Seq(Patch), refetching : BOOLEAN]]
  /\ replay \in [Copy -> Seq(Patch)]
  /\ subscribed \in [Copy -> BOOLEAN]
  /\ called \in [Copy -> BOOLEAN]
  /\ patches \in [Copy -> Seq(Patch)]
  /\ requests \in [Copy -> Seq([type : {"snapshot"}] \cup [type : {"mutate"}, id : Mutation])]
  /\ replies \in [Copy -> Seq([type : {"snapshot"}, value : Value, seq : Nat]
                        \cup [type : {"ack", "stale", "invalid"}, id : Mutation])]
  /\ outcome \in [Mutation -> Outcomes]
  /\ basis \in [Mutation -> Nat]
  /\ seen \in [Mutation -> Value \cup {None}]
  /\ heard \in [Copy -> Nat]
  /\ lost \in 0 .. MaxLost

(* A copy shows the mutations the authority had accepted at the copy's sequence
   number, in their order, whichever patches were lost, late or buffered behind
   which snapshot; and shows each as the authority has committed it, unless the
   schema rewrote what its patch had carried. *)
Authors(v) == [i \in DOMAIN v |-> v[i].by]
CopyFaithful ==
  \A c \in Copy : copy[c].initialised =>
    /\ copy[c].seq <= authority.seq
    /\ Authors(copy[c].value) = Authors(SubSeq(authority.value, 1, copy[c].seq))
    /\ \A i \in DOMAIN copy[c].value :
         copy[c].value[i].parsed \/ copy[c].value[i].by \in Normalised

(* A mutation is applied to what its caller's copy showed when it was sent:
   the same mutations, each as the authority has committed it unless the schema
   rewrote it.  A caller whose copy has not been initialised sends basis 0 all
   the same; its mutation is applied to the initial value, which it has not
   seen, and to no other. *)
AppliedToWhatWasSeen ==
  \A i \in DOMAIN authority.value :
    LET m == authority.value[i].by
        before == SubSeq(authority.value, 1, i - 1) IN
    IF seen[m] = None THEN before = <<>>
    ELSE /\ Authors(seen[m]) = Authors(before)
         /\ \A j \in DOMAIN before :
              seen[m][j] = before[j] \/ before[j].by \in Normalised

(* A patch is held back only while something is on its way that will release
   it: the first snapshot or a re-fetch. *)
Released(k) == k.pending # <<>> => k.refetching \/ ~k.initialised
BufferReleased == \A c \in Copy : Released(copy[c])

(* At most one snapshot is asked for at a time, so none can be applied after
   a later one: a copy re-fetches once per gap, not once per patch. *)
OneFetch ==
  \A c \in Copy :
    /\ \A i, j \in Snapshots(requests[c]) : i = j
    /\ \A i, j \in Snapshots(replies[c]) : i = j
    /\ Snapshots(requests[c]) = {} \/ Snapshots(replies[c]) = {}

(* A gap costs one re-fetch, and the re-fetch ends what the gap has caused. *)
GapsClosed == TypeOK /\ OneFetch /\ BufferReleased

(* A copy that has heard of a mutation comes to show it, through lost patches
   and re-fetches, once its init() has been called. *)
Current(c) == copy[c].initialised /\ copy[c].seq >= heard[c]
HeardIsShown == \A c \in Copy : (called[c] /\ ~Current(c)) ~> Current(c)

(* What the threads may rely on (ReplicatedSlice). *)
Shown(k) == IF k.initialised THEN Authors(k.value) ELSE None
Standing(o) ==
  CASE o = "ack" -> "acked"
    [] o \in {"stale", "invalid"} -> "refused"
    [] o = "timeout" -> "unknown"
    [] OTHER -> o
Agreed == INSTANCE ReplicatedSlice WITH
  log <- Authors(authority.value),
  view <- [c \in Copy |-> Shown(copy[c])],
  outcome <- [m \in Mutation |-> Standing(outcome[m])]
KeepsOrder == Agreed!Spec
=============================================================================

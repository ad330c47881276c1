---------------------------- MODULE ReplicatedSlice ----------------------------
(***************************************************************************)
(* What the threads that share a slice may rely on, without sequence        *)
(* numbers, patches, snapshots or channels: one agreed order of accepted    *)
(* mutations, and views that only ever move forward along it.               *)
(***************************************************************************)
EXTENDS Naturals, Sequences

CONSTANTS
  Copy,      \* the threads with a view of the slice
  Mutation,  \* the mutations ever submitted
  None       \* the view of a thread that has not seen the slice yet

VARIABLES
  log,      \* the accepted mutations, in order
  view,     \* the mutations each thread's view consists of
  outcome   \* idle, asked, acked, refused or unknown
vars == <<log, view, outcome>>

Init ==
  /\ log = <<>>
  /\ view = [c \in Copy |-> None]
  /\ outcome = [m \in Mutation |-> "idle"]

Decided(m) == \E i \in DOMAIN log : log[i] = m

Ask(m) ==
  /\ outcome[m] = "idle"
  /\ outcome' = [outcome EXCEPT ![m] = "asked"]
  /\ UNCHANGED <<log, view>>

(* Also a mutation whose caller has given up may still be accepted. *)
Accept(m) ==
  /\ outcome[m] \in {"asked", "unknown"}
  /\ ~Decided(m)
  /\ log' = Append(log, m)
  /\ UNCHANGED <<view, outcome>>

Acknowledge(m) ==
  /\ outcome[m] = "asked" /\ Decided(m)
  /\ outcome' = [outcome EXCEPT ![m] = "acked"]
  /\ UNCHANGED <<log, view>>

(* A refused mutation has not been accepted, and never will be. *)
Refuse(m) ==
  /\ outcome[m] = "asked" /\ ~Decided(m)
  /\ outcome' = [outcome EXCEPT ![m] = "refused"]
  /\ UNCHANGED <<log, view>>

GiveUp(m) ==
  /\ outcome[m] = "asked"
  /\ outcome' = [outcome EXCEPT ![m] = "unknown"]
  /\ UNCHANGED <<log, view>>

(* A view skips ahead or goes on by one; it never goes back. *)
Show(c) ==
  /\ \E n \in 0 .. Len(log) :
       /\ view[c] # None => n > Len(view[c])
       /\ view' = [view EXCEPT ![c] = SubSeq(log, 1, n)]
  /\ UNCHANGED <<log, outcome>>

Next ==
  \/ \E m \in Mutation : Ask(m) \/ Accept(m) \/ Acknowledge(m) \/ Refuse(m) \/ GiveUp(m)
  \/ \E c \in Copy : Show(c)

Spec == Init /\ [][Next]_vars
=============================================================================

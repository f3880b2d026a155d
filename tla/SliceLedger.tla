----------------------------- MODULE SliceLedger -----------------------------
(***************************************************************************)
(* What an admission episode promises, without search, routing, rollback or *)
(* verification: a ledger of free capacity from which each request takes    *)
(* its whole use at once, never more than is free, or takes nothing; an     *)
(* admitted slice gives back exactly what it took, once.                    *)
(***************************************************************************)
EXTENDS Integers

CONSTANTS Cells, Capacity, Requests

VARIABLES
  free,    \* capacity nobody holds
  held,    \* held[r]: what request r holds
  phase    \* "new", "on" or "off"

vars == <<free, held, phase>>

None == [c \in Cells |-> 0]

Init ==
  /\ free = Capacity
  /\ held = [r \in Requests |-> None]
  /\ phase = [r \in Requests |-> "new"]

\* The use is whatever r holds afterwards.
Admit(r) ==
  /\ phase[r] = "new"
  /\ phase' = [phase EXCEPT ![r] = "on"]
  /\ held'[r] \in [Cells -> Nat]
  /\ \A c \in Cells : held'[r][c] <= free[c]
  /\ held' = [held EXCEPT ![r] = held'[r]]
  /\ free' = [c \in Cells |-> free[c] - held'[r][c]]

Refuse(r) ==
  /\ phase[r] = "new"
  /\ phase' = [phase EXCEPT ![r] = "off"]
  /\ UNCHANGED <<free, held>>

Depart(r) ==
  /\ phase[r] = "on"
  /\ phase' = [phase EXCEPT ![r] = "off"]
  /\ held' = [held EXCEPT ![r] = None]
  /\ free' = [c \in Cells |-> free[c] + held[r][c]]

\* A new episode.
Reset ==
  /\ free' = Capacity
  /\ held' = [r \in Requests |-> None]
  /\ phase' = [r \in Requests |-> "new"]

Next ==
  \/ \E r \in Requests : Admit(r) \/ Refuse(r) \/ Depart(r)
  \/ Reset

Spec == Init /\ [][Next]_vars
=============================================================================

--------------------------- MODULE ConsistentView ---------------------------
(***************************************************************************)
(* What the observers of the store are promised: the store goes through a  *)
(* sequence of states, and an observer's view is at any time one of them   *)
(* (or nothing yet), moving only forward.  It may skip states and it may   *)
(* lag, but it is never a mixture of two.                                  *)
(***************************************************************************)
EXTENDS Integers

CONSTANTS State, Observers, MaxRev

VARIABLES rev, history, view, viewRev

vars == <<rev, history, view, viewRev>>

Init ==
    /\ rev = 0
    /\ history \in [0..MaxRev -> State]
    /\ viewRev = [o \in Observers |-> -1]
    /\ view \in [Observers -> State]

\* The store moves to some next state.
Commit ==
    /\ rev < MaxRev
    /\ rev' = rev + 1
    /\ \E m \in State : history' = [history EXCEPT ![rev + 1] = m]
    /\ UNCHANGED <<view, viewRev>>

\* An observer moves to a state no older than the one it has.
Observe(o) ==
    /\ \E r \in 0..rev :
         /\ r >= viewRev[o]
         /\ viewRev' = [viewRev EXCEPT ![o] = r]
         /\ view' = [view EXCEPT ![o] = history[r]]
    /\ UNCHANGED <<rev, history>>

Next == Commit \/ \E o \in Observers : Observe(o)

Spec == Init /\ [][Next]_vars
=============================================================================

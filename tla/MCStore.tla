------------------------------ MODULE MCStore ------------------------------
(***************************************************************************)
(* A small instance of Store: one setpoint with its readback twin and one  *)
(* plain point, two concurrent writers, one subscriber of each kind.       *)
(***************************************************************************)
EXTENDS Store, TLC

CONSTANTS setpoint, readback, alarm, w1, w2

MCPoints == {setpoint, readback, alarm}
MCSetpointOf == readback :> setpoint
MCBaseline == (setpoint :> 1) @@ (readback :> 1) @@ (alarm :> 0)
MCWriters == {w1, w2}

Symmetry == Permutations(MCWriters)
=============================================================================

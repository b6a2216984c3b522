--------------------------- MODULE MCControlPlane ---------------------------
(***************************************************************************)
(* A small instance of ControlPlane: a scenario of three steps, two of     *)
(* them due at the same instant and one of each kind, against two          *)
(* concurrent requests of any kind.                                        *)
(***************************************************************************)
EXTENDS ControlPlane, TLC

CONSTANTS h1, h2

MCSteps == << [at |-> 0, action |-> "link"],
              [at |-> 1, action |-> "write"],
              [at |-> 1, action |-> "expect"] >>
=============================================================================

-------------------------- MODULE MCHeartbeatFence --------------------------
(***************************************************************************)
(* Small instances of HeartbeatFence: the heartbeat, with or without       *)
(* another point, one physics tick goroutine, the server's own channel as  *)
(* the only subscriber.  All values are one value: frames are told apart   *)
(* by their revision.                                                      *)
(***************************************************************************)
EXTENDS HeartbeatFence, TLC

CONSTANTS hb, other

MCPoints == {hb, other}
MCSetpointOf == << >>
MCBaseline == [p \in Points |-> 0]

=============================================================================

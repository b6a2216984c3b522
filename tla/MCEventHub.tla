---------------------------- MODULE MCEventHub ----------------------------
(***************************************************************************)
(* Small instances of EventHub: a journal of two events, a channel of one  *)
(* or two, a handful of IDs and one or two reconnections.                  *)
(***************************************************************************)
EXTENDS EventHub, TLC
=============================================================================

------------------------- MODULE MCTelemetryStream -------------------------
(***************************************************************************)
(* One page over a store of one setpoint with its readback twin and one    *)
(* plain point.  The buffers are small, so that the channel overflows, the *)
(* handler blocks on the wire and Restore can commit an empty batch.       *)
(***************************************************************************)
EXTENDS TelemetryStream, TLC

CONSTANTS setpoint, readback, alarm

MCPoints == {setpoint, readback, alarm}
MCSetpointOf == readback :> setpoint
MCBaseline == (setpoint :> 1) @@ (readback :> 1) @@ (alarm :> 0)
=============================================================================

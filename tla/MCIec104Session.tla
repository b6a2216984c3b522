--------------------------- MODULE MCIec104Session --------------------------
(***************************************************************************)
(* A small instance of Iec104Session: an alarm with three values, the      *)
(* heartbeat and a meter that a tick moves together, and a setpoint with   *)
(* its readback.  The channel of the loop holds two Changes, so that it    *)
(* fills; hbQueue holds one heartbeat.  Sequence counters are three bits   *)
(* wide, so the numbers of an interrogation's frames wrap.                 *)
(***************************************************************************)
EXTENDS Iec104Session, TLC

CONSTANTS alarm, hb, meter, sp, rb, ems, other

MCPoints == {alarm, hb, meter, sp, rb}
MCClass == (alarm :> "alarm") @@ (sp :> "setpoint") @@ [p \in {hb, meter, rb} |-> "telemetry"]
MCObjAddr == (rb :> 1) @@ (meter :> 2) @@ (hb :> 3) @@ (alarm :> 4) @@ (sp :> 5)
MCReadback == sp :> rb
MCValid == (alarm :> {0, 1, 2}) @@ (sp :> {0, 1})

U(u) == [kind |-> "U", u |-> u]
Command(ioa, v) == [kind |-> "I", type |-> "C_S", ca |-> ems, ioa |-> ioa, value |-> v]

MCRequests == {
    STARTDT, U("STOPDT"), U("TESTFR"), U("TESTFR_CON"), [kind |-> "S"], [kind |-> "malformed"],
    interrogate(ems), interrogate(other), [kind |-> "I", type |-> "junk"],
    Command(5, 1), Command(5, 2), Command(2, 1) }
=============================================================================

---------------------------- MODULE MCDispatch ----------------------------
(***************************************************************************)
(* Two instances of Dispatch in one run.  Under zero_after and             *)
(* safe_state_after two writers send whole, half and batched commands in   *)
(* Remote operation.  Under hold, where the watchdog has no part, one      *)
(* writer changes the whole policy, the battery is anywhere between empty  *)
(* and full, and a scenario start may move the clock.                      *)
(* The setpoints' validation is an algorithm over one value; it is checked *)
(* for every value around a small domain.                                  *)
(***************************************************************************)
EXTENDS Dispatch, TLC

CONSTANTS w1, w2, MaxNowHold

Fixed == [reactive |-> 1, on |-> 1, chargeCap |-> 2, dischargeCap |-> 2, maxSOC |-> 3, minSOC |-> 1,
          start1 |-> 1, end1 |-> 4, power1 |-> -1, start2 |-> 3, end2 |-> 2, power2 |-> 2]

MCStartup == [mode |-> 0, active |-> 0] @@ Fixed
singleton(f) == [k \in DOMAIN f |-> {f[k]}]

\* Remote operation: the power pair and the mode change, the rest is fixed.
RemoteAccepted == [mode |-> {0, 2}, active |-> -2 .. 2, reactive |-> {0, 1}] @@ singleton(Fixed)
\* The policy: both limits change, negative ones included, and so does the first
\* period of the schedule - ordinary, overnight or empty.
PolicyAccepted == [mode |-> {0, 1, 2}, active |-> {-2, 0, 2}, chargeCap |-> {-1, 2},
                   dischargeCap |-> {-1, 2}, start1 |-> {1, 3}, end1 |-> {1, 4}]
                  @@ singleton(Fixed)

MCBatches == {[mode |-> 2, active |-> 2], [active |-> -2, reactive |-> 0]}

\* Every value that either instance writes.
MCAccepted == [k \in DOMAIN MCStartup |-> RemoteAccepted[k] \cup PolicyAccepted[k]]

MCSchedule == <<[start |-> "start1", end |-> "end1", power |-> "power1"],
                [start |-> "start2", end |-> "end2", power |-> "power2"]>>

battery(soc, charge, discharge) ==
    [soc |-> soc, charge |-> charge, discharge |-> discharge,
     chargeProhibited |-> soc >= 4, dischargeProhibited |-> soc <= 0]
MidRange == {battery(2, 3, 3)}
AllRange == {battery(0, 3, 0), battery(1, 3, 1), battery(2, 3, 3), battery(3, 1, 3), battery(4, 0, 3)}

entry(type, per) == [device |-> "EMS", class |-> "setpoint", dangerous |-> FALSE,
                     type |-> type, per |-> per]
MCMetas == {entry("I16", 1), entry("I16", 10), entry("F32", 1),
            entry("I16", 10) @@ [enum |-> {-3, 0, 7}], entry("F32", 1) @@ [enum |-> {1, 2}],
            entry("F32", 1) @@ [range |-> [min |-> -Unit, max |-> 2 * Unit]],
            [entry("I16", 1) EXCEPT !.dangerous = TRUE], [entry("I16", 1) EXCEPT !.class = "readback"]}
MCTenths == -90 .. 90
MCMinI16 == -8

RemoteOperation ==
    \/ \E w \in Writers : Request(w, RemoteAccepted, Batches)
    \/ \E e \in MidRange : Tick(e)

Policy ==
    \/ \E k \in Setpoints : \E v \in PolicyAccepted[k] : Write(w1, k, v)
    \/ Commit(w1)
    \/ now < MaxNowHold /\ \E e \in AllRange : Tick(e)
    \/ \E t \in Instants : Start(t)

MCNext ==
    \/ watchdogMode # "hold" /\ RemoteOperation
    \/ watchdogMode = "hold" /\ Policy
    \/ Reset

MCSpec == Init /\ [][MCNext]_vars
=============================================================================

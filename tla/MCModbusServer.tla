--------------------------- MODULE MCModbusServer ---------------------------
(***************************************************************************)
(* A small instance of ModbusServer: bytes of one bit, so that a register  *)
(* has four values and a point sixteen; the heartbeat and a meter that one *)
(* tick moves together, two setpoints side by side, and an alarm, in a     *)
(* register space of eight that wraps.  The frames read and write across   *)
(* points, halves of points, gaps and the end of the register space.       *)
(***************************************************************************)
EXTENDS ModbusServer, TLC

CONSTANTS hb, meter, spA, spB, alarm, c1, c2

MCPoints == {hb, meter, spA, spB, alarm}

At(class, addr) == [class |-> class, addr |-> addr]

MCCatalog == (hb :> At(4, 0)) @@ (meter :> At(4, 2)) @@ (spA :> At(3, 0)) @@ (spB :> At(3, 2))
             @@ (alarm :> At(2, 0))

MCStartup == (hb :> 0) @@ (meter :> 0) @@ (spA :> 1) @@ (spB :> 2) @@ (alarm :> 0)

\* Neither setpoint may be negative, nor spB seven.
MCValid == (spA :> 0..7) @@ (spB :> 0..6)

MCMaxQty == (2 :> 4) @@ (3 :> 4) @@ (4 :> 4) @@ (16 :> 4) @@ (6 :> 1)

Read(fc, start, qty) == [fc |-> fc, start |-> start, qty |-> qty]
Write(fc, start, regs) == [fc |-> fc, start |-> start, regs |-> regs]

ReadFrames == {Read(4, 0, 4), Read(4, 7, 3), Read(2, 0, 2), Read(3, 1, 2)}

WriteFrames == {
    Write(6, 0, << <<1, 0>> >>), Write(6, 1, << <<0, 1>> >>),
    Write(16, 1, << <<0, 0>>, <<1, 0>> >>),
    Write(16, 0, << <<1, 0>>, <<0, 0>>, <<1, 1>>, <<1, 1>> >>),
    Write(16, 2, << <<0, 1>>, <<0, 0>>, <<0, 1>> >>) }

OddFrames == {Read(4, 0, 0), Read(2, 0, 5), Read(5, 0, 1), None}

MCFrames == ReadFrames \cup WriteFrames \cup OddFrames

Symmetry == Permutations({c1, c2})

Both == {"iec104", "modbus"}

MCLinkOps == {[mode |-> "heartbeat_pause", targets |-> Both], [mode |-> "clear", targets |-> Both],
              [mode |-> "clear", targets |-> {"iec104"}],
              [mode |-> "drop", targets |-> {"modbus"}], [mode |-> "hang", targets |-> {"modbus"}],
              [mode |-> "delay", targets |-> Both]}
=============================================================================

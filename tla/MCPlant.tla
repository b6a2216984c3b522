------------------------------- MODULE MCPlant ------------------------------
(***************************************************************************)
(* A small instance of Plant: full power heats the battery past where the  *)
(* derating starts, and an increment crosses most of the taper band.       *)
(* Scenarios run at a speed of 2, at which a part of 1 of an increment has *)
(* no pace and one of 2 has.  Live ticks of a whole increment and requests *)
(* of any total miss the steps or land between.                            *)
(*                                                                         *)
(* Paces are looked at for speeds so small that all but the shortest       *)
(* durations are too long, for 2, and for one that is no power of two;     *)
(* floats have 6 bits, so that durations and quotients are rounded.        *)
(***************************************************************************)
EXTENDS Plant

MCDemands == {-6, 6}

MCSpacings == {1, 2, 4, 8, 16, 32, 64, 128, 256, 512, 1024, 2048, 4096, 8192, 16384,
               32768, 65536, 131072, 262144, 524288}
=============================================================================

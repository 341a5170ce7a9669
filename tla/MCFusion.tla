------------------------------ MODULE MCFusion ------------------------------
(***************************************************************************)
(* Three signals: the two die temperatures, unfiltered on the top curve,   *)
(* and a power draw in percent of a limit that may be unknown, rising fast *)
(* and falling slowly.  The power curve asks for as much as the top curve  *)
(* does at some values, for more and for less at others.  A sample that is *)
(* missing and one that is implausible go the same way, so each signal has *)
(* one of the two.                                                         *)
(***************************************************************************)
EXTENDS Fusion

MCKinds == {"GpuTemp", "GpuPower", "CpuTemp"}

MCTop   == << [temp |-> 30, duty |-> 20], [temp |-> 80, duty |-> 100] >>
MCPower == << [temp |-> 20, duty |-> 20], [temp |-> 90, duty |-> 100] >>

MCOwn  == [k \in MCKinds |-> IF k = "GpuPower" THEN MCPower ELSE << >>]
MCRise == [k \in MCKinds |-> IF k = "GpuPower" THEN 2 ELSE 4]
MCFall == [k \in MCKinds |-> IF k = "GpuPower" THEN 1 ELSE 4]

MCReadings == [k \in MCKinds |->
  CASE k = "GpuTemp"  -> {None, 40, 80}
    [] k = "GpuPower" -> {0, 2, 9}
    [] k = "CpuTemp"  -> {None, 70}]
=============================================================================

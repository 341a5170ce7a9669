--------------------------- MODULE MCControlLoop ---------------------------
(* Two duties a full ramp apart, a fallback between them that is off the   *)
(* grid of the ramp, and a step that needs several ticks to get there.     *)
(* The cpu is the hotter signal, or the only one.                          *)
EXTENDS ControlLoop

MCGraph    == << [temp |-> 31, duty |-> 20], [temp |-> 70, duty |-> 100] >>
MCTemps    == {31, 70, 80}
MCTargets  == {20, 100}
MCChannels == <<1, 2>>
MCCpu      == {80}
MCGpu      == {31}
=============================================================================

----------------------------- MODULE MCTracking -----------------------------
(* A steep curve with a flat foot and a dip (the validator allows one), so *)
(* that every branch of step_toward, both ramp directions and the          *)
(* difference between one-degree drift and one-step drift occur.           *)
EXTENDS Tracking

MCGraph   == << [temp |-> 35, duty |-> 30], [temp |-> 37, duty |-> 30],
                [temp |-> 42, duty |-> 52], [temp |-> 44, duty |-> 45] >>
MCTemps   == 35..45
MCTargets == {30, 33, 50, 100}
=============================================================================

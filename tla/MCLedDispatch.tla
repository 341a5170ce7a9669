--------------------------- MODULE MCLedDispatch ---------------------------
(***************************************************************************)
(* Two channels, three duties of which two share a bucket, and an alert    *)
(* colour that is also the gradient's colour at the edge of the top        *)
(* bucket, so that one rung may follow the other by speed alone.           *)
(***************************************************************************)
EXTENDS LedDispatch

MCStops == << [temp |-> 0, duty |-> 10], [temp |-> 60, duty |-> 70] >>
=============================================================================

------------------------------- MODULE Curve -------------------------------
(***************************************************************************)
(* The fan curve of src/curve.rs: a piecewise-linear map from temperature  *)
(* to duty, clamped at both ends, and the validity of a curve that         *)
(* src/config.rs enforces before the daemon starts.                        *)
(*                                                                         *)
(* Abstraction: the code's f64 temperatures are integers here, and the     *)
(* rounding of the interpolated duty is done on the exact rational.  The   *)
(* same operator serves the power, margin and memory curves of the fusion  *)
(* mode, whose x axis is watts or degrees of headroom.                     *)
(***************************************************************************)
EXTENDS Integers, Sequences

Duty == 0..100                     \* percent of full fan speed

CurvePoint == [temp : Int, duty : Duty]

(* What Config::validate accepts: at least one point, strictly ascending   *)
(* temperatures, no duty over 100.  Duties may go down.                    *)
ValidCurve(curve) ==
  /\ curve \in Seq(CurvePoint)
  /\ curve # << >>
  /\ \A i \in 1..(Len(curve) - 1) : curve[i].temp < curve[i + 1].temp

(* f64::round on the quotient n/d, for n >= 0 and d > 0.                   *)
RoundHalfUp(n, d) == (2 * n + d) \div (2 * d)

(* The line through a and b at t, rounded to a whole duty.                 *)
Blend(a, b, t) ==
  LET den == b.temp - a.temp
  IN  RoundHalfUp(a.duty * den + (t - a.temp) * (b.duty - a.duty), den)

(* The first window whose right end is not left of t.                      *)
Window(curve, t) ==
  CHOOSE i \in 1..(Len(curve) - 1) :
    /\ t <= curve[i + 1].temp
    /\ \A j \in 1..(i - 1) : curve[j + 1].temp < t

Interpolate(curve, t) ==
  LET first == curve[1]
      last  == curve[Len(curve)]
  IN  IF t <= first.temp THEN first.duty
      ELSE IF t >= last.temp THEN last.duty
      ELSE LET i == Window(curve, t) IN Blend(curve[i], curve[i + 1], t)
=============================================================================

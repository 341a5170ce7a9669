------------------------------ MODULE FanRamp ------------------------------
(***************************************************************************)
(* What the duty controller promises, with no word on temperatures: asked  *)
(* for a duty, the fan either goes toward it by a full stride, Step or the *)
(* whole way if that is less, or rests where it is - and it may rest only  *)
(* on the duty asked for or closer to it than Slack.  Only the very first  *)
(* request and the fallback may jump.                                      *)
(***************************************************************************)
EXTENDS Integers

CONSTANTS Step, Slack, Fallback, Unset

VARIABLES
  duty,            \* the commanded duty, Unset before the first request
  demand           \* the duty last asked for

rampVars == <<duty, demand>>

Distance(a, b) == IF a < b THEN b - a ELSE a - b
Stride(d)      == IF Distance(duty, d) < Step THEN Distance(duty, d) ELSE Step

RampInit == duty = Unset /\ demand = Unset

Start(d) == duty = Unset /\ duty' = d /\ demand' = d

Rest(d) ==
  /\ duty # Unset
  /\ demand' = d
  /\ duty' = duty
  /\ duty = d \/ Distance(duty, d) < Slack

Advance(d) ==
  /\ duty # Unset /\ duty # d
  /\ demand' = d
  /\ duty' = IF duty < d THEN duty + Stride(d) ELSE duty - Stride(d)

Panic == duty' = Fallback /\ demand' = Fallback

RampNext == \/ \E d \in 0..100 : Start(d) \/ Rest(d) \/ Advance(d)
            \/ Panic

RampSpec == RampInit /\ [][RampNext]_rampVars
=============================================================================
